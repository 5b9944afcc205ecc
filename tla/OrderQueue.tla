----------------------------- MODULE OrderQueue -----------------------------
(***************************************************************************)
(* The order queue of one channel: the workers and the maintenance loops   *)
(* on their shared store.                                                  *)
(***************************************************************************)
EXTENDS OrderWorkers, OrderMaintenance

Init ==
    /\ dock = [o \in Orders |-> "0"]
    /\ submitted = {}
    /\ enq = {}
    /\ lock = [o \in Orders |-> Nobody]
    /\ pending = EmptyBag
    /\ proc = EmptyBag
    /\ retry = {}
    /\ dlq = EmptyBag
    /\ job = [a \in Agents |-> Idle]
    /\ feed = [f \in Feeders |-> NothingRead]
    /\ up = "up"
    /\ acked = {}
    /\ tries = [o \in Orders |-> 0]
    /\ lost = {}
    /\ faults = 0

Next == WorkerNext \/ MaintenanceNext

Spec == Init /\ [][Next]_vars

-----------------------------------------------------------------------------
(* Types.                                                                  *)

PC == {"idle", "moving", "popped", "locked", "found", "checkdb", "dispatch", "submit", "calling",
       "failed", "cancelled", "confirm", "run", "mend", "drop",
       "due", "enqueue", "reap", "rolling", "dead", "reopen", "rescue"}

IsListOf(B) == IsABag(B) /\ DOMAIN B \subseteq Msg

Job == [pc : PC,
        at : Place \cup {"none"},
        msg : Msg \cup {NoMsg},
        err : {"none", "final", "transient", "timeout", "cancelled"},
        todo : Seq(Call)]

TypeOK ==
    /\ dock \in [Orders -> {"0", "1", "2"}]
    /\ submitted \subseteq Orders
    /\ enq \subseteq Orders
    /\ lock \in [Orders -> Slots \cup {Nobody, Orphan}]
    /\ IsListOf(pending) /\ IsListOf(proc) /\ IsListOf(dlq)
    /\ retry \subseteq Msg
    /\ job \in [Agents -> Job]
    /\ \A a \in Agents : job[a].pc # "idle" => job[a].msg \in Msg
    /\ feed \in [Feeders -> [Orders -> {"none", "read", "marked"}]]
    /\ up \in {"up", "stopping", "rollback"}
    /\ acked \subseteq Orders
    /\ tries \in [Orders -> 0 .. MaxTries]
    /\ lost \subseteq Orders
    /\ faults \in 0 .. MaxFaults

-----------------------------------------------------------------------------
(* Safety.                                                                 *)

\* A slot between AcquireLock and Release.
Holds(s) == job[s].pc \notin {"idle", "moving", "popped", "drop"}

\* Two workers are in the middle of the same order only when the reaper, the
\* rollback or an expiry took its lock from a worker; whatever was popped,
\* requeued, handed to a pool or restarted in between.
OneWorker ==
    \A s, t \in Slots :
        s # t /\ Holds(s) /\ Holds(t) /\ job[s].msg.oid = job[t].msg.oid
        => job[s].msg.oid \in lost

\* An order recorded as submitted is not sent to the upstream again ("avoid a
\* second submission"), not even when the record was made after the worker had
\* looked for it; except when the order's lock was taken from a worker, and as
\* long as the worker can read the record.
NoSecondSubmit ==
    [][\A s \in Slots :
        job[s].pc = "submit" /\ job'[s].pc = "calling" /\ job[s].msg.oid \notin lost
        => job[s].msg.oid \notin submitted /\ dock[job[s].msg.oid] # "1"]_vars

\* An order is recorded as submitted, in Redis or in the order table, only when
\* the upstream has accepted it: whoever repairs, confirms, reaps, rolls back or
\* rescues a copy goes by what a worker recorded after the upstream's answer.
RecordedWasAccepted ==
    \A o \in Orders : o \in submitted \/ dock[o] = "1" => o \in acked

\* Calls agent a has left.
Left(a) == {job[a].todo[i] : i \in DOMAIN job[a].todo}

\* A slot that has a copy of m in the processing list and will remove it.
Removes(s, m) ==
    /\ job[s].msg = m
    /\ job[s].pc \notin {"idle", "moving"}
    /\ Running(s) => "lrem" \in Left(s)

\* Without faults every copy in the processing list has exactly one worker
\* that removes it: no copy is left behind and none is removed twice.
ProcessingOwned ==
    \A m \in BagToSet(proc) : proc[m] = Cardinality({s \in Slots : Removes(s, m)})

\* Without faults an order to do that carries the mark enqueued:<oid>, which
\* keeps the producer from it, has a copy somewhere that will be worked on.
MarkedIsQueued ==
    \A o \in enq :
        dock[o] = "0" =>
        \/ \E m \in BagToSet(pending) \cup BagToSet(proc) : m.oid = o
        \/ \E f \in Feeders : feed[f][o] = "marked"
        \/ \E a \in Agents : job[a] # Idle /\ job[a].msg.oid = o

\* Without faults a failed order is in the dead letter queue, where the
\* scanner and the administrator look for it, or on its way there.  (A copy
\* enqueued late may still submit an order that has failed.)
FailedIsListed ==
    \A o \in Orders :
        dock[o] = "2" =>
        \/ o \in submitted
        \/ \E m \in BagToSet(dlq) : m.oid = o
        \/ \E a \in Agents : job[a] # Idle /\ job[a].msg.oid = o /\ "dlqpush" \in Left(a)

\* Without faults the queue implements OrderLifecycle.
Calling(o) == Cardinality({s \in Slots : job[s].pc = "calling" /\ job[s].msg.oid = o})

Lifecycle == INSTANCE OrderLifecycle WITH calling <- [o \in Orders |-> Calling(o)]
LifecycleSpec == Lifecycle!Spec

-----------------------------------------------------------------------------
(* Liveness.                                                               *)

\* Every loop and every worker goes on; a call to the upstream comes back (it
\* has a timeout); keys expire.  Faults have no fairness, and neither has the
\* handler of the internal enqueue.
Fairness ==
    /\ \A s \in Slots :
         /\ WF_vars(\E m \in BagToSet(pending) : Pop(s, m))
         /\ WF_vars(PushProcessing(s) \/ TakeLock(s) \/ LockBusy(s)
                    \/ LookUp(s) \/ Repair(s) \/ CheckDB(s) \/ Dispatch(s) \/ DispatchFull(s)
                    \/ TakeSubmit(s) \/ LoadCancelled(s) \/ CallUpstream(s) \/ Accepted(s) \/ Refused(s) \/ FailedSubmit(s)
                    \/ DispatchConfirm(s) \/ TakeConfirm(s) \/ Confirm(s))
    /\ \A a \in Agents : WF_vars(MakeCall(a))
    /\ WF_vars(ReadToDo("producer"))
    /\ \A f \in Feeders, o \in Orders : WF_vars(Mark(f, o) \/ Push(f, o))
    /\ WF_vars((\E m \in retry : TakeDue(m)) \/ DecideDue \/ Enqueue("retrier"))
    /\ WF_vars(\E m \in BagToSet(proc) : ~AtWork(m) /\ Reap(m))
    /\ WF_vars(DecideReap)
    /\ WF_vars(StartRollback) /\ WF_vars(DecideRollback) /\ WF_vars(Exit)
    /\ \A o \in Orders :
         /\ WF_vars(~Backed(o) /\ MarkExpires(o))
         /\ WF_vars(LockExpires(o))

FairSpec == Spec /\ Fairness

\* Every order to do is submitted or marked as failed at last: no crash,
\* shutdown, lost lock or early reap leaves it behind for ever.
EventuallySettled == \A o \in Orders : dock[o] = "0" ~> dock[o] # "0"

-----------------------------------------------------------------------------
(* What the repository says and the code does not do.                      *)

\* HuoyuanConfigView.vue: "max attempts (the first included)".
AttemptsBounded == \A o \in Orders : tries[o] <= MaxAttempts

\* order_queue.go: an order submitted before only has "the database written
\* again": its dockstatus stays "1".
SubmittedStays == [][\A o \in Orders : dock[o] = "1" => dock'[o] = "1"]_vars
=============================================================================
