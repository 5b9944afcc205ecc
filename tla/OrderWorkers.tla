---------------------------- MODULE OrderWorkers ----------------------------
(***************************************************************************)
(* A message on its way through the workers of one channel: a consumer     *)
(* moves it to the processing list and takes the order's lock; the submit  *)
(* pool, or the consumer itself when the pool is full, calls the upstream; *)
(* the confirm pool looks again after a call that timed out.  Consumers,   *)
(* pool workers and the two channels between them differ only in how many  *)
(* messages they hold, so the state is kept with the message: each slot is *)
(* one message, its lock object, and the place that works on it.           *)
(***************************************************************************)
EXTENDS OrderStore, FiniteSets

CONSTANTS Consumers,       \* consumer goroutines of the channel
          SubmitCap,       \* capacity of the channel submitPoolJobs
          SubmitWorkers,   \* goroutines of the submit pool
          ConfirmCap,      \* capacity of the channel confirmPoolJobs
          ConfirmWorkers,  \* goroutines of the confirm pool
          RetryOnTimeout,  \* resubmit.retry_on_timeout
          SameSecond       \* a repeated UPDATE may find nothing to change

Place == {"consumer", "submitq", "pool", "confirmq", "confirmpool"}

AtPlace(p) == Cardinality({s \in Slots : job[s].at = p})

Become(s, pc) == job' = [job EXCEPT ![s].pc = pc]

\* The calls slot s makes until it is done.  With its lock it ends by Release.
\* What the consumer does before it submits ("mend") runs with its context;
\* finalizeSubmitOutcome has a context that does not end.
Finish(s, todo) ==
    job' = [job EXCEPT ![s] = [@ EXCEPT !.pc = "run", !.todo = Append(todo, "release")]]

Mend(s, todo) ==
    job' = [job EXCEPT ![s] = [@ EXCEPT !.pc = "mend", !.todo = Append(todo, "release")]]

-----------------------------------------------------------------------------
(* consumer                                                                *)

\* BLMOVE.
Pop(s, m) ==
    /\ up = "up"
    /\ job[s] = Idle
    /\ AtPlace("consumer") < Consumers
    /\ BagIn(m, pending)
    /\ pending' = Lists!BagRemove(pending, m)
    /\ proc' = Lists!BagAdd(proc, m)
    /\ job' = [job EXCEPT ![s] = [Idle EXCEPT !.pc = "popped", !.at = "consumer", !.msg = m]]
    /\ UNCHANGED <<dock, submitted, enq, lock, retry, dlq, feed, up, history>>

\* BLMOVE took effect and its answer was lost: nobody works on the copy.
PopUnanswered(m) ==
    /\ up = "up"
    /\ BagIn(m, pending)
    /\ Fault("move")
    /\ pending' = Lists!BagRemove(pending, m)
    /\ proc' = Lists!BagAdd(proc, m)
    /\ UNCHANGED <<dock, submitted, enq, lock, retry, dlq, control, acked, tries, lost>>

\* BLMOVE failed: BRPOP, and LPUSH as a second call.
PopOnly(s, m) ==
    /\ up = "up"
    /\ job[s] = Idle
    /\ AtPlace("consumer") < Consumers
    /\ BagIn(m, pending)
    /\ Fault("move")
    /\ pending' = Lists!BagRemove(pending, m)
    /\ job' = [job EXCEPT ![s] = [Idle EXCEPT !.pc = "moving", !.at = "consumer", !.msg = m]]
    /\ UNCHANGED <<dock, submitted, enq, lock, proc, retry, dlq, feed, up, acked, tries, lost>>

PushProcessing(s) ==
    /\ job[s].pc = "moving"
    /\ proc' = Lists!BagAdd(proc, job[s].msg)
    /\ Become(s, "popped")
    /\ UNCHANGED <<dock, submitted, enq, lock, pending, retry, dlq, feed, up, history>>

\* The LPUSH failed: back to the queue, if Redis takes that.
PushProcessingFails(s) ==
    /\ job[s].pc = "moving"
    /\ Fault("io")
    /\ pending' \in {pending, Lists!BagAdd(pending, job[s].msg)}
    /\ job' = [job EXCEPT ![s] = Idle]
    /\ UNCHANGED <<dock, submitted, enq, lock, proc, retry, dlq, feed, up, acked, tries, lost>>

\* Mutant of TakeLock: SET instead of SETNX.
TakeLockAnyway(s) ==
    /\ job[s].pc = "popped"
    /\ lock' = [lock EXCEPT ![job[s].msg.oid] = s]
    /\ Become(s, "locked")
    /\ UNCHANGED <<dock, submitted, enq, pending, proc, retry, dlq, feed, up, history>>

\* Mutant of TakeLock: the value 1, as for the marks, instead of a token.
TakeLockWithoutToken(s) ==
    /\ job[s].pc = "popped"
    /\ lock[job[s].msg.oid] = Nobody
    /\ lock' = [lock EXCEPT ![job[s].msg.oid] = "1"]
    /\ Become(s, "locked")
    /\ UNCHANGED <<dock, submitted, enq, pending, proc, retry, dlq, feed, up, history>>

\* AcquireLock; DistributedLock has the protocol.
TakeLock(s) ==
    /\ job[s].pc = "popped"
    /\ lock[job[s].msg.oid] = Nobody
    /\ lock' = [lock EXCEPT ![job[s].msg.oid] = s]
    /\ Become(s, "locked")
    /\ UNCHANGED <<dock, submitted, enq, pending, proc, retry, dlq, feed, up, history>>

\* Mutant of LockBusy: the copy stays in the processing list.
LockBusyLeaves(s) ==
    /\ job[s].pc = "popped"
    /\ lock[job[s].msg.oid] # Nobody
    /\ job' = [job EXCEPT ![s] = Idle]
    /\ UNCHANGED <<store, feed, up, history>>

\* "The lock is taken": the copy is dropped; enqueued:<oid> is left as it is.
LockBusy(s) ==
    /\ job[s].pc = "popped"
    /\ lock[job[s].msg.oid] # Nobody
    /\ job' = [job EXCEPT ![s] = [@ EXCEPT !.pc = "drop", !.todo = <<"lrem">>]]
    /\ UNCHANGED <<store, feed, up, history>>

\* Any other error: requeueFromProcessing, RPUSH and then LREM; three failures
\* leave the copy where it is.
LockFails(s) ==
    /\ job[s].pc = "popped"
    /\ Fault("io")
    /\ \/ job' = [job EXCEPT ![s] = [@ EXCEPT !.pc = "drop", !.todo = <<"push", "lrem">>]]
       \/ job' = [job EXCEPT ![s] = Idle]
    /\ UNCHANGED <<store, feed, up, acked, tries, lost>>

\* Mutant of LookUp: submitted_orders is not looked at.
NotLookedUp(s) ==
    /\ job[s].pc = "locked"
    /\ Become(s, "checkdb")
    /\ UNCHANGED <<store, feed, up, history>>

\* getSubmittedOrder.
LookUp(s) ==
    /\ job[s].pc = "locked"
    /\ Become(s, IF job[s].msg.oid \in submitted THEN "found" ELSE "checkdb")
    /\ UNCHANGED <<store, feed, up, history>>

\* It failed: see Look.
LookUpFails(s) ==
    /\ job[s].pc = "locked"
    /\ Fault("read")
    /\ \/ Become(s, "checkdb") /\ UNCHANGED submitted
       \/ /\ job[s].msg.oid \notin submitted
          /\ Become(s, "found")
          /\ submitted' \in {submitted, submitted \cup {job[s].msg.oid}}
    /\ UNCHANGED <<dock, enq, lock, pending, proc, retry, dlq, feed, up, acked, tries, lost>>

\* Submitted before: only the database is written.
Repair(s) ==
    /\ job[s].pc = "found"
    /\ dock' = [dock EXCEPT ![job[s].msg.oid] = "1"]
    /\ Mend(s, <<"delenq", "lrem">>)
    /\ UNCHANGED <<submitted, enq, lock, pending, proc, retry, dlq, feed, up, history>>

\* The UPDATE changed no row, which updateOrderStatusSubmitted reports as an
\* error: MySQL does not count a row that already has the values written, and
\* update_time has a resolution of one second.
RepairFindsNothing(s) ==
    /\ SameSecond
    /\ job[s].pc = "found"
    /\ dock[job[s].msg.oid] = "1"
    /\ Mend(s, Failed)
    /\ UNCHANGED <<store, feed, up, history>>

RepairFails(s) ==
    /\ job[s].pc = "found"
    /\ Fault("io")
    /\ Mend(s, Failed)
    /\ UNCHANGED <<store, feed, up, acked, tries, lost>>

\* orderAlreadySucceededInDB.  (checkRateLimit, before it, reports a denial
\* together with an error, so that the branch that requeues is never taken.)
CheckDB(s) ==
    /\ job[s].pc = "checkdb"
    /\ IF dock[job[s].msg.oid] = "1" THEN Mend(s, Succeeded) ELSE Become(s, "dispatch")
    /\ UNCHANGED <<store, feed, up, history>>

CheckDBFails(s) ==
    /\ job[s].pc = "checkdb"
    /\ Fault("read")
    /\ Become(s, "dispatch")
    /\ UNCHANGED <<store, feed, up, acked, tries, lost>>

\* The consumer's context ends: it is scaled down, its channel is paused, or
\* the process stops.  Its calls fail from now on: it finds nothing and writes
\* nothing, but goes on, and only Release has another context.
ContextEnds(s) ==
    /\ job[s].at = "consumer"
    /\ job[s].err # "cancelled"
    /\ IF up = "up" THEN Fault("scale") ELSE UNCHANGED faults
    /\ \/ job[s].pc \in {"moving", "popped", "drop"} /\ job' = [job EXCEPT ![s] = Idle]
       \/ job[s].pc \in {"found", "mend"} /\ job[s].todo # <<"release">> /\ Mend(s, <<>>)
       \/ /\ job[s].pc \in {"locked", "checkdb", "dispatch"}
          /\ job' = [job EXCEPT ![s] = [@ EXCEPT !.pc = "dispatch", !.err = "cancelled"]]
       \/ job[s].pc = "submit" /\ job' = [job EXCEPT ![s].err = "cancelled"]
    /\ UNCHANGED <<store, feed, up, acked, tries, lost>>

\* tryDispatchSubmitPool: a job of the pool has a context of its own.
Dispatch(s) ==
    /\ job[s].pc = "dispatch"
    /\ AtPlace("submitq") < SubmitCap
    /\ job' = [job EXCEPT ![s] = [@ EXCEPT !.pc = "submit", !.at = "submitq", !.err = "none"]]
    /\ UNCHANGED <<store, feed, up, history>>

\* The channel, which all hids share, is full: the consumer submits by itself.
DispatchFull(s) ==
    /\ job[s].pc = "dispatch"
    /\ Become(s, "submit")
    /\ UNCHANGED <<store, feed, up, history>>

-----------------------------------------------------------------------------
(* submitPoolWorker, submitViaPlugin and finalizeSubmitOutcome             *)

TakeSubmit(s) ==
    /\ job[s].at = "submitq"
    /\ AtPlace("pool") < SubmitWorkers
    /\ job' = [job EXCEPT ![s].at = "pool"]
    /\ UNCHANGED <<store, feed, up, history>>

\* submitViaInternal: an attempt, whether or not it gets to call the upstream.
Try(s) ==
    /\ job[s].pc = "submit"
    /\ job[s].at \in {"pool", "consumer"}
    /\ tries[job[s].msg.oid] < MaxTries
    /\ tries' = [tries EXCEPT ![job[s].msg.oid] = @ + 1]

\* The order, its channel or the platform's rule could not be loaded: no call.
\* "timeout" and "transient" are errors isRetryableSubmitError accepts.
LoadFails(s) ==
    /\ Try(s)
    /\ job[s].err # "cancelled"
    /\ \E e \in {"final", "transient", "timeout"} :
         job' = [job EXCEPT ![s] = [@ EXCEPT !.pc = "failed", !.err = e]]
    /\ UNCHANGED <<store, feed, up, acked, lost, faults>>

\* The query was cancelled with the consumer.  Of all errors only this one is
\* still recognised as a timeout after SanitizeUserVisibleError, and only the
\* consumer's own submit runs with the consumer's context.
LoadCancelled(s) ==
    /\ Try(s)
    /\ job[s].err = "cancelled"
    /\ Become(s, "cancelled")
    /\ UNCHANGED <<store, feed, up, acked, lost, faults>>

\* Mutant of CallUpstream: the order is recorded as submitted before the call.
CallRecorded(s) ==
    /\ Try(s)
    /\ job[s].err # "cancelled"
    /\ Become(s, "calling")
    /\ submitted' = submitted \cup {job[s].msg.oid}
    /\ UNCHANGED <<dock, enq, lock, pending, proc, retry, dlq, feed, up, acked, lost, faults>>

CallUpstream(s) ==
    /\ Try(s)
    /\ job[s].err # "cancelled"
    /\ Become(s, "calling")
    /\ UNCHANGED <<store, feed, up, acked, lost, faults>>

\* Mutant of Accepted: the success is taken for a failure.
AcceptedAsFailure(s) ==
    /\ job[s].pc = "calling"
    /\ acked' = acked \cup {job[s].msg.oid}
    /\ Finish(s, Failed)
    /\ UNCHANGED <<store, feed, up, tries, lost, faults>>

Accepted(s) ==
    /\ job[s].pc = "calling"
    /\ acked' = acked \cup {job[s].msg.oid}
    /\ Finish(s, Succeeded)
    /\ UNCHANGED <<store, feed, up, tries, lost, faults>>

\* Refused for good, failed in a way that may pass, or timed out: the rule
\* engines report all three as a result, never as an error.
Refused(s) ==
    /\ job[s].pc = "calling"
    /\ \E e \in {"final", "transient", "timeout"} :
         job' = [job EXCEPT ![s] = [@ EXCEPT !.pc = "failed", !.err = e]]
    /\ UNCHANGED <<store, feed, up, history>>

\* "Missing or illegal oid": the database is asked again.
FailedButSubmitted(s) ==
    /\ job[s].pc = "failed"
    /\ job[s].err = "final"
    /\ dock[job[s].msg.oid] = "1"
    /\ Finish(s, Succeeded)
    /\ UNCHANGED <<store, feed, up, history>>

MayRetry(s) ==
    /\ ResubmitOn
    /\ job[s].msg.r + 1 < MaxAttempts
    /\ job[s].err \in {"transient", "timeout"}

\* tryHandleSubmitRetry, and markOrderTerminalFailure.
FailedSubmit(s) ==
    /\ job[s].pc = "failed"
    /\ Finish(s, IF MayRetry(s) THEN Retried ELSE Failed)
    /\ UNCHANGED <<store, feed, up, history>>

-----------------------------------------------------------------------------
(* tryDispatchConfirmPool and runSubmitTimeoutConfirmation                 *)

\* When the channel is full, of whatever hid, the caller runs the confirmation
\* itself.
DispatchConfirm(s) ==
    /\ job[s].pc = "cancelled"
    /\ \/ /\ AtPlace("confirmq") < ConfirmCap
          /\ job' = [job EXCEPT ![s] = [@ EXCEPT !.pc = "confirm", !.at = "confirmq"]]
       \/ job' = [job EXCEPT ![s] = [@ EXCEPT !.pc = "confirm", !.at = "consumer"]]
    /\ UNCHANGED <<store, feed, up, history>>

TakeConfirm(s) ==
    /\ job[s].at = "confirmq"
    /\ AtPlace("confirmpool") < ConfirmWorkers
    /\ job' = [job EXCEPT ![s].at = "confirmpool"]
    /\ UNCHANGED <<store, feed, up, history>>

\* Only here does retry_on_timeout count, and "context canceled" is no error
\* MayRetry accepts: what gets here is never retried.
Confirm(s) ==
    /\ job[s].pc = "confirm"
    /\ job[s].at \in {"confirmpool", "consumer"}
    /\ \E found \in Finding :
         /\ Look(job[s].msg.oid, found)
         /\ Finish(s, CASE found = "hash"  -> <<"lrem", "delenq">>
                        [] found = "table" -> Succeeded
                        [] OTHER -> IF RetryOnTimeout /\ MayRetry(s) THEN Retried ELSE Failed)
    /\ UNCHANGED <<dock, enq, lock, pending, proc, retry, dlq, feed, up, acked, tries, lost>>

\* confirmCtx (5s) ends: every call left fails, except Release.
ConfirmExpires(s) ==
    /\ job[s].pc = "run"
    /\ job[s].at = "confirmpool"
    /\ Len(job[s].todo) > 1
    /\ job' = [job EXCEPT ![s].todo = <<"release">>]
    /\ UNCHANGED <<store, feed, up, history>>

-----------------------------------------------------------------------------
(* The calls of a slot, and of the maintenance loops.                      *)

Running(a) == job[a].pc \in {"run", "mend", "drop"} /\ job[a].todo # <<>>

MakeCall(a) ==
    /\ Running(a)
    /\ Do(a, Head(job[a].todo), job[a].msg)
    /\ job' = [job EXCEPT ![a] = Advance(@)]
    /\ UNCHANGED <<feed, up, acked, tries, faults>>

\* What agent a does after the failure of its next call: most errors are
\* ignored.  A failed ZADD turns the retry into a failure; a failed push takes
\* the mark back (enqueueOrderToHIDQueue) or leaves the copy where it is
\* (requeueFromProcessing).
AfterFailure(a) ==
    LET c == Head(job[a].todo)
    IN  CASE c = "zadd" /\ a \in Slots    -> [job[a] EXCEPT !.todo = Append(Failed, "release")]
          [] c = "zadd" /\ a \notin Slots -> [job[a] EXCEPT !.todo = ReapedOut]
          [] c = "push" /\ a \in Slots    -> Idle
          [] c = "push" /\ a = "scanner"  -> [job[a] EXCEPT !.todo = <<"delenq">>]
          [] c = "push" /\ a = "retrier"  -> [job[a] EXCEPT !.todo = <<"delenq", "zback">>]
          [] OTHER                        -> Advance(job[a])

\* The call had no effect.  A lock that Release did not delete is left to expire.
CallFails(a) ==
    /\ Running(a)
    /\ Fault("io")
    /\ job' = [job EXCEPT ![a] = AfterFailure(a)]
    /\ lock' = [lock EXCEPT ![job[a].msg.oid] =
                  IF Head(job[a].todo) = "release" /\ @ = a THEN Orphan ELSE @]
    /\ UNCHANGED <<dock, submitted, enq, pending, proc, retry, dlq, feed, up, acked, tries, lost>>

\* It took effect, but its answer was lost.
CallUnanswered(a) ==
    /\ Running(a)
    /\ Fault("io")
    /\ Do(a, Head(job[a].todo), job[a].msg)
    /\ job' = [job EXCEPT ![a] = AfterFailure(a)]
    /\ UNCHANGED <<feed, up, acked, tries>>

WorkerNext ==
    \/ \E s \in Slots :
         \/ \E m \in BagToSet(pending) : Pop(s, m) \/ PopOnly(s, m)
         \/ PushProcessing(s) \/ PushProcessingFails(s)
         \/ TakeLock(s) \/ LockBusy(s) \/ LockFails(s)
         \/ LookUp(s) \/ LookUpFails(s)
         \/ Repair(s) \/ RepairFindsNothing(s) \/ RepairFails(s)
         \/ CheckDB(s) \/ CheckDBFails(s) \/ ContextEnds(s)
         \/ Dispatch(s) \/ DispatchFull(s)
         \/ TakeSubmit(s) \/ LoadFails(s) \/ LoadCancelled(s)
         \/ CallUpstream(s) \/ Accepted(s) \/ Refused(s)
         \/ FailedButSubmitted(s) \/ FailedSubmit(s)
         \/ DispatchConfirm(s) \/ TakeConfirm(s) \/ Confirm(s) \/ ConfirmExpires(s)
    \/ \E m \in BagToSet(pending) : PopUnanswered(m)
    \/ \E a \in Agents : MakeCall(a) \/ CallFails(a) \/ CallUnanswered(a)
=============================================================================
