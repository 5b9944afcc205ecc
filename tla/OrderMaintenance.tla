-------------------------- MODULE OrderMaintenance --------------------------
(***************************************************************************)
(* The loops beside the workers: the producer and the internal enqueue     *)
(* handler, the dispatcher of due retries, the reaper of the processing    *)
(* list, the scanner of the dead letter queue, expiry in Redis, and what   *)
(* happens when the process stops: the rollback of an orderly shutdown, or *)
(* a crash.                                                                *)
(***************************************************************************)
EXTENDS OrderStore

CONSTANT DlqAuto  \* resubmit.dlq_auto_retry.enabled

\* Agent a starts on message m, or makes the calls `todo` and is done.
Start(a, pc, m) == job' = [job EXCEPT ![a] = [Idle EXCEPT !.pc = pc, !.msg = m]]
Run(a, todo)    == job' = [job EXCEPT ![a] = [@ EXCEPT !.pc = "run", !.todo = todo]]

-----------------------------------------------------------------------------
(* enqueuePending (the producer) and pushOrderToQueue (the handler): both  *)
(* read dockstatus, then mark the order with SETNX, then push it.          *)

NothingRead == [o \in Orders |-> "none"]
ToDo        == {o \in Orders : dock[o] = "0"}

\* The producer reads all orders to do, the handler the one it was asked for.
ReadToDo(f) ==
    /\ up = "up"
    /\ feed[f] = NothingRead
    /\ ToDo # {}
    /\ \E R \in IF f = "producer" THEN {ToDo} ELSE {{o} : o \in ToDo} :
         feed' = [feed EXCEPT ![f] = [o \in Orders |-> IF o \in R THEN "read" ELSE "none"]]
    /\ UNCHANGED <<store, job, up, history>>

\* SETNX enqueued:<oid>.
Mark(f, o) ==
    /\ feed[f][o] = "read"
    /\ feed' = [feed EXCEPT ![f][o] = IF o \in enq THEN "none" ELSE "marked"]
    /\ enq' = enq \cup {o}
    /\ UNCHANGED <<dock, submitted, lock, pending, proc, retry, dlq, job, up, history>>

\* Mutant of Push: the error of the LPUSH is ignored.
PushUnchecked(f, o) ==
    /\ feed[f][o] = "marked"
    /\ \A p \in Orders : feed[f][p] # "read"
    /\ \E t \in Stamps : pending' \in {pending, Lists!BagAdd(pending, [oid |-> o, r |-> 0, ts |-> t])}
    /\ feed' = [feed EXCEPT ![f][o] = "none"]
    /\ UNCHANGED <<dock, submitted, enq, lock, proc, retry, dlq, job, up, history>>

\* LPUSH; the producer pushes after it has marked all it read.
Push(f, o) ==
    /\ feed[f][o] = "marked"
    /\ \A p \in Orders : feed[f][p] # "read"
    /\ \E t \in Stamps : pending' = Lists!BagAdd(pending, [oid |-> o, r |-> 0, ts |-> t])
    /\ feed' = [feed EXCEPT ![f][o] = "none"]
    /\ UNCHANGED <<dock, submitted, enq, lock, proc, retry, dlq, job, up, history>>

\* The LPUSH failed, or its answer was lost: the mark is taken back.
PushFails(f, o) ==
    /\ feed[f][o] = "marked"
    /\ \A p \in Orders : feed[f][p] # "read"
    /\ Fault("io")
    /\ \E t \in Stamps : pending' \in {pending, Lists!BagAdd(pending, [oid |-> o, r |-> 0, ts |-> t])}
    /\ enq' = enq \ {o}
    /\ feed' = [feed EXCEPT ![f][o] = "none"]
    /\ UNCHANGED <<dock, submitted, lock, proc, retry, dlq, job, up, acked, tries, lost>>

-----------------------------------------------------------------------------
(* dispatchDueRetries                                                      *)

\* ZREM of a member that is due; delays are not modelled.
TakeDue(m) ==
    /\ up = "up"
    /\ job["retrier"] = Idle
    /\ m \in retry
    /\ retry' = retry \ {m}
    /\ Start("retrier", "due", m)
    /\ UNCHANGED <<dock, submitted, enq, lock, pending, proc, dlq, feed, up, history>>

DecideDue ==
    /\ job["retrier"].pc = "due"
    /\ \E found \in Finding :
         /\ Look(job["retrier"].msg.oid, found)
         /\ CASE found = "hash"  -> Run("retrier", <<"db1">>)
              [] found = "table" -> Run("retrier", <<"hset", "db1">>)
              [] OTHER           -> job' = [job EXCEPT !["retrier"].pc = "enqueue"]
    /\ UNCHANGED <<dock, enq, lock, pending, proc, retry, dlq, feed, up, acked, tries, lost>>

\* enqueueOrderToHIDQueue, for the retrier and the scanner: SETNX, and LPUSH
\* when the order was not marked.  A marked order goes back to the retries;
\* the scanner only logs it.
Enqueue(a) ==
    /\ job[a].pc = "enqueue"
    /\ enq' = enq \cup {job[a].msg.oid}
    /\ CASE job[a].msg.oid \notin enq -> Run(a, <<"push">>)
         [] job[a].msg.oid \in enq /\ a = "retrier" -> Run(a, <<"zback">>)
         [] OTHER -> job' = [job EXCEPT ![a] = Idle]
    /\ UNCHANGED <<dock, submitted, lock, pending, proc, retry, dlq, feed, up, history>>

-----------------------------------------------------------------------------
(* The reaper and rollbackProcessingAll: copies in the processing list.    *)

\* A slot works on copy m, or may.
AtWork(m) == \E s \in Slots : job[s].msg = m

\* A copy is reaped when processing_timeout has passed since its order was
\* enqueued, not since it was taken: after a long wait in the queue, or when
\* the upstream is slow, its worker may be busy with it.
Reap(m) ==
    /\ up = "up"
    /\ job["reaper"] = Idle
    /\ BagIn(m, proc)
    /\ IF AtWork(m) THEN Fault("reap") ELSE UNCHANGED faults
    /\ Start("reaper", "reap", m)
    /\ UNCHANGED <<store, feed, up, acked, tries, lost>>

\* tryHandleProcessingTimeoutRetry, or a failure.
DecideReap ==
    /\ job["reaper"].pc = "reap"
    /\ LET m == job["reaper"].msg
       IN  \E found \in Finding :
             /\ Look(m.oid, found)
             /\ Run("reaper",
                    CASE found = "hash"  -> <<"db1", "lrem", "dellock", "delenq">>
                      [] found = "table" -> <<"hset", "db1", "lrem", "dellock", "delenq">>
                      [] OTHER -> IF ResubmitOn /\ m.r + 1 < MaxAttempts
                                  THEN <<"zadd", "delenq", "lrem", "dellock">>
                                  ELSE ReapedOut)
    /\ UNCHANGED <<dock, enq, lock, pending, proc, retry, dlq, feed, up, acked, tries, lost>>

\* SIGTERM: the contexts of the loops and of the consumers end, which stop when
\* they next wait; until then their calls fail.  (Of the loops this is the same
\* as Exit before the call, of the consumers it is ContextEnds.)
Shutdown ==
    /\ up = "up"
    /\ Fault("shutdown")
    /\ up' = "stopping"
    /\ UNCHANGED <<store, job, feed, acked, tries, lost>>

\* waitOrderWorkerPoolsIdle waits for the pool workers that have a job, not
\* for the jobs in the channels and not for the consumers.
StartRollback ==
    /\ up = "stopping"
    /\ \A s \in Slots : job[s].at \notin {"pool", "confirmpool"}
    /\ up' = "rollback"
    /\ UNCHANGED <<store, job, feed, history>>

TakeRollback(m) ==
    /\ up = "rollback"
    /\ job["rollback"] = Idle
    /\ BagIn(m, proc)
    /\ Start("rollback", "rolling", m)
    /\ UNCHANGED <<store, feed, up, history>>

DecideRollback ==
    /\ job["rollback"].pc = "rolling"
    /\ \E found \in Finding :
         /\ Look(job["rollback"].msg.oid, found)
         /\ Run("rollback",
                CASE found = "hash"  -> <<"db1", "lrem", "dellock", "delenq">>
                  [] found = "table" -> <<"hset", "db1", "lrem", "dellock", "delenq">>
                  [] OTHER           -> <<"lrem", "dellock", "delenq">>)
    /\ UNCHANGED <<dock, enq, lock, pending, proc, retry, dlq, feed, up, acked, tries, lost>>

-----------------------------------------------------------------------------
(* scanDLQForAutoRetry                                                     *)

TakeDead(m) ==
    /\ DlqAuto
    /\ up = "up"
    /\ job["scanner"] = Idle
    /\ BagIn(m, dlq)
    /\ Start("scanner", "dead", m)
    /\ UNCHANGED <<store, feed, up, history>>

DecideDead ==
    /\ job["scanner"].pc = "dead"
    /\ \E found \in Finding :
         /\ Look(job["scanner"].msg.oid, found)
         /\ CASE found = "hash"  -> Run("scanner", <<"dlqrem", "db1">>)
              [] found = "table" -> Run("scanner", <<"dlqrem", "hset", "db1">>)
              [] OTHER           -> job' = [job EXCEPT !["scanner"].pc = "reopen"]
    /\ UNCHANGED <<dock, enq, lock, pending, proc, retry, dlq, feed, up, acked, tries, lost>>

\* Mutant of Reopen: the UPDATE without AND dockstatus='2'.
ReopenAny ==
    /\ job["scanner"].pc = "reopen"
    /\ dock' = [dock EXCEPT ![job["scanner"].msg.oid] = "0"]
    /\ job' = [job EXCEPT !["scanner"].pc = "rescue"]
    /\ UNCHANGED <<submitted, enq, lock, pending, proc, retry, dlq, feed, up, history>>

\* Mutant of Reopen: the copy is taken off the queue and nothing is updated.
ReopenByRemoval ==
    /\ job["scanner"].pc = "reopen"
    /\ Run("scanner", <<"dlqrem">>)
    /\ UNCHANGED <<store, feed, up, history>>

\* UPDATE ... SET dockstatus='0' WHERE oid=? AND dockstatus='2': without a row
\* to change the copy stays.
Reopen ==
    /\ job["scanner"].pc = "reopen"
    /\ LET o == job["scanner"].msg.oid
       IN  IF dock[o] = "2"
           THEN /\ dock' = [dock EXCEPT ![o] = "0"]
                /\ job' = [job EXCEPT !["scanner"].pc = "rescue"]
           ELSE /\ job' = [job EXCEPT !["scanner"] = Idle]
                /\ UNCHANGED dock
    /\ UNCHANGED <<submitted, enq, lock, pending, proc, retry, dlq, feed, up, history>>

\* LREM, and a fresh message for the order.
Rescue ==
    /\ job["scanner"].pc = "rescue"
    /\ dlq' = Lists!BagRemove(dlq, job["scanner"].msg)
    /\ \E t \in Stamps : Start("scanner", "enqueue", [job["scanner"].msg EXCEPT !.r = 0, !.ts = t])
    /\ UNCHANGED <<dock, submitted, enq, lock, pending, proc, retry, feed, up, history>>

-----------------------------------------------------------------------------
(* Expiry and the end of the process.                                      *)

\* A copy of the order waits or is worked on, or is about to be pushed.
Backed(o) ==
    \/ \E m \in BagToSet(pending) \cup BagToSet(proc) : m.oid = o
    \/ \E f \in Feeders : feed[f][o] = "marked"
    \/ \E a \in Agents : job[a] # Idle /\ job[a].msg.oid = o

\* Mutant of MarkExpires: SETNX without a TTL.
MarkStays(o) == o \notin Orders /\ UNCHANGED vars

\* enqueued:<oid> expires 30 minutes after the last touch.  While a copy waits
\* or is worked on that long, it is a fault; a mark that nothing backs goes.
MarkExpires(o) ==
    /\ o \in enq
    /\ IF Backed(o) THEN Fault("enq") ELSE UNCHANGED faults
    /\ enq' = enq \ {o}
    /\ UNCHANGED <<dock, submitted, lock, pending, proc, retry, dlq, control, acked, tries, lost>>

\* The lock of a dead process.
LockExpires(o) ==
    /\ lock[o] = Orphan
    /\ lock' = [lock EXCEPT ![o] = Nobody]
    /\ UNCHANGED <<dock, submitted, enq, pending, proc, retry, dlq, control, history>>

\* The lock of a worker whose renewals stopped: they end with the context of
\* the consumer that took the lock, also when a pool has the job by now.
LockLost(o) ==
    /\ lock[o] \in Slots
    /\ Fault("lease")
    /\ lock' = [lock EXCEPT ![o] = Nobody]
    /\ lost' = lost \cup {o}
    /\ UNCHANGED <<dock, submitted, enq, pending, proc, retry, dlq, control, acked, tries>>

\* The process ends and starts again; MySQL and Redis keep what they have.
Restart ==
    /\ job' = [a \in Agents |-> Idle]
    /\ feed' = [f \in Feeders |-> NothingRead]
    /\ up' = "up"
    /\ lock' = [o \in Orders |-> IF lock[o] \in Slots THEN Orphan ELSE lock[o]]
    /\ lost' = {}
    /\ UNCHANGED <<dock, submitted, enq, pending, proc, retry, dlq, acked, tries>>

Crash == Fault("crash") /\ Restart

\* After the rollback, or in the middle of it when its 30 seconds are over.
Exit == up = "rollback" /\ UNCHANGED faults /\ Restart

MaintenanceNext ==
    \/ \E f \in Feeders :
         \/ ReadToDo(f)
         \/ \E o \in Orders : Mark(f, o) \/ Push(f, o) \/ PushFails(f, o)
    \/ (\E m \in retry : TakeDue(m)) \/ DecideDue
    \/ \E a \in {"retrier", "scanner"} : Enqueue(a)
    \/ (\E m \in BagToSet(proc) : Reap(m) \/ TakeRollback(m)) \/ DecideReap \/ DecideRollback
    \/ (\E m \in BagToSet(dlq) : TakeDead(m)) \/ DecideDead \/ Reopen \/ Rescue
    \/ \E o \in Orders : MarkExpires(o) \/ LockExpires(o) \/ LockLost(o)
    \/ Shutdown \/ StartRollback \/ Exit \/ Crash
=============================================================================
