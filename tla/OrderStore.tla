----------------------------- MODULE OrderStore -----------------------------
(***************************************************************************)
(* What the parts of the order queue share: the order table in MySQL, the  *)
(* keys and lists in Redis, and the calls each part still has to make to   *)
(* them.                                                                   *)
(*                                                                         *)
(* A handler of the program decides once what to do and then makes a fixed *)
(* sequence of calls, each atomic at the server, none in a transaction     *)
(* with the others, with its error ignored ("_ = rdb.Del(...)").  So an    *)
(* agent (a worker or a maintenance loop) has a decision point `pc` or a   *)
(* sequence `todo` of calls left, and every call is a step of its own.     *)
(*                                                                         *)
(* One channel (hid) is modelled: channels share no key and no list, only  *)
(* the pools, which the others may have filled at any time.  The order     *)
(* number the upstream returns (yid) is left out: it is taken to be empty, *)
(* so that dockstatus and the hash submitted_orders alone tell that an     *)
(* order was submitted.                                                    *)
(***************************************************************************)
EXTENDS Naturals, Sequences, Bags

Lists == INSTANCE BagsExt  \* BagAdd and BagRemove for the lists in Redis

CONSTANTS Orders,       \* the oids of the orders of the channel
          Slots,        \* messages that can be worked on at a time, each with a lock object
          Stamps,       \* enqueue times (orderMsg.TS), reused
          NoMsg,        \* no message
          Nobody,       \* no lock
          Orphan,       \* a lock whose object is gone: it only expires
          ResubmitOn,   \* resubmit.enabled
          MaxAttempts,  \* resubmit.max_attempts
          MaxTries,     \* bound: attempts to submit one order
          FaultKinds,   \* the faults that may happen
          MaxFaults     \* bound: how many of them

Service == {"reaper", "retrier", "scanner", "rollback"}
Feeders == {"producer", "api"}
Agents  == Slots \cup Service

ASSUME StoreAssumption ==
    /\ Slots \cap Service = {}
    /\ Nobody \notin Slots
    /\ Orphan \notin Slots
    /\ Nobody # Orphan
    /\ MaxAttempts \in Nat \ {0}
    /\ MaxTries \in Nat
    /\ MaxFaults \in Nat
    /\ FaultKinds \subseteq {"reap", "lease", "enq", "io", "read", "move", "scale", "crash", "shutdown"}

VARIABLES dock,       \* dockstatus of each order: "0" to do, "1" submitted, "2" failed
          submitted,  \* fields of the hash submitted_orders
          enq,        \* orders whose key enqueued:<oid> exists
          lock,       \* the key processing:order:<oid>: a slot, Orphan or Nobody
          pending,    \* order_queue:<hid>
          proc,       \* processing_queue:<hid>
          retry,      \* retry_schedule:<hid>, a sorted set: members are unique
          dlq         \* dlq_queue:<hid>

VARIABLES job,        \* what each agent is doing
          feed,       \* orders each feeder has read as to do, and those it marked
          up          \* the process: "up", "stopping", "rollback"

VARIABLES acked,      \* history: orders the upstream reported as accepted
          tries,      \* history: attempts to submit each order
          lost,       \* history: orders whose lock was taken from a live worker
          faults      \* history: number of faults so far

store   == <<dock, submitted, enq, lock, pending, proc, retry, dlq>>
control == <<job, feed, up>>
history == <<acked, tries, lost, faults>>
vars    == <<store, control, history>>

Msg == [oid : Orders, r : 0 .. MaxAttempts - 1, ts : Stamps]

Idle == [pc |-> "idle", at |-> "none", msg |-> NoMsg, err |-> "none", todo |-> <<>>]

Fault(kind) ==
    /\ kind \in FaultKinds
    /\ faults < MaxFaults
    /\ faults' = faults + 1

\* getSubmittedOrder and then orderAlreadySucceededInDB: what they find of order
\* o.  A failed HGET or SELECT finds nothing.  But when the HGET works and the
\* GET of the order's key in the old format fails, the order counts as
\* submitted, and is recorded as such.
Look(o, found) ==
    \/ /\ found = IF o \in submitted THEN "hash" ELSE IF dock[o] = "1" THEN "table" ELSE "nothing"
       /\ UNCHANGED <<submitted, faults>>
    \/ /\ Fault("read")
       /\ \/ /\ found \in {IF dock[o] = "1" THEN "table" ELSE "nothing"}
                           \cup (IF o \in submitted THEN {} ELSE {"nothing"})
             /\ UNCHANGED submitted
          \/ /\ o \notin submitted
             /\ found = "hash"
             /\ submitted' \in {submitted, submitted \cup {o}}

Finding == {"hash", "table", "nothing"}

-----------------------------------------------------------------------------
(* The calls.  A list is a bag: no part of the program depends on the      *)
(* order of its elements.  LREM of a value that is not there does nothing. *)

Call == {"hset", "db1", "db2", "delenq", "lrem", "dellock", "release",
         "push", "zadd", "zback", "dlqpush", "dlqrem"}

\* The message with its attempt counted, as scheduleOrderRetry stores it.
NextAttempt(m) == [m EXCEPT !.r = @ + 1]

\* Agent a makes call c for message m.
Do(a, c, m) ==
    /\ dock' = [dock EXCEPT ![m.oid] = CASE c = "db1" -> "1" [] c = "db2" -> "2" [] OTHER -> @]
    /\ submitted' = IF c = "hset" THEN submitted \cup {m.oid} ELSE submitted
    /\ enq' = IF c = "delenq" THEN enq \ {m.oid} ELSE enq
    /\ lock' = [lock EXCEPT ![m.oid] =
                  IF c = "dellock" \/ (c = "release" /\ @ = a) THEN Nobody ELSE @]
    /\ lost' = IF c = "dellock" /\ lock[m.oid] \in Slots THEN lost \cup {m.oid} ELSE lost
    /\ pending' = IF c = "push" THEN Lists!BagAdd(pending, m) ELSE pending
    /\ proc' = IF c = "lrem" THEN Lists!BagRemove(proc, m) ELSE proc
    /\ retry' = CASE c = "zadd" -> retry \cup {NextAttempt(m)}
                  [] c = "zback" -> retry \cup {m}
                  [] OTHER -> retry
    /\ dlq' = CASE c = "dlqpush" -> Lists!BagAdd(dlq, m)
                [] c = "dlqrem" -> Lists!BagRemove(dlq, m)
                [] OTHER -> dlq

\* A job with its first call made.
Advance(j) == IF Len(j.todo) = 1 THEN Idle ELSE [j EXCEPT !.todo = Tail(@)]

\* Mutant of Failed: the dead letter queue is forgotten.
FailedUnlisted == <<"db2", "lrem", "delenq">>

\* Mutant of Retried: the copy in the processing list is forgotten.
RetriedUnremoved == <<"zadd", "delenq">>

\* The sequences of calls of the handlers.
Succeeded == <<"hset", "db1", "delenq", "lrem">>
Failed    == <<"db2", "lrem", "dlqpush", "delenq">>
Retried   == <<"zadd", "delenq", "lrem">>
ReapedOut == <<"db2", "dlqpush", "lrem", "dellock", "delenq">>
=============================================================================
