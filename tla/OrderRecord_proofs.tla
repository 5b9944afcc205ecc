------------------------- MODULE OrderRecord_proofs -------------------------
(***************************************************************************)
(* An order is recorded as submitted only after the upstream accepted it   *)
(* (OrderQueue), for any number of orders, messages, consumers, pool       *)
(* workers, attempts and faults, as long as the lookups do not fail: a     *)
(* failed GET of a key in the old format is taken for a submitted order.   *)
(*                                                                         *)
(* RecordedWasAccepted alone is not inductive: the calls that record an    *)
(* order are made long after the decision to make them, and an agent that  *)
(* found a record acts on it in a later step.  Known says that whoever is  *)
(* about to record an order goes by an acceptance.                         *)
(*                                                                         *)
(* The second part shows that without faults the queue implements          *)
(* OrderLifecycle, for any number of them: every step is a step of an      *)
(* order's life or leaves it as it is.  A step that writes the order table *)
(* may be taken long after what it goes by: FateInv says that only an      *)
(* order the upstream has not accepted is about to be marked failed, and   *)
(* that an accepted one is in submitted or about to be; OwnInv             *)
(* (OrderQueue_proofs), that nobody else works on the order in the         *)
(* meantime.                                                               *)
(*                                                                         *)
(* The third part shows that every failed order is in the dead letter      *)
(* queue or about to be put there (FailedIsListed).  The scanner reopens   *)
(* an order and removes its entry in two calls, between which the order    *)
(* may fail again: ListedInv says of every agent with such calls left what *)
(* the list still has to hold.                                             *)
(*                                                                         *)
(* The fourth part shows that the mark of an order has a copy behind it    *)
(* (MarkedIsQueued).  A consumer that finds the lock taken drops its copy  *)
(* and leaves the mark: MarkedInv says that whoever holds the lock still   *)
(* has the outcome of the order to record.                                 *)
(*                                                                         *)
(* The fifth part shows that an order on record as submitted is not sent   *)
(* again (NoSecondSubmit), whatever crashes, expires, is moved, reaped     *)
(* early or fails to be written.  AwareInv says of every agent what it     *)
(* found out about its order and still goes by: nobody else holds the      *)
(* order's lock, and the reaper, which needs none, records only what is on *)
(* record already.                                                         *)
(*                                                                         *)
(* The sixth part shows the same with resubmission and the scan of the     *)
(* dead letter queue (RetriedOnce), when calls take effect: LedgerInv says *)
(* that the table calls an order submitted only after submitted_orders     *)
(* does, and that nobody but the order's worker puts it there.             *)
(***************************************************************************)
EXTENDS OrderQueue_proofs

-----------------------------------------------------------------------------
(* The inductive invariant.                                                *)

\* Calls that do not record an order as submitted.
Silent(q) == \A i \in DOMAIN q : q[i] \notin {"hset", "db1"}

\* Job k will record nothing, or its order is one of A.
Known(k, A) == (k.pc # "found" /\ Silent(k.todo)) \/ k.msg.oid \in A

RecordInv == RecordedWasAccepted /\ \A a \in Agents : Known(job[a], acked)

-----------------------------------------------------------------------------
(* Sequences of calls.                                                     *)

\* What the handlers do to an order that is not submitted records nothing.
LEMMA SilentHandlers ==
    /\ Silent(<<>>) /\ Silent(<<"lrem">>) /\ Silent(<<"push">>) /\ Silent(<<"push", "lrem">>)
    /\ Silent(Failed) /\ Silent(Retried) /\ Silent(ReapedOut)
    /\ Silent(<<"delenq">>) /\ Silent(<<"zback">>) /\ Silent(<<"delenq", "zback">>)
    /\ Silent(<<"delenq", "lrem">>) /\ Silent(<<"lrem", "delenq">>)
    /\ Silent(<<"lrem", "dellock", "delenq">>) /\ Silent(<<"zadd", "delenq", "lrem", "dellock">>)
BY DEF Silent, Failed, Retried, ReapedOut

\* Nor does Release.
LEMMA SilentAppend ==
    ASSUME NEW m, NEW q, Plain(q, m), Silent(q)
    PROVE  Silent(Append(q, "release"))
<1> DEFINE p == Append(q, "release")
<1>1. Len(q) \in Nat /\ DOMAIN q = 1 .. Len(q)
  BY DEF Plain, GoodCalls
<1>2. DOMAIN p = 1 .. Len(q) + 1 /\ \A i \in DOMAIN p : p[i] = IF i <= Len(q) THEN q[i] ELSE "release"
  BY DEF Plain, GoodCalls
<1> HIDE DEF p
<1>3. Silent(p)
  BY <1>1, <1>2 DEF Silent
<1> QED
  BY <1>3 DEF p

\* A silent sequence is silent after its first call.
LEMMA SilentTail ==
    ASSUME NEW q \in Seq(Call), q # <<>>, Silent(q)
    PROVE  Silent(Tail(q))
<1> DEFINE p == Tail(q)
<1>1. Len(q) \in Nat /\ DOMAIN q = 1 .. Len(q)
  OBVIOUS
<1>2. DOMAIN p = 1 .. Len(q) - 1 /\ \A i \in 1 .. Len(q) - 1 : p[i] = q[i + 1]
  OBVIOUS
<1> HIDE DEF p
<1>3. \A i \in DOMAIN p : i + 1 \in DOMAIN q /\ p[i] = q[i + 1]
  BY <1>1, <1>2
<1>4. Silent(p)
  BY <1>3 DEF Silent
<1> QED
  BY <1>4 DEF p

-----------------------------------------------------------------------------
(* Steps of an agent.                                                      *)

\* Agent a gets a job that records nothing but accepted orders.
Knows(a) == \E k : job' = [job EXCEPT ![a] = k] /\ Known(k, acked)

\* Such a step keeps the invariant when it records nothing itself, or the order
\* of an agent that knows.
LEMMA KnowsKeeps ==
    ASSUME TypeInv, RecordInv, NEW a \in Agents, Knows(a), acked \subseteq acked', RecordedWasAccepted'
    PROVE  RecordInv'
BY DEF TypeInv, JobsGood, RecordInv, Knows, Known

\* No new record.
LEMMA RecordsKept ==
    ASSUME RecordInv, acked \subseteq acked', submitted' = submitted, dock' = dock
    PROVE  RecordedWasAccepted'
BY DEF RecordInv, RecordedWasAccepted

\* The forms of a step that records nothing.
LEMMA KnowsForms ==
    ASSUME TypeInv, RecordInv, NEW a \in Agents
    PROVE  /\ job' = [job EXCEPT ![a] = Idle] => Knows(a)
           /\ \A pc : pc # "found" /\ job' = [job EXCEPT ![a].pc = pc] => Knows(a)
           /\ \A at : job' = [job EXCEPT ![a].at = at] => Knows(a)
           /\ \A err : job' = [job EXCEPT ![a].err = err] => Knows(a)
           /\ \A pc, at : pc # "found" /\ job' = [job EXCEPT ![a] = [@ EXCEPT !.pc = pc, !.at = at]] => Knows(a)
           /\ \A pc, err :
                pc # "found" /\ job' = [job EXCEPT ![a] = [@ EXCEPT !.pc = pc, !.err = err]] => Knows(a)
<1>j. job[a] \in Job /\ Known(job[a], acked)
  BY DEF TypeInv, JobsGood, RecordInv, Agents
<1>1. Known(Idle, acked)
  BY SilentHandlers DEF Known, Idle
<1>2. \A pc : pc # "found" => Known([job[a] EXCEPT !.pc = pc], acked)
  BY <1>j DEF Known, Job
<1>3. \A at : Known([job[a] EXCEPT !.at = at], acked)
  BY <1>j DEF Known, Job
<1>4. \A err : Known([job[a] EXCEPT !.err = err], acked)
  BY <1>j DEF Known, Job
<1>5. \A pc, at : pc # "found" => Known([job[a] EXCEPT !.pc = pc, !.at = at], acked)
  BY <1>j DEF Known, Job
<1>6. \A pc, err : pc # "found" => Known([job[a] EXCEPT !.pc = pc, !.err = err], acked)
  BY <1>j DEF Known, Job
<1> QED
  BY <1>1, <1>2, <1>3, <1>4, <1>5, <1>6 DEF Knows

\* An agent that starts on a message.
LEMMA KnowsStart ==
    ASSUME NEW a \in Agents, NEW m, NEW pc, pc # "found",
           \/ job' = [job EXCEPT ![a] = [Idle EXCEPT !.pc = pc, !.at = "consumer", !.msg = m]]
           \/ Start(a, pc, m)
    PROVE  Knows(a)
<1>1. /\ Known([Idle EXCEPT !.pc = pc, !.at = "consumer", !.msg = m], acked)
      /\ Known([Idle EXCEPT !.pc = pc, !.msg = m], acked)
  BY SilentHandlers DEF Known, Idle
<1> QED
  BY <1>1 DEF Knows, Start

\* An agent that starts on its calls.
LEMMA KnowsCalls ==
    ASSUME TypeInv, NEW a \in Agents, NEW q, Plain(q, job[a].msg), Silent(q) \/ job[a].msg.oid \in acked,
           \/ Finish(a, q) \/ Mend(a, q) \/ Run(a, q)
           \/ job' = [job EXCEPT ![a] = [@ EXCEPT !.pc = "drop", !.todo = q]]
    PROVE  Knows(a)
<1>j. job[a] \in Job
  BY DEF TypeInv, JobsGood, Agents
<1>1. Silent(q) => Silent(Append(q, "release"))
  BY SilentAppend
<1>2. \A pc, p : /\ [job[a] EXCEPT !.pc = pc, !.todo = p].pc = pc
                 /\ [job[a] EXCEPT !.pc = pc, !.todo = p].todo = p
                 /\ [job[a] EXCEPT !.pc = pc, !.todo = p].msg = job[a].msg
  BY <1>j DEF Job
<1>3. \A pc, p : pc # "found" /\ (Silent(p) \/ job[a].msg.oid \in acked)
                 => Known([job[a] EXCEPT !.pc = pc, !.todo = p], acked)
  BY <1>2 DEF Known
<1> QED
  BY <1>1, <1>3 DEF Finish, Mend, Run, Knows

-----------------------------------------------------------------------------
(* The steps keep the invariant.                                           *)

\* A look that works finds only what is recorded.
LEMMA LookKnown ==
    ASSUME "read" \notin FaultKinds, RecordInv, NEW o \in Orders, NEW found, Look(o, found)
    PROVE  submitted' = submitted /\ (found = "hash" \/ found = "table" => o \in acked)
<1>1. ~Fault("read")
  BY DEF Fault
<1>2. submitted' = submitted /\ found = IF o \in submitted THEN "hash" ELSE IF dock[o] = "1" THEN "table" ELSE "nothing"
  BY <1>1 DEF Look
<1> QED
  BY <1>2 DEF RecordInv, RecordedWasAccepted

\* The steps of the consumer.
LEMMA ConsumerRecords ==
    ASSUME "read" \notin FaultKinds, TypeInv, RecordInv, NEW s \in Slots,
           \/ \E m \in BagToSet(pending) : Pop(s, m) \/ PopOnly(s, m)
           \/ PushProcessing(s) \/ PushProcessingFails(s)
           \/ TakeLock(s) \/ LockBusy(s) \/ LockFails(s)
           \/ LookUp(s) \/ LookUpFails(s)
           \/ Repair(s) \/ RepairFindsNothing(s) \/ RepairFails(s)
           \/ CheckDB(s) \/ CheckDBFails(s) \/ ContextEnds(s)
           \/ Dispatch(s) \/ DispatchFull(s)
    PROVE  RecordInv'
<1> USE DEF store, history
<1>m. /\ s \in Agents /\ job[s] \in Job /\ Known(job[s], acked)
      /\ job[s].pc # "idle" => job[s].msg.oid \in Orders
  BY DEF TypeInv, JobsGood, GoodJob, Msg, RecordInv, Agents
<1>r. ~Fault("read")
  BY DEF Fault
<1>q. /\ Plain(<<"lrem">>, job[s].msg) /\ Plain(<<"push", "lrem">>, job[s].msg)
      /\ Plain(<<"delenq", "lrem">>, job[s].msg) /\ Plain(<<>>, job[s].msg)
      /\ Plain(Failed, job[s].msg) /\ Plain(Succeeded, job[s].msg)
  BY HandlersGood
<1>f. job[s].pc = "found" => job[s].msg.oid \in acked
  BY <1>m DEF Known
<1>1. ASSUME NEW m \in BagToSet(pending), Pop(s, m) \/ PopOnly(s, m) PROVE RecordInv'
  <2>1. Knows(s)
    BY <1>1, <1>m, KnowsStart DEF Pop, PopOnly
  <2> QED
    BY <1>1, <2>1, <1>m, KnowsKeeps, RecordsKept DEF Pop, PopOnly
<1>2. CASE PushProcessing(s) \/ TakeLock(s) \/ DispatchFull(s)
  <2>1. Knows(s)
    BY <1>2, <1>m, KnowsForms DEF PushProcessing, TakeLock, DispatchFull, Become
  <2> QED
    BY <1>2, <2>1, <1>m, KnowsKeeps, RecordsKept DEF PushProcessing, TakeLock, DispatchFull
<1>3. CASE PushProcessingFails(s) \/ LockBusy(s) \/ LockFails(s)
  <2>1. Knows(s)
    BY <1>3, <1>m, <1>q, KnowsForms, KnowsCalls, SilentHandlers DEF PushProcessingFails, LockBusy, LockFails
  <2> QED
    BY <1>3, <2>1, <1>m, KnowsKeeps, RecordsKept DEF PushProcessingFails, LockBusy, LockFails
<1>4. CASE LookUp(s) \/ LookUpFails(s)
  <2>1. LookUp(s)
    BY <1>4, <1>r DEF LookUpFails
  <2>2. CASE job[s].msg.oid \in submitted
    <3>1. job[s].msg.oid \in acked
      BY <2>1, <2>2, <1>m DEF LookUp, RecordInv, RecordedWasAccepted
    <3>2. Known([job[s] EXCEPT !.pc = "found"], acked)
      BY <3>1, <1>m DEF Known, Job
    <3>3. Knows(s)
      BY <2>1, <2>2, <3>2 DEF LookUp, Become, Knows
    <3> QED
      BY <2>1, <3>3, <1>m, KnowsKeeps, RecordsKept DEF LookUp
  <2>3. CASE job[s].msg.oid \notin submitted
    <3>1. Knows(s)
      BY <2>1, <2>3, <1>m, KnowsForms DEF LookUp, Become
    <3> QED
      BY <2>1, <3>1, <1>m, KnowsKeeps, RecordsKept DEF LookUp
  <2> QED
    BY <2>2, <2>3
<1>5. CASE Repair(s)
  <2>1. Knows(s)
    BY <1>5, <1>m, <1>q, SilentHandlers, KnowsCalls DEF Repair
  <2>2. RecordedWasAccepted'
    BY <1>5, <1>f, <1>m DEF Repair, RecordInv, RecordedWasAccepted, TypeInv, StoreOK
  <2> QED
    BY <1>5, <2>1, <2>2, <1>m, KnowsKeeps DEF Repair
<1>6. CASE RepairFindsNothing(s) \/ RepairFails(s)
  <2>1. Knows(s)
    BY <1>6, <1>m, <1>q, SilentHandlers, KnowsCalls DEF RepairFindsNothing, RepairFails
  <2> QED
    BY <1>6, <2>1, <1>m, KnowsKeeps, RecordsKept DEF RepairFindsNothing, RepairFails
<1>7. CASE CheckDB(s) \/ CheckDBFails(s)
  <2>1. CheckDB(s)
    BY <1>7, <1>r DEF CheckDBFails
  <2>2. dock[job[s].msg.oid] = "1" => job[s].msg.oid \in acked
    BY <2>1, <1>m DEF CheckDB, RecordInv, RecordedWasAccepted
  <2>3. Knows(s)
    BY <2>1, <2>2, <1>m, <1>q, KnowsForms, KnowsCalls DEF CheckDB, Become
  <2> QED
    BY <2>1, <2>3, <1>m, KnowsKeeps, RecordsKept DEF CheckDB
<1>8. CASE ContextEnds(s)
  <2>1. \/ job' = [job EXCEPT ![s] = Idle]
        \/ Mend(s, <<>>)
        \/ job' = [job EXCEPT ![s] = [@ EXCEPT !.pc = "dispatch", !.err = "cancelled"]]
        \/ job' = [job EXCEPT ![s].err = "cancelled"]
    BY <1>8 DEF ContextEnds
  <2>2. Knows(s)
    <3>1. CASE job' = [job EXCEPT ![s] = Idle]
      BY <3>1, <1>m, KnowsForms
    <3>2. CASE Mend(s, <<>>)
      BY <3>2, <1>m, <1>q, KnowsCalls, SilentHandlers
    <3>3. CASE job' = [job EXCEPT ![s] = [@ EXCEPT !.pc = "dispatch", !.err = "cancelled"]]
      BY <3>3, <1>m, KnowsForms
    <3>4. CASE job' = [job EXCEPT ![s].err = "cancelled"]
      BY <3>4, <1>m, KnowsForms
    <3> QED
      BY <2>1, <3>1, <3>2, <3>3, <3>4
  <2> QED
    BY <1>8, <2>2, <1>m, KnowsKeeps, RecordsKept DEF ContextEnds
<1>9. CASE Dispatch(s)
  <2>1. Known([job[s] EXCEPT !.pc = "submit", !.at = "submitq", !.err = "none"], acked)
    BY <1>m DEF Known, Job
  <2>2. Knows(s)
    BY <1>9, <2>1 DEF Dispatch, Knows
  <2> QED
    BY <1>9, <2>2, <1>m, KnowsKeeps, RecordsKept DEF Dispatch
<1> QED
  BY <1>1, <1>2, <1>3, <1>4, <1>5, <1>6, <1>7, <1>8, <1>9

\* The steps of the pools.
LEMMA PoolRecords ==
    ASSUME "read" \notin FaultKinds, TypeInv, RecordInv, NEW s \in Slots,
           \/ TakeSubmit(s) \/ LoadFails(s) \/ LoadCancelled(s)
           \/ CallUpstream(s) \/ Accepted(s) \/ Refused(s)
           \/ FailedButSubmitted(s) \/ FailedSubmit(s)
           \/ DispatchConfirm(s) \/ TakeConfirm(s) \/ Confirm(s) \/ ConfirmExpires(s)
    PROVE  RecordInv'
<1> USE DEF store, history
<1>m. /\ s \in Agents /\ job[s] \in Job /\ Known(job[s], acked)
      /\ job[s].pc # "idle" => job[s].msg \in Msg /\ job[s].msg.oid \in Orders
  BY DEF TypeInv, JobsGood, GoodJob, Msg, RecordInv, Agents
<1>q. /\ Plain(<<"lrem", "delenq">>, job[s].msg) /\ Plain(Failed, job[s].msg) /\ Plain(Succeeded, job[s].msg)
      /\ MayRetry(s) => Plain(Retried, job[s].msg)
  BY HandlersGood DEF MayRetry
<1>1. CASE TakeSubmit(s) \/ LoadFails(s) \/ LoadCancelled(s) \/ CallUpstream(s)
  <2>1. Knows(s)
    BY <1>1, <1>m, KnowsForms DEF TakeSubmit, LoadFails, LoadCancelled, CallUpstream, Become
  <2> QED
    BY <1>1, <2>1, <1>m, KnowsKeeps, RecordsKept DEF TakeSubmit, LoadFails, LoadCancelled, CallUpstream
<1>2. CASE Refused(s) \/ DispatchConfirm(s) \/ TakeConfirm(s)
  <2>1. Knows(s)
    BY <1>2, <1>m, KnowsForms DEF Refused, DispatchConfirm, TakeConfirm
  <2> QED
    BY <1>2, <2>1, <1>m, KnowsKeeps, RecordsKept DEF Refused, DispatchConfirm, TakeConfirm
<1>3. CASE Accepted(s)
  <2> DEFINE k == [job[s] EXCEPT !.pc = "run", !.todo = Append(Succeeded, "release")]
  <2>1. job' = [job EXCEPT ![s] = k] /\ acked' = acked \cup {job[s].msg.oid}
    BY <1>3 DEF Accepted, Finish
  <2>2. k.msg = job[s].msg
    BY <1>m DEF Job
  <2> HIDE DEF k
  <2>3. RecordedWasAccepted'
    BY <1>3, <2>1, RecordsKept DEF Accepted
  <2>4. \A a \in Agents : Known(job'[a], acked')
    BY <1>m, <2>1, <2>2 DEF RecordInv, Known, TypeInv, JobsGood
  <2> QED
    BY <2>3, <2>4 DEF RecordInv
<1>4. CASE FailedButSubmitted(s) \/ FailedSubmit(s)
  <2>1. dock[job[s].msg.oid] = "1" /\ job[s].pc = "failed" => job[s].msg.oid \in acked
    BY <1>m DEF RecordInv, RecordedWasAccepted
  <2>2. Knows(s)
    <3>1. CASE FailedButSubmitted(s)
      BY <3>1, <2>1, <1>m, <1>q, KnowsCalls DEF FailedButSubmitted
    <3>2. CASE FailedSubmit(s)
      BY <3>2, <1>m, <1>q, SilentHandlers, KnowsCalls DEF FailedSubmit
    <3> QED
      BY <1>4, <3>1, <3>2
  <2> QED
    BY <1>4, <2>2, <1>m, KnowsKeeps, RecordsKept DEF FailedButSubmitted, FailedSubmit
<1>5. CASE Confirm(s)
  <2>1. PICK found \in Finding :
          /\ Look(job[s].msg.oid, found)
          /\ Finish(s, CASE found = "hash"  -> <<"lrem", "delenq">>
                         [] found = "table" -> Succeeded
                         [] OTHER -> IF RetryOnTimeout /\ MayRetry(s) THEN Retried ELSE Failed)
    BY <1>5 DEF Confirm
  <2>2. job[s].msg.oid \in Orders
    BY <1>5, <1>m DEF Confirm
  <2>3. submitted' = submitted /\ (found = "hash" \/ found = "table" => job[s].msg.oid \in acked)
    BY <2>1, <2>2, LookKnown
  <2>4. Knows(s)
    <3>1. CASE found = "hash"
      BY <2>1, <3>1, <1>m, <1>q, SilentHandlers, KnowsCalls
    <3>2. CASE found = "table"
      BY <2>1, <2>3, <3>2, <1>m, <1>q, KnowsCalls
    <3>3. CASE found = "nothing"
      BY <2>1, <3>3, <1>m, <1>q, SilentHandlers, KnowsCalls
    <3> QED
      BY <3>1, <3>2, <3>3 DEF Finding
  <2> QED
    BY <1>5, <2>3, <2>4, <1>m, KnowsKeeps, RecordsKept DEF Confirm
<1>6. CASE ConfirmExpires(s)
  <2>1. Known([job[s] EXCEPT !.todo = <<"release">>], acked)
    BY <1>m DEF Known, Silent, Job
  <2>2. Knows(s)
    BY <1>6, <2>1 DEF ConfirmExpires, Knows
  <2> QED
    BY <1>6, <2>2, <1>m, KnowsKeeps, RecordsKept DEF ConfirmExpires
<1> QED
  BY <1>1, <1>2, <1>3, <1>4, <1>5, <1>6

\* The calls: one that records an order is made by an agent that knows.
LEMMA CallRecords ==
    ASSUME TypeInv, RecordInv, NEW a \in Agents, MakeCall(a) \/ CallFails(a) \/ CallUnanswered(a)
    PROVE  RecordInv'
<1> DEFINE c == Head(job[a].todo)
<1>m. /\ job[a] \in Job /\ Known(job[a], acked) /\ job[a].msg.oid \in Orders
      /\ job[a].todo \in Seq(Call) /\ job[a].todo # <<>> /\ job[a].pc # "found"
      /\ GoodJob(job[a])
  BY DEF TypeInv, JobsGood, GoodJob, GoodCalls, Msg, RecordInv, MakeCall, CallFails, CallUnanswered, Running
<1>1. c \in {"hset", "db1"} => job[a].msg.oid \in acked
  <2>1. 1 \in DOMAIN job[a].todo /\ c = job[a].todo[1]
    BY <1>m
  <2> QED
    BY <2>1, <1>m DEF Known, Silent
<1>2. \A q : Silent(q) \/ job[a].msg.oid \in acked => Known([job[a] EXCEPT !.todo = q], acked)
  BY <1>m DEF Known, Job
<1>3. Known(Idle, acked)
  BY SilentHandlers DEF Known, Idle
<1>4. Known(Advance(job[a]), acked)
  <2>1. Silent(Tail(job[a].todo)) \/ job[a].msg.oid \in acked
    BY <1>m, SilentTail DEF Known
  <2> QED
    BY <2>1, <1>2, <1>3 DEF Advance
<1>5. Known(AfterFailure(a), acked)
  <2>1. Silent(Append(Failed, "release"))
    BY HandlersGood, SilentHandlers, SilentAppend
  <2>2. /\ Known([job[a] EXCEPT !.todo = Append(Failed, "release")], acked)
        /\ Known([job[a] EXCEPT !.todo = ReapedOut], acked)
        /\ Known([job[a] EXCEPT !.todo = <<"delenq">>], acked)
        /\ Known([job[a] EXCEPT !.todo = <<"delenq", "zback">>], acked)
    BY <2>1, <1>2, SilentHandlers
  <2> QED
    BY <2>2, <1>3, <1>4 DEF AfterFailure
<1>6. Knows(a)
  BY <1>4, <1>5 DEF MakeCall, CallFails, CallUnanswered, Knows
<1>7. acked' = acked
  BY DEF MakeCall, CallFails, CallUnanswered
<1>8. RecordedWasAccepted'
  <2>1. CASE MakeCall(a) \/ CallUnanswered(a)
    <3>1. Do(a, c, job[a].msg)
      BY <2>1 DEF MakeCall, CallUnanswered
    <3>2. /\ submitted' = IF c = "hset" THEN submitted \cup {job[a].msg.oid} ELSE submitted
          /\ \A o \in Orders : dock'[o] = "1" => dock[o] = "1" \/ (o = job[a].msg.oid /\ c = "db1")
      BY <3>1, <1>m DEF Do, TypeInv, StoreOK
    <3> HIDE DEF c
    <3> QED
      BY <3>2, <1>1, <1>7 DEF RecordInv, RecordedWasAccepted
  <2>2. CASE CallFails(a)
    BY <2>2, RecordsKept DEF CallFails
  <2> QED
    BY <2>1, <2>2
<1> QED
  BY <1>6, <1>7, <1>8, KnowsKeeps

\* What the loops do with an order that they looked for.
LEMMA LookedFor ==
    ASSUME "read" \notin FaultKinds, TypeInv, RecordInv, NEW a \in Agents, job[a].msg.oid \in Orders,
           dock' = dock, acked' = acked,
           NEW found, Look(job[a].msg.oid, found), NEW q, Plain(q, job[a].msg),
           Silent(q) \/ found = "hash" \/ found = "table", Run(a, q)
    PROVE  RecordInv'
<1>1. submitted' = submitted /\ (found = "hash" \/ found = "table" => job[a].msg.oid \in acked)
  BY LookKnown DEF RecordInv
<1>2. Knows(a)
  BY <1>1, KnowsCalls
<1> QED
  BY <1>1, <1>2, KnowsKeeps, RecordsKept

\* The decisions of the loops.
LEMMA DecisionRecords ==
    ASSUME "read" \notin FaultKinds, TypeInv, RecordInv, DecideDue \/ DecideReap \/ DecideRollback \/ DecideDead
    PROVE  RecordInv'
<1>m. \A b \in Service : /\ b \in Agents /\ job[b] \in Job
                         /\ job[b].pc # "idle" => job[b].msg \in Msg /\ job[b].msg.oid \in Orders
  BY DEF TypeInv, JobsGood, GoodJob, Msg, Agents
<1>q. \A m : /\ Plain(<<"db1">>, m) /\ Plain(<<"hset", "db1">>, m)
             /\ Plain(<<"dlqrem", "db1">>, m) /\ Plain(<<"dlqrem", "hset", "db1">>, m)
             /\ Plain(<<"db1", "lrem", "dellock", "delenq">>, m)
             /\ Plain(<<"hset", "db1", "lrem", "dellock", "delenq">>, m)
             /\ Plain(ReapedOut, m) /\ Plain(<<"lrem", "dellock", "delenq">>, m)
             /\ m.r + 1 < MaxAttempts => Plain(<<"zadd", "delenq", "lrem", "dellock">>, m)
  BY HandlersGood
<1>1. CASE DecideDue
  <2>1. PICK found \in Finding :
          /\ Look(job["retrier"].msg.oid, found)
          /\ CASE found = "hash"  -> Run("retrier", <<"db1">>)
               [] found = "table" -> Run("retrier", <<"hset", "db1">>)
               [] OTHER           -> job' = [job EXCEPT !["retrier"].pc = "enqueue"]
    BY <1>1 DEF DecideDue
  <2>2. "retrier" \in Agents /\ job["retrier"].msg.oid \in Orders /\ dock' = dock /\ acked' = acked
    BY <1>1, <1>m DEF DecideDue, Service
  <2>3. CASE found = "hash" \/ found = "table"
    BY <2>1, <2>2, <2>3, <1>q, LookedFor
  <2>4. CASE found = "nothing"
    <3>1. Knows("retrier")
      BY <2>1, <2>2, <2>4, KnowsForms
    <3>2. submitted' = submitted
      BY <2>1, <2>2, LookKnown
    <3> QED
      BY <2>2, <3>1, <3>2, KnowsKeeps, RecordsKept
  <2> QED
    BY <2>3, <2>4 DEF Finding
<1>2. CASE DecideReap
  <2>1. PICK found \in Finding :
          /\ Look(job["reaper"].msg.oid, found)
          /\ Run("reaper", CASE found = "hash"  -> <<"db1", "lrem", "dellock", "delenq">>
                             [] found = "table" -> <<"hset", "db1", "lrem", "dellock", "delenq">>
                             [] OTHER -> IF ResubmitOn /\ job["reaper"].msg.r + 1 < MaxAttempts
                                         THEN <<"zadd", "delenq", "lrem", "dellock">>
                                         ELSE ReapedOut)
    BY <1>2 DEF DecideReap
  <2>2. "reaper" \in Agents /\ job["reaper"].msg.oid \in Orders /\ dock' = dock /\ acked' = acked
    BY <1>2, <1>m DEF DecideReap, Service
  <2>3. CASE found = "hash"
    BY <2>1, <2>2, <2>3, <1>q, LookedFor
  <2>4. CASE found = "table"
    BY <2>1, <2>2, <2>4, <1>q, LookedFor
  <2>5. CASE found = "nothing"
    BY <2>1, <2>2, <2>5, <1>q, LookedFor, SilentHandlers
  <2> QED
    BY <2>3, <2>4, <2>5 DEF Finding
<1>3. CASE DecideRollback
  <2>1. PICK found \in Finding :
          /\ Look(job["rollback"].msg.oid, found)
          /\ Run("rollback", CASE found = "hash"  -> <<"db1", "lrem", "dellock", "delenq">>
                               [] found = "table" -> <<"hset", "db1", "lrem", "dellock", "delenq">>
                               [] OTHER           -> <<"lrem", "dellock", "delenq">>)
    BY <1>3 DEF DecideRollback
  <2>2. "rollback" \in Agents /\ job["rollback"].msg.oid \in Orders /\ dock' = dock /\ acked' = acked
    BY <1>3, <1>m DEF DecideRollback, Service
  <2>3. CASE found = "hash"
    BY <2>1, <2>2, <2>3, <1>q, LookedFor
  <2>4. CASE found = "table"
    BY <2>1, <2>2, <2>4, <1>q, LookedFor
  <2>5. CASE found = "nothing"
    BY <2>1, <2>2, <2>5, <1>q, LookedFor, SilentHandlers
  <2> QED
    BY <2>3, <2>4, <2>5 DEF Finding
<1>4. CASE DecideDead
  <2>1. PICK found \in Finding :
          /\ Look(job["scanner"].msg.oid, found)
          /\ CASE found = "hash"  -> Run("scanner", <<"dlqrem", "db1">>)
               [] found = "table" -> Run("scanner", <<"dlqrem", "hset", "db1">>)
               [] OTHER           -> job' = [job EXCEPT !["scanner"].pc = "reopen"]
    BY <1>4 DEF DecideDead
  <2>2. "scanner" \in Agents /\ job["scanner"].msg.oid \in Orders /\ dock' = dock /\ acked' = acked
    BY <1>4, <1>m DEF DecideDead, Service
  <2>3. CASE found = "hash" \/ found = "table"
    BY <2>1, <2>2, <2>3, <1>q, LookedFor
  <2>4. CASE found = "nothing"
    <3>1. Knows("scanner")
      BY <2>1, <2>2, <2>4, KnowsForms
    <3>2. submitted' = submitted
      BY <2>1, <2>2, LookKnown
    <3> QED
      BY <2>2, <3>1, <3>2, KnowsKeeps, RecordsKept
  <2> QED
    BY <2>3, <2>4 DEF Finding
<1> QED
  BY <1>1, <1>2, <1>3, <1>4

\* The steps of the loops that look at nothing.
LEMMA LoopRecords ==
    ASSUME TypeInv, RecordInv,
           \/ \E m \in retry : TakeDue(m)
           \/ \E a \in {"retrier", "scanner"} : Enqueue(a)
           \/ \E m \in BagToSet(proc) : Reap(m) \/ TakeRollback(m)
           \/ \E m \in BagToSet(dlq) : TakeDead(m)
           \/ Reopen \/ Rescue
    PROVE  RecordInv'
<1> USE DEF store, history
<1>s. Service \subseteq Agents
  BY DEF Agents
<1>1. CASE \E m \in retry : TakeDue(m)
  <2>1. Knows("retrier")
    BY <1>1, <1>s, KnowsStart DEF TakeDue, Service
  <2> QED
    BY <1>1, <2>1, <1>s, KnowsKeeps, RecordsKept DEF TakeDue, Service
<1>2. ASSUME NEW a \in {"retrier", "scanner"}, Enqueue(a) PROVE RecordInv'
  <2>1. a \in Agents /\ Plain(<<"push">>, job[a].msg) /\ Plain(<<"zback">>, job[a].msg)
    BY <1>s, HandlersGood DEF Service
  <2>2. Run(a, <<"push">>) \/ Run(a, <<"zback">>) \/ job' = [job EXCEPT ![a] = Idle]
    BY <1>2 DEF Enqueue
  <2>3. Knows(a)
    BY <2>1, <2>2, KnowsCalls, KnowsForms, SilentHandlers
  <2> QED
    BY <1>2, <2>1, <2>3, KnowsKeeps, RecordsKept DEF Enqueue
<1>3. ASSUME NEW m \in BagToSet(proc), Reap(m) \/ TakeRollback(m) PROVE RecordInv'
  <2>1. Knows("reaper") \/ Knows("rollback")
    BY <1>3, <1>s, KnowsStart DEF Reap, TakeRollback, Service
  <2> QED
    BY <1>3, <2>1, <1>s, KnowsKeeps, RecordsKept DEF Reap, TakeRollback, Service
<1>4. CASE \E m \in BagToSet(dlq) : TakeDead(m)
  <2>1. Knows("scanner")
    BY <1>4, <1>s, KnowsStart DEF TakeDead, Service
  <2> QED
    BY <1>4, <2>1, <1>s, KnowsKeeps, RecordsKept DEF TakeDead, Service
<1>5. CASE Reopen
  <2>1. Knows("scanner")
    BY <1>5, <1>s, KnowsForms DEF Reopen, Service
  <2>2. RecordedWasAccepted'
    BY <1>5 DEF Reopen, RecordInv, RecordedWasAccepted, TypeInv, StoreOK
  <2> QED
    BY <1>5, <2>1, <2>2, <1>s, KnowsKeeps DEF Reopen, Service
<1>6. CASE Rescue
  <2>1. Knows("scanner")
    BY <1>6, <1>s, KnowsStart DEF Rescue, Service
  <2> QED
    BY <1>6, <2>1, <1>s, KnowsKeeps, RecordsKept DEF Rescue, Service
<1> QED
  BY <1>1, <1>2, <1>3, <1>4, <1>5, <1>6

\* The steps that leave every job alone, and the ends of the process.
LEMMA OtherRecords ==
    ASSUME TypeInv, RecordInv,
           \/ \E m \in BagToSet(pending) : PopUnanswered(m)
           \/ \E f \in Feeders :
                ReadToDo(f) \/ \E o \in Orders : Mark(f, o) \/ Push(f, o) \/ PushFails(f, o)
           \/ \E o \in Orders : MarkExpires(o) \/ LockExpires(o) \/ LockLost(o)
           \/ Shutdown \/ StartRollback \/ Exit \/ Crash
    PROVE  RecordInv'
<1> USE DEF store, control, history
<1>1. dock' = dock /\ submitted' = submitted /\ acked' = acked
  BY DEF PopUnanswered, ReadToDo, Mark, Push, PushFails, MarkExpires, LockExpires, LockLost,
         Shutdown, StartRollback, Exit, Crash, Restart
<1>2. job' = job \/ job' = [a \in Agents |-> Idle]
  BY DEF PopUnanswered, ReadToDo, Mark, Push, PushFails, MarkExpires, LockExpires, LockLost,
         Shutdown, StartRollback, Exit, Crash, Restart
<1>3. Known(Idle, acked)
  BY SilentHandlers DEF Known, Idle
<1> QED
  BY <1>1, <1>2, <1>3 DEF RecordInv, RecordedWasAccepted

\* Every step keeps RecordInv.
LEMMA RecordStep ==
    ASSUME "read" \notin FaultKinds
    PROVE  TypeInv /\ RecordInv /\ [Next]_vars => RecordInv'
<1> SUFFICES ASSUME TypeInv, RecordInv, [Next]_vars PROVE RecordInv'
  OBVIOUS
<1>1. CASE UNCHANGED vars
  BY <1>1 DEF RecordInv, RecordedWasAccepted, vars, store, control, history
<1>2. CASE WorkerNext
  BY <1>2, ConsumerRecords, PoolRecords, CallRecords, OtherRecords DEF WorkerNext
<1>3. CASE MaintenanceNext
  BY <1>3, DecisionRecords, LoopRecords, OtherRecords DEF MaintenanceNext
<1> QED
  BY <1>1, <1>2, <1>3 DEF Next

\* An order is recorded as submitted, in Redis or in the order table, only after
\* the upstream accepted it, whatever crashes, expires, is reaped, cancelled or
\* fails to be written; unless a lookup fails.
THEOREM RecordsAreTrue ==
    ASSUME "read" \notin FaultKinds
    PROVE  Spec => []RecordedWasAccepted
<1>1. Init => RecordInv
  BY SilentHandlers DEF Init, RecordInv, RecordedWasAccepted, Known, Idle
<1>2. RecordInv => RecordedWasAccepted
  BY DEF RecordInv
<1>3. TypeInv /\ RecordInv /\ [Next]_vars => RecordInv'
  BY RecordStep
<1> QED
  BY <1>1, <1>2, <1>3, TypesKept, PTL DEF Spec

-----------------------------------------------------------------------------
(* Without faults the queue implements OrderLifecycle.                     *)
(*                                                                         *)
(* Nobody takes a lock away, so what a worker has found out about its      *)
(* order stays true until it releases it: an order that it looked for and  *)
(* did not find is not accepted, and whoever had it accepted records that  *)
(* before the lock is free again.                                          *)

Has(q, c) == \E i \in DOMAIN q : q[i] = c

\* Slot s has looked for its order, or will mark it as failed.
Unfit(k) == k.pc \in {"checkdb", "dispatch", "submit", "calling", "failed"} \/ Has(k.todo, "db2")

\* Job k, of a slot, is about an order that is not accepted, or leaves it alone.
Fits(k, A) == /\ Unfit(k) => k.msg.oid \notin A
              /\ Has(k.todo, "db2") => k.pc \in {"run", "mend"}

\* Job k records its order.
Records(k) == k.pc \in {"run", "mend"} /\ Has(k.todo, "hset")

FateInv ==
    /\ lost = {}
    /\ \A a \in Agents : ~Has(job[a].todo, "dellock")
    /\ \A a \in Service : ~Has(job[a].todo, "db2")
    /\ \A s \in Slots : Fits(job[s], acked)
    /\ \A o \in acked : o \in submitted \/ \E s \in Slots : job[s].msg.oid = o /\ Records(job[s])

\* What is known of a state without faults.
Normal == TypeInv /\ OwnInv /\ HoldsLock /\ RecordInv /\ FateInv

\* The calls of the handlers of a slot.
LEMMA SlotCalls ==
    /\ \A q \in {Succeeded, Retried, <<"delenq", "lrem">>} : ~Has(Append(q, "release"), "db2")
    /\ \A q \in {Succeeded, Failed, Retried, <<"delenq", "lrem">>} : ~Has(Append(q, "release"), "dellock")
    /\ Has(Append(Succeeded, "release"), "hset")
    /\ \A c : ~Has(<<>>, c)
    /\ ~Has(<<"lrem">>, "db2") /\ ~Has(<<"lrem">>, "dellock")
<1>1. ASSUME NEW q \in Seq(Call), NEW c, c # "release"
      PROVE  Has(Append(q, "release"), c) <=> Has(q, c)
  <2> DEFINE p == Append(q, "release")
  <2>1. /\ Len(q) \in Nat /\ DOMAIN q = 1 .. Len(q) /\ DOMAIN p = 1 .. Len(q) + 1
        /\ \A i \in DOMAIN p : p[i] = IF i <= Len(q) THEN q[i] ELSE "release"
    OBVIOUS
  <2> HIDE DEF p
  <2>2. Has(p, c) <=> Has(q, c)
    BY <1>1, <2>1 DEF Has
  <2> QED
    BY <2>2 DEF p
<1>2. /\ Succeeded \in Seq(Call) /\ Failed \in Seq(Call) /\ Retried \in Seq(Call)
      /\ <<"delenq", "lrem">> \in Seq(Call)
  BY DEF Succeeded, Failed, Retried, Call
<1>3. \A q \in {Succeeded, Retried, <<"delenq", "lrem">>} : ~Has(q, "db2")
  BY DEF Has, Succeeded, Retried
<1>4. \A q \in {Succeeded, Failed, Retried, <<"delenq", "lrem">>} : ~Has(q, "dellock")
  BY DEF Has, Succeeded, Failed, Retried
<1>5. Has(Succeeded, "hset")
  <2>1. 1 \in DOMAIN Succeeded /\ Succeeded[1] = "hset"
    BY DEF Succeeded
  <2> QED
    BY <2>1 DEF Has
<1>6. (\A c : ~Has(<<>>, c)) /\ ~Has(<<"lrem">>, "db2") /\ ~Has(<<"lrem">>, "dellock")
  BY DEF Has
<1> QED
  BY <1>1, <1>2, <1>3, <1>4, <1>5, <1>6

\* A call that is left after the first one was left before.
LEMMA HasTail ==
    ASSUME NEW q \in Seq(Call), q # <<>>, NEW c
    PROVE  /\ Has(Tail(q), c) => Has(q, c)
           /\ Has(q, c) => q[1] = c \/ Has(Tail(q), c)
           /\ Has(q, q[1])
           /\ Len(q) = 1 => ~Has(Tail(q), c)
<1> DEFINE p == Tail(q)
<1>1. /\ Len(q) \in Nat \ {0} /\ DOMAIN q = 1 .. Len(q) /\ DOMAIN p = 1 .. Len(q) - 1
      /\ \A i \in 1 .. Len(q) - 1 : p[i] = q[i + 1]
  BY TailFacts
<1> HIDE DEF p
<1>2. Has(p, c) => Has(q, c)
  <2> SUFFICES ASSUME NEW i \in DOMAIN p, p[i] = c PROVE Has(q, c)
    BY DEF Has
  <2>1. i + 1 \in DOMAIN q /\ q[i + 1] = c
    BY <1>1
  <2> QED
    BY <2>1 DEF Has
<1>3. Has(q, c) => q[1] = c \/ Has(p, c)
  <2> SUFFICES ASSUME NEW i \in DOMAIN q, q[i] = c, i # 1 PROVE Has(p, c)
    BY DEF Has
  <2>1. i - 1 \in 1 .. Len(q) - 1 /\ (i - 1) + 1 = i
    BY <1>1
  <2>2. i - 1 \in DOMAIN p /\ p[i - 1] = c
    BY <1>1, <2>1
  <2> QED
    BY <2>2 DEF Has
<1>4. Has(q, q[1])
  BY <1>1 DEF Has
<1>5. Len(q) = 1 => ~Has(p, c)
  BY <1>1 DEF Has
<1> QED
  BY <1>2, <1>3, <1>4, <1>5 DEF p

\* One worker holds an order.
LEMMA OneHolder ==
    ASSUME HoldsLock, FateInv, NEW s \in Slots, NEW t \in Slots, Holds(s), Holds(t),
           job[s].msg.oid = job[t].msg.oid
    PROVE  s = t
BY DEF HoldsLock, FateInv

\* A slot goes on with job k: what it knows and what it will record are kept.
LEMMA FatePut ==
    ASSUME TypeInv, FateInv, NEW s \in Slots, NEW k, job' = [job EXCEPT ![s] = k],
           UNCHANGED <<acked, lost>>, submitted \subseteq submitted',
           ~Has(k.todo, "dellock"), Fits(k, acked),
           Records(job[s]) => \/ job[s].msg.oid \in submitted'
                              \/ k.msg = job[s].msg /\ Records(k)
    PROVE  FateInv'
<1>1. job'[s] = k /\ \A a \in Agents : a # s => job'[a] = job[a]
  BY DEF TypeInv, JobsGood, Agents
<1>2. \A a \in Service : job'[a] = job[a]
  BY <1>1, StoreAssumption DEF Agents
<1>3. \A a \in Agents : ~Has(job'[a].todo, "dellock")
  BY <1>1 DEF FateInv
<1>4. \A t \in Slots : Fits(job'[t], acked')
  BY <1>1 DEF FateInv, Agents
<1>5. \A o \in acked' : o \in submitted' \/ \E t \in Slots : job'[t].msg.oid = o /\ Records(job'[t])
  <2> SUFFICES ASSUME NEW o \in acked, o \notin submitted'
               PROVE  \E t \in Slots : job'[t].msg.oid = o /\ Records(job'[t])
    OBVIOUS
  <2>1. PICK t \in Slots : job[t].msg.oid = o /\ Records(job[t])
    BY DEF FateInv
  <2> QED
    BY <1>1, <2>1 DEF Agents
<1> QED
  BY <1>2, <1>3, <1>4, <1>5 DEF FateInv

\* The same for the retrier and the scanner, which know nothing.
LEMMA FateService ==
    ASSUME TypeInv, FateInv, NEW a \in Service, NEW k, job' = [job EXCEPT ![a] = k],
           UNCHANGED <<acked, lost>>, submitted \subseteq submitted',
           ~Has(k.todo, "dellock"), ~Has(k.todo, "db2")
    PROVE  FateInv'
<1>1. job'[a] = k /\ \A b \in Agents : b # a => job'[b] = job[b]
  BY DEF TypeInv, JobsGood, Agents
<1>2. \A s \in Slots : job'[s] = job[s]
  BY <1>1, StoreAssumption DEF Agents
<1>3. \A b \in Agents : ~Has(job'[b].todo, "dellock")
  BY <1>1 DEF FateInv
<1>4. \A b \in Service : ~Has(job'[b].todo, "db2")
  BY <1>1 DEF FateInv, Agents
<1> QED
  BY <1>2, <1>3, <1>4 DEF FateInv

\* Nobody's job changes.
LEMMA FateSame ==
    ASSUME FateInv, UNCHANGED <<job, acked, lost, submitted>>
    PROVE  FateInv'
BY DEF FateInv

\* A slot goes on without new calls: a step that Fits only has to be shown for.
LEMMA FateMoves ==
    ASSUME TypeInv, FateInv, NEW s \in Slots, NEW k, job' = [job EXCEPT ![s] = k],
           job[s].pc \notin {"run", "mend"}, k.msg = job[s].msg, k.todo = job[s].todo,
           k.pc \in {"checkdb", "dispatch", "submit", "calling", "failed"} => k.msg.oid \notin acked,
           UNCHANGED <<acked, lost, submitted>>
    PROVE  FateInv'
<1>1. ~Has(k.todo, "db2") /\ ~Has(k.todo, "dellock") /\ ~Records(job[s])
  BY DEF FateInv, Fits, Records, Agents
<1> QED
  BY <1>1, FatePut DEF Fits, Unfit

\* What slot s has left open, it leaves to the calls it starts on.
LEMMA FateCalls ==
    ASSUME TypeInv, FateInv, NEW s \in Slots, NEW q,
           q \in {Succeeded, Failed, Retried, <<"delenq", "lrem">>},
           Finish(s, q) \/ Mend(s, q),
           job[s].pc \notin {"run", "mend"},
           q = Failed => job[s].msg.oid \notin acked,
           UNCHANGED <<acked, lost, submitted>>
    PROVE  FateInv'
<1> DEFINE p == Append(q, "release")
<1>1. /\ ~Has(p, "dellock")
      /\ q # Failed => ~Has(p, "db2")
  BY SlotCalls
<1>2. PICK pc \in {"run", "mend"} : job' = [job EXCEPT ![s] = [@ EXCEPT !.pc = pc, !.todo = p]]
  <2>1. Finish(s, q) => job' = [job EXCEPT ![s] = [@ EXCEPT !.pc = "run", !.todo = p]]
    BY DEF Finish
  <2>2. Mend(s, q) => job' = [job EXCEPT ![s] = [@ EXCEPT !.pc = "mend", !.todo = p]]
    BY DEF Mend
  <2> HIDE DEF p
  <2> QED
    BY <2>1, <2>2
<1> HIDE DEF p
<1> DEFINE k == [job[s] EXCEPT !.pc = pc, !.todo = p]
<1>3. k.pc = pc /\ k.todo = p /\ k.msg = job[s].msg
  BY DEF TypeInv, JobsGood, Agents, Job
<1>4. job' = [job EXCEPT ![s] = k] /\ pc \in {"run", "mend"}
  BY <1>2
<1> HIDE DEF k
<1>5. ~Has(k.todo, "dellock") /\ Fits(k, acked)
  BY <1>1, <1>3, <1>4 DEF Fits, Unfit
<1>6. ~Records(job[s])
  BY DEF Records
<1> QED
  BY <1>4, <1>5, <1>6, FatePut

\* The step of slot s to another point of its handler.
LEMMA FateBecomes ==
    ASSUME TypeInv, FateInv, NEW s \in Slots, NEW pc, job' = [job EXCEPT ![s].pc = pc],
           job[s].pc \notin {"run", "mend"},
           pc \in {"checkdb", "dispatch", "submit", "calling", "failed"} => job[s].msg.oid \notin acked,
           UNCHANGED <<acked, lost, submitted>>
    PROVE  FateInv'
<1> DEFINE k == [job[s] EXCEPT !.pc = pc]
<1>1. k.pc = pc /\ k.msg = job[s].msg /\ k.todo = job[s].todo
  BY DEF TypeInv, JobsGood, Agents, Job
<1>2. job' = [job EXCEPT ![s] = k]
  OBVIOUS
<1> HIDE DEF k
<1> QED
  BY <1>1, <1>2, FateMoves

-----------------------------------------------------------------------------
(* The state of OrderLifecycle.                                            *)

Calls == [o \in Orders |-> Calling(o)]

Life == [Lifecycle!Next]_<<dock, Calls, acked>>

\* The slot that moves was not at the upstream, and is not.
LEMMA CallsKept ==
    ASSUME TypeInv, NEW s \in Slots, NEW k, job' = [job EXCEPT ![s] = k],
           job[s].pc # "calling", k.pc # "calling"
    PROVE  Calls' = Calls
<1>1. job'[s] = k /\ \A t \in Slots : t # s => job'[t] = job[t]
  BY DEF TypeInv, JobsGood, Agents
<1>2. \A o \in Orders : {t \in Slots : job'[t].pc = "calling" /\ job'[t].msg.oid = o}
                      = {t \in Slots : job[t].pc = "calling" /\ job[t].msg.oid = o}
  BY <1>1
<1> QED
  BY <1>2 DEF Calls, Calling

\* No slot moves.
LEMMA CallsSame ==
    ASSUME \A s \in Slots : job'[s] = job[s]
    PROVE  Calls' = Calls
<1>1. \A o \in Orders : {t \in Slots : job'[t].pc = "calling" /\ job'[t].msg.oid = o}
                      = {t \in Slots : job[t].pc = "calling" /\ job[t].msg.oid = o}
  OBVIOUS
<1> QED
  BY <1>1 DEF Calls, Calling

\* The forms of the steps of a slot that is not at the upstream.
LEMMA CallsForms ==
    ASSUME TypeInv, NEW s \in Slots, job[s].pc # "calling"
    PROVE  /\ \A pc : pc # "calling" /\ job' = [job EXCEPT ![s].pc = pc] => Calls' = Calls
           /\ \A pc, at, err : pc # "calling" /\ job' = [job EXCEPT ![s] = [@ EXCEPT !.pc = pc, !.at = at, !.err = err]]
                               => Calls' = Calls
           /\ \A pc, err : pc # "calling" /\ job' = [job EXCEPT ![s] = [@ EXCEPT !.pc = pc, !.err = err]]
                           => Calls' = Calls
           /\ \A pc, q : pc # "calling" /\ job' = [job EXCEPT ![s] = [@ EXCEPT !.pc = pc, !.todo = q]]
                         => Calls' = Calls
           /\ \A q : Finish(s, q) \/ Mend(s, q) => Calls' = Calls
<1>1. job[s] \in Job
  BY DEF TypeInv, JobsGood, Agents
<1>2. ASSUME NEW k, k.pc # "calling", job' = [job EXCEPT ![s] = k] PROVE Calls' = Calls
  BY <1>2, CallsKept
<1>3. \A pc : [job[s] EXCEPT !.pc = pc].pc = pc
  BY <1>1 DEF Job
<1>4. \A pc, at, err : [job[s] EXCEPT !.pc = pc, !.at = at, !.err = err].pc = pc
  BY <1>1 DEF Job
<1>5. \A pc, err : [job[s] EXCEPT !.pc = pc, !.err = err].pc = pc
  BY <1>1 DEF Job
<1>6. \A pc, q : [job[s] EXCEPT !.pc = pc, !.todo = q].pc = pc
  BY <1>1 DEF Job
<1>7. ASSUME NEW pc, pc # "calling", job' = [job EXCEPT ![s].pc = pc] PROVE Calls' = Calls
  <2>1. job' = [job EXCEPT ![s] = [job[s] EXCEPT !.pc = pc]]
    BY <1>7
  <2> QED
    BY <2>1, <1>2, <1>3, <1>7
<1>8. ASSUME NEW pc, NEW at, NEW err, pc # "calling",
             job' = [job EXCEPT ![s] = [@ EXCEPT !.pc = pc, !.at = at, !.err = err]] PROVE Calls' = Calls
  <2> DEFINE k == [job[s] EXCEPT !.pc = pc, !.at = at, !.err = err]
  <2>1. job' = [job EXCEPT ![s] = k] /\ k.pc # "calling"
    BY <1>4, <1>8
  <2> HIDE DEF k
  <2> QED
    BY <2>1, <1>2
<1>9. ASSUME NEW pc, NEW err, pc # "calling",
             job' = [job EXCEPT ![s] = [@ EXCEPT !.pc = pc, !.err = err]] PROVE Calls' = Calls
  <2> DEFINE k == [job[s] EXCEPT !.pc = pc, !.err = err]
  <2>1. job' = [job EXCEPT ![s] = k] /\ k.pc # "calling"
    BY <1>5, <1>9
  <2> HIDE DEF k
  <2> QED
    BY <2>1, <1>2
<1>10. ASSUME NEW pc, NEW q, pc # "calling",
              job' = [job EXCEPT ![s] = [@ EXCEPT !.pc = pc, !.todo = q]] PROVE Calls' = Calls
  <2> DEFINE k == [job[s] EXCEPT !.pc = pc, !.todo = q]
  <2>1. job' = [job EXCEPT ![s] = k] /\ k.pc # "calling"
    BY <1>6, <1>10
  <2> HIDE DEF k
  <2> QED
    BY <2>1, <1>2
<1>11. \A q : Finish(s, q) \/ Mend(s, q) => Calls' = Calls
  BY <1>10 DEF Finish, Mend
<1> QED
  BY <1>7, <1>8, <1>9, <1>10, <1>11

\* The steps of OrderLifecycle, one by one.
LEMMA LifeSteps ==
    ASSUME NEW o \in Orders
    PROVE  /\ UNCHANGED <<dock, Calls, acked>> => Life
           /\ o \in acked /\ dock' = [dock EXCEPT ![o] = "1"] /\ UNCHANGED <<Calls, acked>> => Life
           /\ o \notin acked /\ dock' = [dock EXCEPT ![o] = "2"] /\ UNCHANGED <<Calls, acked>> => Life
           /\ dock[o] = "2" /\ dock' = [dock EXCEPT ![o] = "0"] /\ UNCHANGED <<Calls, acked>> => Life
           /\ Calls[o] = 0 /\ o \notin acked /\ Calls' = [Calls EXCEPT ![o] = 1] /\ UNCHANGED <<dock, acked>> => Life
           /\ Calls[o] = 1 /\ Calls' = [Calls EXCEPT ![o] = 0] /\ acked' = acked \cup {o} /\ UNCHANGED dock => Life
           /\ Calls[o] = 1 /\ Calls' = [Calls EXCEPT ![o] = 0] /\ UNCHANGED <<dock, acked>> => Life
<1>1. Lifecycle!Submit(o) \/ Lifecycle!Fail(o) \/ Lifecycle!Reopen(o) \/ Lifecycle!Call(o)
      \/ Lifecycle!Accept(o) \/ Lifecycle!Refuse(o) => Life
  BY DEF Life, Lifecycle!Next
<1>2. UNCHANGED <<dock, Calls, acked>> => Life
  BY DEF Life
<1>3. o \in acked /\ dock' = [dock EXCEPT ![o] = "1"] /\ UNCHANGED <<Calls, acked>> => Lifecycle!Submit(o)
  BY DEF Lifecycle!Submit, Calls
<1>4. o \notin acked /\ dock' = [dock EXCEPT ![o] = "2"] /\ UNCHANGED <<Calls, acked>> => Lifecycle!Fail(o)
  BY DEF Lifecycle!Fail, Calls
<1>5. dock[o] = "2" /\ dock' = [dock EXCEPT ![o] = "0"] /\ UNCHANGED <<Calls, acked>> => Lifecycle!Reopen(o)
  BY DEF Lifecycle!Reopen, Calls
<1>6. Calls[o] = 0 /\ o \notin acked /\ Calls' = [Calls EXCEPT ![o] = 1] /\ UNCHANGED <<dock, acked>>
      => Lifecycle!Call(o)
  BY DEF Lifecycle!Call, Calls
<1>7. Calls[o] = 1 /\ Calls' = [Calls EXCEPT ![o] = 0] /\ acked' = acked \cup {o} /\ UNCHANGED dock
      => Lifecycle!Accept(o)
  BY DEF Lifecycle!Accept, Calls
<1>8. Calls[o] = 1 /\ Calls' = [Calls EXCEPT ![o] = 0] /\ UNCHANGED <<dock, acked>> => Lifecycle!Refuse(o)
  BY DEF Lifecycle!Refuse, Calls
<1> QED
  BY <1>1, <1>2, <1>3, <1>4, <1>5, <1>6, <1>7, <1>8

\* A worker that looked for its order and found no record of it may go on: who
\* had it accepted would still hold the lock.
LEMMA NotFound ==
    ASSUME TypeInv, HoldsLock, FateInv, NEW s \in Slots, job[s].pc = "locked",
           job[s].msg.oid \notin submitted
    PROVE  job[s].msg.oid \notin acked
<1> SUFFICES ASSUME job[s].msg.oid \in acked PROVE FALSE
  OBVIOUS
<1>1. PICK t \in Slots : job[t].msg.oid = job[s].msg.oid /\ Records(job[t])
  BY DEF FateInv
<1>2. Holds(s) /\ Holds(t) /\ job[t].pc # "locked"
  BY <1>1 DEF Holds, Records
<1> QED
  BY <1>1, <1>2, OneHolder

\* The steps of the consumer.
LEMMA ConsumerFate ==
    ASSUME SameSecond = FALSE, Normal, NEW s \in Slots,
           \/ \E m \in BagToSet(pending) : Pop(s, m)
           \/ TakeLock(s) \/ LockBusy(s) \/ LookUp(s) \/ Repair(s) \/ RepairFindsNothing(s)
           \/ CheckDB(s) \/ Dispatch(s) \/ DispatchFull(s)
    PROVE  FateInv' /\ Life
<1> USE DEF Normal
<1>m. /\ job[s] \in Job /\ Known(job[s], acked) /\ Fits(job[s], acked)
      /\ job[s].pc # "idle" => job[s].msg.oid \in Orders
  BY DEF TypeInv, JobsGood, GoodJob, Msg, RecordInv, Agents, FateInv
<1>0. UNCHANGED <<dock, Calls, acked>> => Life
  BY DEF Life
<1>f. job[s].pc \in {"checkdb", "dispatch"} => job[s].msg.oid \notin acked
  BY <1>m DEF Fits, Unfit
<1>1. ASSUME NEW m \in BagToSet(pending), Pop(s, m) PROVE FateInv' /\ Life
  <2> DEFINE k == [Idle EXCEPT !.pc = "popped", !.at = "consumer", !.msg = m]
  <2>1. job' = [job EXCEPT ![s] = k] /\ UNCHANGED <<dock, submitted, acked, lost>> /\ job[s] = Idle
    BY <1>1 DEF Pop, history
  <2>2. k.pc = "popped" /\ k.todo = <<>> /\ Idle.pc = "idle" /\ Idle.todo = <<>>
    BY DEF Idle
  <2> HIDE DEF k
  <2>3. ~Has(k.todo, "dellock") /\ Fits(k, acked) /\ ~Records(job[s])
    BY <2>1, <2>2, SlotCalls DEF Fits, Unfit, Records
  <2>4. FateInv'
    BY <2>1, <2>3, FatePut
  <2>5. Calls' = Calls
    BY <2>1, <2>2, CallsKept
  <2> QED
    BY <2>1, <2>4, <2>5, <1>0
<1>2. CASE TakeLock(s)
  <2>1. /\ job' = [job EXCEPT ![s].pc = "locked"] /\ UNCHANGED <<dock, submitted, acked, lost>>
        /\ job[s].pc = "popped"
    BY <1>2 DEF TakeLock, Become, history
  <2> QED
    BY <2>1, <1>0, FateBecomes, CallsForms
<1>3. CASE LockBusy(s)
  <2> DEFINE k == [job[s] EXCEPT !.pc = "drop", !.todo = <<"lrem">>]
  <2>1. job' = [job EXCEPT ![s] = k] /\ UNCHANGED <<dock, submitted, acked, lost>> /\ job[s].pc = "popped"
    BY <1>3 DEF LockBusy, store, history
  <2>2. k.pc = "drop" /\ k.todo = <<"lrem">>
    BY <1>m DEF Job
  <2> HIDE DEF k
  <2>3. ~Has(k.todo, "dellock") /\ Fits(k, acked) /\ ~Records(job[s])
    BY <2>1, <2>2, SlotCalls DEF Fits, Unfit, Records
  <2>4. FateInv'
    BY <2>1, <2>3, FatePut
  <2>5. Calls' = Calls
    BY <2>1, <2>2, CallsKept
  <2> QED
    BY <2>1, <2>4, <2>5, <1>0
<1>4. CASE LookUp(s)
  <2>1. /\ job[s].pc = "locked" /\ UNCHANGED <<dock, submitted, acked, lost>>
        /\ \/ job' = [job EXCEPT ![s].pc = "found"]
           \/ job' = [job EXCEPT ![s].pc = "checkdb"] /\ job[s].msg.oid \notin submitted
    BY <1>4 DEF LookUp, Become, store, history
  <2>2. CASE job' = [job EXCEPT ![s].pc = "found"]
    BY <2>1, <2>2, <1>0, FateBecomes, CallsForms
  <2>3. CASE job' = [job EXCEPT ![s].pc = "checkdb"] /\ job[s].msg.oid \notin submitted
    <3>1. job[s].msg.oid \notin acked
      BY <2>1, <2>3, NotFound
    <3> QED
      BY <2>1, <2>3, <3>1, <1>0, FateBecomes, CallsForms
  <2> QED
    BY <2>1, <2>2, <2>3
<1>5. CASE Repair(s)
  <2>1. /\ Mend(s, <<"delenq", "lrem">>) /\ UNCHANGED <<submitted, acked, lost>> /\ job[s].pc = "found"
        /\ dock' = [dock EXCEPT ![job[s].msg.oid] = "1"]
    BY <1>5 DEF Repair, history
  <2>2. job[s].msg.oid \in acked /\ job[s].msg.oid \in Orders
    BY <2>1, <1>m DEF Known
  <2>3. <<"delenq", "lrem">> # Failed
    BY DEF Failed
  <2>4. FateInv'
    BY <2>1, <2>3, FateCalls
  <2>5. Calls' = Calls
    BY <2>1, CallsForms
  <2> QED
    BY <2>1, <2>2, <2>4, <2>5, LifeSteps
<1>6. ~RepairFindsNothing(s)
  BY DEF RepairFindsNothing
<1>7. CASE CheckDB(s)
  <2>1. /\ UNCHANGED <<dock, submitted, acked, lost>> /\ job[s].pc = "checkdb"
        /\ Mend(s, Succeeded) \/ job' = [job EXCEPT ![s].pc = "dispatch"]
    BY <1>7 DEF CheckDB, store, history, Become
  <2>2. CASE Mend(s, Succeeded)
    <3>1. FateInv'
      BY <2>1, <2>2, <1>f, FateCalls
    <3> QED
      BY <2>1, <2>2, <3>1, <1>0, CallsForms
  <2>3. CASE job' = [job EXCEPT ![s].pc = "dispatch"]
    BY <2>1, <2>3, <1>0, <1>f, FateBecomes, CallsForms
  <2> QED
    BY <2>1, <2>2, <2>3
<1>8. CASE Dispatch(s)
  <2> DEFINE k == [job[s] EXCEPT !.pc = "submit", !.at = "submitq", !.err = "none"]
  <2>1. job' = [job EXCEPT ![s] = k] /\ UNCHANGED <<dock, submitted, acked, lost>> /\ job[s].pc = "dispatch"
    BY <1>8 DEF Dispatch, store, history
  <2>2. k.pc = "submit" /\ k.msg = job[s].msg /\ k.todo = job[s].todo
    BY <1>m DEF Job
  <2> HIDE DEF k
  <2>3. FateInv'
    BY <2>1, <2>2, <1>f, FateMoves
  <2>4. Calls' = Calls
    BY <2>1, <2>2, CallsKept
  <2> QED
    BY <2>1, <2>3, <2>4, <1>0
<1>9. CASE DispatchFull(s)
  <2>1. /\ job' = [job EXCEPT ![s].pc = "submit"] /\ UNCHANGED <<dock, submitted, acked, lost>>
        /\ job[s].pc = "dispatch"
    BY <1>9 DEF DispatchFull, Become, store, history
  <2> QED
    BY <2>1, <1>0, <1>f, FateBecomes, CallsForms
<1> QED
  BY <1>1, <1>2, <1>3, <1>4, <1>5, <1>6, <1>7, <1>8, <1>9

\* The slots that wait for the answer about order o.
Up(o) == {t \in Slots : job[t].pc = "calling" /\ job[t].msg.oid = o}

\* A call to the upstream starts: there is no other one for the order.
LEMMA CallStarts ==
    ASSUME TypeInv, HoldsLock, FateInv, NEW s \in Slots, NEW k, job' = [job EXCEPT ![s] = k],
           Holds(s), job[s].pc # "calling", k.pc = "calling", k.msg = job[s].msg, job[s].msg.oid \in Orders
    PROVE  /\ Calls[job[s].msg.oid] = 0
           /\ Calls' = [Calls EXCEPT ![job[s].msg.oid] = 1]
<1>0. PICK o \in Orders : o = job[s].msg.oid
  OBVIOUS
<1>1. job'[s] = k /\ \A t \in Slots : t # s => job'[t] = job[t]
  BY DEF TypeInv, JobsGood, Agents
<1>2. Up(o) = {}
  BY <1>0, OneHolder DEF Up, Holds
<1>3. Up(o)' = {s}
  BY <1>0, <1>1, <1>2 DEF Up
<1>4. \A p \in Orders : p # o => Up(p)' = Up(p)
  BY <1>0, <1>1 DEF Up
<1>5. \A p \in Orders : Calls[p] = Cardinality(Up(p)) /\ Calls'[p] = Cardinality(Up(p)')
  BY DEF Calls, Calling, Up
<1>6. Cardinality({}) = 0 /\ Cardinality({s}) = 1
  BY FS_EmptySet, FS_Singleton
<1>7. \A p \in Orders : Calls'[p] = IF p = o THEN 1 ELSE Calls[p]
  BY <1>3, <1>4, <1>5, <1>6
<1>8. Calls' = [Calls EXCEPT ![o] = 1]
  BY <1>7 DEF Calls
<1> QED
  BY <1>0, <1>2, <1>5, <1>6, <1>8

\* It ends.
LEMMA CallEnds ==
    ASSUME TypeInv, HoldsLock, FateInv, NEW s \in Slots, NEW k, job' = [job EXCEPT ![s] = k],
           job[s].pc = "calling", k.pc # "calling", job[s].msg.oid \in Orders
    PROVE  /\ Calls[job[s].msg.oid] = 1
           /\ Calls' = [Calls EXCEPT ![job[s].msg.oid] = 0]
<1>0. PICK o \in Orders : o = job[s].msg.oid
  OBVIOUS
<1>1. job'[s] = k /\ \A t \in Slots : t # s => job'[t] = job[t]
  BY DEF TypeInv, JobsGood, Agents
<1>2. Up(o) = {s}
  BY <1>0, OneHolder DEF Up, Holds
<1>3. Up(o)' = {}
  BY <1>0, <1>1, <1>2 DEF Up
<1>4. \A p \in Orders : p # o => Up(p)' = Up(p)
  BY <1>0, <1>1 DEF Up
<1>5. \A p \in Orders : Calls[p] = Cardinality(Up(p)) /\ Calls'[p] = Cardinality(Up(p)')
  BY DEF Calls, Calling, Up
<1>6. Cardinality({}) = 0 /\ Cardinality({s}) = 1
  BY FS_EmptySet, FS_Singleton
<1>7. \A p \in Orders : Calls'[p] = IF p = o THEN 0 ELSE Calls[p]
  BY <1>3, <1>4, <1>5, <1>6
<1>8. Calls' = [Calls EXCEPT ![o] = 0]
  BY <1>7 DEF Calls
<1> QED
  BY <1>0, <1>2, <1>5, <1>6, <1>8

\* The upstream has accepted the order of slot s: nobody else is about it.
LEMMA FateAccepted ==
    ASSUME TypeInv, HoldsLock, FateInv, NEW s \in Slots, job[s].pc = "calling",
           Finish(s, Succeeded), acked' = acked \cup {job[s].msg.oid}, UNCHANGED <<submitted, lost>>
    PROVE  FateInv'
<1> DEFINE p == Append(Succeeded, "release")
           k == [job[s] EXCEPT !.pc = "run", !.todo = p]
<1>1. job' = [job EXCEPT ![s] = k]
  BY DEF Finish
<1>2. k.pc = "run" /\ k.todo = p /\ k.msg = job[s].msg
  BY DEF TypeInv, JobsGood, Agents, Job
<1>3. Has(p, "hset") /\ ~Has(p, "db2") /\ ~Has(p, "dellock")
  BY SlotCalls
<1> HIDE DEF p, k
<1>4. job'[s] = k /\ \A a \in Agents : a # s => job'[a] = job[a]
  BY <1>1 DEF TypeInv, JobsGood, Agents
<1>5. \A a \in Service : job'[a] = job[a]
  BY <1>4, StoreAssumption DEF Agents
<1>6. \A a \in Agents : ~Has(job'[a].todo, "dellock")
  BY <1>2, <1>3, <1>4 DEF FateInv
<1>7. ASSUME NEW t \in Slots PROVE Fits(job'[t], acked')
  <2>1. CASE t = s
    BY <1>2, <1>3, <1>4, <2>1 DEF Fits, Unfit
  <2>2. CASE t # s
    <3>1. job'[t] = job[t] /\ Fits(job[t], acked)
      BY <1>4, <2>2 DEF FateInv, Agents
    <3>2. Unfit(job[t]) => Holds(t)
      BY <3>1 DEF Fits, Unfit, Holds
    <3>3. Unfit(job[t]) => job[t].msg.oid # job[s].msg.oid
      BY <2>2, <3>2, OneHolder DEF Holds
    <3> QED
      BY <3>1, <3>3 DEF Fits
  <2> QED
    BY <2>1, <2>2
<1>8. \A o \in acked' : o \in submitted' \/ \E t \in Slots : job'[t].msg.oid = o /\ Records(job'[t])
  <2> SUFFICES ASSUME NEW o \in acked', o \notin submitted'
               PROVE  \E t \in Slots : job'[t].msg.oid = o /\ Records(job'[t])
    OBVIOUS
  <2>1. CASE o = job[s].msg.oid
    BY <1>2, <1>3, <1>4, <2>1 DEF Records
  <2>2. CASE o # job[s].msg.oid
    <3>1. PICK t \in Slots : job[t].msg.oid = o /\ Records(job[t])
      BY <2>2 DEF FateInv
    <3> QED
      BY <1>4, <2>2, <3>1 DEF Agents
  <2> QED
    BY <2>1, <2>2
<1> QED
  BY <1>5, <1>6, <1>7, <1>8 DEF FateInv

\* The steps of the pool worker, or of the consumer in its place.
LEMMA PoolFate ==
    ASSUME Normal, NEW s \in Slots,
           \/ TakeSubmit(s) \/ LoadFails(s) \/ CallUpstream(s) \/ Accepted(s) \/ Refused(s)
           \/ FailedButSubmitted(s) \/ FailedSubmit(s)
    PROVE  FateInv' /\ Life
<1> USE DEF Normal
<1>m. /\ job[s] \in Job /\ Fits(job[s], acked)
      /\ job[s].pc # "idle" => job[s].msg.oid \in Orders
  BY DEF TypeInv, JobsGood, GoodJob, Msg, Agents, FateInv
<1>0. UNCHANGED <<dock, Calls, acked>> => Life
  BY DEF Life
<1>f. job[s].pc \in {"submit", "calling", "failed"} => job[s].msg.oid \notin acked
  BY <1>m DEF Fits, Unfit
<1>1. CASE TakeSubmit(s)
  <2> DEFINE k == [job[s] EXCEPT !.at = "pool"]
  <2>1. job' = [job EXCEPT ![s] = k] /\ UNCHANGED <<dock, submitted, acked, lost>>
    BY <1>1 DEF TakeSubmit, store, history
  <2>2. k.pc = job[s].pc /\ k.msg = job[s].msg /\ k.todo = job[s].todo
    BY <1>m DEF Job
  <2> HIDE DEF k
  <2>3. ~Has(k.todo, "dellock") /\ Fits(k, acked) /\ (Records(job[s]) => Records(k))
    BY <1>m, <2>2 DEF Fits, Unfit, Records, FateInv, Agents
  <2>4. FateInv'
    BY <2>1, <2>2, <2>3, FatePut
  <2>5. job'[s] = k /\ \A t \in Slots : t # s => job'[t] = job[t]
    BY <2>1 DEF TypeInv, JobsGood, Agents
  <2>6. \A o : Up(o)' = Up(o)
    BY <2>2, <2>5 DEF Up
  <2>7. Calls' = Calls
    BY <2>6 DEF Calls, Calling, Up
  <2> QED
    BY <2>1, <2>4, <2>7, <1>0
<1>2. CASE LoadFails(s)
  <2>1. PICK e : job' = [job EXCEPT ![s] = [@ EXCEPT !.pc = "failed", !.err = e]]
    BY <1>2 DEF LoadFails
  <2> DEFINE k == [job[s] EXCEPT !.pc = "failed", !.err = e]
  <2>2. job' = [job EXCEPT ![s] = k] /\ UNCHANGED <<dock, submitted, acked, lost>> /\ job[s].pc = "submit"
    BY <1>2, <2>1 DEF LoadFails, Try, store
  <2>3. k.pc = "failed" /\ k.msg = job[s].msg /\ k.todo = job[s].todo
    BY <1>m DEF Job
  <2> HIDE DEF k
  <2> QED
    BY <2>2, <2>3, <1>0, <1>f, FateMoves, CallsKept
<1>3. CASE CallUpstream(s)
  <2> DEFINE k == [job[s] EXCEPT !.pc = "calling"]
  <2>1. /\ job' = [job EXCEPT ![s] = k] /\ UNCHANGED <<dock, submitted, acked, lost>> /\ job[s].pc = "submit"
    BY <1>3 DEF CallUpstream, Try, store, Become
  <2>2. k.pc = "calling" /\ k.msg = job[s].msg /\ k.todo = job[s].todo
    BY <1>m DEF Job
  <2> HIDE DEF k
  <2>3. FateInv'
    BY <2>1, <2>2, <1>f, FateMoves
  <2>4. Calls[job[s].msg.oid] = 0 /\ Calls' = [Calls EXCEPT ![job[s].msg.oid] = 1]
    BY <2>1, <2>2, <1>m, CallStarts DEF Holds
  <2> QED
    BY <2>1, <2>3, <2>4, <1>m, <1>f, LifeSteps
<1>4. CASE Accepted(s)
  <2> DEFINE k == [job[s] EXCEPT !.pc = "run", !.todo = Append(Succeeded, "release")]
  <2>1. /\ Finish(s, Succeeded) /\ acked' = acked \cup {job[s].msg.oid}
        /\ UNCHANGED <<dock, submitted, lost>> /\ job[s].pc = "calling"
    BY <1>4 DEF Accepted, store
  <2>2. job' = [job EXCEPT ![s] = k] /\ k.pc = "run"
    BY <2>1, <1>m DEF Finish, Job
  <2> HIDE DEF k
  <2>3. Calls[job[s].msg.oid] = 1 /\ Calls' = [Calls EXCEPT ![job[s].msg.oid] = 0]
    BY <2>1, <2>2, <1>m, CallEnds
  <2> QED
    BY <2>1, <2>3, <1>m, LifeSteps, FateAccepted
<1>5. CASE Refused(s)
  <2>1. PICK e : job' = [job EXCEPT ![s] = [@ EXCEPT !.pc = "failed", !.err = e]]
    BY <1>5 DEF Refused
  <2> DEFINE k == [job[s] EXCEPT !.pc = "failed", !.err = e]
  <2>2. job' = [job EXCEPT ![s] = k] /\ UNCHANGED <<dock, submitted, acked, lost>> /\ job[s].pc = "calling"
    BY <1>5, <2>1 DEF Refused, store, history
  <2>3. k.pc = "failed" /\ k.msg = job[s].msg /\ k.todo = job[s].todo
    BY <1>m DEF Job
  <2> HIDE DEF k
  <2>4. FateInv'
    BY <2>2, <2>3, <1>f, FateMoves
  <2>5. Calls[job[s].msg.oid] = 1 /\ Calls' = [Calls EXCEPT ![job[s].msg.oid] = 0]
    BY <2>2, <2>3, <1>m, CallEnds
  <2> QED
    BY <2>2, <2>4, <2>5, <1>m, LifeSteps
<1>6. CASE FailedButSubmitted(s)
  <2>1. Finish(s, Succeeded) /\ UNCHANGED <<dock, submitted, acked, lost>> /\ job[s].pc = "failed"
    BY <1>6 DEF FailedButSubmitted, store, history
  <2>2. FateInv'
    BY <2>1, <1>f, FateCalls
  <2> QED
    BY <2>1, <2>2, <1>0, CallsForms
<1>7. CASE FailedSubmit(s)
  <2>1. /\ Finish(s, Retried) \/ Finish(s, Failed)
        /\ UNCHANGED <<dock, submitted, acked, lost>> /\ job[s].pc = "failed"
    BY <1>7 DEF FailedSubmit, store, history
  <2>2. FateInv'
    BY <2>1, <1>f, FateCalls
  <2> QED
    BY <2>1, <2>2, <1>0, CallsForms
<1> QED
  BY <1>1, <1>2, <1>3, <1>4, <1>5, <1>6, <1>7

\* What a call does to the order table.
LEMMA CallOutcome ==
    ASSUME TypeInv, RecordInv, NEW a \in Agents, MakeCall(a), Calls' = Calls,
           job[a].todo[1] = "db2" => job[a].msg.oid \notin acked
    PROVE  Life
<1> DEFINE c == job[a].todo[1]
           o == job[a].msg.oid
<1>1. /\ job[a].pc # "found" /\ job[a].pc # "idle" /\ acked' = acked /\ job[a].todo # <<>>
      /\ dock' = [dock EXCEPT ![o] = CASE c = "db1" -> "1" [] c = "db2" -> "2" [] OTHER -> @]
  BY DEF MakeCall, Running, Do
<1>2. o \in Orders /\ job[a].todo \in Seq(Call) /\ Known(job[a], acked)
  BY <1>1 DEF TypeInv, JobsGood, GoodJob, GoodCalls, Msg, RecordInv
<1>3. 1 \in DOMAIN job[a].todo
  BY <1>1, <1>2
<1>4. c = "db1" => o \in acked
  BY <1>1, <1>2, <1>3 DEF Known, Silent
<1> HIDE DEF c, o
<1>5. CASE c = "db1"
  BY <1>1, <1>2, <1>4, <1>5, LifeSteps
<1>6. CASE c = "db2"
  BY <1>1, <1>2, <1>6, LifeSteps DEF c, o
<1>7. CASE c # "db1" /\ c # "db2"
  <2>1. dock' = dock
    BY <1>1, <1>7 DEF TypeInv, StoreOK
  <2> QED
    BY <1>1, <1>2, <2>1, LifeSteps
<1> QED
  BY <1>5, <1>6, <1>7

\* A call, of a slot or of a loop: what it writes to the order table is true of
\* the order.
LEMMA CallFate ==
    ASSUME Normal, NEW a \in Agents, MakeCall(a)
    PROVE  FateInv' /\ Life
<1> USE DEF Normal
<1> DEFINE j == job[a]
           q == j.todo
           c == q[1]
           k == Advance(j)
           m == j.msg
<1>1. /\ job' = [job EXCEPT ![a] = k] /\ Do(a, c, m) /\ acked' = acked
      /\ j.pc \in {"run", "mend", "drop"} /\ q # <<>>
  BY DEF MakeCall, Running
<1>2. j \in Job /\ m.oid \in Orders /\ q \in Seq(Call) /\ Known(j, acked)
  BY <1>1 DEF TypeInv, JobsGood, GoodJob, GoodCalls, Msg, RecordInv
<1>3. /\ \A x : Has(Tail(q), x) => Has(q, x)
      /\ \A x : Has(q, x) => c = x \/ Has(Tail(q), x)
      /\ Has(q, c)
      /\ \A x : Len(q) = 1 => ~Has(Tail(q), x)
  BY <1>1, <1>2, HasTail
<1>4. \/ Len(q) = 1 /\ k = Idle
      \/ k.pc = j.pc /\ k.msg = m /\ k.todo = Tail(q)
  BY <1>2 DEF Advance, Job
<1>5. Idle.pc = "idle" /\ Idle.todo = <<>> /\ \A x : ~Has(<<>>, x)
  BY SlotCalls DEF Idle
<1>6. /\ submitted \subseteq submitted' /\ (c = "hset" => m.oid \in submitted')
      /\ (c # "dellock" => lost' = lost)
      /\ dock' = [dock EXCEPT ![m.oid] = CASE c = "db1" -> "1" [] c = "db2" -> "2" [] OTHER -> @]
  BY <1>1 DEF Do
<1>7. ~Has(q, "dellock")
  BY DEF FateInv
<1>8. lost' = lost /\ ~Has(k.todo, "dellock")
  BY <1>3, <1>4, <1>5, <1>6, <1>7
<1>9. k.pc # "calling" /\ j.pc # "calling"
  BY <1>1, <1>4, <1>5
<1>10. CASE a \in Slots
  <2>1. Fits(j, acked)
    BY <1>10 DEF FateInv
  <2>2. Fits(k, acked)
    <3>1. CASE k = Idle
      BY <3>1, <1>5 DEF Fits, Unfit
    <3>2. CASE k.pc = j.pc /\ k.msg = m /\ k.todo = Tail(q)
      BY <3>2, <2>1, <1>1, <1>3 DEF Fits, Unfit
    <3> QED
      BY <3>1, <3>2, <1>4
  <2>3. Records(j) => m.oid \in submitted' \/ (k.msg = m /\ Records(k))
    <3> SUFFICES ASSUME Records(j), c # "hset" PROVE k.msg = m /\ Records(k)
      BY <1>6
    <3>1. Has(Tail(q), "hset") /\ j.pc \in {"run", "mend"}
      BY <1>3 DEF Records
    <3>2. Len(q) # 1
      BY <3>1, <1>3
    <3> QED
      BY <3>1, <3>2, <1>4 DEF Records
  <2> HIDE DEF k, c
  <2>4. FateInv'
    BY <1>1, <1>6, <1>8, <1>10, <2>2, <2>3, FatePut
  <2>5. Calls' = Calls
    BY <1>1, <1>9, <1>10, CallsKept
  <2>6. c = "db2" => m.oid \notin acked
    BY <1>3, <2>1 DEF Fits, Unfit
  <2> QED
    BY <2>4, <2>5, <2>6, CallOutcome DEF c
<1>11. CASE a \in Service
  <2>1. ~Has(q, "db2")
    BY <1>11 DEF FateInv
  <2>2. ~Has(k.todo, "db2") /\ c # "db2"
    BY <2>1, <1>3, <1>4, <1>5
  <2> HIDE DEF k, c
  <2>3. FateInv'
    BY <1>1, <1>6, <1>8, <1>11, <2>2, FateService
  <2>4. \A s \in Slots : job'[s] = job[s]
    BY <1>1, <1>11, StoreAssumption DEF TypeInv, JobsGood, Agents
  <2>5. Calls' = Calls
    BY <2>4, CallsSame
  <2> QED
    BY <2>2, <2>3, <2>5, CallOutcome DEF c
<1> QED
  BY <1>10, <1>11 DEF Agents

\* The decisions of the retrier and the scanner.
LEMMA DecisionFate ==
    ASSUME Normal,
           \/ (\E m \in retry : TakeDue(m)) \/ DecideDue
           \/ \E a \in {"retrier", "scanner"} : Enqueue(a)
           \/ (\E m \in BagToSet(dlq) : TakeDead(m)) \/ DecideDead \/ Reopen \/ Rescue
    PROVE  FateInv' /\ Life
<1> USE DEF Normal
<1>1. PICK a \in {"retrier", "scanner"} :
        \E k : job' = [job EXCEPT ![a] = k] /\ k.todo \in ServiceCalls \cup {job[a].todo}
  BY Decides
<1>2. PICK k : job' = [job EXCEPT ![a] = k] /\ k.todo \in ServiceCalls \cup {job[a].todo}
  BY <1>1
<1>3. a \in Service /\ a \in Agents
  BY DEF Service, Agents
<1>4. \A q \in ServiceCalls : ~Has(q, "db2") /\ ~Has(q, "dellock")
  BY DEF Has, ServiceCalls
<1>5. ~Has(k.todo, "db2") /\ ~Has(k.todo, "dellock")
  BY <1>2, <1>3, <1>4 DEF FateInv
<1>6. UNCHANGED <<acked, lost>> /\ submitted \subseteq submitted'
  BY DEF TakeDue, DecideDue, Enqueue, TakeDead, DecideDead, Reopen, Rescue, Look, store, history
<1>7. FateInv'
  BY <1>2, <1>3, <1>5, <1>6, FateService
<1>8. \A s \in Slots : job'[s] = job[s]
  BY <1>2, <1>3, StoreAssumption DEF TypeInv, JobsGood, Agents
<1>9. Calls' = Calls
  BY <1>8, CallsSame
<1>10. Life
  <2>1. CASE Reopen
    <3>1. job["scanner"].msg.oid \in Orders
      BY <2>1 DEF Reopen, TypeInv, JobsGood, GoodJob, Msg, Agents, Service
    <3>2. PICK o \in Orders : o = job["scanner"].msg.oid
      BY <3>1
    <3>3. \/ dock[o] = "2" /\ dock' = [dock EXCEPT ![o] = "0"]
          \/ dock' = dock
      BY <2>1, <3>2 DEF Reopen
    <3> QED
      BY <1>6, <1>9, <3>3, LifeSteps
  <2>2. CASE ~Reopen
    <3>1. dock' = dock
      BY <2>2 DEF TakeDue, DecideDue, Enqueue, TakeDead, DecideDead, Rescue, store
    <3> QED
      BY <1>6, <1>9, <3>1 DEF Life
  <2> QED
    BY <2>1, <2>2
<1> QED
  BY <1>7, <1>10

\* Every step, when no fault may happen.
LEMMA FateStep ==
    ASSUME MaxFaults = 0, SameSecond = FALSE, IsFiniteSet(Slots)
    PROVE  Normal /\ [Next]_vars => FateInv' /\ Life
<1> SUFFICES ASSUME Normal, [Next]_vars PROVE FateInv' /\ Life
  OBVIOUS
<1> USE DEF Normal
<1>0. up = "up" /\ job["reaper"] = Idle /\ job["rollback"] = Idle
  BY DEF OwnInv, Quiet
<1>s. ASSUME UNCHANGED <<job, dock, submitted, acked, lost>>
      PROVE  FateInv' /\ Life
  <2>1. Calls' = Calls
    BY <1>s, CallsSame
  <2> QED
    BY <1>s, <2>1, FateSame DEF Life
<1>1. CASE UNCHANGED vars
  BY <1>1, <1>s DEF vars, store, control, history
<1>2. CASE WorkerNext
  <2>1. \A m : ~PopUnanswered(m)
    BY NoFault DEF PopUnanswered
  <2>2. \A a : ~CallFails(a) /\ ~CallUnanswered(a)
    BY NoFault DEF CallFails, CallUnanswered
  <2> QED
    BY <1>2, <2>1, <2>2, NoFaultySteps, ConsumerFate, PoolFate, CallFate DEF WorkerNext
<1>3. CASE MaintenanceNext
  <2>1. ASSUME NEW f \in Feeders, NEW o \in Orders, ReadToDo(f) \/ Mark(f, o) \/ Push(f, o)
        PROVE  FateInv' /\ Life
    BY <2>1, <1>s DEF ReadToDo, Mark, Push, store, control, history
  <2>2. \A f, o : ~PushFails(f, o)
    BY NoFault DEF PushFails
  <2>3. \A m \in BagToSet(proc) : ~Reap(m) /\ ~TakeRollback(m)
    BY <1>0, NothingToReap DEF TakeRollback
  <2>4. ~DecideReap /\ ~DecideRollback
    BY <1>0 DEF DecideReap, DecideRollback, Idle
  <2>5. ASSUME NEW o \in Orders, MarkExpires(o) \/ LockExpires(o)
        PROVE  FateInv' /\ Life
    BY <2>5, <1>s DEF MarkExpires, LockExpires, control, history
  <2>6. \A o : ~LockLost(o)
    BY NoFault DEF LockLost
  <2>7. ~Shutdown /\ ~StartRollback /\ ~Exit /\ ~Crash
    BY <1>0, NoFault DEF Shutdown, StartRollback, Exit, Crash
  <2>8. ASSUME NEW f \in Feeders, ReadToDo(f)
        PROVE  FateInv' /\ Life
    BY <2>8, <1>s DEF ReadToDo, store, history
  <2> QED
    BY <1>3, <2>1, <2>2, <2>3, <2>4, <2>5, <2>6, <2>7, <2>8, DecisionFate DEF MaintenanceNext
<1> QED
  BY <1>1, <1>2, <1>3 DEF Next

\* At the start nothing is accepted and nobody has a call to make.
LEMMA FateInit == Init => FateInv
<1> SUFFICES ASSUME Init PROVE FateInv
  OBVIOUS
<1>1. lost = {} /\ acked = {} /\ \A a \in Agents : job[a] = Idle
  BY DEF Init
<1>2. Idle.pc = "idle" /\ Idle.todo = <<>> /\ \A c : ~Has(<<>>, c)
  BY SlotCalls DEF Idle
<1>3. Slots \subseteq Agents /\ Service \subseteq Agents
  BY DEF Agents
<1> QED
  BY <1>1, <1>2, <1>3 DEF FateInv, Fits, Unfit

\* What is known of a state without faults is always true of one.
LEMMA AlwaysNormal ==
    ASSUME MaxFaults = 0, "read" \notin FaultKinds, SameSecond = FALSE, IsFiniteSet(Slots)
    PROVE  Spec => []Normal
<1>1. Init => FateInv
  BY FateInit
<1>2. Normal /\ [Next]_vars => FateInv'
  BY FateStep
<1>3. Spec => []RecordInv
  <2>1. Init => RecordInv
    BY SilentHandlers DEF Init, RecordInv, RecordedWasAccepted, Known, Idle
  <2>2. TypeInv /\ RecordInv /\ [Next]_vars => RecordInv'
    BY RecordStep
  <2> QED
    BY <2>1, <2>2, TypesKept, PTL DEF Spec
<1>4. Spec => []OwnInv
  BY OwnersKept
<1> QED
  BY <1>1, <1>2, <1>3, <1>4, LocksHeld, TypesKept, PTL DEF Spec, Normal

\* Without faults the queue implements OrderLifecycle, for any number of orders,
\* copies, consumers, pool workers and attempts: an order is at the upstream at
\* most once at a time and never again after it was accepted, and the order table
\* calls it submitted, or failed, only when it is accepted, or not.  (SameSecond,
\* the UPDATE that changes no row, is left out: the run `repair` is about it.)
THEOREM QueueIsLifecycle ==
    ASSUME MaxFaults = 0, "read" \notin FaultKinds, SameSecond = FALSE, IsFiniteSet(Slots)
    PROVE  Spec => LifecycleSpec
<1>1. Init => Lifecycle!Init
  <2> SUFFICES ASSUME Init PROVE Lifecycle!Init
    OBVIOUS
  <2>1. \A s \in Slots : job[s].pc # "calling"
    BY DEF Init, Idle, Agents
  <2>2. \A o \in Orders : Calling(o) = 0
    <3> TAKE o \in Orders
    <3>1. {s \in Slots : job[s].pc = "calling" /\ job[s].msg.oid = o} = {}
      BY <2>1
    <3> QED
      BY <3>1, FS_EmptySet DEF Calling
  <2> QED
    BY <2>2 DEF Init, Lifecycle!Init
<1>2. Normal /\ [Next]_vars => FateInv' /\ Life
  BY FateStep
<1>3. Spec => []Normal
  BY AlwaysNormal
<1>4. Life => [Lifecycle!Next]_<<dock, [o \in Orders |-> Calling(o)], acked>>
  BY DEF Life, Calls
<1> QED
  BY <1>1, <1>2, <1>3, <1>4, PTL DEF Spec, LifecycleSpec, Lifecycle!Spec

-----------------------------------------------------------------------------
(* What a slot may do besides its calls, when no fault has touched it.     *)

Engaged == {"run", "mend", "drop"}

\* The job of slot s becomes k: it takes a message, ...
Takes(s, k) == job[s] = Idle /\ k.pc = "popped" /\ k.todo = <<>> /\ k.msg \in DOMAIN pending

\* ... it gets on with it, ...
GetsOn(s, k) ==
    /\ k.msg = job[s].msg /\ k.todo = job[s].todo
    /\ \/ k.pc = job[s].pc
       \/ job[s].pc \notin Engaged /\ k.pc \notin Engaged \cup {"idle", "moving", "popped"}

\* ... it drops its copy, because the lock is taken, ...
Drops(s, k) ==
    /\ k.msg = job[s].msg /\ k.pc = "drop" /\ k.todo = <<"lrem">>
    /\ job[s].pc = "popped" /\ lock[job[s].msg.oid] # Nobody

\* ... or it starts on the calls that end its work.
Ends(s, k) ==
    /\ k.msg = job[s].msg /\ k.pc \in {"run", "mend"}
    /\ job[s].pc \notin Engaged \cup {"idle", "moving", "popped"}
    /\ \/ k.todo = Append(Succeeded, "release")
       \/ k.todo = Append(Failed, "release")
       \/ k.todo = Append(Retried, "release") /\ ResubmitOn
       \/ /\ k.todo = Append(<<"delenq", "lrem">>, "release")
          /\ dock' = [dock EXCEPT ![job[s].msg.oid] = "1"]

Goes(s) == \E k : /\ job' = [job EXCEPT ![s] = k]
                  /\ Takes(s, k) \/ GetsOn(s, k) \/ Drops(s, k) \/ Ends(s, k)

\* The last form.
LEMMA GoesToEnd ==
    ASSUME TypeInv, NEW s \in Slots, NEW q, Finish(s, q) \/ Mend(s, q),
           job[s].pc \notin Engaged \cup {"idle", "moving", "popped"},
           \/ q = Succeeded \/ q = Failed
           \/ q = Retried /\ ResubmitOn
           \/ q = <<"delenq", "lrem">> /\ dock' = [dock EXCEPT ![job[s].msg.oid] = "1"]
    PROVE  Goes(s)
<1> DEFINE p == Append(q, "release")
<1>1. PICK pc \in {"run", "mend"} : job' = [job EXCEPT ![s] = [@ EXCEPT !.pc = pc, !.todo = p]]
  <2>1. Finish(s, q) => job' = [job EXCEPT ![s] = [@ EXCEPT !.pc = "run", !.todo = p]]
    BY DEF Finish
  <2>2. Mend(s, q) => job' = [job EXCEPT ![s] = [@ EXCEPT !.pc = "mend", !.todo = p]]
    BY DEF Mend
  <2> HIDE DEF p
  <2> QED
    BY <2>1, <2>2
<1>2. \/ p = Append(Succeeded, "release") \/ p = Append(Failed, "release")
      \/ p = Append(Retried, "release") /\ ResubmitOn
      \/ p = Append(<<"delenq", "lrem">>, "release") /\ dock' = [dock EXCEPT ![job[s].msg.oid] = "1"]
  OBVIOUS
<1> HIDE DEF p
<1> DEFINE k == [job[s] EXCEPT !.pc = pc, !.todo = p]
<1>3. k.pc = pc /\ k.todo = p /\ k.msg = job[s].msg
  BY DEF TypeInv, JobsGood, Agents, Job
<1>4. job' = [job EXCEPT ![s] = k] /\ pc \in {"run", "mend"}
  BY <1>1
<1> HIDE DEF k
<1>5. Ends(s, k)
  BY <1>2, <1>3, <1>4 DEF Ends
<1> QED
  BY <1>4, <1>5 DEF Goes

\* The second form.
LEMMA GoesOn ==
    ASSUME TypeInv, NEW s \in Slots, NEW pc, job' = [job EXCEPT ![s].pc = pc],
           job[s].pc \notin Engaged, pc \notin Engaged \cup {"idle", "moving", "popped"}
    PROVE  Goes(s)
<1> DEFINE k == [job[s] EXCEPT !.pc = pc]
<1>1. k.pc = pc /\ k.msg = job[s].msg /\ k.todo = job[s].todo
  BY DEF TypeInv, JobsGood, Agents, Job
<1>2. job' = [job EXCEPT ![s] = k]
  OBVIOUS
<1> HIDE DEF k
<1> QED
  BY <1>1, <1>2 DEF Goes, GetsOn

\* The handlers of the consumer and of the pool take these forms, and of the
\* order table they only repair a row.
LEMMA SlotSteps ==
    ASSUME SameSecond = FALSE, TypeInv, NEW s \in Slots,
           \/ \E m \in BagToSet(pending) : Pop(s, m)
           \/ TakeLock(s) \/ LockBusy(s) \/ LookUp(s) \/ Repair(s) \/ RepairFindsNothing(s)
           \/ CheckDB(s) \/ Dispatch(s) \/ DispatchFull(s)
           \/ TakeSubmit(s) \/ LoadFails(s) \/ CallUpstream(s) \/ Accepted(s) \/ Refused(s)
           \/ FailedButSubmitted(s) \/ FailedSubmit(s)
    PROVE  /\ Goes(s)
           /\ UNCHANGED <<submitted, enq, dlq, retry, feed>>
           /\ dock' = dock \/ dock' = [dock EXCEPT ![job[s].msg.oid] = "1"]
<1>m. job[s] \in Job
  BY DEF TypeInv, JobsGood, GoodJob, Agents
<1>0. /\ UNCHANGED <<submitted, enq, dlq, retry, feed>>
      /\ dock' = dock \/ dock' = [dock EXCEPT ![job[s].msg.oid] = "1"]
  BY DEF Pop, TakeLock, LockBusy, LookUp, Repair, RepairFindsNothing, CheckDB, Dispatch, DispatchFull,
         TakeSubmit, LoadFails, CallUpstream, Accepted, Refused, FailedButSubmitted, FailedSubmit, store
<1>1. ASSUME NEW m \in BagToSet(pending), Pop(s, m) PROVE Goes(s)
  <2> DEFINE k == [Idle EXCEPT !.pc = "popped", !.at = "consumer", !.msg = m]
  <2>1. job' = [job EXCEPT ![s] = k] /\ job[s] = Idle
    BY <1>1 DEF Pop
  <2>2. k.pc = "popped" /\ k.todo = <<>> /\ k.msg = m
    BY DEF Idle
  <2> HIDE DEF k
  <2> QED
    BY <2>1, <2>2 DEF Goes, Takes, BagToSet
<1>2. CASE TakeLock(s) \/ LookUp(s) \/ DispatchFull(s) \/ CallUpstream(s)
  <2>1. PICK pc \in {"locked", "found", "checkdb", "submit", "calling"} : job' = [job EXCEPT ![s].pc = pc]
    BY <1>2 DEF TakeLock, LookUp, DispatchFull, CallUpstream, Become
  <2>2. job[s].pc \notin Engaged /\ pc \notin Engaged \cup {"idle", "moving", "popped"}
    BY <1>2, <2>1 DEF TakeLock, LookUp, DispatchFull, CallUpstream, Try, Engaged
  <2> QED
    BY <1>0, <2>1, <2>2, GoesOn
<1>3. CASE LockBusy(s)
  <2> DEFINE k == [job[s] EXCEPT !.pc = "drop", !.todo = <<"lrem">>]
  <2>1. job' = [job EXCEPT ![s] = k] /\ job[s].pc = "popped" /\ lock[job[s].msg.oid] # Nobody
    BY <1>3 DEF LockBusy
  <2>2. k.pc = "drop" /\ k.todo = <<"lrem">> /\ k.msg = job[s].msg
    BY <1>m DEF Job
  <2> HIDE DEF k
  <2>3. Drops(s, k)
    BY <2>1, <2>2 DEF Drops
  <2> QED
    BY <1>0, <2>1, <2>3 DEF Goes
<1>4. CASE Repair(s)
  BY <1>0, <1>4, GoesToEnd DEF Repair, Engaged
<1>5. ~RepairFindsNothing(s)
  BY DEF RepairFindsNothing
<1>6. CASE CheckDB(s)
  <2>1. Mend(s, Succeeded) \/ job' = [job EXCEPT ![s].pc = "dispatch"]
    BY <1>6 DEF CheckDB, Become
  <2>2. /\ job[s].pc \notin Engaged \cup {"idle", "moving", "popped"}
        /\ "dispatch" \notin Engaged \cup {"idle", "moving", "popped"}
    BY <1>6 DEF CheckDB, Engaged
  <2>3. CASE Mend(s, Succeeded)
    BY <1>0, <2>2, <2>3, GoesToEnd
  <2>4. CASE job' = [job EXCEPT ![s].pc = "dispatch"]
    BY <1>0, <2>2, <2>4, GoesOn
  <2> QED
    BY <2>1, <2>3, <2>4
<1>7. CASE Dispatch(s)
  <2> DEFINE k == [job[s] EXCEPT !.pc = "submit", !.at = "submitq", !.err = "none"]
  <2>1. job' = [job EXCEPT ![s] = k] /\ job[s].pc = "dispatch"
    BY <1>7 DEF Dispatch
  <2>2. k.pc = "submit" /\ k.todo = job[s].todo /\ k.msg = job[s].msg
    BY <1>m DEF Job
  <2> HIDE DEF k
  <2>3. GetsOn(s, k)
    BY <2>1, <2>2 DEF GetsOn, Engaged
  <2> QED
    BY <1>0, <2>1, <2>3 DEF Goes
<1>8. CASE TakeSubmit(s)
  <2> DEFINE k == [job[s] EXCEPT !.at = "pool"]
  <2>1. job' = [job EXCEPT ![s] = k]
    BY <1>8 DEF TakeSubmit
  <2>2. k.pc = job[s].pc /\ k.todo = job[s].todo /\ k.msg = job[s].msg
    BY <1>m DEF Job
  <2> HIDE DEF k
  <2>3. GetsOn(s, k)
    BY <2>1, <2>2 DEF GetsOn
  <2> QED
    BY <1>0, <2>1, <2>3 DEF Goes
<1>9. CASE LoadFails(s) \/ Refused(s)
  <2>1. PICK e : job' = [job EXCEPT ![s] = [@ EXCEPT !.pc = "failed", !.err = e]]
    BY <1>9 DEF LoadFails, Refused
  <2> DEFINE k == [job[s] EXCEPT !.pc = "failed", !.err = e]
  <2>2. job' = [job EXCEPT ![s] = k] /\ job[s].pc \in {"submit", "calling"}
    BY <1>9, <2>1 DEF LoadFails, Refused, Try
  <2>3. k.pc = "failed" /\ k.todo = job[s].todo /\ k.msg = job[s].msg
    BY <1>m DEF Job
  <2> HIDE DEF k
  <2>4. GetsOn(s, k)
    BY <2>2, <2>3 DEF GetsOn, Engaged
  <2> QED
    BY <1>0, <2>2, <2>4 DEF Goes
<1>10. CASE Accepted(s) \/ FailedButSubmitted(s)
  <2>1. Finish(s, Succeeded) /\ job[s].pc \notin Engaged \cup {"idle", "moving", "popped"}
    BY <1>10 DEF Accepted, FailedButSubmitted, Engaged
  <2> QED
    BY <1>0, <2>1, GoesToEnd
<1>11. CASE FailedSubmit(s)
  <2>1. Finish(s, Failed) \/ (Finish(s, Retried) /\ ResubmitOn)
    BY <1>11 DEF FailedSubmit, MayRetry
  <2>2. job[s].pc \notin Engaged \cup {"idle", "moving", "popped"}
    BY <1>11 DEF FailedSubmit, Engaged
  <2>3. CASE Finish(s, Failed)
    BY <1>0, <2>2, <2>3, GoesToEnd
  <2>4. CASE Finish(s, Retried) /\ ResubmitOn
    BY <1>0, <2>2, <2>4, GoesToEnd
  <2> QED
    BY <2>1, <2>3, <2>4
<1> QED
  BY <1>0, <1>1, <1>2, <1>3, <1>4, <1>5, <1>6, <1>7, <1>8, <1>9, <1>10, <1>11

-----------------------------------------------------------------------------
(* The dead letter queue.  The scanner reopens a failed order and takes its *)
(* copy off the queue in two steps, and meanwhile the order may fail again. *)

\* Order o is recorded in S, has a copy in list B, or one of the jobs J pushes one.
Listed(o, B, S, J) ==
    \/ o \in S
    \/ \E m \in DOMAIN B : m.oid = o
    \/ \E a \in Agents : J[a].msg.oid = o /\ Has(J[a].todo, "dlqpush")

\* A job has calls only while it makes them.  Whoever marks an order as failed
\* does so first, and pushes a copy.
Steady(k) ==
    /\ k.pc \notin Engaged => k.todo = <<>>
    /\ \A i \in DOMAIN k.todo : k.todo[i] = "db2" => i = 1
    /\ Has(k.todo, "db2") => Has(k.todo, "dlqpush")

\* What the scanner, with job k, may rely on.
ScanOK(k) ==
    /\ k.pc \in {"dead", "reopen", "rescue"} => k.msg \in DOMAIN dlq
    /\ k.pc = "rescue" /\ dock[k.msg.oid] = "2"
         => Listed(k.msg.oid, Lists!BagRemove(dlq, k.msg), submitted, job)
    /\ Has(k.todo, "dlqrem")
         => k.msg.oid \in acked /\ (k.msg.oid \in submitted \/ dock[k.msg.oid] # "2")

ListedInv ==
    /\ \A a \in Agents : Steady(job[a])
    /\ \A a \in Agents : a # "scanner" => ~Has(job[a].todo, "dlqrem")
    /\ ScanOK(job["scanner"])
    /\ \A o \in Orders : dock[o] = "2" => Listed(o, dlq, submitted, job)

\* A list that gets a message and loses another keeps the first, also when both
\* are the same.
LEMMA AddRemove ==
    ASSUME NEW B, IsListOf(B), NEW m \in Msg, NEW n \in DOMAIN B
    PROVE  /\ DOMAIN Lists!BagAdd(B, m) = DOMAIN B \cup {m}
           /\ DOMAIN Lists!BagRemove(B, n) \subseteq DOMAIN Lists!BagRemove(Lists!BagAdd(B, m), n)
           /\ m \in DOMAIN Lists!BagRemove(Lists!BagAdd(B, m), n)
           /\ \A x \in DOMAIN B : x # n => x \in DOMAIN Lists!BagRemove(B, n)
<1> DEFINE C == Lists!BagAdd(B, m)
<1>1. /\ DOMAIN C = DOMAIN B \cup {m}
      /\ \A x \in DOMAIN C : C[x] = IF x = m THEN (IF m \in DOMAIN B THEN B[m] + 1 ELSE 1) ELSE B[x]
  <2>1. CASE m \in DOMAIN B
    BY <2>1 DEF Lists!BagAdd
  <2>2. CASE m \notin DOMAIN B
    BY <2>2 DEF Lists!BagAdd
  <2> QED
    BY <2>1, <2>2
<1>2. \A x \in DOMAIN B : B[x] \in Nat \ {0}
  BY DEF IsListOf, IsABag
<1> HIDE DEF C
<1>3. ASSUME NEW D, n \in DOMAIN D
      PROVE  /\ D[n] # 1 => DOMAIN Lists!BagRemove(D, n) = DOMAIN D
             /\ D[n] = 1 => DOMAIN Lists!BagRemove(D, n) = DOMAIN D \ {n}
  BY <1>3 DEF Lists!BagRemove
<1>e. /\ B[n] # 1 => DOMAIN Lists!BagRemove(B, n) = DOMAIN B
      /\ B[n] = 1 => DOMAIN Lists!BagRemove(B, n) = DOMAIN B \ {n}
  BY <1>3
<1>f. /\ C[n] # 1 => DOMAIN Lists!BagRemove(C, n) = DOMAIN C
      /\ C[n] = 1 => DOMAIN Lists!BagRemove(C, n) = DOMAIN C \ {n}
  BY <1>1, <1>3
<1>g. (C[n] = 1 => B[n] = 1) /\ (m = n => C[n] # 1)
  BY <1>1, <1>2
<1>4. DOMAIN Lists!BagRemove(B, n) \subseteq DOMAIN Lists!BagRemove(C, n)
  BY <1>1, <1>e, <1>f, <1>g
<1>5. m \in DOMAIN Lists!BagRemove(C, n)
  BY <1>1, <1>f, <1>g
<1>6. \A x \in DOMAIN B : x # n => x \in DOMAIN Lists!BagRemove(B, n)
  BY <1>3
<1> QED
  BY <1>1, <1>4, <1>5, <1>6 DEF C

\* Another job of agent a does not take a copy from an order, unless it pushes none.
LEMMA StillListed ==
    ASSUME TypeInv, NEW a \in Agents, NEW k, job' = [job EXCEPT ![a] = k], submitted \subseteq submitted',
           NEW o, NEW B, NEW C, DOMAIN B \subseteq DOMAIN C, Listed(o, B, submitted, job),
           job[a].msg.oid = o /\ Has(job[a].todo, "dlqpush")
             => \/ k.msg.oid = o /\ Has(k.todo, "dlqpush")
                \/ \E m \in DOMAIN C : m.oid = o
    PROVE  Listed(o, C, submitted', job')
<1>1. job'[a] = k /\ \A b \in Agents : b # a => job'[b] = job[b]
  BY DEF TypeInv, JobsGood
<1> QED
  BY <1>1 DEF Listed

\* The calls of the handlers: whoever marks an order as failed pushes a copy.
LEMMA SteadyCalls ==
    /\ \A q \in {Succeeded, Failed, Retried, <<"delenq", "lrem">>} :
         LET p == Append(q, "release")
         IN  /\ \A i \in DOMAIN p : p[i] = "db2" => i = 1
             /\ Has(p, "db2") => Has(p, "dlqpush")
             /\ ~Has(p, "dlqrem")
    /\ \A x : ~Has(<<>>, x)
    /\ ~Has(<<"lrem">>, "db2") /\ ~Has(<<"lrem">>, "dlqrem")
    /\ \A i \in DOMAIN <<"lrem">> : <<"lrem">>[i] = "db2" => i = 1
<1>1. ASSUME NEW q \in Seq(Call)
      PROVE  LET p == Append(q, "release")
             IN  /\ \A x : x # "release" => (Has(p, x) <=> Has(q, x))
                 /\ \A i \in DOMAIN p : p[i] # "release" => i \in DOMAIN q /\ p[i] = q[i]
  <2> DEFINE p == Append(q, "release")
  <2>1. /\ Len(q) \in Nat /\ DOMAIN q = 1 .. Len(q) /\ DOMAIN p = 1 .. Len(q) + 1
        /\ \A i \in DOMAIN p : p[i] = IF i <= Len(q) THEN q[i] ELSE "release"
    OBVIOUS
  <2> HIDE DEF p
  <2>2. \A x : x # "release" => (Has(p, x) <=> Has(q, x))
    BY <2>1 DEF Has
  <2>3. \A i \in DOMAIN p : p[i] # "release" => i \in DOMAIN q /\ p[i] = q[i]
    BY <2>1
  <2> QED
    BY <2>2, <2>3 DEF p
<1>2. /\ Succeeded \in Seq(Call) /\ Failed \in Seq(Call) /\ Retried \in Seq(Call)
      /\ <<"delenq", "lrem">> \in Seq(Call)
  BY DEF Succeeded, Failed, Retried, Call
<1>3. \A q \in {Succeeded, Failed, Retried, <<"delenq", "lrem">>} :
        \A i \in DOMAIN q : (q[i] = "db2" => i = 1) /\ q[i] # "dlqrem"
  BY DEF Succeeded, Failed, Retried
<1>4. \A q \in {Succeeded, Retried, <<"delenq", "lrem">>} : ~Has(q, "db2")
  BY DEF Has, Succeeded, Retried
<1>5. Has(Failed, "dlqpush")
  <2>1. 3 \in DOMAIN Failed /\ Failed[3] = "dlqpush"
    BY DEF Failed
  <2> QED
    BY <2>1 DEF Has
<1>6. ASSUME NEW q \in {Succeeded, Failed, Retried, <<"delenq", "lrem">>}
      PROVE  LET p == Append(q, "release")
             IN  /\ \A i \in DOMAIN p : p[i] = "db2" => i = 1
                 /\ Has(p, "db2") => Has(p, "dlqpush")
                 /\ ~Has(p, "dlqrem")
  <2> DEFINE p == Append(q, "release")
  <2>1. /\ \A x : x # "release" => (Has(p, x) <=> Has(q, x))
        /\ \A i \in DOMAIN p : p[i] # "release" => i \in DOMAIN q /\ p[i] = q[i]
    BY <1>1, <1>2
  <2>2. ~Has(q, "dlqrem")
    BY <1>3 DEF Has
  <2>3. Has(q, "db2") => Has(q, "dlqpush")
    BY <1>4, <1>5
  <2> HIDE DEF p
  <2>4. \A i \in DOMAIN p : p[i] = "db2" => i = 1
    BY <1>3, <2>1
  <2>5. (Has(p, "db2") => Has(p, "dlqpush")) /\ ~Has(p, "dlqrem")
    BY <2>1, <2>2, <2>3
  <2> QED
    BY <2>4, <2>5 DEF p
<1>7. /\ \A x : ~Has(<<>>, x)
      /\ ~Has(<<"lrem">>, "db2") /\ ~Has(<<"lrem">>, "dlqrem")
      /\ \A i \in DOMAIN <<"lrem">> : <<"lrem">>[i] = "db2" => i = 1
  BY DEF Has
<1> QED
  BY <1>6, <1>7

\* A slot takes a message, gets on with it, drops it or ends its work.
LEMMA SlotListed ==
    ASSUME TypeInv, ListedInv, NEW s \in Slots, Goes(s), UNCHANGED <<submitted, dlq>>, acked \subseteq acked',
           dock' = dock \/ dock' = [dock EXCEPT ![job[s].msg.oid] = "1"]
    PROVE  ListedInv'
<1>1. PICK k : job' = [job EXCEPT ![s] = k] /\ (Takes(s, k) \/ GetsOn(s, k) \/ Drops(s, k) \/ Ends(s, k))
  BY DEF Goes
<1>2. s \in Agents /\ s # "scanner" /\ Steady(job[s]) /\ ~Has(job[s].todo, "dlqrem")
  BY StoreAssumption DEF Agents, Service, ListedInv
<1>3. job'[s] = k /\ \A a \in Agents : a # s => job'[a] = job[a]
  BY <1>1, <1>2 DEF TypeInv, JobsGood
<1>4. /\ Steady(k) /\ ~Has(k.todo, "dlqrem")
      /\ Has(job[s].todo, "dlqpush") => Has(k.todo, "dlqpush") /\ k.msg = job[s].msg
  <2>1. CASE Takes(s, k)
    <3>1. Idle.todo = <<>>
      BY DEF Idle
    <3> QED
      BY <2>1, <3>1, SteadyCalls DEF Takes, Steady
  <2>2. CASE GetsOn(s, k)
    BY <1>2, <2>2 DEF GetsOn, Steady
  <2>3. CASE Drops(s, k)
    <3>1. job[s].todo = <<>>
      BY <1>2, <2>3 DEF Drops, Steady, Engaged
    <3> QED
      BY <2>3, <3>1, SteadyCalls DEF Drops, Steady, Engaged
  <2>4. CASE Ends(s, k)
    <3>1. job[s].todo = <<>> /\ k.pc \in Engaged
      BY <1>2, <2>4 DEF Ends, Steady, Engaged
    <3>2. PICK q \in {Succeeded, Failed, Retried, <<"delenq", "lrem">>} : k.todo = Append(q, "release")
      BY <2>4 DEF Ends
    <3>3. LET p == Append(q, "release")
          IN  /\ \A i \in DOMAIN p : p[i] = "db2" => i = 1
              /\ Has(p, "db2") => Has(p, "dlqpush")
              /\ ~Has(p, "dlqrem")
      BY SteadyCalls
    <3>4. /\ \A i \in DOMAIN k.todo : k.todo[i] = "db2" => i = 1
          /\ Has(k.todo, "db2") => Has(k.todo, "dlqpush")
          /\ ~Has(k.todo, "dlqrem")
      BY <3>2, <3>3
    <3> QED
      BY <3>1, <3>4, SteadyCalls DEF Steady
  <2> QED
    BY <1>1, <2>1, <2>2, <2>3, <2>4
<1>5. \A o \in Orders : dock'[o] = "2" => dock[o] = "2"
  BY DEF TypeInv, StoreOK
<1>o. LET j == job["scanner"]
      IN  j.pc = "rescue" \/ Has(j.todo, "dlqrem") => j.msg.oid \in Orders
  <2>1. job["scanner"].pc # "idle" => job["scanner"].msg.oid \in Orders
    BY DEF TypeInv, JobsGood, GoodJob, Agents, Service, Msg
  <2>2. Has(job["scanner"].todo, "dlqrem") => job["scanner"].msg.oid \in Orders
    BY DEF ListedInv, ScanOK, TypeInv, StoreOK
  <2> QED
    BY <2>1, <2>2
<1>6. \A o, B : Listed(o, B, submitted, job) => Listed(o, B, submitted', job')
  BY <1>1, <1>2, <1>4, StillListed
<1>7. job'["scanner"] = job["scanner"]
  BY <1>2, <1>3 DEF Agents, Service
<1>8. ScanOK(job["scanner"])'
  <2> DEFINE j == job["scanner"]
             L == Lists!BagRemove(dlq, j.msg)
  <2>1. ScanOK(job["scanner"])' <=>
          /\ j.pc \in {"dead", "reopen", "rescue"} => j.msg \in DOMAIN dlq
          /\ j.pc = "rescue" /\ dock'[j.msg.oid] = "2" => Listed(j.msg.oid, L, submitted', job')
          /\ Has(j.todo, "dlqrem")
               => j.msg.oid \in acked' /\ (j.msg.oid \in submitted \/ dock'[j.msg.oid] # "2")
    BY <1>7 DEF ScanOK
  <2>2. /\ j.pc \in {"dead", "reopen", "rescue"} => j.msg \in DOMAIN dlq
        /\ j.pc = "rescue" /\ dock[j.msg.oid] = "2" => Listed(j.msg.oid, L, submitted, job)
        /\ Has(j.todo, "dlqrem")
             => j.msg.oid \in acked /\ (j.msg.oid \in submitted \/ dock[j.msg.oid] # "2")
    BY DEF ListedInv, ScanOK
  <2>3. j.pc = "rescue" \/ Has(j.todo, "dlqrem") => j.msg.oid \in Orders
    BY <1>o
  <2> HIDE DEF j, L
  <2> QED
    BY <1>5, <1>6, <2>1, <2>2, <2>3
<1>9. \A o \in Orders : dock'[o] = "2" => Listed(o, dlq', submitted', job')
  BY <1>5, <1>6 DEF ListedInv
<1> QED
  BY <1>3, <1>4, <1>8, <1>9 DEF ListedInv

\* A call of an agent.
LEMMA CallListed ==
    ASSUME Normal, ListedInv, NEW a \in Agents, MakeCall(a)
    PROVE  ListedInv'
<1> USE DEF Normal
<1> DEFINE j == job[a]
           q == j.todo
           c == q[1]
           k == Advance(j)
           m == j.msg
           z == job["scanner"]
<1>1. /\ job' = [job EXCEPT ![a] = k] /\ Do(a, c, m) /\ acked' = acked
      /\ j.pc \in Engaged /\ q # <<>>
  BY DEF MakeCall, Running, Engaged
<1>2. j \in Job /\ m \in Msg /\ m.oid \in Orders /\ q \in Seq(Call) /\ Steady(j)
  BY <1>1 DEF TypeInv, JobsGood, GoodJob, GoodCalls, Msg, ListedInv, Engaged
<1>3. /\ \A x : Has(Tail(q), x) => Has(q, x)
      /\ \A x : Has(q, x) => c = x \/ Has(Tail(q), x)
      /\ Has(q, c)
      /\ \A x : Len(q) = 1 => ~Has(Tail(q), x)
  BY <1>1, <1>2, HasTail
<1>4. \/ Len(q) = 1 /\ k = Idle
      \/ k.pc = j.pc /\ k.msg = m /\ k.todo = Tail(q)
  BY <1>2 DEF Advance, Job
<1>5. /\ Idle.pc = "idle" /\ Idle.todo = <<>> /\ \A x : ~Has(<<>>, x)
      /\ \A x \in DOMAIN <<>> : FALSE
  BY SlotCalls DEF Idle
<1>6. /\ submitted \subseteq submitted'
      /\ dock' = [dock EXCEPT ![m.oid] = CASE c = "db1" -> "1" [] c = "db2" -> "2" [] OTHER -> @]
      /\ c = "dlqpush" => dlq' = Lists!BagAdd(dlq, m)
      /\ c = "dlqrem" => dlq' = Lists!BagRemove(dlq, m)
      /\ c \notin {"dlqpush", "dlqrem"} => dlq' = dlq
  BY <1>1 DEF Do
<1>7. ~Has(Tail(q), "db2")
  <2>1. \A i \in DOMAIN Tail(q) : Tail(q)[i] = q[i + 1] /\ i + 1 \in DOMAIN q /\ i + 1 # 1
    BY <1>1, <1>2, TailFacts
  <2> QED
    BY <1>2, <2>1 DEF Has, Steady
<1>8. c = "db2" => a \in Slots /\ m.oid \notin acked /\ Has(Tail(q), "dlqpush")
  BY <1>2, <1>3 DEF FateInv, Fits, Unfit, Agents, Steady
<1>9. c = "dlqrem" => a = "scanner"
  BY <1>3 DEF ListedInv
<1>10. job'[a] = k /\ \A b \in Agents : b # a => job'[b] = job[b]
  BY <1>1 DEF TypeInv, JobsGood
<1>11. \A x : Has(k.todo, x) => Has(q, x)
  BY <1>3, <1>4, <1>5
<1>12. Has(q, "dlqpush") => c = "dlqpush" \/ (k.msg = m /\ Has(k.todo, "dlqpush"))
  BY <1>3, <1>4
<1>13. \A o \in Orders : dock'[o] = "2" => dock[o] = "2" \/ (c = "db2" /\ o = m.oid)
  BY <1>2, <1>6 DEF TypeInv, StoreOK
<1>14. c = "db2" => k.msg = m /\ Has(k.todo, "dlqpush")
  BY <1>3, <1>4, <1>8
<1>15. z \in Job /\ (z.pc # "idle" => z.msg \in Msg /\ z.msg.oid \in Orders) /\ "scanner" \in Agents
  BY DEF TypeInv, JobsGood, GoodJob, Agents, Service, Msg
<1>16. IsListOf(dlq)
  BY DEF TypeInv, StoreOK
<1>z. ScanOK(z)
  BY DEF ListedInv
<1>w. m \in DOMAIN Lists!BagAdd(dlq, m) /\ DOMAIN dlq \subseteq DOMAIN Lists!BagAdd(dlq, m)
  BY DEF Lists!BagAdd
<1>17. \A b \in Agents : Steady(job'[b]) /\ (b # "scanner" => ~Has(job'[b].todo, "dlqrem"))
  <2>1. Steady(k)
    <3>1. CASE k = Idle
      BY <1>5, <3>1 DEF Steady
    <3>2. CASE k.pc = j.pc /\ k.todo = Tail(q)
      <4>1. ~Has(k.todo, "db2")
        BY <1>7, <3>2
      <4>2. \A i \in DOMAIN k.todo : k.todo[i] # "db2"
        BY <4>1 DEF Has
      <4>3. k.pc \in Engaged
        BY <1>1, <3>2
      <4> HIDE DEF k
      <4> QED
        BY <4>1, <4>2, <4>3 DEF Steady
    <3> QED
      BY <1>4, <3>1, <3>2
  <2> HIDE DEF k
  <2> QED
    BY <1>10, <1>11, <2>1 DEF ListedInv
<1> HIDE DEF k, c, z
\* What is listed stays so, in a list that the call does not shrink.
<1>18. ASSUME NEW o, NEW B, NEW C, DOMAIN B \subseteq DOMAIN C, Listed(o, B, submitted, job),
              c = "dlqpush" => m \in DOMAIN C
       PROVE  Listed(o, C, submitted', job')
  BY <1>1, <1>6, <1>12, <1>18, StillListed
<1>19. ASSUME NEW C, c = "db2" PROVE Listed(m.oid, C, submitted', job')
  BY <1>10, <1>14, <1>19 DEF Listed
<1>20. \A o \in Orders : dock'[o] = "2" => Listed(o, dlq', submitted', job')
  <2> SUFFICES ASSUME NEW o \in Orders, dock'[o] = "2" PROVE Listed(o, dlq', submitted', job')
    OBVIOUS
  <2>1. CASE c = "db2" /\ o = m.oid
    BY <1>19, <2>1
  <2>2. CASE dock[o] = "2"
    <3>1. Listed(o, dlq, submitted, job)
      BY <2>2 DEF ListedInv
    <3>2. CASE c # "dlqrem"
      BY <1>6, <1>18, <1>w, <3>1, <3>2
    <3>3. CASE c = "dlqrem" /\ o = m.oid
      <4>1. o \in submitted
        BY <1>3, <1>9, <1>z, <2>2, <3>3 DEF ScanOK, z
      <4> QED
        BY <1>6, <4>1 DEF Listed
    <3>4. CASE c = "dlqrem" /\ o # m.oid
      <4>1. \A x \in DOMAIN dlq : x # m => x \in DOMAIN dlq'
        BY <1>6, <3>4 DEF Lists!BagRemove
      <4>2. CASE \E x \in DOMAIN dlq : x.oid = o
        BY <3>4, <4>1, <4>2 DEF Listed
      <4>3. CASE o \in submitted
        BY <1>6, <4>3 DEF Listed
      <4>4. CASE \E b \in Agents : job[b].msg.oid = o /\ Has(job[b].todo, "dlqpush")
        BY <1>10, <3>4, <4>4 DEF Listed
      <4> QED
        BY <3>1, <4>2, <4>3, <4>4 DEF Listed
    <3> QED
      BY <3>2, <3>3, <3>4
  <2> QED
    BY <1>13, <2>1, <2>2
<1>21. CASE a = "scanner"
  <2>1. k.pc \notin {"dead", "reopen", "rescue"}
    BY <1>1, <1>4, <1>5 DEF Engaged
  <2>2. Has(k.todo, "dlqrem") => k.msg = m /\ Has(q, "dlqrem")
    BY <1>4, <1>5, <1>11
  <2>3. Has(q, "dlqrem") => m.oid \in acked' /\ (m.oid \in submitted \/ dock[m.oid] # "2")
    BY <1>1, <1>z, <1>21 DEF ScanOK, z
  <2>4. c # "db2"
    BY <1>8, <1>21, StoreAssumption DEF Service
  <2>5. job'["scanner"] = k
    BY <1>10, <1>21
  <2>6. ScanOK(job["scanner"])'
    BY <1>2, <1>6, <1>13, <2>1, <2>2, <2>3, <2>4, <2>5 DEF ScanOK
  <2> QED
    BY <1>17, <1>20, <2>6 DEF ListedInv
<1>22. CASE a # "scanner"
  <2>1. job'["scanner"] = z /\ c # "dlqrem"
    BY <1>9, <1>10, <1>15, <1>22 DEF z
  <2>2. DOMAIN dlq \subseteq DOMAIN dlq'
    BY <1>6, <1>w, <2>1
  <2> DEFINE R == Lists!BagRemove(dlq, z.msg)
             D == Lists!BagRemove(dlq', z.msg)
  <2>3. z.pc = "rescue" /\ dock'[z.msg.oid] = "2" => Listed(z.msg.oid, D, submitted', job')
    <3> SUFFICES ASSUME z.pc = "rescue", dock'[z.msg.oid] = "2" PROVE Listed(z.msg.oid, D, submitted', job')
      OBVIOUS
    <3>1. z.msg \in DOMAIN dlq /\ z.msg.oid \in Orders
      BY <1>15, <1>z DEF ScanOK
    <3>2. CASE c = "db2" /\ z.msg.oid = m.oid
      BY <1>19, <3>2
    <3>3. CASE dock[z.msg.oid] = "2"
      <4>1. Listed(z.msg.oid, R, submitted, job)
        BY <1>z, <3>3 DEF ScanOK
      <4>2. DOMAIN R \subseteq DOMAIN D /\ (c = "dlqpush" => m \in DOMAIN D)
        <5>1. CASE c = "dlqpush"
          BY <1>2, <1>6, <1>16, <3>1, <5>1, AddRemove
        <5>2. CASE c # "dlqpush"
          BY <1>6, <2>1, <5>2
        <5> QED
          BY <5>1, <5>2
      <4> HIDE DEF R, D
      <4> QED
        BY <1>18, <4>1, <4>2
    <3> QED
      BY <1>13, <3>1, <3>2, <3>3
  <2>4. Has(z.todo, "dlqrem") => z.msg.oid \in acked' /\ (z.msg.oid \in submitted' \/ dock'[z.msg.oid] # "2")
    <3> SUFFICES ASSUME Has(z.todo, "dlqrem")
                 PROVE  z.msg.oid \in acked' /\ (z.msg.oid \in submitted' \/ dock'[z.msg.oid] # "2")
      OBVIOUS
    <3>1. z.msg.oid \in acked /\ (z.msg.oid \in submitted \/ dock[z.msg.oid] # "2")
      BY <1>z DEF ScanOK
    <3>2. z.msg.oid \in Orders
      BY <3>1 DEF TypeInv, StoreOK
    <3> QED
      BY <1>1, <1>6, <1>8, <1>13, <3>1, <3>2
  <2>5. ScanOK(job["scanner"])'
    <3>1. z.pc \in {"dead", "reopen", "rescue"} => z.msg \in DOMAIN dlq'
      BY <1>z, <2>2 DEF ScanOK
    <3> QED
      BY <2>1, <2>3, <2>4, <3>1 DEF ScanOK
  <2> QED
    BY <1>17, <1>20, <2>5 DEF ListedInv
<1> QED
  BY <1>21, <1>22

\* What a lookup finds, when it cannot fail.
LEMMA LookFinds ==
    ASSUME MaxFaults = 0, TypeInv, NEW o, NEW found, Look(o, found)
    PROVE  /\ submitted' = submitted
           /\ found = "hash" => o \in submitted
           /\ found = "table" => dock[o] = "1"
<1>1. ~Fault("read")
  BY NoFault
<1> QED
  BY <1>1 DEF Look

\* The retrier goes on with job k.
LEMMA RetrierListed ==
    ASSUME TypeInv, ListedInv, NEW k, job' = [job EXCEPT !["retrier"] = k],
           job["retrier"].pc \notin Engaged, Steady(k), ~Has(k.todo, "dlqrem"),
           UNCHANGED <<dock, submitted, dlq, acked>>
    PROVE  ListedInv'
<1>1. "retrier" \in Agents /\ "scanner" \in Agents /\ "retrier" # "scanner"
  BY DEF Agents, Service
<1>2. job'["retrier"] = k /\ \A b \in Agents : b # "retrier" => job'[b] = job[b]
  BY <1>1 DEF TypeInv, JobsGood
<1>3. ~Has(job["retrier"].todo, "dlqpush")
  BY <1>1, SteadyCalls DEF ListedInv, Steady
<1>4. \A o, B : Listed(o, B, submitted, job) => Listed(o, B, submitted', job')
  BY <1>1, <1>3, StillListed
<1>5. ScanOK(job["scanner"])'
  <2> DEFINE j == job["scanner"]
             L == Lists!BagRemove(dlq, j.msg)
  <2>1. ScanOK(job["scanner"])' <=>
          /\ j.pc \in {"dead", "reopen", "rescue"} => j.msg \in DOMAIN dlq
          /\ j.pc = "rescue" /\ dock[j.msg.oid] = "2" => Listed(j.msg.oid, L, submitted', job')
          /\ Has(j.todo, "dlqrem")
               => j.msg.oid \in acked /\ (j.msg.oid \in submitted \/ dock[j.msg.oid] # "2")
    BY <1>1, <1>2 DEF ScanOK
  <2>2. /\ j.pc \in {"dead", "reopen", "rescue"} => j.msg \in DOMAIN dlq
        /\ j.pc = "rescue" /\ dock[j.msg.oid] = "2" => Listed(j.msg.oid, L, submitted, job)
        /\ Has(j.todo, "dlqrem")
             => j.msg.oid \in acked /\ (j.msg.oid \in submitted \/ dock[j.msg.oid] # "2")
    BY DEF ListedInv, ScanOK
  <2> HIDE DEF j, L
  <2> QED
    BY <1>4, <2>1, <2>2
<1> QED
  BY <1>1, <1>2, <1>4, <1>5 DEF ListedInv

\* The scanner goes on with job k, while no failed order loses its copy.
LEMMA ScannerListed ==
    ASSUME TypeInv, ListedInv, NEW k, job' = [job EXCEPT !["scanner"] = k],
           job["scanner"].pc \notin Engaged, Steady(k), UNCHANGED <<submitted, acked>>,
           \A o \in Orders : dock'[o] = "2" => dock[o] = "2" /\ Listed(o, dlq', submitted, job),
           k.pc \in {"dead", "reopen", "rescue"} => k.msg \in DOMAIN dlq',
           k.pc = "rescue" => dock'[k.msg.oid] # "2",
           Has(k.todo, "dlqrem")
             => k.msg.oid \in acked /\ (k.msg.oid \in submitted \/ dock'[k.msg.oid] # "2")
    PROVE  ListedInv'
<1>1. "scanner" \in Agents
  BY DEF Agents, Service
<1>2. job'["scanner"] = k /\ \A b \in Agents : b # "scanner" => job'[b] = job[b]
  BY <1>1 DEF TypeInv, JobsGood
<1>3. ~Has(job["scanner"].todo, "dlqpush")
  BY <1>1, SteadyCalls DEF ListedInv, Steady
<1>4. \A o, B : Listed(o, B, submitted, job) => Listed(o, B, submitted', job')
  BY <1>1, <1>3, StillListed
<1>5. ScanOK(job["scanner"])'
  BY <1>2 DEF ScanOK
<1>6. \A o \in Orders : dock'[o] = "2" => Listed(o, dlq', submitted', job')
  BY <1>4
<1> QED
  BY <1>2, <1>5, <1>6 DEF ListedInv

\* A job without calls is steady, and so is one with a call of the retrier or the scanner.
LEMMA SteadyServices ==
    /\ \A k : k.todo = <<>> => Steady(k)
    /\ \A k : k.pc = "run" /\ k.todo \in ServiceCalls => Steady(k)
<1>1. ASSUME NEW k, k.todo = <<>> PROVE Steady(k)
  BY <1>1, SteadyCalls DEF Steady
<1>2. \A q \in ServiceCalls : ~Has(q, "db2") /\ \A i \in DOMAIN q : q[i] # "db2"
  BY DEF Has, ServiceCalls
<1>3. ASSUME NEW k, k.todo \in ServiceCalls, k.pc = "run" PROVE Steady(k)
  BY <1>2, <1>3 DEF Steady, Engaged
<1> QED
  BY <1>1, <1>3

\* The decisions of the retrier and the scanner.
LEMMA DecisionListed ==
    ASSUME MaxFaults = 0, TypeInv, RecordInv, ListedInv,
           \/ (\E m \in retry : TakeDue(m)) \/ DecideDue
           \/ \E a \in {"retrier", "scanner"} : Enqueue(a)
           \/ (\E m \in BagToSet(dlq) : TakeDead(m)) \/ DecideDead \/ Reopen \/ Rescue
    PROVE  ListedInv'
<1>1. "retrier" \in Agents /\ "scanner" \in Agents
  BY DEF Agents, Service
<1>2. /\ <<"db1">> \in ServiceCalls /\ <<"hset", "db1">> \in ServiceCalls
      /\ <<"push">> \in ServiceCalls /\ <<"zback">> \in ServiceCalls
      /\ <<"dlqrem", "db1">> \in ServiceCalls /\ <<"dlqrem", "hset", "db1">> \in ServiceCalls
  BY DEF ServiceCalls
<1>3. /\ ~Has(<<"db1">>, "dlqrem") /\ ~Has(<<"hset", "db1">>, "dlqrem")
      /\ ~Has(<<"push">>, "dlqrem") /\ ~Has(<<"zback">>, "dlqrem") /\ ~Has(<<>>, "dlqrem")
  BY DEF Has
<1>4. \A a \in {"retrier", "scanner"} : job[a].pc \notin Engaged => job[a].todo = <<>>
  BY <1>1 DEF ListedInv, Steady
<1>m. \A a \in {"retrier", "scanner"} : job[a] \in Job
  BY <1>1 DEF TypeInv, JobsGood, GoodJob
<1>5. {"due", "dead", "enqueue", "reopen", "rescue"} \subseteq PC \ Engaged
  BY DEF PC, Engaged
<1>6. \A o \in Orders : dock[o] = "2" => Listed(o, dlq, submitted, job)
  BY DEF ListedInv
\* The forms of the jobs that they go on with.
<1>7. ASSUME NEW a \in {"retrier", "scanner"}, NEW q \in ServiceCalls, Run(a, q), job[a].pc \notin Engaged
      PROVE  \E k : job' = [job EXCEPT ![a] = k] /\ Steady(k) /\ k.pc = "run" /\ k.msg = job[a].msg /\ k.todo = q
  <2> DEFINE k == [job[a] EXCEPT !.pc = "run", !.todo = q]
  <2>1. k.pc = "run" /\ k.msg = job[a].msg /\ k.todo = q
    BY <1>m DEF Job
  <2>2. job' = [job EXCEPT ![a] = k]
    BY <1>7 DEF Run
  <2> HIDE DEF k
  <2>3. Steady(k)
    BY <2>1, SteadyServices
  <2> QED
    BY <2>1, <2>2, <2>3
<1>8. ASSUME NEW a \in {"retrier", "scanner"}, NEW pc \in PC \ Engaged, NEW m, Start(a, pc, m),
             job[a].pc \notin Engaged
      PROVE  \E k : job' = [job EXCEPT ![a] = k] /\ Steady(k) /\ k.pc = pc /\ k.msg = m /\ k.todo = <<>>
  <2> DEFINE k == [Idle EXCEPT !.pc = pc, !.msg = m]
  <2>1. k.pc = pc /\ k.msg = m /\ k.todo = <<>>
    BY DEF Idle
  <2>2. job' = [job EXCEPT ![a] = k]
    BY <1>8 DEF Start
  <2> HIDE DEF k
  <2>3. Steady(k)
    BY <2>1, SteadyServices
  <2> QED
    BY <2>1, <2>2, <2>3
<1>9. ASSUME NEW a \in {"retrier", "scanner"}, NEW pc \in PC \ Engaged, job' = [job EXCEPT ![a].pc = pc],
             job[a].pc \notin Engaged
      PROVE  \E k : job' = [job EXCEPT ![a] = k] /\ Steady(k) /\ k.pc = pc /\ k.msg = job[a].msg /\ k.todo = <<>>
  <2> DEFINE k == [job[a] EXCEPT !.pc = pc]
  <2>1. k.pc = pc /\ k.msg = job[a].msg /\ k.todo = <<>>
    BY <1>m, <1>4, <1>9 DEF Job
  <2>2. job' = [job EXCEPT ![a] = k]
    BY <1>9
  <2> HIDE DEF k
  <2>3. Steady(k)
    BY <2>1, SteadyServices
  <2> QED
    BY <2>1, <2>2, <2>3
<1>10. Steady(Idle) /\ Idle.pc = "idle" /\ Idle.todo = <<>>
  BY SteadyServices DEF Idle
<1>11. CASE \E m \in retry : TakeDue(m)
  <2>1. PICK m \in retry : TakeDue(m)
    BY <1>11
  <2>2. Start("retrier", "due", m) /\ UNCHANGED <<dock, submitted, dlq, acked>> /\ job["retrier"].pc \notin Engaged
    BY <2>1 DEF TakeDue, history, Idle, Engaged
  <2> QED
    BY <1>3, <1>5, <1>8, <2>2, RetrierListed
<1>12. CASE DecideDue
  <2>1. PICK found \in Finding :
          /\ Look(job["retrier"].msg.oid, found)
          /\ CASE found = "hash"  -> Run("retrier", <<"db1">>)
               [] found = "table" -> Run("retrier", <<"hset", "db1">>)
               [] OTHER           -> job' = [job EXCEPT !["retrier"].pc = "enqueue"]
    BY <1>12 DEF DecideDue
  <2>2. UNCHANGED <<dock, submitted, dlq, acked>> /\ job["retrier"].pc \notin Engaged
    BY <1>12, <2>1, LookFinds DEF DecideDue, Engaged
  <2>3. \/ Run("retrier", <<"db1">>) \/ Run("retrier", <<"hset", "db1">>)
        \/ job' = [job EXCEPT !["retrier"].pc = "enqueue"]
    BY <2>1
  <2>4. \E k : job' = [job EXCEPT !["retrier"] = k] /\ Steady(k) /\ ~Has(k.todo, "dlqrem")
    BY <1>2, <1>3, <1>5, <1>7, <1>9, <2>2, <2>3
  <2> QED
    BY <2>2, <2>4, RetrierListed
<1>13. CASE Enqueue("retrier")
  <2>1. /\ Run("retrier", <<"push">>) \/ Run("retrier", <<"zback">>)
        /\ UNCHANGED <<dock, submitted, dlq, acked>> /\ job["retrier"].pc \notin Engaged
    BY <1>13 DEF Enqueue, history, Engaged
  <2>2. \E k : job' = [job EXCEPT !["retrier"] = k] /\ Steady(k) /\ ~Has(k.todo, "dlqrem")
    BY <1>2, <1>3, <1>7, <2>1
  <2> QED
    BY <2>1, <2>2, RetrierListed
<1>14. CASE Enqueue("scanner")
  <2>1. /\ Run("scanner", <<"push">>) \/ job' = [job EXCEPT !["scanner"] = Idle]
        /\ UNCHANGED <<dock, submitted, dlq, acked>> /\ job["scanner"].pc \notin Engaged
    BY <1>14 DEF Enqueue, history, Engaged
  <2>2. \E k : /\ job' = [job EXCEPT !["scanner"] = k] /\ Steady(k) /\ ~Has(k.todo, "dlqrem")
               /\ k.pc \notin {"dead", "reopen", "rescue"}
    BY <1>2, <1>3, <1>7, <1>10, <2>1
  <2> QED
    BY <1>6, <2>1, <2>2, ScannerListed
<1>15. CASE \E m \in BagToSet(dlq) : TakeDead(m)
  <2>1. PICK m \in DOMAIN dlq : TakeDead(m)
    BY <1>15 DEF BagToSet
  <2>2. Start("scanner", "dead", m) /\ UNCHANGED <<dock, submitted, dlq, acked>> /\ job["scanner"].pc \notin Engaged
    BY <2>1 DEF TakeDead, store, history, Idle, Engaged
  <2>3. \E k : /\ job' = [job EXCEPT !["scanner"] = k] /\ Steady(k) /\ ~Has(k.todo, "dlqrem")
               /\ k.pc = "dead" /\ k.msg \in DOMAIN dlq'
    BY <1>3, <1>5, <1>8, <2>2
  <2>4. \E k : /\ job' = [job EXCEPT !["scanner"] = k] /\ Steady(k) /\ ~Has(k.todo, "dlqrem")
               /\ k.pc \in {"dead", "reopen", "rescue"} => k.msg \in DOMAIN dlq'
               /\ k.pc # "rescue"
    BY <2>3
  <2> QED
    BY <1>6, <2>2, <2>4, ScannerListed
<1>16. CASE DecideDead
  <2> DEFINE m == job["scanner"].msg
  <2>1. PICK found \in Finding :
          /\ Look(m.oid, found)
          /\ CASE found = "hash"  -> Run("scanner", <<"dlqrem", "db1">>)
               [] found = "table" -> Run("scanner", <<"dlqrem", "hset", "db1">>)
               [] OTHER           -> job' = [job EXCEPT !["scanner"].pc = "reopen"]
    BY <1>16 DEF DecideDead
  <2>2. /\ UNCHANGED <<dock, submitted, dlq, acked>> /\ job["scanner"].pc = "dead" /\ "dead" \notin Engaged
        /\ job["scanner"].pc \notin Engaged
    BY <1>16, <2>1, LookFinds DEF DecideDead, Engaged
  <2>3. m.oid \in Orders /\ m \in DOMAIN dlq
    BY <1>1, <2>2 DEF TypeInv, JobsGood, GoodJob, Msg, ListedInv, ScanOK
  <2>4. CASE found \in {"hash", "table"}
    <3>1. m.oid \in acked /\ (m.oid \in submitted \/ dock[m.oid] # "2")
      BY <2>1, <2>3, <2>4, LookFinds DEF RecordInv, RecordedWasAccepted
    <3>2. Run("scanner", <<"dlqrem", "db1">>) \/ Run("scanner", <<"dlqrem", "hset", "db1">>)
      BY <2>1, <2>4
    <3>3. \E k : job' = [job EXCEPT !["scanner"] = k] /\ Steady(k) /\ k.pc = "run" /\ k.msg = m
      BY <1>2, <1>7, <2>2, <3>2
    <3> HIDE DEF m
    <3>4. \E k : /\ job' = [job EXCEPT !["scanner"] = k] /\ Steady(k)
                 /\ k.pc \notin {"dead", "reopen", "rescue"} /\ k.msg = m
      BY <3>3
    <3> QED
      BY <1>6, <2>2, <3>1, <3>4, ScannerListed
  <2>5. CASE found \notin {"hash", "table"}
    <3>1. job' = [job EXCEPT !["scanner"].pc = "reopen"]
      BY <2>1, <2>5
    <3>2. \E k : job' = [job EXCEPT !["scanner"] = k] /\ Steady(k) /\ k.pc = "reopen" /\ k.msg = m /\ k.todo = <<>>
      BY <1>5, <1>9, <2>2, <3>1
    <3> HIDE DEF m
    <3>3. \E k : /\ job' = [job EXCEPT !["scanner"] = k] /\ Steady(k) /\ ~Has(k.todo, "dlqrem")
                 /\ k.msg \in DOMAIN dlq' /\ k.pc # "rescue"
      BY <1>3, <2>2, <2>3, <3>2
    <3> QED
      BY <1>6, <2>2, <3>3, ScannerListed
  <2> QED
    BY <2>4, <2>5
<1>17. CASE Reopen
  <2> DEFINE m == job["scanner"].msg
  <2>1. /\ UNCHANGED <<submitted, dlq, acked>> /\ job["scanner"].pc = "reopen" /\ job["scanner"].pc \notin Engaged
        /\ \/ dock' = [dock EXCEPT ![m.oid] = "0"] /\ job' = [job EXCEPT !["scanner"].pc = "rescue"]
           \/ dock' = dock /\ job' = [job EXCEPT !["scanner"] = Idle]
    BY <1>17 DEF Reopen, history, Engaged
  <2>2. m.oid \in Orders /\ m \in DOMAIN dlq
    BY <1>1, <2>1 DEF TypeInv, JobsGood, GoodJob, Msg, ListedInv, ScanOK
  <2>3. CASE dock' = [dock EXCEPT ![m.oid] = "0"] /\ job' = [job EXCEPT !["scanner"].pc = "rescue"]
    <3>1. PICK k : job' = [job EXCEPT !["scanner"] = k] /\ Steady(k) /\ k.pc = "rescue" /\ k.msg = m /\ k.todo = <<>>
      BY <1>5, <1>9, <2>1, <2>3
    <3>2. dock'[m.oid] = "0" /\ \A o \in Orders : dock'[o] = "2" => dock[o] = "2"
      BY <2>2, <2>3 DEF TypeInv, StoreOK
    <3> HIDE DEF m
    <3>3. /\ job' = [job EXCEPT !["scanner"] = k] /\ Steady(k) /\ ~Has(k.todo, "dlqrem")
          /\ k.msg \in DOMAIN dlq' /\ dock'[k.msg.oid] # "2"
      BY <1>3, <2>1, <2>2, <3>1, <3>2
    <3> QED
      BY <1>6, <2>1, <3>2, <3>3, ScannerListed
  <2>4. CASE dock' = dock /\ job' = [job EXCEPT !["scanner"] = Idle]
    <3>1. /\ Steady(Idle) /\ ~Has(Idle.todo, "dlqrem") /\ Idle.pc \notin {"dead", "reopen", "rescue"}
      BY <1>3, <1>10, <2>1
    <3> QED
      BY <1>6, <2>1, <2>4, <3>1, ScannerListed
  <2> QED
    BY <2>1, <2>3, <2>4
<1>18. CASE Rescue
  <2> DEFINE m == job["scanner"].msg
  <2>1. /\ UNCHANGED <<dock, submitted, acked>> /\ job["scanner"].pc = "rescue" /\ job["scanner"].pc \notin Engaged
        /\ dlq' = Lists!BagRemove(dlq, m)
    BY <1>18 DEF Rescue, history, Engaged
  <2>2. PICK t \in Stamps : Start("scanner", "enqueue", [m EXCEPT !.r = 0, !.ts = t])
    BY <1>18 DEF Rescue
  <2>3. m \in DOMAIN dlq /\ IsListOf(dlq)
    BY <2>1 DEF TypeInv, StoreOK, ListedInv, ScanOK
  <2>4. \E k : /\ job' = [job EXCEPT !["scanner"] = k] /\ Steady(k) /\ ~Has(k.todo, "dlqrem")
               /\ k.pc \notin {"dead", "reopen", "rescue"}
    BY <1>3, <1>5, <1>8, <2>1, <2>2
  <2>5. dock[m.oid] = "2" => Listed(m.oid, dlq', submitted, job)
    BY <2>1 DEF ListedInv, ScanOK
  <2>6. \A x \in DOMAIN dlq : x # m => x \in DOMAIN dlq'
    BY <2>1 DEF Lists!BagRemove
  <2> HIDE DEF m
  <2>7. \A o \in Orders : o # m.oid /\ Listed(o, dlq, submitted, job) => Listed(o, dlq', submitted, job)
    BY <2>6 DEF Listed
  <2> QED
    BY <1>6, <2>1, <2>4, <2>5, <2>7, ScannerListed
<1> QED
  BY <1>11, <1>12, <1>13, <1>14, <1>15, <1>16, <1>17, <1>18

\* A step of neither a worker nor the scanner.
LEMMA SameListed ==
    ASSUME ListedInv, UNCHANGED <<job, dock, submitted, dlq, acked>>
    PROVE  ListedInv'
BY DEF ListedInv, ScanOK, Listed

\* Every step, when no fault may happen.
LEMMA ListedStep ==
    ASSUME MaxFaults = 0, SameSecond = FALSE, IsFiniteSet(Slots)
    PROVE  Normal /\ ListedInv /\ [Next]_vars => ListedInv'
<1> SUFFICES ASSUME Normal, ListedInv, [Next]_vars PROVE ListedInv'
  OBVIOUS
<1> USE DEF Normal
<1>0. up = "up" /\ job["reaper"] = Idle /\ job["rollback"] = Idle
  BY DEF OwnInv, Quiet
<1>1. CASE UNCHANGED vars
  BY <1>1, SameListed DEF vars, store, control, history
<1>2. CASE WorkerNext
  <2>1. \A m : ~PopUnanswered(m)
    BY NoFault DEF PopUnanswered
  <2>2. \A a : ~CallFails(a) /\ ~CallUnanswered(a)
    BY NoFault DEF CallFails, CallUnanswered
  <2>3. ASSUME NEW s \in Slots,
               \/ \E m \in BagToSet(pending) : Pop(s, m)
               \/ TakeLock(s) \/ LockBusy(s) \/ LookUp(s) \/ Repair(s) \/ RepairFindsNothing(s)
               \/ CheckDB(s) \/ Dispatch(s) \/ DispatchFull(s)
               \/ TakeSubmit(s) \/ LoadFails(s) \/ CallUpstream(s) \/ Accepted(s) \/ Refused(s)
               \/ FailedButSubmitted(s) \/ FailedSubmit(s)
        PROVE  ListedInv'
    <3>1. acked \subseteq acked'
      BY <2>3 DEF Pop, TakeLock, LockBusy, LookUp, Repair, RepairFindsNothing, CheckDB, Dispatch, DispatchFull,
           TakeSubmit, LoadFails, CallUpstream, Accepted, Refused, FailedButSubmitted, FailedSubmit, history
    <3>2. /\ Goes(s)
          /\ UNCHANGED <<submitted, enq, dlq, retry, feed>>
          /\ dock' = dock \/ dock' = [dock EXCEPT ![job[s].msg.oid] = "1"]
      BY <2>3, SlotSteps
    <3> QED
      BY <3>1, <3>2, SlotListed
  <2> QED
    BY <1>2, <2>1, <2>2, <2>3, NoFaultySteps, CallListed DEF WorkerNext
<1>3. CASE MaintenanceNext
  <2>1. ASSUME NEW f \in Feeders, NEW o \in Orders, ReadToDo(f) \/ Mark(f, o) \/ Push(f, o)
        PROVE  ListedInv'
    BY <2>1, SameListed DEF ReadToDo, Mark, Push, store, control, history
  <2>2. \A f, o : ~PushFails(f, o)
    BY NoFault DEF PushFails
  <2>3. \A m \in BagToSet(proc) : ~Reap(m) /\ ~TakeRollback(m)
    BY <1>0, NothingToReap DEF TakeRollback
  <2>4. ~DecideReap /\ ~DecideRollback
    BY <1>0 DEF DecideReap, DecideRollback, Idle
  <2>5. ASSUME NEW o \in Orders, MarkExpires(o) \/ LockExpires(o)
        PROVE  ListedInv'
    BY <2>5, SameListed DEF MarkExpires, LockExpires, control, history
  <2>6. \A o : ~LockLost(o)
    BY NoFault DEF LockLost
  <2>7. ~Shutdown /\ ~StartRollback /\ ~Exit /\ ~Crash
    BY <1>0, NoFault DEF Shutdown, StartRollback, Exit, Crash
  <2>8. ASSUME NEW f \in Feeders, ReadToDo(f)
        PROVE  ListedInv'
    BY <2>8, SameListed DEF ReadToDo, store, history
  <2> QED
    BY <1>3, <2>1, <2>2, <2>3, <2>4, <2>5, <2>6, <2>7, <2>8, DecisionListed DEF MaintenanceNext
<1> QED
  BY <1>1, <1>2, <1>3 DEF Next

\* At the start no order has failed; hence always.
LEMMA AlwaysListed ==
    ASSUME MaxFaults = 0, "read" \notin FaultKinds, SameSecond = FALSE, IsFiniteSet(Slots)
    PROVE  Spec => []ListedInv
<1>1. Init => ListedInv
  <2> SUFFICES ASSUME Init PROVE ListedInv
    OBVIOUS
  <2>1. dock = [o \in Orders |-> "0"] /\ \A a \in Agents : job[a] = Idle
    BY DEF Init
  <2>2. Idle.pc = "idle" /\ Idle.todo = <<>> /\ (\A x : ~Has(<<>>, x)) /\ Steady(Idle)
    BY SteadyCalls, SteadyServices DEF Idle
  <2>3. "scanner" \in Agents
    BY DEF Agents, Service
  <2>4. ScanOK(job["scanner"])
    BY <2>1, <2>2, <2>3 DEF ScanOK
  <2> QED
    BY <2>1, <2>2, <2>4 DEF ListedInv
<1>2. Normal /\ ListedInv /\ [Next]_vars => ListedInv'
  BY ListedStep
<1> QED
  BY <1>1, <1>2, AlwaysNormal, PTL DEF Spec

\* Without faults a failed order is in the dead letter queue, or a copy of it is
\* about to be pushed there, for any number of orders, copies, workers and
\* attempts: also when a worker fails the order again between the two steps in
\* which the scanner reopens it and takes its copy off the queue.
THEOREM FailedAreListed ==
    ASSUME MaxFaults = 0, "read" \notin FaultKinds, SameSecond = FALSE, IsFiniteSet(Slots)
    PROVE  Spec => []FailedIsListed
<1>1. TypeInv /\ ListedInv => FailedIsListed
  <2> SUFFICES ASSUME TypeInv, ListedInv, NEW o \in Orders, dock[o] = "2"
               PROVE  \/ o \in submitted
                      \/ \E m \in BagToSet(dlq) : m.oid = o
                      \/ \E a \in Agents : job[a] # Idle /\ job[a].msg.oid = o /\ "dlqpush" \in Left(a)
    BY DEF FailedIsListed
  <2>1. Listed(o, dlq, submitted, job)
    BY DEF ListedInv
  <2>2. ASSUME NEW a \in Agents, job[a].msg.oid = o, Has(job[a].todo, "dlqpush")
        PROVE  job[a] # Idle /\ "dlqpush" \in Left(a)
    BY <2>2, SteadyCalls DEF Has, Left, Idle
  <2> QED
    BY <2>1, <2>2 DEF Listed, BagToSet
<1> QED
  BY <1>1, AlwaysListed, TypesKept, PTL

-----------------------------------------------------------------------------
(* The marks that keep the producer from an order.  A worker that finds the *)
(* lock taken drops its copy and leaves the mark: the holder of the lock    *)
(* still has the order's outcome to record.  With resubmission this is not  *)
(* so, since a holder that schedules a retry records none.                  *)

\* A slot with job k works on order o.
Backs(k, o) == k.pc \notin {"idle", "drop"} /\ k.msg.oid = o

\* A slot with job k that ends its work has recorded the outcome, in dock table
\* D, or will, and releases its lock.
Settles(k, D) ==
    k.pc \in {"run", "mend"} =>
      /\ Has(k.todo, "release")
      /\ D[k.msg.oid] # "0" \/ Has(k.todo, "db1") \/ Has(k.todo, "db2")

MarkedInv ==
    /\ retry = {} /\ job["retrier"] = Idle /\ job["scanner"] = Idle
    /\ \A s \in Slots : ~Has(job[s].todo, "zadd") /\ ~Has(job[s].todo, "zback")
    /\ \A s \in Slots : Settles(job[s], dock)
    /\ \A o \in Orders : \/ lock[o] = Nobody
                         \/ \E s \in Slots : lock[o] = s /\ Holds(s) /\ job[s].msg.oid = o
    /\ \A o \in enq : dock[o] = "0" =>
         \/ \E m \in DOMAIN pending : m.oid = o
         \/ \E f \in Feeders : feed[f][o] = "marked"
         \/ \E s \in Slots : Backs(job[s], o)

\* The calls of the handlers without resubmission.
LEMMA SettlingCalls ==
    /\ \A q \in {Succeeded, Failed, <<"delenq", "lrem">>} :
         /\ Has(Append(q, "release"), "release")
         /\ ~Has(Append(q, "release"), "zadd") /\ ~Has(Append(q, "release"), "zback")
    /\ Has(Append(Succeeded, "release"), "db1")
    /\ Has(Append(Failed, "release"), "db2")
    /\ ~Has(<<"lrem">>, "zadd") /\ ~Has(<<"lrem">>, "zback")
<1>1. ASSUME NEW q \in Seq(Call)
      PROVE  /\ Has(Append(q, "release"), "release")
             /\ \A x : x # "release" => (Has(Append(q, "release"), x) <=> Has(q, x))
  <2> DEFINE p == Append(q, "release")
  <2>1. /\ Len(q) \in Nat /\ DOMAIN q = 1 .. Len(q) /\ DOMAIN p = 1 .. Len(q) + 1
        /\ \A i \in DOMAIN p : p[i] = IF i <= Len(q) THEN q[i] ELSE "release"
    OBVIOUS
  <2> HIDE DEF p
  <2>2. \A x : x # "release" => (Has(p, x) <=> Has(q, x))
    BY <2>1 DEF Has
  <2>3. Len(q) + 1 \in DOMAIN p /\ p[Len(q) + 1] = "release"
    BY <2>1
  <2>4. Has(p, "release")
    BY <2>3 DEF Has
  <2> QED
    BY <2>2, <2>4 DEF p
<1>2. Succeeded \in Seq(Call) /\ Failed \in Seq(Call) /\ <<"delenq", "lrem">> \in Seq(Call)
  BY DEF Succeeded, Failed, Call
<1>3. \A q \in {Succeeded, Failed, <<"delenq", "lrem">>} : ~Has(q, "zadd") /\ ~Has(q, "zback")
  BY DEF Has, Succeeded, Failed
<1>4. Has(Succeeded, "db1") /\ Has(Failed, "db2")
  <2>1. 2 \in DOMAIN Succeeded /\ Succeeded[2] = "db1" /\ 1 \in DOMAIN Failed /\ Failed[1] = "db2"
    BY DEF Succeeded, Failed
  <2> QED
    BY <2>1 DEF Has
<1>5. ~Has(<<"lrem">>, "zadd") /\ ~Has(<<"lrem">>, "zback")
  BY DEF Has
<1> QED
  BY <1>1, <1>2, <1>3, <1>4, <1>5

\* A slot takes a message, gets on with it, drops it or ends its work; with
\* TakeLock it takes the lock.
LEMMA SlotMarked ==
    ASSUME ResubmitOn = FALSE, TypeInv, ListedInv, MarkedInv, NEW s \in Slots, NEW k,
           job' = [job EXCEPT ![s] = k],
           Takes(s, k) \/ GetsOn(s, k) \/ Drops(s, k) \/ Ends(s, k),
           UNCHANGED <<enq, retry, feed>>,
           dock' = dock \/ dock' = [dock EXCEPT ![job[s].msg.oid] = "1"],
           \A m \in DOMAIN pending : m \in DOMAIN pending' \/ (Takes(s, k) /\ m = k.msg),
           \/ lock' = lock
           \/ lock' = [lock EXCEPT ![job[s].msg.oid] = s] /\ k.pc = "locked" /\ k.msg = job[s].msg
    PROVE  MarkedInv'
<1>1. s \in Agents /\ "retrier" \in Agents /\ "scanner" \in Agents /\ s # "retrier" /\ s # "scanner"
  BY StoreAssumption DEF Agents, Service
<1>2. job'[s] = k /\ \A a \in Agents : a # s => job'[a] = job[a]
  BY <1>1 DEF TypeInv, JobsGood
<1>3. \A t \in Slots : t \in Agents
  BY DEF Agents
<1>4. /\ job[s].pc \notin Engaged => job[s].todo = <<>>
      /\ job[s].pc # "idle" => job[s].msg.oid \in Orders
  BY <1>1 DEF ListedInv, Steady, TypeInv, JobsGood, GoodJob, Msg
<1>5. Idle.pc = "idle" /\ \A x : ~Has(<<>>, x)
  BY SteadyCalls DEF Idle
<1>6. \A o \in Orders : dock'[o] = "0" => dock[o] = "0"
  BY DEF TypeInv, StoreOK
<1>o. \A t \in Slots : job[t].pc \in {"run", "mend"} => job[t].msg.oid \in Orders
  BY <1>3 DEF TypeInv, JobsGood, GoodJob, Msg
<1>7. ~Has(k.todo, "zadd") /\ ~Has(k.todo, "zback")
  <2>1. CASE Ends(s, k)
    BY <2>1, SettlingCalls DEF Ends
  <2>2. CASE ~Ends(s, k)
    BY <1>5, <2>2, SettlingCalls DEF Takes, GetsOn, Drops, MarkedInv
  <2> QED
    BY <2>1, <2>2
<1>8. Settles(k, dock')
  <2>1. CASE Ends(s, k)
    <3>1. job[s].msg.oid \in Orders
      BY <1>4, <2>1 DEF Ends, Engaged
    <3>2. \/ k.todo = Append(Succeeded, "release") \/ k.todo = Append(Failed, "release")
          \/ /\ k.todo = Append(<<"delenq", "lrem">>, "release")
             /\ dock'[job[s].msg.oid] # "0"
      BY <2>1, <3>1 DEF Ends, TypeInv, StoreOK
    <3> QED
      BY <2>1, <3>2, SettlingCalls DEF Settles, Ends
  <2>2. CASE GetsOn(s, k)
    BY <1>6, <1>o, <2>2 DEF GetsOn, Engaged, MarkedInv, Settles
  <2>3. CASE Takes(s, k) \/ Drops(s, k)
    BY <2>3 DEF Takes, Drops, Settles
  <2> QED
    BY <2>1, <2>2, <2>3
<1>9. \A t \in Slots : Settles(job'[t], dock')
  <2> TAKE t \in Slots
  <2>1. CASE t = s
    BY <1>2, <1>8, <2>1
  <2>2. CASE t # s
    BY <1>2, <1>3, <1>6, <1>o, <2>2 DEF MarkedInv, Settles
  <2> QED
    BY <2>1, <2>2
<1>10. Holds(s) => Holds(s)' /\ k.msg = job[s].msg
  BY <1>2, <1>5 DEF Takes, GetsOn, Drops, Ends, Holds, Engaged
<1>11. \A o \in Orders : \/ lock'[o] = Nobody
                         \/ \E t \in Slots : lock'[o] = t /\ Holds(t)' /\ job'[t].msg.oid = o
  <2> SUFFICES ASSUME NEW o \in Orders, lock'[o] # Nobody
               PROVE  \E t \in Slots : lock'[o] = t /\ Holds(t)' /\ job'[t].msg.oid = o
    OBVIOUS
  <2>1. CASE lock'[o] = lock[o]
    <3>1. PICK t \in Slots : lock[o] = t /\ Holds(t) /\ job[t].msg.oid = o
      BY <2>1 DEF MarkedInv
    <3>2. Holds(t)' /\ job'[t].msg.oid = o
      <4>1. CASE t = s
        BY <1>2, <1>10, <3>1, <4>1
      <4>2. CASE t # s
        BY <1>2, <1>3, <3>1, <4>2 DEF Holds
      <4> QED
        BY <4>1, <4>2
    <3> QED
      BY <2>1, <3>1, <3>2
  <2>2. CASE lock'[o] # lock[o]
    <3>1. lock'[o] = s /\ k.pc = "locked" /\ k.msg.oid = o
      BY <2>2 DEF TypeInv, StoreOK
    <3> QED
      BY <1>2, <3>1 DEF Holds
  <2> QED
    BY <2>1, <2>2
\* What backed an order still does: the copy that was taken is worked on, and
\* a copy is dropped only while another slot has the lock.
<1>12. ASSUME NEW o \in enq, dock'[o] = "0"
       PROVE  \/ \E m \in DOMAIN pending' : m.oid = o
              \/ \E f \in Feeders : feed'[f][o] = "marked"
              \/ \E t \in Slots : Backs(job'[t], o)
  <2>1. o \in Orders /\ dock[o] = "0"
    BY <1>6, <1>12 DEF TypeInv, StoreOK
  <2>2. \/ \E m \in DOMAIN pending : m.oid = o
        \/ \E f \in Feeders : feed[f][o] = "marked"
        \/ \E t \in Slots : Backs(job[t], o)
    BY <1>12, <2>1 DEF MarkedInv
  <2>3. CASE \E m \in DOMAIN pending : m.oid = o
    <3>1. PICK m \in DOMAIN pending : m.oid = o
      BY <2>3
    <3>2. CASE Takes(s, k) /\ m = k.msg
      BY <1>2, <3>1, <3>2 DEF Takes, Backs
    <3> QED
      BY <3>1, <3>2
  <2>4. CASE \E f \in Feeders : feed[f][o] = "marked"
    BY <2>4
  <2>5. CASE \E t \in Slots : Backs(job[t], o)
    <3>1. PICK t \in Slots : Backs(job[t], o)
      BY <2>5
    <3>2. CASE t # s
      BY <1>2, <1>3, <3>1, <3>2
    <3>3. CASE t = s /\ ~Drops(s, k)
      BY <1>2, <1>5, <3>1, <3>3 DEF Backs, Takes, GetsOn, Ends, Engaged
    <3>4. CASE t = s /\ Drops(s, k)
      <4>1. PICK u \in Slots : lock[o] = u /\ Holds(u) /\ job[u].msg.oid = o
        BY <2>1, <3>1, <3>4 DEF Drops, Backs, MarkedInv
      <4>2. u # s /\ Backs(job[u], o)
        BY <3>4, <4>1 DEF Drops, Holds, Backs
      <4> QED
        BY <1>2, <1>3, <4>2
    <3> QED
      BY <3>2, <3>3, <3>4
  <2> QED
    BY <2>2, <2>3, <2>4, <2>5
<1>13. \A t \in Slots : ~Has(job'[t].todo, "zadd") /\ ~Has(job'[t].todo, "zback")
  BY <1>2, <1>3, <1>7 DEF MarkedInv
<1>14. retry' = {} /\ job'["retrier"] = Idle /\ job'["scanner"] = Idle
  BY <1>1, <1>2 DEF MarkedInv
<1> QED
  BY <1>9, <1>11, <1>12, <1>13, <1>14 DEF MarkedInv

\* The handlers of the consumer and of the pool.
LEMMA HandlerMarked ==
    ASSUME ResubmitOn = FALSE, SameSecond = FALSE, TypeInv, ListedInv, MarkedInv, NEW s \in Slots,
           \/ \E m \in BagToSet(pending) : Pop(s, m)
           \/ TakeLock(s) \/ LockBusy(s) \/ LookUp(s) \/ Repair(s) \/ RepairFindsNothing(s)
           \/ CheckDB(s) \/ Dispatch(s) \/ DispatchFull(s)
           \/ TakeSubmit(s) \/ LoadFails(s) \/ CallUpstream(s) \/ Accepted(s) \/ Refused(s)
           \/ FailedButSubmitted(s) \/ FailedSubmit(s)
    PROVE  MarkedInv'
<1>1. /\ Goes(s)
      /\ UNCHANGED <<submitted, enq, dlq, retry, feed>>
      /\ dock' = dock \/ dock' = [dock EXCEPT ![job[s].msg.oid] = "1"]
  BY SlotSteps
<1>m. job[s] \in Job
  BY DEF TypeInv, JobsGood, GoodJob, Agents
<1>2. CASE \E m \in BagToSet(pending) : Pop(s, m)
  <2>1. PICK m \in DOMAIN pending : Pop(s, m)
    BY <1>2 DEF BagToSet
  <2> DEFINE k == [Idle EXCEPT !.pc = "popped", !.at = "consumer", !.msg = m]
  <2>2. /\ job' = [job EXCEPT ![s] = k] /\ job[s] = Idle /\ pending' = Lists!BagRemove(pending, m)
        /\ lock' = lock
    BY <2>1 DEF Pop
  <2>3. k.pc = "popped" /\ k.todo = <<>> /\ k.msg = m
    BY DEF Idle
  <2> HIDE DEF k
  <2>4. Takes(s, k)
    BY <2>2, <2>3 DEF Takes
  <2>5. \A x \in DOMAIN pending : x \in DOMAIN pending' \/ (Takes(s, k) /\ x = k.msg)
    BY <2>2, <2>3, <2>4 DEF Lists!BagRemove
  <2> QED
    BY <1>1, <2>2, <2>4, <2>5, SlotMarked
<1>3. CASE TakeLock(s)
  <2> DEFINE k == [job[s] EXCEPT !.pc = "locked"]
  <2>1. /\ job' = [job EXCEPT ![s] = k] /\ job[s].pc = "popped" /\ pending' = pending
        /\ lock' = [lock EXCEPT ![job[s].msg.oid] = s]
    BY <1>3 DEF TakeLock, Become
  <2>2. k.pc = "locked" /\ k.todo = job[s].todo /\ k.msg = job[s].msg
    BY <1>m DEF Job
  <2> HIDE DEF k
  <2>3. GetsOn(s, k)
    BY <2>1, <2>2 DEF GetsOn, Engaged
  <2> QED
    BY <1>1, <2>1, <2>2, <2>3, SlotMarked
<1>4. CASE ~TakeLock(s) /\ ~\E m \in BagToSet(pending) : Pop(s, m)
  <2>1. lock' = lock /\ pending' = pending
    BY <1>4 DEF LockBusy, LookUp, Repair, RepairFindsNothing, CheckDB, Dispatch, DispatchFull,
           TakeSubmit, LoadFails, CallUpstream, Accepted, Refused, FailedButSubmitted, FailedSubmit, store
  <2>2. PICK k : job' = [job EXCEPT ![s] = k] /\ (Takes(s, k) \/ GetsOn(s, k) \/ Drops(s, k) \/ Ends(s, k))
    BY <1>1 DEF Goes
  <2> QED
    BY <1>1, <2>1, <2>2, SlotMarked
<1> QED
  BY <1>2, <1>3, <1>4

\* A call of a slot; the loops make none.
LEMMA CallMarked ==
    ASSUME Normal, ListedInv, MarkedInv, NEW s \in Agents, MakeCall(s)
    PROVE  MarkedInv'
<1> USE DEF Normal
<1>a. s \in Slots
  BY DEF MarkedInv, OwnInv, Quiet, MakeCall, Running, Idle, Agents, Service
<1> DEFINE j == job[s]
           q == j.todo
           c == q[1]
           k == Advance(j)
           m == j.msg
<1>1. /\ job' = [job EXCEPT ![s] = k] /\ Do(s, c, m) /\ feed' = feed
      /\ j.pc \in Engaged /\ q # <<>>
  BY DEF MakeCall, Running, Engaged
<1>2. j \in Job /\ m \in Msg /\ m.oid \in Orders /\ q \in Seq(Call) /\ GoodCalls(q, m)
  BY <1>1 DEF TypeInv, JobsGood, GoodJob, GoodCalls, Msg, Engaged
<1>3. /\ \A x : Has(Tail(q), x) => Has(q, x)
      /\ \A x : Has(q, x) => c = x \/ Has(Tail(q), x)
      /\ Has(q, c)
      /\ \A x : Len(q) = 1 => ~Has(Tail(q), x)
  BY <1>1, <1>2, HasTail
<1>4. \/ Len(q) = 1 /\ k = Idle
      \/ k.pc = j.pc /\ k.msg = m /\ k.todo = Tail(q)
  BY <1>2 DEF Advance, Job
<1>5. Idle.pc = "idle" /\ Idle.todo = <<>> /\ \A x : ~Has(<<>>, x)
  BY SlotCalls DEF Idle
<1>6. c # "dellock" /\ c # "zadd" /\ c # "zback"
  BY <1>3, <1>a DEF FateInv, MarkedInv
<1>7. /\ dock' = [dock EXCEPT ![m.oid] = CASE c = "db1" -> "1" [] c = "db2" -> "2" [] OTHER -> @]
      /\ enq' \subseteq enq /\ retry' = retry
      /\ lock' = [lock EXCEPT ![m.oid] = IF c = "release" /\ @ = s THEN Nobody ELSE @]
  BY <1>1, <1>6 DEF Do
<1>8. DOMAIN pending \subseteq DOMAIN pending'
  BY <1>1 DEF Do, Lists!BagAdd
<1>9. c = "release" => Len(q) = 1 /\ k = Idle
  <2> SUFFICES ASSUME c = "release" PROVE Len(q) = 1
    BY DEF Advance
  <2>1. 1 \in DOMAIN q
    BY <1>1, <1>2
  <2> QED
    BY <1>2, <2>1 DEF GoodCalls
<1>10. j.pc \in {"run", "mend"} =>
          /\ Has(q, "release")
          /\ dock[m.oid] # "0" \/ Has(q, "db1") \/ Has(q, "db2")
  BY <1>a DEF MarkedInv, Settles
<1>11. /\ \A o \in Orders : dock'[o] = "0" => dock[o] = "0"
       /\ c \in {"db1", "db2"} => dock'[m.oid] # "0"
  BY <1>2, <1>7 DEF TypeInv, StoreOK
<1>12. s # "retrier" /\ s # "scanner"
  BY <1>a, StoreAssumption DEF Service
<1>13. job'[s] = k /\ \A a \in Agents : a # s => job'[a] = job[a]
  BY <1>1 DEF TypeInv, JobsGood
<1>14. Slots \subseteq Agents /\ "retrier" \in Agents /\ "scanner" \in Agents
  BY DEF Agents, Service
<1>15. \A x : Has(k.todo, x) => Has(q, x)
  BY <1>3, <1>4, <1>5
<1>16. \A t \in Slots : job[t].pc \in {"run", "mend"} => job[t].msg.oid \in Orders
  BY <1>14 DEF TypeInv, JobsGood, GoodJob, Msg
<1>17. Settles(k, dock')
  <2>1. CASE k = Idle
    BY <1>5, <2>1 DEF Settles
  <2>2. CASE k.pc = j.pc /\ k.msg = m /\ k.todo = Tail(q)
    <3> HIDE DEF k, c, m, q, j
    <3> SUFFICES ASSUME j.pc \in {"run", "mend"}
                 PROVE  /\ Has(k.todo, "release")
                        /\ dock'[m.oid] # "0" \/ Has(k.todo, "db1") \/ Has(k.todo, "db2")
      BY <2>2 DEF Settles
    <3>1. Has(k.todo, "release") \/ k = Idle
      BY <1>3, <1>9, <1>10, <2>2
    <3>2. k # Idle
      BY <1>5, <2>2
    <3> QED
      BY <1>2, <1>3, <1>10, <1>11, <2>2, <3>1, <3>2
  <2> QED
    BY <1>4, <2>1, <2>2
\* A job that ends its work with the last call has released its lock, and the
\* outcome is recorded.
<1>18. k = Idle /\ j.pc \in {"run", "mend"} => c = "release" /\ dock[m.oid] # "0"
  <2> HIDE DEF k
  <2> SUFFICES ASSUME k = Idle, j.pc \in {"run", "mend"}
               PROVE  c = "release" /\ dock[m.oid] # "0"
    OBVIOUS
  <2>1. Len(q) = 1
    BY <1>1, <1>4, <1>5 DEF Engaged
  <2> HIDE DEF q, c, m, j
  <2>2. c = "release"
    BY <1>3, <1>10, <2>1
  <2> QED
    BY <1>3, <1>10, <2>1, <2>2
<1> HIDE DEF k, c, m, q
<1>19. \A t \in Slots : Settles(job'[t], dock') /\ ~Has(job'[t].todo, "zadd") /\ ~Has(job'[t].todo, "zback")
  <2> TAKE t \in Slots
  <2>1. CASE t = s
    BY <1>13, <1>15, <1>17, <2>1, <1>a DEF MarkedInv, q, j
  <2>2. CASE t # s
    BY <1>11, <1>13, <1>14, <1>16, <2>2 DEF MarkedInv, Settles
  <2> QED
    BY <2>1, <2>2
<1>20. \A o \in Orders : \/ lock'[o] = Nobody
                         \/ \E t \in Slots : lock'[o] = t /\ Holds(t)' /\ job'[t].msg.oid = o
  <2> SUFFICES ASSUME NEW o \in Orders, lock'[o] # Nobody
               PROVE  \E t \in Slots : lock'[o] = t /\ Holds(t)' /\ job'[t].msg.oid = o
    OBVIOUS
  <2>1. lock'[o] = lock[o] /\ (c = "release" /\ o = m.oid => lock[o] # s)
    BY <1>7 DEF TypeInv, StoreOK
  <2>2. PICK t \in Slots : lock[o] = t /\ Holds(t) /\ job[t].msg.oid = o
    BY <2>1 DEF MarkedInv
  <2>3. Holds(t)' /\ job'[t].msg.oid = o
    <3>1. CASE t # s
      BY <1>13, <1>14, <2>2, <3>1 DEF Holds
    <3>2. CASE t = s
      <4>1. j.pc \in {"run", "mend"} /\ o = m.oid /\ c # "release"
        BY <1>1, <2>1, <2>2, <3>2 DEF Holds, Engaged, m
      <4>2. k.pc = j.pc /\ k.msg = m
        BY <1>4, <1>18, <4>1
      <4> QED
        BY <1>13, <3>2, <4>1, <4>2 DEF Holds
    <3> QED
      BY <3>1, <3>2
  <2> QED
    BY <2>1, <2>2, <2>3
<1>21. ASSUME NEW o \in enq', dock'[o] = "0"
       PROVE  \/ \E x \in DOMAIN pending' : x.oid = o
              \/ \E f \in Feeders : feed'[f][o] = "marked"
              \/ \E t \in Slots : Backs(job'[t], o)
  <2>1. o \in enq /\ o \in Orders /\ dock[o] = "0"
    BY <1>7, <1>11, <1>21 DEF TypeInv, StoreOK
  <2>2. \/ \E x \in DOMAIN pending : x.oid = o
        \/ \E f \in Feeders : feed[f][o] = "marked"
        \/ \E t \in Slots : Backs(job[t], o)
    BY <2>1 DEF MarkedInv
  <2>3. ASSUME NEW t \in Slots, Backs(job[t], o) PROVE Backs(job'[t], o)
    <3>1. CASE t # s
      BY <1>13, <1>14, <2>3, <3>1
    <3>2. CASE t = s
      <4>1. j.pc \in {"run", "mend"} /\ o = m.oid
        BY <1>1, <2>3, <3>2 DEF Backs, Engaged, m
      <4>2. k # Idle
        BY <1>18, <2>1, <4>1
      <4>3. k.pc = j.pc /\ k.msg = m
        BY <1>4, <4>2
      <4> QED
        BY <1>13, <3>2, <4>1, <4>3 DEF Backs
    <3> QED
      BY <3>1, <3>2
  <2> QED
    BY <1>1, <1>8, <2>2, <2>3
<1>22. retry' = {} /\ job'["retrier"] = Idle /\ job'["scanner"] = Idle
  BY <1>7, <1>12, <1>13, <1>14 DEF MarkedInv
<1> QED
  BY <1>19, <1>20, <1>21, <1>22 DEF MarkedInv

\* The producer and the handler mark an order before they push it, and the mark
\* expires; no lock of a dead process is left to expire.
LEMMA FeedMarked ==
    ASSUME TypeInv, MarkedInv, NEW f \in Feeders, NEW o \in Orders,
           ReadToDo(f) \/ Mark(f, o) \/ Push(f, o) \/ MarkExpires(o) \/ LockExpires(o)
    PROVE  MarkedInv'
<1>1. UNCHANGED <<job, dock, retry>>
  BY DEF ReadToDo, Mark, Push, MarkExpires, LockExpires, store, control
<1>2. ~LockExpires(o)
  BY StoreAssumption DEF LockExpires, MarkedInv
<1>3. lock' = lock
  BY <1>2 DEF ReadToDo, Mark, Push, MarkExpires, store
<1>4. ASSUME NEW p \in enq', dock[p] = "0"
      PROVE  \/ \E m \in DOMAIN pending' : m.oid = p
             \/ \E g \in Feeders : feed'[g][p] = "marked"
             \/ \E s \in Slots : Backs(job[s], p)
  <2> DEFINE Backed0 == \/ \E m \in DOMAIN pending : m.oid = p
                        \/ \E g \in Feeders : feed[g][p] = "marked"
                        \/ \E s \in Slots : Backs(job[s], p)
  <2>0. p \in enq => Backed0
    BY <1>4 DEF MarkedInv
  <2>1. CASE ReadToDo(f)
    <3>1. enq' = enq /\ pending' = pending
      BY <2>1 DEF ReadToDo, store
    <3>2. ASSUME NEW g \in Feeders, feed[g][p] = "marked" PROVE feed'[g][p] = "marked"
      <4>1. p \in Orders
        BY <3>1, <1>4 DEF TypeInv, StoreOK
      <4>2. g # f
        BY <2>1, <3>2, <4>1 DEF ReadToDo, NothingRead
      <4> QED
        BY <2>1, <3>2, <4>2 DEF ReadToDo, TypeInv, StoreOK
    <3> QED
      BY <1>4, <2>0, <3>1, <3>2
  <2>2. CASE Mark(f, o)
    <3>1. /\ enq' = enq \cup {o} /\ pending' = pending /\ feed[f][o] = "read"
          /\ feed' = [feed EXCEPT ![f][o] = IF o \in enq THEN "none" ELSE "marked"]
      BY <2>2 DEF Mark
    <3>2. CASE p = o /\ o \notin enq
      <4>1. feed'[f][o] = "marked"
        BY <3>1, <3>2 DEF TypeInv, StoreOK
      <4> QED
        BY <3>2, <4>1
    <3>3. CASE p \in enq
      <4>1. ASSUME NEW g \in Feeders, feed[g][p] = "marked" PROVE feed'[g][p] = "marked"
        BY <3>1, <4>1 DEF TypeInv, StoreOK
      <4> QED
        BY <2>0, <3>1, <3>3, <4>1
    <3> QED
      BY <1>4, <3>1, <3>2, <3>3
  <2>3. CASE Push(f, o)
    <3>1. PICK t \in Stamps : pending' = Lists!BagAdd(pending, [oid |-> o, r |-> 0, ts |-> t])
      BY <2>3 DEF Push
    <3>2. feed' = [feed EXCEPT ![f][o] = "none"] /\ enq' = enq
      BY <2>3 DEF Push
    <3> DEFINE m == [oid |-> o, r |-> 0, ts |-> t]
    <3>3. m \in DOMAIN pending' /\ DOMAIN pending \subseteq DOMAIN pending' /\ m.oid = o
      BY <3>1 DEF Lists!BagAdd
    <3> HIDE DEF m
    <3>4. CASE p = o
      BY <3>3, <3>4
    <3>5. CASE p # o
      <4>1. ASSUME NEW g \in Feeders, feed[g][p] = "marked" PROVE feed'[g][p] = "marked"
        BY <3>2, <3>5, <4>1 DEF TypeInv, StoreOK
      <4> QED
        BY <1>4, <2>0, <3>2, <3>3, <4>1
    <3> QED
      BY <3>4, <3>5
  <2>4. CASE MarkExpires(o)
    <3>1. enq' \subseteq enq /\ pending' = pending /\ feed' = feed
      BY <2>4 DEF MarkExpires, control
    <3> QED
      BY <1>4, <2>0, <3>1
  <2> QED
    BY <1>2, <2>1, <2>2, <2>3, <2>4
<1>5. \A s \in Slots : Settles(job'[s], dock') /\ ~Has(job'[s].todo, "zadd") /\ ~Has(job'[s].todo, "zback")
  BY <1>1 DEF MarkedInv
<1>6. \A p \in Orders : \/ lock'[p] = Nobody
                        \/ \E s \in Slots : lock'[p] = s /\ Holds(s)' /\ job'[s].msg.oid = p
  BY <1>1, <1>3 DEF MarkedInv, Holds
<1>7. retry' = {} /\ job'["retrier"] = Idle /\ job'["scanner"] = Idle
  BY <1>1 DEF MarkedInv
<1> QED
  BY <1>1, <1>4, <1>5, <1>6, <1>7 DEF MarkedInv

\* Every step, when no fault may happen and nothing is submitted again.
LEMMA MarkedStep ==
    ASSUME MaxFaults = 0, SameSecond = FALSE, IsFiniteSet(Slots), ResubmitOn = FALSE, DlqAuto = FALSE
    PROVE  Normal /\ ListedInv /\ MarkedInv /\ [Next]_vars => MarkedInv'
<1> SUFFICES ASSUME Normal, ListedInv, MarkedInv, [Next]_vars PROVE MarkedInv'
  OBVIOUS
<1> USE DEF Normal
<1>0. up = "up" /\ job["reaper"] = Idle /\ job["rollback"] = Idle
  BY DEF OwnInv, Quiet
<1>1. CASE UNCHANGED vars
  BY <1>1 DEF vars, store, control, history, MarkedInv, Holds
<1>2. CASE WorkerNext
  <2>1. \A m : ~PopUnanswered(m)
    BY NoFault DEF PopUnanswered
  <2>2. \A a : ~CallFails(a) /\ ~CallUnanswered(a)
    BY NoFault DEF CallFails, CallUnanswered
  <2> QED
    BY <1>2, <2>1, <2>2, NoFaultySteps, HandlerMarked, CallMarked DEF WorkerNext
<1>3. CASE MaintenanceNext
  <2>1. ASSUME NEW f \in Feeders, NEW o \in Orders, Mark(f, o) \/ Push(f, o) \/ MarkExpires(o) \/ LockExpires(o)
        PROVE  MarkedInv'
    BY <2>1, FeedMarked
  <2>2. ASSUME NEW f \in Feeders, ReadToDo(f)
        PROVE  MarkedInv'
    <3>1. \E o : o \in Orders
      BY <2>2 DEF ReadToDo, ToDo
    <3> QED
      BY <2>2, <3>1, FeedMarked
  <2>3. \A f, o : ~PushFails(f, o)
    BY NoFault DEF PushFails
  <2>4. \A m \in BagToSet(proc) : ~Reap(m) /\ ~TakeRollback(m)
    BY <1>0, NothingToReap DEF TakeRollback
  <2>5. ~DecideReap /\ ~DecideRollback
    BY <1>0 DEF DecideReap, DecideRollback, Idle
  <2>6. /\ \A m \in retry : ~TakeDue(m)
        /\ ~DecideDue /\ ~Enqueue("retrier") /\ ~Enqueue("scanner")
        /\ \A m : ~TakeDead(m)
        /\ ~DecideDead /\ ~Reopen /\ ~Rescue
    BY DEF MarkedInv, DecideDue, Enqueue, TakeDead, DecideDead, Reopen, Rescue, Idle
  <2>7. \A o : ~LockLost(o)
    BY NoFault DEF LockLost
  <2>8. ~Shutdown /\ ~StartRollback /\ ~Exit /\ ~Crash
    BY <1>0, NoFault DEF Shutdown, StartRollback, Exit, Crash
  <2>9. \E f : f \in Feeders
    BY DEF Feeders
  <2> QED
    BY <1>3, <2>1, <2>2, <2>3, <2>4, <2>5, <2>6, <2>7, <2>8, <2>9 DEF MaintenanceNext
<1> QED
  BY <1>1, <1>2, <1>3 DEF Next

\* Without faults, and with resubmission switched off, the mark that keeps the
\* producer from an order to do is backed by a copy that will be worked on, for
\* any number of orders, copies and workers: also when a copy is dropped since
\* its order's lock is taken, and whoever holds the lock has taken the mark away
\* and the producer, or the handler, has set it again.
THEOREM MarksAreBacked ==
    ASSUME MaxFaults = 0, "read" \notin FaultKinds, SameSecond = FALSE, IsFiniteSet(Slots),
           ResubmitOn = FALSE, DlqAuto = FALSE
    PROVE  Spec => []MarkedIsQueued
<1>1. Init => MarkedInv
  <2> SUFFICES ASSUME Init PROVE MarkedInv
    OBVIOUS
  <2>1. Idle.pc = "idle" /\ Idle.todo = <<>> /\ \A x : ~Has(<<>>, x)
    BY SteadyCalls DEF Idle
  <2>2. \A s \in Slots : job[s] = Idle
    BY DEF Init, Agents
  <2>3. job["retrier"] = Idle /\ job["scanner"] = Idle
    BY DEF Init, Agents, Service
  <2>4. \A s \in Slots : Settles(job[s], dock) /\ ~Has(job[s].todo, "zadd") /\ ~Has(job[s].todo, "zback")
    BY <2>1, <2>2 DEF Settles
  <2> QED
    BY <2>3, <2>4 DEF Init, MarkedInv
<1>2. Normal /\ ListedInv /\ MarkedInv /\ [Next]_vars => MarkedInv'
  BY MarkedStep
<1>3. TypeInv /\ MarkedInv => MarkedIsQueued
  <2> SUFFICES ASSUME TypeInv, MarkedInv, NEW o \in enq, dock[o] = "0"
               PROVE  \/ \E m \in BagToSet(pending) \cup BagToSet(proc) : m.oid = o
                      \/ \E f \in Feeders : feed[f][o] = "marked"
                      \/ \E a \in Agents : job[a] # Idle /\ job[a].msg.oid = o
    BY DEF MarkedIsQueued
  <2>1. ASSUME NEW s \in Slots, Backs(job[s], o)
        PROVE  s \in Agents /\ job[s] # Idle /\ job[s].msg.oid = o
    BY <2>1 DEF Backs, Idle, Agents
  <2> QED
    BY <2>1 DEF MarkedInv, BagToSet
<1> QED
  BY <1>1, <1>2, <1>3, AlwaysNormal, AlwaysListed, TypesKept, PTL DEF Spec

-----------------------------------------------------------------------------
(* An order recorded as submitted is not sent again.                       *)
(*                                                                         *)
(* What a worker found out about its order stays true until it calls the   *)
(* upstream, or the order's lock was taken from it: nobody else holds the  *)
(* lock, and of the agents without it only the reaper writes the records,  *)
(* which it makes of orders that are recorded already.                     *)

\* The lookups work, no consumer is stopped, and nothing is submitted again.
Undisturbed == {"read", "scale", "shutdown"} \cap FaultKinds = {} /\ ~ResubmitOn /\ ~DlqAuto

\* Calls that record no outcome of an order, nor schedule it again.
Harmless(q) == /\ ~Has(q, "hset") /\ ~Has(q, "db1") /\ ~Has(q, "db2")
               /\ ~Has(q, "zadd") /\ ~Has(q, "zback")

\* Calls that record one outcome at most.
Decided(q) == /\ Has(q, "db2") => ~Has(q, "hset") /\ ~Has(q, "db1")
              /\ ~Has(q, "zadd") /\ ~Has(q, "zback")

\* Job k is not cancelled, and only who has decided on its order has calls left.
Mild(k) ==
    /\ k.pc \notin {"cancelled", "confirm"} /\ k.err # "cancelled"
    /\ k.pc \notin {"run", "mend", "drop"} => k.todo = <<>>
    /\ k.pc = "drop" => Harmless(k.todo)
    /\ Decided(k.todo)

OnRecord(o) == o \in submitted \/ dock[o] = "1"

\* Job k marks order o as failed.
Fails(k, o) == k.msg.oid = o /\ Has(k.todo, "db2")

\* What a slot with job k found out about its order is true.
Aware(k) ==
    k.pc # "idle" /\ k.msg.oid \notin lost =>
      /\ k.pc = "found" => k.msg.oid \in submitted
      /\ k.pc = "checkdb" => \/ k.msg.oid \notin submitted
                             \/ dock[k.msg.oid] = "1" /\ ~Fails(job["reaper"], k.msg.oid)
      /\ k.pc \in {"dispatch", "submit", "calling", "failed"} => ~OnRecord(k.msg.oid)
      /\ Has(k.todo, "db2") => k.msg.oid \in submitted \/ dock[k.msg.oid] # "1"

\* The reaper, with job k, records an order that is on record.
Repeats(k) ==
    Has(k.todo, "hset") \/ Has(k.todo, "db1") => k.msg.oid \in lost \/ OnRecord(k.msg.oid)

AwareInv ==
    /\ up = "up" /\ retry = {}
    /\ \A a \in {"retrier", "scanner", "rollback"} : job[a] = Idle
    /\ Mild(job["reaper"]) /\ Repeats(job["reaper"])
    /\ \A s \in Slots : Mild(job[s]) /\ Aware(job[s])

\* The calls of the handlers record one outcome at most.
LEMMA DecidedCalls ==
    /\ Harmless(<<>>) /\ Harmless(<<"lrem">>) /\ Harmless(<<"push", "lrem">>) /\ Harmless(<<"release">>)
    /\ \A q \in {Succeeded, Failed, <<"delenq", "lrem">>} : Decided(Append(q, "release"))
    /\ \A q \in {Succeeded, <<"delenq", "lrem">>} : ~Has(Append(q, "release"), "db2")
    /\ Decided(ReapedOut) /\ ~Has(ReapedOut, "hset") /\ ~Has(ReapedOut, "db1")
    /\ \A q \in {<<"db1", "lrem", "dellock", "delenq">>, <<"hset", "db1", "lrem", "dellock", "delenq">>} :
         Decided(q) /\ ~Has(q, "db2")
<1>1. ASSUME NEW q \in Seq(Call), NEW c, c # "release"
      PROVE  Has(Append(q, "release"), c) <=> Has(q, c)
  <2> DEFINE p == Append(q, "release")
  <2>1. /\ Len(q) \in Nat /\ DOMAIN q = 1 .. Len(q) /\ DOMAIN p = 1 .. Len(q) + 1
        /\ \A i \in DOMAIN p : p[i] = IF i <= Len(q) THEN q[i] ELSE "release"
    OBVIOUS
  <2> HIDE DEF p
  <2>2. Has(p, c) <=> Has(q, c)
    BY <1>1, <2>1 DEF Has
  <2> QED
    BY <2>2 DEF p
<1>2. Succeeded \in Seq(Call) /\ Failed \in Seq(Call) /\ <<"delenq", "lrem">> \in Seq(Call)
  BY DEF Succeeded, Failed, Call
<1>3. \A q \in {Succeeded, Failed, <<"delenq", "lrem">>} : Decided(q)
  BY DEF Decided, Has, Succeeded, Failed
<1>4. \A q \in {Succeeded, <<"delenq", "lrem">>} : ~Has(q, "db2")
  BY DEF Has, Succeeded
<1>5. \A q \in {Succeeded, Failed, <<"delenq", "lrem">>} : Decided(Append(q, "release"))
  BY <1>1, <1>2, <1>3 DEF Decided
<1>6. \A q \in {Succeeded, <<"delenq", "lrem">>} : ~Has(Append(q, "release"), "db2")
  BY <1>1, <1>2, <1>4
<1>7. Harmless(<<>>) /\ Harmless(<<"lrem">>) /\ Harmless(<<"push", "lrem">>) /\ Harmless(<<"release">>)
  BY DEF Harmless, Has
<1>8. Decided(ReapedOut) /\ ~Has(ReapedOut, "hset") /\ ~Has(ReapedOut, "db1")
  BY DEF Decided, Has, ReapedOut
<1>9. \A q \in {<<"db1", "lrem", "dellock", "delenq">>, <<"hset", "db1", "lrem", "dellock", "delenq">>} :
         Decided(q) /\ ~Has(q, "db2")
  BY DEF Decided, Has
<1> QED
  BY <1>5, <1>6, <1>7, <1>8, <1>9

\* The faults that are left out do not happen.
LEMMA UndisturbedFaults ==
    ASSUME Undisturbed
    PROVE  /\ ~Fault("read") /\ ~Fault("scale") /\ ~Fault("shutdown")
           /\ \A s : ~MayRetry(s)
BY DEF Undisturbed, Fault, MayRetry

\* Slot s goes on with job k and writes no record.
LEMMA SlotAware ==
    ASSUME TypeInv, AwareInv, NEW s \in Slots, NEW k, job' = [job EXCEPT ![s] = k],
           UNCHANGED <<dock, submitted, retry, up>>, lost \subseteq lost', Mild(k), Aware(k)
    PROVE  AwareInv'
<1>1. job'[s] = k /\ \A a \in Agents : a # s => job'[a] = job[a]
  BY DEF TypeInv, JobsGood, Agents
<1>2. /\ \A a \in {"retrier", "scanner", "rollback", "reaper"} : a \in Agents /\ a # s
      /\ Slots \subseteq Agents
  BY StoreAssumption DEF Agents, Service
<1>3. \A a \in {"retrier", "scanner", "rollback", "reaper"} : job'[a] = job[a]
  BY <1>1, <1>2
<1>4. \A t \in Slots : Mild(job'[t])
  BY <1>1, <1>2 DEF AwareInv
<1>5. Repeats(job["reaper"])'
  BY <1>3 DEF AwareInv, Repeats, OnRecord
<1>6. \A t \in Slots : Aware(job[t])'
  <2> TAKE t \in Slots
  <2>1. Aware(job'[t])
    BY <1>1, <1>2 DEF AwareInv
  <2> QED
    BY <2>1, <1>3 DEF Aware, OnRecord, Fails
<1> QED
  BY <1>3, <1>4, <1>5, <1>6 DEF AwareInv

\* Slot s goes on with a job that is no worse than the one it has.
Steps(s) == \E k : job' = [job EXCEPT ![s] = k] /\ Mild(k) /\ Aware(k)

\* Slot s gets on to pc, or makes the calls q.
Moved(s, pc) ==
    \E k : /\ job' = [job EXCEPT ![s] = k] /\ k.pc = pc
           /\ k.msg = job[s].msg /\ k.todo = job[s].todo /\ k.err # "cancelled"
Turned(s, pc, q) ==
    \E k : /\ job' = [job EXCEPT ![s] = k] /\ k.pc = pc
           /\ k.msg = job[s].msg /\ k.todo = q /\ k.err # "cancelled"

\* The forms of such a step.
LEMMA MovedForms ==
    ASSUME TypeInv, AwareInv, NEW s \in Slots
    PROVE  /\ \A pc : Become(s, pc) => Moved(s, pc)
           /\ \A at : job' = [job EXCEPT ![s].at = at] => Moved(s, job[s].pc)
           /\ \A pc, err : err # "cancelled" /\ job' = [job EXCEPT ![s] = [@ EXCEPT !.pc = pc, !.err = err]]
                           => Moved(s, pc)
           /\ \A pc, at : job' = [job EXCEPT ![s] = [@ EXCEPT !.pc = pc, !.at = at, !.err = "none"]]
                          => Moved(s, pc)
           /\ \A q : /\ Finish(s, q) => Turned(s, "run", Append(q, "release"))
                     /\ Mend(s, q) => Turned(s, "mend", Append(q, "release"))
                     /\ job' = [job EXCEPT ![s] = [@ EXCEPT !.pc = "drop", !.todo = q]]
                        => Turned(s, "drop", q)
                     /\ job' = [job EXCEPT ![s].todo = q] => Turned(s, job[s].pc, q)
<1>j. job[s] \in Job /\ job[s].err # "cancelled"
  BY DEF TypeInv, JobsGood, Agents, AwareInv, Mild
<1> USE DEF Moved, Turned
<1>1. ASSUME NEW pc, Become(s, pc) PROVE Moved(s, pc)
  <2> DEFINE k == [job[s] EXCEPT !.pc = pc]
  <2>1. /\ job' = [job EXCEPT ![s] = k]
        /\ k.pc = pc /\ k.msg = job[s].msg /\ k.todo = job[s].todo /\ k.err = job[s].err
    BY <1>1, <1>j DEF Become, Job
  <2> HIDE DEF k
  <2> QED
    BY <1>j, <2>1
<1>2. ASSUME NEW at, job' = [job EXCEPT ![s].at = at] PROVE Moved(s, job[s].pc)
  <2> DEFINE k == [job[s] EXCEPT !.at = at]
  <2>1. /\ job' = [job EXCEPT ![s] = k]
        /\ k.pc = job[s].pc /\ k.msg = job[s].msg /\ k.todo = job[s].todo /\ k.err = job[s].err
    BY <1>2, <1>j DEF Job
  <2> HIDE DEF k
  <2> QED
    BY <1>j, <2>1
<1>3. ASSUME NEW pc, NEW err, err # "cancelled", job' = [job EXCEPT ![s] = [@ EXCEPT !.pc = pc, !.err = err]]
      PROVE  Moved(s, pc)
  <2> DEFINE k == [job[s] EXCEPT !.pc = pc, !.err = err]
  <2>1. /\ job' = [job EXCEPT ![s] = k]
        /\ k.pc = pc /\ k.msg = job[s].msg /\ k.todo = job[s].todo /\ k.err = err
    BY <1>3, <1>j DEF Job
  <2> HIDE DEF k
  <2> QED
    BY <1>3, <2>1
<1>4. ASSUME NEW pc, NEW at, job' = [job EXCEPT ![s] = [@ EXCEPT !.pc = pc, !.at = at, !.err = "none"]]
      PROVE  Moved(s, pc)
  <2> DEFINE k == [job[s] EXCEPT !.pc = pc, !.at = at, !.err = "none"]
  <2>1. /\ job' = [job EXCEPT ![s] = k]
        /\ k.pc = pc /\ k.msg = job[s].msg /\ k.todo = job[s].todo /\ k.err = "none"
    BY <1>4, <1>j DEF Job
  <2> HIDE DEF k
  <2> QED
    BY <2>1
<1>5. ASSUME NEW pc, NEW q, job' = [job EXCEPT ![s] = [@ EXCEPT !.pc = pc, !.todo = q]]
      PROVE  Turned(s, pc, q)
  <2> DEFINE k == [job[s] EXCEPT !.pc = pc, !.todo = q]
  <2>1. /\ job' = [job EXCEPT ![s] = k]
        /\ k.pc = pc /\ k.msg = job[s].msg /\ k.todo = q /\ k.err = job[s].err
    BY <1>5, <1>j DEF Job
  <2> HIDE DEF k
  <2> QED
    BY <1>j, <2>1
<1>6. ASSUME NEW q, job' = [job EXCEPT ![s].todo = q] PROVE Turned(s, job[s].pc, q)
  <2> DEFINE k == [job[s] EXCEPT !.todo = q]
  <2>1. /\ job' = [job EXCEPT ![s] = k]
        /\ k.pc = job[s].pc /\ k.msg = job[s].msg /\ k.todo = q /\ k.err = job[s].err
    BY <1>6, <1>j DEF Job
  <2> HIDE DEF k
  <2> QED
    BY <1>j, <2>1
<1> HIDE DEF Moved, Turned
<1>7. \A q : /\ Finish(s, q) => Turned(s, "run", Append(q, "release"))
             /\ Mend(s, q) => Turned(s, "mend", Append(q, "release"))
  BY <1>5 DEF Finish, Mend
<1> QED
  BY <1>1, <1>2, <1>3, <1>4, <1>5, <1>6, <1>7

\* A slot that has made no decision gets on when it knows what it has to.
LEMMA MovedAware ==
    ASSUME AwareInv, NEW s \in Slots, job[s].todo = <<>>, NEW pc, Moved(s, pc),
           pc \notin {"idle", "run", "mend", "drop", "cancelled", "confirm"},
           job[s].msg.oid \notin lost =>
             /\ pc = "found" => job[s].msg.oid \in submitted
             /\ pc = "checkdb" => job[s].msg.oid \notin submitted
             /\ pc \in {"dispatch", "submit", "calling", "failed"} => ~OnRecord(job[s].msg.oid)
    PROVE  Steps(s)
<1>1. PICK k : /\ job' = [job EXCEPT ![s] = k] /\ k.pc = pc
               /\ k.msg = job[s].msg /\ k.todo = job[s].todo /\ k.err # "cancelled"
  BY DEF Moved
<1>2. Harmless(<<>>) /\ Decided(<<>>) /\ \A c : ~Has(<<>>, c)
  BY DecidedCalls DEF Harmless, Decided, Has
<1>3. Mild(k) /\ Aware(k)
  BY <1>1, <1>2 DEF Mild, Aware
<1> QED
  BY <1>1, <1>3 DEF Steps

\* It decides, and marks only an order as failed that is not on record in the
\* table alone.
LEMMA TurnedAware ==
    ASSUME AwareInv, NEW s \in Slots, NEW pc, NEW q, Turned(s, pc, q),
           pc \in {"run", "mend", "drop"}, Decided(q), pc = "drop" => Harmless(q),
           Has(q, "db2") => job[s].msg.oid \in lost \cup submitted \/ dock[job[s].msg.oid] # "1"
    PROVE  Steps(s)
<1>1. PICK k : /\ job' = [job EXCEPT ![s] = k] /\ k.pc = pc
               /\ k.msg = job[s].msg /\ k.todo = q /\ k.err # "cancelled"
  BY DEF Turned
<1>2. Mild(k) /\ Aware(k)
  BY <1>1 DEF Mild, Aware, Harmless, Decided
<1> QED
  BY <1>1, <1>2 DEF Steps

\* The steps of the consumer that write no record.
LEMMA ConsumerAware ==
    ASSUME Undisturbed, TypeInv, AwareInv, NEW s \in Slots,
           \/ \E m \in BagToSet(pending) : Pop(s, m) \/ PopOnly(s, m)
           \/ PushProcessing(s) \/ PushProcessingFails(s)
           \/ TakeLock(s) \/ LockBusy(s) \/ LockFails(s)
           \/ LookUp(s) \/ LookUpFails(s)
           \/ RepairFindsNothing(s) \/ RepairFails(s)
           \/ CheckDB(s) \/ CheckDBFails(s) \/ ContextEnds(s)
           \/ Dispatch(s) \/ DispatchFull(s)
    PROVE  AwareInv'
<1> USE DEF store, history
<1>m. job[s] \in Job /\ Mild(job[s]) /\ Aware(job[s])
  BY DEF TypeInv, JobsGood, Agents, AwareInv
<1>t. job[s].pc \notin {"run", "mend", "drop"} => job[s].todo = <<>>
  BY <1>m DEF Mild
<1>0. /\ Steps(s) /\ UNCHANGED <<dock, submitted, lost, retry, up>> => AwareInv'
  BY SlotAware DEF Steps
<1>1. ASSUME NEW m \in BagToSet(pending), Pop(s, m) \/ PopOnly(s, m) PROVE AwareInv'
  <2> DEFINE j(pc) == [Idle EXCEPT !.pc = pc, !.at = "consumer", !.msg = m]
  <2>1. \A pc \in {"popped", "moving"} : Mild(j(pc)) /\ Aware(j(pc))
    BY DecidedCalls DEF Mild, Aware, Idle, Harmless, Decided
  <2>2. job' = [job EXCEPT ![s] = j("popped")] \/ job' = [job EXCEPT ![s] = j("moving")]
    BY <1>1 DEF Pop, PopOnly
  <2> HIDE DEF j
  <2>3. Steps(s)
    BY <2>1, <2>2 DEF Steps
  <2> QED
    BY <1>0, <1>1, <2>3 DEF Pop, PopOnly
<1>2. CASE PushProcessing(s) \/ TakeLock(s)
  <2>1. Moved(s, "popped") \/ Moved(s, "locked")
    BY <1>2, MovedForms DEF PushProcessing, TakeLock
  <2>2. job[s].todo = <<>>
    BY <1>2, <1>t DEF PushProcessing, TakeLock
  <2>3. Steps(s)
    BY <2>1, <2>2, MovedAware
  <2> QED
    BY <1>0, <1>2, <2>3 DEF PushProcessing, TakeLock
<1>3. CASE PushProcessingFails(s) \/ LockBusy(s) \/ LockFails(s)
  <2>1. \/ job' = [job EXCEPT ![s] = Idle]
        \/ \E q \in {<<"lrem">>, <<"push", "lrem">>} : Turned(s, "drop", q)
    BY <1>3, MovedForms DEF PushProcessingFails, LockBusy, LockFails
  <2>2. \A q \in {<<"lrem">>, <<"push", "lrem">>} : Harmless(q) /\ Decided(q) /\ ~Has(q, "db2")
    BY DecidedCalls DEF Harmless, Decided
  <2>3. Mild(Idle) /\ Aware(Idle)
    BY DecidedCalls DEF Mild, Aware, Idle, Harmless, Decided
  <2>4. Steps(s)
    BY <2>1, <2>2, <2>3, TurnedAware DEF Steps
  <2> QED
    BY <1>0, <1>3, <2>4 DEF PushProcessingFails, LockBusy, LockFails
<1>4. CASE LookUp(s) \/ LookUpFails(s)
  <2>1. LookUp(s)
    BY <1>4, UndisturbedFaults DEF LookUpFails
  <2>2. job[s].todo = <<>>
    BY <2>1, <1>t DEF LookUp
  <2>3. \/ job[s].msg.oid \in submitted /\ Moved(s, "found")
        \/ job[s].msg.oid \notin submitted /\ Moved(s, "checkdb")
    <3>1. \/ job[s].msg.oid \in submitted /\ Become(s, "found")
          \/ job[s].msg.oid \notin submitted /\ Become(s, "checkdb")
      BY <2>1 DEF LookUp
    <3> QED
      BY <3>1, MovedForms
  <2>4. Steps(s)
    BY <2>2, <2>3, MovedAware
  <2> QED
    BY <1>0, <2>1, <2>4 DEF LookUp
<1>5. CASE RepairFindsNothing(s) \/ RepairFails(s)
  <2>1. job[s].msg.oid \notin lost => job[s].msg.oid \in submitted
    BY <1>5, <1>m DEF RepairFindsNothing, RepairFails, Aware
  <2> DEFINE q == Append(Failed, "release")
  <2>2. Turned(s, "mend", q)
    BY <1>5, MovedForms DEF RepairFindsNothing, RepairFails
  <2>3. Decided(q)
    BY DecidedCalls
  <2> HIDE DEF q
  <2>4. Steps(s)
    BY <2>1, <2>2, <2>3, TurnedAware
  <2> QED
    BY <1>0, <1>5, <2>4 DEF RepairFindsNothing, RepairFails
<1>6. CASE CheckDB(s) \/ CheckDBFails(s)
  <2>1. CheckDB(s)
    BY <1>6, UndisturbedFaults DEF CheckDBFails
  <2>2. job[s].todo = <<>> /\ job[s].pc = "checkdb"
    BY <2>1, <1>t DEF CheckDB
  <2>3. CASE dock[job[s].msg.oid] = "1"
    <3> DEFINE q == Append(Succeeded, "release")
    <3>1. Turned(s, "mend", q)
      <4>1. Mend(s, Succeeded)
        BY <2>1, <2>3 DEF CheckDB
      <4> QED
        BY <4>1, MovedForms
    <3>2. Decided(q) /\ ~Has(q, "db2")
      BY DecidedCalls
    <3> HIDE DEF q
    <3>3. Steps(s)
      BY <3>1, <3>2, TurnedAware
    <3> QED
      BY <1>0, <2>1, <3>3 DEF CheckDB
  <2>4. CASE dock[job[s].msg.oid] # "1"
    <3>1. Moved(s, "dispatch")
      BY <2>1, <2>4, MovedForms DEF CheckDB
    <3>2. job[s].msg.oid \notin lost => ~OnRecord(job[s].msg.oid)
      BY <2>2, <2>4, <1>m DEF Aware, OnRecord
    <3>3. Steps(s)
      BY <2>2, <3>1, <3>2, MovedAware
    <3> QED
      BY <1>0, <2>1, <3>3 DEF CheckDB
  <2> QED
    BY <2>3, <2>4
<1>7. CASE ContextEnds(s)
  <2>1. up = "up"
    BY DEF AwareInv
  <2> QED
    BY <1>7, <2>1, UndisturbedFaults DEF ContextEnds
<1>8. CASE Dispatch(s) \/ DispatchFull(s)
  <2>1. job[s].todo = <<>> /\ (job[s].msg.oid \notin lost => ~OnRecord(job[s].msg.oid))
    BY <1>8, <1>t, <1>m DEF Dispatch, DispatchFull, Aware
  <2>2. Moved(s, "submit")
    BY <1>8, MovedForms DEF Dispatch, DispatchFull
  <2>3. Steps(s)
    BY <2>1, <2>2, MovedAware
  <2> QED
    BY <1>0, <1>8, <2>3 DEF Dispatch, DispatchFull
<1> QED
  BY <1>1, <1>2, <1>3, <1>4, <1>5, <1>6, <1>7, <1>8

\* The steps of the pools.
LEMMA PoolAware ==
    ASSUME Undisturbed, TypeInv, AwareInv, NEW s \in Slots,
           \/ TakeSubmit(s) \/ LoadFails(s) \/ LoadCancelled(s)
           \/ CallUpstream(s) \/ Accepted(s) \/ Refused(s)
           \/ FailedButSubmitted(s) \/ FailedSubmit(s)
           \/ DispatchConfirm(s) \/ TakeConfirm(s) \/ Confirm(s) \/ ConfirmExpires(s)
    PROVE  AwareInv'
<1> USE DEF store, history
<1>m. job[s] \in Job /\ Mild(job[s]) /\ Aware(job[s])
  BY DEF TypeInv, JobsGood, Agents, AwareInv
<1>t. job[s].pc \notin {"run", "mend", "drop"} => job[s].todo = <<>>
  BY <1>m DEF Mild
<1>0. /\ Steps(s) /\ UNCHANGED <<dock, submitted, lost, retry, up>> => AwareInv'
  BY SlotAware DEF Steps
<1>1. CASE TakeSubmit(s) \/ TakeConfirm(s)
  <2>1. \E at : job' = [job EXCEPT ![s].at = at]
    BY <1>1 DEF TakeSubmit, TakeConfirm
  <2>2. Moved(s, job[s].pc)
    BY <2>1, MovedForms
  <2>3. PICK k : /\ job' = [job EXCEPT ![s] = k] /\ k.pc = job[s].pc
                 /\ k.msg = job[s].msg /\ k.todo = job[s].todo /\ k.err # "cancelled"
    BY <2>2 DEF Moved
  <2>4. Mild(k) /\ Aware(k)
    BY <2>3, <1>m DEF Mild, Aware
  <2>5. Steps(s)
    BY <2>3, <2>4 DEF Steps
  <2> QED
    BY <1>0, <1>1, <2>5 DEF TakeSubmit, TakeConfirm
<1>2. CASE LoadFails(s) \/ CallUpstream(s) \/ Refused(s)
  <2>1. job[s].todo = <<>> /\ (job[s].msg.oid \notin lost => ~OnRecord(job[s].msg.oid))
    BY <1>2, <1>t, <1>m DEF LoadFails, CallUpstream, Refused, Try, Aware
  <2>2. Moved(s, "failed") \/ Moved(s, "calling")
    BY <1>2, MovedForms DEF LoadFails, CallUpstream, Refused
  <2>3. Steps(s)
    BY <2>1, <2>2, MovedAware
  <2> QED
    BY <1>0, <1>2, <2>3 DEF LoadFails, CallUpstream, Refused
<1>3. CASE Accepted(s) \/ FailedButSubmitted(s)
  <2> DEFINE q == Append(Succeeded, "release")
  <2>1. Turned(s, "run", q)
    BY <1>3, MovedForms DEF Accepted, FailedButSubmitted
  <2>2. Decided(q) /\ ~Has(q, "db2")
    BY DecidedCalls
  <2> HIDE DEF q
  <2>3. Steps(s)
    BY <2>1, <2>2, TurnedAware
  <2> QED
    BY <1>0, <1>3, <2>3 DEF Accepted, FailedButSubmitted
<1>4. CASE FailedSubmit(s)
  <2> DEFINE q == Append(Failed, "release")
  <2>1. Finish(s, Failed)
    BY <1>4, UndisturbedFaults DEF FailedSubmit
  <2>2. Turned(s, "run", q)
    BY <2>1, MovedForms
  <2>3. Decided(q)
    BY DecidedCalls
  <2>4. job[s].msg.oid \notin lost => dock[job[s].msg.oid] # "1"
    BY <1>4, <1>m DEF FailedSubmit, Aware, OnRecord
  <2> HIDE DEF q
  <2>5. Steps(s)
    BY <2>2, <2>3, <2>4, TurnedAware
  <2> QED
    BY <1>0, <1>4, <2>5 DEF FailedSubmit
<1>5. CASE ConfirmExpires(s)
  <2> DEFINE q == <<"release">>
  <2>1. Turned(s, "run", q)
    <3>1. job' = [job EXCEPT ![s].todo = q] /\ job[s].pc = "run"
      BY <1>5 DEF ConfirmExpires
    <3> QED
      BY <3>1, MovedForms
  <2>2. Decided(q) /\ ~Has(q, "db2")
    BY DecidedCalls DEF Harmless, Decided
  <2> HIDE DEF q
  <2>3. Steps(s)
    BY <2>1, <2>2, TurnedAware
  <2> QED
    BY <1>0, <1>5, <2>3 DEF ConfirmExpires
<1>6. ~LoadCancelled(s) /\ ~DispatchConfirm(s) /\ ~Confirm(s)
  BY <1>m DEF Mild, LoadCancelled, DispatchConfirm, Confirm
<1> QED
  BY <1>1, <1>2, <1>3, <1>4, <1>5, <1>6

\* The holder of a lock goes on with job k and writes the records of its order:
\* nobody else goes by them.
LEMMA HolderAware ==
    ASSUME TypeInv, HoldsLock, AwareInv, NEW s \in Slots, Holds(s), NEW k, job' = [job EXCEPT ![s] = k],
           \A o \in Orders : o # job[s].msg.oid => dock'[o] = dock[o] /\ (o \in submitted' <=> o \in submitted),
           UNCHANGED <<retry, up>>, lost \subseteq lost', Mild(k), Aware(job[s])', Repeats(job["reaper"])'
    PROVE  AwareInv'
<1>1. job'[s] = k /\ \A a \in Agents : a # s => job'[a] = job[a]
  BY DEF TypeInv, JobsGood, Agents
<1>2. /\ \A a \in {"retrier", "scanner", "rollback", "reaper"} : a \in Agents /\ a # s
      /\ Slots \subseteq Agents
  BY StoreAssumption DEF Agents, Service
<1>3. \A a \in {"retrier", "scanner", "rollback", "reaper"} : job'[a] = job[a]
  BY <1>1, <1>2
<1>4. \A t \in Slots : Mild(job'[t])
  BY <1>1, <1>2 DEF AwareInv
<1>5. ASSUME NEW t \in Slots, t # s PROVE Aware(job[t])'
  <2>1. job'[t] = job[t] /\ Mild(job[t]) /\ Aware(job[t])
    BY <1>1, <1>2, <1>5 DEF AwareInv
  <2> SUFFICES ASSUME job[t].pc # "idle", job[t].msg.oid \notin lost' PROVE Aware(job[t])'
    BY <2>1 DEF Aware
  <2>2. job[t].msg.oid \in Orders /\ job[t].msg.oid \notin lost
    BY <1>2 DEF TypeInv, JobsGood, GoodJob, Msg
  <2>3. CASE job[t].msg.oid = job[s].msg.oid
    <3>1. ~Holds(t)
      BY <1>5, <2>2, <2>3 DEF HoldsLock
    <3>2. job[t].pc \in {"moving", "popped", "drop"} /\ ~Has(job[t].todo, "db2")
      BY <2>1, <3>1, DecidedCalls DEF Holds, Mild, Harmless
    <3> QED
      BY <2>1, <3>2 DEF Aware
  <2>4. CASE job[t].msg.oid # job[s].msg.oid
    <3>1. /\ dock'[job[t].msg.oid] = dock[job[t].msg.oid]
          /\ job[t].msg.oid \in submitted' <=> job[t].msg.oid \in submitted
      BY <2>2, <2>4
    <3> QED
      BY <2>1, <2>2, <3>1, <1>3 DEF Aware, OnRecord, Fails
  <2> QED
    BY <2>3, <2>4
<1>6. \A t \in Slots : Aware(job[t])'
  BY <1>5
<1> QED
  BY <1>3, <1>4, <1>6 DEF AwareInv

\* The database is written again.
LEMMA RepairAware ==
    ASSUME TypeInv, HoldsLock, AwareInv, NEW s \in Slots, Repair(s)
    PROVE  AwareInv'
<1> USE DEF store, history
<1>1. Holds(s) /\ s \in Agents /\ job[s].msg.oid \in Orders
  BY DEF Repair, Holds, TypeInv, JobsGood, GoodJob, Msg, Agents
<1> DEFINE q == Append(<<"delenq", "lrem">>, "release")
<1>2. Turned(s, "mend", q)
  BY MovedForms DEF Repair
<1>3. Decided(q) /\ ~Has(q, "db2")
  BY DecidedCalls
<1> HIDE DEF q
<1>4. PICK k : job' = [job EXCEPT ![s] = k] /\ k.pc = "mend" /\ k.msg = job[s].msg /\ k.todo = q /\ k.err # "cancelled"
  BY <1>2 DEF Turned
<1>5. Mild(k) /\ job'[s] = k
  BY <1>1, <1>3, <1>4 DEF Mild, TypeInv, JobsGood
<1>6. Aware(job[s])'
  BY <1>3, <1>4, <1>5 DEF Aware
<1>7. \A o \in Orders : dock'[o] = IF o = job[s].msg.oid THEN "1" ELSE dock[o]
  BY <1>1 DEF Repair, TypeInv, StoreOK
<1>8. Repeats(job["reaper"])'
  <2>1. "reaper" \in Agents /\ "reaper" # s
    BY StoreAssumption DEF Agents, Service
  <2>2. job'["reaper"] = job["reaper"] /\ Repeats(job["reaper"]) /\ Mild(job["reaper"])
    BY <1>4, <2>1 DEF AwareInv, TypeInv, JobsGood
  <2> SUFFICES ASSUME Has(job["reaper"].todo, "hset") \/ Has(job["reaper"].todo, "db1")
               PROVE  job["reaper"].msg.oid \in lost \/ OnRecord(job["reaper"].msg.oid)'
    BY <2>2 DEF Repeats, OnRecord, Repair
  <2>3. job["reaper"].msg.oid \in Orders
    <3>1. job["reaper"].pc # "idle"
      BY <2>1, <2>2, SteadyCalls DEF Mild
    <3> QED
      BY <2>1, <3>1 DEF TypeInv, JobsGood, GoodJob, Msg
  <2> QED
    BY <1>7, <2>2, <2>3 DEF Repeats, OnRecord, Repair
<1> QED
  BY <1>1, <1>4, <1>5, <1>6, <1>7, <1>8, HolderAware DEF Repair

\* A call of a slot.
LEMMA SlotCallAware ==
    ASSUME TypeInv, HoldsLock, AwareInv, NEW s \in Slots, MakeCall(s) \/ CallFails(s) \/ CallUnanswered(s)
    PROVE  AwareInv'
<1> DEFINE j == job[s]
           q == j.todo
           c == q[1]
           m == j.msg
<1>1. /\ Running(s) /\ j.pc \in {"run", "mend", "drop"} /\ q # <<>>
      /\ UNCHANGED up /\ Head(q) = c
  BY DEF MakeCall, CallFails, CallUnanswered, Running
<1>2. s \in Agents /\ j \in Job /\ m.oid \in Orders /\ q \in Seq(Call) /\ Mild(j) /\ Aware(j)
  BY <1>1 DEF TypeInv, JobsGood, GoodJob, GoodCalls, Msg, Agents, AwareInv
<1>3. /\ \A x : Has(Tail(q), x) => Has(q, x)
      /\ Has(q, c)
  BY <1>1, <1>2, HasTail
<1>4. c # "zadd" /\ c # "zback"
  BY <1>2, <1>3 DEF Mild, Decided
<1>5. Advance(j) = Idle \/ Advance(j) = [j EXCEPT !.todo = Tail(q)]
  BY DEF Advance
<1>6. AfterFailure(s) = Idle \/ AfterFailure(s) = Advance(j)
  BY <1>1, <1>4, StoreAssumption DEF AfterFailure, Service
<1>7. PICK k : job' = [job EXCEPT ![s] = k] /\ (k = Idle \/ k = [j EXCEPT !.todo = Tail(q)])
  BY <1>5, <1>6 DEF MakeCall, CallFails, CallUnanswered
<1>8. \/ k.pc = "idle" /\ k.todo = <<>> /\ k.err = "none"
      \/ k.pc = j.pc /\ k.todo = Tail(q) /\ k.msg = m /\ k.err = j.err
  <2>1. Idle.pc = "idle" /\ Idle.todo = <<>> /\ Idle.err = "none"
    BY DEF Idle
  <2>2. \A p : /\ [j EXCEPT !.todo = p].pc = j.pc /\ [j EXCEPT !.todo = p].todo = p
              /\ [j EXCEPT !.todo = p].msg = m /\ [j EXCEPT !.todo = p].err = j.err
    BY <1>2 DEF Job
  <2> HIDE DEF j, q
  <2> QED
    BY <1>7, <2>1, <2>2
<1>9. Mild(k)
  <2> HIDE DEF j, q
  <2>1. j = job[s] /\ q = j.todo
    BY DEF j, q
  <2> QED
    BY <1>1, <1>2, <1>3, <1>8, <2>1, DecidedCalls DEF Mild, Harmless, Decided
<1>10. CASE CallFails(s)
  <2>1. Aware(k)
    BY <1>2, <1>3, <1>8, <1>1 DEF Aware
  <2>2. UNCHANGED <<dock, submitted, lost, retry, up>>
    BY <1>10 DEF CallFails
  <2> QED
    BY <1>7, <1>9, <2>1, <2>2, SlotAware
<1>11. CASE MakeCall(s) \/ CallUnanswered(s)
  <2>1. Do(s, c, m)
    BY <1>1, <1>11 DEF MakeCall, CallUnanswered
  <2>2. /\ dock' = [dock EXCEPT ![m.oid] = CASE c = "db1" -> "1" [] c = "db2" -> "2" [] OTHER -> @]
        /\ submitted' = IF c = "hset" THEN submitted \cup {m.oid} ELSE submitted
        /\ retry' = retry /\ lost \subseteq lost'
    BY <1>4, <2>1 DEF Do
  <2>3. dock \in [Orders -> {"0", "1", "2"}]
    BY DEF TypeInv, StoreOK
  <2> HIDE DEF c
  <2>4. CASE j.pc = "drop"
    <3>1. c \notin {"hset", "db1", "db2"}
      BY <1>2, <1>3, <2>4 DEF Mild, Harmless
    <3>2. dock' = dock /\ submitted' = submitted
      BY <2>2, <2>3, <3>1, <1>2
    <3>3. Aware(k)
      BY <1>2, <1>3, <1>8, <1>1 DEF Aware
    <3> QED
      BY <1>1, <1>7, <1>9, <2>2, <3>2, <3>3, SlotAware
  <2>5. CASE j.pc \in {"run", "mend"}
    <3>1. Holds(s)
      BY <2>5 DEF Holds
    <3>2. \A o \in Orders : o # m.oid => dock'[o] = dock[o] /\ (o \in submitted' <=> o \in submitted)
      BY <2>2, <2>3
    <3>3. dock'[m.oid] = CASE c = "db1" -> "1" [] c = "db2" -> "2" [] OTHER -> dock[m.oid]
      BY <1>2, <2>2, <2>3
    <3>4. job'[s] = k
      BY <1>2, <1>7 DEF TypeInv, JobsGood
    <3>5. Aware(job[s])'
      <4> SUFFICES ASSUME k.pc = j.pc, k.todo = Tail(q), k.msg = m, Has(Tail(q), "db2"), m.oid \notin lost
                   PROVE  m.oid \in submitted' \/ dock'[m.oid] # "1"
        BY <1>8, <2>2, <2>5, <3>4, SteadyCalls DEF Aware
      <4>1. Has(q, "db2") /\ c # "hset" /\ c # "db1"
        BY <1>2, <1>3 DEF Mild, Decided
      <4>2. m.oid \in submitted \/ dock[m.oid] # "1"
        BY <1>2, <2>5, <4>1 DEF Aware
      <4> QED
        BY <2>2, <3>3, <4>1, <4>2
    <3>6. Repeats(job["reaper"])'
      <4>1. "reaper" \in Agents /\ "reaper" # s
        BY StoreAssumption DEF Agents, Service
      <4>2. job'["reaper"] = job["reaper"] /\ Repeats(job["reaper"]) /\ Mild(job["reaper"])
        BY <1>7, <4>1 DEF AwareInv, TypeInv, JobsGood
      <4> SUFFICES ASSUME Has(job["reaper"].todo, "hset") \/ Has(job["reaper"].todo, "db1"),
                          job["reaper"].msg.oid \notin lost
                   PROVE  OnRecord(job["reaper"].msg.oid)'
        BY <2>2, <4>2 DEF Repeats, OnRecord
      <4>3. job["reaper"].msg.oid \in Orders
        <5>1. job["reaper"].pc # "idle"
          BY <4>1, <4>2, SteadyCalls DEF Mild
        <5> QED
          BY <4>1, <5>1 DEF TypeInv, JobsGood, GoodJob, Msg
      <4>4. OnRecord(job["reaper"].msg.oid)
        BY <4>2 DEF Repeats
      <4>5. CASE job["reaper"].msg.oid # m.oid
        BY <3>2, <4>2, <4>3, <4>4, <4>5 DEF OnRecord
      <4>6. CASE job["reaper"].msg.oid = m.oid
        <5>1. c = "db2" => m.oid \in submitted \/ dock[m.oid] # "1"
          BY <1>2, <1>3, <2>5, <4>6 DEF Aware
        <5> QED
          BY <2>2, <3>3, <4>2, <4>4, <4>6, <5>1 DEF OnRecord
      <4> QED
        BY <4>5, <4>6
    <3> HIDE DEF j, q
    <3>7. m = job[s].msg
      BY DEF j
    <3> HIDE DEF m
    <3> QED
      BY <1>1, <1>7, <1>9, <2>2, <3>1, <3>2, <3>5, <3>6, <3>7, HolderAware
  <2> QED
    BY <1>1, <2>4, <2>5
<1> QED
  BY <1>10, <1>11

\* The reaper goes on with job k and writes no record.
LEMMA ReaperAware ==
    ASSUME TypeInv, AwareInv, NEW k, job' = [job EXCEPT !["reaper"] = k],
           UNCHANGED <<dock, submitted, lost, retry, up>>, Mild(k), Repeats(k),
           \A o : Fails(k, o) => Fails(job["reaper"], o) \/ ~OnRecord(o)
    PROVE  AwareInv'
<1>1. /\ "reaper" \in Agents /\ Slots \subseteq Agents /\ "reaper" \notin Slots
      /\ {"retrier", "scanner", "rollback"} \subseteq Agents \ {"reaper"}
  BY StoreAssumption DEF Agents, Service
<1>2. job'["reaper"] = k /\ \A a \in Agents : a # "reaper" => job'[a] = job[a]
  BY <1>1 DEF TypeInv, JobsGood
<1>3. Mild(job["reaper"])' /\ Repeats(job["reaper"])'
  BY <1>2 DEF Mild, Repeats, OnRecord
<1>4. \A t \in Slots : Mild(job'[t]) /\ Aware(job[t])'
  <2> TAKE t \in Slots
  <2>1. job'[t] = job[t] /\ Mild(job[t]) /\ Aware(job[t])
    BY <1>1, <1>2 DEF AwareInv
  <2>2. Aware(job[t])'
    BY <1>2, <2>1 DEF Aware, OnRecord, Fails
  <2> QED
    BY <2>1, <2>2
<1> QED
  BY <1>1, <1>2, <1>3, <1>4 DEF AwareInv

\* The reaper takes a copy, and decides what to do with it.
LEMMA ReapAware ==
    ASSUME Undisturbed, TypeInv, AwareInv, DecideReap \/ \E m \in BagToSet(proc) : Reap(m)
    PROVE  AwareInv'
<1> USE DEF store, history
<1>j. job["reaper"] \in Job /\ Mild(job["reaper"])
  BY DEF TypeInv, JobsGood, Agents, Service, AwareInv
<1>1. ASSUME NEW m \in BagToSet(proc), Reap(m) PROVE AwareInv'
  <2> DEFINE k == [Idle EXCEPT !.pc = "reap", !.msg = m]
  <2>1. job' = [job EXCEPT !["reaper"] = k]
    BY <1>1 DEF Reap, Start
  <2>2. k.pc = "reap" /\ k.todo = <<>> /\ k.err = "none"
    BY DEF Idle
  <2> HIDE DEF k
  <2>3. Mild(k) /\ Repeats(k) /\ \A o : ~Fails(k, o)
    BY <2>2, DecidedCalls, SteadyCalls DEF Mild, Repeats, Fails, Harmless, Decided
  <2>4. UNCHANGED <<dock, submitted, lost, retry, up>>
    BY <1>1 DEF Reap
  <2> QED
    BY <2>1, <2>3, <2>4, ReaperAware
<1>2. CASE DecideReap
  <2> DEFINE m == job["reaper"].msg
  <2>1. PICK found \in Finding :
          /\ Look(m.oid, found)
          /\ Run("reaper",
                 CASE found = "hash"  -> <<"db1", "lrem", "dellock", "delenq">>
                   [] found = "table" -> <<"hset", "db1", "lrem", "dellock", "delenq">>
                   [] OTHER -> IF ResubmitOn /\ m.r + 1 < MaxAttempts
                               THEN <<"zadd", "delenq", "lrem", "dellock">>
                               ELSE ReapedOut)
    BY <1>2 DEF DecideReap
  <2>2. /\ submitted' = submitted
        /\ found = IF m.oid \in submitted THEN "hash" ELSE IF dock[m.oid] = "1" THEN "table" ELSE "nothing"
    BY <2>1, UndisturbedFaults DEF Look
  <2>3. PICK q : /\ Run("reaper", q) /\ Decided(q)
                 /\ Has(q, "hset") \/ Has(q, "db1") => OnRecord(m.oid)
                 /\ Has(q, "db2") => ~OnRecord(m.oid)
    <3>1. CASE found = "hash"
      <4>1. Run("reaper", <<"db1", "lrem", "dellock", "delenq">>)
        BY <2>1, <3>1
      <4>2. OnRecord(m.oid)
        BY <2>2, <3>1 DEF OnRecord
      <4> QED
        BY <4>1, <4>2, DecidedCalls
    <3>2. CASE found = "table"
      <4>1. Run("reaper", <<"hset", "db1", "lrem", "dellock", "delenq">>)
        BY <2>1, <3>2
      <4>2. OnRecord(m.oid)
        BY <2>2, <3>2 DEF OnRecord
      <4> QED
        BY <4>1, <4>2, DecidedCalls
    <3>3. CASE found = "nothing"
      <4>1. Run("reaper", ReapedOut)
        BY <2>1, <3>3 DEF Undisturbed
      <4>2. ~OnRecord(m.oid)
        BY <2>2, <3>3 DEF OnRecord
      <4> QED
        BY <4>1, <4>2, DecidedCalls
    <3> QED
      BY <3>1, <3>2, <3>3 DEF Finding
  <2> DEFINE k == [job["reaper"] EXCEPT !.pc = "run", !.todo = q]
  <2>4. job' = [job EXCEPT !["reaper"] = k]
    BY <2>3 DEF Run
  <2>5. k.pc = "run" /\ k.todo = q /\ k.msg = m /\ k.err = job["reaper"].err
    BY <1>j DEF Job
  <2> HIDE DEF k, m
  <2>6. Mild(k) /\ Repeats(k) /\ \A o : Fails(k, o) => ~OnRecord(o)
    BY <1>j, <2>3, <2>5 DEF Mild, Repeats, Fails
  <2>7. UNCHANGED <<dock, submitted, lost, retry, up>>
    BY <1>2, <2>2 DEF DecideReap
  <2> QED
    BY <2>4, <2>6, <2>7, ReaperAware
<1> QED
  BY <1>1, <1>2

\* A call of the reaper; the other loops make none.
LEMMA ReaperCallAware ==
    ASSUME TypeInv, AwareInv, NEW a \in Service, MakeCall(a) \/ CallFails(a) \/ CallUnanswered(a)
    PROVE  AwareInv'
<1>a. a = "reaper"
  <2>1. Running(a)
    BY DEF MakeCall, CallFails, CallUnanswered
  <2> QED
    BY <2>1 DEF Running, AwareInv, Service, Idle
<1> DEFINE j == job["reaper"]
           q == j.todo
           c == q[1]
           m == j.msg
<1>1. /\ Running("reaper") /\ j.pc \in {"run", "mend", "drop"} /\ q # <<>>
      /\ UNCHANGED up /\ Head(q) = c
  BY <1>a DEF MakeCall, CallFails, CallUnanswered, Running
<1>2. /\ "reaper" \in Agents /\ "reaper" \notin Slots
      /\ j \in Job /\ m.oid \in Orders /\ q \in Seq(Call) /\ Mild(j) /\ Repeats(j)
  BY <1>1, StoreAssumption DEF TypeInv, JobsGood, GoodJob, GoodCalls, Msg, Agents, Service, AwareInv
<1>3. /\ \A x : Has(Tail(q), x) => Has(q, x)
      /\ Has(q, c)
  BY <1>1, <1>2, HasTail
<1>4. c # "zadd" /\ c # "zback"
  BY <1>2, <1>3 DEF Mild, Decided
<1>5. Advance(j) = Idle \/ Advance(j) = [j EXCEPT !.todo = Tail(q)]
  BY DEF Advance
<1>6. AfterFailure("reaper") = Advance(j)
  BY <1>1, <1>2, <1>4 DEF AfterFailure
<1>7. PICK k : job' = [job EXCEPT !["reaper"] = k] /\ (k = Idle \/ k = [j EXCEPT !.todo = Tail(q)])
  BY <1>a, <1>5, <1>6 DEF MakeCall, CallFails, CallUnanswered
<1>8. \/ k.pc = "idle" /\ k.todo = <<>> /\ k.err = "none"
      \/ k.pc = j.pc /\ k.todo = Tail(q) /\ k.msg = m /\ k.err = j.err
  <2>1. Idle.pc = "idle" /\ Idle.todo = <<>> /\ Idle.err = "none"
    BY DEF Idle
  <2>2. \A p : /\ [j EXCEPT !.todo = p].pc = j.pc /\ [j EXCEPT !.todo = p].todo = p
              /\ [j EXCEPT !.todo = p].msg = m /\ [j EXCEPT !.todo = p].err = j.err
    BY <1>2 DEF Job
  <2> HIDE DEF j, q
  <2> QED
    BY <1>7, <2>1, <2>2
<1> HIDE DEF j, q, c, m
<1>d. j = job["reaper"] /\ q = j.todo /\ m = j.msg
  BY DEF j, q, m
<1>9. Mild(k)
  BY <1>1, <1>2, <1>3, <1>8, <1>d, DecidedCalls DEF Mild, Harmless, Decided
<1>10. \A o : Fails(k, o) => Fails(j, o)
  BY <1>3, <1>8, <1>d, SteadyCalls DEF Fails
<1>11. Has(k.todo, "hset") \/ Has(k.todo, "db1") =>
         k.msg = m /\ ~Has(q, "db2") /\ (m.oid \in lost \/ OnRecord(m.oid))
  BY <1>2, <1>3, <1>8, <1>d, SteadyCalls DEF Mild, Decided, Repeats
<1>12. CASE CallFails(a)
  <2>1. Repeats(k)
    BY <1>11 DEF Repeats
  <2>2. UNCHANGED <<dock, submitted, lost, retry, up>>
    BY <1>12 DEF CallFails
  <2> QED
    BY <1>7, <1>9, <1>10, <1>d, <2>1, <2>2, ReaperAware
<1>13. CASE MakeCall(a) \/ CallUnanswered(a)
  <2>1. Do("reaper", c, m)
    BY <1>a, <1>1, <1>13 DEF MakeCall, CallUnanswered, m, j, q
  <2>2. /\ dock' = [dock EXCEPT ![m.oid] = CASE c = "db1" -> "1" [] c = "db2" -> "2" [] OTHER -> @]
        /\ submitted' = IF c = "hset" THEN submitted \cup {m.oid} ELSE submitted
        /\ retry' = retry /\ lost \subseteq lost'
    BY <1>4, <2>1 DEF Do
  <2>3. dock \in [Orders -> {"0", "1", "2"}]
    BY DEF TypeInv, StoreOK
  <2>4. \A o \in Orders : o # m.oid => dock'[o] = dock[o] /\ (o \in submitted' <=> o \in submitted)
    BY <2>2, <2>3
  <2>5. dock'[m.oid] = CASE c = "db1" -> "1" [] c = "db2" -> "2" [] OTHER -> dock[m.oid]
    BY <1>2, <2>2, <2>3
  <2>6. /\ job'["reaper"] = k /\ \A b \in Agents : b # "reaper" => job'[b] = job[b]
        /\ Slots \subseteq Agents /\ {"retrier", "scanner", "rollback"} \subseteq Agents \ {"reaper"}
    BY <1>2, <1>7, StoreAssumption DEF TypeInv, JobsGood, Agents, Service
  <2>7. Repeats(job["reaper"])'
    <3> SUFFICES ASSUME Has(k.todo, "hset") \/ Has(k.todo, "db1"), m.oid \notin lost
                 PROVE  m.oid \in submitted' \/ dock'[m.oid] = "1"
      BY <1>11, <2>2, <2>6 DEF Repeats, OnRecord
    <3>1. c # "db2" /\ OnRecord(m.oid)
      BY <1>3, <1>11
    <3> QED
      BY <2>2, <2>5, <3>1 DEF OnRecord
\* It records an order that is on record, and marks one as failed that a
\* worker may have recorded meanwhile.
  <2>8. ASSUME NEW t \in Slots PROVE Aware(job[t])'
    <3>1. job'[t] = job[t] /\ Aware(job[t])
      BY <1>2, <2>6 DEF AwareInv
    <3> SUFFICES ASSUME job[t].pc # "idle", job[t].msg.oid \notin lost PROVE Aware(job[t])'
      BY <2>2, <3>1 DEF Aware
    <3>2. job[t].msg.oid \in Orders
      BY <2>6 DEF TypeInv, JobsGood, GoodJob, Msg
    <3>3. CASE job[t].msg.oid # m.oid
      <4>1. ~Fails(k, job[t].msg.oid) \/ Fails(j, job[t].msg.oid)
        BY <1>10
      <4> QED
        BY <2>4, <2>6, <3>1, <3>2, <3>3, <4>1, <1>d DEF Aware, OnRecord
    <3>4. CASE job[t].msg.oid = m.oid
      <4>1. Has(q, "hset") \/ Has(q, "db1") => OnRecord(m.oid) /\ ~Has(q, "db2")
        BY <1>2, <1>d, <3>4 DEF Repeats, Mild, Decided
      <4>2. Fails(k, m.oid) => Fails(j, m.oid)
        BY <1>10
      <4>3. Fails(j, m.oid) <=> Has(q, "db2")
        BY <1>d DEF Fails
      <4>4. c = "hset" \/ c = "db1" => OnRecord(m.oid) /\ ~Has(q, "db2")
        BY <1>3, <4>1
      <4>5. c = "db2" => Has(q, "db2")
        BY <1>3
      <4>6. CASE c = "hset" \/ c = "db1"
        BY <2>2, <2>5, <2>6, <3>1, <3>4, <4>2, <4>3, <4>4, <4>6, <1>d DEF Aware, OnRecord
      <4>7. CASE c = "db2"
        BY <2>2, <2>5, <2>6, <3>1, <3>4, <4>3, <4>5, <4>7, <1>d DEF Aware, OnRecord
      <4>8. CASE c \notin {"hset", "db1", "db2"}
        BY <2>2, <2>5, <2>6, <3>1, <3>4, <4>2, <4>8, <1>d DEF Aware, OnRecord
      <4> QED
        BY <4>6, <4>7, <4>8
    <3> QED
      BY <3>3, <3>4
  <2>9. \A t \in Slots : Mild(job'[t])
    BY <1>2, <2>6 DEF AwareInv
  <2>10. \A b \in {"retrier", "scanner", "rollback"} : job'[b] = job[b]
    BY <2>6
  <2> QED
    BY <1>1, <1>9, <2>2, <2>6, <2>7, <2>8, <2>9, <2>10 DEF AwareInv
<1> QED
  BY <1>12, <1>13

\* A step that leaves the jobs and the records alone; a lock may be lost.
LEMMA SameAware ==
    ASSUME AwareInv, UNCHANGED <<job, dock, submitted, retry, up>>, lost \subseteq lost'
    PROVE  AwareInv'
BY DEF AwareInv, Aware, Repeats, OnRecord, Fails

\* Every step.
LEMMA AwareStep ==
    ASSUME Undisturbed
    PROVE  TypeInv /\ HoldsLock /\ AwareInv /\ [Next]_vars => AwareInv'
<1> SUFFICES ASSUME TypeInv, HoldsLock, AwareInv, [Next]_vars PROVE AwareInv'
  OBVIOUS
<1>1. CASE UNCHANGED vars
  BY <1>1, SameAware DEF vars, store, control, history
<1>2. CASE WorkerNext
  <2>1. ASSUME NEW m, PopUnanswered(m) PROVE AwareInv'
    BY <2>1, SameAware DEF PopUnanswered, control
  <2>2. ASSUME NEW a \in Agents, MakeCall(a) \/ CallFails(a) \/ CallUnanswered(a) PROVE AwareInv'
    BY <2>2, SlotCallAware, ReaperCallAware DEF Agents
  <2> QED
    BY <1>2, <2>1, <2>2, ConsumerAware, PoolAware, RepairAware DEF WorkerNext
<1>3. CASE MaintenanceNext
  <2>1. ASSUME NEW f \in Feeders, NEW o \in Orders,
               \/ ReadToDo(f) \/ Mark(f, o) \/ Push(f, o) \/ PushFails(f, o)
               \/ MarkExpires(o) \/ LockExpires(o) \/ LockLost(o)
        PROVE  AwareInv'
    BY <2>1, SameAware DEF ReadToDo, Mark, Push, PushFails, MarkExpires, LockExpires, LockLost,
                           store, control, history
  <2>2. ASSUME NEW f \in Feeders, ReadToDo(f)
        PROVE  AwareInv'
    BY <2>2, SameAware DEF ReadToDo, store, history
  <2>3. /\ \A m \in retry : ~TakeDue(m)
        /\ ~DecideDue /\ ~Enqueue("retrier") /\ ~Enqueue("scanner")
        /\ \A m : ~TakeDead(m)
        /\ ~DecideDead /\ ~Reopen /\ ~Rescue
    <3>1. retry = {} /\ job["retrier"].pc = "idle" /\ job["scanner"].pc = "idle"
      BY DEF AwareInv, Idle
    <3>2. \A m : ~TakeDead(m)
      BY DEF TakeDead, Undisturbed
    <3> QED
      BY <3>1, <3>2 DEF DecideDue, Enqueue, DecideDead, Reopen, Rescue
  <2>4. (\A m : ~TakeRollback(m)) /\ ~DecideRollback /\ ~Shutdown /\ ~StartRollback /\ ~Exit
    BY UndisturbedFaults DEF AwareInv, TakeRollback, DecideRollback, Shutdown, StartRollback, Exit, Idle
  <2>5. CASE Crash
    <3>1. /\ up' = "up" /\ retry' = retry
          /\ \A a \in Agents : job'[a] = Idle
      BY <2>5 DEF Crash, Restart
    <3>2. Mild(Idle) /\ Idle.pc = "idle" /\ Idle.todo = <<>>
      BY DecidedCalls DEF Mild, Idle, Harmless, Decided
    <3>3. Slots \subseteq Agents /\ {"retrier", "scanner", "rollback", "reaper"} \subseteq Agents
      BY DEF Agents, Service
    <3>4. Repeats(job["reaper"])'
      BY <3>1, <3>2, <3>3, SteadyCalls DEF Repeats
    <3>5. \A t \in Slots : Mild(job'[t]) /\ Aware(job[t])'
      BY <3>1, <3>2, <3>3 DEF Aware
    <3> QED
      BY <3>1, <3>2, <3>3, <3>4, <3>5 DEF AwareInv
  <2>6. \E f : f \in Feeders
    BY DEF Feeders
  <2> QED
    BY <1>3, <2>1, <2>2, <2>3, <2>4, <2>5, <2>6, ReapAware DEF MaintenanceNext
<1> QED
  BY <1>1, <1>2, <1>3 DEF Next

\* An order recorded as submitted is not sent to the upstream again, for any
\* number of orders, workers and faults: whatever crashes, expires, is moved,
\* reaped early, or fails to be written, as long as the lookups work, consumers
\* are stopped by a crash only, and failed orders are not submitted again; unless
\* the order's lock was taken from a worker.
THEOREM SubmittedOnce ==
    ASSUME Undisturbed
    PROVE  Spec => NoSecondSubmit
<1> DEFINE Fresh == \A s \in Slots :
                      job[s].pc = "submit" /\ job'[s].pc = "calling" /\ job[s].msg.oid \notin lost
                      => job[s].msg.oid \notin submitted /\ dock[job[s].msg.oid] # "1"
<1>1. Init => AwareInv
  <2> SUFFICES ASSUME Init PROVE AwareInv
    OBVIOUS
  <2>1. Mild(Idle) /\ Repeats(Idle) /\ Aware(Idle)
    BY DecidedCalls, SteadyCalls DEF Mild, Repeats, Aware, Idle, Harmless, Decided
  <2> QED
    BY <2>1 DEF Init, AwareInv, Agents, Service
<1>2. TypeInv /\ HoldsLock /\ AwareInv /\ [Next]_vars => AwareInv'
  BY AwareStep
<1>3. AwareInv => Fresh
  BY DEF AwareInv, Aware, OnRecord
<1>4. Spec => [][Fresh]_vars
  BY <1>1, <1>2, <1>3, TypesKept, LocksHeld, PTL DEF Spec
<1> QED
  BY <1>4 DEF NoSecondSubmit

-----------------------------------------------------------------------------
(* The same with resubmission.                                             *)
(*                                                                         *)
(* When every call takes effect, an order is in submitted_orders before    *)
(* the table calls it submitted, so nobody makes up for a missing record,  *)
(* and only the worker that submitted an order records it.                 *)

\* Lookups and calls work, and no consumer is stopped but by a crash.
Effective == MaxFaults = 0 \/ {"read", "io", "scale", "shutdown"} \cap FaultKinds = {}

\* Between the lookup and the decision.
Unsent == {"checkdb", "dispatch", "submit", "calling", "failed"}

\* Job k writes the table only after submitted_orders.
Ledger(k) ==
    /\ k.pc = "found" => k.msg.oid \in submitted
    /\ k.pc = "drop" => ~Has(k.todo, "hset")
    /\ Has(k.todo, "db1") => k.msg.oid \in submitted \/ k.todo[1] = "hset"

\* What a slot with job k did not find is not there.
Unrecorded(k) == k.pc \in Unsent /\ k.msg.oid \notin lost => k.msg.oid \notin submitted

LedgerInv ==
    /\ up = "up" /\ job["rollback"] = Idle
    /\ \A o \in Orders : dock[o] = "1" => o \in submitted
    /\ \A a \in Agents : Ledger(job[a])
    /\ \A a \in Service : ~Has(job[a].todo, "hset")
    /\ \A s \in Slots : Unrecorded(job[s])

\* The faults that are left out do not happen.
LEMMA EffectiveFaults ==
    ASSUME Effective, TypeInv
    PROVE  ~Fault("read") /\ ~Fault("io") /\ ~Fault("scale") /\ ~Fault("shutdown")
BY NoFault DEF Effective, Fault

\* The sequences of calls of the handlers.
LEMMA LedgerCalls ==
    /\ \A q \in {Failed, Retried, <<"delenq", "lrem">>, <<"lrem", "delenq">>} : ~Has(Append(q, "release"), "db1")
    /\ Append(Succeeded, "release")[1] = "hset"
    /\ ~Has(<<"lrem">>, "hset") /\ ~Has(<<"lrem">>, "db1")
    /\ \A x : ~Has(<<>>, x)
<1>1. ASSUME NEW q \in Seq(Call), NEW c, c # "release"
      PROVE  Has(Append(q, "release"), c) <=> Has(q, c)
  <2> DEFINE p == Append(q, "release")
  <2>1. /\ Len(q) \in Nat /\ DOMAIN q = 1 .. Len(q) /\ DOMAIN p = 1 .. Len(q) + 1
        /\ \A i \in DOMAIN p : p[i] = IF i <= Len(q) THEN q[i] ELSE "release"
    OBVIOUS
  <2> HIDE DEF p
  <2>2. Has(p, c) <=> Has(q, c)
    BY <1>1, <2>1 DEF Has
  <2> QED
    BY <2>2 DEF p
<1>2. /\ Failed \in Seq(Call) /\ Retried \in Seq(Call)
      /\ <<"delenq", "lrem">> \in Seq(Call) /\ <<"lrem", "delenq">> \in Seq(Call)
  BY DEF Failed, Retried, Call
<1>3. \A q \in {Failed, Retried, <<"delenq", "lrem">>, <<"lrem", "delenq">>} : ~Has(q, "db1")
  BY DEF Has, Failed, Retried
<1>4. \A q \in {Failed, Retried, <<"delenq", "lrem">>, <<"lrem", "delenq">>} : ~Has(Append(q, "release"), "db1")
  BY <1>1, <1>2, <1>3
<1>5. Append(Succeeded, "release")[1] = "hset"
  BY DEF Succeeded
<1>6. ~Has(<<"lrem">>, "hset") /\ ~Has(<<"lrem">>, "db1") /\ \A x : ~Has(<<>>, x)
  BY DEF Has
<1> QED
  BY <1>4, <1>5, <1>6

\* The job of slot s becomes one at pc with the calls q for the same order.
Gets(s, pc, q) ==
    \E k : job' = [job EXCEPT ![s] = k] /\ k.pc = pc /\ k.msg = job[s].msg /\ k.todo = q

\* The forms of such a step.
LEMMA GetsForms ==
    ASSUME TypeInv, NEW s \in Slots
    PROVE  /\ \A pc : Become(s, pc) => Gets(s, pc, job[s].todo)
           /\ \A at : job' = [job EXCEPT ![s].at = at] => Gets(s, job[s].pc, job[s].todo)
           /\ \A pc, err : job' = [job EXCEPT ![s] = [@ EXCEPT !.pc = pc, !.err = err]]
                           => Gets(s, pc, job[s].todo)
           /\ \A pc, at : job' = [job EXCEPT ![s] = [@ EXCEPT !.pc = pc, !.at = at]]
                          => Gets(s, pc, job[s].todo)
           /\ \A pc, at, err : job' = [job EXCEPT ![s] = [@ EXCEPT !.pc = pc, !.at = at, !.err = err]]
                               => Gets(s, pc, job[s].todo)
           /\ \A q : /\ Finish(s, q) => Gets(s, "run", Append(q, "release"))
                     /\ Mend(s, q) => Gets(s, "mend", Append(q, "release"))
                     /\ job' = [job EXCEPT ![s] = [@ EXCEPT !.pc = "drop", !.todo = q]] => Gets(s, "drop", q)
                     /\ job' = [job EXCEPT ![s].todo = q] => Gets(s, job[s].pc, q)
<1>j. job[s] \in Job
  BY DEF TypeInv, JobsGood, Agents
<1> DEFINE Same(k, pc, q) == k.pc = pc /\ k.msg = job[s].msg /\ k.todo = q
<1>1. \A pc : Same([job[s] EXCEPT !.pc = pc], pc, job[s].todo)
  BY <1>j DEF Job
<1>2. \A at : Same([job[s] EXCEPT !.at = at], job[s].pc, job[s].todo)
  BY <1>j DEF Job
<1>3. \A pc, err : Same([job[s] EXCEPT !.pc = pc, !.err = err], pc, job[s].todo)
  BY <1>j DEF Job
<1>4. \A pc, at : Same([job[s] EXCEPT !.pc = pc, !.at = at], pc, job[s].todo)
  BY <1>j DEF Job
<1>5. \A pc, at, err : Same([job[s] EXCEPT !.pc = pc, !.at = at, !.err = err], pc, job[s].todo)
  BY <1>j DEF Job
<1>6. \A pc, q : Same([job[s] EXCEPT !.pc = pc, !.todo = q], pc, q)
  BY <1>j DEF Job
<1>7. \A q : Same([job[s] EXCEPT !.todo = q], job[s].pc, q)
  BY <1>j DEF Job
<1>8. \A k, pc, q : job' = [job EXCEPT ![s] = k] /\ Same(k, pc, q) => Gets(s, pc, q)
  BY DEF Gets
<1> HIDE DEF Same
<1> QED
  BY <1>1, <1>2, <1>3, <1>4, <1>5, <1>6, <1>7, <1>8 DEF Become, Finish, Mend

\* Agent a goes on with job k; nothing is recorded that was not.
LEMMA LedgerPut ==
    ASSUME TypeInv, LedgerInv, NEW a \in Agents \ {"rollback"}, NEW k, job' = [job EXCEPT ![a] = k],
           UNCHANGED <<submitted, up>>, lost \subseteq lost',
           \A o \in Orders : dock'[o] = "1" => o \in submitted,
           Ledger(k), a \in Service => ~Has(k.todo, "hset"), a \in Slots => Unrecorded(k)
    PROVE  LedgerInv'
<1>1. job'[a] = k /\ \A b \in Agents : b # a => job'[b] = job[b]
  BY DEF TypeInv, JobsGood
<1>2. Slots \subseteq Agents /\ Service \subseteq Agents /\ "rollback" \in Service
  BY DEF Agents, Service
<1>3. \A b \in Agents : Ledger(job'[b])
  BY <1>1 DEF LedgerInv
<1>4. \A b \in Agents : Ledger(job[b])'
  BY <1>3 DEF Ledger
<1>5. \A s \in Slots : Unrecorded(job'[s])
  BY <1>1, <1>2 DEF LedgerInv
<1>6. \A s \in Slots : Unrecorded(job[s])'
  BY <1>5 DEF Unrecorded
<1>7. \A b \in Service : ~Has(job'[b].todo, "hset")
  BY <1>1, <1>2 DEF LedgerInv
<1>8. job'["rollback"] = Idle
  BY <1>1, <1>2 DEF LedgerInv
<1> QED
  BY <1>4, <1>6, <1>7, <1>8 DEF LedgerInv

\* An idle agent, and one that has just started.
LEMMA LedgerStart ==
    ASSUME NEW m, NEW pc, pc \notin Unsent \cup {"found"}
    PROVE  /\ Ledger(Idle) /\ Unrecorded(Idle) /\ ~Has(Idle.todo, "hset")
           /\ LET k == [Idle EXCEPT !.pc = pc, !.at = "consumer", !.msg = m]
              IN  Ledger(k) /\ Unrecorded(k)
           /\ LET k == [Idle EXCEPT !.pc = pc, !.msg = m]
              IN  Ledger(k) /\ ~Has(k.todo, "hset")
BY LedgerCalls DEF Ledger, Unrecorded, Idle, Unsent

\* Slot s goes on.
LEMMA LedgerGets ==
    ASSUME TypeInv, LedgerInv, NEW s \in Slots, NEW pc, NEW q, Gets(s, pc, q),
           UNCHANGED <<submitted, up>>, lost \subseteq lost',
           \A o \in Orders : dock'[o] = "1" => o \in submitted,
           pc = "found" => job[s].msg.oid \in submitted,
           pc = "drop" => ~Has(q, "hset"),
           Has(q, "db1") => job[s].msg.oid \in submitted \/ q[1] = "hset",
           pc \in Unsent /\ job[s].msg.oid \notin lost => job[s].msg.oid \notin submitted
    PROVE  LedgerInv'
<1>1. PICK k : job' = [job EXCEPT ![s] = k] /\ k.pc = pc /\ k.msg = job[s].msg /\ k.todo = q
  BY DEF Gets
<1>2. Ledger(k) /\ Unrecorded(k)
  BY <1>1 DEF Ledger, Unrecorded
<1>3. s \in Agents \ {"rollback"} /\ s \notin Service
  BY StoreAssumption DEF Agents, Service
<1> QED
  BY <1>1, <1>2, <1>3, LedgerPut

\* It goes on with the calls it has left, and no nearer to the upstream than it
\* was.
LEMMA LedgerMoves ==
    ASSUME TypeInv, LedgerInv, NEW s \in Slots, NEW pc, Gets(s, pc, job[s].todo),
           UNCHANGED <<dock, submitted, up>>, lost \subseteq lost',
           \/ pc \notin Unsent \cup {"found", "drop"}
           \/ pc = job[s].pc
           \/ pc \in Unsent /\ job[s].pc \in Unsent
    PROVE  LedgerInv'
<1>1. Ledger(job[s]) /\ Unrecorded(job[s])
  BY DEF LedgerInv, Agents
<1>2. \A o \in Orders : dock'[o] = "1" => o \in submitted
  BY DEF LedgerInv
<1>3. pc = "found" => job[s].msg.oid \in submitted
  BY <1>1 DEF Ledger, Unsent
<1>4. pc = "drop" => ~Has(job[s].todo, "hset")
  BY <1>1 DEF Ledger, Unsent
<1>5. Has(job[s].todo, "db1") => job[s].msg.oid \in submitted \/ job[s].todo[1] = "hset"
  BY <1>1 DEF Ledger
<1>6. pc \in Unsent /\ job[s].msg.oid \notin lost => job[s].msg.oid \notin submitted
  BY <1>1 DEF Unrecorded
<1> QED
  BY <1>2, <1>3, <1>4, <1>5, <1>6, LedgerGets

\* It ends its work.
LEMMA LedgerEnds ==
    ASSUME TypeInv, LedgerInv, NEW s \in Slots,
           NEW q \in {Succeeded, Failed, Retried, <<"delenq", "lrem">>, <<"lrem", "delenq">>},
           Finish(s, q) \/ Mend(s, q),
           UNCHANGED <<submitted, up>>, lost \subseteq lost',
           \A o \in Orders : dock'[o] = "1" => o \in submitted
    PROVE  LedgerInv'
<1> DEFINE p == Append(q, "release")
<1>1. Gets(s, "run", p) \/ Gets(s, "mend", p)
  BY GetsForms
<1>2. Has(p, "db1") => p[1] = "hset"
  BY LedgerCalls
<1> HIDE DEF p
<1> QED
  BY <1>1, <1>2, LedgerGets DEF Unsent

\* The steps of the consumer.
LEMMA ConsumerLedger ==
    ASSUME Effective, TypeInv, LedgerInv, NEW s \in Slots,
           \/ \E m \in BagToSet(pending) : Pop(s, m) \/ PopOnly(s, m)
           \/ PushProcessing(s) \/ PushProcessingFails(s)
           \/ TakeLock(s) \/ LockBusy(s) \/ LockFails(s)
           \/ LookUp(s) \/ LookUpFails(s)
           \/ Repair(s) \/ RepairFindsNothing(s) \/ RepairFails(s)
           \/ CheckDB(s) \/ CheckDBFails(s) \/ ContextEnds(s)
           \/ Dispatch(s) \/ DispatchFull(s)
    PROVE  LedgerInv'
<1> USE DEF store, history
<1>0. \A o \in Orders : dock[o] = "1" => o \in submitted
  BY DEF LedgerInv
<1>a. s \in Agents \ {"rollback"} /\ s \notin Service
  BY StoreAssumption DEF Agents, Service
<1>l. Ledger(job[s]) /\ Unrecorded(job[s])
  BY <1>a DEF LedgerInv
<1>f. ~Fault("read") /\ ~Fault("io") /\ ~Fault("scale") /\ up = "up"
  BY EffectiveFaults DEF LedgerInv
<1>1. ASSUME NEW m \in BagToSet(pending), Pop(s, m) \/ PopOnly(s, m) PROVE LedgerInv'
  <2> DEFINE j(pc) == [Idle EXCEPT !.pc = pc, !.at = "consumer", !.msg = m]
  <2>1. \A pc \in {"popped", "moving"} : Ledger(j(pc)) /\ Unrecorded(j(pc))
    BY LedgerStart DEF Unsent
  <2>2. job' = [job EXCEPT ![s] = j("popped")] \/ job' = [job EXCEPT ![s] = j("moving")]
    BY <1>1 DEF Pop, PopOnly
  <2>3. UNCHANGED <<dock, submitted, up, lost>>
    BY <1>1 DEF Pop, PopOnly
  <2> HIDE DEF j
  <2> QED
    BY <1>0, <1>a, <2>1, <2>2, <2>3, LedgerPut
<1>2. CASE PushProcessing(s) \/ TakeLock(s)
  <2>1. Gets(s, "popped", job[s].todo) \/ Gets(s, "locked", job[s].todo)
    BY <1>2, GetsForms DEF PushProcessing, TakeLock
  <2>2. UNCHANGED <<dock, submitted, up, lost>>
    BY <1>2 DEF PushProcessing, TakeLock
  <2> QED
    BY <2>1, <2>2, LedgerMoves DEF Unsent
<1>3. ~PushProcessingFails(s) /\ ~LockFails(s) /\ ~LookUpFails(s) /\ ~RepairFails(s)
      /\ ~CheckDBFails(s) /\ ~ContextEnds(s)
  BY <1>f DEF PushProcessingFails, LockFails, LookUpFails, RepairFails, CheckDBFails, ContextEnds
<1>4. CASE LockBusy(s)
  <2>1. Gets(s, "drop", <<"lrem">>)
    BY <1>4, GetsForms DEF LockBusy
  <2>2. UNCHANGED <<dock, submitted, up, lost>>
    BY <1>4 DEF LockBusy
  <2> QED
    BY <1>0, <2>1, <2>2, LedgerGets, LedgerCalls DEF Unsent
<1>5. CASE LookUp(s)
  <2>1. \/ job[s].msg.oid \in submitted /\ Become(s, "found")
        \/ job[s].msg.oid \notin submitted /\ Become(s, "checkdb")
    BY <1>5 DEF LookUp
  <2>2. \/ job[s].msg.oid \in submitted /\ Gets(s, "found", job[s].todo)
        \/ job[s].msg.oid \notin submitted /\ Gets(s, "checkdb", job[s].todo)
    BY <2>1, GetsForms
  <2>3. UNCHANGED <<dock, submitted, up, lost>>
    BY <1>5 DEF LookUp
  <2>4. Has(job[s].todo, "db1") => job[s].msg.oid \in submitted \/ job[s].todo[1] = "hset"
    BY <1>l DEF Ledger
  <2> QED
    BY <1>0, <2>2, <2>3, <2>4, LedgerGets DEF Unsent
<1>6. CASE Repair(s)
  <2>1. job[s].msg.oid \in submitted
    BY <1>6, <1>l DEF Repair, Ledger
  <2>2. \A o \in Orders : dock'[o] = "1" => o \in submitted
    BY <1>0, <1>6, <2>1 DEF Repair, TypeInv, StoreOK
  <2>3. UNCHANGED <<submitted, up, lost>> /\ Mend(s, <<"delenq", "lrem">>)
    BY <1>6 DEF Repair
  <2> QED
    BY <2>2, <2>3, LedgerEnds
<1>7. CASE RepairFindsNothing(s)
  <2>1. UNCHANGED <<dock, submitted, up, lost>> /\ Mend(s, Failed)
    BY <1>7 DEF RepairFindsNothing
  <2> QED
    BY <1>0, <2>1, LedgerEnds
<1>8. CASE CheckDB(s)
  <2>1. UNCHANGED <<dock, submitted, up, lost>> /\ job[s].pc = "checkdb"
    BY <1>8 DEF CheckDB
  <2>2. Mend(s, Succeeded) \/ Gets(s, "dispatch", job[s].todo)
    BY <1>8, GetsForms DEF CheckDB
  <2>3. CASE Mend(s, Succeeded)
    BY <1>0, <2>1, <2>3, LedgerEnds
  <2>4. CASE Gets(s, "dispatch", job[s].todo)
    BY <2>1, <2>4, LedgerMoves DEF Unsent
  <2> QED
    BY <2>2, <2>3, <2>4
<1>9. CASE Dispatch(s) \/ DispatchFull(s)
  <2>1. UNCHANGED <<dock, submitted, up, lost>> /\ job[s].pc = "dispatch"
    BY <1>9 DEF Dispatch, DispatchFull
  <2>2. Gets(s, "submit", job[s].todo)
    BY <1>9, GetsForms DEF Dispatch, DispatchFull
  <2> QED
    BY <2>1, <2>2, LedgerMoves DEF Unsent
<1> QED
  BY <1>1, <1>2, <1>3, <1>4, <1>5, <1>6, <1>7, <1>8, <1>9

\* The steps of the pools, and of a consumer that submits by itself.
LEMMA PoolLedger ==
    ASSUME Effective, TypeInv, LedgerInv, NEW s \in Slots,
           \/ TakeSubmit(s) \/ LoadFails(s) \/ LoadCancelled(s)
           \/ CallUpstream(s) \/ Accepted(s) \/ Refused(s)
           \/ FailedButSubmitted(s) \/ FailedSubmit(s)
           \/ DispatchConfirm(s) \/ TakeConfirm(s) \/ Confirm(s) \/ ConfirmExpires(s)
    PROVE  LedgerInv'
<1> USE DEF store, history
<1>0. \A o \in Orders : dock[o] = "1" => o \in submitted
  BY DEF LedgerInv
<1>1. CASE TakeSubmit(s) \/ TakeConfirm(s)
  <2>1. UNCHANGED <<dock, submitted, up, lost>>
    BY <1>1 DEF TakeSubmit, TakeConfirm
  <2>2. Gets(s, job[s].pc, job[s].todo)
    BY <1>1, GetsForms DEF TakeSubmit, TakeConfirm
  <2> QED
    BY <2>1, <2>2, LedgerMoves
<1>2. CASE LoadFails(s) \/ CallUpstream(s) \/ Refused(s)
  <2>1. UNCHANGED <<dock, submitted, up, lost>> /\ job[s].pc \in Unsent
    BY <1>2 DEF LoadFails, CallUpstream, Refused, Try, Unsent
  <2>2. Gets(s, "failed", job[s].todo) \/ Gets(s, "calling", job[s].todo)
    BY <1>2, GetsForms DEF LoadFails, CallUpstream, Refused
  <2> QED
    BY <2>1, <2>2, LedgerMoves DEF Unsent
<1>3. CASE LoadCancelled(s) \/ DispatchConfirm(s)
  <2>1. UNCHANGED <<dock, submitted, up, lost>>
    BY <1>3 DEF LoadCancelled, DispatchConfirm
  <2>2. Gets(s, "cancelled", job[s].todo) \/ Gets(s, "confirm", job[s].todo)
    BY <1>3, GetsForms DEF LoadCancelled, DispatchConfirm
  <2> QED
    BY <2>1, <2>2, LedgerMoves DEF Unsent
<1>4. CASE Accepted(s) \/ FailedButSubmitted(s) \/ FailedSubmit(s)
  <2>1. UNCHANGED <<dock, submitted, up, lost>>
    BY <1>4 DEF Accepted, FailedButSubmitted, FailedSubmit
  <2>2. \E q \in {Succeeded, Failed, Retried} : Finish(s, q)
    BY <1>4 DEF Accepted, FailedButSubmitted, FailedSubmit
  <2> QED
    BY <1>0, <2>1, <2>2, LedgerEnds
<1>5. CASE Confirm(s)
  <2>1. PICK found \in Finding :
          /\ Look(job[s].msg.oid, found)
          /\ Finish(s, CASE found = "hash"  -> <<"lrem", "delenq">>
                         [] found = "table" -> Succeeded
                         [] OTHER -> IF RetryOnTimeout /\ MayRetry(s) THEN Retried ELSE Failed)
    BY <1>5 DEF Confirm
  <2>2. \E q \in {<<"lrem", "delenq">>, Succeeded, Retried, Failed} : Finish(s, q)
    BY <2>1
  <2>3. UNCHANGED submitted
    BY <2>1, EffectiveFaults DEF Look
  <2>4. UNCHANGED <<dock, up, lost>>
    BY <1>5 DEF Confirm
  <2> QED
    BY <1>0, <2>2, <2>3, <2>4, LedgerEnds
<1>6. CASE ConfirmExpires(s)
  <2>1. UNCHANGED <<dock, submitted, up, lost>> /\ job[s].pc = "run"
    BY <1>6 DEF ConfirmExpires
  <2>2. Gets(s, "run", <<"release">>)
    BY <1>6, GetsForms DEF ConfirmExpires
  <2>3. ~Has(<<"release">>, "db1")
    BY DEF Has
  <2> QED
    BY <1>0, <2>1, <2>2, <2>3, LedgerGets DEF Unsent
<1> QED
  BY <1>1, <1>2, <1>3, <1>4, <1>5, <1>6

\* A call.
LEMMA CallLedger ==
    ASSUME TypeInv, HoldsLock, LedgerInv, NEW a \in Agents, MakeCall(a)
    PROVE  LedgerInv'
<1> DEFINE j == job[a]
           q == j.todo
           c == q[1]
           m == j.msg
<1>1. Running(a) /\ j.pc \in {"run", "mend", "drop"} /\ q # <<>> /\ UNCHANGED up /\ Head(q) = c
  BY DEF MakeCall, Running
<1>2. j \in Job /\ m.oid \in Orders /\ q \in Seq(Call) /\ Ledger(j)
  BY <1>1 DEF TypeInv, JobsGood, GoodJob, GoodCalls, Msg, LedgerInv
<1>3. /\ \A x : Has(Tail(q), x) => Has(q, x)
      /\ Has(q, c)
  BY <1>1, <1>2, HasTail
<1>4. PICK k : job' = [job EXCEPT ![a] = k] /\ (k = Idle \/ k = [j EXCEPT !.todo = Tail(q)])
  BY DEF MakeCall, Advance
<1>5. \/ k.pc = "idle" /\ k.todo = <<>>
      \/ k.pc = j.pc /\ k.todo = Tail(q) /\ k.msg = m
  <2>1. Idle.pc = "idle" /\ Idle.todo = <<>>
    BY DEF Idle
  <2>2. \A p : /\ [j EXCEPT !.todo = p].pc = j.pc /\ [j EXCEPT !.todo = p].todo = p
               /\ [j EXCEPT !.todo = p].msg = m
    BY <1>2 DEF Job
  <2> HIDE DEF j, q
  <2> QED
    BY <1>4, <2>1, <2>2
<1>6. Do(a, c, m)
  BY <1>1 DEF MakeCall
<1>7. /\ dock' = [dock EXCEPT ![m.oid] = CASE c = "db1" -> "1" [] c = "db2" -> "2" [] OTHER -> @]
      /\ submitted' = IF c = "hset" THEN submitted \cup {m.oid} ELSE submitted
      /\ lost \subseteq lost'
  BY <1>6 DEF Do
<1>8. dock \in [Orders -> {"0", "1", "2"}]
  BY DEF TypeInv, StoreOK
<1>9. job'[a] = k /\ \A b \in Agents : b # a => job'[b] = job[b]
  BY <1>4 DEF TypeInv, JobsGood
<1>10. a # "rollback"
  <2>1. job["rollback"].pc = "idle"
    BY DEF LedgerInv, Idle
  <2> QED
    BY <1>1, <2>1
<1>11. a \in Service => c # "hset"
  BY <1>3 DEF LedgerInv
<1>d. m = job[a].msg /\ j = job[a]
  BY DEF m, j
<1>h. Has(q, "db1") => m.oid \in submitted \/ c = "hset"
  BY <1>2 DEF Ledger
<1>n. j.pc = "drop" => ~Has(q, "hset")
  BY <1>2 DEF Ledger
<1>q. a \in Service => ~Has(q, "hset")
  BY DEF LedgerInv
<1> HIDE DEF c, q, j, m
<1>12. \A o \in Orders : dock'[o] = "1" => o \in submitted'
  <2>1. \A o \in Orders : dock[o] = "1" => o \in submitted
    BY DEF LedgerInv
  <2>2. c = "db1" => m.oid \in submitted
    BY <1>3, <1>h
  <2> QED
    BY <1>2, <1>7, <1>8, <2>1, <2>2
<1>13. \A b \in Agents : Ledger(job[b])'
  <2> TAKE b \in Agents
  <2>1. CASE b # a
    <3>1. Ledger(job[b]) /\ job'[b] = job[b] /\ submitted \subseteq submitted'
      BY <1>7, <1>9, <2>1 DEF LedgerInv
    <3> QED
      BY <3>1 DEF Ledger
  <2>2. CASE b = a
    <3>1. k.pc # "found"
      BY <1>1, <1>5
    <3>2. k.pc = "drop" => ~Has(k.todo, "hset")
      BY <1>3, <1>5, <1>n
    <3>3. Has(k.todo, "db1") => k.msg.oid \in submitted'
      BY <1>3, <1>5, <1>7, <1>h, LedgerCalls
    <3> QED
      BY <1>9, <2>2, <3>1, <3>2, <3>3 DEF Ledger
  <2> QED
    BY <2>1, <2>2
<1>14. \A b \in Service : ~Has(job'[b].todo, "hset")
  <2> TAKE b \in Service
  <2>1. b \in Agents
    BY DEF Agents
  <2>2. CASE b # a
    BY <1>9, <2>1, <2>2 DEF LedgerInv
  <2>3. CASE b = a
    BY <1>3, <1>5, <1>9, <1>q, <2>3, LedgerCalls
  <2> QED
    BY <2>2, <2>3
<1>15. \A s \in Slots : Unrecorded(job[s])'
  <2> SUFFICES ASSUME NEW s \in Slots, job'[s].pc \in Unsent, job'[s].msg.oid \notin lost'
               PROVE  job'[s].msg.oid \notin submitted'
    BY DEF Unrecorded
  <2>1. s \in Agents
    BY DEF Agents
  <2>2. s # a
    BY <1>1, <1>5, <1>9 DEF Unsent
  <2>3. job'[s] = job[s] /\ job[s].msg.oid \notin lost /\ job[s].pc \in Unsent
    BY <1>7, <1>9, <2>1, <2>2
  <2>4. job[s].msg.oid \notin submitted
    BY <2>3 DEF LedgerInv, Unrecorded
  <2>5. CASE c = "hset" /\ job[s].msg.oid = m.oid
    <3>1. a \in Slots
      BY <1>11, <2>5 DEF Agents
    <3>2. Holds(a) /\ Holds(s)
      BY <1>1, <1>3, <1>n, <1>d, <2>3, <2>5 DEF Holds, Unsent
    <3> QED
      BY <3>1, <3>2, <1>d, <2>2, <2>3, <2>5 DEF HoldsLock
  <2> QED
    BY <1>7, <2>3, <2>4, <2>5
<1>16. job'["rollback"] = Idle
  BY <1>9, <1>10 DEF LedgerInv, Agents, Service
<1> QED
  BY <1>1, <1>12, <1>13, <1>14, <1>15, <1>16 DEF LedgerInv

\* What a loop finds of an order: what is in the table is in submitted_orders.
LEMMA LedgerLook ==
    ASSUME Effective, TypeInv, LedgerInv, NEW o \in Orders, NEW found, Look(o, found)
    PROVE  /\ submitted' = submitted
           /\ found = "hash" => o \in submitted
           /\ found # "table"
BY EffectiveFaults DEF Look, LedgerInv

\* A maintenance loop is not a worker, and not the rollback.
LEMMA LoopAgents ==
    ASSUME TypeInv, NEW a \in Service \ {"rollback"}
    PROVE  a \in Agents \ {"rollback"} /\ a \notin Slots /\ job[a] \in Job
BY StoreAssumption DEF TypeInv, JobsGood, Agents

\* A maintenance loop decides on calls that do not record an order, or repeat
\* its record.
LEMMA RunLedger ==
    ASSUME TypeInv, LedgerInv, NEW a \in Service \ {"rollback"}, NEW q, Run(a, q),
           ~Has(q, "hset"), Has(q, "db1") => job[a].msg.oid \in submitted,
           UNCHANGED <<dock, submitted, up, lost>>
    PROVE  LedgerInv'
<1> DEFINE k == [job[a] EXCEPT !.pc = "run", !.todo = q]
<1>1. k.pc = "run" /\ k.todo = q /\ k.msg = job[a].msg
  BY LoopAgents DEF Job
<1>2. job' = [job EXCEPT ![a] = k]
  BY DEF Run
<1> HIDE DEF k
<1>3. Ledger(k) /\ ~Has(k.todo, "hset")
  BY <1>1 DEF Ledger
<1>4. \A o \in Orders : dock'[o] = "1" => o \in submitted
  BY DEF LedgerInv
<1> QED
  BY <1>2, <1>3, <1>4, LoopAgents, LedgerPut

\* It decides to go on with its message.
Waits(a, pc) == job' = [job EXCEPT ![a].pc = pc]

\* Such a step keeps the invariant.
LEMMA WaitLedger ==
    ASSUME TypeInv, LedgerInv, NEW a \in Service \ {"rollback"}, NEW pc,
           Waits(a, pc), pc \notin {"found", "drop"},
           UNCHANGED <<submitted, up, lost>>,
           \A o \in Orders : dock'[o] = "1" => o \in submitted
    PROVE  LedgerInv'
<1> DEFINE k == [job[a] EXCEPT !.pc = pc]
<1>1. k.pc = pc /\ k.todo = job[a].todo /\ k.msg = job[a].msg
  BY LoopAgents DEF Job
<1>2. job' = [job EXCEPT ![a] = k]
  BY DEF Waits
<1> HIDE DEF k
<1>3. Ledger(job[a]) /\ ~Has(job[a].todo, "hset")
  BY LoopAgents DEF LedgerInv
<1>4. Ledger(k) /\ ~Has(k.todo, "hset")
  BY <1>1, <1>3 DEF Ledger
<1> QED
  BY <1>2, <1>4, LoopAgents, LedgerPut

\* It starts on message m.
LEMMA StartLedger ==
    ASSUME TypeInv, LedgerInv, NEW a \in Service \ {"rollback"}, NEW pc, NEW m, Start(a, pc, m),
           pc \in {"due", "reap", "dead", "enqueue"},
           UNCHANGED <<dock, submitted, up, lost>>
    PROVE  LedgerInv'
<1> DEFINE k == [Idle EXCEPT !.pc = pc, !.msg = m]
<1>1. Ledger(k) /\ ~Has(k.todo, "hset")
  BY LedgerStart DEF Unsent
<1>2. job' = [job EXCEPT ![a] = k]
  BY DEF Start
<1> HIDE DEF k
<1>3. \A o \in Orders : dock'[o] = "1" => o \in submitted
  BY DEF LedgerInv
<1> QED
  BY <1>1, <1>2, <1>3, LoopAgents, LedgerPut

\* A loop that stops.
LEMMA StopLedger ==
    ASSUME TypeInv, LedgerInv, NEW a \in Service \ {"rollback"}, job' = [job EXCEPT ![a] = Idle],
           UNCHANGED <<dock, submitted, up>>, lost \subseteq lost'
    PROVE  LedgerInv'
<1>1. a \in Agents \ {"rollback"} /\ a \notin Slots
  BY StoreAssumption DEF Agents
<1>2. Ledger(Idle) /\ ~Has(Idle.todo, "hset")
  BY LedgerCalls DEF Ledger, Idle
<1>3. \A o \in Orders : dock'[o] = "1" => o \in submitted
  BY DEF LedgerInv
<1> QED
  BY <1>1, <1>2, <1>3, LedgerPut

\* The retrier, the reaper and the scanner.
LEMMA LoopLedger ==
    ASSUME Effective, TypeInv, LedgerInv,
           \/ \E m : TakeDue(m) \/ Reap(m) \/ TakeRollback(m) \/ TakeDead(m)
           \/ DecideDue \/ Enqueue("retrier") \/ Enqueue("scanner")
           \/ DecideReap \/ DecideRollback \/ DecideDead \/ Reopen \/ Rescue
    PROVE  LedgerInv'
<1> USE DEF store, history
<1>0. /\ \A o \in Orders : dock[o] = "1" => o \in submitted
      /\ {"retrier", "scanner", "reaper"} \subseteq Service \ {"rollback"}
  BY DEF LedgerInv, Service
<1>r. up = "up" /\ job["rollback"].pc = "idle"
  BY DEF LedgerInv, Idle
<1>c. /\ \A x : ~Has(<<>>, x)
      /\ \A q \in {<<"db1">>, <<"push">>, <<"zback">>, <<"dlqrem", "db1">>, ReapedOut,
                   <<"db1", "lrem", "dellock", "delenq">>, <<"zadd", "delenq", "lrem", "dellock">>} :
           ~Has(q, "hset")
      /\ \A q \in {<<"push">>, <<"zback">>, ReapedOut, <<"zadd", "delenq", "lrem", "dellock">>} :
           ~Has(q, "db1")
  BY DEF Has, ReapedOut
<1>g. \A a \in Service : job[a].pc # "idle" => job[a].msg.oid \in Orders
  BY DEF TypeInv, JobsGood, GoodJob, Msg, Agents
<1>1. ASSUME NEW m, TakeDue(m) \/ Reap(m) \/ TakeDead(m) PROVE LedgerInv'
  <2>1. UNCHANGED <<dock, submitted, up, lost>>
    BY <1>1 DEF TakeDue, Reap, TakeDead
  <2>2. Start("retrier", "due", m) \/ Start("reaper", "reap", m) \/ Start("scanner", "dead", m)
    BY <1>1 DEF TakeDue, Reap, TakeDead
  <2> QED
    BY <1>0, <2>1, <2>2, StartLedger
<1>2. \A m : ~TakeRollback(m) /\ ~DecideRollback
  BY <1>r DEF TakeRollback, DecideRollback
<1>3. CASE DecideDue
  <2>1. job["retrier"].msg.oid \in Orders
    BY <1>0, <1>3, <1>g DEF DecideDue
  <2>2. PICK found \in Finding :
          /\ Look(job["retrier"].msg.oid, found)
          /\ CASE found = "hash"  -> Run("retrier", <<"db1">>)
               [] found = "table" -> Run("retrier", <<"hset", "db1">>)
               [] OTHER           -> job' = [job EXCEPT !["retrier"].pc = "enqueue"]
    BY <1>3 DEF DecideDue
  <2>3. UNCHANGED <<dock, submitted, up, lost>>
    BY <1>3, <2>1, <2>2, LedgerLook DEF DecideDue
  <2>4. \/ Run("retrier", <<"db1">>) /\ job["retrier"].msg.oid \in submitted
        \/ job' = [job EXCEPT !["retrier"].pc = "enqueue"]
    BY <2>1, <2>2, LedgerLook
  <2>5. CASE Run("retrier", <<"db1">>) /\ job["retrier"].msg.oid \in submitted
    BY <1>0, <1>c, <2>3, <2>5, RunLedger
  <2>6. CASE job' = [job EXCEPT !["retrier"].pc = "enqueue"]
    <3>1. Waits("retrier", "enqueue") /\ \A o \in Orders : dock'[o] = "1" => o \in submitted
      BY <1>0, <2>3, <2>6 DEF Waits
    <3> QED
      BY <1>0, <2>3, <3>1, WaitLedger
  <2> QED
    BY <2>4, <2>5, <2>6
<1>4. ASSUME NEW a \in {"retrier", "scanner"}, Enqueue(a) PROVE LedgerInv'
  <2>1. UNCHANGED <<dock, submitted, up, lost>>
    BY <1>4 DEF Enqueue
  <2>2. Run(a, <<"push">>) \/ Run(a, <<"zback">>) \/ job' = [job EXCEPT ![a] = Idle]
    BY <1>4 DEF Enqueue
  <2>3. CASE Run(a, <<"push">>) \/ Run(a, <<"zback">>)
    BY <1>0, <1>c, <2>1, <2>3, RunLedger
  <2>4. CASE job' = [job EXCEPT ![a] = Idle]
    BY <1>0, <2>1, <2>4, StopLedger
  <2> QED
    BY <2>2, <2>3, <2>4
<1>5. CASE DecideReap
  <2> DEFINE m == job["reaper"].msg
  <2>1. m.oid \in Orders
    BY <1>0, <1>5, <1>g DEF DecideReap
  <2>2. PICK found \in Finding :
          /\ Look(m.oid, found)
          /\ Run("reaper",
                 CASE found = "hash"  -> <<"db1", "lrem", "dellock", "delenq">>
                   [] found = "table" -> <<"hset", "db1", "lrem", "dellock", "delenq">>
                   [] OTHER -> IF ResubmitOn /\ m.r + 1 < MaxAttempts
                               THEN <<"zadd", "delenq", "lrem", "dellock">>
                               ELSE ReapedOut)
    BY <1>5 DEF DecideReap
  <2>3. submitted' = submitted /\ (found = "hash" => m.oid \in submitted) /\ found # "table"
    BY <2>1, <2>2, LedgerLook
  <2>4. UNCHANGED <<dock, submitted, up, lost>>
    BY <1>5, <2>3 DEF DecideReap
  <2>5. \/ Run("reaper", <<"db1", "lrem", "dellock", "delenq">>) /\ m.oid \in submitted
        \/ Run("reaper", <<"zadd", "delenq", "lrem", "dellock">>)
        \/ Run("reaper", ReapedOut)
    BY <2>2, <2>3
  <2>6. CASE Run("reaper", <<"db1", "lrem", "dellock", "delenq">>) /\ m.oid \in submitted
    BY <1>0, <1>c, <2>4, <2>6, RunLedger
  <2>7. CASE Run("reaper", <<"zadd", "delenq", "lrem", "dellock">>) \/ Run("reaper", ReapedOut)
    BY <1>0, <1>c, <2>4, <2>7, RunLedger
  <2> QED
    BY <2>5, <2>6, <2>7
<1>6. CASE DecideDead
  <2>1. job["scanner"].msg.oid \in Orders
    BY <1>0, <1>6, <1>g DEF DecideDead
  <2>2. PICK found \in Finding :
          /\ Look(job["scanner"].msg.oid, found)
          /\ CASE found = "hash"  -> Run("scanner", <<"dlqrem", "db1">>)
               [] found = "table" -> Run("scanner", <<"dlqrem", "hset", "db1">>)
               [] OTHER           -> job' = [job EXCEPT !["scanner"].pc = "reopen"]
    BY <1>6 DEF DecideDead
  <2>3. UNCHANGED <<dock, submitted, up, lost>>
    BY <1>6, <2>1, <2>2, LedgerLook DEF DecideDead
  <2>4. \/ Run("scanner", <<"dlqrem", "db1">>) /\ job["scanner"].msg.oid \in submitted
        \/ job' = [job EXCEPT !["scanner"].pc = "reopen"]
    BY <2>1, <2>2, LedgerLook
  <2>5. CASE Run("scanner", <<"dlqrem", "db1">>) /\ job["scanner"].msg.oid \in submitted
    BY <1>0, <1>c, <2>3, <2>5, RunLedger
  <2>6. CASE job' = [job EXCEPT !["scanner"].pc = "reopen"]
    <3>1. Waits("scanner", "reopen") /\ \A o \in Orders : dock'[o] = "1" => o \in submitted
      BY <1>0, <2>3, <2>6 DEF Waits
    <3> QED
      BY <1>0, <2>3, <3>1, WaitLedger
  <2> QED
    BY <2>4, <2>5, <2>6
<1>7. CASE Reopen
  <2>1. UNCHANGED <<submitted, up, lost>>
    BY <1>7 DEF Reopen
  <2>2. \/ /\ job' = [job EXCEPT !["scanner"].pc = "rescue"]
           /\ dock' = [dock EXCEPT ![job["scanner"].msg.oid] = "0"]
        \/ job' = [job EXCEPT !["scanner"] = Idle] /\ UNCHANGED dock
    BY <1>7 DEF Reopen
  <2>3. CASE job' = [job EXCEPT !["scanner"] = Idle] /\ UNCHANGED dock
    BY <1>0, <2>1, <2>3, StopLedger
  <2>4. CASE /\ job' = [job EXCEPT !["scanner"].pc = "rescue"]
             /\ dock' = [dock EXCEPT ![job["scanner"].msg.oid] = "0"]
    <3>1. \A o \in Orders : dock'[o] = "1" => o \in submitted
      BY <1>0, <2>4 DEF TypeInv, StoreOK
    <3>2. Waits("scanner", "rescue")
      BY <2>4 DEF Waits
    <3> QED
      BY <1>0, <2>1, <3>1, <3>2, WaitLedger
  <2> QED
    BY <2>2, <2>3, <2>4
<1>8. CASE Rescue
  <2>1. UNCHANGED <<dock, submitted, up, lost>>
    BY <1>8 DEF Rescue
  <2>2. \E m : Start("scanner", "enqueue", m)
    BY <1>8 DEF Rescue
  <2> QED
    BY <1>0, <2>1, <2>2, StartLedger
<1> QED
  BY <1>1, <1>2, <1>3, <1>4, <1>5, <1>6, <1>7, <1>8

\* A step that leaves the jobs and the records alone; a lock may be lost.
LEMMA SameLedger ==
    ASSUME LedgerInv, UNCHANGED <<job, dock, submitted, up>>, lost \subseteq lost'
    PROVE  LedgerInv'
BY DEF LedgerInv, Ledger, Unrecorded

\* Every step.
LEMMA LedgerStep ==
    ASSUME Effective
    PROVE  TypeInv /\ HoldsLock /\ LedgerInv /\ [Next]_vars => LedgerInv'
<1> SUFFICES ASSUME TypeInv, HoldsLock, LedgerInv, [Next]_vars PROVE LedgerInv'
  OBVIOUS
<1>f. ~Fault("io") /\ ~Fault("shutdown") /\ up = "up"
  BY EffectiveFaults DEF LedgerInv
<1>1. CASE UNCHANGED vars
  BY <1>1, SameLedger DEF vars, store, control, history
<1>2. CASE WorkerNext
  <2>1. ASSUME NEW m, PopUnanswered(m) PROVE LedgerInv'
    BY <2>1, SameLedger DEF PopUnanswered, control
  <2>2. \A a : ~CallFails(a) /\ ~CallUnanswered(a)
    BY <1>f DEF CallFails, CallUnanswered
  <2> QED
    BY <1>2, <2>1, <2>2, ConsumerLedger, PoolLedger, CallLedger DEF WorkerNext
<1>3. CASE MaintenanceNext
  <2>1. ASSUME NEW f \in Feeders, NEW o \in Orders,
               \/ Mark(f, o) \/ Push(f, o) \/ PushFails(f, o)
               \/ MarkExpires(o) \/ LockExpires(o) \/ LockLost(o)
        PROVE  LedgerInv'
    BY <2>1, SameLedger DEF Mark, Push, PushFails, MarkExpires, LockExpires, LockLost,
                            store, control, history
  <2>2. ASSUME NEW f \in Feeders, ReadToDo(f)
        PROVE  LedgerInv'
    BY <2>2, SameLedger DEF ReadToDo, store, history
  <2>3. ~Shutdown /\ ~StartRollback /\ ~Exit
    BY <1>f DEF Shutdown, StartRollback, Exit
  <2>4. CASE Crash
    <3>1. up' = "up" /\ UNCHANGED <<dock, submitted>> /\ \A a \in Agents : job'[a] = Idle
      BY <2>4 DEF Crash, Restart
    <3>2. Slots \subseteq Agents /\ Service \subseteq Agents /\ "rollback" \in Service
      BY DEF Agents, Service
    <3>3. Idle.pc = "idle" /\ \A x : ~Has(Idle.todo, x)
      BY LedgerCalls DEF Idle
    <3> QED
      BY <3>1, <3>2, <3>3 DEF LedgerInv, Ledger, Unrecorded, Unsent
  <2>5. \E f : f \in Feeders
    BY DEF Feeders
  <2> QED
    BY <1>3, <2>1, <2>2, <2>3, <2>4, <2>5, LoopLedger DEF MaintenanceNext
<1> QED
  BY <1>1, <1>2, <1>3 DEF Next

\* An order recorded as submitted is not sent to the upstream again, with
\* resubmission and the scan of the dead letter queue switched on or off: a retry
\* waits for the order's lock like any other copy, and whoever held the lock has
\* recorded the order by then or not submitted it.  The process may crash, locks
\* and marks expire, copies get stranded, and the reaper be early any number of
\* times, as long as every call takes effect and no consumer is stopped alone;
\* unless the order's lock was taken from a worker.
THEOREM RetriedOnce ==
    ASSUME Effective
    PROVE  Spec => NoSecondSubmit
<1> DEFINE Fresh == \A s \in Slots :
                      job[s].pc = "submit" /\ job'[s].pc = "calling" /\ job[s].msg.oid \notin lost
                      => job[s].msg.oid \notin submitted /\ dock[job[s].msg.oid] # "1"
<1>1. Init => LedgerInv
  <2> SUFFICES ASSUME Init PROVE LedgerInv
    OBVIOUS
  <2>1. Idle.pc = "idle" /\ \A x : ~Has(Idle.todo, x)
    BY LedgerCalls DEF Idle
  <2> QED
    BY <2>1 DEF Init, LedgerInv, Ledger, Unrecorded, Unsent, Agents, Service
<1>2. TypeInv /\ HoldsLock /\ LedgerInv /\ [Next]_vars => LedgerInv'
  BY LedgerStep
<1>3. TypeInv /\ LedgerInv => Fresh
  <2> SUFFICES ASSUME TypeInv, LedgerInv, NEW s \in Slots, job[s].pc = "submit", job[s].msg.oid \notin lost
               PROVE  job[s].msg.oid \notin submitted /\ dock[job[s].msg.oid] # "1"
    OBVIOUS
  <2>1. job[s].msg.oid \in Orders
    BY DEF TypeInv, JobsGood, GoodJob, Agents, Msg
  <2>2. job[s].msg.oid \notin submitted
    BY DEF LedgerInv, Unrecorded, Unsent
  <2> QED
    BY <2>1, <2>2 DEF LedgerInv
<1>4. Spec => [][Fresh]_vars
  BY <1>1, <1>2, <1>3, TypesKept, LocksHeld, PTL DEF Spec
<1> QED
  BY <1>4 DEF NoSecondSubmit

=============================================================================
