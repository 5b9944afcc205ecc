-------------------------- MODULE OrderQueue_proofs --------------------------
(***************************************************************************)
(* Type correctness of OrderQueue, and at most one worker at an order, for *)
(* any number of orders, messages, consumers, pool workers, attempts and   *)
(* faults; and, without faults, one worker for each copy in the processing *)
(* list.                                                                   *)
(*                                                                         *)
(* The types alone are not inductive: scheduleOrderRetry counts the        *)
(* attempt when it makes its call, long after the comparison with          *)
(* max_attempts. GoodJob adds what an agent knows while it has calls left. *)
(*                                                                         *)
(* OneWorker says nothing of the lock, so it is not inductive: the lock is *)
(* what a second worker runs into.  HoldsLock says who has it.  OwnInv     *)
(* says that a job has at most one call left that removes its copy.        *)
(***************************************************************************)
EXTENDS OrderQueue, FiniteSetTheorems, TLAPS

-----------------------------------------------------------------------------
(* Lists and jobs.                                                         *)

\* BagAdd of a message keeps a list a list of messages (LPUSH, RPUSH).
LEMMA ListAdd ==
    ASSUME NEW B, IsListOf(B), NEW m \in Msg
    PROVE  IsListOf(Lists!BagAdd(B, m))
<1>1. CASE m \in DOMAIN B
  BY <1>1 DEF IsListOf, IsABag, Lists!BagAdd
<1>2. CASE m \notin DOMAIN B
  BY <1>2 DEF IsListOf, IsABag, Lists!BagAdd
<1> QED
  BY <1>1, <1>2

\* So does BagRemove, of a copy that is there or of one that is not (LREM, BLMOVE).
LEMMA ListRemove ==
    ASSUME NEW B, IsListOf(B), NEW m
    PROVE  IsListOf(Lists!BagRemove(B, m))
<1>1. CASE m \in DOMAIN B /\ B[m] = 1
  BY <1>1 DEF IsListOf, IsABag, Lists!BagRemove
<1>2. CASE m \in DOMAIN B /\ B[m] # 1
  BY <1>2 DEF IsListOf, IsABag, Lists!BagRemove
<1>3. CASE m \notin DOMAIN B
  BY <1>3 DEF IsListOf, IsABag, Lists!BagRemove
<1> QED
  BY <1>1, <1>2, <1>3

\* What BLMOVE, LRANGE or the reaper finds in a list is a message.
LEMMA ListMember ==
    ASSUME NEW B, IsListOf(B), NEW m, BagIn(m, B) \/ m \in BagToSet(B)
    PROVE  m \in Msg
BY DEF IsListOf, IsABag, BagIn, BagToSet

\* The lists start empty.
LEMMA ListEmpty == IsListOf(EmptyBag)
BY DEF IsListOf, IsABag, EmptyBag, SetToBag

\* A sequence of calls for message m: Release comes last, and the message is
\* scheduled again only when it has an attempt left.
GoodCalls(q, m) ==
    /\ q \in Seq(Call)
    /\ \A i \in DOMAIN q : q[i] = "release" => i = Len(q)
    /\ \A i \in DOMAIN q : q[i] = "zadd" => m.r + 1 < MaxAttempts

\* The same without Release.
Plain(q, m) == GoodCalls(q, m) /\ \A i \in DOMAIN q : q[i] # "release"

\* A job of the right type that has a message unless it is idle.
GoodJob(j) ==
    /\ j \in Job
    /\ j.pc # "idle" => j.msg \in Msg
    /\ GoodCalls(j.todo, j.msg)

\* An agent that does nothing is well-formed.
LEMMA IdleGood == GoodJob(Idle)
BY DEF Idle, GoodJob, GoodCalls, Job, PC, Place

\* So is an agent that starts on message m.
LEMMA StartGood ==
    ASSUME NEW m \in Msg, NEW pc \in PC, NEW at \in Place \cup {"none"}
    PROVE  /\ GoodJob([Idle EXCEPT !.pc = pc, !.at = at, !.msg = m])
           /\ GoodJob([Idle EXCEPT !.pc = pc, !.msg = m])
<1>1. GoodCalls(<<>>, m)
  BY DEF GoodCalls
<1>2. /\ [Idle EXCEPT !.pc = pc, !.at = at, !.msg = m] \in Job
      /\ [Idle EXCEPT !.pc = pc, !.msg = m] \in Job
  BY IdleGood DEF GoodJob, Job
<1>3. /\ [Idle EXCEPT !.pc = pc, !.at = at, !.msg = m].msg = m
      /\ [Idle EXCEPT !.pc = pc, !.msg = m].msg = m
      /\ [Idle EXCEPT !.pc = pc, !.at = at, !.msg = m].todo = <<>>
      /\ [Idle EXCEPT !.pc = pc, !.msg = m].todo = <<>>
  BY DEF Idle
<1>4. \A k \in Job : k.msg = m /\ k.todo = <<>> => GoodJob(k)
  BY <1>1 DEF GoodJob
<1> QED
  BY <1>2, <1>3, <1>4

\* Finish adds Release at the end of a plain sequence.
LEMMA AppendGood ==
    ASSUME NEW m, NEW q, Plain(q, m)
    PROVE  GoodCalls(Append(q, "release"), m)
<1> DEFINE p == Append(q, "release")
<1>1. Len(q) \in Nat /\ DOMAIN q = 1 .. Len(q)
  BY DEF Plain, GoodCalls
<1>2. p \in Seq(Call) /\ Len(p) = Len(q) + 1 /\ DOMAIN p = 1 .. Len(q) + 1
  BY DEF Plain, GoodCalls, Call
<1>3. \A i \in DOMAIN p : p[i] = IF i <= Len(q) THEN q[i] ELSE "release"
  BY DEF Plain, GoodCalls
<1> HIDE DEF p
<1>4. GoodCalls(p, m)
  BY <1>1, <1>2, <1>3 DEF Plain, GoodCalls
<1> QED
  BY <1>4 DEF p

\* A sequence stays good when its first call has been made.
LEMMA TailGood ==
    ASSUME NEW m, NEW q, GoodCalls(q, m), q # <<>>
    PROVE  GoodCalls(Tail(q), m)
<1> DEFINE p == Tail(q)
<1>1. Len(q) \in Nat /\ DOMAIN q = 1 .. Len(q)
  BY DEF GoodCalls
<1>2. /\ p \in Seq(Call)
      /\ Len(p) = Len(q) - 1
      /\ DOMAIN p = 1 .. Len(q) - 1
      /\ \A i \in 1 .. Len(q) - 1 : p[i] = q[i + 1]
  BY DEF GoodCalls
<1> HIDE DEF p
<1>3. \A i \in DOMAIN p : i + 1 \in DOMAIN q /\ p[i] = q[i + 1]
  BY <1>1, <1>2
<1>4. \A i \in DOMAIN p : p[i] = "release" => i = Len(p)
  BY <1>1, <1>2, <1>3 DEF GoodCalls
<1>5. \A i \in DOMAIN p : p[i] = "zadd" => m.r + 1 < MaxAttempts
  BY <1>3 DEF GoodCalls
<1>6. GoodCalls(p, m)
  BY <1>2, <1>4, <1>5 DEF GoodCalls
<1> QED
  BY <1>6 DEF p

\* A well-formed job given other good calls is well-formed.
LEMMA TodoGood ==
    ASSUME NEW j, GoodJob(j), NEW q, GoodCalls(q, j.msg)
    PROVE  GoodJob([j EXCEPT !.todo = q])
<1>1. q \in Seq(Call)
  BY DEF GoodCalls
<1>2. [j EXCEPT !.todo = q] \in Job
  BY <1>1 DEF GoodJob, Job
<1>3. /\ [j EXCEPT !.todo = q].pc = j.pc
      /\ [j EXCEPT !.todo = q].msg = j.msg
      /\ [j EXCEPT !.todo = q].todo = q
  BY DEF GoodJob, Job
<1> QED
  BY <1>2, <1>3 DEF GoodJob

\* A job that starts on its calls is well-formed.
LEMMA RunGood ==
    ASSUME NEW j, GoodJob(j), j.pc # "idle", NEW q, GoodCalls(q, j.msg), NEW pc \in {"run", "mend", "drop"}
    PROVE  GoodJob([j EXCEPT !.pc = pc, !.todo = q])
<1> DEFINE k == [j EXCEPT !.pc = pc, !.todo = q]
<1>1. q \in Seq(Call)
  BY DEF GoodCalls
<1>2. k \in Job
  BY <1>1 DEF GoodJob, Job, PC
<1>3. k.pc = pc /\ k.msg = j.msg /\ k.todo = q
  BY DEF GoodJob, Job
<1> QED
  BY <1>2, <1>3 DEF GoodJob

\* A job with its first call made is well-formed.
LEMMA AdvanceGood ==
    ASSUME NEW j, GoodJob(j), j.todo # <<>>
    PROVE  GoodJob(Advance(j))
<1>1. CASE Len(j.todo) = 1
  BY <1>1, IdleGood DEF Advance
<1>2. CASE Len(j.todo) # 1
  BY <1>2, TailGood, TodoGood DEF Advance, GoodJob
<1> QED
  BY <1>1, <1>2

\* The sequences of calls of the handlers are good for every message; those that
\* schedule it again, for one that has an attempt left (shouldRetrySubmitFailure).
LEMMA HandlersGood ==
    ASSUME NEW m
    PROVE  /\ Plain(Succeeded, m) /\ Plain(Failed, m) /\ Plain(ReapedOut, m)
           /\ Plain(<<"delenq", "lrem">>, m) /\ Plain(<<"lrem", "delenq">>, m)
           /\ Plain(<<>>, m) /\ Plain(<<"lrem">>, m) /\ Plain(<<"push">>, m) /\ Plain(<<"push", "lrem">>, m)
           /\ Plain(<<"delenq">>, m) /\ Plain(<<"zback">>, m) /\ Plain(<<"delenq", "zback">>, m)
           /\ Plain(<<"db1">>, m) /\ Plain(<<"hset", "db1">>, m)
           /\ Plain(<<"dlqrem", "db1">>, m) /\ Plain(<<"dlqrem", "hset", "db1">>, m)
           /\ Plain(<<"lrem", "dellock", "delenq">>, m)
           /\ Plain(<<"db1", "lrem", "dellock", "delenq">>, m)
           /\ Plain(<<"hset", "db1", "lrem", "dellock", "delenq">>, m)
           /\ m.r + 1 < MaxAttempts =>
                /\ Plain(Retried, m)
                /\ Plain(<<"zadd", "delenq", "lrem", "dellock">>, m)
BY DEF Plain, GoodCalls, Call, Succeeded, Failed, ReapedOut, Retried

\* What an agent does after a failed call is well-formed, too.
LEMMA AfterFailureGood ==
    ASSUME NEW a \in Agents, GoodJob(job[a]), Running(a)
    PROVE  GoodJob(AfterFailure(a))
<1>1. GoodCalls(Append(Failed, "release"), job[a].msg)
  BY HandlersGood, AppendGood
<1>2. /\ GoodCalls(ReapedOut, job[a].msg)
      /\ GoodCalls(<<"delenq">>, job[a].msg)
      /\ GoodCalls(<<"delenq", "zback">>, job[a].msg)
  BY HandlersGood DEF Plain
<1>3. /\ GoodJob([job[a] EXCEPT !.todo = Append(Failed, "release")])
      /\ GoodJob([job[a] EXCEPT !.todo = ReapedOut])
      /\ GoodJob([job[a] EXCEPT !.todo = <<"delenq">>])
      /\ GoodJob([job[a] EXCEPT !.todo = <<"delenq", "zback">>])
  BY <1>1, <1>2, TodoGood
<1>4. GoodJob(Advance(job[a]))
  BY AdvanceGood DEF Running
<1> QED
  BY <1>3, <1>4, IdleGood DEF AfterFailure

-----------------------------------------------------------------------------
(* Steps of the agents.                                                    *)

\* All agents.
JobsGood == job \in [Agents -> Job] /\ \A a \in Agents : GoodJob(job[a])

\* The agents stay well-formed when one of them gets a well-formed job.
LEMMA PutGood ==
    ASSUME JobsGood, NEW a \in Agents, NEW k, GoodJob(k), job' = [job EXCEPT ![a] = k]
    PROVE  JobsGood'
BY DEF JobsGood, GoodJob

\* The forms of a step of one agent: it goes on ...
LEMMA BecomeGood ==
    ASSUME JobsGood, NEW s \in Agents, job[s].pc # "idle", NEW pc \in PC \ {"idle"},
           job' = [job EXCEPT ![s].pc = pc]
    PROVE  JobsGood'
<1>1. GoodJob([job[s] EXCEPT !.pc = pc])
  BY DEF JobsGood, GoodJob, Job
<1> QED
  BY <1>1, PutGood

\* ... it is taken up by another goroutine ...
LEMMA PlaceGood ==
    ASSUME JobsGood, NEW s \in Agents, NEW at \in Place, job' = [job EXCEPT ![s].at = at]
    PROVE  JobsGood'
<1>1. GoodJob([job[s] EXCEPT !.at = at])
  BY DEF JobsGood, GoodJob, Job
<1> QED
  BY <1>1, PutGood

\* ... both ...
LEMMA MoveGood ==
    ASSUME JobsGood, NEW s \in Agents, job[s].pc # "idle", NEW pc \in PC \ {"idle"}, NEW at \in Place,
           job' = [job EXCEPT ![s] = [@ EXCEPT !.pc = pc, !.at = at]]
    PROVE  JobsGood'
<1>1. GoodJob([job[s] EXCEPT !.pc = pc, !.at = at])
  BY DEF JobsGood, GoodJob, Job
<1> QED
  BY <1>1, PutGood

\* ... it goes on with an error ...
LEMMA ErrorGood ==
    ASSUME JobsGood, NEW s \in Agents, job[s].pc # "idle", NEW pc \in PC \ {"idle"},
           NEW err \in {"none", "final", "transient", "timeout", "cancelled"},
           job' = [job EXCEPT ![s] = [@ EXCEPT !.pc = pc, !.err = err]]
    PROVE  JobsGood'
<1>1. GoodJob([job[s] EXCEPT !.pc = pc, !.err = err])
  BY DEF JobsGood, GoodJob, Job
<1> QED
  BY <1>1, PutGood

\* ... or it starts on its calls.
LEMMA RunStepGood ==
    ASSUME JobsGood, NEW s \in Agents, job[s].pc # "idle", NEW q, Plain(q, job[s].msg),
           \/ Finish(s, q) \/ Mend(s, q)
           \/ \E pc \in {"run", "mend", "drop"} : job' = [job EXCEPT ![s] = [@ EXCEPT !.pc = pc, !.todo = q]]
    PROVE  JobsGood'
<1>1. GoodJob(job[s])
  BY DEF JobsGood
<1>2. GoodCalls(q, job[s].msg) /\ GoodCalls(Append(q, "release"), job[s].msg)
  BY AppendGood DEF Plain
<1>3. CASE Finish(s, q) \/ Mend(s, q)
  BY <1>1, <1>2, <1>3, RunGood, PutGood DEF Finish, Mend
<1>4. ASSUME NEW pc \in {"run", "mend", "drop"}, job' = [job EXCEPT ![s] = [@ EXCEPT !.pc = pc, !.todo = q]]
      PROVE  JobsGood'
  BY <1>1, <1>2, <1>4, RunGood, PutGood
<1> QED
  BY <1>3, <1>4

-----------------------------------------------------------------------------
(* The steps keep the types.                                               *)

\* The rest of the state.
StoreOK ==
    /\ dock \in [Orders -> {"0", "1", "2"}]
    /\ submitted \subseteq Orders
    /\ enq \subseteq Orders
    /\ lock \in [Orders -> Slots \cup {Nobody, Orphan}]
    /\ IsListOf(pending) /\ IsListOf(proc) /\ IsListOf(dlq)
    /\ retry \subseteq Msg
    /\ feed \in [Feeders -> [Orders -> {"none", "read", "marked"}]]
    /\ up \in {"up", "stopping", "rollback"}
    /\ acked \subseteq Orders
    /\ tries \in [Orders -> 0 .. MaxTries]
    /\ lost \subseteq Orders
    /\ faults \in 0 .. MaxFaults

TypeInv == StoreOK /\ JobsGood

\* Faults are counted up to their bound.
LEMMA FaultCounted ==
    ASSUME faults \in 0 .. MaxFaults, NEW kind, Fault(kind)
    PROVE  faults' \in 0 .. MaxFaults
BY StoreAssumption DEF Fault

\* A look at an order keeps the types, also when it fails.
LEMMA LookTypes ==
    ASSUME StoreOK, NEW o \in Orders, NEW found, Look(o, found)
    PROVE  submitted' \subseteq Orders /\ faults' \in 0 .. MaxFaults
BY FaultCounted DEF Look, StoreOK

\* The steps of the consumer keep the types.
LEMMA ConsumerTypes ==
    ASSUME TypeInv, NEW s \in Slots,
           \/ \E m \in BagToSet(pending) : Pop(s, m) \/ PopOnly(s, m)
           \/ PushProcessing(s) \/ PushProcessingFails(s)
           \/ TakeLock(s) \/ LockBusy(s) \/ LockFails(s)
           \/ LookUp(s) \/ LookUpFails(s)
           \/ Repair(s) \/ RepairFindsNothing(s) \/ RepairFails(s)
           \/ CheckDB(s) \/ CheckDBFails(s) \/ ContextEnds(s)
           \/ Dispatch(s) \/ DispatchFull(s)
    PROVE  TypeInv'
<1> USE StoreAssumption DEF Agents, store, history
<1>m. /\ job \in [Agents -> Job] /\ GoodJob(job[s])
      /\ job[s].pc # "idle" => job[s].msg \in Msg /\ job[s].msg.oid \in Orders
  BY DEF TypeInv, JobsGood, GoodJob, Msg
<1>q. /\ Plain(<<"lrem">>, job[s].msg) /\ Plain(<<"push", "lrem">>, job[s].msg)
      /\ Plain(<<"delenq", "lrem">>, job[s].msg) /\ Plain(<<>>, job[s].msg)
      /\ Plain(Failed, job[s].msg) /\ Plain(Succeeded, job[s].msg)
  BY HandlersGood
<1>1. ASSUME NEW m \in BagToSet(pending), Pop(s, m) \/ PopOnly(s, m)
      PROVE  TypeInv'
  <2>1. m \in Msg /\ IsListOf(Lists!BagRemove(pending, m)) /\ IsListOf(Lists!BagAdd(proc, m))
    BY <1>1, ListMember, ListRemove, ListAdd DEF TypeInv, StoreOK
  <2>2. StoreOK'
    <3>1. CASE Pop(s, m)
      BY <3>1, <2>1 DEF Pop, TypeInv, StoreOK
    <3>2. CASE PopOnly(s, m)
      <4>1. faults' \in 0 .. MaxFaults
        BY <3>2, FaultCounted DEF PopOnly, TypeInv, StoreOK
      <4> QED
        BY <3>2, <2>1, <4>1 DEF PopOnly, TypeInv, StoreOK
    <3> QED
      BY <1>1, <3>1, <3>2
  <2>3. \A pc \in {"popped", "moving"} :
          GoodJob([Idle EXCEPT !.pc = pc, !.at = "consumer", !.msg = m])
    BY <2>1, StartGood DEF PC, Place
  <2>4. JobsGood'
    <3>1. PICK pc \in {"popped", "moving"} :
            job' = [job EXCEPT ![s] = [Idle EXCEPT !.pc = pc, !.at = "consumer", !.msg = m]]
      BY <1>1 DEF Pop, PopOnly
    <3> QED
      BY <2>3, <3>1, PutGood DEF TypeInv
  <2> QED
    BY <2>2, <2>4 DEF TypeInv
<1>2. CASE PushProcessing(s)
  <2>1. IsListOf(Lists!BagAdd(proc, job[s].msg))
    BY <1>2, <1>m, ListAdd DEF PushProcessing, TypeInv, StoreOK
  <2>2. StoreOK'
    BY <1>2, <2>1 DEF PushProcessing, TypeInv, StoreOK
  <2>3. JobsGood'
    BY <1>2, BecomeGood DEF PushProcessing, Become, TypeInv, PC
  <2> QED
    BY <2>2, <2>3 DEF TypeInv
<1>3. CASE PushProcessingFails(s)
  <2>1. IsListOf(Lists!BagAdd(pending, job[s].msg))
    BY <1>3, <1>m, ListAdd DEF PushProcessingFails, TypeInv, StoreOK
  <2>2. StoreOK'
    BY <1>3, <2>1 DEF PushProcessingFails, Fault, TypeInv, StoreOK
  <2>3. JobsGood'
    BY <1>3, IdleGood, PutGood DEF PushProcessingFails, TypeInv
  <2> QED
    BY <2>2, <2>3 DEF TypeInv
<1>4. CASE TakeLock(s)
  <2>1. StoreOK'
    BY <1>4, <1>m DEF TakeLock, TypeInv, StoreOK
  <2>2. JobsGood'
    BY <1>4, BecomeGood DEF TakeLock, Become, TypeInv, PC
  <2> QED
    BY <2>1, <2>2 DEF TypeInv
<1>5. CASE LockBusy(s) \/ LockFails(s)
  <2>1. StoreOK'
    BY <1>5 DEF LockBusy, LockFails, Fault, TypeInv, StoreOK
  <2>2. JobsGood'
    BY <1>5, <1>q, RunStepGood, IdleGood, PutGood DEF LockBusy, LockFails, TypeInv
  <2> QED
    BY <2>1, <2>2 DEF TypeInv
<1>6. CASE Repair(s) \/ RepairFindsNothing(s) \/ RepairFails(s)
  <2>1. StoreOK'
    BY <1>6, <1>m DEF Repair, RepairFindsNothing, RepairFails, Fault, TypeInv, StoreOK
  <2>2. JobsGood'
    BY <1>6, <1>q, RunStepGood DEF Repair, RepairFindsNothing, RepairFails, TypeInv
  <2> QED
    BY <2>1, <2>2 DEF TypeInv
<1>7. CASE LookUp(s) \/ LookUpFails(s)
  <2>1. job[s].pc # "idle"
    BY <1>7 DEF LookUp, LookUpFails
  <2>2. faults' \in 0 .. MaxFaults /\ submitted' \subseteq Orders
    BY <1>7, <2>1, <1>m, FaultCounted DEF LookUp, LookUpFails, TypeInv, StoreOK
  <2>3. StoreOK'
    BY <1>7, <2>2 DEF LookUp, LookUpFails, TypeInv, StoreOK
  <2>4. PICK pc \in {"found", "checkdb"} : Become(s, pc)
    BY <1>7 DEF LookUp, LookUpFails
  <2>5. JobsGood'
    BY <2>1, <2>4, BecomeGood DEF Become, TypeInv, PC
  <2> QED
    BY <2>3, <2>5 DEF TypeInv
<1>8. CASE CheckDB(s) \/ CheckDBFails(s)
  <2>1. job[s].pc # "idle"
    BY <1>8 DEF CheckDB, CheckDBFails
  <2>2. faults' \in 0 .. MaxFaults
    BY <1>8, FaultCounted DEF CheckDB, CheckDBFails, TypeInv, StoreOK
  <2>3. StoreOK'
    BY <1>8, <2>2 DEF CheckDB, CheckDBFails, TypeInv, StoreOK
  <2>4. Mend(s, Succeeded) \/ Become(s, "dispatch")
    BY <1>8 DEF CheckDB, CheckDBFails
  <2>5. JobsGood'
    BY <2>1, <2>4, <1>q, RunStepGood, BecomeGood DEF Become, TypeInv, PC
  <2> QED
    BY <2>3, <2>5 DEF TypeInv
<1>9. CASE ContextEnds(s)
  <2>1. faults' \in 0 .. MaxFaults
    BY <1>9, FaultCounted DEF ContextEnds, TypeInv, StoreOK
  <2>2. StoreOK'
    BY <1>9, <2>1 DEF ContextEnds, TypeInv, StoreOK
  <2>3. job[s].pc # "idle"
    BY <1>9 DEF ContextEnds
  <2>4. \/ job' = [job EXCEPT ![s] = Idle]
        \/ Mend(s, <<>>)
        \/ job' = [job EXCEPT ![s] = [@ EXCEPT !.pc = "dispatch", !.err = "cancelled"]]
        \/ job' = [job EXCEPT ![s].err = "cancelled"]
    BY <1>9 DEF ContextEnds
  <2>5. GoodJob([job[s] EXCEPT !.err = "cancelled"])
    BY <1>m DEF GoodJob, Job
  <2>6. JobsGood'
    <3>1. CASE job' = [job EXCEPT ![s] = Idle]
      BY <3>1, IdleGood, PutGood DEF TypeInv
    <3>2. CASE Mend(s, <<>>)
      BY <3>2, <2>3, <1>q, RunStepGood DEF TypeInv
    <3>3. CASE job' = [job EXCEPT ![s] = [@ EXCEPT !.pc = "dispatch", !.err = "cancelled"]]
      BY <3>3, <2>3, ErrorGood DEF TypeInv, PC
    <3>4. CASE job' = [job EXCEPT ![s].err = "cancelled"]
      BY <3>4, <2>5, PutGood DEF TypeInv
    <3> QED
      BY <2>4, <3>1, <3>2, <3>3, <3>4
  <2> QED
    BY <2>2, <2>6 DEF TypeInv
<1>10. CASE Dispatch(s) \/ DispatchFull(s)
  <2>1. StoreOK' /\ job[s].pc # "idle"
    BY <1>10 DEF Dispatch, DispatchFull, TypeInv, StoreOK
  <2>2. GoodJob([job[s] EXCEPT !.pc = "submit", !.at = "submitq", !.err = "none"])
    BY <2>1, <1>m DEF GoodJob, Job, PC, Place
  <2>3. CASE Dispatch(s)
    <3>1. JobsGood'
      BY <2>2, <2>3, PutGood DEF Dispatch, TypeInv
    <3> QED
      BY <2>1, <3>1 DEF TypeInv
  <2>4. CASE DispatchFull(s)
    <3>1. JobsGood'
      BY <2>1, <2>4, BecomeGood DEF DispatchFull, Become, TypeInv, PC
    <3> QED
      BY <2>1, <3>1 DEF TypeInv
  <2> QED
    BY <1>10, <2>3, <2>4
<1> QED
  BY <1>1, <1>2, <1>3, <1>4, <1>5, <1>6, <1>7, <1>8, <1>9, <1>10

\* The steps of the submit pool and the confirm pool keep the types.
LEMMA PoolTypes ==
    ASSUME TypeInv, NEW s \in Slots,
           \/ TakeSubmit(s) \/ LoadFails(s) \/ LoadCancelled(s)
           \/ CallUpstream(s) \/ Accepted(s) \/ Refused(s)
           \/ FailedButSubmitted(s) \/ FailedSubmit(s)
           \/ DispatchConfirm(s) \/ TakeConfirm(s) \/ Confirm(s) \/ ConfirmExpires(s)
    PROVE  TypeInv'
<1> USE DEF Agents, store, history
<1>m. /\ job \in [Agents -> Job] /\ GoodJob(job[s]) /\ JobsGood
      /\ job[s].pc # "idle" => job[s].msg \in Msg /\ job[s].msg.oid \in Orders
  BY DEF TypeInv, JobsGood, GoodJob, Msg
<1>q. /\ Plain(<<"lrem", "delenq">>, job[s].msg)
      /\ Plain(Failed, job[s].msg) /\ Plain(Succeeded, job[s].msg)
      /\ MayRetry(s) => Plain(Retried, job[s].msg)
  BY HandlersGood DEF MayRetry
<1>p. {"failed", "cancelled", "calling", "confirm", "run"} \subseteq PC \ {"idle"}
  BY DEF PC
<1>1. CASE TakeSubmit(s) \/ TakeConfirm(s)
  <2>1. StoreOK'
    BY <1>1 DEF TakeSubmit, TakeConfirm, TypeInv, StoreOK
  <2>2. PICK at \in Place : job' = [job EXCEPT ![s].at = at]
    BY <1>1 DEF TakeSubmit, TakeConfirm, Place
  <2>3. JobsGood'
    BY <1>m, <2>2, PlaceGood
  <2> QED
    BY <2>1, <2>3 DEF TypeInv
<1>2. CASE LoadFails(s) \/ LoadCancelled(s) \/ CallUpstream(s)
  <2>1. Try(s) /\ job[s].pc # "idle"
    BY <1>2 DEF LoadFails, LoadCancelled, CallUpstream, Try
  <2>2. tries' \in [Orders -> 0 .. MaxTries]
    BY <2>1, <1>m, StoreAssumption DEF Try, TypeInv, StoreOK
  <2>3. faults' \in 0 .. MaxFaults
    BY <1>2, FaultCounted DEF LoadFails, LoadCancelled, CallUpstream, TypeInv, StoreOK
  <2>4. StoreOK'
    <3>1. CASE LoadFails(s)
      BY <3>1, <2>2, <2>3 DEF LoadFails, TypeInv, StoreOK
    <3>2. CASE LoadCancelled(s)
      BY <3>2, <2>2, <2>3 DEF LoadCancelled, TypeInv, StoreOK
    <3>3. CASE CallUpstream(s)
      BY <3>3, <2>2, <2>3 DEF CallUpstream, TypeInv, StoreOK
    <3> QED
      BY <1>2, <3>1, <3>2, <3>3
  <2>5. CallUpstream(s) => JobsGood'
    BY <2>1, <1>m, <1>p, BecomeGood DEF CallUpstream, Become
  <2>6. ASSUME LoadFails(s) PROVE JobsGood'
    <3>1. PICK err \in {"none", "final", "transient", "timeout", "cancelled"} :
            job' = [job EXCEPT ![s] = [@ EXCEPT !.pc = "failed", !.err = err]]
      BY <2>6 DEF LoadFails
    <3> QED
      BY <3>1, <2>1, <1>m, <1>p, ErrorGood
  <2>7. LoadCancelled(s) => JobsGood'
    BY <2>1, <1>m, <1>p, BecomeGood DEF LoadCancelled, Become
  <2> QED
    BY <1>2, <2>4, <2>5, <2>6, <2>7 DEF TypeInv
<1>3. CASE Refused(s)
  <2>1. StoreOK'
    BY <1>3 DEF Refused, TypeInv, StoreOK
  <2>2. PICK err \in {"none", "final", "transient", "timeout", "cancelled"} :
          job' = [job EXCEPT ![s] = [@ EXCEPT !.pc = "failed", !.err = err]]
    BY <1>3 DEF Refused
  <2>3. JobsGood'
    BY <1>3, <2>2, <1>m, <1>p, ErrorGood DEF Refused
  <2> QED
    BY <2>1, <2>3 DEF TypeInv
<1>4. CASE Accepted(s) \/ FailedButSubmitted(s) \/ FailedSubmit(s) \/ Confirm(s)
  <2>1. job[s].pc # "idle"
    BY <1>4 DEF Accepted, FailedButSubmitted, FailedSubmit, Confirm
  <2>2. StoreOK'
    <3>1. CASE Accepted(s) \/ FailedButSubmitted(s) \/ FailedSubmit(s)
      BY <3>1, <2>1, <1>m DEF Accepted, FailedButSubmitted, FailedSubmit, TypeInv, StoreOK
    <3>2. CASE Confirm(s)
      <4>1. submitted' \subseteq Orders /\ faults' \in 0 .. MaxFaults
        BY <3>2, <2>1, <1>m, LookTypes DEF Confirm, TypeInv
      <4> QED
        BY <3>2, <4>1 DEF Confirm, TypeInv, StoreOK
    <3> QED
      BY <1>4, <3>1, <3>2
  <2>3. \E q : Plain(q, job[s].msg) /\ Finish(s, q)
    <3>1. CASE Accepted(s) \/ FailedButSubmitted(s)
      BY <3>1, <1>q DEF Accepted, FailedButSubmitted
    <3>2. CASE FailedSubmit(s)
      BY <3>2, <1>q DEF FailedSubmit
    <3>3. CASE Confirm(s)
      BY <3>3, <1>q DEF Confirm
    <3> QED
      BY <1>4, <3>1, <3>2, <3>3
  <2>4. JobsGood'
    BY <2>1, <2>3, <1>m, RunStepGood
  <2> QED
    BY <2>2, <2>4 DEF TypeInv
<1>5. CASE DispatchConfirm(s)
  <2>1. StoreOK'
    BY <1>5 DEF DispatchConfirm, TypeInv, StoreOK
  <2>2. PICK at \in Place : job' = [job EXCEPT ![s] = [@ EXCEPT !.pc = "confirm", !.at = at]]
    BY <1>5 DEF DispatchConfirm, Place
  <2>3. job[s].pc # "idle"
    BY <1>5 DEF DispatchConfirm
  <2>4. JobsGood'
    BY <2>2, <2>3, <1>m, <1>p, MoveGood
  <2> QED
    BY <2>1, <2>4 DEF TypeInv
<1>6. CASE ConfirmExpires(s)
  <2>1. faults' \in 0 .. MaxFaults
    BY <1>6, FaultCounted DEF ConfirmExpires, TypeInv, StoreOK
  <2>2. StoreOK'
    BY <1>6, <2>1 DEF ConfirmExpires, TypeInv, StoreOK
  <2>3. GoodCalls(<<"release">>, job[s].msg)
    BY DEF GoodCalls, Call
  <2>4. GoodJob([job[s] EXCEPT !.todo = <<"release">>])
    BY <2>3, <1>m, TodoGood
  <2>5. JobsGood'
    BY <1>6, <2>4, <1>m, PutGood DEF ConfirmExpires
  <2> QED
    BY <2>2, <2>5 DEF TypeInv
<1> QED
  BY <1>1, <1>2, <1>3, <1>4, <1>5, <1>6

\* A copy moved without a worker keeps the types.
LEMMA UnansweredTypes ==
    ASSUME TypeInv, NEW m \in BagToSet(pending), PopUnanswered(m)
    PROVE  TypeInv'
<1>1. m \in Msg /\ IsListOf(Lists!BagRemove(pending, m)) /\ IsListOf(Lists!BagAdd(proc, m))
  BY ListMember, ListRemove, ListAdd DEF TypeInv, StoreOK
<1>2. faults' \in 0 .. MaxFaults
  BY FaultCounted DEF PopUnanswered, TypeInv, StoreOK
<1> QED
  BY <1>1, <1>2 DEF PopUnanswered, TypeInv, StoreOK, JobsGood, control

\* A call keeps the types.  The retry scheduled by ZADD is a message because its
\* counter was below the maximum when the retry was decided.
LEMMA CallTypes ==
    ASSUME TypeInv, NEW a \in Agents, MakeCall(a) \/ CallFails(a) \/ CallUnanswered(a)
    PROVE  TypeInv'
<1>m. /\ job \in [Agents -> Job] /\ GoodJob(job[a]) /\ JobsGood /\ Running(a)
      /\ job[a].msg \in Msg /\ job[a].msg.oid \in Orders /\ job[a].todo # <<>>
  BY DEF TypeInv, JobsGood, GoodJob, Msg, MakeCall, CallFails, CallUnanswered, Running
<1>1. CASE MakeCall(a) \/ CallUnanswered(a)
  <2>c. PICK c : c = Head(job[a].todo)
    OBVIOUS
  <2>r. c = "zadd" => NextAttempt(job[a].msg) \in Msg
    <3>1. Len(job[a].todo) \in Nat \ {0} /\ 1 \in DOMAIN job[a].todo /\ c = job[a].todo[1]
      BY <1>m, <2>c DEF GoodJob, Job
    <3>2. c = "zadd" => job[a].msg.r + 1 < MaxAttempts
      BY <1>m, <3>1 DEF GoodJob, GoodCalls
    <3> QED
      BY <1>m, <3>2, StoreAssumption DEF NextAttempt, Msg
  <2>d. Do(a, c, job[a].msg)
    BY <1>1, <2>c DEF MakeCall, CallUnanswered
  <2>1. dock' \in [Orders -> {"0", "1", "2"}] /\ submitted' \subseteq Orders /\ enq' \subseteq Orders
    BY <2>d, <1>m DEF Do, TypeInv, StoreOK
  <2>2. lock' \in [Orders -> Slots \cup {Nobody, Orphan}] /\ lost' \subseteq Orders
    BY <2>d, <1>m DEF Do, TypeInv, StoreOK
  <2>3. IsListOf(pending') /\ IsListOf(proc') /\ IsListOf(dlq')
    BY <2>d, <1>m, ListAdd, ListRemove DEF Do, TypeInv, StoreOK
  <2>4. retry' \subseteq Msg
    BY <2>d, <2>r, <1>m DEF Do, TypeInv, StoreOK
  <2>5. JobsGood'
    <3>1. CASE MakeCall(a)
      BY <3>1, <1>m, AdvanceGood, PutGood DEF MakeCall
    <3>2. CASE CallUnanswered(a)
      BY <3>2, <1>m, AfterFailureGood, PutGood DEF CallUnanswered
    <3> QED
      BY <1>1, <3>1, <3>2
  <2>6. faults' \in 0 .. MaxFaults
    BY <1>1, FaultCounted DEF MakeCall, CallUnanswered, TypeInv, StoreOK
  <2> QED
    BY <1>1, <2>1, <2>2, <2>3, <2>4, <2>5, <2>6 DEF MakeCall, CallUnanswered, TypeInv, StoreOK
<1>2. CASE CallFails(a)
  <2>1. faults' \in 0 .. MaxFaults
    BY <1>2, FaultCounted DEF CallFails, TypeInv, StoreOK
  <2>2. lock' \in [Orders -> Slots \cup {Nobody, Orphan}]
    BY <1>2, <1>m DEF CallFails, TypeInv, StoreOK
  <2>3. JobsGood'
    BY <1>2, <1>m, AfterFailureGood, PutGood DEF CallFails
  <2> QED
    BY <1>2, <2>1, <2>2, <2>3 DEF CallFails, TypeInv, StoreOK
<1> QED
  BY <1>1, <1>2

\* The steps of the producer and of the enqueue handler keep the types.
LEMMA FeederTypes ==
    ASSUME TypeInv,
           \E f \in Feeders : ReadToDo(f) \/ \E o \in Orders : Mark(f, o) \/ Push(f, o) \/ PushFails(f, o)
    PROVE  TypeInv'
<1> USE DEF store, history
<1>1. ASSUME NEW f \in Feeders, ReadToDo(f) PROVE TypeInv'
  BY <1>1 DEF ReadToDo, TypeInv, StoreOK, JobsGood
<1>2. ASSUME NEW f \in Feeders, NEW o \in Orders, Mark(f, o) PROVE TypeInv'
  BY <1>2 DEF Mark, TypeInv, StoreOK, JobsGood
<1>3. ASSUME NEW f \in Feeders, NEW o \in Orders, Push(f, o) PROVE TypeInv'
  <2>1. \A t \in Stamps : [oid |-> o, r |-> 0, ts |-> t] \in Msg
    BY StoreAssumption DEF Msg
  <2>2. IsListOf(pending')
    BY <1>3, <2>1, ListAdd DEF Push, TypeInv, StoreOK
  <2> QED
    BY <1>3, <2>2 DEF Push, TypeInv, StoreOK, JobsGood
<1>4. ASSUME NEW f \in Feeders, NEW o \in Orders, PushFails(f, o) PROVE TypeInv'
  <2>1. faults' \in 0 .. MaxFaults
    BY <1>4, FaultCounted DEF PushFails, TypeInv, StoreOK
  <2>2. \A t \in Stamps : [oid |-> o, r |-> 0, ts |-> t] \in Msg
    BY StoreAssumption DEF Msg
  <2>3. IsListOf(pending')
    BY <1>4, <2>2, ListAdd DEF PushFails, TypeInv, StoreOK
  <2> QED
    BY <1>4, <2>1, <2>3 DEF PushFails, TypeInv, StoreOK, JobsGood
<1> QED
  BY <1>1, <1>2, <1>3, <1>4

\* The steps of the dispatcher of retries keep the types.
LEMMA RetrierTypes ==
    ASSUME TypeInv,
           \/ \E m \in retry : TakeDue(m)
           \/ DecideDue
           \/ \E a \in {"retrier", "scanner"} : Enqueue(a)
    PROVE  TypeInv'
<1> USE DEF store, history
<1>a. "retrier" \in Agents /\ "scanner" \in Agents
  BY DEF Agents, Service
<1>m. /\ job \in [Agents -> Job] /\ JobsGood
      /\ \A a \in Agents : job[a].pc # "idle" => job[a].msg \in Msg /\ job[a].msg.oid \in Orders
  BY DEF TypeInv, JobsGood, GoodJob, Msg
<1>q. \A m : /\ Plain(<<"push">>, m) /\ Plain(<<"zback">>, m)
             /\ Plain(<<"db1">>, m) /\ Plain(<<"hset", "db1">>, m)
  BY HandlersGood
<1>1. ASSUME NEW m \in retry, TakeDue(m) PROVE TypeInv'
  <2>1. m \in Msg /\ StoreOK'
    BY <1>1 DEF TakeDue, TypeInv, StoreOK
  <2>2. JobsGood'
    BY <1>1, <2>1, <1>a, <1>m, StartGood, PutGood DEF TakeDue, Start, PC
  <2> QED
    BY <2>1, <2>2 DEF TypeInv
<1>2. CASE DecideDue
  <2>0. submitted' \subseteq Orders /\ faults' \in 0 .. MaxFaults
    BY <1>2, <1>a, <1>m, LookTypes DEF DecideDue, TypeInv
  <2>1. job["retrier"].pc # "idle" /\ StoreOK'
    BY <1>2, <2>0 DEF DecideDue, TypeInv, StoreOK
  <2>2. \/ Run("retrier", <<"db1">>)
        \/ Run("retrier", <<"hset", "db1">>)
        \/ job' = [job EXCEPT !["retrier"].pc = "enqueue"]
    BY <1>2 DEF DecideDue
  <2>3. JobsGood'
    <3>1. CASE Run("retrier", <<"db1">>) \/ Run("retrier", <<"hset", "db1">>)
      BY <3>1, <2>1, <1>a, <1>m, <1>q, RunStepGood DEF Run
    <3>2. CASE job' = [job EXCEPT !["retrier"].pc = "enqueue"]
      BY <3>2, <2>1, <1>a, <1>m, BecomeGood DEF PC
    <3> QED
      BY <2>2, <3>1, <3>2
  <2> QED
    BY <2>1, <2>3 DEF TypeInv
<1>3. ASSUME NEW a \in {"retrier", "scanner"}, Enqueue(a) PROVE TypeInv'
  <2>1. job[a].pc # "idle" /\ StoreOK'
    BY <1>3, <1>a, <1>m DEF Enqueue, TypeInv, StoreOK
  <2>2. Run(a, <<"push">>) \/ Run(a, <<"zback">>) \/ job' = [job EXCEPT ![a] = Idle]
    BY <1>3 DEF Enqueue
  <2>3. JobsGood'
    <3>1. CASE Run(a, <<"push">>) \/ Run(a, <<"zback">>)
      BY <3>1, <2>1, <1>a, <1>m, <1>q, RunStepGood DEF Run
    <3>2. CASE job' = [job EXCEPT ![a] = Idle]
      BY <3>2, <1>a, <1>m, IdleGood, PutGood
    <3> QED
      BY <2>2, <3>1, <3>2
  <2> QED
    BY <2>1, <2>3 DEF TypeInv
<1> QED
  BY <1>1, <1>2, <1>3

\* The steps of the reaper and of the rollback keep the types.
LEMMA ReaperTypes ==
    ASSUME TypeInv,
           \/ \E m \in BagToSet(proc) : Reap(m) \/ TakeRollback(m)
           \/ DecideReap
           \/ DecideRollback
    PROVE  TypeInv'
<1> USE DEF store, history
<1>a. "reaper" \in Agents /\ "rollback" \in Agents
  BY DEF Agents, Service
<1>m. /\ job \in [Agents -> Job] /\ JobsGood
      /\ \A a \in Agents : job[a].pc # "idle" => job[a].msg \in Msg /\ job[a].msg.oid \in Orders
  BY DEF TypeInv, JobsGood, GoodJob, Msg
<1>1. ASSUME NEW m \in BagToSet(proc), Reap(m) PROVE TypeInv'
  <2>1. m \in Msg
    BY ListMember DEF TypeInv, StoreOK
  <2>2. faults' \in 0 .. MaxFaults
    BY <1>1, FaultCounted DEF Reap, TypeInv, StoreOK
  <2>3. StoreOK'
    BY <1>1, <2>2 DEF Reap, TypeInv, StoreOK
  <2>4. JobsGood'
    BY <1>1, <2>1, <1>a, <1>m, StartGood, PutGood DEF Reap, Start, PC
  <2> QED
    BY <2>3, <2>4 DEF TypeInv
<1>2. ASSUME NEW m \in BagToSet(proc), TakeRollback(m) PROVE TypeInv'
  <2>1. m \in Msg
    BY ListMember DEF TypeInv, StoreOK
  <2>2. StoreOK'
    BY <1>2 DEF TakeRollback, TypeInv, StoreOK
  <2>3. JobsGood'
    BY <1>2, <2>1, <1>a, <1>m, StartGood, PutGood DEF TakeRollback, Start, PC
  <2> QED
    BY <2>2, <2>3 DEF TypeInv
<1>3. CASE DecideReap
  <2>0. submitted' \subseteq Orders /\ faults' \in 0 .. MaxFaults
    BY <1>3, <1>a, <1>m, LookTypes DEF DecideReap, TypeInv
  <2>1. job["reaper"].pc # "idle" /\ StoreOK'
    BY <1>3, <2>0 DEF DecideReap, TypeInv, StoreOK
  <2>2. \E q : Plain(q, job["reaper"].msg) /\ Run("reaper", q)
    <3> DEFINE m == job["reaper"].msg
    <3>1. /\ Plain(<<"db1", "lrem", "dellock", "delenq">>, m)
          /\ Plain(<<"hset", "db1", "lrem", "dellock", "delenq">>, m)
          /\ m.r + 1 < MaxAttempts => Plain(<<"zadd", "delenq", "lrem", "dellock">>, m)
          /\ Plain(ReapedOut, m)
      BY HandlersGood
    <3> QED
      BY <1>3, <3>1 DEF DecideReap
  <2>3. JobsGood'
    BY <2>1, <2>2, <1>a, <1>m, RunStepGood DEF Run
  <2> QED
    BY <2>1, <2>3 DEF TypeInv
<1>4. CASE DecideRollback
  <2>0. submitted' \subseteq Orders /\ faults' \in 0 .. MaxFaults
    BY <1>4, <1>a, <1>m, LookTypes DEF DecideRollback, TypeInv
  <2>1. job["rollback"].pc # "idle" /\ StoreOK'
    BY <1>4, <2>0 DEF DecideRollback, TypeInv, StoreOK
  <2>2. \E q : Plain(q, job["rollback"].msg) /\ Run("rollback", q)
    <3> DEFINE m == job["rollback"].msg
    <3>1. /\ Plain(<<"db1", "lrem", "dellock", "delenq">>, m)
          /\ Plain(<<"hset", "db1", "lrem", "dellock", "delenq">>, m)
          /\ Plain(<<"lrem", "dellock", "delenq">>, m)
      BY HandlersGood
    <3> QED
      BY <1>4, <3>1 DEF DecideRollback
  <2>3. JobsGood'
    BY <2>1, <2>2, <1>a, <1>m, RunStepGood DEF Run
  <2> QED
    BY <2>1, <2>3 DEF TypeInv
<1> QED
  BY <1>1, <1>2, <1>3, <1>4

\* The steps of the scan of the dead letter queue keep the types.
LEMMA ScannerTypes ==
    ASSUME TypeInv, (\E m \in BagToSet(dlq) : TakeDead(m)) \/ DecideDead \/ Reopen \/ Rescue
    PROVE  TypeInv'
<1> USE DEF store, history
<1>a. "scanner" \in Agents
  BY DEF Agents, Service
<1>m. /\ job \in [Agents -> Job] /\ JobsGood
      /\ job["scanner"].pc # "idle" => job["scanner"].msg \in Msg /\ job["scanner"].msg.oid \in Orders
  BY <1>a DEF TypeInv, JobsGood, GoodJob, Msg
<1>1. ASSUME NEW m \in BagToSet(dlq), TakeDead(m) PROVE TypeInv'
  <2>1. m \in Msg
    BY ListMember DEF TypeInv, StoreOK
  <2>2. StoreOK'
    BY <1>1 DEF TakeDead, TypeInv, StoreOK
  <2>3. JobsGood'
    BY <1>1, <2>1, <1>a, <1>m, StartGood, PutGood DEF TakeDead, Start, PC
  <2> QED
    BY <2>2, <2>3 DEF TypeInv
<1>2. CASE DecideDead
  <2>0. submitted' \subseteq Orders /\ faults' \in 0 .. MaxFaults
    BY <1>2, <1>m, LookTypes DEF DecideDead, TypeInv
  <2>1. job["scanner"].pc # "idle" /\ StoreOK'
    BY <1>2, <2>0 DEF DecideDead, TypeInv, StoreOK
  <2>2. \A m : Plain(<<"dlqrem", "db1">>, m) /\ Plain(<<"dlqrem", "hset", "db1">>, m)
    BY HandlersGood
  <2>3. CASE Run("scanner", <<"dlqrem", "db1">>) \/ Run("scanner", <<"dlqrem", "hset", "db1">>)
    <3>1. JobsGood'
      BY <2>1, <2>2, <2>3, <1>a, <1>m, RunStepGood DEF Run
    <3> QED
      BY <2>1, <3>1 DEF TypeInv
  <2>4. CASE job' = [job EXCEPT !["scanner"].pc = "reopen"]
    <3>1. JobsGood'
      BY <2>1, <2>4, <1>a, <1>m, BecomeGood DEF PC
    <3> QED
      BY <2>1, <3>1 DEF TypeInv
  <2> QED
    BY <1>2, <2>3, <2>4 DEF DecideDead
<1>3. CASE Reopen
  <2>1. job["scanner"].pc # "idle" /\ StoreOK'
    BY <1>3, <1>m DEF Reopen, TypeInv, StoreOK
  <2>2. CASE job' = [job EXCEPT !["scanner"].pc = "rescue"]
    <3>1. JobsGood'
      BY <2>1, <2>2, <1>a, <1>m, BecomeGood DEF PC
    <3> QED
      BY <2>1, <3>1 DEF TypeInv
  <2>3. CASE job' = [job EXCEPT !["scanner"] = Idle]
    <3>1. JobsGood'
      BY <2>3, <1>a, <1>m, IdleGood, PutGood
    <3> QED
      BY <2>1, <3>1 DEF TypeInv
  <2> QED
    BY <1>3, <2>2, <2>3 DEF Reopen
<1>4. CASE Rescue
  <2>1. job["scanner"].msg \in Msg
    BY <1>4, <1>m DEF Rescue
  <2>2. IsListOf(dlq')
    BY <1>4, ListRemove DEF Rescue, TypeInv, StoreOK
  <2>3. StoreOK'
    BY <1>4, <2>2 DEF Rescue, TypeInv, StoreOK
  <2>4. PICK t \in Stamps : Start("scanner", "enqueue", [job["scanner"].msg EXCEPT !.r = 0, !.ts = t])
    BY <1>4 DEF Rescue
  <2>5. [job["scanner"].msg EXCEPT !.r = 0, !.ts = t] \in Msg
    <3>1. 0 \in 0 .. MaxAttempts - 1
      BY StoreAssumption
    <3> QED
      BY <2>1, <3>1 DEF Msg
  <2>6. JobsGood'
    BY <2>4, <2>5, <1>a, <1>m, StartGood, PutGood DEF Start, PC
  <2> QED
    BY <2>3, <2>6 DEF TypeInv
<1> QED
  BY <1>1, <1>2, <1>3, <1>4

\* A process that starts again keeps the types.
LEMMA RestartTypes ==
    ASSUME TypeInv, Crash \/ Exit
    PROVE  TypeInv'
<1>1. Restart
  BY DEF Crash, Exit
<1>2. faults' \in 0 .. MaxFaults
  BY FaultCounted DEF Crash, Exit, TypeInv, StoreOK
<1>3. JobsGood'
  BY <1>1, IdleGood DEF Restart, JobsGood, GoodJob
<1>4. lock' \in [Orders -> Slots \cup {Nobody, Orphan}]
  BY <1>1 DEF Restart, TypeInv, StoreOK
<1>5. feed' \in [Feeders -> [Orders -> {"none", "read", "marked"}]] /\ up' \in {"up", "stopping", "rollback"}
  BY <1>1 DEF Restart, NothingRead
<1> QED
  BY <1>1, <1>2, <1>3, <1>4, <1>5 DEF Restart, TypeInv, StoreOK

\* Expiry and shutdown keep the types.
LEMMA ExpiryTypes ==
    ASSUME TypeInv,
           \/ \E o \in Orders : MarkExpires(o) \/ LockExpires(o) \/ LockLost(o)
           \/ Shutdown \/ StartRollback
    PROVE  TypeInv'
<1> USE DEF store, control, history
<1>1. CASE \E o \in Orders : MarkExpires(o)
  <2>1. faults' \in 0 .. MaxFaults
    BY <1>1, FaultCounted DEF MarkExpires, TypeInv, StoreOK
  <2> QED
    BY <1>1, <2>1 DEF MarkExpires, TypeInv, StoreOK, JobsGood
<1>2. CASE \E o \in Orders : LockExpires(o)
  BY <1>2 DEF LockExpires, TypeInv, StoreOK, JobsGood
<1>3. CASE \E o \in Orders : LockLost(o)
  <2>1. faults' \in 0 .. MaxFaults
    BY <1>3, FaultCounted DEF LockLost, TypeInv, StoreOK
  <2> QED
    BY <1>3, <2>1 DEF LockLost, TypeInv, StoreOK, JobsGood
<1>4. CASE Shutdown
  <2>1. faults' \in 0 .. MaxFaults
    BY <1>4, FaultCounted DEF Shutdown, TypeInv, StoreOK
  <2> QED
    BY <1>4, <2>1 DEF Shutdown, TypeInv, StoreOK, JobsGood
<1>5. CASE StartRollback
  BY <1>5 DEF StartRollback, TypeInv, StoreOK, JobsGood
<1> QED
  BY <1>1, <1>2, <1>3, <1>4, <1>5

\* The initial state has the types ...
LEMMA TypeInit == Init => TypeInv
<1> SUFFICES ASSUME Init PROVE TypeInv
  OBVIOUS
<1>1. StoreOK
  BY ListEmpty, StoreAssumption DEF Init, StoreOK, NothingRead
<1>2. JobsGood
  BY IdleGood DEF Init, JobsGood, GoodJob
<1> QED
  BY <1>1, <1>2 DEF TypeInv

\* ... and every step keeps them.
LEMMA TypeStep == TypeInv /\ [Next]_vars => TypeInv'
<1>1. TypeInv /\ UNCHANGED vars => TypeInv'
  BY DEF TypeInv, StoreOK, JobsGood, vars, store, control, history
<1>2. TypeInv /\ WorkerNext => TypeInv'
  BY ConsumerTypes, UnansweredTypes, PoolTypes, CallTypes DEF WorkerNext
<1>3. TypeInv /\ MaintenanceNext => TypeInv'
  BY FeederTypes, RetrierTypes, ReaperTypes, ScannerTypes, ExpiryTypes, RestartTypes DEF MaintenanceNext
<1> QED
  BY <1>1, <1>2, <1>3 DEF Next

\* The inductive invariant behind TypeCorrect: the types, and for each agent what
\* GoodJob says of its calls.
THEOREM TypesKept == Spec => []TypeInv
BY TypeInit, TypeStep, PTL DEF Spec

\* Type correctness: whatever the agents do and whatever fails, the lists hold
\* messages, no message counts more attempts than allowed, and a lock belongs
\* to a slot, to nobody or to a process that is gone.
THEOREM TypeCorrect == Spec => []TypeOK
<1>1. TypeInv => TypeOK
  BY DEF TypeInv, StoreOK, JobsGood, GoodJob, TypeOK
<1> QED
  BY <1>1, TypesKept, PTL

-----------------------------------------------------------------------------
(* One worker at a time.                                                   *)

\* A slot between AcquireLock and Release has the lock, or the lock was taken
\* from it.
HoldsLock ==
    \A s \in Slots : Holds(s) => lock[job[s].msg.oid] = s \/ job[s].msg.oid \in lost

\* A step that gives no slot a lock it had not, and takes none.
Calm ==
    /\ lock' = lock
    /\ lost \subseteq lost'
    /\ \A s \in Slots : Holds(s)' => Holds(s) /\ job'[s].msg = job[s].msg

\* A calm step keeps HoldsLock.
LEMMA CalmHolds == HoldsLock /\ Calm => HoldsLock'
BY DEF HoldsLock, Calm

\* What a step of slot s has to show to be calm.
LEMMA SlotCalm ==
    ASSUME TypeInv, NEW s \in Slots, NEW k, job' = [job EXCEPT ![s] = k],
           \/ k.pc \in {"idle", "moving", "popped", "drop"}
           \/ k.msg = job[s].msg /\ (Holds(s) \/ k.pc = job[s].pc),
           lock' = lock, lost' = lost
    PROVE  Calm
<1>1. job'[s] = k /\ \A t \in Slots : t # s => job'[t] = job[t]
  BY DEF TypeInv, JobsGood, Agents
<1> QED
  BY <1>1 DEF Calm, Holds

\* The step of slot s leaves it without a lock, or with the message it had.
Unlocked(s) == \E k : job' = [job EXCEPT ![s] = k] /\ k.pc \in {"idle", "moving", "popped", "drop"}
SameOrder(s) == \E k : job' = [job EXCEPT ![s] = k] /\ k.msg = job[s].msg

\* Both kinds of steps are calm.
LEMMA UnlockedCalm ==
    ASSUME TypeInv, NEW s \in Slots, Unlocked(s), lock' = lock, lost' = lost
    PROVE  Calm
BY SlotCalm DEF Unlocked

\* The second one, of a slot that holds its lock.
LEMMA SameOrderCalm ==
    ASSUME TypeInv, NEW s \in Slots, SameOrder(s), Holds(s), lock' = lock, lost' = lost
    PROVE  Calm
BY SlotCalm DEF SameOrder

\* The forms of such a step.
LEMMA Updates ==
    ASSUME TypeInv, NEW s \in Slots
    PROVE  /\ \A pc : job' = [job EXCEPT ![s].pc = pc] => SameOrder(s)
           /\ \A at : job' = [job EXCEPT ![s].at = at] => SameOrder(s)
           /\ \A q : job' = [job EXCEPT ![s].todo = q] => SameOrder(s)
           /\ \A pc, at : job' = [job EXCEPT ![s] = [@ EXCEPT !.pc = pc, !.at = at]] => SameOrder(s)
           /\ \A pc, err : job' = [job EXCEPT ![s] = [@ EXCEPT !.pc = pc, !.err = err]] => SameOrder(s)
           /\ \A err : job' = [job EXCEPT ![s].err = err] => SameOrder(s)
           /\ \A q : Finish(s, q) \/ Mend(s, q) => SameOrder(s)
<1>1. job[s] \in Job
  BY DEF TypeInv, JobsGood, Agents
<1> QED
  BY <1>1 DEF SameOrder, Finish, Mend, Job

\* The steps of the consumer other than AcquireLock are calm.
LEMMA ConsumerCalm ==
    ASSUME TypeInv, NEW s \in Slots,
           \/ \E m \in BagToSet(pending) : Pop(s, m) \/ PopOnly(s, m)
           \/ PushProcessing(s) \/ PushProcessingFails(s) \/ LockBusy(s) \/ LockFails(s)
           \/ LookUp(s) \/ LookUpFails(s)
           \/ Repair(s) \/ RepairFindsNothing(s) \/ RepairFails(s)
           \/ CheckDB(s) \/ CheckDBFails(s) \/ ContextEnds(s)
           \/ Dispatch(s) \/ DispatchFull(s)
    PROVE  Calm
<1> USE DEF store, history
<1>j. job[s] \in Job
  BY DEF TypeInv, JobsGood, Agents
<1>1. ASSUME NEW m \in BagToSet(pending), Pop(s, m) \/ PopOnly(s, m) PROVE Calm
  <2>1. \A pc : [Idle EXCEPT !.pc = pc, !.at = "consumer", !.msg = m].pc = pc
    BY DEF Idle
  <2>2. Unlocked(s)
    <3>1. CASE Pop(s, m)
      BY <3>1, <2>1 DEF Pop, Unlocked
    <3>2. CASE PopOnly(s, m)
      BY <3>2, <2>1 DEF PopOnly, Unlocked
    <3> QED
      BY <1>1, <3>1, <3>2
  <2>3. lock' = lock /\ lost' = lost
    BY <1>1 DEF Pop, PopOnly
  <2> QED
    BY <2>2, <2>3, UnlockedCalm
<1>2. CASE PushProcessing(s) \/ PushProcessingFails(s) \/ LockBusy(s) \/ LockFails(s)
  <2>1. /\ [job[s] EXCEPT !.pc = "popped"].pc = "popped"
        /\ Idle.pc = "idle"
        /\ \A q : [job[s] EXCEPT !.pc = "drop", !.todo = q].pc = "drop"
    BY <1>j DEF Job, Idle
  <2>2. lock' = lock /\ lost' = lost
    BY <1>2 DEF PushProcessing, PushProcessingFails, LockBusy, LockFails
  <2>3. Unlocked(s)
    <3>1. CASE PushProcessing(s)
      BY <3>1, <2>1 DEF PushProcessing, Become, Unlocked
    <3>2. CASE PushProcessingFails(s)
      BY <3>2, <2>1 DEF PushProcessingFails, Unlocked
    <3>3. CASE LockBusy(s)
      BY <3>3, <2>1 DEF LockBusy, Unlocked
    <3>4. CASE LockFails(s)
      <4>1. \/ job' = [job EXCEPT ![s] = Idle]
            \/ job' = [job EXCEPT ![s] = [@ EXCEPT !.pc = "drop", !.todo = <<"push", "lrem">>]]
        BY <3>4 DEF LockFails
      <4> QED
        BY <4>1, <2>1 DEF Unlocked
    <3> QED
      BY <1>2, <3>1, <3>2, <3>3, <3>4
  <2> QED
    BY <2>2, <2>3, UnlockedCalm
<1>3. CASE Repair(s) \/ RepairFindsNothing(s) \/ RepairFails(s)
  <2>1. SameOrder(s)
    BY <1>3, Updates DEF Repair, RepairFindsNothing, RepairFails
  <2> QED
    BY <1>3, <2>1, SameOrderCalm DEF Repair, RepairFindsNothing, RepairFails, Holds
<1>4. CASE LookUp(s) \/ LookUpFails(s) \/ CheckDB(s) \/ CheckDBFails(s)
  <2>1. SameOrder(s)
    BY <1>4, Updates DEF LookUp, LookUpFails, CheckDB, CheckDBFails, Become
  <2> QED
    BY <1>4, <2>1, SameOrderCalm DEF LookUp, LookUpFails, CheckDB, CheckDBFails, Holds
<1>5. CASE ContextEnds(s)
  <2>1. lock' = lock /\ lost' = lost
    BY <1>5 DEF ContextEnds
  <2>2. CASE job[s].pc \in {"moving", "popped", "drop"}
    <3>1. job' = [job EXCEPT ![s] = Idle] /\ Idle.pc = "idle"
      BY <1>5, <2>2 DEF ContextEnds, Idle
    <3>2. Unlocked(s)
      BY <3>1 DEF Unlocked
    <3> QED
      BY <2>1, <3>2, UnlockedCalm
  <2>3. CASE job[s].pc \notin {"moving", "popped", "drop"}
    <3>1. SameOrder(s)
      BY <1>5, <2>3, Updates DEF ContextEnds
    <3>2. Holds(s)
      BY <1>5, <2>3 DEF ContextEnds, Holds
    <3> QED
      BY <2>1, <3>1, <3>2, SameOrderCalm
  <2> QED
    BY <2>2, <2>3
<1>6. CASE Dispatch(s) \/ DispatchFull(s)
  <2>1. CASE Dispatch(s)
    <3>1. [job[s] EXCEPT !.pc = "submit", !.at = "submitq", !.err = "none"].msg = job[s].msg
      BY <1>j DEF Job
    <3>2. SameOrder(s)
      BY <2>1, <3>1 DEF Dispatch, SameOrder
    <3> QED
      BY <2>1, <3>2, SameOrderCalm DEF Dispatch, Holds
  <2>2. CASE DispatchFull(s)
    <3>1. SameOrder(s)
      BY <2>2, Updates DEF DispatchFull, Become
    <3> QED
      BY <2>2, <3>1, SameOrderCalm DEF DispatchFull, Holds
  <2> QED
    BY <1>6, <2>1, <2>2
<1> QED
  BY <1>1, <1>2, <1>3, <1>4, <1>5, <1>6

\* The steps of the pools are calm: a lock is handed over with the message.
LEMMA PoolCalm ==
    ASSUME TypeInv, NEW s \in Slots,
           \/ TakeSubmit(s) \/ LoadFails(s) \/ LoadCancelled(s)
           \/ CallUpstream(s) \/ Accepted(s) \/ Refused(s)
           \/ FailedButSubmitted(s) \/ FailedSubmit(s)
           \/ DispatchConfirm(s) \/ TakeConfirm(s) \/ Confirm(s) \/ ConfirmExpires(s)
    PROVE  Calm
<1> USE DEF store, history
<1>1. CASE TakeSubmit(s) \/ TakeConfirm(s)
  <2>1. PICK at : job' = [job EXCEPT ![s].at = at] /\ lock' = lock /\ lost' = lost
    BY <1>1 DEF TakeSubmit, TakeConfirm
  <2>2. [job[s] EXCEPT !.at = at].pc = job[s].pc /\ [job[s] EXCEPT !.at = at].msg = job[s].msg
    BY DEF TypeInv, JobsGood, Job, Agents
  <2> QED
    BY <2>1, <2>2, SlotCalm
<1>2. CASE LoadFails(s) \/ LoadCancelled(s) \/ CallUpstream(s) \/ Refused(s)
  <2>1. SameOrder(s)
    BY <1>2, Updates DEF LoadFails, LoadCancelled, CallUpstream, Refused, Become
  <2> QED
    BY <1>2, <2>1, SameOrderCalm DEF LoadFails, LoadCancelled, CallUpstream, Refused, Try, Holds
<1>3. CASE DispatchConfirm(s)
  <2>1. SameOrder(s)
    BY <1>3, Updates DEF DispatchConfirm
  <2> QED
    BY <1>3, <2>1, SameOrderCalm DEF DispatchConfirm, Holds
<1>4. CASE Accepted(s) \/ FailedButSubmitted(s) \/ FailedSubmit(s)
  <2>1. SameOrder(s)
    BY <1>4, Updates DEF Accepted, FailedButSubmitted, FailedSubmit
  <2> QED
    BY <1>4, <2>1, SameOrderCalm DEF Accepted, FailedButSubmitted, FailedSubmit, Holds
<1>5. CASE Confirm(s) \/ ConfirmExpires(s)
  <2>1. SameOrder(s)
    BY <1>5, Updates DEF Confirm, ConfirmExpires
  <2> QED
    BY <1>5, <2>1, SameOrderCalm DEF Confirm, ConfirmExpires, Holds
<1> QED
  BY <1>1, <1>2, <1>3, <1>4, <1>5

\* SETNX: who takes a lock finds that nobody holds it.
LEMMA TakeLockHolds ==
    ASSUME TypeInv, HoldsLock, NEW s \in Slots, TakeLock(s)
    PROVE  HoldsLock'
<1>m. /\ job \in [Agents -> Job] /\ s \in Agents /\ job[s].msg.oid \in Orders
      /\ \A a \in Agents : job[a] \in Job
  BY DEF TypeInv, JobsGood, GoodJob, Msg, TakeLock, Agents
<1>1. job' = [job EXCEPT ![s].pc = "locked"] /\ lost' = lost
  BY DEF TakeLock, Become, history
<1>2. lock[job[s].msg.oid] = Nobody /\ lock' = [lock EXCEPT ![job[s].msg.oid] = s]
  BY DEF TakeLock
<1> SUFFICES ASSUME NEW t \in Slots, Holds(t)'
             PROVE  lock'[job'[t].msg.oid] = t \/ job'[t].msg.oid \in lost'
  BY DEF HoldsLock
<1>3. CASE t = s
  BY <1>m, <1>1, <1>2, <1>3 DEF TypeInv, StoreOK, Job
<1>4. CASE t # s
  <2>1. job'[t] = job[t] /\ Holds(t)
    BY <1>m, <1>1, <1>4 DEF Holds, Agents
  <2>2. lock[job[t].msg.oid] = t => job[t].msg.oid # job[s].msg.oid
    BY <1>2, StoreAssumption
  <2>3. job[t].msg.oid \in Orders
    BY <2>1, <1>m DEF TypeInv, JobsGood, GoodJob, Msg, Holds, Agents
  <2> QED
    BY <1>1, <1>2, <2>1, <2>2, <2>3 DEF HoldsLock, TypeInv, StoreOK
<1> QED
  BY <1>3, <1>4

\* Release comes last, so who gives its lock back holds nothing any more; and
\* a key deleted without a token is written down in `lost`.
LEMMA CallHolds ==
    ASSUME TypeInv, HoldsLock, NEW a \in Agents, MakeCall(a) \/ CallFails(a) \/ CallUnanswered(a)
    PROVE  HoldsLock'
<1> DEFINE c == Head(job[a].todo)
           o == job[a].msg.oid
<1>m. /\ job \in [Agents -> Job] /\ GoodJob(job[a]) /\ Running(a) /\ o \in Orders
      /\ \A b \in Agents : job[b] \in Job
      /\ lock \in [Orders -> Slots \cup {Nobody, Orphan}]
  BY DEF TypeInv, StoreOK, JobsGood, GoodJob, Msg, MakeCall, CallFails, CallUnanswered, Running
<1>1. c = "release" => Len(job[a].todo) = 1
  <2>1. job[a].todo \in Seq(Call) /\ job[a].todo # <<>>
    BY <1>m DEF GoodJob, GoodCalls, Running
  <2>2. 1 \in DOMAIN job[a].todo /\ c = job[a].todo[1]
    BY <2>1
  <2> QED
    BY <1>m, <2>2 DEF GoodJob, GoodCalls
<1>2. \E k : /\ job' = [job EXCEPT ![a] = k]
             /\ c = "release" => k = Idle
             /\ k = Idle \/ (k.pc = job[a].pc /\ k.msg = job[a].msg)
  <2>k. \A q : /\ [job[a] EXCEPT !.todo = q].pc = job[a].pc
              /\ [job[a] EXCEPT !.todo = q].msg = job[a].msg
    BY <1>m DEF Job
  <2>1. CASE MakeCall(a)
    <3>1. Advance(job[a]) = Idle \/ Advance(job[a]) = [job[a] EXCEPT !.todo = Tail(@)]
      BY DEF Advance
    <3>2. c = "release" => Advance(job[a]) = Idle
      BY <1>1 DEF Advance
    <3> QED
      BY <2>1, <3>1, <3>2, <2>k DEF MakeCall
  <2>2. CASE CallFails(a) \/ CallUnanswered(a)
    <3>0. Advance(job[a]) = Idle \/ Advance(job[a]) = [job[a] EXCEPT !.todo = Tail(@)]
      BY DEF Advance
    <3> DEFINE Kept(k) == k = Idle \/ (k.pc = job[a].pc /\ k.msg = job[a].msg)
    <3>k. /\ Kept(Idle) /\ Kept(Advance(job[a]))
          /\ \A q : Kept([job[a] EXCEPT !.todo = q])
      BY <3>0, <2>k
    <3> HIDE DEF Kept
    <3>1. Kept(AfterFailure(a))
      BY <3>k DEF AfterFailure
    <3>2. c = "release" => AfterFailure(a) = Idle
      BY <1>1 DEF AfterFailure, Advance
    <3> QED
      BY <2>2, <3>1, <3>2, <2>k DEF CallFails, CallUnanswered, Kept
  <2> QED
    BY <2>1, <2>2
<1>3. \A t \in Slots : Holds(t)' => /\ Holds(t) /\ job'[t].msg = job[t].msg
                                    /\ ~(t = a /\ c = "release")
  BY <1>2, <1>m DEF Holds, Idle, Agents
<1>4. lost \subseteq lost'
  BY DEF MakeCall, CallFails, CallUnanswered, Do
<1>5. \A p \in Orders, t \in Slots :
        lock[p] = t => \/ lock'[p] = t
                       \/ p \in lost'
                       \/ t = a /\ c = "release"
  <2>1. CASE MakeCall(a) \/ CallUnanswered(a)
    BY <2>1, <1>m DEF MakeCall, CallUnanswered, Do
  <2>2. CASE CallFails(a)
    BY <2>2, <1>m DEF CallFails
  <2> QED
    BY <2>1, <2>2
<1>6. \A t \in Slots : Holds(t) => job[t].msg.oid \in Orders
  BY DEF TypeInv, JobsGood, GoodJob, Msg, Holds, Agents
<1> QED
  BY <1>3, <1>4, <1>5, <1>6 DEF HoldsLock

\* The maintenance loops are calm while they decide what to do.
LEMMA ServiceCalm ==
    ASSUME TypeInv,
           \/ \E f \in Feeders :
                ReadToDo(f) \/ \E o \in Orders : Mark(f, o) \/ Push(f, o) \/ PushFails(f, o)
           \/ (\E m \in retry : TakeDue(m)) \/ DecideDue
           \/ \E a \in {"retrier", "scanner"} : Enqueue(a)
           \/ (\E m \in BagToSet(proc) : Reap(m) \/ TakeRollback(m)) \/ DecideReap \/ DecideRollback
           \/ (\E m \in BagToSet(dlq) : TakeDead(m)) \/ DecideDead \/ Reopen \/ Rescue
           \/ \E o \in Orders : MarkExpires(o)
           \/ Shutdown \/ StartRollback
    PROVE  Calm
<1> USE DEF store, control, history
<1>m. job \in [Agents -> Job]
  BY DEF TypeInv, JobsGood
<1>1. lock' = lock /\ lost' = lost
  BY DEF ReadToDo, Mark, Push, PushFails, TakeDue, DecideDue, Enqueue, Reap, TakeRollback,
         DecideReap, DecideRollback, TakeDead, DecideDead, Reopen, Rescue, MarkExpires, Shutdown, StartRollback
<1>2. job' = job \/ \E a \in Service : \E k : job' = [job EXCEPT ![a] = k]
  BY DEF ReadToDo, Mark, Push, PushFails, TakeDue, DecideDue, Enqueue, Reap, TakeRollback,
         DecideReap, DecideRollback, TakeDead, DecideDead, Reopen, Rescue, MarkExpires, Shutdown, StartRollback,
         Start, Run, Service
<1>3. \A s \in Slots : job'[s] = job[s]
  BY <1>m, <1>2, StoreAssumption DEF Agents
<1> QED
  BY <1>1, <1>3 DEF Calm, Holds

\* An expiry or a restart takes a lock only from a slot that is gone, or writes it
\* down in `lost`.
LEMMA ExpiryHolds ==
    ASSUME TypeInv, HoldsLock, (\E o \in Orders : LockExpires(o) \/ LockLost(o)) \/ Crash \/ Exit
    PROVE  HoldsLock'
<1>1. CASE \E o \in Orders : LockExpires(o)
  BY <1>1, StoreAssumption DEF LockExpires, HoldsLock, Holds, control, history
<1>2. CASE \E o \in Orders : LockLost(o)
  BY <1>2 DEF LockLost, HoldsLock, Holds, control
<1>3. CASE Crash \/ Exit
  BY <1>3 DEF Crash, Exit, Restart, HoldsLock, Holds, Idle, Agents
<1> QED
  BY <1>1, <1>2, <1>3

\* Every step keeps HoldsLock.
LEMMA HoldsStep == TypeInv /\ HoldsLock /\ [Next]_vars => HoldsLock'
<1> SUFFICES ASSUME TypeInv, HoldsLock, [Next]_vars PROVE HoldsLock'
  OBVIOUS
<1>1. CASE UNCHANGED vars
  BY <1>1 DEF HoldsLock, Holds, vars, store, control, history
<1>2. CASE WorkerNext
  <2>1. CASE \E m \in BagToSet(pending) : PopUnanswered(m)
    BY <2>1 DEF PopUnanswered, HoldsLock, Holds, control
  <2> QED
    BY <1>2, <2>1, ConsumerCalm, PoolCalm, CalmHolds, TakeLockHolds, CallHolds DEF WorkerNext
<1>3. CASE MaintenanceNext
  BY <1>3, ServiceCalm, CalmHolds, ExpiryHolds DEF MaintenanceNext
<1> QED
  BY <1>1, <1>2, <1>3 DEF Next

\* The inductive invariant behind AtMostOneWorker.
THEOREM LocksHeld == Spec => []HoldsLock
<1>1. Init => HoldsLock
  BY DEF Init, HoldsLock, Holds, Idle, Agents
<1> QED
  BY <1>1, HoldsStep, TypesKept, PTL DEF Spec

\* At most one worker is in the middle of an order, for any number of orders,
\* messages, consumers and pool workers and whatever fails, unless its lock was
\* taken away: by the reaper, the rollback, or an expiry while it was at work.
THEOREM AtMostOneWorker == Spec => []OneWorker
<1>1. HoldsLock => OneWorker
  BY DEF HoldsLock, OneWorker
<1> QED
  BY <1>1, LocksHeld, PTL

-----------------------------------------------------------------------------
(* Copies in the processing list.  Without faults each is owned by the one *)
(* slot that works on it: the reaper finds nothing to reap, no context     *)
(* ends, and nothing is confirmed after a timeout.                         *)

HasLrem(q) == \E i \in DOMAIN q : q[i] = "lrem"
Once(q) == \A i, j \in DOMAIN q : q[i] = "lrem" /\ q[j] = "lrem" => i = j

\* Removes, as a property of the job.
ForCopy(j, m) ==
    /\ j.msg = m /\ j.pc \notin {"idle", "moving"}
    /\ j.pc \in {"run", "mend", "drop"} /\ j.todo # <<>> => HasLrem(j.todo)

\* Removes, read off the job.
LEMMA RemovesCopy == \A s \in Slots, m \in Msg : Removes(s, m) <=> ForCopy(job[s], m)
BY DEF Removes, ForCopy, Running, Left, HasLrem

\* A job that no fault has touched.
Sound(j) == /\ j.pc \notin {"moving", "cancelled", "confirm"} /\ j.err # "cancelled"
            /\ j.at \notin {"confirmq", "confirmpool"}
            /\ Once(j.todo)

Quiet == /\ up = "up" /\ job["reaper"] = Idle /\ job["rollback"] = Idle
         /\ \A a \in {"retrier", "scanner"} : ~HasLrem(job[a].todo)
         /\ \A s \in Slots : Sound(job[s])

Copies(m) == IF m \in DOMAIN proc THEN proc[m] ELSE 0
Owners(m) == {s \in Slots : ForCopy(job[s], m)}
Counted == \A m \in Msg : Copies(m) = Cardinality(Owners(m))

OwnInv == Quiet /\ Counted

\* No fault happens when none may.
LEMMA NoFault ==
    ASSUME MaxFaults = 0, TypeInv, NEW kind
    PROVE  ~Fault(kind)
BY DEF Fault, TypeInv, StoreOK

\* The sequences of calls that end the work on a copy remove it once.
LEMMA RemovingCalls ==
    /\ Once(Append(Succeeded, "release")) /\ HasLrem(Append(Succeeded, "release"))
    /\ Once(Append(Failed, "release")) /\ HasLrem(Append(Failed, "release"))
    /\ Once(Append(Retried, "release")) /\ HasLrem(Append(Retried, "release"))
    /\ Once(Append(<<"delenq", "lrem">>, "release")) /\ HasLrem(Append(<<"delenq", "lrem">>, "release"))
    /\ Once(<<"lrem">>) /\ HasLrem(<<"lrem">>)
<1>1. ASSUME NEW q \in Seq(Call), Once(q), HasLrem(q)
      PROVE  Once(Append(q, "release")) /\ HasLrem(Append(q, "release"))
  <2> DEFINE p == Append(q, "release")
  <2>1. /\ Len(q) \in Nat /\ DOMAIN q = 1 .. Len(q) /\ DOMAIN p = 1 .. Len(q) + 1
        /\ \A i \in DOMAIN p : p[i] = IF i <= Len(q) THEN q[i] ELSE "release"
    OBVIOUS
  <2> HIDE DEF p
  <2>2. Once(p)
    BY <1>1, <2>1 DEF Once
  <2>3. HasLrem(p)
    BY <1>1, <2>1 DEF HasLrem
  <2> QED
    BY <2>2, <2>3 DEF p
<1>2. /\ Succeeded \in Seq(Call) /\ Failed \in Seq(Call) /\ Retried \in Seq(Call)
      /\ <<"delenq", "lrem">> \in Seq(Call)
  BY DEF Succeeded, Failed, Retried, Call
<1>3. /\ Once(Succeeded) /\ Once(Failed) /\ Once(Retried)
      /\ Once(<<"delenq", "lrem">>) /\ Once(<<"lrem">>)
  BY DEF Once, Succeeded, Failed, Retried
<1>4. HasLrem(Succeeded) /\ HasLrem(Failed) /\ HasLrem(Retried)
  <2>1. Succeeded[4] = "lrem" /\ Failed[2] = "lrem" /\ Retried[3] = "lrem"
    BY DEF Succeeded, Failed, Retried
  <2>2. 4 \in DOMAIN Succeeded /\ 2 \in DOMAIN Failed /\ 3 \in DOMAIN Retried
    BY DEF Succeeded, Failed, Retried
  <2> QED
    BY <2>1, <2>2 DEF HasLrem
<1>5. HasLrem(<<"delenq", "lrem">>) /\ HasLrem(<<"lrem">>)
  BY DEF HasLrem
<1> QED
  BY <1>1, <1>2, <1>3, <1>4, <1>5

\* A slot goes on with a sound job, for the same copy or for none as before.
LEMMA OwnPut ==
    ASSUME TypeInv, OwnInv, NEW s \in Slots, NEW k, job' = [job EXCEPT ![s] = k], Sound(k),
           \A m : ForCopy(k, m) <=> ForCopy(job[s], m), UNCHANGED <<proc, up>>
    PROVE  OwnInv'
<1>1. job'[s] = k /\ \A a \in Agents : a # s => job'[a] = job[a]
  BY DEF TypeInv, JobsGood, Agents
<1>2. Quiet'
  BY <1>1, StoreAssumption DEF OwnInv, Quiet, Agents, Service
<1>3. \A m \in Msg : Owners(m)' = Owners(m)
  BY <1>1 DEF Owners, Agents
<1> QED
  BY <1>2, <1>3 DEF OwnInv, Counted, Copies

\* A service goes on, with no call that removes a copy.
LEMMA OwnService ==
    ASSUME TypeInv, OwnInv, NEW a \in {"retrier", "scanner"}, NEW k,
           job' = [job EXCEPT ![a] = k], ~HasLrem(k.todo), UNCHANGED <<proc, up>>
    PROVE  OwnInv'
<1>1. job'[a] = k /\ \A b \in Agents : b # a => job'[b] = job[b]
  BY DEF TypeInv, JobsGood, Agents, Service
<1>2. \A s \in Slots : job'[s] = job[s]
  BY <1>1, StoreAssumption DEF Agents, Service
<1>3. Quiet'
  BY <1>1, <1>2 DEF OwnInv, Quiet, Agents, Service
<1> QED
  BY <1>2, <1>3 DEF OwnInv, Counted, Copies, Owners

\* OwnInv says nothing of the rest of the state.
LEMMA OwnSame ==
    ASSUME OwnInv, UNCHANGED <<job, proc, up>>
    PROVE  OwnInv'
BY DEF OwnInv, Quiet, Counted, Copies, Owners

\* Finitely many slots own a message.
LEMMA OwnersFinite == IsFiniteSet(Slots) => \A m : IsFiniteSet(Owners(m))
<1>1. \A m : Owners(m) \subseteq Slots
  BY DEF Owners
<1> QED
  BY <1>1, FS_Subset

\* BLMOVE: a copy more, and an owner more.
LEMMA OwnPop ==
    ASSUME IsFiniteSet(Slots), TypeInv, OwnInv, NEW s \in Slots, NEW m \in Msg, Pop(s, m)
    PROVE  OwnInv'
<1> DEFINE k == [Idle EXCEPT !.pc = "popped", !.at = "consumer", !.msg = m]
<1>1. job' = [job EXCEPT ![s] = k] /\ UNCHANGED up /\ job[s] = Idle /\ proc' = Lists!BagAdd(proc, m)
  BY DEF Pop
<1>2. /\ k.msg = m /\ k.pc = "popped" /\ k.err = "none" /\ k.at = "consumer" /\ k.todo = <<>>
      /\ Idle.pc = "idle"
  BY DEF Idle
<1> HIDE DEF k
<1>3. Sound(k) /\ \A n : ForCopy(k, n) <=> n = m
  BY <1>2 DEF Sound, Once, ForCopy
<1>4. \A n : ~ForCopy(Idle, n)
  BY <1>2 DEF ForCopy
<1>5. job'[s] = k /\ \A a \in Agents : a # s => job'[a] = job[a]
  BY <1>1 DEF TypeInv, JobsGood, Agents
<1>6. Quiet'
  BY <1>1, <1>3, <1>5, StoreAssumption DEF OwnInv, Quiet, Agents, Service
<1>7. \A n \in Msg : IsFiniteSet(Owners(n)) /\ s \notin Owners(n)
  BY <1>1, <1>4, OwnersFinite DEF Owners
<1>8. ASSUME NEW n \in Msg PROVE Copies(n)' = Cardinality(Owners(n))'
  <2>0. Copies(n) = Cardinality(Owners(n))
    BY DEF OwnInv, Counted
  <2>1. CASE n = m
    <3>1. Owners(n)' = Owners(n) \cup {s}
      BY <1>3, <1>5, <2>1 DEF Owners, Agents
    <3>2. Cardinality(Owners(n) \cup {s}) = Cardinality(Owners(n)) + 1
      BY <1>7, FS_AddElement
    <3>3. Copies(n)' = Copies(n) + 1
      BY <1>1, <2>1 DEF Copies, Lists!BagAdd, TypeInv, StoreOK, IsListOf, IsABag
    <3> QED
      BY <2>0, <3>1, <3>2, <3>3
  <2>2. CASE n # m
    <3>1. Owners(n)' = Owners(n)
      BY <1>1, <1>3, <1>4, <1>5, <2>2 DEF Owners, Agents
    <3>2. Copies(n)' = Copies(n)
      BY <1>1, <2>2 DEF Copies, Lists!BagAdd
    <3> QED
      BY <2>0, <3>1, <3>2
  <2> QED
    BY <2>1, <2>2
<1> QED
  BY <1>6, <1>8 DEF OwnInv, Counted

\* LREM: a copy less, and an owner less.
LEMMA OwnGone ==
    ASSUME IsFiniteSet(Slots), TypeInv, OwnInv, NEW s \in Slots, NEW m \in Msg, ForCopy(job[s], m),
           NEW k, job' = [job EXCEPT ![s] = k], Sound(k), \A n : ~ForCopy(k, n),
           proc' = Lists!BagRemove(proc, m), UNCHANGED up
    PROVE  OwnInv'
<1>1. job'[s] = k /\ \A a \in Agents : a # s => job'[a] = job[a]
  BY DEF TypeInv, JobsGood, Agents
<1>2. Quiet'
  BY <1>1, StoreAssumption DEF OwnInv, Quiet, Agents, Service
<1>3. \A n : ForCopy(job[s], n) <=> n = m
  BY DEF ForCopy
<1>4. ASSUME NEW n \in Msg PROVE Copies(n)' = Cardinality(Owners(n))'
  <2>0. Copies(n) = Cardinality(Owners(n))
    BY DEF OwnInv, Counted
  <2>1. CASE n = m
    <3>1. s \in Owners(n) /\ IsFiniteSet(Owners(n))
      BY <1>3, <2>1, OwnersFinite DEF Owners
    <3>2. Owners(n)' = Owners(n) \ {s}
      BY <1>1, <2>1 DEF Owners, Agents
    <3>3. Cardinality(Owners(n) \ {s}) = Cardinality(Owners(n)) - 1
      BY <3>1, FS_RemoveElement
    <3>4. Cardinality(Owners(n)) # 0
      BY <3>1, FS_EmptySet
    <3>5. Copies(n)' = Copies(n) - 1
      BY <2>0, <2>1, <3>4 DEF Copies, Lists!BagRemove, TypeInv, StoreOK, IsListOf, IsABag
    <3> QED
      BY <2>0, <3>2, <3>3, <3>5
  <2>2. CASE n # m
    <3>1. Owners(n)' = Owners(n)
      BY <1>1, <1>3, <2>2 DEF Owners, Agents
    <3>2. Copies(n)' = Copies(n)
      BY <2>2 DEF Copies, Lists!BagRemove
    <3> QED
      BY <2>0, <3>1, <3>2
  <2> QED
    BY <2>1, <2>2
<1> QED
  BY <1>2, <1>4 DEF OwnInv, Counted

\* What is left of a sequence of calls when the first is made.
LEMMA TailFacts ==
    ASSUME NEW q \in Seq(Call), q # <<>>
    PROVE  /\ Len(q) \in Nat \ {0} /\ DOMAIN q = 1 .. Len(q)
           /\ Len(Tail(q)) = Len(q) - 1 /\ DOMAIN Tail(q) = 1 .. Len(q) - 1
           /\ \A i \in 1 .. Len(q) - 1 : Tail(q)[i] = q[i + 1]
           /\ (Len(q) # 1 => Tail(q) # <<>>)
<1>1. Len(q) \in Nat \ {0} /\ DOMAIN q = 1 .. Len(q)
  OBVIOUS
<1>2. Tail(q) \in Seq(Call) /\ Len(Tail(q)) = Len(q) - 1
  BY <1>1
<1>3. DOMAIN Tail(q) = 1 .. Len(q) - 1 /\ \A i \in 1 .. Len(q) - 1 : Tail(q)[i] = q[i + 1]
  BY <1>1, <1>2
<1>4. Len(q) # 1 => Len(Tail(q)) # 0
  BY <1>1, <1>2
<1>5. Len(<<>>) = 0
  OBVIOUS
<1> QED
  BY <1>1, <1>2, <1>3, <1>4, <1>5

\* The last call, or the next one, of slot s has been made: the copy goes with
\* the call "lrem", and no other call is about it.
LEMMA OwnRemove ==
    ASSUME IsFiniteSet(Slots), TypeInv, OwnInv, NEW s \in Slots, MakeCall(s)
    PROVE  OwnInv'
<1> DEFINE j == job[s]
           k == Advance(j)
           q == j.todo
           m == j.msg
<1>1. /\ job' = [job EXCEPT ![s] = k] /\ UNCHANGED up
      /\ proc' = IF q[1] = "lrem" THEN Lists!BagRemove(proc, m) ELSE proc
  BY DEF MakeCall, Do
<1>2. j.pc \in {"run", "mend", "drop"} /\ q # <<>>
  BY DEF MakeCall, Running
<1>3. Sound(j)
  BY DEF OwnInv, Quiet
<1>4. j \in Job /\ m \in Msg /\ q \in Seq(Call)
  BY <1>2 DEF TypeInv, JobsGood, GoodJob, Agents, GoodCalls
<1>5. /\ Len(q) \in Nat \ {0} /\ DOMAIN q = 1 .. Len(q)
      /\ Len(Tail(q)) = Len(q) - 1 /\ DOMAIN Tail(q) = 1 .. Len(q) - 1
      /\ \A i \in 1 .. Len(q) - 1 : Tail(q)[i] = q[i + 1]
      /\ (Len(q) # 1 => Tail(q) # <<>>)
  BY <1>2, <1>4, TailFacts
<1>6. CASE Len(q) = 1
  <2>1. k = Idle
    BY <1>6 DEF Advance
  <2>2. Sound(k) /\ \A n : ~ForCopy(k, n)
    BY <2>1 DEF Idle, Sound, Once, ForCopy
  <2>3. HasLrem(q) <=> q[1] = "lrem"
    BY <1>5, <1>6 DEF HasLrem
  <2> HIDE DEF k, q, m
  <2>4. CASE q[1] = "lrem"
    BY <1>1, <1>2, <1>3, <1>4, <2>2, <2>3, <2>4, OwnGone DEF ForCopy, q, m
  <2>5. CASE q[1] # "lrem"
    BY <1>1, <1>2, <2>2, <2>3, <2>5, OwnPut DEF ForCopy, q
  <2> QED
    BY <2>4, <2>5
<1>7. CASE Len(q) # 1
  <2>1. k = [j EXCEPT !.todo = Tail(q)]
    BY <1>7 DEF Advance
  <2>2. k.pc = j.pc /\ k.at = j.at /\ k.err = j.err /\ k.msg = m /\ k.todo = Tail(q)
    BY <1>4, <2>1 DEF Job
  <2> DEFINE p == Tail(q)
  <2>3. \A i \in DOMAIN p : i + 1 \in DOMAIN q /\ p[i] = q[i + 1]
    BY <1>5
  <2>4. Once(p)
    <3> SUFFICES ASSUME NEW i1 \in DOMAIN p, NEW i2 \in DOMAIN p, p[i1] = "lrem", p[i2] = "lrem"
                 PROVE  i1 = i2
      BY DEF Once
    <3>1. i1 + 1 = i2 + 1
      BY <1>3, <2>3 DEF Sound, Once
    <3> QED
      BY <1>5, <3>1
  <2>5. HasLrem(p) <=> HasLrem(q) /\ q[1] # "lrem"
    <3>1. ASSUME HasLrem(p) PROVE HasLrem(q) /\ q[1] # "lrem"
      <4>1. PICK i \in DOMAIN p : p[i] = "lrem"
        BY <3>1 DEF HasLrem
      <4>2. i + 1 \in DOMAIN q /\ q[i + 1] = "lrem" /\ i \in Nat \ {0} /\ 1 \in DOMAIN q
        BY <1>5, <2>3, <4>1
      <4>3. q[1] # "lrem"
        BY <1>3, <4>2 DEF Sound, Once
      <4> QED
        BY <4>2, <4>3 DEF HasLrem
    <3>2. ASSUME HasLrem(q), q[1] # "lrem" PROVE HasLrem(p)
      <4>1. PICK i \in DOMAIN q : q[i] = "lrem"
        BY <3>2 DEF HasLrem
      <4>2. i - 1 \in DOMAIN p /\ p[i - 1] = q[i]
        <5>1. i \in 2 .. Len(q)
          BY <1>5, <3>2, <4>1
        <5>2. i - 1 \in 1 .. Len(q) - 1 /\ (i - 1) + 1 = i
          BY <1>5, <5>1
        <5> QED
          BY <1>5, <5>2
      <4> QED
        BY <4>1, <4>2 DEF HasLrem
    <3> QED
      BY <3>1, <3>2
  <2>6. p # <<>>
    BY <1>5, <1>7
  <2> HIDE DEF k, p
  <2>7. Sound(k)
    BY <1>3, <2>2, <2>4 DEF Sound, p
  <2>8. \A n : ForCopy(k, n) <=> n = m /\ HasLrem(p)
    BY <1>2, <2>2, <2>6 DEF ForCopy, p
  <2>9. \A n : ForCopy(j, n) <=> n = m /\ HasLrem(q)
    BY <1>2 DEF ForCopy
  <2>10. q[1] = "lrem" => HasLrem(q)
    BY <1>5 DEF HasLrem
  <2> HIDE DEF j, q, m
  <2>11. CASE q[1] = "lrem"
    BY <1>1, <1>4, <2>5, <2>7, <2>8, <2>9, <2>10, <2>11, OwnGone DEF j
  <2>12. CASE q[1] # "lrem"
    BY <1>1, <2>5, <2>7, <2>8, <2>9, <2>12, OwnPut DEF j
  <2> QED
    BY <2>11, <2>12
<1> QED
  BY <1>6, <1>7

\* A slot goes on with its copy, or starts on the calls that end with it.
LEMMA OwnMoves ==
    ASSUME TypeInv, OwnInv, NEW s \in Slots, NEW k, job' = [job EXCEPT ![s] = k],
           job[s].pc \notin {"idle", "run", "mend", "drop"}, k.msg = job[s].msg, Sound(k),
           \/ k.pc \notin {"idle", "run", "mend", "drop"}
           \/ k.pc \in {"run", "mend", "drop"} /\ HasLrem(k.todo),
           UNCHANGED <<proc, up>>
    PROVE  OwnInv'
<1>1. Sound(job[s])
  BY DEF OwnInv, Quiet
<1>2. \A m : ForCopy(job[s], m) <=> job[s].msg = m
  BY <1>1 DEF ForCopy, Sound
<1>3. \A m : ForCopy(k, m) <=> k.msg = m
  BY DEF ForCopy, Sound
<1> QED
  BY <1>2, <1>3, OwnPut

\* The forms of such a step: to another point of the program ...
LEMMA OwnBecomes ==
    ASSUME TypeInv, OwnInv, NEW s \in Slots, NEW pc, NEW at, NEW err,
           \/ job' = [job EXCEPT ![s].pc = pc] /\ at = job[s].at /\ err = job[s].err
           \/ job' = [job EXCEPT ![s] = [@ EXCEPT !.pc = pc, !.at = at, !.err = err]]
           \/ job' = [job EXCEPT ![s] = [@ EXCEPT !.pc = pc, !.err = err]] /\ at = job[s].at,
           job[s].pc \notin {"idle", "run", "mend", "drop"},
           pc \notin {"idle", "moving", "cancelled", "confirm", "run", "mend", "drop"},
           at \notin {"confirmq", "confirmpool"}, err # "cancelled",
           UNCHANGED <<proc, up>>
    PROVE  OwnInv'
<1> DEFINE k == [job[s] EXCEPT !.pc = pc, !.at = at, !.err = err]
<1>1. job[s] \in Job /\ Sound(job[s])
  BY DEF TypeInv, JobsGood, GoodJob, Agents, OwnInv, Quiet
<1>2. /\ k.pc = pc /\ k.at = at /\ k.err = err
      /\ k.msg = job[s].msg /\ k.todo = job[s].todo
  BY <1>1 DEF Job
<1>3. job' = [job EXCEPT ![s] = k]
  <2> DEFINE k1 == [job[s] EXCEPT !.pc = pc]
             k2 == [job[s] EXCEPT !.pc = pc, !.err = err]
  <2>1. at = job[s].at /\ err = job[s].err => k1 = k
    BY <1>1 DEF Job
  <2>2. at = job[s].at => k2 = k
    BY <1>1 DEF Job
  <2>3. CASE job' = [job EXCEPT ![s].pc = pc] /\ at = job[s].at /\ err = job[s].err
    <3>1. job' = [job EXCEPT ![s] = k1]
      BY <2>3
    <3> QED
      BY <2>1, <2>3, <3>1
  <2>4. CASE job' = [job EXCEPT ![s] = [@ EXCEPT !.pc = pc, !.at = at, !.err = err]]
    BY <2>4
  <2>5. CASE job' = [job EXCEPT ![s] = [@ EXCEPT !.pc = pc, !.err = err]] /\ at = job[s].at
    <3>1. job' = [job EXCEPT ![s] = k2]
      BY <2>5
    <3> QED
      BY <2>2, <2>5, <3>1
  <2> HIDE DEF k
  <2> QED
    BY <2>3, <2>4, <2>5
<1> HIDE DEF k
<1>4. Sound(k)
  BY <1>1, <1>2 DEF Sound
<1> QED
  BY <1>2, <1>3, <1>4, OwnMoves

\* ... from the same place, without or with an error ...
LEMMA OwnGoesTo ==
    ASSUME TypeInv, OwnInv, NEW s \in Slots, NEW pc,
           job' = [job EXCEPT ![s].pc = pc],
           job[s].pc \notin {"idle", "run", "mend", "drop"},
           pc \notin {"idle", "moving", "cancelled", "confirm", "run", "mend", "drop"},
           UNCHANGED <<proc, up>>
    PROVE  OwnInv'
<1> DEFINE at == job[s].at
           err == job[s].err
<1>1. at \notin {"confirmq", "confirmpool"} /\ err # "cancelled"
  BY DEF OwnInv, Quiet, Sound
<1>2. job' = [job EXCEPT ![s].pc = pc] /\ at = job[s].at /\ err = job[s].err
  OBVIOUS
<1> HIDE DEF at, err
<1> QED
  BY <1>1, <1>2, OwnBecomes

\* A decision that notes an error and has no calls to make yet.
LEMMA OwnErrs ==
    ASSUME TypeInv, OwnInv, NEW s \in Slots, NEW pc, NEW err,
           job' = [job EXCEPT ![s] = [@ EXCEPT !.pc = pc, !.err = err]],
           job[s].pc \notin {"idle", "run", "mend", "drop"},
           pc \notin {"idle", "moving", "cancelled", "confirm", "run", "mend", "drop"},
           err # "cancelled",
           UNCHANGED <<proc, up>>
    PROVE  OwnInv'
<1> DEFINE at == job[s].at
<1>1. at \notin {"confirmq", "confirmpool"}
  BY DEF OwnInv, Quiet, Sound
<1>2. job' = [job EXCEPT ![s] = [@ EXCEPT !.pc = pc, !.err = err]] /\ at = job[s].at
  OBVIOUS
<1> HIDE DEF at
<1> QED
  BY <1>1, <1>2, OwnBecomes

\* ... and to the calls of a handler.
LEMMA OwnCalls ==
    ASSUME TypeInv, OwnInv, NEW s \in Slots, NEW q,
           q \in {Succeeded, Failed, Retried, <<"delenq", "lrem">>},
           Finish(s, q) \/ Mend(s, q),
           job[s].pc \notin {"idle", "run", "mend", "drop"},
           UNCHANGED <<proc, up>>
    PROVE  OwnInv'
<1>1. job[s] \in Job /\ Sound(job[s])
  BY DEF TypeInv, JobsGood, GoodJob, Agents, OwnInv, Quiet
<1> DEFINE p == Append(q, "release")
<1>2. Once(p) /\ HasLrem(p)
  BY RemovingCalls
<1>3. PICK pc \in {"run", "mend"} : job' = [job EXCEPT ![s] = [@ EXCEPT !.pc = pc, !.todo = p]]
  <2>1. Finish(s, q) => job' = [job EXCEPT ![s] = [@ EXCEPT !.pc = "run", !.todo = p]]
    BY DEF Finish
  <2>2. Mend(s, q) => job' = [job EXCEPT ![s] = [@ EXCEPT !.pc = "mend", !.todo = p]]
    BY DEF Mend
  <2> HIDE DEF p
  <2> QED
    BY <2>1, <2>2
<1> HIDE DEF p
<1> DEFINE k == [job[s] EXCEPT !.pc = pc, !.todo = p]
<1>4. /\ k.pc = pc /\ k.todo = p
      /\ k.at = job[s].at /\ k.err = job[s].err /\ k.msg = job[s].msg
  BY <1>1 DEF Job
<1>5. job' = [job EXCEPT ![s] = k] /\ pc \in {"run", "mend"}
  BY <1>3
<1> HIDE DEF k
<1>6. Sound(k)
  BY <1>1, <1>2, <1>4, <1>5 DEF Sound
<1> QED
  BY <1>2, <1>4, <1>5, <1>6, OwnMoves

-----------------------------------------------------------------------------
(* Without faults every step keeps the copies counted.                     *)

\* The steps that only a fault takes, or only a job that one has touched.
LEMMA NoFaultySteps ==
    ASSUME MaxFaults = 0, TypeInv, OwnInv, NEW s \in Slots
    PROVE  /\ \A m : ~PopOnly(s, m) /\ ~PopUnanswered(m)
           /\ ~PushProcessing(s) /\ ~PushProcessingFails(s) /\ ~LockFails(s) /\ ~LookUpFails(s)
           /\ ~RepairFails(s) /\ ~CheckDBFails(s) /\ ~ContextEnds(s)
           /\ ~LoadCancelled(s) /\ ~DispatchConfirm(s) /\ ~TakeConfirm(s) /\ ~Confirm(s)
           /\ ~ConfirmExpires(s)
           /\ \A a : ~CallFails(a) /\ ~CallUnanswered(a)
<1>1. Sound(job[s]) /\ up = "up"
  BY DEF OwnInv, Quiet
<1>2. \A m : ~PopOnly(s, m) /\ ~PopUnanswered(m)
  BY NoFault DEF PopOnly, PopUnanswered
<1>3. /\ ~PushProcessingFails(s) /\ ~LockFails(s) /\ ~LookUpFails(s)
      /\ ~RepairFails(s) /\ ~CheckDBFails(s)
  BY NoFault DEF PushProcessingFails, LockFails, LookUpFails, RepairFails, CheckDBFails
<1>4. ~ContextEnds(s)
  BY <1>1, NoFault DEF ContextEnds
<1>5. \A a : ~CallFails(a) /\ ~CallUnanswered(a)
  BY NoFault DEF CallFails, CallUnanswered
<1>6. /\ ~PushProcessing(s) /\ ~LoadCancelled(s) /\ ~DispatchConfirm(s) /\ ~TakeConfirm(s)
      /\ ~Confirm(s) /\ ~ConfirmExpires(s)
  BY <1>1 DEF Sound, PushProcessing, LoadCancelled, DispatchConfirm, TakeConfirm, Confirm, ConfirmExpires
<1> QED
  BY <1>2, <1>3, <1>4, <1>5, <1>6

\* The consumer.
LEMMA OwnConsumer ==
    ASSUME TypeInv, OwnInv, NEW s \in Slots,
           \/ TakeLock(s) \/ LockBusy(s) \/ LookUp(s) \/ Repair(s) \/ RepairFindsNothing(s)
           \/ CheckDB(s) \/ Dispatch(s) \/ DispatchFull(s)
    PROVE  OwnInv'
<1>0. Sound(job[s]) /\ job[s] \in Job
  BY DEF OwnInv, Quiet, TypeInv, JobsGood, GoodJob, Agents
<1>1. CASE TakeLock(s)
  <2>1. /\ job' = [job EXCEPT ![s].pc = "locked"] /\ UNCHANGED <<proc, up>> /\ job[s].pc = "popped"
    BY <1>1 DEF TakeLock, Become
  <2> QED
    BY <2>1, OwnGoesTo
<1>2. CASE LockBusy(s)
  <2> DEFINE k == [job[s] EXCEPT !.pc = "drop", !.todo = <<"lrem">>]
  <2>1. job' = [job EXCEPT ![s] = k] /\ UNCHANGED <<proc, up>> /\ job[s].pc = "popped"
    BY <1>2 DEF LockBusy, store
  <2>2. /\ k.pc = "drop" /\ k.todo = <<"lrem">>
        /\ k.at = job[s].at /\ k.err = job[s].err /\ k.msg = job[s].msg
    BY <1>0 DEF Job
  <2> HIDE DEF k
  <2>3. Sound(k) /\ HasLrem(k.todo)
    BY <1>0, <2>2, RemovingCalls DEF Sound
  <2> QED
    BY <2>1, <2>2, <2>3, OwnMoves
<1>3. CASE LookUp(s)
  <2>1. PICK pc \in {"found", "checkdb"} : job' = [job EXCEPT ![s].pc = pc]
    BY <1>3 DEF LookUp, Become
  <2>2. UNCHANGED <<proc, up>> /\ job[s].pc = "locked"
    BY <1>3 DEF LookUp, store
  <2>3. pc \notin {"idle", "moving", "cancelled", "confirm", "run", "mend", "drop"}
    BY <2>1
  <2> QED
    BY <2>1, <2>2, <2>3, OwnGoesTo
<1>4. CASE Repair(s)
  <2>1. Mend(s, <<"delenq", "lrem">>) /\ UNCHANGED <<proc, up>> /\ job[s].pc = "found"
    BY <1>4 DEF Repair
  <2> QED
    BY <2>1, OwnCalls
<1>5. CASE RepairFindsNothing(s)
  <2>1. Mend(s, Failed) /\ UNCHANGED <<proc, up>> /\ job[s].pc = "found"
    BY <1>5 DEF RepairFindsNothing, store
  <2> QED
    BY <2>1, OwnCalls
<1>6. CASE CheckDB(s)
  <2>1. /\ UNCHANGED <<proc, up>> /\ job[s].pc = "checkdb"
        /\ Mend(s, Succeeded) \/ job' = [job EXCEPT ![s].pc = "dispatch"]
    BY <1>6 DEF CheckDB, store, Become
  <2>2. CASE Mend(s, Succeeded)
    BY <2>1, <2>2, OwnCalls
  <2>3. CASE job' = [job EXCEPT ![s].pc = "dispatch"]
    BY <2>1, <2>3, OwnGoesTo
  <2> QED
    BY <2>1, <2>2, <2>3
<1>7. CASE Dispatch(s)
  <2>1. /\ job' = [job EXCEPT ![s] = [@ EXCEPT !.pc = "submit", !.at = "submitq", !.err = "none"]]
        /\ UNCHANGED <<proc, up>> /\ job[s].pc = "dispatch"
    BY <1>7 DEF Dispatch, store
  <2> DEFINE pc == "submit"
             at == "submitq"
             err == "none"
  <2>2. /\ job' = [job EXCEPT ![s] = [@ EXCEPT !.pc = pc, !.at = at, !.err = err]]
        /\ pc \notin {"idle", "moving", "cancelled", "confirm", "run", "mend", "drop"}
        /\ at \notin {"confirmq", "confirmpool"} /\ err # "cancelled"
        /\ job[s].pc \notin {"idle", "run", "mend", "drop"}
    BY <2>1
  <2> HIDE DEF pc, at, err
  <2> QED
    BY <2>1, <2>2, OwnBecomes
<1>8. CASE DispatchFull(s)
  <2>1. /\ job' = [job EXCEPT ![s].pc = "submit"] /\ UNCHANGED <<proc, up>> /\ job[s].pc = "dispatch"
    BY <1>8 DEF DispatchFull, store, Become
  <2> QED
    BY <2>1, OwnGoesTo
<1> QED
  BY <1>1, <1>2, <1>3, <1>4, <1>5, <1>6, <1>7, <1>8

\* The pool worker, or the consumer in its place.
LEMMA OwnPool ==
    ASSUME TypeInv, OwnInv, NEW s \in Slots,
           \/ TakeSubmit(s) \/ LoadFails(s) \/ CallUpstream(s) \/ Accepted(s) \/ Refused(s)
           \/ FailedButSubmitted(s) \/ FailedSubmit(s)
    PROVE  OwnInv'
<1>0. Sound(job[s]) /\ job[s] \in Job
  BY DEF OwnInv, Quiet, TypeInv, JobsGood, GoodJob, Agents
<1>1. CASE TakeSubmit(s)
  <2> DEFINE k == [job[s] EXCEPT !.at = "pool"]
  <2>1. job' = [job EXCEPT ![s] = k] /\ UNCHANGED <<proc, up>>
    BY <1>1 DEF TakeSubmit, store
  <2>2. /\ k.at = "pool" /\ k.pc = job[s].pc /\ k.todo = job[s].todo
        /\ k.err = job[s].err /\ k.msg = job[s].msg
    BY <1>0 DEF Job
  <2> HIDE DEF k
  <2>3. Sound(k) /\ \A m : ForCopy(k, m) <=> ForCopy(job[s], m)
    BY <1>0, <2>2 DEF Sound, ForCopy
  <2> QED
    BY <2>1, <2>3, OwnPut
<1>2. CASE LoadFails(s) \/ Refused(s)
  <2>1. PICK e \in {"final", "transient", "timeout"} :
          job' = [job EXCEPT ![s] = [@ EXCEPT !.pc = "failed", !.err = e]]
    BY <1>2 DEF LoadFails, Refused
  <2>2. UNCHANGED <<proc, up>> /\ job[s].pc \in {"submit", "calling"}
    BY <1>2 DEF LoadFails, Refused, Try, store
  <2> DEFINE pc == "failed"
  <2>3. /\ job' = [job EXCEPT ![s] = [@ EXCEPT !.pc = pc, !.err = e]]
        /\ pc \notin {"idle", "moving", "cancelled", "confirm", "run", "mend", "drop"}
        /\ e # "cancelled" /\ job[s].pc \notin {"idle", "run", "mend", "drop"}
    BY <2>1, <2>2
  <2> HIDE DEF pc
  <2> QED
    BY <2>2, <2>3, OwnErrs
<1>3. CASE CallUpstream(s)
  <2>1. job' = [job EXCEPT ![s].pc = "calling"] /\ UNCHANGED <<proc, up>> /\ job[s].pc = "submit"
    BY <1>3 DEF CallUpstream, Try, store, Become
  <2> QED
    BY <2>1, OwnGoesTo
<1>4. CASE Accepted(s)
  <2>1. Finish(s, Succeeded) /\ UNCHANGED <<proc, up>> /\ job[s].pc = "calling"
    BY <1>4 DEF Accepted, store
  <2> QED
    BY <2>1, OwnCalls
<1>5. CASE FailedButSubmitted(s)
  <2>1. Finish(s, Succeeded) /\ UNCHANGED <<proc, up>> /\ job[s].pc = "failed"
    BY <1>5 DEF FailedButSubmitted, store
  <2> QED
    BY <2>1, OwnCalls
<1>6. CASE FailedSubmit(s)
  <2>1. /\ Finish(s, Retried) \/ Finish(s, Failed)
        /\ UNCHANGED <<proc, up>> /\ job[s].pc = "failed"
    BY <1>6 DEF FailedSubmit, store
  <2> QED
    BY <2>1, OwnCalls
<1> QED
  BY <1>1, <1>2, <1>3, <1>4, <1>5, <1>6

\* The calls of the retrier and the scanner remove no copy; the reaper and the
\* rollback make none.
LEMMA OwnServiceCall ==
    ASSUME TypeInv, OwnInv, NEW a \in Service, MakeCall(a)
    PROVE  OwnInv'
<1> DEFINE q == job[a].todo
           k == Advance(job[a])
<1>1. /\ job' = [job EXCEPT ![a] = k] /\ UNCHANGED up
      /\ proc' = IF q[1] = "lrem" THEN Lists!BagRemove(proc, job[a].msg) ELSE proc
  BY DEF MakeCall, Do
<1>2. job[a].pc # "idle" /\ q # <<>>
  BY DEF MakeCall, Running
<1>3. a \in {"retrier", "scanner"}
  BY <1>2 DEF OwnInv, Quiet, Idle, Service
<1>4. ~HasLrem(q)
  BY <1>3 DEF OwnInv, Quiet
<1>5. job[a] \in Job /\ q \in Seq(Call)
  BY DEF TypeInv, JobsGood, GoodJob, Agents, Job
<1>6. /\ Len(q) \in Nat \ {0} /\ DOMAIN q = 1 .. Len(q)
      /\ DOMAIN Tail(q) = 1 .. Len(q) - 1
      /\ \A i \in 1 .. Len(q) - 1 : Tail(q)[i] = q[i + 1]
  BY <1>2, <1>5, TailFacts
<1>7. UNCHANGED <<proc, up>>
  BY <1>1, <1>4, <1>6 DEF HasLrem
<1>8. ~HasLrem(k.todo)
  <2>1. CASE Len(q) = 1
    <3>1. k.todo = <<>>
      BY <2>1 DEF Advance, Idle
    <3> QED
      BY <3>1 DEF HasLrem
  <2>2. CASE Len(q) # 1
    <3>1. k.todo = Tail(q)
      BY <1>5, <2>2 DEF Advance, Job
    <3>2. ASSUME HasLrem(Tail(q)) PROVE FALSE
      <4>1. PICK i \in DOMAIN Tail(q) : Tail(q)[i] = "lrem"
        BY <3>2 DEF HasLrem
      <4>2. i + 1 \in DOMAIN q /\ q[i + 1] = "lrem"
        BY <1>6, <4>1
      <4> QED
        BY <1>4, <4>2 DEF HasLrem
    <3> QED
      BY <3>1, <3>2
  <2> QED
    BY <2>1, <2>2
<1> HIDE DEF k, q
<1> QED
  BY <1>1, <1>3, <1>7, <1>8, OwnService

\* What the retrier and the scanner have to call when they have decided.
ServiceCalls == {<<>>, <<"db1">>, <<"hset", "db1">>, <<"push">>, <<"zback">>,
                 <<"dlqrem", "db1">>, <<"dlqrem", "hset", "db1">>}

\* The retrier and the scanner decide what to do.
LEMMA Decides ==
    ASSUME TypeInv,
           \/ (\E m \in retry : TakeDue(m)) \/ DecideDue
           \/ \E a \in {"retrier", "scanner"} : Enqueue(a)
           \/ (\E m \in BagToSet(dlq) : TakeDead(m)) \/ DecideDead \/ Reopen \/ Rescue
    PROVE  \E a \in {"retrier", "scanner"} : \E k :
              job' = [job EXCEPT ![a] = k] /\ k.todo \in ServiceCalls \cup {job[a].todo}
<1> DEFINE Goes(a) == \E k : job' = [job EXCEPT ![a] = k] /\ k.todo \in ServiceCalls \cup {job[a].todo}
<1>2. job["retrier"] \in Job /\ job["scanner"] \in Job
  BY DEF TypeInv, JobsGood, GoodJob, Agents, Service
<1>4. ASSUME NEW a \in {"retrier", "scanner"}, NEW pc, job' = [job EXCEPT ![a].pc = pc]
      PROVE  Goes(a)
  <2> DEFINE k == [job[a] EXCEPT !.pc = pc]
  <2>1. k.todo = job[a].todo /\ job' = [job EXCEPT ![a] = k]
    BY <1>2, <1>4 DEF Job
  <2> HIDE DEF k
  <2> QED
    BY <2>1
<1>5. ASSUME NEW a \in {"retrier", "scanner"}, NEW q \in ServiceCalls, Run(a, q)
      PROVE  Goes(a)
  <2> DEFINE k == [job[a] EXCEPT !.pc = "run", !.todo = q]
  <2>1. k.todo = q /\ job' = [job EXCEPT ![a] = k]
    BY <1>2, <1>5 DEF Job, Run
  <2> HIDE DEF k
  <2> QED
    BY <1>5, <2>1
<1>6. ASSUME NEW a \in {"retrier", "scanner"}, NEW pc, NEW m, Start(a, pc, m)
      PROVE  Goes(a)
  <2> DEFINE k == [Idle EXCEPT !.pc = pc, !.msg = m]
  <2>1. k.todo = <<>> /\ job' = [job EXCEPT ![a] = k]
    BY <1>6 DEF Start, Idle
  <2> HIDE DEF k
  <2> QED
    BY <2>1 DEF ServiceCalls
<1>7. ASSUME NEW a \in {"retrier", "scanner"}, job' = [job EXCEPT ![a] = Idle]
      PROVE  Goes(a)
  <2>1. Idle.todo \in ServiceCalls
    BY DEF Idle, ServiceCalls
  <2> QED
    BY <1>7, <2>1
<1>8. /\ <<"db1">> \in ServiceCalls /\ <<"hset", "db1">> \in ServiceCalls
      /\ <<"push">> \in ServiceCalls /\ <<"zback">> \in ServiceCalls
      /\ <<"dlqrem", "db1">> \in ServiceCalls /\ <<"dlqrem", "hset", "db1">> \in ServiceCalls
  BY DEF ServiceCalls
<1> HIDE DEF Goes
<1>9. Goes("retrier") \/ Goes("scanner")
  <2>1. CASE \E m \in retry : TakeDue(m)
    BY <1>6, <2>1 DEF TakeDue
  <2>2. CASE DecideDue
    BY <1>4, <1>5, <1>8, <2>2 DEF DecideDue
  <2>3. CASE \E a \in {"retrier", "scanner"} : Enqueue(a)
    BY <1>5, <1>7, <1>8, <2>3 DEF Enqueue
  <2>4. CASE \E m \in BagToSet(dlq) : TakeDead(m)
    BY <1>6, <2>4 DEF TakeDead
  <2>5. CASE DecideDead
    BY <1>4, <1>5, <1>8, <2>5 DEF DecideDead
  <2>6. CASE Reopen
    BY <1>4, <1>7, <2>6 DEF Reopen
  <2>7. CASE Rescue
    BY <1>6, <2>7 DEF Rescue
  <2> QED
    BY <2>1, <2>2, <2>3, <2>4, <2>5, <2>6, <2>7
<1> QED
  BY <1>9 DEF Goes

\* None of those calls removes a copy.
LEMMA OwnDecides ==
    ASSUME TypeInv, OwnInv,
           \/ (\E m \in retry : TakeDue(m)) \/ DecideDue
           \/ \E a \in {"retrier", "scanner"} : Enqueue(a)
           \/ (\E m \in BagToSet(dlq) : TakeDead(m)) \/ DecideDead \/ Reopen \/ Rescue
    PROVE  OwnInv'
<1>1. UNCHANGED <<proc, up>>
  BY DEF TakeDue, DecideDue, Enqueue, TakeDead, DecideDead, Reopen, Rescue, store
<1>2. PICK a \in {"retrier", "scanner"} :
        \E k : job' = [job EXCEPT ![a] = k] /\ k.todo \in ServiceCalls \cup {job[a].todo}
  BY Decides
<1>5. PICK k : job' = [job EXCEPT ![a] = k] /\ k.todo \in ServiceCalls \cup {job[a].todo}
  BY <1>2
<1>3. \A q \in ServiceCalls : ~HasLrem(q)
  BY DEF HasLrem, ServiceCalls
<1>4. ~HasLrem(k.todo)
  BY <1>2, <1>3, <1>5 DEF OwnInv, Quiet
<1> QED
  BY <1>1, <1>2, <1>4, <1>5, OwnService

\* No copy without an owner, hence nothing that the reaper takes for abandoned.
LEMMA NothingToReap ==
    ASSUME MaxFaults = 0, IsFiniteSet(Slots), TypeInv, OwnInv, NEW m \in BagToSet(proc)
    PROVE  ~Reap(m)
<1> SUFFICES ASSUME Reap(m) PROVE FALSE
  OBVIOUS
<1>1. m \in Msg /\ Copies(m) # 0
  BY DEF BagToSet, Copies, TypeInv, StoreOK, IsListOf, IsABag
<1>2. Owners(m) # {}
  BY <1>1, OwnersFinite, FS_EmptySet DEF OwnInv, Counted
<1>3. AtWork(m)
  BY <1>2 DEF Owners, ForCopy, AtWork
<1> QED
  BY <1>3, NoFault DEF Reap

\* Every step, when no fault may happen.
LEMMA OwnStep ==
    ASSUME MaxFaults = 0, IsFiniteSet(Slots)
    PROVE  TypeInv /\ OwnInv /\ [Next]_vars => OwnInv'
<1> SUFFICES ASSUME TypeInv, OwnInv, [Next]_vars PROVE OwnInv'
  OBVIOUS
<1>0. up = "up" /\ job["reaper"] = Idle /\ job["rollback"] = Idle
  BY DEF OwnInv, Quiet
<1>1. CASE UNCHANGED vars
  BY <1>1, OwnSame DEF vars, store, control
<1>2. CASE WorkerNext
  <2>1. ASSUME NEW s \in Slots, NEW m \in BagToSet(pending), Pop(s, m)
        PROVE  OwnInv'
    <3>1. m \in Msg
      BY ListMember DEF TypeInv, StoreOK
    <3> QED
      BY <2>1, <3>1, OwnPop
  <2>2. ASSUME NEW a \in Agents, MakeCall(a)
        PROVE  OwnInv'
    BY <2>2, OwnRemove, OwnServiceCall DEF Agents
  <2>3. \A m : ~PopUnanswered(m)
    BY NoFault DEF PopUnanswered
  <2>4. \A a : ~CallFails(a) /\ ~CallUnanswered(a)
    BY NoFault DEF CallFails, CallUnanswered
  <2> QED
    BY <1>2, <2>1, <2>2, <2>3, <2>4, NoFaultySteps, OwnConsumer, OwnPool DEF WorkerNext
<1>3. CASE MaintenanceNext
  <2>1. ASSUME NEW f \in Feeders, NEW o \in Orders, ReadToDo(f) \/ Mark(f, o) \/ Push(f, o)
        PROVE  OwnInv'
    BY <2>1, OwnSame DEF ReadToDo, Mark, Push, store, control
  <2>2. \A f, o : ~PushFails(f, o)
    BY NoFault DEF PushFails
  <2>3. \A m \in BagToSet(proc) : ~Reap(m) /\ ~TakeRollback(m)
    BY <1>0, NothingToReap DEF TakeRollback
  <2>4. ~DecideReap /\ ~DecideRollback
    BY <1>0 DEF DecideReap, DecideRollback, Idle
  <2>5. ASSUME NEW o \in Orders, MarkExpires(o) \/ LockExpires(o)
        PROVE  OwnInv'
    BY <2>5, OwnSame DEF MarkExpires, LockExpires, control
  <2>6. \A o : ~LockLost(o)
    BY NoFault DEF LockLost
  <2>7. ~Shutdown /\ ~StartRollback /\ ~Exit /\ ~Crash
    BY <1>0, NoFault DEF Shutdown, StartRollback, Exit, Crash
  <2>8. ASSUME NEW f \in Feeders, ReadToDo(f)
        PROVE  OwnInv'
    BY <2>8, OwnSame DEF ReadToDo, store
  <2> QED
    BY <1>3, <2>1, <2>2, <2>3, <2>4, <2>5, <2>6, <2>7, <2>8, OwnDecides DEF MaintenanceNext
<1> QED
  BY <1>1, <1>2, <1>3 DEF Next

\* Hence always.
LEMMA OwnersKept ==
    ASSUME MaxFaults = 0, IsFiniteSet(Slots)
    PROVE  Spec => []OwnInv
<1>1. Init => OwnInv
  <2> SUFFICES ASSUME Init PROVE OwnInv
    OBVIOUS
  <2>1. up = "up" /\ \A a \in Agents : job[a] = Idle
    BY DEF Init
  <2>2. Sound(Idle) /\ ~HasLrem(Idle.todo) /\ \A m : ~ForCopy(Idle, m)
    BY DEF Sound, Once, HasLrem, Idle, ForCopy
  <2>3. Quiet
    BY <2>1, <2>2 DEF Quiet, Agents, Service
  <2>4. \A m \in Msg : Owners(m) = {} /\ Copies(m) = 0
    BY <2>1, <2>2 DEF Init, Owners, Copies, Agents, EmptyBag, SetToBag
  <2> QED
    BY <2>3, <2>4, FS_EmptySet DEF OwnInv, Counted
<1>2. TypeInv /\ OwnInv /\ [Next]_vars => OwnInv'
  BY OwnStep
<1> QED
  BY <1>1, <1>2, TypesKept, PTL DEF Spec

\* Without faults every copy in the processing list has exactly one worker that
\* removes it, however many consumers, pool workers, copies of an order and
\* attempts there are: BLMOVE, the handlers of the consumer and of the pool,
\* and the two loops of the resubmission keep the count.
THEOREM CopiesAreOwned ==
    ASSUME MaxFaults = 0, IsFiniteSet(Slots)
    PROVE  Spec => []ProcessingOwned
<1>1. TypeInv /\ OwnInv => ProcessingOwned
  <2> SUFFICES ASSUME TypeInv, OwnInv, NEW m \in BagToSet(proc)
               PROVE  proc[m] = Cardinality({s \in Slots : Removes(s, m)})
    BY DEF ProcessingOwned
  <2>1. m \in Msg /\ proc[m] = Copies(m)
    BY DEF BagToSet, Copies, TypeInv, StoreOK, IsListOf
  <2>2. {s \in Slots : Removes(s, m)} = Owners(m)
    BY <2>1, RemovesCopy DEF Owners
  <2> QED
    BY <2>1, <2>2 DEF OwnInv, Counted
<1>2. Spec => []OwnInv
  BY OwnersKept
<1> QED
  BY <1>1, <1>2, TypesKept, PTL

=============================================================================
