----------------------- MODULE DistributedLock_proofs -----------------------
(***************************************************************************)
(* Proofs about DistributedLock, for any number of lock objects, any TTL   *)
(* and any number of renewals that fail in a row.                          *)
(***************************************************************************)
EXTENDS DistributedLock, TLAPS

-----------------------------------------------------------------------------
(* The inductive invariants.                                               *)

\* Who saw its own token under a key nobody touched since, is still the only
\* one whose token the key can carry: WATCH makes GET and EXEC one step.
WatchedIsOwn ==
    \A l \in Locks :
        /\ releaser[l] = "read" /\ <<l, "release">> \notin dirty => key \in {l, NoLock}
        /\ renewer[l] = "read" /\ <<l, "renew">> \notin dirty => key \in {l, NoLock}

\* An object is used once, and its two threads start in that order.
Stages ==
    \A l \in Locks :
        /\ obj[l] \in {"new", "busy"} => key # l
        /\ obj[l] \in {"new", "busy", "lost"} => renewer[l] = "off"
        /\ releaser[l] \in {"start", "read"} => obj[l] = "releasing"

OwnInv == TypeOK /\ WatchedIsOwn /\ Stages /\ ReleasedIsGone

\* What a live renew goroutine guarantees: the lifetime left makes up for the
\* renewals missed, and for the one that is due.
Renewed ==
    \A l \in Locks :
        /\ misses[l] <= MaxMiss
        /\ obj[l] = "held" /\ renewer[l] \in {"wait", "due", "read"} /\ l \notin forced
           => /\ key = l
              /\ ttl + misses[l] + (IF renewer[l] = "wait" THEN 0 ELSE 1) >= TTL

KeptInv == OwnInv /\ Renewed

-----------------------------------------------------------------------------
(* The initial state has the types, and every step keeps them.             *)

\* The strengthened invariant holds at the start.
LEMMA InitOwn == Init => OwnInv
BY LockAssumption DEF Init, OwnInv, TypeOK, WatchedIsOwn, Stages, ReleasedIsGone, Conn, Thread, ObjState

\* Every step keeps the types.
LEMMA TypeStep == TypeOK /\ [Next]_vars => TypeOK'
<1> SUFFICES ASSUME TypeOK, [Next]_vars PROVE TypeOK'
  OBVIOUS
<1> USE LockAssumption DEF TypeOK, Conn, Thread, ObjState
<1>1. ASSUME NEW l \in Locks, LockNext(l) PROVE TypeOK'
  <2>1. CASE Acquire(l) \/ AcquireBusy(l) \/ AcquireLost(l)
    BY <2>1 DEF Acquire, AcquireBusy, AcquireLost
  <2>2. CASE RenewStop(l) \/ RenewRead(l) \/ RenewConflict(l)
    BY <2>2 DEF RenewStop, RenewRead, RenewConflict
  <2>3. CASE RenewExec(l) \/ RenewError(l)
    BY <2>3 DEF RenewExec, RenewError
  <2>4. CASE Release(l) \/ ReleaseRead(l)
    BY <2>4 DEF Release, ReleaseRead
  <2>5. CASE ReleaseExec(l) \/ ReleaseConflict(l) \/ ReleaseError(l)
    BY <2>5 DEF ReleaseExec, ReleaseConflict, ReleaseError
  <2> QED
    BY <1>1, <2>1, <2>2, <2>3, <2>4, <2>5 DEF LockNext
<1>2. CASE ForceDelete
  BY <1>2 DEF ForceDelete
<1>3. CASE Tick
  BY <1>3 DEF Tick
<1>4. CASE Expire
  BY <1>4 DEF Expire
<1>5. CASE UNCHANGED vars
  BY <1>5 DEF vars
<1> QED
  BY <1>1, <1>2, <1>3, <1>4, <1>5 DEF Next

\* The types of DistributedLock hold in every state, whatever Redis answers.
THEOREM TypeCorrect == Spec => []TypeOK
<1>1. Init => TypeOK
  BY InitOwn DEF OwnInv
<1> QED
  BY <1>1, TypeStep, PTL DEF Spec

-----------------------------------------------------------------------------
(* The optimistic transactions act on the caller's own key only.           *)

\* Every step keeps the invariant of the optimistic transactions.
LEMMA OwnStep == OwnInv /\ [Next]_vars => OwnInv'
<1> SUFFICES ASSUME OwnInv, [Next]_vars PROVE OwnInv'
  OBVIOUS
<1>1. TypeOK /\ TypeOK'
  BY TypeStep DEF OwnInv
<1> USE LockAssumption, <1>1 DEF OwnInv, TypeOK, Conn, Thread, ObjState, WatchedIsOwn, Stages, ReleasedIsGone
<1>2. ASSUME NEW l \in Locks, LockNext(l) PROVE OwnInv'
  <2>1. CASE Acquire(l)
    BY <2>1 DEF Acquire
  <2>2. CASE AcquireBusy(l)
    BY <2>2 DEF AcquireBusy
  <2>3. CASE AcquireLost(l)
    BY <2>3 DEF AcquireLost
  <2>4. CASE RenewStop(l)
    BY <2>4 DEF RenewStop
  <2>5. CASE RenewRead(l)
    BY <2>5 DEF RenewRead
  <2>6. CASE RenewExec(l)
    BY <2>6 DEF RenewExec
  <2>7. CASE RenewConflict(l)
    BY <2>7 DEF RenewConflict
  <2>8. CASE RenewError(l)
    BY <2>8 DEF RenewError
  <2>9. CASE Release(l)
    BY <2>9 DEF Release
  <2>10. CASE ReleaseRead(l)
    BY <2>10 DEF ReleaseRead
  <2>11. CASE ReleaseExec(l)
    BY <2>11 DEF ReleaseExec
  <2>12. CASE ReleaseConflict(l)
    BY <2>12 DEF ReleaseConflict
  <2>13. CASE ReleaseError(l)
    BY <2>13 DEF ReleaseError
  <2> QED
    BY <1>2, <2>1, <2>2, <2>3, <2>4, <2>5, <2>6, <2>7, <2>8, <2>9, <2>10, <2>11, <2>12, <2>13
    DEF LockNext
<1>3. CASE ForceDelete
  BY <1>3 DEF ForceDelete
<1>4. CASE Tick
  BY <1>4 DEF Tick
<1>5. CASE Expire
  BY <1>5 DEF Expire
<1>6. CASE UNCHANGED vars
  BY <1>6 DEF vars
<1> QED
  BY <1>2, <1>3, <1>4, <1>5, <1>6 DEF Next

\* So it holds in every state.
LEMMA OwnAlways == Spec => []OwnInv
BY InitOwn, OwnStep, PTL DEF Spec

\* Release() that answered "deleted" left no key of its own behind, even when
\* renew() of the same object was between its GET and its EXPIRE.
THEOREM ReleasedGone == Spec => []ReleasedIsGone
<1>1. OwnInv => ReleasedIsGone
  BY DEF OwnInv
<1> QED
  BY <1>1, OwnAlways, PTL

\* redisDelIfHeld and redisExtendIfHeld change the key only while it carries
\* the caller's token: the action property OnlyOwnKey.
THEOREM OwnKeyOnly == Spec => OnlyOwnKey
<1> DEFINE Own == \A l \in Locks :
        /\ releaser[l] = "read" /\ releaser'[l] = "done" /\ key' # key => key = l
        /\ renewer[l] = "read" /\ renewer'[l] = "wait" /\ ttl' # ttl => key = l
<1>1. OwnInv /\ [Next]_vars => [Own]_vars
  <2> SUFFICES ASSUME OwnInv, Next, NEW l \in Locks
               PROVE  /\ releaser[l] = "read" /\ releaser'[l] = "done" /\ key' # key => key = l
                      /\ renewer[l] = "read" /\ renewer'[l] = "wait" /\ ttl' # ttl => key = l
    OBVIOUS
  <2> USE LockAssumption DEF OwnInv, TypeOK, WatchedIsOwn, Stages
  <2>1. ASSUME NEW k \in Locks, LockNext(k)
        PROVE  /\ releaser[l] = "read" /\ releaser'[l] = "done" /\ key' # key => key = l
               /\ renewer[l] = "read" /\ renewer'[l] = "wait" /\ ttl' # ttl => key = l
    <3>1. CASE Acquire(k) \/ AcquireBusy(k) \/ AcquireLost(k)
      BY <3>1 DEF Acquire, AcquireBusy, AcquireLost
    <3>2. CASE RenewExec(k)
      BY <3>2 DEF RenewExec
    <3>3. CASE RenewStop(k) \/ RenewRead(k) \/ RenewConflict(k) \/ RenewError(k)
      BY <3>3 DEF RenewStop, RenewRead, RenewConflict, RenewError
    <3>4. CASE ReleaseExec(k)
      BY <3>4 DEF ReleaseExec
    <3>5. CASE Release(k) \/ ReleaseRead(k) \/ ReleaseConflict(k) \/ ReleaseError(k)
      BY <3>5 DEF Release, ReleaseRead, ReleaseConflict, ReleaseError
    <3> QED
      BY <2>1, <3>1, <3>2, <3>3, <3>4, <3>5 DEF LockNext
  <2>2. CASE ForceDelete
    BY <2>2 DEF ForceDelete
  <2>3. CASE Tick
    BY <2>3 DEF Tick
  <2>4. CASE Expire
    BY <2>4 DEF Expire
  <2> QED
    BY <2>1, <2>2, <2>3, <2>4 DEF Next
<1>2. Spec => [][Own]_vars
  BY <1>1, OwnAlways, PTL DEF Spec
<1> QED
  BY <1>2 DEF OnlyOwnKey

-----------------------------------------------------------------------------
(* A held lock is kept, when the TTL leaves room for the missed renewals.  *)

\* Every step keeps what a live renew goroutine guarantees.
LEMMA RenewedStep ==
  ASSUME MaxMiss + 2 <= TTL
  PROVE  KeptInv /\ [Next]_vars => KeptInv'
<1> SUFFICES ASSUME KeptInv, [Next]_vars PROVE Renewed'
  BY OwnStep DEF KeptInv
<1>1. OwnInv'
  BY OwnStep DEF KeptInv
<1>2. TypeOK /\ TypeOK' /\ WatchedIsOwn /\ Stages
  BY <1>1 DEF KeptInv, OwnInv
<1> USE LockAssumption, <1>2 DEF KeptInv, TypeOK, Renewed
<1>3. ASSUME NEW l \in Locks, LockNext(l) PROVE Renewed'
  <2>1. CASE Acquire(l)
    BY <2>1 DEF Acquire
  <2>2. CASE AcquireBusy(l)
    BY <2>2 DEF AcquireBusy
  <2>3. CASE AcquireLost(l)
    BY <2>3 DEF AcquireLost
  <2>4. CASE RenewStop(l)
    BY <2>4 DEF RenewStop
  <2>5. CASE RenewRead(l)
    BY <2>5 DEF RenewRead
  <2>6. CASE RenewExec(l)
    BY <2>6 DEF RenewExec, WatchedIsOwn
  <2>7. CASE RenewConflict(l)
    BY <2>7 DEF RenewConflict
  <2>8. CASE RenewError(l)
    BY <2>8 DEF RenewError
  <2>9. CASE Release(l)
    BY <2>9 DEF Release
  <2>10. CASE ReleaseRead(l)
    BY <2>10 DEF ReleaseRead, Stages
  <2>11. CASE ReleaseExec(l)
    BY <2>11 DEF ReleaseExec, WatchedIsOwn, Stages
  <2>12. CASE ReleaseConflict(l)
    BY <2>12 DEF ReleaseConflict, Stages
  <2>13. CASE ReleaseError(l)
    BY <2>13 DEF ReleaseError, Stages
  <2> QED
    BY <1>3, <2>1, <2>2, <2>3, <2>4, <2>5, <2>6, <2>7, <2>8, <2>9, <2>10, <2>11, <2>12, <2>13
    DEF LockNext
<1>4. CASE ForceDelete
  BY <1>4 DEF ForceDelete
<1>5. CASE Tick
  BY <1>5 DEF Tick
<1>6. CASE Expire
  BY <1>6 DEF Expire
<1>7. CASE UNCHANGED vars
  BY <1>7 DEF vars
<1> QED
  BY <1>3, <1>4, <1>5, <1>6, <1>7 DEF Next

\* A user of the lock whose renew goroutine runs has the key, as long as at
\* most TTL-2 renewals in a row fail and nobody deletes the key by force.
THEOREM HeldKept ==
  ASSUME MaxMiss + 2 <= TTL
  PROVE  Spec => []HeldIsKept
<1>1. Init => KeptInv
  <2>1. Init => OwnInv
    BY InitOwn
  <2>2. Init => Renewed
    <3> SUFFICES ASSUME Init, NEW l \in Locks
                 PROVE  misses[l] <= MaxMiss /\ obj[l] # "held"
      BY DEF Renewed
    <3>1. misses[l] = 0 /\ obj[l] = "new"
      BY DEF Init
    <3> QED
      BY <3>1, LockAssumption
  <2> QED
    BY <2>1, <2>2 DEF KeptInv
<1>2. KeptInv => HeldIsKept
  BY DEF KeptInv, Renewed, HeldIsKept
<1>3. KeptInv /\ [Next]_vars => KeptInv'
  BY RenewedStep
<1> QED
  BY <1>1, <1>2, <1>3, PTL DEF Spec

-----------------------------------------------------------------------------
(* The lock implements the abstract lease.                                 *)

\* Every step of the protocol is a step of the lease, or leaves it alone.
LEMMA LeaseStep == OwnInv /\ [Next]_vars => [Lease!Next]_<<key, {l \in Locks : obj[l] \notin {"new", "busy"}}>>
<1> DEFINE spent == {l \in Locks : obj[l] \notin {"new", "busy"}}
<1> SUFFICES ASSUME OwnInv, [Next]_vars
             PROVE  Lease!Next \/ (key' = key /\ spent' = spent)
  OBVIOUS
<1> USE LockAssumption DEF OwnInv, TypeOK, ObjState
<1>1. ASSUME NEW l \in Locks, Acquire(l) \/ AcquireLost(l) PROVE Lease!Next
  <2>1. key = NoLock /\ key' = l /\ l \notin spent
    BY <1>1 DEF Acquire, AcquireLost
  <2>2. obj' = [obj EXCEPT ![l] = "held"] \/ obj' = [obj EXCEPT ![l] = "lost"]
    BY <1>1 DEF Acquire, AcquireLost
  <2>3. spent' = spent \cup {l}
    BY <2>2
  <2>4. Lease!Grant(l)
    BY <2>1, <2>3 DEF Lease!Grant
  <2> QED
    BY <2>4 DEF Lease!Next
<1>2. ASSUME NEW l \in Locks, AcquireBusy(l) PROVE key' = key /\ spent' = spent
  BY <1>2 DEF AcquireBusy
<1>3. ASSUME NEW l \in Locks,
             RenewStop(l) \/ RenewRead(l) \/ RenewExec(l) \/ RenewConflict(l) \/ RenewError(l)
      PROVE  key' = key /\ spent' = spent
  BY <1>3 DEF RenewStop, RenewRead, RenewExec, RenewConflict, RenewError
<1>4. ASSUME NEW l \in Locks,
             Release(l) \/ ReleaseRead(l) \/ ReleaseConflict(l) \/ ReleaseError(l)
      PROVE  key' = key /\ spent' = spent
  <2>1. key' = key
    BY <1>4 DEF Release, ReleaseRead, ReleaseConflict, ReleaseError
  <2>2. obj[l] \in {"held", "releasing"}
    BY <1>4 DEF Release, ReleaseRead, ReleaseConflict, ReleaseError, Stages
  <2>3. \/ obj' = obj
        \/ \E s \in {"releasing", "notheld", "error"} : obj' = [obj EXCEPT ![l] = s]
    BY <1>4 DEF Release, ReleaseRead, ReleaseConflict, ReleaseError
  <2>4. spent' = spent
    BY <2>2, <2>3
  <2> QED
    BY <2>1, <2>4
<1>5. ASSUME NEW l \in Locks, ReleaseExec(l)
      PROVE  Lease!Next \/ (key' = key /\ spent' = spent)
  <2>1. obj[l] = "releasing" /\ key' = NoLock
    BY <1>5 DEF ReleaseExec, Stages
  <2>2. \E s \in {"released", "error"} : obj' = [obj EXCEPT ![l] = s]
    BY <1>5 DEF ReleaseExec
  <2>3. spent' = spent
    BY <2>1, <2>2
  <2> QED
    BY <2>1, <2>3 DEF Lease!Next, Lease!Revoke
<1>6. CASE ForceDelete \/ Expire
  BY <1>6 DEF ForceDelete, Expire, Lease!Next, Lease!Revoke
<1>7. CASE Tick
  BY <1>7 DEF Tick
<1>8. CASE UNCHANGED vars
  BY <1>8 DEF vars
<1> QED
  BY <1>1, <1>2, <1>3, <1>4, <1>5, <1>6, <1>7, <1>8 DEF Next, LockNext

\* The Redis protocol of AcquireLock, renew and Release, with expiry, lost
\* answers and forced deletes, is an exclusive lease (the module LeaseLock).
THEOREM LockIsLease == Spec => LeaseSpec
<1>1. Init => Lease!Init
  BY DEF Init, Lease!Init
<1> QED
  BY <1>1, LeaseStep, OwnAlways, PTL DEF Spec, LeaseSpec, Lease!Spec
=============================================================================
