-------------------------- MODULE DistributedLock --------------------------
(***************************************************************************)
(* The Redis lock of distributed_lock.go on one key (processing:order:oid).*)
(* Every call of AcquireLock makes a lock object with a token of its own,  *)
(* so an object is its own token and takes the key at most once.           *)
(*                                                                         *)
(* Each object has two threads that talk to Redis: renew(), which extends  *)
(* the TTL, and Release(), which deletes the key.  Both do it optimistic-  *)
(* ally: WATCH key, GET key, compare, MULTI/EXEC; an EXEC is refused when  *)
(* the key was touched since the WATCH.  One unit of time is one renewal   *)
(* interval; a renewal attempt lasts at most 2s, far less than a unit.     *)
(***************************************************************************)
EXTENDS Naturals

CONSTANTS Locks,    \* the lock objects, one for each call of AcquireLock
          NoLock,   \* the key does not exist
          TTL,      \* lifetime of the key, in renewal intervals
          MaxMiss   \* bound: renewals of one object that fail in a row

ASSUME LockAssumption == /\ NoLock \notin Locks
                         /\ TTL \in Nat \ {0}
                         /\ MaxMiss \in Nat

VARIABLES key,       \* the token stored under the key, or NoLock
          ttl,       \* renewal intervals the key still has to live
          obj,       \* the state of each lock object, as its user sees it
          renewer,   \* where the renew() goroutine of each object is
          releaser,  \* where the Release() call of each object is
          dirty,     \* connections whose WATCHed key has been touched
          misses,    \* renewals of an object that failed since the last good one
          forced     \* history: objects whose key the reaper deleted

vars == <<key, ttl, obj, renewer, releaser, dirty, misses, forced>>

Thread == {"renew", "release"}
Conn   == Locks \X Thread

Init == /\ key = NoLock
        /\ ttl = 0
        /\ obj = [l \in Locks |-> "new"]
        /\ renewer = [l \in Locks |-> "off"]
        /\ releaser = [l \in Locks |-> "off"]
        /\ dirty = {}
        /\ misses = [l \in Locks |-> 0]
        /\ forced = {}

-----------------------------------------------------------------------------
(* AcquireLock: SETNX with the TTL; on success the renew goroutine starts. *)

\* Mutant of Acquire: SET instead of SETNX.
AcquireBySet(l) ==
    /\ obj[l] = "new"
    /\ key' = l
    /\ ttl' = TTL
    /\ obj' = [obj EXCEPT ![l] = "held"]
    /\ renewer' = [renewer EXCEPT ![l] = "wait"]
    /\ dirty' = Conn
    /\ UNCHANGED <<releaser, misses, forced>>

Acquire(l) ==
    /\ obj[l] = "new"
    /\ key = NoLock
    /\ key' = l
    /\ ttl' = TTL
    /\ obj' = [obj EXCEPT ![l] = "held"]
    /\ renewer' = [renewer EXCEPT ![l] = "wait"]
    /\ dirty' = Conn
    /\ UNCHANGED <<releaser, misses, forced>>

AcquireBusy(l) ==
    /\ obj[l] = "new"
    /\ key # NoLock
    /\ obj' = [obj EXCEPT ![l] = "busy"]
    /\ UNCHANGED <<key, ttl, renewer, releaser, dirty, misses, forced>>

\* SETNX took effect and its answer was lost: AcquireLock returns an error and
\* nobody renews or releases the key.
AcquireLost(l) ==
    /\ obj[l] = "new"
    /\ key = NoLock
    /\ key' = l
    /\ ttl' = TTL
    /\ obj' = [obj EXCEPT ![l] = "lost"]
    /\ dirty' = Conn
    /\ UNCHANGED <<renewer, releaser, misses, forced>>

-----------------------------------------------------------------------------
(* renew and redisExtendIfHeld.                                            *)

\* The context the lock was made with ended (the consumer was scaled down or
\* its channel paused), or Release closed renewStop: the goroutine returns.
RenewStop(l) ==
    /\ renewer[l] = "wait"
    /\ renewer' = [renewer EXCEPT ![l] = "stopped"]
    /\ UNCHANGED <<key, ttl, obj, releaser, dirty, misses, forced>>

\* WATCH and GET.  Another token, or none, ends the goroutine.
RenewRead(l) ==
    /\ renewer[l] = "due"
    /\ renewer' = [renewer EXCEPT ![l] = IF key = l THEN "read" ELSE "stopped"]
    /\ dirty' = dirty \ {<<l, "renew">>}
    /\ UNCHANGED <<key, ttl, obj, releaser, misses, forced>>

\* Mutant of RenewExec: the transaction does not set the TTL.
RenewWithoutExpire(l) ==
    /\ renewer[l] = "read"
    /\ <<l, "renew">> \notin dirty
    /\ renewer' = [renewer EXCEPT ![l] = "wait"]
    /\ misses' = [misses EXCEPT ![l] = 0]
    /\ UNCHANGED <<key, ttl, obj, releaser, dirty, forced>>

\* Mutant of RenewExec: a plain SET with the TTL, without WATCH.
RenewBySet(l) ==
    /\ renewer[l] = "read"
    /\ key' = l
    /\ ttl' = TTL
    /\ dirty' = Conn
    /\ renewer' = [renewer EXCEPT ![l] = "wait"]
    /\ misses' = [misses EXCEPT ![l] = 0]
    /\ UNCHANGED <<obj, releaser, forced>>

\* EXEC of EXPIRE.  EXPIRE touches a key that exists and ignores one that
\* expired since the GET.  (When the answer is lost the loop goes on the same.)
RenewExec(l) ==
    /\ renewer[l] = "read"
    /\ <<l, "renew">> \notin dirty
    /\ ttl' = IF key = NoLock THEN ttl ELSE TTL
    /\ dirty' = IF key = NoLock THEN dirty ELSE Conn
    /\ renewer' = [renewer EXCEPT ![l] = "wait"]
    /\ misses' = [misses EXCEPT ![l] = 0]
    /\ UNCHANGED <<key, obj, releaser, forced>>

\* EXEC refused: the loop starts again, and after its last attempt it
\* answers "not held", which ends the goroutine.
RenewConflict(l) ==
    /\ renewer[l] = "read"
    /\ <<l, "renew">> \in dirty
    /\ \E next \in {"due", "stopped"} : renewer' = [renewer EXCEPT ![l] = next]
    /\ UNCHANGED <<key, ttl, obj, releaser, dirty, misses, forced>>

\* A Redis error or the 2s timeout: `continue`, the next tick tries again.
RenewError(l) ==
    /\ renewer[l] \in {"due", "read"}
    /\ misses[l] < MaxMiss
    /\ renewer' = [renewer EXCEPT ![l] = "wait"]
    /\ misses' = [misses EXCEPT ![l] = @ + 1]
    /\ UNCHANGED <<key, ttl, obj, releaser, dirty, forced>>

-----------------------------------------------------------------------------
(* Release and redisDelIfHeld.                                             *)

\* close(renewStop) and cancel(); the goroutine notices when it next waits.
Release(l) ==
    /\ obj[l] = "held"
    /\ obj' = [obj EXCEPT ![l] = "releasing"]
    /\ releaser' = [releaser EXCEPT ![l] = "start"]
    /\ UNCHANGED <<key, ttl, renewer, dirty, misses, forced>>

\* WATCH and GET.  Another token, or none, is an error: nothing to delete.
ReleaseRead(l) ==
    /\ releaser[l] = "start"
    /\ IF key = l
       THEN /\ releaser' = [releaser EXCEPT ![l] = "read"]
            /\ dirty' = dirty \ {<<l, "release">>}
            /\ UNCHANGED obj
       ELSE /\ releaser' = [releaser EXCEPT ![l] = "done"]
            /\ obj' = [obj EXCEPT ![l] = "notheld"]
            /\ UNCHANGED dirty
    /\ UNCHANGED <<key, ttl, renewer, misses, forced>>

\* Mutant of ReleaseExec: GET, compare and DEL without WATCH.
ReleaseUnwatched(l) ==
    /\ releaser[l] = "read"
    /\ key' = NoLock
    /\ dirty' = Conn
    /\ releaser' = [releaser EXCEPT ![l] = "done"]
    /\ obj' = [obj EXCEPT ![l] = "released"]
    /\ UNCHANGED <<ttl, renewer, misses, forced>>

\* EXEC of DEL; its answer may be lost.
ReleaseExec(l) ==
    /\ releaser[l] = "read"
    /\ <<l, "release">> \notin dirty
    /\ key' = NoLock
    /\ dirty' = IF key = NoLock THEN dirty ELSE Conn
    /\ releaser' = [releaser EXCEPT ![l] = "done"]
    /\ \E answer \in {"released", "error"} : obj' = [obj EXCEPT ![l] = answer]
    /\ UNCHANGED <<ttl, renewer, misses, forced>>

\* EXEC refused: tried again, up to the last attempt.
ReleaseConflict(l) ==
    /\ releaser[l] = "read"
    /\ <<l, "release">> \in dirty
    /\ \/ /\ releaser' = [releaser EXCEPT ![l] = "start"]
          /\ UNCHANGED obj
       \/ /\ releaser' = [releaser EXCEPT ![l] = "done"]
          /\ obj' = [obj EXCEPT ![l] = "error"]
    /\ UNCHANGED <<key, ttl, renewer, dirty, misses, forced>>

\* A Redis error or the 2s timeout: Release returns, the key stays.
ReleaseError(l) ==
    /\ releaser[l] \in {"start", "read"}
    /\ releaser' = [releaser EXCEPT ![l] = "done"]
    /\ obj' = [obj EXCEPT ![l] = "error"]
    /\ UNCHANGED <<key, ttl, renewer, dirty, misses, forced>>

-----------------------------------------------------------------------------
(* Redis and the rest of the program.                                      *)

\* The reaper and the shutdown rollback delete the key without a token.
ForceDelete ==
    /\ key # NoLock
    /\ key' = NoLock
    /\ forced' = forced \cup {key}
    /\ dirty' = Conn
    /\ UNCHANGED <<ttl, obj, renewer, releaser, misses>>

\* Mutant of Tick: SETNX gave the key no TTL.
TickWithoutTTL ==
    /\ \A l \in Locks : renewer[l] \notin {"due", "read"}
    /\ \E l \in Locks : renewer[l] = "wait"
    /\ renewer' = [l \in Locks |-> IF renewer[l] = "wait" THEN "due" ELSE renewer[l]]
    /\ UNCHANGED <<key, ttl, obj, releaser, dirty, misses, forced>>

\* Mutant of Tick: the key outlives its TTL.
TickPastTTL ==
    /\ \A l \in Locks : renewer[l] \notin {"due", "read"}
    /\ key # NoLock
    /\ ttl' = ttl - 1
    /\ renewer' = [l \in Locks |-> IF renewer[l] = "wait" THEN "due" ELSE renewer[l]]
    /\ UNCHANGED <<key, obj, releaser, dirty, misses, forced>>

\* One renewal interval passes: every attempt of the last one has ended.
Tick ==
    /\ \A l \in Locks : renewer[l] \notin {"due", "read"}
    /\ key = NoLock \/ ttl > 0
    /\ \/ key # NoLock
       \/ \E l \in Locks : renewer[l] = "wait"
    /\ ttl' = IF key = NoLock THEN ttl ELSE ttl - 1
    /\ renewer' = [l \in Locks |-> IF renewer[l] = "wait" THEN "due" ELSE renewer[l]]
    /\ UNCHANGED <<key, obj, releaser, dirty, misses, forced>>

\* The TTL ran out.  Whether an expiry refuses a later EXEC depends on the
\* version of Redis; both are possible.
Expire ==
    /\ key # NoLock
    /\ ttl = 0
    /\ key' = NoLock
    /\ dirty' \in {dirty, Conn}
    /\ UNCHANGED <<ttl, obj, renewer, releaser, misses, forced>>

LockNext(l) ==
    \/ Acquire(l) \/ AcquireBusy(l) \/ AcquireLost(l)
    \/ RenewStop(l) \/ RenewRead(l) \/ RenewExec(l) \/ RenewConflict(l) \/ RenewError(l)
    \/ Release(l) \/ ReleaseRead(l) \/ ReleaseExec(l) \/ ReleaseConflict(l) \/ ReleaseError(l)

Next == (\E l \in Locks : LockNext(l)) \/ ForceDelete \/ Tick \/ Expire

Spec == Init /\ [][Next]_vars

\* Time passes and Redis expires keys; a renewal that is due goes on.
Fairness ==
    /\ WF_vars(Tick)
    /\ WF_vars(Expire)
    /\ \A l \in Locks :
         /\ WF_vars(RenewRead(l))
         /\ WF_vars(RenewExec(l) \/ RenewConflict(l) \/ RenewError(l))

FairSpec == Spec /\ Fairness

-----------------------------------------------------------------------------
(* Properties.                                                             *)

ObjState == {"new", "busy", "lost", "held", "releasing", "released", "notheld", "error"}

TypeOK ==
    /\ key \in Locks \cup {NoLock}
    /\ ttl \in 0 .. TTL
    /\ obj \in [Locks -> ObjState]
    /\ renewer \in [Locks -> {"off", "wait", "due", "read", "stopped"}]
    /\ releaser \in [Locks -> {"off", "start", "read", "done"}]
    /\ dirty \subseteq Conn
    /\ misses \in [Locks -> Nat]
    /\ forced \subseteq Locks

\* A user that still holds its lock object, with a live renew goroutine, has
\* the key, as long as fewer than TTL-1 renewals fail in a row and the reaper
\* keeps away: the interval chosen in renew() leaves room for the misses.
HeldIsKept ==
    \A l \in Locks :
        /\ obj[l] = "held"
        /\ renewer[l] \in {"wait", "due", "read"}
        /\ l \notin forced
        => key = l

\* Release that reported success leaves no key of its own behind, whatever
\* the renew goroutine of the same object was doing at that moment.
ReleasedIsGone == \A l \in Locks : obj[l] = "released" => key # l

\* redisDelIfHeld and redisExtendIfHeld change the key only while it carries
\* the caller's token, however expiry, the reaper and a new holder interleave
\* between the GET and the EXEC ("only the holder can release the lock").
OnlyOwnKey ==
    [][\A l \in Locks :
        /\ releaser[l] = "read" /\ releaser'[l] = "done" /\ key' # key => key = l
        /\ renewer[l] = "read" /\ renewer'[l] = "wait" /\ ttl' # ttl => key = l]_vars

\* A key that no renew goroutine extends any more (Release failed, the context
\* ended, or the answer to SETNX was lost) does not block its order for ever.
AbandonedIsFreed ==
    \A l \in Locks : (key = l /\ renewer[l] \in {"off", "stopped"}) ~> key # l

\* The lock implements an exclusive lease.
Lease == INSTANCE LeaseLock
           WITH holder <- key,
                spent <- {l \in Locks : obj[l] \notin {"new", "busy"}}
LeaseSpec == Lease!Spec
=============================================================================
