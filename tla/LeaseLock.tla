----------------------------- MODULE LeaseLock -----------------------------
(***************************************************************************)
(* What distributed_lock.go promises about one key: the lease goes from    *)
(* nobody to one lock object and back to nobody.  It is never handed from  *)
(* one object to another, and an object that let go never has it again.    *)
(***************************************************************************)
CONSTANTS Locks, NoLock

VARIABLES holder,  \* the lock object whose token the key carries, or NoLock
          spent    \* the lock objects that had the lease once

Init == holder = NoLock /\ spent = {}

Grant(l) == /\ holder = NoLock
            /\ l \notin spent
            /\ holder' = l
            /\ spent' = spent \cup {l}

\* Released by its holder, expired, or deleted by the reaper.
Revoke == /\ holder # NoLock
          /\ holder' = NoLock
          /\ UNCHANGED spent

Next == (\E l \in Locks : Grant(l)) \/ Revoke

Spec == Init /\ [][Next]_<<holder, spent>>
=============================================================================
