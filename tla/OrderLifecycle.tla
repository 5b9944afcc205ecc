--------------------------- MODULE OrderLifecycle ---------------------------
(***************************************************************************)
(* What the order queue is for: an order is submitted to the upstream by   *)
(* one worker at a time, never again once the upstream has accepted it,    *)
(* and the order table says "submitted" exactly for accepted orders and    *)
(* "failed" only for orders that were not accepted.                        *)
(***************************************************************************)
EXTENDS Naturals

CONSTANT Orders

VARIABLES dock,     \* "0" to do, "1" submitted, "2" failed
          calling,  \* upstream calls going on for each order
          acked     \* orders the upstream accepted

Init == /\ dock = [o \in Orders |-> "0"]
        /\ calling = [o \in Orders |-> 0]
        /\ acked = {}

Call(o) == /\ calling[o] = 0
           /\ o \notin acked
           /\ calling' = [calling EXCEPT ![o] = 1]
           /\ UNCHANGED <<dock, acked>>

Accept(o) == /\ calling[o] = 1
             /\ calling' = [calling EXCEPT ![o] = 0]
             /\ acked' = acked \cup {o}
             /\ UNCHANGED dock

Refuse(o) == /\ calling[o] = 1
             /\ calling' = [calling EXCEPT ![o] = 0]
             /\ UNCHANGED <<dock, acked>>

Submit(o) == /\ o \in acked
             /\ dock' = [dock EXCEPT ![o] = "1"]
             /\ UNCHANGED <<calling, acked>>

Fail(o) == /\ o \notin acked
           /\ dock' = [dock EXCEPT ![o] = "2"]
           /\ UNCHANGED <<calling, acked>>

\* A failed order is tried again.
Reopen(o) == /\ dock[o] = "2"
             /\ dock' = [dock EXCEPT ![o] = "0"]
             /\ UNCHANGED <<calling, acked>>

Next == \E o \in Orders :
           Call(o) \/ Accept(o) \/ Refuse(o) \/ Submit(o) \/ Fail(o) \/ Reopen(o)

Spec == Init /\ [][Next]_<<dock, calling, acked>>
=============================================================================
