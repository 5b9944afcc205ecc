----------------------- MODULE WorkerScaling_proofs -----------------------
(***************************************************************************)
(* The number of workers of a channel (WorkerScaling) is what currWorkers  *)
(* says, and is bounded, for any limits and any number of calls under way. *)
(*                                                                         *)
(* WorkersBounded is not inductive: it does not know who is about to start *)
(* workers.  Budget does: Owed is what the start and the refresher may     *)
(* still start, and Room is how often a call may still start the minimum   *)
(* before a pause takes effect.                                            *)
(***************************************************************************)
EXTENDS WorkerScaling, FiniteSetTheorems, TLAPS

-----------------------------------------------------------------------------
(* The inductive invariant.                                                *)

Count(pc) == Cardinality({c \in Calls : call[c].pc = pc})

\* A resume under way takes room for a start until it has made it; so does the
\* pause that the next resume needs.  A pause under way gives room, because the
\* workers it will stop are still there.
Room == Cardinality(Calls) + Count("cancel") - Count("resume") - (IF paused THEN 1 ELSE 0)

\* What the start and the refresher may still start for a new channel.
Owed ==
    CASE boot \in {"off", "query", "list"} -> Greater(BootWorkers, MinWorkers)
      [] boot = "start"                    -> IF listed THEN toStart ELSE MinWorkers
      [] OTHER -> CASE refresher = "off"   -> IF hids > 0 THEN 0 ELSE MinWorkers
                    [] refresher = "idle"  -> IF known THEN 0 ELSE MinWorkers
                    [] refresher = "start" -> MinWorkers
                    [] OTHER               -> 0

\* Whoever paused or resumed the channel last has not begun a call of the other
\* kind: not every call is about to stop the workers of a channel that is not
\* paused, nor to start those of one that is.
LastMark ==
    /\ (\A c \in Calls : call[c].pc = "cancel") => paused
    /\ (\A c \in Calls : call[c].pc = "resume") => ~paused

\* The refresher begins after the start, which lists the channel that it starts
\* workers for.
Sequence ==
    /\ refresher # "off" => boot = "done"
    /\ boot \in {"start", "done"} /\ listed => hids > 0
    /\ boot = "start" /\ ~listed => toStart = 0

\* The scaler wants a number within the limits.
Wanted == scaler.pc = "adjust" => scaler.desired \in Desired

Budget == currWorkers + Owed <= Top + Greater(BootWorkers, MinWorkers) + MinWorkers * Room

ScalingInv == TypeOK /\ WorkersCounted /\ LastMark /\ Sequence /\ Wanted /\ Budget

-----------------------------------------------------------------------------
(* Counting calls.                                                         *)

\* A call that moves changes the count of where it was and of where it is.
LEMMA CountMoves ==
    ASSUME TypeOK, NEW c \in Calls, NEW k, call' = [call EXCEPT ![c] = k], NEW pc
    PROVE  Count(pc)' = Count(pc) + (IF k.pc = pc THEN 1 ELSE 0) - (IF call[c].pc = pc THEN 1 ELSE 0)
<1> DEFINE S == {x \in Calls : call[x].pc = pc}
           T == {x \in Calls : call'[x].pc = pc}
<1>1. T = IF k.pc = pc THEN S \cup {c} ELSE S \ {c}
  BY DEF TypeOK
<1>2. IsFiniteSet(S)
  BY ScalingAssumption, FS_Subset
<1>3. Cardinality(S) \in Nat
  BY <1>2, FS_CardinalityType
<1>4. Cardinality(S \cup {c}) = IF c \in S THEN Cardinality(S) ELSE Cardinality(S) + 1
  BY <1>2, FS_AddElement
<1>5. Cardinality(S \ {c}) = IF c \in S THEN Cardinality(S) - 1 ELSE Cardinality(S)
  BY <1>2, FS_RemoveElement
<1>6. c \in S <=> call[c].pc = pc
  OBVIOUS
<1>7. Count(pc) = Cardinality(S) /\ Count(pc)' = Cardinality(T)
  BY DEF Count
<1> HIDE DEF S, T
<1> QED
  BY <1>1, <1>3, <1>4, <1>5, <1>6, <1>7

\* The calls that are somewhere are calls; not all of them are if one is not, and
\* some are if one is.
LEMMA CountBounds ==
    ASSUME NEW pc
    PROVE  /\ Count(pc) \in Nat /\ Count(pc) <= Cardinality(Calls)
           /\ Cardinality(Calls) \in Nat /\ Cardinality(Calls) > 0
           /\ (\E c \in Calls : call[c].pc # pc) => Count(pc) < Cardinality(Calls)
           /\ (\E c \in Calls : call[c].pc = pc) => Count(pc) > 0
<1> DEFINE S == {x \in Calls : call[x].pc = pc}
<1>1. S \subseteq Calls /\ IsFiniteSet(Calls) /\ Calls # {}
  BY ScalingAssumption
<1>2. /\ IsFiniteSet(S) /\ Cardinality(S) <= Cardinality(Calls)
      /\ Cardinality(S) = Cardinality(Calls) => S = Calls
  BY <1>1, FS_Subset
<1>3. Cardinality(S) \in Nat /\ Cardinality(Calls) \in Nat
  BY <1>1, <1>2, FS_CardinalityType
<1>4. Cardinality(Calls) # 0
  BY <1>1, FS_EmptySet
<1>5. (\E c \in Calls : call[c].pc # pc) => S # Calls
  OBVIOUS
<1>6. Count(pc) = Cardinality(S)
  BY DEF Count
<1>7. (\E c \in Calls : call[c].pc = pc) => S # {}
  OBVIOUS
<1>8. Cardinality(S) = 0 <=> S = {}
  BY <1>2, FS_EmptySet
<1> HIDE DEF S
<1> QED
  BY <1>2, <1>3, <1>4, <1>5, <1>6, <1>7, <1>8

\* How much room there is at least and at most.
LEMMA RoomBounds ==
    ASSUME LastMark, paused \in BOOLEAN
    PROVE  Room \in Nat /\ Room <= 2 * Cardinality(Calls) - 1
<1> DEFINE H == Cardinality(Calls)
           P == Count("cancel")
           R == Count("resume")
<1>1. P \in Nat /\ R \in Nat /\ H \in Nat /\ P <= H /\ R <= H /\ H > 0
  BY CountBounds
<1>2. ~paused => P < H
  BY CountBounds DEF LastMark
<1>3. paused => R < H
  BY CountBounds DEF LastMark
<1>4. Room = H + P - R - (IF paused THEN 1 ELSE 0)
  BY DEF Room
<1> HIDE DEF H, P, R
<1>5. Room \in Nat /\ Room <= 2 * H - 1
  BY <1>1, <1>2, <1>3, <1>4
<1> QED
  BY <1>5 DEF H

\* What MinWorkers times the room is.
LEMMA RoomTimes ==
    ASSUME NEW n \in Nat
    PROVE  /\ MinWorkers * n \in Nat
           /\ MinWorkers * (n + 1) = MinWorkers * n + MinWorkers
           /\ \A k \in Nat : n <= k => MinWorkers * n <= MinWorkers * k
BY ScalingAssumption, Z3

-----------------------------------------------------------------------------
(* Steps that leave the room as it is.                                     *)

\* What is owed to a new channel is a number of workers, and at most the
\* greater of the two minima.
LEMMA OwedBounds == TypeOK => Owed \in Nat /\ Owed <= Greater(BootWorkers, MinWorkers)
BY ScalingAssumption DEF TypeOK, Owed, Greater

\* n workers and p that are owed are within a budget of m workers and o owed.
LEMMA WithinBudget ==
    ASSUME NEW b \in Nat, NEW g \in Nat, NEW t \in Nat, NEW o \in Nat, NEW p \in Nat, NEW m \in Nat, NEW n \in Nat,
           m + o <= t + g + b, n + p <= m + o \/ n <= t, p <= g
    PROVE  n + p <= t + g + b
OBVIOUS

\* A step keeps the budget when it starts no more workers than it takes from
\* what is owed, or leaves at most Top of them.
LEMMA BudgetKept ==
    ASSUME ScalingInv, TypeOK', LastMark', Room' = Room,
           \/ currWorkers' + Owed' <= currWorkers + Owed
           \/ currWorkers' <= Top
    PROVE  Budget'
<1>1. PICK b \in Nat : b = MinWorkers * Room
  BY RoomBounds, RoomTimes DEF ScalingInv, TypeOK
<1>2. PICK g \in Nat : g = Greater(BootWorkers, MinWorkers)
  BY ScalingAssumption DEF Greater
<1>3. PICK o \in Nat : o = Owed
  BY OwedBounds DEF ScalingInv
<1>4. PICK p \in Nat : p = Owed' /\ p <= g
  BY <1>2, ScalingAssumption DEF TypeOK, Owed, Greater
<1>5. PICK t \in Nat : t = Top
  BY ScalingAssumption DEF Top
<1>6. currWorkers \in Nat /\ currWorkers' \in Nat
  BY DEF ScalingInv, TypeOK
<1>7. currWorkers + o <= t + g + b
  BY <1>1, <1>2, <1>3, <1>5 DEF ScalingInv, Budget
<1>8. currWorkers' + p <= currWorkers + o \/ currWorkers' <= t
  BY <1>3, <1>4, <1>5
<1>9. currWorkers' + p <= t + g + b
  BY <1>4, <1>6, <1>7, <1>8, WithinBudget
<1> QED
  BY <1>1, <1>2, <1>4, <1>5, <1>9 DEF Budget

\* Steps of the start, the scaler and the refresher.
LEMMA LoopStep ==
    ASSUME ScalingInv,
           \/ OrdersChange
           \/ BootBegins \/ BootQueries \/ BootLists \/ BootStarts \/ BootEnds
           \/ ScalerAsks \/ ScalerCompares \/ ScalerAdjusts
           \/ RefresherBegins \/ RefresherFinds \/ RefresherStarts \/ RefresherTracks
           \/ UNCHANGED vars
    PROVE  ScalingInv'
<1> USE ScalingAssumption
<1>1. call' = call /\ paused' = paused
  BY DEF OrdersChange, BootBegins, BootQueries, BootLists, BootStarts, BootEnds, ScalerAsks, ScalerCompares,
         ScalerAdjusts, RefresherBegins, RefresherFinds, RefresherStarts, RefresherTracks, vars
<1>2. Room' = Room /\ LastMark'
  BY <1>1 DEF Room, Count, LastMark, ScalingInv
<1>3. TypeOK' /\ WorkersCounted'
  <2>1. CASE OrdersChange
    BY <2>1 DEF ScalingInv, TypeOK, WorkersCounted, StartWorkers, Wanted, NotScaling, Desired, Top, OrdersChange
  <2>2. CASE BootBegins
    BY <2>2 DEF ScalingInv, TypeOK, WorkersCounted, StartWorkers, Wanted, NotScaling, Desired, Top, BootBegins
  <2>3. CASE BootQueries
    BY <2>3 DEF ScalingInv, TypeOK, WorkersCounted, StartWorkers, Wanted, NotScaling, Desired, Top, BootQueries
  <2>4. CASE BootLists
    BY <2>4 DEF ScalingInv, TypeOK, WorkersCounted, StartWorkers, Wanted, NotScaling, Desired, Top, BootLists
  <2>5. CASE BootStarts
    BY <2>5 DEF ScalingInv, TypeOK, WorkersCounted, StartWorkers, Wanted, NotScaling, Desired, Top, BootStarts
  <2>6. CASE BootEnds
    BY <2>6 DEF ScalingInv, TypeOK, WorkersCounted, StartWorkers, Wanted, NotScaling, Desired, Top, BootEnds
  <2>7. CASE ScalerAsks
    BY <2>7 DEF ScalingInv, TypeOK, WorkersCounted, StartWorkers, Wanted, NotScaling, Desired, Top, ScalerAsks
  <2>8. CASE ScalerCompares
    BY <2>8 DEF ScalingInv, TypeOK, WorkersCounted, StartWorkers, Wanted, NotScaling, Desired, Top, ScalerCompares
  <2>9. CASE ScalerAdjusts
    BY <2>9 DEF ScalingInv, TypeOK, WorkersCounted, StartWorkers, Wanted, NotScaling, Desired, Top, ScalerAdjusts
  <2>10. CASE RefresherBegins
    <3>1. (hids > 0 => known') /\ (~(hids > 0) => ~known')
      BY <2>10, Zenon DEF RefresherBegins
    <3>2. known' \in BOOLEAN
      BY <2>10, SMT DEF RefresherBegins
    <3>3. /\ boot = "done" /\ refresher = "off" /\ refresher' = "idle"
          /\ UNCHANGED <<todo, hids, currWorkers, cancels, paused, boot, listed, toStart, scaler, call>>
      BY <2>10 DEF RefresherBegins
    <3> QED
      BY <3>1, <3>2, <3>3 DEF ScalingInv, TypeOK, WorkersCounted, StartWorkers, Wanted, NotScaling, Desired, Top
  <2>11. CASE RefresherFinds
    <3>1. CASE paused
      BY <2>11, <3>1 DEF ScalingInv, TypeOK, WorkersCounted, StartWorkers, Wanted, NotScaling, Desired, Top, RefresherFinds
    <3>2. CASE ~paused
      BY <2>11, <3>2 DEF ScalingInv, TypeOK, WorkersCounted, StartWorkers, Wanted, NotScaling, Desired, Top, RefresherFinds
    <3> QED
      BY <3>1, <3>2 DEF ScalingInv, TypeOK
  <2>12. CASE RefresherStarts
    BY <2>12 DEF ScalingInv, TypeOK, WorkersCounted, StartWorkers, Wanted, NotScaling, Desired, Top, RefresherStarts
  <2>13. CASE RefresherTracks
    BY <2>13 DEF ScalingInv, TypeOK, WorkersCounted, StartWorkers, Wanted, NotScaling, Desired, Top, RefresherTracks
  <2>14. CASE UNCHANGED vars
    BY <2>14 DEF ScalingInv, TypeOK, WorkersCounted, vars
  <2> QED
    BY <2>1, <2>2, <2>3, <2>4, <2>5, <2>6, <2>7, <2>8, <2>9, <2>10, <2>11, <2>12, <2>13, <2>14
<1>4. Sequence' /\ Wanted'
  <2>1. CASE OrdersChange
    BY <2>1 DEF ScalingInv, TypeOK, Sequence, Wanted, NotScaling, Desired, Top, OrdersChange
  <2>2. CASE BootBegins
    BY <2>2 DEF ScalingInv, TypeOK, Sequence, Wanted, NotScaling, Desired, Top, BootBegins
  <2>3. CASE BootQueries
    BY <2>3 DEF ScalingInv, TypeOK, Sequence, Wanted, NotScaling, Desired, Top, BootQueries
  <2>4. CASE BootLists
    BY <2>4 DEF ScalingInv, TypeOK, Sequence, Wanted, NotScaling, Desired, Top, BootLists
  <2>5. CASE BootStarts
    BY <2>5 DEF ScalingInv, TypeOK, Sequence, Wanted, NotScaling, Desired, Top, BootStarts
  <2>6. CASE BootEnds
    BY <2>6 DEF ScalingInv, TypeOK, Sequence, Wanted, NotScaling, Desired, Top, BootEnds
  <2>7. CASE ScalerAsks
    BY <2>7 DEF ScalingInv, TypeOK, Sequence, Wanted, NotScaling, Desired, Top, ScalerAsks
  <2>8. CASE ScalerCompares
    BY <2>8 DEF ScalingInv, TypeOK, Sequence, Wanted, NotScaling, Desired, Top, ScalerCompares
  <2>9. CASE ScalerAdjusts
    BY <2>9 DEF ScalingInv, TypeOK, Sequence, Wanted, NotScaling, Desired, Top, ScalerAdjusts
  <2>10. CASE RefresherBegins
    BY <2>10 DEF ScalingInv, TypeOK, Sequence, Wanted, NotScaling, Desired, Top, RefresherBegins
  <2>11. CASE RefresherFinds
    BY <2>11 DEF ScalingInv, TypeOK, Sequence, Wanted, NotScaling, Desired, Top, RefresherFinds
  <2>12. CASE RefresherStarts
    BY <2>12 DEF ScalingInv, TypeOK, Sequence, Wanted, NotScaling, Desired, Top, RefresherStarts
  <2>13. CASE RefresherTracks
    BY <2>13 DEF ScalingInv, TypeOK, Sequence, Wanted, NotScaling, Desired, Top, RefresherTracks
  <2>14. CASE UNCHANGED vars
    BY <2>14 DEF ScalingInv, Sequence, Wanted, Desired, Top, vars
  <2> QED
    BY <2>1, <2>2, <2>3, <2>4, <2>5, <2>6, <2>7, <2>8, <2>9, <2>10, <2>11, <2>12, <2>13, <2>14
<1>5. currWorkers' + Owed' <= currWorkers + Owed \/ currWorkers' <= Top
  <2>1. CASE OrdersChange
    BY <2>1 DEF ScalingInv, TypeOK, WorkersCounted, Sequence, Wanted, Owed, Greater, StartWorkers, Desired, Top, OrdersChange
  <2>2. CASE BootBegins
    BY <2>2 DEF ScalingInv, TypeOK, WorkersCounted, Sequence, Wanted, Owed, Greater, StartWorkers, Desired, Top, BootBegins
  <2>3. CASE BootQueries
    BY <2>3 DEF ScalingInv, TypeOK, WorkersCounted, Sequence, Wanted, Owed, Greater, StartWorkers, Desired, Top, BootQueries
  <2>4. CASE BootLists
    BY <2>4 DEF ScalingInv, TypeOK, WorkersCounted, Sequence, Wanted, Owed, Greater, StartWorkers, Desired, Top, BootLists
  <2>5. CASE BootStarts
    BY <2>5 DEF ScalingInv, TypeOK, WorkersCounted, Sequence, Wanted, Owed, Greater, StartWorkers, Desired, Top, BootStarts
  <2>6. CASE BootEnds
    BY <2>6 DEF ScalingInv, TypeOK, WorkersCounted, Sequence, Wanted, Owed, Greater, StartWorkers, Desired, Top, BootEnds
  <2>7. CASE ScalerAsks
    BY <2>7 DEF ScalingInv, TypeOK, WorkersCounted, Sequence, Wanted, Owed, Greater, StartWorkers, Desired, Top, ScalerAsks
  <2>8. CASE ScalerCompares
    BY <2>8 DEF ScalingInv, TypeOK, WorkersCounted, Sequence, Wanted, Owed, Greater, StartWorkers, Desired, Top, ScalerCompares
  <2>9. CASE ScalerAdjusts
    BY <2>9 DEF ScalingInv, TypeOK, WorkersCounted, Sequence, Wanted, Owed, Greater, StartWorkers, Desired, Top, ScalerAdjusts
  <2>10. CASE RefresherBegins
    <3>1. (hids > 0 => known') /\ (~(hids > 0) => ~known')
      BY <2>10, Zenon DEF RefresherBegins
    <3>2. known' \in BOOLEAN
      BY <2>10, SMT DEF RefresherBegins
    <3>3. /\ boot = "done" /\ refresher = "off" /\ refresher' = "idle"
          /\ UNCHANGED <<todo, hids, currWorkers, cancels, paused, boot, listed, toStart, scaler, call>>
      BY <2>10 DEF RefresherBegins
    <3> QED
      BY <3>1, <3>2, <3>3 DEF ScalingInv, TypeOK, WorkersCounted, Sequence, Wanted, Owed, Greater, StartWorkers, Desired, Top
  <2>11. CASE RefresherFinds
    BY <2>11 DEF ScalingInv, TypeOK, WorkersCounted, Sequence, Wanted, Owed, Greater, StartWorkers, Desired, Top, RefresherFinds
  <2>12. CASE RefresherStarts
    BY <2>12 DEF ScalingInv, TypeOK, WorkersCounted, Sequence, Wanted, Owed, Greater, StartWorkers, Desired, Top, RefresherStarts
  <2>13. CASE RefresherTracks
    BY <2>13 DEF ScalingInv, TypeOK, WorkersCounted, Sequence, Wanted, Owed, Greater, StartWorkers, Desired, Top, RefresherTracks
  <2>14. CASE UNCHANGED vars
    BY <2>14 DEF ScalingInv, TypeOK, Owed, Greater, vars
  <2> QED
    BY <2>1, <2>2, <2>3, <2>4, <2>5, <2>6, <2>7, <2>8, <2>9, <2>10, <2>11, <2>12, <2>13, <2>14
<1> QED
  BY <1>2, <1>3, <1>4, <1>5, BudgetKept DEF ScalingInv

-----------------------------------------------------------------------------
(* Calls from outside.                                                     *)

\* What a call that moves, and the mark that it sets, change in the room.
LEMMA RoomMoves ==
    ASSUME TypeOK, NEW c \in Calls, call' = [call EXCEPT ![c] = call'[c]]
    PROVE  Room' = Room + (IF call'[c].pc = "cancel" THEN 1 ELSE 0) - (IF call[c].pc = "cancel" THEN 1 ELSE 0)
                        - (IF call'[c].pc = "resume" THEN 1 ELSE 0) + (IF call[c].pc = "resume" THEN 1 ELSE 0)
                        + (IF paused THEN 1 ELSE 0) - (IF paused' THEN 1 ELSE 0)
<1>1. PICK k : k = call'[c]
  OBVIOUS
<1>2. call' = [call EXCEPT ![c] = k]
  BY <1>1
<1>3. PICK p \in Nat : p = Count("cancel")
  BY CountBounds
<1>4. PICK r \in Nat : r = Count("resume")
  BY CountBounds
<1>5. PICK h \in Nat : h = Cardinality(Calls)
  BY CountBounds
<1>6. Count("cancel")' = p + (IF k.pc = "cancel" THEN 1 ELSE 0) - (IF call[c].pc = "cancel" THEN 1 ELSE 0)
  BY <1>2, <1>3, CountMoves
<1>7. Count("resume")' = r + (IF k.pc = "resume" THEN 1 ELSE 0) - (IF call[c].pc = "resume" THEN 1 ELSE 0)
  BY <1>2, <1>4, CountMoves
<1>8. Room = h + p - r - (IF paused THEN 1 ELSE 0)
  BY <1>3, <1>4, <1>5 DEF Room
<1>9. Room' = h + (p + (IF k.pc = "cancel" THEN 1 ELSE 0) - (IF call[c].pc = "cancel" THEN 1 ELSE 0))
                 - (r + (IF k.pc = "resume" THEN 1 ELSE 0) - (IF call[c].pc = "resume" THEN 1 ELSE 0))
                 - (IF paused' THEN 1 ELSE 0)
  BY <1>5, <1>6, <1>7 DEF Room
<1> QED
  BY <1>1, <1>3, <1>4, <1>5, <1>8, <1>9

\* Steps of call c keep the types, the count and whose mark it is.
LEMMA CallTypes ==
    ASSUME ScalingInv, NEW c \in Calls, CallNext(c)
    PROVE  TypeOK' /\ WorkersCounted' /\ LastMark'
<1> USE ScalingAssumption
<1>1. TypeOK' /\ WorkersCounted'
  <2>1. CASE Enqueued(c)
    BY <2>1 DEF ScalingInv, TypeOK, WorkersCounted, StartWorkers, NoCall, At, Done, Comes, Adjustment, Lesser, Enqueued
  <2>2. CASE EnsureCounts(c)
    BY <2>2 DEF ScalingInv, TypeOK, WorkersCounted, StartWorkers, NoCall, At, Done, Comes, Adjustment, Lesser, EnsureCounts
  <2>3. CASE EnsureStarts(c)
    BY <2>3 DEF ScalingInv, TypeOK, WorkersCounted, StartWorkers, NoCall, At, Done, Comes, Adjustment, Lesser, EnsureStarts
  <2>4. CASE Pause(c)
    BY <2>4 DEF ScalingInv, TypeOK, WorkersCounted, StartWorkers, NoCall, At, Done, Comes, Adjustment, Lesser, Pause
  <2>5. CASE PauseCancels(c)
    BY <2>5 DEF ScalingInv, TypeOK, WorkersCounted, StartWorkers, NoCall, At, Done, Comes, Adjustment, Lesser, PauseCancels
  <2>6. CASE Resume(c)
    BY <2>6 DEF ScalingInv, TypeOK, WorkersCounted, StartWorkers, NoCall, At, Done, Comes, Adjustment, Lesser, Resume
  <2>7. CASE ResumeStarts(c)
    BY <2>7 DEF ScalingInv, TypeOK, WorkersCounted, StartWorkers, NoCall, At, Done, Comes, Adjustment, Lesser, ResumeStarts
  <2>8. CASE Adjust(c)
    <3>1. PICK d \in Deltas : call' = [call EXCEPT ![c] = [pc |-> "adjust", delta |-> Clipped(d)]]
      BY <2>8 DEF Adjust
    <3>2. Clipped(d) \in -4 .. 4
      BY DEF Clipped
    <3>3. UNCHANGED <<todo, hids, currWorkers, cancels, paused, boot, listed, toStart, scaler, refresher, known>>
      BY <2>8 DEF Adjust
    <3> QED
      BY <3>1, <3>2, <3>3 DEF ScalingInv, TypeOK, WorkersCounted
  <2>9. CASE AdjustApplies(c)
    BY <2>9 DEF ScalingInv, TypeOK, WorkersCounted, StartWorkers, NoCall, At, Done, Comes, Adjustment, Lesser, AdjustApplies
  <2> QED
    BY <2>1, <2>2, <2>3, <2>4, <2>5, <2>6, <2>7, <2>8, <2>9 DEF CallNext
<1>2. LastMark'
  <2>1. CASE Enqueued(c)
    BY <2>1 DEF ScalingInv, TypeOK, LastMark, NoCall, At, Done, Comes, Enqueued
  <2>2. CASE EnsureCounts(c)
    BY <2>2 DEF ScalingInv, TypeOK, LastMark, NoCall, At, Done, Comes, EnsureCounts
  <2>3. CASE EnsureStarts(c)
    BY <2>3 DEF ScalingInv, TypeOK, LastMark, NoCall, At, Done, Comes, EnsureStarts
  <2>4. CASE Pause(c)
    BY <2>4 DEF ScalingInv, TypeOK, LastMark, NoCall, At, Done, Comes, Pause
  <2>5. CASE PauseCancels(c)
    BY <2>5 DEF ScalingInv, TypeOK, LastMark, NoCall, At, Done, Comes, PauseCancels
  <2>6. CASE Resume(c)
    BY <2>6 DEF ScalingInv, TypeOK, LastMark, NoCall, At, Done, Comes, Resume
  <2>7. CASE ResumeStarts(c)
    BY <2>7 DEF ScalingInv, TypeOK, LastMark, NoCall, At, Done, Comes, ResumeStarts
  <2>8. CASE Adjust(c)
    BY <2>8 DEF ScalingInv, TypeOK, LastMark, NoCall, At, Done, Comes, Adjust
  <2>9. CASE AdjustApplies(c)
    BY <2>9 DEF ScalingInv, TypeOK, LastMark, NoCall, At, Done, Comes, AdjustApplies
  <2> QED
    BY <2>1, <2>2, <2>3, <2>4, <2>5, <2>6, <2>7, <2>8, <2>9 DEF CallNext
<1> QED
  BY <1>1, <1>2

\* The room, before a step and after it.
LEMMA RoomInt == ScalingInv => Room \in Nat
BY RoomBounds DEF ScalingInv, TypeOK

\* A pause under way has room for a start.
LEMMA RoomCancels ==
    ASSUME ScalingInv, NEW c \in Calls, call[c].pc = "cancel"
    PROVE  Room > 0
<1>1. PICK p \in Nat : p = Count("cancel") /\ p > 0
  BY CountBounds
<1>2. PICK h \in Nat : h = Cardinality(Calls)
  BY CountBounds
<1>3. call[c].pc # "resume"
  OBVIOUS
<1>4. PICK r \in Nat : r = Count("resume") /\ r < h
  BY <1>2, <1>3, CountBounds
<1>5. Room = h + p - r - (IF paused THEN 1 ELSE 0)
  BY <1>1, <1>2, <1>4 DEF Room
<1> QED
  BY <1>1, <1>2, <1>4, <1>5

\* Steps of call c.
LEMMA CallStep ==
    ASSUME ScalingInv, NEW c \in Calls, CallNext(c)
    PROVE  ScalingInv'
<1> USE ScalingAssumption
<1>1. TypeOK' /\ WorkersCounted' /\ LastMark'
  BY CallTypes
<1>2. Sequence' /\ Wanted'
  <2>1. CASE Enqueued(c)
    BY <2>1 DEF ScalingInv, TypeOK, Sequence, Wanted, Desired, Top, Enqueued
  <2>2. CASE EnsureCounts(c)
    BY <2>2 DEF ScalingInv, TypeOK, Sequence, Wanted, Desired, Top, EnsureCounts
  <2>3. CASE EnsureStarts(c)
    BY <2>3 DEF ScalingInv, TypeOK, Sequence, Wanted, Desired, Top, EnsureStarts
  <2>4. CASE Pause(c)
    BY <2>4 DEF ScalingInv, TypeOK, Sequence, Wanted, Desired, Top, Pause
  <2>5. CASE PauseCancels(c)
    BY <2>5 DEF ScalingInv, TypeOK, Sequence, Wanted, Desired, Top, PauseCancels
  <2>6. CASE Resume(c)
    BY <2>6 DEF ScalingInv, TypeOK, Sequence, Wanted, Desired, Top, Resume
  <2>7. CASE ResumeStarts(c)
    BY <2>7 DEF ScalingInv, TypeOK, Sequence, Wanted, Desired, Top, ResumeStarts
  <2>8. CASE Adjust(c)
    BY <2>8 DEF ScalingInv, TypeOK, Sequence, Wanted, Desired, Top, Adjust
  <2>9. CASE AdjustApplies(c)
    BY <2>9 DEF ScalingInv, TypeOK, Sequence, Wanted, Desired, Top, AdjustApplies
  <2> QED
    BY <2>1, <2>2, <2>3, <2>4, <2>5, <2>6, <2>7, <2>8, <2>9 DEF CallNext
<1>3. Budget'
  <2>1. CASE Enqueued(c)
    <3>1. call' = [call EXCEPT ![c] = call'[c]]
      BY <2>1 DEF ScalingInv, TypeOK, NoCall, At, Done, Enqueued
    <3>2. /\ call[c].pc \notin {"cancel", "resume"} /\ call'[c].pc \notin {"cancel", "resume"}
          /\ paused' = paused
      BY <2>1 DEF ScalingInv, TypeOK, LastMark, NoCall, At, Done, Comes, Enqueued
    <3>3. Room' = Room
      BY <3>1, <3>2, RoomMoves, RoomInt DEF ScalingInv
    <3>4. currWorkers' + Owed' <= currWorkers + Owed \/ currWorkers' <= Top
      BY <2>1 DEF ScalingInv, TypeOK, WorkersCounted, Sequence, Owed, Greater, StartWorkers, Top, Adjustment, Lesser, Enqueued
    <3> QED
      BY <3>3, <3>4, <1>1, BudgetKept
  <2>2. CASE EnsureCounts(c)
    <3>1. call' = [call EXCEPT ![c] = call'[c]]
      BY <2>2 DEF ScalingInv, TypeOK, NoCall, At, Done, EnsureCounts
    <3>2. /\ call[c].pc \notin {"cancel", "resume"} /\ call'[c].pc \notin {"cancel", "resume"}
          /\ paused' = paused
      BY <2>2 DEF ScalingInv, TypeOK, LastMark, NoCall, At, Done, Comes, EnsureCounts
    <3>3. Room' = Room
      BY <3>1, <3>2, RoomMoves, RoomInt DEF ScalingInv
    <3>4. currWorkers' + Owed' <= currWorkers + Owed \/ currWorkers' <= Top
      BY <2>2 DEF ScalingInv, TypeOK, WorkersCounted, Sequence, Owed, Greater, StartWorkers, Top, Adjustment, Lesser, EnsureCounts
    <3> QED
      BY <3>3, <3>4, <1>1, BudgetKept
  <2>3. CASE EnsureStarts(c)
    <3>1. call' = [call EXCEPT ![c] = call'[c]]
      BY <2>3 DEF ScalingInv, TypeOK, NoCall, At, Done, EnsureStarts
    <3>2. /\ call[c].pc \notin {"cancel", "resume"} /\ call'[c].pc \notin {"cancel", "resume"}
          /\ paused' = paused
      BY <2>3 DEF ScalingInv, TypeOK, LastMark, NoCall, At, Done, Comes, EnsureStarts
    <3>3. Room' = Room
      BY <3>1, <3>2, RoomMoves, RoomInt DEF ScalingInv
    <3>4. currWorkers' + Owed' <= currWorkers + Owed \/ currWorkers' <= Top
      BY <2>3 DEF ScalingInv, TypeOK, WorkersCounted, Sequence, Owed, Greater, StartWorkers, Top, Adjustment, Lesser, EnsureStarts
    <3> QED
      BY <3>3, <3>4, <1>1, BudgetKept
  <2>4. CASE Pause(c)
    <3>1. call' = [call EXCEPT ![c] = call'[c]]
      BY <2>4 DEF ScalingInv, TypeOK, NoCall, At, Done, Pause
    <3>2. /\ call[c].pc \notin {"cancel", "resume"} /\ call'[c].pc = "cancel" /\ ~paused /\ paused'
      BY <2>4 DEF ScalingInv, TypeOK, LastMark, NoCall, At, Done, Comes, Pause
    <3>3. Room' = Room
      BY <3>1, <3>2, RoomMoves, RoomInt DEF ScalingInv
    <3>4. currWorkers' + Owed' <= currWorkers + Owed \/ currWorkers' <= Top
      BY <2>4 DEF ScalingInv, TypeOK, WorkersCounted, Sequence, Owed, Greater, StartWorkers, Top, Adjustment, Lesser, Pause
    <3> QED
      BY <3>3, <3>4, <1>1, BudgetKept
  <2>5. CASE PauseCancels(c)
    <3>1. call' = [call EXCEPT ![c] = call'[c]]
      BY <2>5 DEF ScalingInv, TypeOK, NoCall, Done, PauseCancels
    <3>2. call[c].pc = "cancel" /\ call'[c].pc = "idle" /\ paused' = paused
      BY <2>5 DEF ScalingInv, TypeOK, NoCall, Done, PauseCancels
    <3>3. Room' = Room - 1
      BY <3>1, <3>2, RoomMoves, RoomInt DEF ScalingInv
    <3>4. Room' \in Nat
      BY <3>2, <3>3, RoomInt, RoomCancels
    <3>5. PICK b \in Nat : b = MinWorkers * Room'
      BY <3>4, RoomTimes
    <3>6. PICK o \in Nat : o = Owed' /\ o <= Greater(BootWorkers, MinWorkers)
      BY <1>1 DEF TypeOK, Owed, Greater
    <3>7. PICK g \in Nat : g = Greater(BootWorkers, MinWorkers)
      BY DEF Greater
    <3>8. PICK t \in Nat : t = Top
      BY DEF Top
    <3>9. currWorkers' = 0
      BY <2>5 DEF PauseCancels
    <3>10. currWorkers' + o <= t + g + b
      BY <3>5, <3>6, <3>7, <3>8, <3>9
    <3> QED
      BY <3>5, <3>6, <3>7, <3>8, <3>10 DEF Budget
  <2>6. CASE Resume(c)
    <3>1. call' = [call EXCEPT ![c] = call'[c]]
      BY <2>6 DEF ScalingInv, TypeOK, NoCall, At, Done, Resume
    <3>2. /\ call[c].pc \notin {"cancel", "resume"} /\ call'[c].pc = "resume" /\ paused /\ ~paused'
      BY <2>6 DEF ScalingInv, TypeOK, LastMark, NoCall, At, Done, Comes, Resume
    <3>3. Room' = Room
      BY <3>1, <3>2, RoomMoves, RoomInt DEF ScalingInv
    <3>4. currWorkers' + Owed' <= currWorkers + Owed \/ currWorkers' <= Top
      BY <2>6 DEF ScalingInv, TypeOK, WorkersCounted, Sequence, Owed, Greater, StartWorkers, Top, Adjustment, Lesser, Resume
    <3> QED
      BY <3>3, <3>4, <1>1, BudgetKept
  <2>7. CASE ResumeStarts(c)
    <3>1. call' = [call EXCEPT ![c] = call'[c]]
      BY <2>7 DEF ScalingInv, TypeOK, NoCall, Done, ResumeStarts
    <3>2. call[c].pc = "resume" /\ call'[c].pc = "idle" /\ paused' = paused
      BY <2>7 DEF ScalingInv, TypeOK, NoCall, Done, ResumeStarts
    <3>3. Room' = Room + 1
      BY <3>1, <3>2, RoomMoves, RoomInt DEF ScalingInv
    <3>4. PICK b \in Nat : b = MinWorkers * Room
      BY RoomInt, RoomTimes
    <3>5. MinWorkers * Room' = b + MinWorkers
      BY <3>3, <3>4, RoomInt, RoomTimes
    <3>6. PICK o \in Nat : o = Owed /\ o = Owed'
      BY <2>7, OwedBounds DEF ScalingInv, Owed, ResumeStarts
    <3>7. PICK g \in Nat : g = Greater(BootWorkers, MinWorkers)
      BY DEF Greater
    <3>8. PICK t \in Nat : t = Top
      BY DEF Top
    <3>9. currWorkers' = currWorkers + MinWorkers /\ currWorkers \in Nat
      BY <2>7 DEF ResumeStarts, StartWorkers, ScalingInv, TypeOK
    <3>10. currWorkers + o <= t + g + b
      BY <3>4, <3>6, <3>7, <3>8 DEF ScalingInv, Budget
    <3>11. currWorkers' + o <= t + g + (b + MinWorkers)
      BY <3>4, <3>6, <3>7, <3>8, <3>9, <3>10
    <3> QED
      BY <3>5, <3>6, <3>7, <3>8, <3>11 DEF Budget
  <2>8. CASE Adjust(c)
    <3>1. call' = [call EXCEPT ![c] = call'[c]]
      BY <2>8 DEF ScalingInv, TypeOK, NoCall, At, Done, Adjust
    <3>2. /\ call[c].pc \notin {"cancel", "resume"} /\ call'[c].pc \notin {"cancel", "resume"}
          /\ paused' = paused
      BY <2>8 DEF ScalingInv, TypeOK, LastMark, NoCall, At, Done, Comes, Adjust
    <3>3. Room' = Room
      BY <3>1, <3>2, RoomMoves, RoomInt DEF ScalingInv
    <3>4. currWorkers' + Owed' <= currWorkers + Owed \/ currWorkers' <= Top
      BY <2>8 DEF ScalingInv, TypeOK, WorkersCounted, Sequence, Owed, Greater, StartWorkers, Top, Adjustment, Lesser, Adjust
    <3> QED
      BY <3>3, <3>4, <1>1, BudgetKept
  <2>9. CASE AdjustApplies(c)
    <3>1. call' = [call EXCEPT ![c] = call'[c]]
      BY <2>9 DEF ScalingInv, TypeOK, NoCall, At, Done, AdjustApplies
    <3>2. /\ call[c].pc \notin {"cancel", "resume"} /\ call'[c].pc \notin {"cancel", "resume"}
          /\ paused' = paused
      BY <2>9 DEF ScalingInv, TypeOK, LastMark, NoCall, At, Done, Comes, AdjustApplies
    <3>3. Room' = Room
      BY <3>1, <3>2, RoomMoves, RoomInt DEF ScalingInv
    <3>4. currWorkers' + Owed' <= currWorkers + Owed \/ currWorkers' <= Top
      BY <2>9 DEF ScalingInv, TypeOK, WorkersCounted, Sequence, Owed, Greater, StartWorkers, Top, Adjustment, Lesser, AdjustApplies
    <3> QED
      BY <3>3, <3>4, <1>1, BudgetKept
  <2> QED
    BY <2>1, <2>2, <2>3, <2>4, <2>5, <2>6, <2>7, <2>8, <2>9 DEF CallNext
<1> QED
  BY <1>1, <1>2, <1>3 DEF ScalingInv
-----------------------------------------------------------------------------
(* The theorems.                                                           *)

\* The channel begins with no workers and the whole budget.
LEMMA InitInv == Init => ScalingInv
<1> SUFFICES ASSUME Init PROVE ScalingInv
  OBVIOUS
<1> USE ScalingAssumption
<1>1. TypeOK
  <2>1. NoCall \in [pc : {"idle", "count", "ensure", "cancel", "resume", "adjust"}, delta : -4 .. 4]
    BY DEF NoCall
  <2>2. NotScaling \in [pc : {"idle", "asked", "adjust"}, saw : Nat, desired : Nat]
    BY DEF NotScaling
  <2>3. call \in [Calls -> [pc : {"idle", "count", "ensure", "cancel", "resume", "adjust"}, delta : -4 .. 4]]
    BY <2>1 DEF Init
  <2>4. scaler \in [pc : {"idle", "asked", "adjust"}, saw : Nat, desired : Nat]
    BY <2>2 DEF Init
  <2>5. /\ todo \in BOOLEAN /\ paused \in BOOLEAN /\ listed \in BOOLEAN /\ known \in BOOLEAN
        /\ hids \in Nat /\ currWorkers \in Nat /\ cancels \in Nat
        /\ boot \in {"off", "query", "list", "start", "done"}
        /\ refresher \in {"off", "idle", "start", "track"}
    BY DEF Init
  <2>6. toStart \in 0 .. BootWorkers
    BY DEF Init
  <2> QED
    BY <2>3, <2>4, <2>5, <2>6 DEF TypeOK
<1>2. WorkersCounted /\ Sequence /\ Wanted
  BY DEF Init, NotScaling, WorkersCounted, Sequence, Wanted
<1>3. \A c \in Calls : call[c].pc # "cancel" /\ call[c].pc # "resume"
  BY DEF Init, NoCall
<1>4. LastMark
  BY <1>3 DEF LastMark
<1>5. PICK b \in Nat : b = MinWorkers * Room
  BY <1>1, <1>4, RoomBounds, RoomTimes DEF TypeOK
<1>6. PICK g \in Nat : g = Greater(BootWorkers, MinWorkers)
  BY DEF Greater
<1>7. PICK t \in Nat : t = Top
  BY DEF Top
<1>8. currWorkers = 0 /\ Owed = g
  BY <1>6 DEF Init, Owed
<1> QED
  BY <1>1, <1>2, <1>4, <1>5, <1>6, <1>7, <1>8 DEF ScalingInv, Budget

\* Every step is one of the loops or of a call.
LEMMA StepInv == ScalingInv /\ [Next]_vars => ScalingInv'
<1> SUFFICES ASSUME ScalingInv, [Next]_vars PROVE ScalingInv'
  OBVIOUS
<1>1. CASE \E c \in Calls : CallNext(c)
  BY <1>1, CallStep
<1>2. CASE ~ \E c \in Calls : CallNext(c)
  BY <1>2, LoopStep DEF Next
<1> QED
  BY <1>1, <1>2

\* The budget, with nothing owed any more and as much room as there can be, is
\* the bound.
LEMMA InvBounds == ScalingInv => WorkersBounded
<1> SUFFICES ASSUME ScalingInv PROVE WorkersBounded
  OBVIOUS
<1> USE ScalingAssumption
<1>1. PICK h \in Nat : h = Cardinality(Calls) /\ h > 0
  BY CountBounds
<1>2. PICK r \in Nat : r = Room /\ r <= 2 * h - 1
  BY <1>1, RoomBounds DEF ScalingInv, TypeOK
<1>3. PICK n \in Nat : n = 2 * h - 1
  BY <1>1
<1>4. PICK b \in Nat : b = MinWorkers * r
  BY RoomTimes
<1>5. PICK m \in Nat : m = MinWorkers * n /\ b <= m
  BY <1>2, <1>3, <1>4, RoomTimes
<1>6. PICK o \in Nat : o = Owed
  BY OwedBounds DEF ScalingInv
<1>7. PICK g \in Nat : g = Greater(BootWorkers, MinWorkers)
  BY DEF Greater
<1>8. PICK t \in Nat : t = Top
  BY DEF Top
<1>9. currWorkers \in Nat /\ currWorkers + o <= t + g + b
  BY <1>2, <1>4, <1>6, <1>7, <1>8 DEF ScalingInv, TypeOK, Budget
<1>10. currWorkers <= t + g + m
  BY <1>4, <1>5, <1>6, <1>7, <1>8, <1>9
<1>11. 2 * Cardinality(Calls) - 1 = n
  BY <1>1, <1>3
<1> QED
  BY <1>5, <1>7, <1>8, <1>10, <1>11 DEF WorkersBounded

\* currWorkers is the number of workers that live and can be stopped, whatever
\* the start, the scaler, the refresher and the calls do to the channel at once,
\* for any limits and any number of calls.
THEOREM WorkersAreCounted == Spec => []WorkersCounted
<1>1. ScalingInv => WorkersCounted
  BY DEF ScalingInv
<1> QED
  BY <1>1, InitInv, StepInv, PTL DEF Spec

\* However they interleave, a channel never has more workers than the limit, what
\* a new channel is started with, and the minimum for each call to start once and
\* to keep back one pause.
THEOREM WorkersAreBounded == Spec => []WorkersBounded
BY InitInv, StepInv, InvBounds, PTL DEF Spec

\* The limits, the workers and the calls to pause a channel stay in their types,
\* whatever runs at once: the inductive invariant holds the types.
THEOREM TypeCorrect == Spec => []TypeOK
<1>1. ScalingInv => TypeOK
  BY DEF ScalingInv
<1> QED
  BY <1>1, InitInv, StepInv, PTL DEF Spec

=============================================================================
