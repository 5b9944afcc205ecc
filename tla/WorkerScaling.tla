--------------------------- MODULE WorkerScaling ---------------------------
(***************************************************************************)
(* Who starts and stops the consumers of one channel (hid): the start of   *)
(* the order queue, the scaler, the refresher that looks for new channels, *)
(* and calls from outside: an enqueued order, pause, resume and adjust by  *)
(* the administrator or the operations agent.                              *)
(*                                                                         *)
(* hids, currWorkers with workerCancels, and opsPausedAt have a mutex      *)
(* each; a step is what happens under one of them.  A worker lives from    *)
(* its start to the call of its cancel function.  A failed query or LLEN   *)
(* skips a tick, which is no step.                                         *)
(***************************************************************************)
EXTENDS Integers, FiniteSets

CONSTANTS Calls,        \* calls from outside that are under way at a time
          BootWorkers,  \* minWorkersPerHID, which the start uses
          MinWorkers,   \* getEffectiveQueueForHID(hid).MinWorkersPerHID
          MaxWorkers,   \* getEffectiveQueueForHID(hid).MaxWorkersPerHID
          Deltas        \* what opsAdjustWorkers is called with

ASSUME ScalingAssumption == /\ IsFiniteSet(Calls)
                            /\ Calls # {}
                            /\ BootWorkers \in Nat \ {0}
                            /\ MinWorkers \in Nat \ {0}
                            /\ MaxWorkers \in Nat \ {0}
                            /\ Deltas \subseteq Int

VARIABLES todo,       \* the channel has orders to do (dockstatus '0')
          hids,       \* how often the channel is in hids
          currWorkers,
          cancels,    \* the length of workerCancels: the workers that live
          paused,     \* the channel is in opsPausedAt
          boot,       \* where startOrderQueueWorkers is
          listed,     \* pendingHIDs, as the start read it
          toStart,    \* workers the start has not started yet
          scaler,     \* where the scaler is, the number it saw and the one it wants
          refresher,  \* where the refresher is
          known,      \* the refresher's own set has the channel
          call        \* where each call is

vars == <<todo, hids, currWorkers, cancels, paused, boot, listed, toStart, scaler, refresher, known, call>>

NoCall     == [pc |-> "idle", delta |-> 0]
NotScaling == [pc |-> "idle", saw |-> 0, desired |-> 0]

Init == /\ todo \in BOOLEAN
        /\ hids = 0
        /\ currWorkers = 0
        /\ cancels = 0
        /\ paused = FALSE
        /\ boot = "off"
        /\ listed = FALSE
        /\ toStart = 0
        /\ scaler = NotScaling
        /\ refresher = "off"
        /\ known = FALSE
        /\ call = [c \in Calls |-> NoCall]

\* The two variables that concurrencyMu guards.
StartWorkers(n) ==
    /\ currWorkers' = currWorkers + n
    /\ cancels' = cancels + n

\* Orders come, and are submitted or fail.
OrdersChange ==
    /\ todo' = ~todo
    /\ UNCHANGED <<hids, currWorkers, cancels, paused, boot, listed, toStart, scaler, refresher, known, call>>

-----------------------------------------------------------------------------
(* startOrderQueueWorkers.  Calls come in as soon as it has set            *)
(* orderQueueStarted, before it has its list of channels.                  *)

BootBegins ==
    /\ boot = "off"
    /\ boot' = "query"
    /\ UNCHANGED <<todo, hids, currWorkers, cancels, paused, listed, toStart, scaler, refresher, known, call>>

\* pendingHIDs; a failed query finds none.
BootQueries ==
    /\ boot = "query"
    /\ listed' \in {todo, FALSE}
    /\ boot' = "list"
    /\ UNCHANGED <<todo, hids, currWorkers, cancels, paused, toStart, scaler, refresher, known, call>>

\* hids = ..., whatever a call has put there meanwhile.
BootLists ==
    /\ boot = "list"
    /\ hids' = IF listed THEN 1 ELSE 0
    /\ toStart' = IF listed THEN BootWorkers ELSE 0
    /\ boot' = "start"
    /\ UNCHANGED <<todo, currWorkers, cancels, paused, listed, scaler, refresher, known, call>>

BootStarts ==
    /\ boot = "start"
    /\ toStart > 0
    /\ toStart' = toStart - 1
    /\ StartWorkers(1)
    /\ UNCHANGED <<todo, hids, paused, boot, listed, scaler, refresher, known, call>>

BootEnds ==
    /\ boot = "start"
    /\ toStart = 0
    /\ boot' = "done"
    /\ UNCHANGED <<todo, hids, currWorkers, cancels, paused, listed, toStart, scaler, refresher, known, call>>

-----------------------------------------------------------------------------
(* The scaler.                                                             *)

Top     == IF MaxWorkers < MinWorkers THEN MinWorkers ELSE MaxWorkers
Desired == MinWorkers .. Top

\* The channel is not paused; now the scaler looks up the queue's length.
ScalerAsks ==
    /\ boot = "done"
    /\ scaler.pc = "idle"
    /\ hids > 0
    /\ ~paused
    /\ scaler' = [scaler EXCEPT !.pc = "asked"]
    /\ UNCHANGED <<todo, hids, currWorkers, cancels, paused, boot, listed, toStart, refresher, known, call>>

\* Any length, fresh or cached, with the number of workers as it is now.
ScalerCompares ==
    /\ scaler.pc = "asked"
    /\ \E d \in Desired :
         scaler' = IF currWorkers = d THEN NotScaling
                   ELSE [pc |-> "adjust", saw |-> currWorkers, desired |-> d]
    /\ UNCHANGED <<todo, hids, currWorkers, cancels, paused, boot, listed, toStart, refresher, known, call>>

\* Mutant of ScalerAdjusts: the number is not read again under the lock.
ScalerAdjustsSeen ==
    /\ scaler.pc = "adjust"
    /\ currWorkers' = scaler.desired
    /\ cancels' = cancels + scaler.desired - scaler.saw
    /\ scaler' = NotScaling
    /\ UNCHANGED <<todo, hids, paused, boot, listed, toStart, refresher, known, call>>

\* Mutant of ScalerAdjusts: workers are started and never stopped.
ScalerOnlyStarts ==
    /\ scaler.pc = "adjust"
    /\ StartWorkers(IF currWorkers < scaler.desired THEN scaler.desired - currWorkers ELSE 0)
    /\ scaler' = NotScaling
    /\ UNCHANGED <<todo, hids, paused, boot, listed, toStart, refresher, known, call>>

\* The number read again under the lock; as many started, or stopped while
\* workerCancels has any.
ScalerAdjusts ==
    /\ scaler.pc = "adjust"
    /\ LET more == scaler.desired - currWorkers
       IN  StartWorkers(IF more < -cancels THEN -cancels ELSE more)
    /\ scaler' = NotScaling
    /\ UNCHANGED <<todo, hids, paused, boot, listed, toStart, refresher, known, call>>

-----------------------------------------------------------------------------
(* The refresher.                                                          *)

RefresherBegins ==
    /\ boot = "done"
    /\ refresher = "off"
    /\ refresher' = "idle"
    /\ known' = (hids > 0)
    /\ UNCHANGED <<todo, hids, currWorkers, cancels, paused, boot, listed, toStart, scaler, call>>

\* A channel with orders to do that it does not know.
RefresherFinds ==
    /\ refresher = "idle"
    /\ todo
    /\ ~known
    /\ IF paused
       THEN /\ known' = TRUE
            /\ hids' = hids + 1
            /\ UNCHANGED refresher
       ELSE /\ refresher' = "start"
            /\ UNCHANGED <<known, hids>>
    /\ UNCHANGED <<todo, currWorkers, cancels, paused, boot, listed, toStart, scaler, call>>

RefresherStarts ==
    /\ refresher = "start"
    /\ StartWorkers(MinWorkers)
    /\ refresher' = "track"
    /\ UNCHANGED <<todo, hids, paused, boot, listed, toStart, scaler, known, call>>

\* Mutant of RefresherTracks: the channel stays unknown.
RefresherForgets ==
    /\ refresher = "track"
    /\ hids' = hids + 1
    /\ refresher' = "idle"
    /\ UNCHANGED <<todo, currWorkers, cancels, paused, boot, listed, toStart, scaler, known, call>>

RefresherTracks ==
    /\ refresher = "track"
    /\ known' = TRUE
    /\ hids' = hids + 1
    /\ refresher' = "idle"
    /\ UNCHANGED <<todo, currWorkers, cancels, paused, boot, listed, toStart, scaler, call>>

-----------------------------------------------------------------------------
(* Calls from outside.                                                     *)

At(c, pc) == call' = [call EXCEPT ![c] = [@ EXCEPT !.pc = pc]]
Done(c)   == call' = [call EXCEPT ![c] = NoCall]

Comes(c) == boot # "off" /\ call[c].pc = "idle"

\* ensureOrderConsumerForHID, for an order that was to do when it was read.
Enqueued(c) ==
    /\ Comes(c)
    /\ todo
    /\ ~paused
    /\ At(c, "count")
    /\ UNCHANGED <<todo, hids, currWorkers, cancels, paused, boot, listed, toStart, scaler, refresher, known>>

EnsureCounts(c) ==
    /\ call[c].pc = "count"
    /\ IF currWorkers > 0 THEN Done(c) ELSE At(c, "ensure")
    /\ UNCHANGED <<todo, hids, currWorkers, cancels, paused, boot, listed, toStart, scaler, refresher, known>>

\* Counted again under the lock; the channel is listed once.
EnsureStarts(c) ==
    /\ call[c].pc = "ensure"
    /\ IF currWorkers > 0
       THEN UNCHANGED <<hids, currWorkers, cancels>>
       ELSE /\ StartWorkers(MinWorkers)
            /\ hids' = IF hids = 0 THEN 1 ELSE hids
    /\ Done(c)
    /\ UNCHANGED <<todo, paused, boot, listed, toStart, scaler, refresher, known>>

\* opsPauseChannel: first the mark, then the workers.
Pause(c) ==
    /\ Comes(c)
    /\ hids > 0
    /\ ~paused
    /\ paused' = TRUE
    /\ At(c, "cancel")
    /\ UNCHANGED <<todo, hids, currWorkers, cancels, boot, listed, toStart, scaler, refresher, known>>

PauseCancels(c) ==
    /\ call[c].pc = "cancel"
    /\ currWorkers' = 0
    /\ cancels' = 0
    /\ Done(c)
    /\ UNCHANGED <<todo, hids, paused, boot, listed, toStart, scaler, refresher, known>>

\* opsResumeChannel.
Resume(c) ==
    /\ Comes(c)
    /\ hids > 0
    /\ paused
    /\ paused' = FALSE
    /\ At(c, "resume")
    /\ UNCHANGED <<todo, hids, currWorkers, cancels, boot, listed, toStart, scaler, refresher, known>>

ResumeStarts(c) ==
    /\ call[c].pc = "resume"
    /\ StartWorkers(MinWorkers)
    /\ Done(c)
    /\ UNCHANGED <<todo, hids, paused, boot, listed, toStart, scaler, refresher, known>>

\* At most four workers at a time.
Clipped(d) == CASE d > 4 -> 4 [] d < -4 -> -4 [] OTHER -> d

\* opsAdjustWorkers, which does not ask whether the channel is in hids.
Adjust(c) ==
    /\ Comes(c)
    /\ ~paused
    /\ \E d \in Deltas \ {0} : call' = [call EXCEPT ![c] = [pc |-> "adjust", delta |-> Clipped(d)]]
    /\ UNCHANGED <<todo, hids, currWorkers, cancels, paused, boot, listed, toStart, scaler, refresher, known>>

Lesser(a, b) == IF a < b THEN a ELSE b

\* How many workers a call to adjust by d starts (or, negative, stops).
Adjustment(d) ==
    CASE d > 0 /\ currWorkers < MaxWorkers -> Lesser(d, MaxWorkers - currWorkers)
      [] d < 0 /\ currWorkers > MinWorkers -> -Lesser(Lesser(-d, currWorkers - MinWorkers), cancels)
      [] OTHER -> 0

\* Mutant of AdjustApplies: down without the minimum.
AdjustAppliesAll(c) ==
    /\ call[c].pc = "adjust"
    /\ StartWorkers(IF call[c].delta > 0 THEN Adjustment(call[c].delta) ELSE call[c].delta)
    /\ Done(c)
    /\ UNCHANGED <<todo, hids, paused, boot, listed, toStart, scaler, refresher, known>>

AdjustApplies(c) ==
    /\ call[c].pc = "adjust"
    /\ StartWorkers(Adjustment(call[c].delta))
    /\ Done(c)
    /\ UNCHANGED <<todo, hids, paused, boot, listed, toStart, scaler, refresher, known>>

-----------------------------------------------------------------------------
CallNext(c) ==
    \/ Enqueued(c) \/ EnsureCounts(c) \/ EnsureStarts(c)
    \/ Pause(c) \/ PauseCancels(c)
    \/ Resume(c) \/ ResumeStarts(c)
    \/ Adjust(c) \/ AdjustApplies(c)

Next == \/ OrdersChange
        \/ BootBegins \/ BootQueries \/ BootLists \/ BootStarts \/ BootEnds
        \/ ScalerAsks \/ ScalerCompares \/ ScalerAdjusts
        \/ RefresherBegins \/ RefresherFinds \/ RefresherStarts \/ RefresherTracks
        \/ \E c \in Calls : CallNext(c)

Spec == Init /\ [][Next]_vars

\* The start, the loops and the calls under way go on; nobody has to call.
Fairness ==
    /\ WF_vars(BootBegins \/ BootQueries \/ BootLists \/ BootStarts \/ BootEnds)
    /\ WF_vars(ScalerAsks \/ ScalerCompares \/ ScalerAdjusts)
    /\ WF_vars(RefresherBegins \/ RefresherFinds \/ RefresherStarts \/ RefresherTracks)
    /\ \A c \in Calls :
         WF_vars(EnsureCounts(c) \/ EnsureStarts(c) \/ PauseCancels(c) \/ ResumeStarts(c) \/ AdjustApplies(c))

FairSpec == Spec /\ Fairness

-----------------------------------------------------------------------------
(* Properties.                                                             *)

TypeOK ==
    /\ todo \in BOOLEAN /\ paused \in BOOLEAN /\ listed \in BOOLEAN /\ known \in BOOLEAN
    /\ hids \in Nat
    /\ currWorkers \in Nat
    /\ cancels \in Nat
    /\ boot \in {"off", "query", "list", "start", "done"}
    /\ toStart \in 0 .. BootWorkers
    /\ scaler \in [pc : {"idle", "asked", "adjust"}, saw : Nat, desired : Nat]
    /\ refresher \in {"off", "idle", "start", "track"}
    /\ call \in [Calls -> [pc : {"idle", "count", "ensure", "cancel", "resume", "adjust"}, delta : -4 .. 4]]

\* currWorkers, by which everybody decides how many workers to start or stop,
\* is the number of workers that live and can be stopped, however the start,
\* the two loops and the calls interleave: no worker is forgotten.
WorkersCounted == currWorkers = cancels

\* MaxWorkers is not the limit: whoever looked before the others acted still
\* starts the workers it has decided on.  But all of that together is bounded: a
\* new channel is started twice, and of the calls under way each starts the
\* minimum once, or keeps a pause from taking effect at once, during which
\* others resume.
Greater(a, b) == IF a < b THEN b ELSE a

WorkersBounded ==
    currWorkers <= Top + Greater(BootWorkers, MinWorkers) + MinWorkers * (2 * Cardinality(Calls) - 1)

\* A channel that stays unpaused, and has orders to do or is listed, has a
\* number of workers within its limits in the end: whatever was started twice,
\* or stopped too late by a pause that was over, is put right by the scaler.
SettlesInBounds ==
    <>[](~paused /\ (todo \/ hids > 0)) => <>[](currWorkers \in Desired)

\* ops_executor.go: "HID %d: consumption is paused".  A channel that stays
\* paused has no workers in the end.
PauseLasts == <>[]paused => <>[](currWorkers = 0)
=============================================================================
