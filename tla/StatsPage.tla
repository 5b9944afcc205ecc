------------------------------ MODULE StatsPage ------------------------------
(***************************************************************************)
(* The pages that poll: src/web/src/views/EngineOverviewView.vue and       *)
(* SystemMonitorView.vue, which share their shape.  Each visit of the page *)
(* is an instance of its own, which lives on after the page was left until *)
(* its timer is cleared and its calls are answered.                        *)
(***************************************************************************)
EXTENDS Naturals, Sequences

CONSTANTS MaxVisits,     \* bound: so many visits of the page
          MaxPolls       \* bound: so many polls of one visit in flight

ASSUME StatsAssumption == MaxVisits \in Nat /\ MaxPolls \in Nat

VARIABLE visits          \* the instances, in their order

-----------------------------------------------------------------------------

\* "first" is the load that onMounted waits for, "polls" counts the others,
\* "data" says that there is something to show.
AVisit == [shown: BOOLEAN, loading: BOOLEAN, data: BOOLEAN, timer: BOOLEAN,
           first: BOOLEAN, polls: 0..MaxPolls]

OpenPage ==
    /\ Len(visits) < MaxVisits /\ \A n \in DOMAIN visits : ~visits[n].shown
    /\ visits' = Append(visits, [shown |-> TRUE, loading |-> TRUE, data |-> FALSE,
                                 timer |-> FALSE, first |-> TRUE, polls |-> 0])

\* onUnmounted clears the timer that is there by now.
LeavePage(n) ==
    /\ visits[n].shown
    /\ visits' = [visits EXCEPT ![n].shown = FALSE, ![n].timer = FALSE]

\* Mutant of StartTimer: none is started while the timer of a visit before runs.
StartTimerOnce(visit) ==
    [visit EXCEPT !.first = FALSE, !.loading = FALSE,
                  !.timer = \A n \in DOMAIN visits : ~visits[n].timer]

\* The first load ends and the timer starts, also when the answer is a
\* refusal, and also when the page was left in the meantime.
StartTimer(visit) == [visit EXCEPT !.first = FALSE, !.loading = FALSE, !.timer = TRUE]

AnswerFirst(n) ==
    /\ visits[n].first
    /\ \E good \in BOOLEAN :
          visits' = [visits EXCEPT ![n] = [StartTimer(@) EXCEPT !.data = good]]

\* An error leaves onMounted before the timer is started.
FailFirst(n) ==
    /\ visits[n].first
    /\ visits' = [visits EXCEPT ![n].first = FALSE, ![n].loading = FALSE]

\* The timer does not wait for the poll before.
Poll(n) ==
    /\ visits[n].timer /\ visits[n].polls < MaxPolls
    /\ visits' = [visits EXCEPT ![n].polls = @ + 1]

EndPoll(n) ==
    /\ visits[n].polls > 0
    /\ \E good \in BOOLEAN :
          visits' = [visits EXCEPT ![n].polls = @ - 1, ![n].data = @ \/ good]

-----------------------------------------------------------------------------

StatsInit == visits = <<>>

StatsNext ==
    \/ OpenPage
    \/ \E n \in DOMAIN visits : \/ LeavePage(n) \/ AnswerFirst(n) \/ FailFirst(n)
                                \/ Poll(n) \/ EndPoll(n)

StatsSpec == StatsInit /\ [][StatsNext]_visits

-----------------------------------------------------------------------------
(* Properties.                                                             *)

StatsTypeOK == visits \in Seq(AVisit) /\ Len(visits) <= MaxVisits

\* Numbers that are shown are being refreshed, as the page says of itself
\* ("每 10 秒自动刷新", src/web/src/views/EngineOverviewView.vue:65): a page
\* that shows any has a timer of its own, whatever became of the visits
\* before it, whose timers may still run.
ShownIsRefreshed == \A n \in DOMAIN visits :
    visits[n].shown /\ visits[n].data => visits[n].timer

=============================================================================
