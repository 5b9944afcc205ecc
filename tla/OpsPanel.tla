------------------------------ MODULE OpsPanel ------------------------------
(***************************************************************************)
(* The page of the operations agent, src/web/src/views/AiOpsView.vue with  *)
(* src/web/src/api/ops.ts, and what its calls do on the server: a plan is  *)
(* executed and put on record with a snapshot (src/ops_runner.go,          *)
(* src/ops_executor.go), a record is rolled back from the page or by the   *)
(* watcher that observes it (src/ops_observer.go).                         *)
(*                                                                         *)
(* Of a channel the agent changes two things here: whether it is paused,   *)
(* and its runtime override, of which only the section "retry" and the     *)
(* rest are told apart.                                                    *)
(***************************************************************************)
EXTENDS Naturals, Sequences

CONSTANTS OpsChannels,
          OpsSlots,      \* bound: so many calls does the page send
          MaxRecords     \* bound: so many plans are executed

ASSUME OpsAssumption == OpsSlots \in Nat \ {0} /\ MaxRecords \in Nat

VARIABLES paused,        \* opsPausedAt
          override,      \* the runtime overrides of the channels
          records,       \* the audit table: the records of executed plans
          watched,       \* opsPendingObservations
          opsOn,         \* OpsConfig.enabled
          panel,         \* what the page shows
          obusy,         \* its flags
          posts          \* the calls in flight

opsVars == <<paused, override, records, watched, opsOn, panel, obusy, posts>>

-----------------------------------------------------------------------------

Override == [retry: {"unset", "on", "off"}, rest: {"unset", "base", "own"}]
NoOverride == [retry |-> "unset", rest |-> "unset"]

\* getEffectiveMergedConfig
Holds(o) == [retry |-> IF o.retry = "unset" THEN "off" ELSE o.retry,
             rest |-> IF o.rest = "unset" THEN "base" ELSE o.rest]

OpsAction == [do: {"pause", "resume", "enable retry"}, hid: OpsChannels]
Plans == {<<a>> : a \in OpsAction} \cup {<<a, b>> : a, b \in OpsAction}
SnapItem == [act: OpsAction, pausedBefore: BOOLEAN, before: Override]

\* What a step of the agent works on.
Engine == [paused: SUBSET OpsChannels, override: [OpsChannels -> Override]]
Now == [paused |-> paused, override |-> override]

\* "was" and "left" are the engine before and after the plan; they are no
\* part of the table.
Record == [snap: UNION {[1..n -> SnapItem] : n \in 1..2}, status: {"executed", "rolled back"},
           was: Engine, left: Engine]

Loads == {"all", "mutated", "audit", "status", "config"}
OpsOps == Loads \cup {"analyze", "execute", "save", "detail", "rollback", "resume"}
OpsFlags == {"initialLoading", "auditRefreshing", "saving", "analyzing", "executing",
             "detailLoading"}
OpsCall == [op: OpsOps, id: 0..MaxRecords, hid: OpsChannels \cup {"none"}, on: BOOLEAN,
            flag: OpsFlags \cup {"none"}, served: BOOLEAN,
            paused: SUBSET OpsChannels, rows: 0..MaxRecords]
NoPost == [op |-> "unused"]
PostOver == [op |-> "over"]
OpsSlot == 1..OpsSlots
Posted(i) == posts[i].op \in OpsOps

APost(op, id, hid, flag) ==
    [op |-> op, id |-> id, hid |-> hid, on |-> op = "save" /\ panel.on, flag |-> flag, served |-> FALSE,
     paused |-> {}, rows |-> 0]
Post(c) == \E i \in OpsSlot :
              /\ posts[i] = NoPost /\ \A j \in OpsSlot : posts[j] = NoPost => i <= j
              /\ posts' = [posts EXCEPT ![i] = c]

-----------------------------------------------------------------------------
(* The server.                                                             *)

\* opsPauseChannel, opsResumeChannel, and saveRuntimeHIDConfig with the patch
\* alone: the rest of the override goes.
Acted(e, a) ==
    CASE a.do = "pause" -> [e EXCEPT !.paused = @ \cup {a.hid}]
      [] a.do = "resume" -> [e EXCEPT !.paused = @ \ {a.hid}]
      [] OTHER -> [e EXCEPT !.override[a.hid] = [NoOverride EXCEPT !.retry = "on"]]

\* snapshotBeforeMutate
SnapOf(e, a) == [act |-> a, pausedBefore |-> a.hid \in e.paused,
                 before |-> Holds(e.override[a.hid])]

Halfway(e, plan, n) == IF n = 1 THEN e ELSE Acted(e, plan[1])
Executed(e, plan) ==
    [snap |-> [n \in 1..Len(plan) |-> SnapOf(Halfway(e, plan, n), plan[n])],
     status |-> "executed", was |-> e,
     left |-> Acted(Halfway(e, plan, Len(plan)), plan[Len(plan)])]

\* A resumed channel is not paused again: rollbackOpsSnapshot has no case.
Undone(e, item) ==
    LET h == item.act.hid IN
    CASE item.act.do = "pause" ->
            [e EXCEPT !.paused = IF item.pausedBefore THEN @ \cup {h} ELSE @ \ {h}]
      [] item.act.do = "enable retry" -> [e EXCEPT !.override[h] = item.before]
      [] OTHER -> e

\* Mutant of RolledBack: from the first action to the last.
RolledForward(e, snap) ==
    IF Len(snap) = 1 THEN Undone(e, snap[1]) ELSE Undone(Undone(e, snap[1]), snap[2])

\* rollbackOpsSnapshot: from the last action to the first.
RolledBack(e, snap) ==
    IF Len(snap) = 1 THEN Undone(e, snap[1]) ELSE Undone(Undone(e, snap[2]), snap[1])

Engage(e) == paused' = e.paused /\ override' = e.override

\* runOpsRollback; a record that was rolled back is rolled back once more.
Rollback(id) ==
    /\ Engage(RolledBack(Now, records[id].snap))
    /\ records' = [records EXCEPT ![id].status = "rolled back"]

Execute(plan) ==
    /\ Len(records) < MaxRecords
    /\ LET r == Executed(Now, plan) IN
       /\ Engage(r.left)
       /\ records' = Append(records, r)
       /\ watched' = watched \cup {Len(records) + 1}

\* What the answers carry that are shown.
Served(i) == posts' = [posts EXCEPT ![i] =
    IF posts[i].op \in Loads \cup {"save"}
    THEN [posts[i] EXCEPT !.served = TRUE, !.paused = paused', !.rows = Len(records'),
                          !.on = opsOn']
    ELSE [posts[i] EXCEPT !.served = TRUE]]
Idle == UNCHANGED <<paused, override, records, watched, opsOn>>

\* runOpsAnalyze executes only when the agent is on, and when there is an
\* action to take.
ServePost(i) ==
    /\ Posted(i) /\ ~posts[i].served
    /\ LET c == posts[i] IN
       \/ c.op = "execute" /\ opsOn /\ (\E plan \in Plans : Execute(plan)) /\ UNCHANGED opsOn
       \/ c.op = "rollback" /\ Rollback(c.id) /\ UNCHANGED <<watched, opsOn>>
       \/ /\ c.op = "resume" /\ c.hid \in paused
          /\ paused' = paused \ {c.hid}
          /\ UNCHANGED <<override, records, watched, opsOn>>
       \/ c.op = "save" /\ opsOn' = c.on /\ UNCHANGED <<paused, override, records, watched>>
       \/ c.op \in Loads \cup {"analyze", "execute", "detail"} /\ Idle
    /\ Served(i)
    /\ UNCHANGED <<panel, obusy>>

\* The watcher: a plan of its own, and the end of an observation, with or
\* without a rollback.  A manual rollback does not end the observation.
WatcherExecutes ==
    /\ opsOn /\ \E plan \in Plans : Execute(plan)
    /\ UNCHANGED <<opsOn, panel, obusy, posts>>

Observed(id) ==
    /\ id \in watched
    /\ watched' = watched \ {id}
    /\ Rollback(id) \/ UNCHANGED <<paused, override, records>>
    /\ UNCHANGED <<opsOn, panel, obusy, posts>>

-----------------------------------------------------------------------------
(* The page: panel.on is the checkbox of the form, which the button for an *)
(* execution looks at, whether it was saved or not.                        *)

Panel == [on: BOOLEAN, loaded: BOOLEAN, rows: 0..MaxRecords, paused: SUBSET OpsChannels,
          open: BOOLEAN, row: 0..MaxRecords]

EditOpsConfig ==
    /\ ~panel.open /\ panel.loaded
    /\ panel' = [panel EXCEPT !.on = ~@]
    /\ UNCHANGED <<paused, override, records, watched, opsOn, obusy, posts>>

Click(c, flags) ==
    /\ ~panel.open /\ obusy \cap flags = {}
    /\ Post(c)
    /\ obusy' = obusy \cup ({c.flag} \ {"none"})
    /\ UNCHANGED <<paused, override, records, watched, opsOn, panel>>

SaveOpsConfig == panel.loaded /\ Click(APost("save", 0, "none", "saving"), {"saving"})
RefreshAudit == Click(APost("audit", 0, "none", "auditRefreshing"), {"auditRefreshing"})
RunAnalyze(execute) ==
    /\ "initialLoading" \notin obusy /\ (execute => panel.on)
    /\ Click(IF execute THEN APost("execute", 0, "none", "executing")
             ELSE APost("analyze", 0, "none", "analyzing"), {"analyzing", "executing"})
ResumeChannel(h) == h \in panel.paused /\ Click(APost("resume", 0, h, "none"), {})

\* The dialog opens at once and still holds the row of the one before.
OpenDetail(id) ==
    /\ ~panel.open /\ id \in 1..panel.rows
    /\ Post(APost("detail", id, "none", "detailLoading"))
    /\ panel' = [panel EXCEPT !.open = TRUE]
    /\ obusy' = obusy \cup {"detailLoading"}
    /\ UNCHANGED <<paused, override, records, watched, opsOn>>

CloseDetail ==
    /\ panel.open
    /\ panel' = [panel EXCEPT !.open = FALSE]
    /\ UNCHANGED <<paused, override, records, watched, opsOn, obusy, posts>>

\* The button is there while another row is being loaded.
RollbackRow ==
    /\ panel.open /\ panel.row # 0
    /\ Post(APost("rollback", panel.row, "none", "none"))
    /\ UNCHANGED <<paused, override, records, watched, opsOn, panel, obusy>>

\* Both flags of an analysis come down in its "finally".
Lowered(c) ==
    IF c.flag \in {"analyzing", "executing"} THEN obusy \ {"analyzing", "executing"}
    ELSE IF c.op = "all" THEN obusy \ {"initialLoading", "auditRefreshing"}
    ELSE obusy \ {c.flag}

Shows(c) ==
    CASE c.op = "detail" -> [panel EXCEPT !.row = c.id]
      [] c.op = "rollback" -> [panel EXCEPT !.open = FALSE]
      [] c.op \in {"save", "config"} -> [panel EXCEPT !.on = c.on]
      [] c.op = "all" -> [panel EXCEPT !.on = c.on, !.loaded = TRUE, !.paused = c.paused,
                                       !.rows = c.rows]
      [] c.op = "status" -> [panel EXCEPT !.paused = c.paused]
      [] c.op \in {"audit", "mutated"} -> [panel EXCEPT !.paused = c.paused, !.rows = c.rows]
      [] OTHER -> panel

\* The loads that follow a change, under its flag.
Follows(op) == CASE op \in {"analyze", "execute", "rollback"} -> "mutated"
                 [] op = "save" -> "config"
                 [] op = "resume" -> "status"
                 [] OTHER -> "none"

\* Mutant of AnswerPost: the loads that follow do not take the flag down.
AnswerPostUnflagged(i) ==
    /\ Posted(i) /\ posts[i].served
    /\ LET c == posts[i] IN
       /\ panel' = Shows(c)
       /\ IF Follows(c.op) # "none"
          THEN /\ posts' = [posts EXCEPT ![i] = APost(Follows(c.op), 0, "none", "none")]
               /\ UNCHANGED obusy
          ELSE posts' = [posts EXCEPT ![i] = PostOver] /\ obusy' = Lowered(c)
    /\ UNCHANGED <<paused, override, records, watched, opsOn>>

AnswerPost(i) ==
    /\ Posted(i) /\ posts[i].served
    /\ LET c == posts[i] IN
       /\ panel' = Shows(c)
       /\ IF Follows(c.op) # "none"
          THEN /\ posts' = [posts EXCEPT ![i] = APost(Follows(c.op), 0, "none", c.flag)]
               /\ UNCHANGED obusy
          ELSE posts' = [posts EXCEPT ![i] = PostOver] /\ obusy' = Lowered(c)
    /\ UNCHANGED <<paused, override, records, watched, opsOn>>

\* Refused or unanswered; a detail that is not there closes the dialog.
FailPost(i) ==
    /\ Posted(i)
    /\ obusy' = Lowered(posts[i])
    /\ panel' = IF posts[i].op = "detail" THEN [panel EXCEPT !.open = FALSE] ELSE panel
    /\ posts' = [posts EXCEPT ![i] = PostOver]
    /\ UNCHANGED <<paused, override, records, watched, opsOn>>

-----------------------------------------------------------------------------

\* onMounted(() => loadAll(true)).  A channel may have an override.
OpsInit ==
    /\ paused = {} /\ records = <<>> /\ watched = {}
    /\ override \in [OpsChannels -> {NoOverride, [NoOverride EXCEPT !.rest = "own"]}]
    /\ opsOn \in BOOLEAN
    /\ panel = [on |-> FALSE, loaded |-> FALSE, rows |-> 0, paused |-> {}, open |-> FALSE,
                row |-> 0]
    /\ obusy = {"initialLoading"}
    /\ posts = [i \in OpsSlot |-> IF i = 1 THEN APost("all", 0, "none", "initialLoading")
                                  ELSE NoPost]

OpsNext ==
    \/ \E i \in OpsSlot : ServePost(i) \/ AnswerPost(i) \/ FailPost(i)
    \/ WatcherExecutes \/ \E id \in watched : Observed(id)
    \/ EditOpsConfig \/ SaveOpsConfig \/ RefreshAudit
    \/ \E execute \in BOOLEAN : RunAnalyze(execute)
    \/ \E h \in OpsChannels : ResumeChannel(h)
    \/ \E id \in 1..MaxRecords : OpenDetail(id)
    \/ CloseDetail \/ RollbackRow

OpsSpec == OpsInit /\ [][OpsNext]_opsVars

-----------------------------------------------------------------------------
(* Properties.                                                             *)

OpsTypeOK ==
    /\ paused \subseteq OpsChannels /\ override \in [OpsChannels -> Override]
    /\ \A n \in DOMAIN records : records[n] \in Record
    /\ Len(records) <= MaxRecords /\ watched \subseteq 1..Len(records)
    /\ opsOn \in BOOLEAN /\ panel \in Panel /\ obusy \subseteq OpsFlags
    /\ posts \in [OpsSlot -> OpsCall \cup {NoPost, PostOver}]

\* What holds for the channels: the override of a channel that inherits and
\* that of one that repeats what it would inherit count the same.
Holding(e) == [paused |-> e.paused, cfg |-> [h \in OpsChannels |-> Holds(e.override[h])]]

\* A rollback takes the engine back to where it was before the plan, whatever
\* the plan did to one channel twice, if nothing else changed it in between.
\* The one action it does not take back is to resume a paused channel.
RollbackRestores ==
    [][\A n \in DOMAIN records :
          (/\ records[n].status = "executed" /\ records'[n].status = "rolled back"
           /\ Now = records[n].left
           /\ \A k \in DOMAIN records[n].snap : records[n].snap[k].act.do # "resume")
          => Holding(Now)' = Holding(records[n].was)]_opsVars

\* The buttons of the page come back: each flag is up only while a call is
\* under way that takes it down, also through the loads that follow a change
\* and although an analysis takes down the flag of an execution.
OpsFlagsHaveCause ==
    \A f \in obusy : \E i \in OpsSlot : Posted(i) /\ posts[i].flag = f

=============================================================================
