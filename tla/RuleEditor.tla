----------------------------- MODULE RuleEditor -----------------------------
(***************************************************************************)
(* The editor of the submit rules, src/web/src/views/DashboardView.vue,    *)
(* with the calls of src/web/src/api/submit-platform.ts and the handlers   *)
(* in src/platform_rule_api.go that answer them.                           *)
(*                                                                         *)
(* The page keeps a list of platforms and one editor, which is a dialog.   *)
(* Every call is answered at any later time, in any order, or never: a     *)
(* call in flight sits in a slot of "calls".  The handlers that touch the  *)
(* table are a step of their own (ServeRule), so that an answer may be old *)
(* when it arrives.  A rule_config is a member of Rules; the text of the   *)
(* editor is such a rule or Broken, which JSON.parse refuses.              *)
(***************************************************************************)
EXTENDS Naturals, FiniteSets

CONSTANTS Platforms,     \* platform types
          Rules,         \* rule_configs
          DefaultRule,   \* defaultRuleConfig()
          RuleSlots      \* bound: so many calls does the page send

ASSUME RuleAssumption ==
    /\ DefaultRule \in Rules
    /\ "none" \notin Platforms \cup Rules
    /\ "broken" \notin Rules
    /\ RuleSlots \in Nat \ {0}

NoPlatform == "none"
NoRule == "none"
Broken == "broken"
Absent == "none"

VARIABLES store,         \* the table submit_platform, with its cache
          platforms,     \* the list that is shown
          editor,        \* the dialog "showEditor" and what belongs to it
          asking,        \* the dialogs that ask before a save or a removal
          busy,          \* which of the page's busy flags are up
          aiConfigured,
          calls,         \* the calls in flight
          missed         \* a call on the list ended without a good answer

ruleVars == <<store, platforms, editor, asking, busy, aiConfigured, calls,
              missed>>

-----------------------------------------------------------------------------
(* The records of the page.                                                *)

Table == [Platforms -> Rules \cup {Absent}]
EmptyTable == [p \in Platforms |-> Absent]

\* "passed" is testPassed, "base" is initialRuleSnapshot.
Editor == [shown: BOOLEAN, editing: BOOLEAN, type: Platforms \cup {NoPlatform},
           rule: Rules, text: Rules \cup {Broken}, base: Rules \cup {NoRule},
           passed: BOOLEAN]

ListOps == {"list", "update", "create", "remove"}
RuleOps == ListOps \cup {"get", "test", "fix", "convert"}
Flags == {"loading", "testing", "fixing", "converting"}

\* "again" marks a repair that is followed by a test, and that test.  The
\* answer of "list" is in "list", that of "get" takes the place of "rule".
Call == [op: RuleOps, type: Platforms \cup {NoPlatform},
         rule: Rules \cup {NoRule}, again: BOOLEAN, list: Table,
         reply: {"none", "ok", "refused"}]
Unused == [op |-> "unused", reply |-> "none"]
Over == [op |-> "over", reply |-> "none"]
Slots == 1..RuleSlots

ARuleCall(op, p, r, again) ==
    [op |-> op, type |-> p, rule |-> r, again |-> again, list |-> EmptyTable,
     reply |-> "none"]
ListCall == ARuleCall("list", NoPlatform, NoRule, FALSE)

\* A new call takes the first slot that is free; a slot is used once.
FreeSlots == {i \in Slots : calls[i] = Unused}
SendRule(c) == \E i \in FreeSlots :
                  /\ \A j \in FreeSlots : i <= j
                  /\ calls' = [calls EXCEPT ![i] = c]

Done(i) == calls' = [calls EXCEPT ![i] = Over]

-----------------------------------------------------------------------------
(* What the handlers do with the table.                                    *)

\* A failing call leaves the table alone: adminSubmitPlatformsHandler
\* refuses a type that is there, adminSubmitPlatformByTypeHandler one that
\* is not.
Written(c) ==
    CASE c.op = "update" /\ store[c.type] # Absent -> [store EXCEPT ![c.type] = c.rule]
      [] c.op = "create" /\ store[c.type] = Absent -> [store EXCEPT ![c.type] = c.rule]
      [] c.op = "remove" -> [store EXCEPT ![c.type] = Absent]
      [] OTHER -> store

Replied(c) ==
    CASE c.op = "list" -> [c EXCEPT !.reply = "ok", !.list = store]
      [] c.op = "get" /\ store[c.type] # Absent ->
            [c EXCEPT !.reply = "ok", !.rule = store[c.type]]
      [] c.op = "create" /\ store[c.type] = Absent -> [c EXCEPT !.reply = "ok"]
      [] c.op \in {"update", "remove"} /\ store[c.type] # Absent ->
            [c EXCEPT !.reply = "ok"]
      [] OTHER -> [c EXCEPT !.reply = "refused"]

ServeRule(i) ==
    /\ calls[i].op \in ListOps \cup {"get"}
    /\ calls[i].reply = "none"
    /\ store' = Written(calls[i])
    /\ calls' = [calls EXCEPT ![i] = Replied(calls[i])]
    /\ UNCHANGED <<platforms, editor, asking, busy, aiConfigured, missed>>

-----------------------------------------------------------------------------
(* The list.                                                               *)

\* The dialogs are modal: the list can be used while none is open.
AtList == ~editor.shown /\ ~asking.save /\ asking.remove = NoPlatform

ReloadList ==
    /\ AtList /\ "loading" \notin busy
    /\ SendRule(ListCall)
    /\ busy' = busy \cup {"loading"}
    /\ UNCHANGED <<store, platforms, editor, asking, aiConfigured, missed>>

AnswerList(i) ==
    /\ calls[i].op = "list" /\ calls[i].reply = "ok"
    /\ platforms' = calls[i].list
    /\ missed' = FALSE
    /\ busy' = busy \ {"loading"}
    /\ Done(i)
    /\ UNCHANGED <<store, editor, asking, aiConfigured>>

AskRemove(p) ==
    /\ AtList /\ platforms[p] # Absent
    /\ asking' = [asking EXCEPT !.remove = p]
    /\ UNCHANGED <<store, platforms, editor, busy, aiConfigured, calls, missed>>

CancelRemove ==
    /\ asking.remove # NoPlatform
    /\ asking' = [asking EXCEPT !.remove = NoPlatform]
    /\ UNCHANGED <<store, platforms, editor, busy, aiConfigured, calls, missed>>

ConfirmRemove ==
    /\ asking.remove # NoPlatform /\ "loading" \notin busy
    /\ asking' = [asking EXCEPT !.remove = NoPlatform]
    /\ busy' = busy \cup {"loading"}
    /\ SendRule(ARuleCall("remove", asking.remove, NoRule, FALSE))
    /\ UNCHANGED <<store, platforms, editor, aiConfigured, missed>>

AnswerRemove(i) ==
    /\ calls[i].op = "remove" /\ calls[i].reply = "ok"
    /\ calls' = [calls EXCEPT ![i] = ListCall]
    /\ UNCHANGED <<store, platforms, editor, asking, busy, aiConfigured, missed>>

-----------------------------------------------------------------------------
(* Opening and editing.                                                    *)

\* resetEditorState
ResetEditor(e) ==
    [e EXCEPT !.base = NoRule, !.passed = FALSE]

OpenCreate ==
    /\ AtList
    /\ editor' = [ResetEditor(editor) EXCEPT
                    !.shown = TRUE, !.editing = FALSE, !.type = NoPlatform,
                    !.rule = DefaultRule, !.text = DefaultRule]
    /\ UNCHANGED <<store, platforms, asking, busy, aiConfigured, calls, missed>>

\* The dialog opens when the answer is there; nothing keeps the
\* administrator from opening another row before.
OpenEdit(p) ==
    /\ AtList /\ platforms[p] # Absent
    /\ editor' = [ResetEditor(editor) EXCEPT !.editing = TRUE]
    /\ SendRule(ARuleCall("get", p, platforms[p], FALSE))
    /\ UNCHANGED <<store, platforms, asking, busy, aiConfigured, missed>>

\* The row itself stands in for an answer that is an error.
\* setInitialRuleBaseline ends it: the rule counts as tested.
ShowRule(p, r) ==
    [editor EXCEPT !.type = p, !.rule = r, !.text = r, !.base = r,
                   !.passed = TRUE, !.shown = TRUE]

AnswerGet(i) ==
    /\ calls[i].op = "get" /\ calls[i].reply = "ok"
    /\ editor' = ShowRule(calls[i].type, calls[i].rule)
    /\ Done(i)
    /\ UNCHANGED <<store, platforms, asking, busy, aiConfigured, missed>>

AtEditor == editor.shown /\ ~asking.save /\ asking.remove = NoPlatform

CloseEditor ==
    /\ AtEditor
    /\ editor' = [editor EXCEPT !.shown = FALSE]
    /\ UNCHANGED <<store, platforms, asking, busy, aiConfigured, calls, missed>>

\* The fields of the form.  Typing into the JSON does not touch testPassed.
EditForm ==
    /\ AtEditor
    /\ \/ \E t \in (Rules \cup {Broken}) \ {editor.text} :
             editor' = [editor EXCEPT !.text = t]
       \/ /\ ~editor.editing
          /\ \E p \in (Platforms \cup {NoPlatform}) \ {editor.type} :
                editor' = [editor EXCEPT !.type = p]
    /\ UNCHANGED <<store, platforms, asking, busy, aiConfigured, calls, missed>>

ApplyJson ==
    /\ AtEditor /\ editor.text # Broken
    /\ editor' = [editor EXCEPT !.rule = editor.text, !.passed = FALSE]
    /\ UNCHANGED <<store, platforms, asking, busy, aiConfigured, calls, missed>>

FormatJson ==
    /\ AtEditor /\ editor.text # Broken
    /\ editor' = [editor EXCEPT !.passed = FALSE]
    /\ UNCHANGED <<store, platforms, asking, busy, aiConfigured, calls, missed>>

\* applyParsedRule: in an editor of an existing platform the type stays.
ApplyParsed(e, p, r) ==
    [e EXCEPT !.type = IF e.editing THEN e.type ELSE p,
              !.rule = r, !.text = r, !.passed = FALSE]

ImportFromPhp ==
    /\ AtEditor
    /\ \E p \in Platforms, r \in Rules : editor' = ApplyParsed(editor, p, r)
    /\ UNCHANGED <<store, platforms, asking, busy, aiConfigured, calls, missed>>

-----------------------------------------------------------------------------
(* The calls for a test, a conversion and a repair.                        *)

\* Mutant of Synced: the text is checked and not taken over.
Unsynced(e) == e

\* syncRuleFromJson
Synced(e) == [e EXCEPT !.rule = e.text]
CanSync == editor.text # Broken

\* The buttons that start a conversion and a test.
CanConvert == AtEditor /\ aiConfigured /\ "converting" \notin busy
CanTest == /\ AtEditor /\ editor.type # NoPlatform
           /\ busy \cap {"testing", "loading"} = {}

ImportFromAi ==
    /\ CanConvert
    /\ busy' = busy \cup {"converting"}
    /\ SendRule(ARuleCall("convert", NoPlatform, NoRule, FALSE))
    /\ UNCHANGED <<store, platforms, editor, asking, aiConfigured, missed>>

AnswerConvert(i) ==
    /\ calls[i].op = "convert"
    /\ busy' = busy \ {"converting"}
    /\ \E p \in Platforms, r \in Rules : editor' = ApplyParsed(editor, p, r)
    /\ Done(i)
    /\ UNCHANGED <<store, platforms, asking, aiConfigured, missed>>

TestSubmit ==
    /\ CanTest /\ CanSync
    /\ editor' = Synced(editor)
    /\ busy' = busy \cup {"testing"}
    /\ SendRule(ARuleCall("test", editor.type, editor.text, FALSE))
    /\ UNCHANGED <<store, platforms, asking, aiConfigured, missed>>

\* The flags that the end of a test or a repair takes down.
Ended(c) == IF c.again /\ c.op = "test" THEN busy \ {"testing", "fixing"}
            ELSE IF c.op = "test" THEN busy \ {"testing"}
            ELSE busy \ {"fixing"}

\* The order was sent upstream and accepted, refused, or there was no order
\* to test with.
AnswerTest(i) ==
    /\ calls[i].op = "test"
    /\ busy' = Ended(calls[i])
    /\ \/ editor' = [editor EXCEPT !.passed = TRUE]
       \/ editor' = [editor EXCEPT !.passed = FALSE]
       \/ UNCHANGED editor
    /\ Done(i)
    /\ UNCHANGED <<store, platforms, asking, aiConfigured, missed>>

\* The note on the failure comes from a test or is typed in.
CanAiFix == AtEditor /\ aiConfigured /\ editor.type # NoPlatform /\ "fixing" \notin busy

\* The button in the footer, which tests again, is disabled while a test is
\* under way.
AiFixRule(again) ==
    /\ CanAiFix /\ (again => "testing" \notin busy) /\ CanSync
    /\ editor' = Synced(editor)
    /\ busy' = busy \cup {"fixing"}
    /\ SendRule(ARuleCall("fix", editor.type, editor.text, again))
    /\ UNCHANGED <<store, platforms, asking, aiConfigured, missed>>

\* With "again" the rule is tested at once, in the same run of the handler,
\* unless the type was cleared in the meantime.
AnswerFix(i) ==
    /\ calls[i].op = "fix"
    /\ \E p \in Platforms, r \in Rules :
          LET e == ApplyParsed(editor, p, r) IN
          /\ editor' = e
          /\ IF calls[i].again /\ e.type # NoPlatform
             THEN /\ busy' = busy \cup {"testing"}
                  /\ calls' = [calls EXCEPT ![i] = ARuleCall("test", e.type, r, TRUE)]
             ELSE busy' = Ended(calls[i]) /\ Done(i)
    /\ UNCHANGED <<store, platforms, asking, aiConfigured, missed>>

-----------------------------------------------------------------------------
(* Saving.                                                                 *)

SaveRequiresTest(e) == ~e.passed /\ (e.base = NoRule \/ e.rule # e.base)

\* persistPlatformRule
Persist(e) ==
    /\ busy' = busy \cup {"loading"}
    /\ SendRule(ARuleCall(IF e.editing THEN "update" ELSE "create",
                          e.type, e.rule, FALSE))

\* Without a type the rule is taken over from the text, and no more.
SaveForm ==
    /\ AtEditor /\ CanSync /\ "loading" \notin busy
    /\ editor' = Synced(editor)
    /\ IF editor.type = NoPlatform THEN UNCHANGED <<asking, busy, calls>>
       ELSE IF SaveRequiresTest(Synced(editor))
       THEN asking' = [asking EXCEPT !.save = TRUE] /\ UNCHANGED <<busy, calls>>
       ELSE Persist(Synced(editor)) /\ UNCHANGED asking
    /\ UNCHANGED <<store, platforms, aiConfigured, missed>>

\* "Save nevertheless" in the dialog that warns of an untested rule.
SaveAnyway ==
    /\ asking.save /\ "loading" \notin busy
    /\ Persist(editor)
    /\ UNCHANGED <<store, platforms, editor, asking, aiConfigured, missed>>

BackToTest ==
    /\ asking.save
    /\ asking' = [asking EXCEPT !.save = FALSE]
    /\ UNCHANGED <<store, platforms, editor, busy, aiConfigured, calls, missed>>

\* Mutant of AnswerSave: the list is not loaded again.
AnswerSaveUnloaded(i) ==
    /\ calls[i].op \in {"update", "create"} /\ calls[i].reply = "ok"
    /\ editor' = [editor EXCEPT !.shown = FALSE]
    /\ asking' = [asking EXCEPT !.save = FALSE]
    /\ busy' = busy \ {"loading"}
    /\ Done(i)
    /\ UNCHANGED <<store, platforms, aiConfigured, missed>>

\* Both dialogs close and the list is loaded again under the same flag.
AnswerSave(i) ==
    /\ calls[i].op \in {"update", "create"} /\ calls[i].reply = "ok"
    /\ editor' = [editor EXCEPT !.shown = FALSE]
    /\ asking' = [asking EXCEPT !.save = FALSE]
    /\ calls' = [calls EXCEPT ![i] = ListCall]
    /\ UNCHANGED <<store, platforms, busy, aiConfigured, missed>>

-----------------------------------------------------------------------------
(* A call that fails: refused by the handler, or no answer.  Every handler *)
(* of the page takes its flag down in a "finally"; a failed "get" shows    *)
(* the row.  A test that the server refuses is one of AnswerTest's cases.  *)

\* Mutant of FlagsAfter: a test that breaks leaves its button disabled.
FlagsAfterListOnly(c) == IF c.op \in ListOps THEN busy \ {"loading"} ELSE busy

FlagsAfter(c) ==
    IF c.op \in ListOps THEN busy \ {"loading"}
    ELSE IF c.op = "convert" THEN busy \ {"converting"}
    ELSE IF c.op \in {"test", "fix"} THEN Ended(c)
    ELSE busy

FailRule(i) ==
    /\ calls[i].op \in RuleOps
    /\ busy' = FlagsAfter(calls[i])
    /\ missed' = (missed \/ calls[i].op \in ListOps)
    /\ editor' = IF calls[i].op = "get"
                 THEN ShowRule(calls[i].type, calls[i].rule) ELSE editor
    /\ Done(i)
    /\ UNCHANGED <<store, platforms, asking, aiConfigured>>

-----------------------------------------------------------------------------

\* The page whose first loads have just ended, that of the AI status too.
\* All rows start with the same rule: what is done here makes them differ.
RuleInit ==
    /\ store = [p \in Platforms |-> DefaultRule]
    /\ platforms = store
    /\ editor = [shown |-> FALSE, editing |-> FALSE, type |-> NoPlatform,
                 rule |-> DefaultRule, text |-> DefaultRule, base |-> NoRule,
                 passed |-> FALSE]
    /\ asking = [save |-> FALSE, remove |-> NoPlatform]
    /\ busy = {}
    /\ aiConfigured \in BOOLEAN
    /\ calls = [i \in Slots |-> Unused]
    /\ missed = FALSE

RuleAnswer(i) == \/ AnswerList(i) \/ AnswerRemove(i) \/ AnswerGet(i)
                 \/ AnswerConvert(i) \/ AnswerTest(i)
                 \/ AnswerFix(i) \/ AnswerSave(i) \/ FailRule(i)

RuleNext ==
    \/ \E i \in Slots : ServeRule(i) \/ RuleAnswer(i)
    \/ ReloadList \/ CancelRemove \/ ConfirmRemove
    \/ OpenCreate \/ CloseEditor \/ EditForm \/ ApplyJson \/ FormatJson
    \/ ImportFromPhp \/ ImportFromAi \/ TestSubmit
    \/ \E again \in BOOLEAN : AiFixRule(again)
    \/ \E p \in Platforms : AskRemove(p) \/ OpenEdit(p)
    \/ SaveForm \/ SaveAnyway \/ BackToTest

RuleSpec == RuleInit /\ [][RuleNext]_ruleVars

-----------------------------------------------------------------------------
(* Properties.                                                             *)

RuleTypeOK ==
    /\ store \in Table /\ platforms \in Table
    /\ editor \in Editor
    /\ asking \in [save: BOOLEAN, remove: Platforms \cup {NoPlatform}]
    /\ busy \subseteq Flags
    /\ aiConfigured \in BOOLEAN
    /\ calls \in [Slots -> Call \cup {Unused, Over}]
    /\ missed \in BOOLEAN

\* Between two calls on the list the page shows the table as it is, unless
\* one of them failed: the one flag "loading" keeps loading, saving and
\* removing apart, and every change is followed by a load.
ListIsFresh == "loading" \notin busy /\ ~missed => platforms = store

\* No button stays disabled for ever: each flag is up only while a call is
\* under way whose end takes it down, whichever way it ends.
BusyHasCause ==
    LET underway(ops) == \E i \in Slots : calls[i].op \in ops IN
    /\ "loading" \in busy => underway(ListOps)
    /\ "testing" \in busy => underway({"test"})
    /\ "fixing" \in busy => underway({"fix", "test"})
    /\ "converting" \in busy => underway({"convert"})

\* This step sends a rule to be saved.
Saves(i) == calls[i] = Unused /\ calls'[i] # Unused /\ calls'[i].op \in {"update", "create"}

\* Whatever answers come in between, also while the warning is shown: what is
\* sent to be saved is the text that the administrator sees, read as a rule,
\* for a platform that has a name.
SavedIsShown ==
    [][\A i \in Slots : Saves(i) => /\ calls'[i].rule = editor.text
                                   /\ calls'[i].type = editor.type
                                   /\ calls'[i].type # NoPlatform]_ruleVars

=============================================================================
