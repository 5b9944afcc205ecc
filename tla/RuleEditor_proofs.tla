--------------------------- MODULE RuleEditor_proofs ---------------------------
(***************************************************************************)
(* Theorems about RuleEditor, for any platforms, rules and number of calls.*)
(*                                                                         *)
(* The types rest on what a call carries (Carried).                        *)
(***************************************************************************)
EXTENDS RuleEditor, TLAPS

-----------------------------------------------------------------------------
(* Types.                                                                  *)

\* A call for one platform has its name, and the row to show if it fails.
Carried == \A i \in Slots :
    calls[i].op = "get" => calls[i].type \in Platforms /\ calls[i].rule \in Rules

Typed == RuleTypeOK /\ Carried

CallsOK == calls \in [Slots -> Call \cup {Unused, Over}]

\* A call that is under way is a call.
LEMMA UnderWay ==
    ASSUME CallsOK, NEW i \in Slots, calls[i].op \in RuleOps
    PROVE  calls[i] \in Call
BY DEF CallsOK, RuleOps, ListOps, Unused, Over

\* A new call carries what it was given.
LEMMA NewCall ==
    ASSUME NEW op \in RuleOps, NEW p \in Platforms \cup {NoPlatform},
           NEW r \in Rules \cup {NoRule}, NEW again \in BOOLEAN
    PROVE  /\ ARuleCall(op, p, r, again) \in Call
           /\ ARuleCall(op, p, r, again).op = op
           /\ ARuleCall(op, p, r, again).type = p
           /\ ARuleCall(op, p, r, again).rule = r
           /\ ARuleCall(op, p, r, again).again = again
BY DEF ARuleCall, Call, EmptyTable, Table, Absent

\* A load of the list is a call.
LEMMA ListCallOK == ListCall \in Call /\ ListCall.op = "list"
<1>1. /\ "list" \in RuleOps /\ NoPlatform \in Platforms \cup {NoPlatform}
      /\ NoRule \in Rules \cup {NoRule} /\ FALSE \in BOOLEAN
  BY DEF RuleOps, ListOps
<1> QED
  BY <1>1, NewCall DEF ListCall

\* To put a call into a slot, or to end one, keeps the types.
LEMMA PutKeeps ==
    ASSUME CallsOK, Carried, NEW i \in Slots, NEW c \in Call \cup {Unused, Over},
           calls' = [calls EXCEPT ![i] = c],
           c.op = "get" => c.type \in Platforms /\ c.rule \in Rules
    PROVE  CallsOK' /\ Carried'
BY DEF CallsOK, Carried

\* To send a call keeps the types.
LEMMA SendKeeps ==
    ASSUME CallsOK, Carried, NEW op \in RuleOps, NEW p \in Platforms \cup {NoPlatform},
           NEW r \in Rules \cup {NoRule}, NEW again \in BOOLEAN,
           SendRule(ARuleCall(op, p, r, again)),
           op = "get" => p \in Platforms /\ r \in Rules
    PROVE  CallsOK' /\ Carried'
<1> DEFINE c == ARuleCall(op, p, r, again)
<1>1. c \in Call /\ c.op = op /\ c.type = p /\ c.rule = r
  BY NewCall
<1>2. PICK i \in Slots : calls' = [calls EXCEPT ![i] = c]
  BY DEF SendRule, FreeSlots
<1> HIDE DEF c
<1> QED
  BY <1>1, <1>2, PutKeeps

\* To end a call keeps the types.
LEMMA DoneKeeps ==
    ASSUME CallsOK, Carried, NEW i \in Slots, Done(i)
    PROVE  CallsOK' /\ Carried'
BY PutKeeps DEF Done, Over

\* Opening the dialog on a rule.
LEMMA ShownOK ==
    ASSUME editor \in Editor, NEW p \in Platforms, NEW r \in Rules
    PROVE  ShowRule(p, r) \in Editor
BY DEF Editor, ShowRule

\* Taking over what the AI answered.
LEMMA AppliedOK ==
    ASSUME editor \in Editor, NEW p \in Platforms, NEW r \in Rules
    PROVE  ApplyParsed(editor, p, r) \in Editor
BY DEF Editor, ApplyParsed

\* Taking the rule from the text, when the text can be parsed.
LEMMA SyncedOK ==
    ASSUME editor \in Editor, CanSync
    PROVE  Synced(editor) \in Editor /\ editor.text \in Rules
BY DEF Editor, Synced, CanSync

\* What the handlers do to the table, and what they answer.
LEMMA ServedOK ==
    ASSUME Typed, NEW i \in Slots, calls[i].op \in ListOps \cup {"get"}
    PROVE  /\ Written(calls[i]) \in Table
           /\ Replied(calls[i]) \in Call
           /\ Replied(calls[i]).op = calls[i].op
           /\ Replied(calls[i]).type = calls[i].type
           /\ calls[i].op = "get" => Replied(calls[i]).rule \in Rules
<1> DEFINE c == calls[i]
<1>1. c \in Call /\ (c.op = "get" => c.type \in Platforms /\ c.rule \in Rules)
  BY UnderWay DEF Typed, RuleTypeOK, CallsOK, RuleOps, Carried
<1>2. store \in Table
  BY DEF Typed, RuleTypeOK
<1> HIDE DEF c
<1>3. Written(c) \in Table
  BY <1>1, <1>2 DEF Written, Table, Call, NoRule, Absent
<1>4. Replied(c) \in Call /\ Replied(c).op = c.op /\ Replied(c).type = c.type
  BY <1>1, <1>2 DEF Replied, Table, Call, NoRule, Absent
<1>5. c.op = "get" => Replied(c).rule \in Rules
  BY <1>1, <1>2 DEF Replied, Table, Call, NoRule, Absent
<1> QED
  BY <1>3, <1>4, <1>5 DEF c

\* The types hold at the start.
LEMMA TypedInit == RuleInit => Typed
<1> SUFFICES ASSUME RuleInit PROVE Typed
  OBVIOUS
<1>1. store \in Table /\ platforms \in Table
  BY RuleAssumption DEF RuleInit, Table
<1>2. editor \in Editor
  BY RuleAssumption DEF RuleInit, Editor
<1>3. /\ asking \in [save: BOOLEAN, remove: Platforms \cup {NoPlatform}]
      /\ busy \subseteq Flags /\ aiConfigured \in BOOLEAN /\ missed \in BOOLEAN
  BY DEF RuleInit
<1>4. calls \in [Slots -> Call \cup {Unused, Over}] /\ Carried
  BY DEF RuleInit, Carried, Unused
<1> QED
  BY <1>1, <1>2, <1>3, <1>4 DEF Typed, RuleTypeOK

\* Every step keeps the types.
LEMMA TypedStep == Typed /\ [RuleNext]_ruleVars => Typed'
<1> SUFFICES ASSUME Typed, [RuleNext]_ruleVars PROVE Typed'
  OBVIOUS
<1> USE RuleAssumption DEF NoPlatform, NoRule, Broken, Absent
<1>0. /\ store \in Table /\ platforms \in Table /\ editor \in Editor
      /\ asking \in [save: BOOLEAN, remove: Platforms \cup {NoPlatform}]
      /\ busy \subseteq Flags /\ aiConfigured \in BOOLEAN /\ missed \in BOOLEAN
      /\ CallsOK /\ Carried
  BY DEF Typed, RuleTypeOK, CallsOK
<1>c. ASSUME CallsOK' /\ Carried', store' \in Table, platforms' \in Table, editor' \in Editor,
             asking' \in [save: BOOLEAN, remove: Platforms \cup {NoPlatform}],
             busy' \subseteq Flags, UNCHANGED aiConfigured, missed' \in BOOLEAN
      PROVE  Typed'
  BY <1>c, <1>0 DEF Typed, RuleTypeOK, CallsOK
<1>u. ASSUME UNCHANGED calls PROVE CallsOK' /\ Carried'
  BY <1>u, <1>0 DEF CallsOK, Carried
<1>1. ASSUME NEW i \in Slots, ServeRule(i) PROVE Typed'
  <2>1. calls[i].op \in ListOps \cup {"get"}
    BY <1>1 DEF ServeRule
  <2> DEFINE c == Replied(calls[i])
  <2>2. /\ store' \in Table /\ c \in Call
        /\ c.op = "get" => c.type \in Platforms /\ c.rule \in Rules
    BY <1>1, <1>0, <2>1, ServedOK DEF ServeRule, Carried
  <2>3. calls' = [calls EXCEPT ![i] = c]
    BY <1>1 DEF ServeRule
  <2> HIDE DEF c
  <2>4. CallsOK' /\ Carried'
    BY <1>0, <2>2, <2>3, PutKeeps
  <2> QED
    BY <1>1, <1>0, <1>c, <2>2, <2>4 DEF ServeRule
<1>2. ASSUME NEW i \in Slots, RuleAnswer(i) PROVE Typed'
  <2>0. ASSUME calls[i].op \in RuleOps PROVE calls[i] \in Call
    BY <2>0, <1>0, UnderWay
  <2>1. ASSUME calls' = [calls EXCEPT ![i] = ListCall] PROVE CallsOK' /\ Carried'
    BY <2>1, <1>0, ListCallOK, PutKeeps
  <2>2. CASE AnswerList(i)
    BY <2>2, <1>0, <1>c, <2>0, DoneKeeps DEF AnswerList, RuleOps, ListOps, Call
  <2>3. CASE AnswerRemove(i)
    BY <2>3, <1>0, <1>c, <2>1 DEF AnswerRemove
  <2>4. CASE AnswerGet(i)
    <3>1. calls[i].type \in Platforms /\ calls[i].rule \in Rules
      BY <2>4, <1>0 DEF AnswerGet, Carried
    <3> QED
      BY <2>4, <1>0, <1>c, <3>1, DoneKeeps, ShownOK DEF AnswerGet
  <2>5. CASE AnswerConvert(i)
    BY <2>5, <1>0, <1>c, DoneKeeps, AppliedOK DEF AnswerConvert
  <2>6. CASE AnswerTest(i)
    <3>1. editor' \in Editor
      BY <2>6, <1>0 DEF AnswerTest, Editor
    <3>2. busy' \subseteq Flags
      BY <2>6, <1>0 DEF AnswerTest, Ended
    <3> QED
      BY <2>6, <1>0, <1>c, <3>1, <3>2, DoneKeeps DEF AnswerTest
  <2>7. CASE AnswerFix(i)
    <3>1. PICK p \in Platforms, r \in Rules :
            LET e == ApplyParsed(editor, p, r) IN
            /\ editor' = e
            /\ IF calls[i].again /\ e.type # NoPlatform
               THEN /\ busy' = busy \cup {"testing"}
                    /\ calls' = [calls EXCEPT ![i] = ARuleCall("test", e.type, r, TRUE)]
               ELSE busy' = Ended(calls[i]) /\ Done(i)
      BY <2>7 DEF AnswerFix
    <3>2. editor' \in Editor
      BY <3>1, <1>0, AppliedOK
    <3>3. busy' \subseteq Flags
      BY <3>1, <1>0 DEF Flags, Ended
    <3>4. CallsOK' /\ Carried'
      <4>1. CASE Done(i)
        BY <4>1, <1>0, DoneKeeps
      <4>2. CASE calls' = [calls EXCEPT ![i] = ARuleCall("test", editor'.type, r, TRUE)]
        <5>1. PICK t \in Platforms \cup {NoPlatform} : t = editor'.type
          BY <3>2 DEF Editor
        <5>2. "test" \in RuleOps /\ r \in Rules \cup {NoRule}
          BY DEF RuleOps
        <5>3. ARuleCall("test", t, r, TRUE) \in Call /\ ARuleCall("test", t, r, TRUE).op = "test"
          BY <5>2, NewCall
        <5>4. calls' = [calls EXCEPT ![i] = ARuleCall("test", t, r, TRUE)]
          BY <4>2, <5>1
        <5> QED
          BY <5>3, <5>4, <1>0, PutKeeps
      <4> QED
        BY <3>1, <4>1, <4>2
    <3> QED
      BY <2>7, <1>0, <1>c, <3>2, <3>3, <3>4 DEF AnswerFix
  <2>8. CASE AnswerSave(i)
    BY <2>8, <1>0, <1>c, <2>1 DEF AnswerSave, Editor
  <2>9. CASE FailRule(i)
    <3>1. editor' \in Editor
      BY <2>9, <1>0, ShownOK DEF FailRule, Carried
    <3>2. busy' \subseteq Flags
      BY <2>9, <1>0 DEF FailRule, FlagsAfter, Ended
    <3> QED
      BY <2>9, <1>0, <1>c, <3>1, <3>2, DoneKeeps DEF FailRule
  <2> QED
    BY <1>2, <2>2, <2>3, <2>4, <2>5, <2>6, <2>7, <2>8, <2>9 DEF RuleAnswer
<1>3. CASE ReloadList
  <2>1. CallsOK' /\ Carried'
    BY <1>3, <1>0, SendKeeps DEF ReloadList, ListCall, RuleOps, ListOps
  <2> QED
    BY <1>3, <1>0, <1>c, <2>1 DEF ReloadList, Flags
<1>4. CASE CancelRemove
  BY <1>4, <1>0, <1>c, <1>u DEF CancelRemove
<1>5. CASE ConfirmRemove
  <2>1. CallsOK' /\ Carried'
    BY <1>5, <1>0, SendKeeps DEF ConfirmRemove, RuleOps, ListOps
  <2> QED
    BY <1>5, <1>0, <1>c, <2>1 DEF ConfirmRemove, Flags
<1>6. CASE OpenCreate
  BY <1>6, <1>0, <1>c, <1>u DEF OpenCreate, ResetEditor, Editor
<1>7. CASE CloseEditor
  BY <1>7, <1>0, <1>c, <1>u DEF CloseEditor, Editor
<1>8. CASE EditForm
  BY <1>8, <1>0, <1>c, <1>u DEF EditForm, Editor
<1>9. CASE ApplyJson
  BY <1>9, <1>0, <1>c, <1>u DEF ApplyJson, Editor
<1>10. CASE FormatJson
  BY <1>10, <1>0, <1>c, <1>u DEF FormatJson, Editor
<1>11. CASE ImportFromPhp
  BY <1>11, <1>0, <1>c, <1>u, AppliedOK DEF ImportFromPhp
<1>12. CASE ImportFromAi
  <2>1. CallsOK' /\ Carried'
    BY <1>12, <1>0, SendKeeps DEF ImportFromAi, RuleOps
  <2> QED
    BY <1>12, <1>0, <1>c, <2>1 DEF ImportFromAi, Flags
<1>13. CASE TestSubmit
  <2>1. editor' \in Editor /\ editor.text \in Rules /\ editor.type \in Platforms \cup {NoPlatform}
    BY <1>13, <1>0, SyncedOK DEF TestSubmit, Editor
  <2>2. CallsOK' /\ Carried'
    BY <1>13, <1>0, <2>1, SendKeeps DEF TestSubmit, RuleOps
  <2> QED
    BY <1>13, <1>0, <1>c, <2>1, <2>2 DEF TestSubmit, Flags
<1>14. ASSUME NEW again \in BOOLEAN, AiFixRule(again) PROVE Typed'
  <2>1. editor' \in Editor /\ editor.text \in Rules /\ editor.type \in Platforms \cup {NoPlatform}
    BY <1>14, <1>0, SyncedOK DEF AiFixRule, Editor
  <2>2. CallsOK' /\ Carried'
    BY <1>14, <1>0, <2>1, SendKeeps DEF AiFixRule, RuleOps
  <2> QED
    BY <1>14, <1>0, <1>c, <2>1, <2>2 DEF AiFixRule, Flags
<1>15. ASSUME NEW p \in Platforms, AskRemove(p) PROVE Typed'
  BY <1>15, <1>0, <1>c, <1>u DEF AskRemove
<1>16. ASSUME NEW p \in Platforms, OpenEdit(p) PROVE Typed'
  <2>1. platforms[p] \in Rules
    BY <1>16, <1>0 DEF OpenEdit, Table
  <2>2. CallsOK' /\ Carried'
    BY <1>16, <1>0, <2>1, SendKeeps DEF OpenEdit, RuleOps
  <2> QED
    BY <1>16, <1>0, <1>c, <2>2 DEF OpenEdit, ResetEditor, Editor
<1>17. ASSUME NEW e \in Editor, Persist(e) PROVE busy' \subseteq Flags /\ CallsOK' /\ Carried'
  <2>1. /\ (IF e.editing THEN "update" ELSE "create") \in RuleOps \ {"get"}
        /\ e.type \in Platforms \cup {NoPlatform} /\ e.rule \in Rules \cup {NoRule}
    BY DEF Editor, RuleOps, ListOps
  <2>2. CallsOK' /\ Carried'
    BY <1>17, <1>0, <2>1, SendKeeps DEF Persist
  <2> QED
    BY <1>17, <1>0, <2>2 DEF Persist, Flags
<1>18. CASE SaveForm
  <2>1. editor' \in Editor
    BY <1>18, <1>0, SyncedOK DEF SaveForm
  <2>2. busy' \subseteq Flags /\ CallsOK' /\ Carried'
    BY <1>18, <1>0, <2>1, <1>17, <1>u DEF SaveForm
  <2>3. asking' \in [save: BOOLEAN, remove: Platforms \cup {NoPlatform}]
    BY <1>18, <1>0 DEF SaveForm
  <2> QED
    BY <1>18, <1>0, <1>c, <2>1, <2>2, <2>3 DEF SaveForm
<1>19. CASE SaveAnyway
  BY <1>19, <1>0, <1>c, <1>17 DEF SaveAnyway
<1>20. CASE BackToTest
  BY <1>20, <1>0, <1>c, <1>u DEF BackToTest
<1>21. CASE UNCHANGED ruleVars
  BY <1>21, <1>0, <1>c, <1>u DEF ruleVars
<1> QED
  BY <1>1, <1>2, <1>3, <1>4, <1>5, <1>6, <1>7, <1>8, <1>9, <1>10, <1>11, <1>12, <1>13,
     <1>14, <1>15, <1>16, <1>18, <1>19, <1>20, <1>21 DEF RuleNext

\* The values of the page's variables are of the declared kinds in every
\* reachable state, whatever calls are under way; with them, a call for one
\* platform always names it.
THEOREM RuleTypeCorrect == RuleSpec => []RuleTypeOK
<1>1. Typed => RuleTypeOK
  BY DEF Typed
<1> QED
  BY <1>1, TypedInit, TypedStep, PTL DEF RuleSpec

-----------------------------------------------------------------------------
(* The flags of the page and the calls that hold them.                     *)

OnList(i) == calls[i].op \in ListOps

\* A repair holds "fixing" until the test that follows it has ended.
Repairs(i) == calls[i].op = "fix" \/ (calls[i].op = "test" /\ calls[i].again)

LoadingHeld == /\ "loading" \in busy => \E i \in Slots : OnList(i)
               /\ \A i \in Slots : OnList(i) => "loading" \in busy
               /\ \A i, j \in Slots : OnList(i) /\ OnList(j) => i = j
OthersHeld == /\ "testing" \in busy => \E i \in Slots : calls[i].op = "test"
              /\ "fixing" \in busy => \E i \in Slots : Repairs(i)
              /\ "converting" \in busy => \E i \in Slots : calls[i].op = "convert"

\* The answer to the one call on the list is the table as it is.
AnswerIsTable == \A i \in Slots :
    calls[i].op = "list" /\ calls[i].reply = "ok" => calls[i].list = store

\* While the warning is shown the editor holds the rule that its text reads.
AskedInSync == asking.save => editor.rule = editor.text /\ editor.type # NoPlatform

PageInv == Typed /\ LoadingHeld /\ OthersHeld /\ AnswerIsTable /\ ListIsFresh /\ AskedInSync

\* The flag that a call of this kind holds.
Raises(op) == IF op \in ListOps THEN {"loading"} ELSE IF op = "test" THEN {"testing"}
              ELSE IF op = "fix" THEN {"fixing"} ELSE IF op = "convert" THEN {"converting"}
              ELSE {}

\* A call is sent, and its flag goes up.
LEMMA HeldSent ==
    ASSUME CallsOK, LoadingHeld, OthersHeld, NEW c \in Call, SendRule(c),
           busy' = busy \cup Raises(c.op), c.op \in ListOps => "loading" \notin busy
    PROVE  LoadingHeld' /\ OthersHeld'
<1>1. PICK i \in Slots : calls[i] = Unused /\ calls' = [calls EXCEPT ![i] = c]
  BY DEF SendRule, FreeSlots
<1>2. calls'[i] = c /\ \A j \in Slots : j # i => calls'[j] = calls[j]
  BY <1>1 DEF CallsOK
<1>3. calls[i].op = "unused"
  BY <1>1 DEF Unused
<1>4. LoadingHeld'
  <2>1. CASE c.op \in ListOps
    BY <2>1, <1>2, <1>3 DEF LoadingHeld, OnList, Raises
  <2>2. CASE c.op \notin ListOps
    <3>1. "loading" \in busy' <=> "loading" \in busy
      BY <2>2 DEF Raises
    <3>2. \A j \in Slots : OnList(j)' <=> OnList(j)
      BY <2>2, <1>2, <1>3 DEF OnList, ListOps
    <3> QED
      BY <3>1, <3>2 DEF LoadingHeld
  <2> QED
    BY <2>1, <2>2
<1>5. /\ "testing" \in busy' => "testing" \in busy \/ c.op = "test"
      /\ "fixing" \in busy' => "fixing" \in busy \/ c.op = "fix"
      /\ "converting" \in busy' => "converting" \in busy \/ c.op = "convert"
  BY DEF Raises
<1> QED
  BY <1>2, <1>3, <1>4, <1>5 DEF OthersHeld, Repairs

\* A call ends, and takes its flag down.
LEMMA HeldEnd ==
    ASSUME CallsOK, LoadingHeld, OthersHeld, NEW i \in Slots, calls[i].op \in RuleOps,
           Done(i), busy' = FlagsAfter(calls[i])
    PROVE  LoadingHeld' /\ OthersHeld'
<1>1. calls'[i] = Over /\ (\A j \in Slots : j # i => calls'[j] = calls[j]) /\ Over.op = "over"
  BY DEF CallsOK, Done, Over
<1>2. CASE calls[i].op \in ListOps
  BY <1>1, <1>2 DEF LoadingHeld, OthersHeld, OnList, Repairs, FlagsAfter, ListOps
<1>3. CASE calls[i].op \notin ListOps
  <2>1. "loading" \in busy' <=> "loading" \in busy
    BY <1>3 DEF FlagsAfter, Ended
  <2>2. LoadingHeld'
    BY <1>1, <1>3, <2>1 DEF LoadingHeld, OnList, ListOps
  <2>3. /\ "testing" \in busy' => "testing" \in busy /\ calls[i].op # "test"
        /\ "fixing" \in busy' => "fixing" \in busy /\ ~Repairs(i)
        /\ "converting" \in busy' => "converting" \in busy /\ calls[i].op # "convert"
    BY <1>3 DEF FlagsAfter, Ended, Repairs
  <2> QED
    BY <1>1, <2>2, <2>3 DEF OthersHeld, Repairs
<1> QED
  BY <1>2, <1>3

\* A call is answered, or followed at once by the next call on the list.
LEMMA HeldSwap ==
    ASSUME CallsOK, LoadingHeld, OthersHeld, NEW i \in Slots, NEW c \in Call,
           calls' = [calls EXCEPT ![i] = c], UNCHANGED busy,
           \/ calls[i].op \in ListOps /\ c.op \in ListOps
           \/ calls[i].op = "get" /\ c.op = "get"
    PROVE  LoadingHeld' /\ OthersHeld'
<1>1. calls'[i] = c /\ \A j \in Slots : j # i => calls'[j] = calls[j]
  BY DEF CallsOK
<1> QED
  BY <1>1 DEF LoadingHeld, OthersHeld, OnList, Repairs, ListOps

\* The causes of the flags are calls and flags only.
LEMMA HeldSame ==
    ASSUME LoadingHeld, OthersHeld, UNCHANGED <<calls, busy>>
    PROVE  LoadingHeld' /\ OthersHeld'
BY DEF LoadingHeld, OthersHeld, OnList, Repairs

\* A call that raises its flags has caused them.
LEMMA SentHeld ==
    ASSUME CallsOK, LoadingHeld, OthersHeld,
           NEW op \in RuleOps, NEW p \in Platforms \cup {NoPlatform},
           NEW r \in Rules \cup {NoRule}, NEW again \in BOOLEAN,
           SendRule(ARuleCall(op, p, r, again)), busy' = busy \cup Raises(op),
           op \in ListOps => "loading" \notin busy
    PROVE  LoadingHeld' /\ OthersHeld'
<1> DEFINE c == ARuleCall(op, p, r, again)
<1>1. c \in Call /\ c.op = op
  BY NewCall
<1>2. SendRule(c)
  OBVIOUS
<1> HIDE DEF c
<1> QED
  BY <1>1, <1>2, HeldSent

\* Every step leaves each flag that is up with a call under way.
LEMMA HeldStep == Typed /\ LoadingHeld /\ OthersHeld /\ [RuleNext]_ruleVars
                  => LoadingHeld' /\ OthersHeld'
<1> SUFFICES ASSUME Typed, LoadingHeld, OthersHeld, [RuleNext]_ruleVars
             PROVE  LoadingHeld' /\ OthersHeld'
  OBVIOUS
<1>0. CallsOK /\ Carried /\ editor \in Editor /\ asking.remove \in Platforms \cup {NoPlatform}
      /\ platforms \in Table
  BY DEF Typed, RuleTypeOK, CallsOK
<1>n. NoPlatform \in Platforms \cup {NoPlatform} /\ NoRule \in Rules \cup {NoRule}
  OBVIOUS
<1>1. ASSUME NEW i \in Slots, ServeRule(i) PROVE LoadingHeld' /\ OthersHeld'
  <2> DEFINE c == Replied(calls[i])
  <2>1. /\ c \in Call /\ calls' = [calls EXCEPT ![i] = c] /\ UNCHANGED busy
        /\ c.op = calls[i].op /\ calls[i].op \in ListOps \cup {"get"}
    BY <1>1, ServedOK DEF ServeRule
  <2> HIDE DEF c
  <2> QED
    BY <1>0, <2>1, HeldSwap
<1>2. ASSUME NEW i \in Slots, RuleAnswer(i) PROVE LoadingHeld' /\ OthersHeld'
  <2>1. ASSUME Done(i), busy' = FlagsAfter(calls[i]), calls[i].op \in RuleOps
        PROVE  LoadingHeld' /\ OthersHeld'
    BY <1>0, <2>1, HeldEnd
  <2>2. ASSUME calls' = [calls EXCEPT ![i] = ListCall], UNCHANGED busy, calls[i].op \in ListOps
        PROVE  LoadingHeld' /\ OthersHeld'
    <3>1. ListCall \in Call /\ ListCall.op \in ListOps
      BY ListCallOK DEF ListOps
    <3> QED
      BY <1>0, <2>2, <3>1, HeldSwap
  <2>3. CASE AnswerList(i)
    BY <2>3, <2>1 DEF AnswerList, FlagsAfter, RuleOps, ListOps
  <2>4. CASE AnswerRemove(i)
    BY <2>4, <2>2 DEF AnswerRemove, ListOps
  <2>5. CASE AnswerGet(i)
    BY <2>5, <2>1 DEF AnswerGet, FlagsAfter, RuleOps, ListOps
  <2>6. CASE AnswerConvert(i)
    BY <2>6, <2>1 DEF AnswerConvert, FlagsAfter, RuleOps, ListOps
  <2>7. CASE AnswerTest(i)
    BY <2>7, <2>1 DEF AnswerTest, FlagsAfter, RuleOps, ListOps
  <2>8. CASE AnswerFix(i)
    <3>1. CASE busy' = Ended(calls[i]) /\ Done(i)
      BY <2>8, <3>1, <2>1 DEF AnswerFix, FlagsAfter, RuleOps, ListOps
    <3>2. CASE ~(busy' = Ended(calls[i]) /\ Done(i))
      <4>1. PICK p \in Platforms, r \in Rules :
               LET e == ApplyParsed(editor, p, r) IN
               /\ busy' = busy \cup {"testing"}
               /\ calls' = [calls EXCEPT ![i] = ARuleCall("test", e.type, r, TRUE)]
        BY <2>8, <3>2 DEF AnswerFix
      <4> DEFINE c == ARuleCall("test", ApplyParsed(editor, p, r).type, r, TRUE)
      <4>2. c.op = "test" /\ c.again /\ calls' = [calls EXCEPT ![i] = c]
        BY <4>1 DEF ARuleCall
      <4>3. calls[i].op = "fix"
        BY <2>8 DEF AnswerFix
      <4> HIDE DEF c
      <4>4. calls'[i] = c /\ \A j \in Slots : j # i => calls'[j] = calls[j]
        BY <1>0, <4>2 DEF CallsOK
      <4> QED
        BY <4>1, <4>2, <4>3, <4>4 DEF LoadingHeld, OthersHeld, OnList, Repairs, ListOps
    <3> QED
      BY <3>1, <3>2
  <2>9. CASE AnswerSave(i)
    BY <2>9, <2>2 DEF AnswerSave, ListOps
  <2>10. CASE FailRule(i)
    BY <2>10, <2>1 DEF FailRule
  <2> QED
    BY <1>2, <2>3, <2>4, <2>5, <2>6, <2>7, <2>8, <2>9, <2>10 DEF RuleAnswer
<1>3. CASE ReloadList
  BY <1>3, <1>0, <1>n, SentHeld DEF ReloadList, ListCall, Raises, RuleOps, ListOps
<1>4. CASE ConfirmRemove
  BY <1>4, <1>0, <1>n, SentHeld DEF ConfirmRemove, Raises, RuleOps, ListOps
<1>5. CASE ImportFromAi
  BY <1>5, <1>0, <1>n, SentHeld DEF ImportFromAi, Raises, RuleOps, ListOps
<1>6. CASE TestSubmit
  <2>1. editor.text \in Rules \cup {NoRule} /\ editor.type \in Platforms \cup {NoPlatform}
    BY <1>0, <1>6, SyncedOK DEF TestSubmit, Editor
  <2> QED
    BY <1>6, <1>0, <2>1, SentHeld DEF TestSubmit, Raises, RuleOps, ListOps
<1>7. ASSUME NEW again \in BOOLEAN, AiFixRule(again) PROVE LoadingHeld' /\ OthersHeld'
  <2>1. editor.text \in Rules \cup {NoRule} /\ editor.type \in Platforms \cup {NoPlatform}
    BY <1>0, <1>7, SyncedOK DEF AiFixRule, Editor
  <2> QED
    BY <1>7, <1>0, <2>1, SentHeld DEF AiFixRule, Raises, RuleOps, ListOps
<1>8. ASSUME NEW p \in Platforms, OpenEdit(p) PROVE LoadingHeld' /\ OthersHeld'
  <2>1. platforms[p] \in Rules \cup {NoRule}
    BY <1>0 DEF Table, Absent, NoRule
  <2>2. busy' = busy \cup Raises("get")
    BY <1>8 DEF OpenEdit, Raises, ListOps
  <2> QED
    BY <1>8, <1>0, <2>1, <2>2, SentHeld DEF OpenEdit, RuleOps, ListOps
<1>9. ASSUME NEW e \in Editor, Persist(e), "loading" \notin busy PROVE LoadingHeld' /\ OthersHeld'
  <2> DEFINE op == IF e.editing THEN "update" ELSE "create"
  <2>1. op \in RuleOps /\ e.type \in Platforms \cup {NoPlatform} /\ e.rule \in Rules \cup {NoRule}
    BY DEF Editor, RuleOps, ListOps
  <2>2. SendRule(ARuleCall(op, e.type, e.rule, FALSE)) /\ busy' = busy \cup Raises(op)
    BY <1>9 DEF Persist, Raises, ListOps
  <2> HIDE DEF op
  <2> QED
    BY <1>0, <1>9, <2>1, <2>2, SentHeld
<1>10. CASE SaveForm
  <2>1. CASE UNCHANGED <<busy, calls>>
    BY <2>1, HeldSame
  <2>2. CASE Persist(Synced(editor))
    BY <2>2, <1>10, <1>0, <1>9, SyncedOK DEF SaveForm
  <2> QED
    BY <1>10, <2>1, <2>2 DEF SaveForm
<1>11. CASE SaveAnyway
  BY <1>11, <1>0, <1>9 DEF SaveAnyway
<1>12. CASE UNCHANGED <<busy, calls>>
  BY <1>12, HeldSame
<1> QED
  <2>1. CASE \/ CancelRemove \/ OpenCreate \/ CloseEditor \/ EditForm \/ ApplyJson \/ FormatJson
             \/ ImportFromPhp \/ BackToTest \/ UNCHANGED ruleVars \/ \E p \in Platforms : AskRemove(p)
    BY <2>1, <1>12 DEF CancelRemove, OpenCreate, CloseEditor, EditForm, ApplyJson, FormatJson,
       ImportFromPhp, BackToTest, AskRemove, ruleVars
  <2> QED
    BY <2>1, <1>1, <1>2, <1>3, <1>4, <1>5, <1>6, <1>7, <1>8, <1>10, <1>11 DEF RuleNext

-----------------------------------------------------------------------------
(* The list and the table.                                                 *)

\* A step that leaves the table, the list and the answers to "list" alone.
LEMMA FreshKept ==
    ASSUME AnswerIsTable, ListIsFresh, UNCHANGED <<store, platforms, missed>>,
           "loading" \in busy => "loading" \in busy',
           \A i \in Slots : calls'[i].op = "list" /\ calls'[i].reply = "ok"
                            => calls'[i] = calls[i]
    PROVE  AnswerIsTable' /\ ListIsFresh'
BY DEF AnswerIsTable, ListIsFresh

\* What is put into a slot has no answer yet.
LEMMA FreshPut ==
    ASSUME CallsOK, AnswerIsTable, ListIsFresh, UNCHANGED <<store, platforms, missed>>,
           "loading" \in busy => "loading" \in busy',
           NEW i \in Slots, NEW c, c.reply = "none", calls' = [calls EXCEPT ![i] = c]
    PROVE  AnswerIsTable' /\ ListIsFresh'
<1>1. calls'[i] = c /\ \A j \in Slots : j # i => calls'[j] = calls[j]
  BY DEF CallsOK
<1> QED
  BY <1>1, FreshKept

\* A call that was just sent carries no answer yet.
LEMMA FreshSent ==
    ASSUME CallsOK, AnswerIsTable, ListIsFresh, UNCHANGED <<store, platforms, missed>>,
           "loading" \in busy => "loading" \in busy',
           NEW op, NEW p, NEW r, NEW again, SendRule(ARuleCall(op, p, r, again))
    PROVE  AnswerIsTable' /\ ListIsFresh'
<1> DEFINE c == ARuleCall(op, p, r, again)
<1>1. c.reply = "none"
  BY DEF ARuleCall
<1>2. PICK i \in Slots : calls' = [calls EXCEPT ![i] = c]
  BY DEF SendRule, FreeSlots
<1> HIDE DEF c
<1> QED
  BY <1>1, <1>2, FreshPut

\* A call that is not on the list of the platforms ends.
LEMMA FreshDone ==
    ASSUME CallsOK, AnswerIsTable, ListIsFresh, UNCHANGED <<store, platforms, missed>>,
           "loading" \in busy => "loading" \in busy', NEW i \in Slots, Done(i)
    PROVE  AnswerIsTable' /\ ListIsFresh'
BY FreshPut DEF Done, Over

\* Every step keeps answers and list in line with the table.
LEMMA FreshStep == Typed /\ LoadingHeld /\ AnswerIsTable /\ ListIsFresh /\ [RuleNext]_ruleVars
                   => AnswerIsTable' /\ ListIsFresh'
<1> SUFFICES ASSUME Typed, LoadingHeld, AnswerIsTable, ListIsFresh, [RuleNext]_ruleVars
             PROVE  AnswerIsTable' /\ ListIsFresh'
  OBVIOUS
<1>0. CallsOK /\ missed \in BOOLEAN
  BY DEF Typed, RuleTypeOK, CallsOK
<1>1. ASSUME NEW i \in Slots, ServeRule(i) PROVE AnswerIsTable' /\ ListIsFresh'
  <2> DEFINE c == Replied(calls[i])
  <2>0. calls[i] \in Call
    BY <1>0, <1>1, UnderWay DEF ServeRule, RuleOps, ListOps
  <2>1. /\ store' = Written(calls[i]) /\ c.op = calls[i].op /\ calls[i].reply = "none"
        /\ calls' = [calls EXCEPT ![i] = c] /\ UNCHANGED <<platforms, missed, busy>>
        /\ calls[i].op \in ListOps \cup {"get"}
    BY <1>1, ServedOK DEF ServeRule
  <2>2. calls[i].op = "list" => c.list = store
    BY <2>0 DEF Replied, Call
  <2>3. calls[i].op \in {"list", "get"} => UNCHANGED store
    BY <2>1 DEF Written
  <2> HIDE DEF c
  <2>4. calls'[i] = c /\ \A j \in Slots : j # i => calls'[j] = calls[j]
    BY <1>0, <2>1 DEF CallsOK
  <2>5. CASE calls[i].op = "get"
    BY <2>1, <2>3, <2>4, <2>5, FreshKept
  <2>6. CASE calls[i].op \in ListOps
    <3>1. \A j \in Slots : calls[j].op = "list" => j = i
      BY <2>6 DEF LoadingHeld, OnList, ListOps
    <3>2. "loading" \in busy'
      BY <2>1, <2>6 DEF LoadingHeld, OnList
    <3> QED
      BY <2>1, <2>2, <2>3, <2>4, <3>1, <3>2 DEF AnswerIsTable, ListIsFresh
  <2> QED
    BY <2>1, <2>5, <2>6
<1>2. ASSUME NEW i \in Slots, RuleAnswer(i) PROVE AnswerIsTable' /\ ListIsFresh'
  <2>1. ASSUME Done(i), UNCHANGED <<store, platforms, missed>>,
               "loading" \in busy => "loading" \in busy'
        PROVE  AnswerIsTable' /\ ListIsFresh'
    BY <1>0, <2>1, FreshDone
  <2>2. ASSUME calls' = [calls EXCEPT ![i] = ListCall], UNCHANGED <<store, platforms, missed, busy>>
        PROVE  AnswerIsTable' /\ ListIsFresh'
    BY <1>0, <2>2, FreshPut DEF ListCall, ARuleCall
  <2>3. ASSUME Done(i), UNCHANGED store PROVE AnswerIsTable'
    <3>1. calls'[i].op = "over" /\ \A j \in Slots : j # i => calls'[j] = calls[j]
      BY <1>0, <2>3 DEF CallsOK, Done, Over
    <3> QED
      BY <2>3, <3>1 DEF AnswerIsTable
  <2>4. CASE AnswerList(i)
    BY <2>4, <2>3 DEF AnswerList, AnswerIsTable, ListIsFresh
  <2>5. CASE AnswerRemove(i)
    BY <2>5, <2>2 DEF AnswerRemove
  <2>6. CASE AnswerGet(i)
    BY <2>6, <2>1 DEF AnswerGet
  <2>7. CASE AnswerConvert(i)
    BY <2>7, <2>1 DEF AnswerConvert
  <2>8. CASE AnswerTest(i)
    BY <2>8, <2>1 DEF AnswerTest, Ended
  <2>9. CASE AnswerFix(i)
    <3>1. CASE Done(i)
      BY <2>9, <3>1, <2>1 DEF AnswerFix, Ended
    <3>2. CASE ~Done(i)
      <4>1. PICK p \in Platforms, r \in Rules :
               LET e == ApplyParsed(editor, p, r) IN
               /\ busy' = busy \cup {"testing"}
               /\ calls' = [calls EXCEPT ![i] = ARuleCall("test", e.type, r, TRUE)]
        BY <2>9, <3>2 DEF AnswerFix
      <4> DEFINE c == ARuleCall("test", ApplyParsed(editor, p, r).type, r, TRUE)
      <4>2. c.reply = "none" /\ calls' = [calls EXCEPT ![i] = c]
        BY <4>1 DEF ARuleCall
      <4> HIDE DEF c
      <4> QED
        BY <1>0, <2>9, <4>1, <4>2, FreshPut DEF AnswerFix
    <3> QED
      BY <3>1, <3>2
  <2>10. CASE AnswerSave(i)
    BY <2>10, <2>2 DEF AnswerSave
  <2>11. CASE FailRule(i)
    <3>1. CASE calls[i].op \in ListOps
      BY <2>11, <2>3, <3>1, <1>0 DEF FailRule, ListIsFresh
    <3>2. CASE calls[i].op \notin ListOps
      BY <2>11, <2>1, <3>2, <1>0 DEF FailRule, FlagsAfter, Ended
    <3> QED
      BY <3>1, <3>2
  <2> QED
    BY <1>2, <2>4, <2>5, <2>6, <2>7, <2>8, <2>9, <2>10, <2>11 DEF RuleAnswer
<1>3. CASE ReloadList
  BY <1>3, <1>0, FreshSent DEF ReloadList, ListCall
<1>4. CASE ConfirmRemove
  BY <1>4, <1>0, FreshSent DEF ConfirmRemove
<1>5. CASE ImportFromAi
  BY <1>5, <1>0, FreshSent DEF ImportFromAi
<1>6. CASE TestSubmit
  BY <1>6, <1>0, FreshSent DEF TestSubmit
<1>7. ASSUME NEW again \in BOOLEAN, AiFixRule(again) PROVE AnswerIsTable' /\ ListIsFresh'
  BY <1>7, <1>0, FreshSent DEF AiFixRule
<1>8. ASSUME NEW p \in Platforms, OpenEdit(p) PROVE AnswerIsTable' /\ ListIsFresh'
  BY <1>8, <1>0, FreshSent DEF OpenEdit
<1>9. ASSUME NEW e, Persist(e), UNCHANGED <<store, platforms, missed>>
      PROVE  AnswerIsTable' /\ ListIsFresh'
  <2> DEFINE op == IF e.editing THEN "update" ELSE "create"
  <2>1. SendRule(ARuleCall(op, e.type, e.rule, FALSE)) /\ busy' = busy \cup {"loading"}
    BY <1>9 DEF Persist
  <2> HIDE DEF op
  <2> QED
    BY <1>9, <1>0, <2>1, FreshSent
<1>10. CASE UNCHANGED <<store, platforms, missed, calls, busy>>
  BY <1>10 DEF AnswerIsTable, ListIsFresh
<1>11. CASE SaveForm
  BY <1>11, <1>9, <1>10 DEF SaveForm
<1>12. CASE SaveAnyway
  BY <1>12, <1>9 DEF SaveAnyway
<1> QED
  <2>1. CASE \/ CancelRemove \/ OpenCreate \/ CloseEditor \/ EditForm \/ ApplyJson \/ FormatJson
             \/ ImportFromPhp \/ BackToTest \/ UNCHANGED ruleVars \/ \E p \in Platforms : AskRemove(p)
    BY <2>1, <1>10 DEF CancelRemove, OpenCreate, CloseEditor, EditForm, ApplyJson, FormatJson,
       ImportFromPhp, BackToTest, AskRemove, ruleVars
  <2> QED
    BY <2>1, <1>1, <1>2, <1>3, <1>4, <1>5, <1>6, <1>7, <1>8, <1>11, <1>12 DEF RuleNext

-----------------------------------------------------------------------------
(* What is saved.                                                          *)

\* While the warning is up the rule is the one in the text.
LEMMA AskedStep == Typed /\ AskedInSync /\ [RuleNext]_ruleVars => AskedInSync'
<1> SUFFICES ASSUME Typed, AskedInSync, [RuleNext]_ruleVars PROVE AskedInSync'
  OBVIOUS
<1>0. /\ editor \in Editor /\ Carried
      /\ asking \in [save: BOOLEAN, remove: Platforms \cup {NoPlatform}]
  BY DEF Typed, RuleTypeOK
<1>1. ASSUME asking'.save => asking.save, editor'.rule = editor.rule,
             editor'.text = editor.text, editor'.type = editor.type
      PROVE  AskedInSync'
  BY <1>1 DEF AskedInSync
<1>2. ASSUME ~asking.save, UNCHANGED asking PROVE AskedInSync'
  BY <1>2 DEF AskedInSync
<1>3. ASSUME NEW p \in Platforms, NEW r \in Rules, editor' = ApplyParsed(editor, p, r),
             UNCHANGED asking
      PROVE  AskedInSync'
  <2>1. editor'.rule = editor'.text /\ editor'.type \in {editor.type, p} /\ p # NoPlatform
    BY <1>3, <1>0, RuleAssumption DEF ApplyParsed, Editor, NoPlatform
  <2> QED
    BY <1>3, <2>1 DEF AskedInSync
<1>4. ASSUME NEW p \in Platforms, NEW r \in Rules, editor' = ShowRule(p, r)
      PROVE  AskedInSync'
  <2>1. editor'.rule = r /\ editor'.text = r /\ editor'.type = p /\ p # NoPlatform
    BY <1>4, <1>0, RuleAssumption DEF ShowRule, Editor, NoPlatform
  <2> QED
    BY <2>1 DEF AskedInSync
<1>5. ASSUME NEW i \in Slots, RuleAnswer(i) PROVE AskedInSync'
  <2>1. CASE AnswerList(i) \/ AnswerRemove(i)
    BY <2>1, <1>1 DEF AnswerList, AnswerRemove
  <2>2. CASE AnswerGet(i)
    <3>1. calls[i].type \in Platforms /\ calls[i].rule \in Rules
      BY <2>2, <1>0 DEF AnswerGet, Carried
    <3> QED
      BY <2>2, <3>1, <1>4 DEF AnswerGet
  <2>3. CASE AnswerConvert(i)
    BY <2>3, <1>3 DEF AnswerConvert
  <2>4. CASE AnswerTest(i)
    <3>1. editor'.rule = editor.rule /\ editor'.text = editor.text /\ editor'.type = editor.type
      BY <2>4, <1>0 DEF AnswerTest, Editor
    <3> QED
      BY <2>4, <3>1, <1>1 DEF AnswerTest
  <2>5. CASE AnswerFix(i)
    BY <2>5, <1>3 DEF AnswerFix
  <2>6. CASE AnswerSave(i)
    <3>1. asking'.save = FALSE
      BY <2>6, <1>0 DEF AnswerSave
    <3> QED
      BY <3>1 DEF AskedInSync
  <2>7. CASE FailRule(i)
    <3>1. CASE calls[i].op = "get"
      <4>1. calls[i].type \in Platforms /\ calls[i].rule \in Rules
        BY <3>1, <1>0 DEF Carried
      <4> QED
        BY <2>7, <3>1, <4>1, <1>4 DEF FailRule
    <3>2. CASE calls[i].op # "get"
      BY <2>7, <3>2, <1>1 DEF FailRule
    <3> QED
      BY <3>1, <3>2
  <2> QED
    BY <1>5, <2>1, <2>2, <2>3, <2>4, <2>5, <2>6, <2>7 DEF RuleAnswer
<1>6. ASSUME NEW i \in Slots, ServeRule(i) PROVE AskedInSync'
  BY <1>6, <1>1 DEF ServeRule
<1>7. CASE \/ ReloadList \/ OpenCreate \/ \E p \in Platforms : OpenEdit(p)
  BY <1>7, <1>2 DEF ReloadList, OpenCreate, OpenEdit, AtList
<1>8. CASE ConfirmRemove \/ CancelRemove \/ \E p \in Platforms : AskRemove(p)
  <2>1. asking'.save = asking.save /\ UNCHANGED editor
    BY <1>8, <1>0 DEF ConfirmRemove, CancelRemove, AskRemove
  <2> QED
    BY <2>1, <1>1
<1>9. CASE EditForm \/ ApplyJson \/ FormatJson \/ ImportFromPhp \/ ImportFromAi \/ CloseEditor
  BY <1>9, <1>2 DEF EditForm, ApplyJson, FormatJson, ImportFromPhp, ImportFromAi, CanConvert,
     CloseEditor, AtEditor
<1>10. CASE TestSubmit \/ \E again \in BOOLEAN : AiFixRule(again)
  BY <1>10, <1>2 DEF TestSubmit, CanTest, AiFixRule, CanAiFix, AtEditor
<1>11. CASE SaveForm
  <2>1. CASE editor.type = NoPlatform
    BY <1>11, <2>1, <1>2 DEF SaveForm, AtEditor
  <2>2. CASE editor.type # NoPlatform
    <3>1. editor'.rule = editor'.text /\ editor'.type = editor.type
      BY <1>11, <1>0 DEF SaveForm, Synced, Editor
    <3> QED
      BY <2>2, <3>1 DEF AskedInSync
  <2> QED
    BY <2>1, <2>2
<1>12. CASE SaveAnyway
  BY <1>12, <1>1 DEF SaveAnyway
<1>13. CASE BackToTest
  BY <1>13, <1>0 DEF BackToTest, AskedInSync
<1>14. CASE UNCHANGED ruleVars
  BY <1>14, <1>1 DEF ruleVars
<1> QED
  BY <1>5, <1>6, <1>7, <1>8, <1>9, <1>10, <1>11, <1>12, <1>13, <1>14 DEF RuleNext

\* A call of another kind takes a slot, or a slot that is in use changes: no
\* rule is sent to be saved.
LEMMA NotSent ==
    ASSUME CallsOK, NEW op, NEW p, NEW r, NEW again, op \notin {"update", "create"},
           SendRule(ARuleCall(op, p, r, again))
    PROVE  \A i \in Slots : ~Saves(i)
<1> DEFINE c == ARuleCall(op, p, r, again)
<1>1. c.op = op
  BY DEF ARuleCall
<1>2. PICK i \in Slots : calls' = [calls EXCEPT ![i] = c]
  BY DEF SendRule, FreeSlots
<1> HIDE DEF c
<1>3. calls'[i] = c /\ \A j \in Slots : j # i => calls'[j] = calls[j]
  BY <1>2 DEF CallsOK
<1> QED
  BY <1>1, <1>3 DEF Saves

\* A slot that was in use does not take a new call.
LEMMA NotSaved ==
    ASSUME CallsOK, NEW i \in Slots, calls[i].op # "unused",
           NEW c, calls' = [calls EXCEPT ![i] = c]
    PROVE  \A j \in Slots : ~Saves(j)
<1>1. \A j \in Slots : j # i => calls'[j] = calls[j]
  BY DEF CallsOK
<1> QED
  BY <1>1 DEF Saves, Unused

\* SavedIsShown in one step.
SavesShown == \A i \in Slots : Saves(i) => /\ calls'[i].rule = editor.text
                                          /\ calls'[i].type = editor.type
                                          /\ calls'[i].type # NoPlatform

\* A call that saves is sent with the rule that the text shows.
LEMMA SavesStep == Typed /\ AskedInSync /\ [RuleNext]_ruleVars => SavesShown
<1> SUFFICES ASSUME Typed, AskedInSync, [RuleNext]_ruleVars PROVE SavesShown
  OBVIOUS
<1>0. CallsOK /\ editor \in Editor
  BY DEF Typed, RuleTypeOK, CallsOK
<1>1. ASSUME \A i \in Slots : ~Saves(i) PROVE SavesShown
  BY <1>1 DEF SavesShown
<1>2. ASSUME UNCHANGED calls PROVE SavesShown
  BY <1>2 DEF SavesShown, Saves
<1>3. ASSUME NEW e, Persist(e), e.rule = editor.text, e.type = editor.type,
             editor.type # NoPlatform
      PROVE  SavesShown
  <2> DEFINE c == ARuleCall(IF e.editing THEN "update" ELSE "create", e.type, e.rule, FALSE)
  <2>1. c.rule = editor.text /\ c.type = editor.type
    BY <1>3 DEF ARuleCall
  <2>2. PICK i \in Slots : calls' = [calls EXCEPT ![i] = c]
    BY <1>3 DEF Persist, SendRule, FreeSlots
  <2> HIDE DEF c
  <2>3. calls'[i] = c /\ \A j \in Slots : j # i => calls'[j] = calls[j]
    BY <1>0, <2>2 DEF CallsOK
  <2> QED
    BY <1>3, <2>1, <2>3 DEF SavesShown, Saves
<1>4. ASSUME NEW i \in Slots, NEW c, calls' = [calls EXCEPT ![i] = c], calls[i].op # "unused"
      PROVE  SavesShown
  BY <1>0, <1>1, <1>4, NotSaved
<1>5. ASSUME NEW i \in Slots, ServeRule(i) \/ RuleAnswer(i) PROVE SavesShown
  <2>1. calls[i].op # "unused"
    BY <1>5 DEF ServeRule, RuleAnswer, AnswerList, AnswerRemove, AnswerGet, AnswerConvert,
       AnswerTest, AnswerFix, AnswerSave, FailRule, RuleOps, ListOps
  <2>2. \E c : calls' = [calls EXCEPT ![i] = c]
    BY <1>5 DEF ServeRule, RuleAnswer, AnswerList, AnswerRemove, AnswerGet, AnswerConvert,
       AnswerTest, AnswerFix, AnswerSave, FailRule, Done
  <2> QED
    BY <1>4, <2>1, <2>2
<1>6. CASE ReloadList \/ ConfirmRemove \/ ImportFromAi
  BY <1>6, <1>0, <1>1, NotSent DEF ReloadList, ListCall, ConfirmRemove, ImportFromAi
<1>7. CASE TestSubmit \/ (\E again \in BOOLEAN : AiFixRule(again)) \/ \E p \in Platforms : OpenEdit(p)
  BY <1>7, <1>0, <1>1, NotSent DEF TestSubmit, AiFixRule, OpenEdit
<1>8. CASE SaveForm
  <2>1. CASE UNCHANGED calls
    BY <2>1, <1>2
  <2>2. CASE editor.type # NoPlatform /\ Persist(Synced(editor))
    <3>1. Synced(editor).rule = editor.text /\ Synced(editor).type = editor.type
      BY <1>0 DEF Synced, Editor
    <3> QED
      BY <2>2, <3>1, <1>3
  <2> QED
    BY <1>8, <2>1, <2>2 DEF SaveForm
<1>9. CASE SaveAnyway
  BY <1>9, <1>3 DEF SaveAnyway, AskedInSync
<1> QED
  <2>1. CASE \/ CancelRemove \/ OpenCreate \/ CloseEditor \/ EditForm \/ ApplyJson \/ FormatJson
             \/ ImportFromPhp \/ BackToTest \/ UNCHANGED ruleVars \/ \E p \in Platforms : AskRemove(p)
    BY <2>1, <1>2 DEF CancelRemove, OpenCreate, CloseEditor, EditForm, ApplyJson, FormatJson,
       ImportFromPhp, BackToTest, AskRemove, ruleVars
  <2> QED
    BY <2>1, <1>5, <1>6, <1>7, <1>8, <1>9 DEF RuleNext

-----------------------------------------------------------------------------
(* The theorems.                                                           *)

\* The invariant holds at the start.
LEMMA PageInit == RuleInit => PageInv
<1> SUFFICES ASSUME RuleInit PROVE PageInv
  OBVIOUS
<1>1. \A i \in Slots : calls[i].op = "unused"
  BY DEF RuleInit, Unused
<1>2. ~asking.save /\ busy = {} /\ platforms = store
  BY DEF RuleInit
<1> QED
  BY <1>1, <1>2, TypedInit DEF PageInv, LoadingHeld, OthersHeld, AnswerIsTable, ListIsFresh,
     AskedInSync, OnList, ListOps

\* Every step keeps the invariant.
LEMMA PageStep == PageInv /\ [RuleNext]_ruleVars => PageInv'
BY TypedStep, HeldStep, FreshStep, AskedStep DEF PageInv

\* Hence it always holds.
LEMMA PageHolds == RuleSpec => []PageInv
BY PageInit, PageStep, PTL DEF RuleSpec

\* A busy flag of the page is up only while a call is under way whose end
\* takes it down: no button of the rule editor is disabled for good.
THEOREM NoButtonIsStuck == RuleSpec => []BusyHasCause
<1>1. PageInv => BusyHasCause
  BY DEF PageInv, LoadingHeld, OthersHeld, OnList, Repairs, BusyHasCause
<1> QED
  BY <1>1, PageHolds, PTL

\* When nothing is loading, and the last call on the list was answered, the
\* page shows the table as it is.
THEOREM ListShowsTable == RuleSpec => []ListIsFresh
<1>1. PageInv => ListIsFresh
  BY DEF PageInv
<1> QED
  BY <1>1, PageHolds, PTL

\* What is sent to be saved is the text that the editor shows, for a platform
\* that has a name, whatever answers arrived while the warning was shown.
THEOREM SaveSendsText == RuleSpec => SavedIsShown
<1>1. PageInv /\ [RuleNext]_ruleVars => [SavesShown]_ruleVars
  BY SavesStep DEF PageInv
<1>2. RuleSpec => [][SavesShown]_ruleVars
  BY <1>1, PageHolds, PTL DEF RuleSpec
<1> QED
  BY <1>2 DEF SavedIsShown, SavesShown

=============================================================================
