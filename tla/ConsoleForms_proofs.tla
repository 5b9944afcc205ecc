------------------------- MODULE ConsoleForms_proofs -------------------------
(***************************************************************************)
(* Theorems about the forms of the console (SettingsForm, AccountForms,    *)
(* ChannelConfig), for any values, secrets, tokens, users, codes and       *)
(* channels, and for any number of calls.                                  *)
(***************************************************************************)
EXTENDS SettingsForm, AccountForms, ChannelConfig, FiniteSetTheorems, TLAPS

-----------------------------------------------------------------------------
(* SettingsForm: types.                                                    *)

PutsOK == puts \in [SettingSlot -> SettingCall \cup {NoPut, PutOver}]

\* A call that is under way is a call.
LEMMA PutUnderWay ==
    ASSUME PutsOK, NEW i \in SettingSlot, InFlight(i)
    PROVE  puts[i] \in SettingCall
<1>1. NoPut.op \notin SettingOps /\ PutOver.op \notin SettingOps
  BY DEF SettingOps, NoPut, PutOver
<1>2. puts[i] \in SettingCall \cup {NoPut, PutOver} /\ puts[i].op \in SettingOps
  BY DEF PutsOK, InFlight
<1> QED
  BY <1>1, <1>2

\* A new call carries nothing but its kind.
LEMMA NewPutOK ==
    ASSUME NEW op \in SettingOps
    PROVE  /\ NewPut(op) \in SettingCall
           /\ NewPut(op).op = op /\ NewPut(op).at = "sent" /\ NewPut(op).heard
           /\ NewPut(op).ai = NoAi
BY SettingsAssumption DEF NewPut, SettingCall, NoFile, NoAi, File, Ai, Secret

\* What each of the buttons sends.
Pressed(c) == /\ c \in SettingCall /\ c.at = "sent" /\ c.heard /\ c.op # "load"
              /\ FlagOf(c.op) \in SettingFlags \ {"loading"}
              /\ c.op = "ai" /\ c.ai.on => form.keySet \/ c.ai.key # ""

\* Every button sends a call that keeps to its type, and the AI is
\* switched on only with a key, typed now or stored as the page knows.
LEMMA PressedOK ==
    ASSUME form \in Form,
           \/ SaveRedis \/ SaveHTTPSecurity \/ SaveAI \/ SaveEnqueueToken \/ RegenerateToken
    PROVE  \E c : Pressed(c) /\ Press(c, {"loading"})
<1>1. CASE SaveRedis
  <2> DEFINE c == [NewPut("redis") EXCEPT !.file.redis = form.redis]
  <2>1. Pressed(c)
    BY SettingsAssumption DEF Pressed, Form, NewPut, SettingCall, SettingOps, FlagOf, SettingFlags,
       NoFile, NoAi, File, Ai, Secret
  <2> QED
    BY <1>1, <2>1 DEF SaveRedis
<1>2. CASE SaveHTTPSecurity
  <2> DEFINE c == [NewPut("http") EXCEPT !.file.http = form.http]
  <2>1. Pressed(c)
    BY SettingsAssumption DEF Pressed, Form, NewPut, SettingCall, SettingOps, FlagOf, SettingFlags,
       NoFile, NoAi, File, Ai, Secret
  <2> QED
    BY <1>2, <2>1 DEF SaveHTTPSecurity
<1>3. CASE SaveAI
  <2>1. PICK s \in Secret : /\ form.on => form.keySet \/ s # ""
                            /\ Press([NewPut("ai") EXCEPT !.ai = [on |-> form.on, key |-> s]], {"loading"})
    BY <1>3 DEF SaveAI
  <2> DEFINE c == [NewPut("ai") EXCEPT !.ai = [on |-> form.on, key |-> s]]
  <2>2. Pressed(c)
    BY <2>1, SettingsAssumption DEF Pressed, Form, NewPut, SettingCall, SettingOps, FlagOf, SettingFlags,
       NoFile, NoAi, File, Ai, Secret
  <2> QED
    BY <2>1, <2>2
<1>4. CASE SaveEnqueueToken
  <2>1. PICK t \in Tokens : Press([NewPut("put token") EXCEPT !.token = t], {"loading"})
    BY <1>4 DEF SaveEnqueueToken
  <2> DEFINE c == [NewPut("put token") EXCEPT !.token = t]
  <2>2. Pressed(c)
    BY SettingsAssumption DEF Pressed, Form, NewPut, SettingCall, SettingOps, FlagOf, SettingFlags,
       NoFile, NoAi, File, Ai, Secret
  <2> QED
    BY <2>1, <2>2
<1>5. CASE RegenerateToken
  <2> DEFINE c == NewPut("new token")
  <2>1. Pressed(c)
    BY SettingsAssumption DEF Pressed, Form, NewPut, SettingCall, SettingOps, FlagOf, SettingFlags,
       NoFile, NoAi, File, Ai, Secret
  <2> QED
    BY <1>5, <2>1 DEF RegenerateToken
<1> QED
  BY <1>1, <1>2, <1>3, <1>4, <1>5

\* The types hold at the start.
LEMMA SettingsTypeInit == SettingsInit => SettingsTypeOK
<1> SUFFICES ASSUME SettingsInit PROVE SettingsTypeOK
  OBVIOUS
<1>1. file \in File /\ ai \in Ai /\ token \in [table: Tokens, memory: Tokens]
  BY SettingsAssumption DEF SettingsInit, File, Ai, Secret, NoFile, NoAi
<1>2. form \in Form /\ typed \in BOOLEAN /\ sbusy \subseteq SettingFlags /\ crossed \in BOOLEAN
  BY SettingsAssumption DEF SettingsInit, Form, EmptyForm
<1>3. puts \in [SettingSlot -> SettingCall \cup {NoPut, PutOver}]
  BY DEF SettingsInit
<1> QED
  BY <1>1, <1>2, <1>3 DEF SettingsTypeOK

\* Every step keeps the types.
LEMMA SettingsTypeStep == SettingsTypeOK /\ [SettingsNext]_settingsVars => SettingsTypeOK'
<1> SUFFICES ASSUME SettingsTypeOK, [SettingsNext]_settingsVars PROVE SettingsTypeOK'
  OBVIOUS
<1>0. /\ file \in File /\ ai \in Ai /\ token \in [table: Tokens, memory: Tokens]
      /\ form \in Form /\ typed \in BOOLEAN /\ sbusy \subseteq SettingFlags
      /\ PutsOK /\ crossed \in BOOLEAN
  BY DEF SettingsTypeOK, PutsOK
<1>c. ASSUME file' \in File, ai' \in Ai, token' \in [table: Tokens, memory: Tokens],
             form' \in Form, typed' \in BOOLEAN, sbusy' \subseteq SettingFlags,
             PutsOK', crossed' \in BOOLEAN
      PROVE  SettingsTypeOK'
  BY <1>c DEF SettingsTypeOK, PutsOK
<1>p. ASSUME NEW i \in SettingSlot, NEW c \in SettingCall \cup {NoPut, PutOver},
             puts' = [puts EXCEPT ![i] = c]
      PROVE  PutsOK'
  BY <1>p, <1>0 DEF PutsOK
<1>u. ASSUME UNCHANGED puts PROVE PutsOK'
  BY <1>u, <1>0 DEF PutsOK
<1>1. CASE Reopen
  <2>1. form' \in Form
    BY <1>1, SettingsAssumption DEF Reopen, EmptyForm, Form
  <2>2. \A i \in SettingSlot : InFlight(i) => [puts[i] EXCEPT !.heard = FALSE] \in SettingCall
    BY <1>0, PutUnderWay DEF SettingCall
  <2>3. NewPut("load") \in SettingCall
    BY NewPutOK DEF SettingOps
  <2>4. PutsOK'
    BY <1>0, <1>1, <2>2, <2>3 DEF Reopen, PutsOK
  <2>5. crossed' \in BOOLEAN
    BY <1>0, <1>1 DEF Reopen
  <2> QED
    BY <1>0, <1>1, <1>c, <2>1, <2>4, <2>5 DEF Reopen, SettingFlags
<1>2. CASE SaveRedis \/ SaveHTTPSecurity \/ SaveAI \/ SaveEnqueueToken \/ RegenerateToken
  <2>1. PICK c : Pressed(c) /\ Press(c, {"loading"})
    BY <1>0, <1>2, PressedOK
  <2>2. PutsOK'
    BY <2>1, <1>p DEF Press, SendPut, Pressed
  <2>3. crossed' \in BOOLEAN
    BY <1>0, <2>1 DEF Press, SendPut
  <2> QED
    BY <1>0, <1>c, <2>1, <2>2, <2>3 DEF Press, Pressed
<1>3. ASSUME NEW f \in SettingFields, Edit(f) PROVE SettingsTypeOK'
  <2>1. form' \in Form
    BY <1>0, <1>3 DEF Edit, Form
  <2> QED
    BY <1>0, <1>3, <1>c, <1>u, <2>1 DEF Edit
<1>4. ASSUME NEW i \in SettingSlot, BeginSettings(i) PROVE SettingsTypeOK'
  <2>0. puts[i] \in SettingCall
    BY <1>0, <1>4, PutUnderWay DEF BeginSettings
  <2>1. PICK t \in IF puts[i].op = "new token" THEN Tokens ELSE {puts[i].token} :
          /\ puts' = [puts EXCEPT ![i].at = "begun", ![i].token = t, ![i].file = Prepared(puts[i])]
          /\ token' = IF puts[i].op \in TokenOps THEN [token EXCEPT !.table = t] ELSE token
    BY <1>4 DEF BeginSettings
  <2>2. t \in Tokens
    BY <2>0 DEF SettingCall
  <2>3. Prepared(puts[i]) \in File
    BY <1>0, <2>0 DEF Prepared, File, SettingCall
  <2> DEFINE c == [puts[i] EXCEPT !.at = "begun", !.token = t, !.file = Prepared(puts[i])]
  <2>4. c \in SettingCall
    BY <2>0, <2>2, <2>3 DEF SettingCall
  <2>5. puts' = [puts EXCEPT ![i] = c]
    BY <1>0, <2>0, <2>1 DEF PutsOK, SettingCall
  <2> HIDE DEF c
  <2>6. PutsOK'
    BY <1>p, <2>4, <2>5
  <2>7. token' \in [table: Tokens, memory: Tokens]
    BY <1>0, <2>1, <2>2
  <2> QED
    BY <1>0, <1>4, <1>c, <2>6, <2>7 DEF BeginSettings
<1>5. ASSUME NEW i \in SettingSlot, FinishSettings(i) PROVE SettingsTypeOK'
  <2>0. puts[i] \in SettingCall
    BY <1>0, <1>5, PutUnderWay DEF FinishSettings
  <2>1. file' \in File
    BY <1>0, <1>5, <2>0 DEF FinishSettings, SettingCall
  <2>2. ai' \in Ai
    BY <1>0, <1>5, <2>0 DEF FinishSettings, SettingCall, NewAi, KeptOr, Ai
  <2>3. token' \in [table: Tokens, memory: Tokens]
    BY <1>0, <1>5, <2>0 DEF FinishSettings, SettingCall
  <2> DEFINE c == [puts[i] EXCEPT !.at = "answered", !.file = file', !.ai = ai', !.token = token'.memory]
  <2>4. c \in SettingCall
    BY <2>0, <2>1, <2>2, <2>3 DEF SettingCall
  <2>5. puts' = [puts EXCEPT ![i] = c]
    BY <1>5 DEF FinishSettings
  <2> HIDE DEF c
  <2>6. PutsOK'
    BY <1>p, <2>4, <2>5
  <2> QED
    BY <1>0, <1>5, <1>c, <2>1, <2>2, <2>3, <2>6 DEF FinishSettings
<1>6. ASSUME NEW i \in SettingSlot, AnswerSettings(i) PROVE SettingsTypeOK'
  <2>0. puts[i] \in SettingCall
    BY <1>0, <1>6, PutUnderWay DEF AnswerSettings
  <2>1. form' \in Form
    BY <1>0, <1>6, <2>0 DEF AnswerSettings, Filled, SettingCall, Form, File, Ai
  <2>2. PutsOK'
    BY <1>6, <1>p DEF AnswerSettings
  <2>3. typed' \in BOOLEAN
    BY <1>0, <1>6 DEF AnswerSettings
  <2> QED
    BY <1>0, <1>6, <1>c, <2>1, <2>2, <2>3 DEF AnswerSettings
<1>7. ASSUME NEW i \in SettingSlot, FailSettings(i) PROVE SettingsTypeOK'
  <2>0. puts[i] \in SettingCall
    BY <1>0, <1>7, PutUnderWay DEF FailSettings
  <2>1. [puts[i] EXCEPT !.heard = FALSE] \in SettingCall
    BY <2>0 DEF SettingCall
  <2>2. PutsOK'
    BY <1>0, <1>7, <2>1 DEF FailSettings, PutsOK
  <2> QED
    BY <1>0, <1>7, <1>c, <2>2 DEF FailSettings
<1>8. ASSUME NEW i \in SettingSlot, ForgetSettings(i) PROVE SettingsTypeOK'
  <2>1. PutsOK'
    BY <1>8, <1>p DEF ForgetSettings
  <2> QED
    BY <1>0, <1>8, <1>c, <2>1 DEF ForgetSettings
<1>9. CASE UNCHANGED settingsVars
  BY <1>0, <1>9, <1>c, <1>u DEF settingsVars
<1> QED
  BY <1>1, <1>2, <1>3, <1>4, <1>5, <1>6, <1>7, <1>8, <1>9 DEF SettingsNext

\* The page, the file, the AI settings and the token are of the declared
\* kinds in every reachable state.
THEOREM SettingsTypeCorrect == SettingsSpec => []SettingsTypeOK
BY SettingsTypeInit, SettingsTypeStep, PTL DEF SettingsSpec

-----------------------------------------------------------------------------
(* The key of the AI.  There is a key whenever somebody relies on one: the *)
(* page, an answer that is on its way, or a save that carries none.        *)

HasKey == ai.key # ""
Relies(c) == \/ c.at = "answered" /\ c.ai.key # ""
             \/ c.at # "answered" /\ c.op = "ai" /\ c.ai.on /\ c.ai.key = ""

KeyInv == /\ EnabledHasKey
          /\ form.keySet => HasKey
          /\ \A i \in SettingSlot : InFlight(i) /\ Relies(puts[i]) => HasKey

\* A step that keeps the key, and after which nobody new relies on it.
LEMMA KeyKept ==
    ASSUME KeyInv, UNCHANGED ai, form'.keySet => HasKey,
           \A i \in SettingSlot : InFlight(i)' /\ Relies(puts'[i]) => HasKey
    PROVE  KeyInv'
BY DEF KeyInv, EnabledHasKey, HasKey, InFlight

\* The same, for a step that changes one slot.
LEMMA KeyPut ==
    ASSUME PutsOK, KeyInv, UNCHANGED ai, form'.keySet => HasKey,
           NEW i \in SettingSlot, NEW c, puts' = [puts EXCEPT ![i] = c],
           c.op \in SettingOps /\ Relies(c) => HasKey
    PROVE  KeyInv'
<1>1. puts'[i] = c /\ \A j \in SettingSlot : j # i => puts'[j] = puts[j]
  BY DEF PutsOK
<1>2. \A j \in SettingSlot : InFlight(j)' /\ Relies(puts'[j]) => HasKey
  BY <1>1 DEF KeyInv, InFlight
<1> QED
  BY <1>2, KeyKept

\* The invariant holds at the start.
LEMMA KeyInit == SettingsInit => KeyInv
<1>1. NoPut.op \notin SettingOps
  BY DEF NoPut, SettingOps
<1>2. ~NoAi.on /\ ~EmptyForm.keySet
  BY DEF NoAi, EmptyForm
<1> QED
  BY <1>1, <1>2 DEF SettingsInit, KeyInv, EnabledHasKey, InFlight

\* Every step keeps the invariant.
LEMMA KeyStep == SettingsTypeOK /\ KeyInv /\ [SettingsNext]_settingsVars => KeyInv'
<1> SUFFICES ASSUME SettingsTypeOK, KeyInv, [SettingsNext]_settingsVars PROVE KeyInv'
  OBVIOUS
<1>0. PutsOK /\ form \in Form /\ ai \in Ai
  BY DEF SettingsTypeOK, PutsOK
<1>1. CASE Reopen
  <2>1. ~form'.keySet
    BY <1>1 DEF Reopen, EmptyForm
  <2>2. ~Relies(NewPut("load"))
    BY DEF Relies, NewPut
  <2>3. ASSUME NEW j \in SettingSlot, InFlight(j)', Relies(puts'[j]) PROVE HasKey
    <3>1. CASE puts'[j] = NewPut("load")
      BY <2>2, <2>3, <3>1
    <3>2. CASE InFlight(j) /\ puts'[j] = [puts[j] EXCEPT !.heard = FALSE]
      <4>1. puts[j] \in SettingCall
        BY <1>0, <3>2, PutUnderWay
      <4>2. Relies(puts[j])
        BY <2>3, <3>2, <4>1 DEF Relies, SettingCall
      <4> QED
        BY <3>2, <4>2 DEF KeyInv
    <3>3. CASE ~InFlight(j) /\ puts'[j] = puts[j]
      BY <2>3, <3>3 DEF InFlight
    <3> QED
      BY <1>1, <3>1, <3>2, <3>3 DEF Reopen
  <2> QED
    BY <1>1, <2>1, <2>3, KeyKept DEF Reopen
<1>2. CASE SaveRedis \/ SaveHTTPSecurity \/ SaveAI \/ SaveEnqueueToken \/ RegenerateToken
  <2>1. PICK c : Pressed(c) /\ Press(c, {"loading"})
    BY <1>0, <1>2, PressedOK
  <2>2. PICK i \in SettingSlot : puts' = [puts EXCEPT ![i] = c]
    BY <2>1 DEF Press, SendPut
  <2>3. UNCHANGED <<ai, form>>
    BY <2>1 DEF Press
  <2>4. Relies(c) => HasKey
    BY <2>1 DEF Pressed, Relies, KeyInv
  <2> QED
    BY <1>0, <2>2, <2>3, <2>4, KeyPut DEF KeyInv
<1>3. ASSUME NEW f \in SettingFields, Edit(f) PROVE KeyInv'
  <2>1. form'.keySet = form.keySet
    BY <1>0, <1>3 DEF Edit, Form
  <2> QED
    BY <1>3, <2>1 DEF Edit, KeyInv, EnabledHasKey, HasKey, InFlight
<1>4. ASSUME NEW i \in SettingSlot, BeginSettings(i) PROVE KeyInv'
  <2>0. puts[i] \in SettingCall /\ InFlight(i) /\ puts[i].at = "sent"
    BY <1>0, <1>4, PutUnderWay DEF BeginSettings
  <2>1. PICK t : puts' = [puts EXCEPT ![i].at = "begun", ![i].token = t, ![i].file = Prepared(puts[i])]
    BY <1>4 DEF BeginSettings
  <2> DEFINE c == [puts[i] EXCEPT !.at = "begun", !.token = t, !.file = Prepared(puts[i])]
  <2>2. puts' = [puts EXCEPT ![i] = c]
    BY <1>0, <2>0, <2>1 DEF PutsOK, SettingCall
  <2>3. Relies(c) => Relies(puts[i])
    BY <2>0 DEF Relies, SettingCall
  <2> HIDE DEF c
  <2> QED
    BY <1>0, <1>4, <2>0, <2>2, <2>3, KeyPut DEF BeginSettings, KeyInv
<1>5. ASSUME NEW i \in SettingSlot, FinishSettings(i) PROVE KeyInv'
  <2>0. puts[i] \in SettingCall /\ InFlight(i) /\ puts[i].at = "begun"
    BY <1>0, <1>5, PutUnderWay DEF FinishSettings
  <2>1. ai' = NewAi(puts[i])
    BY <1>5 DEF FinishSettings
  <2>2. HasKey => HasKey'
    BY <2>1 DEF NewAi, KeptOr, HasKey
  <2>3. ai'.on => HasKey'
    <3>1. CASE puts[i].op = "ai" /\ puts[i].ai.on
      <4>1. puts[i].ai.key # "" \/ HasKey
        BY <2>0, <3>1 DEF KeyInv, Relies
      <4> QED
        BY <2>1, <3>1, <4>1 DEF NewAi, KeptOr, HasKey
    <3>2. CASE ~(puts[i].op = "ai" /\ puts[i].ai.on)
      BY <2>1, <2>2, <3>2 DEF NewAi, KeyInv, EnabledHasKey, HasKey
    <3> QED
      BY <3>1, <3>2
  <2> DEFINE c == [puts[i] EXCEPT !.at = "answered", !.file = file', !.ai = ai', !.token = token'.memory]
  <2>4. puts' = [puts EXCEPT ![i] = c]
    BY <1>5 DEF FinishSettings
  <2>5. c.at = "answered" /\ c.ai = ai'
    BY <2>0 DEF SettingCall
  <2> HIDE DEF c
  <2>6. puts'[i] = c /\ \A j \in SettingSlot : j # i => puts'[j] = puts[j]
    BY <1>0, <2>4 DEF PutsOK
  <2>7. \A j \in SettingSlot : InFlight(j)' /\ Relies(puts'[j]) => HasKey'
    BY <2>2, <2>5, <2>6 DEF KeyInv, Relies, InFlight, HasKey
  <2>8. UNCHANGED form
    BY <1>5 DEF FinishSettings
  <2> QED
    BY <2>2, <2>3, <2>7, <2>8 DEF KeyInv, EnabledHasKey, HasKey
<1>6. ASSUME NEW i \in SettingSlot, AnswerSettings(i) PROVE KeyInv'
  <2>1. /\ form' = Filled(puts[i]) /\ puts' = [puts EXCEPT ![i] = PutOver] /\ UNCHANGED ai
        /\ InFlight(i) /\ puts[i].at = "answered"
    BY <1>6 DEF AnswerSettings
  <2>2. form'.keySet => HasKey
    BY <1>0, <2>1 DEF Filled, KeyInv, Relies, Form
  <2>3. PutOver.op \notin SettingOps
    BY DEF PutOver, SettingOps
  <2> QED
    BY <1>0, <2>1, <2>2, <2>3, KeyPut
<1>7. ASSUME NEW i \in SettingSlot, FailSettings(i) \/ ForgetSettings(i) PROVE KeyInv'
  <2>0. puts[i] \in SettingCall /\ InFlight(i) /\ UNCHANGED <<ai, form>>
    BY <1>0, <1>7, PutUnderWay DEF FailSettings, ForgetSettings
  <2>1. PutOver.op \notin SettingOps
    BY DEF PutOver, SettingOps
  <2>2. CASE puts' = [puts EXCEPT ![i] = PutOver]
    BY <1>0, <2>0, <2>1, <2>2, KeyPut DEF KeyInv
  <2>3. CASE puts' = [puts EXCEPT ![i].heard = FALSE]
    <3> DEFINE c == [puts[i] EXCEPT !.heard = FALSE]
    <3>1. puts' = [puts EXCEPT ![i] = c]
      BY <2>3
    <3>2. Relies(c) => Relies(puts[i])
      BY <2>0 DEF Relies, SettingCall
    <3> HIDE DEF c
    <3> QED
      BY <1>0, <2>0, <3>1, <3>2, KeyPut DEF KeyInv
  <2> QED
    BY <1>7, <2>2, <2>3 DEF FailSettings, ForgetSettings
<1>8. CASE UNCHANGED settingsVars
  BY <1>8 DEF settingsVars, KeyInv, EnabledHasKey, HasKey, InFlight
<1> QED
  BY <1>1, <1>2, <1>3, <1>4, <1>5, <1>6, <1>7, <1>8 DEF SettingsNext

\* The AI is never on without a key, in whatever order the saves of the page
\* and of the pages that were left are served.
THEOREM AiHasKey == SettingsSpec => []EnabledHasKey
<1>1. SettingsInit => SettingsTypeOK /\ KeyInv
  BY SettingsTypeInit, KeyInit
<1>2. SettingsTypeOK /\ KeyInv /\ [SettingsNext]_settingsVars => (SettingsTypeOK /\ KeyInv)'
  BY SettingsTypeStep, KeyStep
<1>3. KeyInv => EnabledHasKey
  BY DEF KeyInv
<1> QED
  BY <1>1, <1>2, <1>3, PTL DEF SettingsSpec

-----------------------------------------------------------------------------
(* The sections of the file.                                               *)

\* A call that changes something.
Saving(i) == InFlight(i) /\ puts[i].op # "load"
Writing(i) == Saving(i) /\ puts[i].op \in FileOps /\ puts[i].at = "begun"

\* As long as nothing was crossed, each flag is held by one call, and the
\* file that a call is about to write differs from the file as it is in the
\* one section that the call saves.
ApartInv == ~crossed =>
    /\ \A i \in SettingSlot : Saving(i) => FlagOf(puts[i].op) \in sbusy
    /\ \A i, j \in SettingSlot :
          Saving(i) /\ Saving(j) /\ FlagOf(puts[i].op) = FlagOf(puts[j].op) => i = j
    /\ \A i \in SettingSlot : Writing(i) =>
          \A g \in FileOps \ {puts[i].op} : puts[i].file[g] = file[g]

\* A step that changes one slot, keeps the kind of the call there or ends it.
LEMMA ApartPut ==
    ASSUME PutsOK, ApartInv, UNCHANGED <<file, sbusy>>, crossed' = crossed,
           NEW i \in SettingSlot, NEW c, puts' = [puts EXCEPT ![i] = c],
           c.op \in SettingOps \ {"load"} => InFlight(i) /\ c.op = puts[i].op,
           c.op \in FileOps /\ c.at = "begun" => \A g \in FileOps \ {c.op} : c.file[g] = file[g]
    PROVE  ApartInv'
<1>1. puts'[i] = c /\ \A j \in SettingSlot : j # i => puts'[j] = puts[j]
  BY DEF PutsOK
<1>2. \A j \in SettingSlot : Saving(j)' => Saving(j) /\ puts'[j].op = puts[j].op
  BY <1>1 DEF Saving, InFlight
<1>3. ASSUME NEW j \in SettingSlot, Writing(j)', ~crossed
      PROVE  \A g \in FileOps \ {puts'[j].op} : puts'[j].file[g] = file[g]
  <2>1. CASE j = i
    BY <1>1, <1>3, <2>1 DEF Writing
  <2>2. CASE j # i
    BY <1>1, <1>3, <2>2 DEF Writing, Saving, InFlight, ApartInv
  <2> QED
    BY <2>1, <2>2
<1> QED
  BY <1>2, <1>3 DEF ApartInv

\* The invariant holds at the start.
LEMMA ApartInit == SettingsInit => ApartInv
<1>1. NoPut.op \notin SettingOps
  BY DEF NoPut, SettingOps
<1> QED
  BY <1>1 DEF SettingsInit, ApartInv, Saving, Writing, InFlight

\* Every step keeps the invariant.
LEMMA ApartStep == SettingsTypeOK /\ ApartInv /\ [SettingsNext]_settingsVars => ApartInv'
<1> SUFFICES ASSUME SettingsTypeOK, ApartInv, [SettingsNext]_settingsVars PROVE ApartInv'
  OBVIOUS
<1>0. PutsOK /\ form \in Form /\ crossed \in BOOLEAN
  BY DEF SettingsTypeOK, PutsOK
<1>o. PutOver.op \notin SettingOps /\ FileOps \subseteq SettingOps \ {"load"}
  BY DEF PutOver, SettingOps, FileOps
<1>x. ASSUME crossed' = TRUE PROVE ApartInv'
  BY <1>x DEF ApartInv
<1>1. CASE Reopen
  <2>1. CASE \E i \in SettingSlot : Saving(i)
    BY <1>1, <1>x, <2>1 DEF Reopen, Saving
  <2>2. CASE \A i \in SettingSlot : ~Saving(i)
    <3>1. NewPut("load").op = "load"
      BY DEF NewPut
    <3>2. ASSUME NEW j \in SettingSlot PROVE ~Saving(j)'
      <4>1. CASE puts'[j] = NewPut("load")
        BY <3>1, <4>1 DEF Saving
      <4>2. CASE InFlight(j) /\ puts'[j] = [puts[j] EXCEPT !.heard = FALSE]
        <5>1. puts[j] \in SettingCall
          BY <1>0, <4>2, PutUnderWay
        <5>2. puts'[j].op = puts[j].op
          BY <4>2, <5>1 DEF SettingCall
        <5> QED
          BY <2>2, <5>2 DEF Saving, InFlight
      <4>3. CASE ~InFlight(j) /\ puts'[j] = puts[j]
        BY <4>3 DEF Saving, InFlight
      <4> QED
        BY <1>1, <4>1, <4>2, <4>3 DEF Reopen
    <3> QED
      BY <3>2 DEF ApartInv, Writing
  <2> QED
    BY <2>1, <2>2
<1>2. CASE SaveRedis \/ SaveHTTPSecurity \/ SaveAI \/ SaveEnqueueToken \/ RegenerateToken
  <2>1. PICK c : Pressed(c) /\ Press(c, {"loading"})
    BY <1>0, <1>2, PressedOK
  <2>2. PICK i \in SettingSlot : puts[i] = NoPut /\ puts' = [puts EXCEPT ![i] = c]
    BY <2>1 DEF Press, SendPut, First, Unsent
  <2>3. puts'[i] = c /\ \A j \in SettingSlot : j # i => puts'[j] = puts[j]
    BY <1>0, <2>2 DEF PutsOK
  <2>4. /\ FlagOf(c.op) \notin sbusy /\ sbusy' = sbusy \cup {FlagOf(c.op)} /\ UNCHANGED file
        /\ ~crossed' => ~crossed /\ c.at = "sent"
    BY <2>1, <1>0 DEF Press, SendPut, Pressed
  <2>5. \A j \in SettingSlot : j # i => (Saving(j)' <=> Saving(j)) /\ (Writing(j)' <=> Writing(j))
    BY <2>3 DEF Saving, Writing, InFlight
  <2>6. ~crossed' => ~Writing(i)'
    BY <2>3, <2>4 DEF Writing
  <2> QED
    BY <2>3, <2>4, <2>5, <2>6 DEF ApartInv
<1>3. ASSUME NEW f \in SettingFields, Edit(f) PROVE ApartInv'
  BY <1>3 DEF Edit, ApartInv, Saving, Writing, InFlight
<1>4. ASSUME NEW i \in SettingSlot, BeginSettings(i) PROVE ApartInv'
  <2>0. puts[i] \in SettingCall /\ InFlight(i) /\ UNCHANGED <<file, sbusy, crossed>>
    BY <1>0, <1>4, PutUnderWay DEF BeginSettings
  <2>1. PICK t : puts' = [puts EXCEPT ![i].at = "begun", ![i].token = t, ![i].file = Prepared(puts[i])]
    BY <1>4 DEF BeginSettings
  <2> DEFINE c == [puts[i] EXCEPT !.at = "begun", !.token = t, !.file = Prepared(puts[i])]
  <2>2. puts' = [puts EXCEPT ![i] = c]
    BY <1>0, <2>0, <2>1 DEF PutsOK, SettingCall
  <2>3. c.op = puts[i].op /\ c.file = Prepared(puts[i])
    BY <2>0 DEF SettingCall
  <2>4. puts[i].op \in FileOps => \A g \in FileOps \ {puts[i].op} : Prepared(puts[i])[g] = file[g]
    BY <2>0 DEF Prepared, FileOps, SettingsTypeOK, File
  <2> HIDE DEF c
  <2> QED
    BY <1>0, <2>0, <2>2, <2>3, <2>4, ApartPut
<1>5. ASSUME NEW i \in SettingSlot, FinishSettings(i) PROVE ApartInv'
  <2>0. /\ puts[i] \in SettingCall /\ InFlight(i) /\ UNCHANGED <<sbusy, crossed>>
        /\ file' = IF puts[i].op \in FileOps THEN puts[i].file ELSE file
    BY <1>0, <1>5, PutUnderWay DEF FinishSettings
  <2> DEFINE c == [puts[i] EXCEPT !.at = "answered", !.file = file', !.ai = ai', !.token = token'.memory]
  <2>1. puts' = [puts EXCEPT ![i] = c]
    BY <1>5 DEF FinishSettings
  <2>2. c.at = "answered" /\ c.op = puts[i].op
    BY <2>0 DEF SettingCall
  <2> HIDE DEF c
  <2>3. puts'[i] = c /\ \A j \in SettingSlot : j # i => puts'[j] = puts[j]
    BY <1>0, <2>1 DEF PutsOK
  <2>4. \A j \in SettingSlot : (Saving(j)' <=> Saving(j)) /\ puts'[j].op = puts[j].op
    BY <2>2, <2>3 DEF Saving, InFlight
  <2>5. \A j \in SettingSlot : Writing(j)' => j # i /\ Writing(j)
    BY <2>2, <2>3 DEF Writing, Saving, InFlight
  <2>6. ASSUME NEW j \in SettingSlot, Writing(j)', ~crossed PROVE UNCHANGED file
    <3>1. CASE puts[i].op \in FileOps
      <4>1. Saving(i) /\ FlagOf(puts[i].op) = FlagOf(puts[j].op)
        BY <2>0, <2>5, <2>6, <3>1, <1>o DEF Writing, Saving, FlagOf, FileOps
      <4> QED
        BY <2>5, <2>6, <4>1 DEF ApartInv, Writing
    <3>2. CASE puts[i].op \notin FileOps
      BY <2>0, <3>2
    <3> QED
      BY <3>1, <3>2
  <2>7. \A j \in SettingSlot : Writing(j)' => puts'[j] = puts[j]
    BY <2>3, <2>5
  <2> QED
    BY <2>0, <2>4, <2>5, <2>6, <2>7 DEF ApartInv
<1>6. ASSUME NEW i \in SettingSlot, AnswerSettings(i) PROVE ApartInv'
  <2>0. /\ puts[i] \in SettingCall /\ InFlight(i) /\ UNCHANGED <<file, crossed>>
        /\ sbusy' = sbusy \ {FlagOf(puts[i].op)} /\ puts' = [puts EXCEPT ![i] = PutOver]
    BY <1>0, <1>6, PutUnderWay DEF AnswerSettings
  <2>1. ~Saving(i)' /\ \A j \in SettingSlot : j # i => puts'[j] = puts[j]
    BY <1>0, <1>o, <2>0 DEF PutsOK, Saving, InFlight
  <2>2. \A j \in SettingSlot : Saving(j)' => j # i /\ Saving(j) /\ puts'[j] = puts[j]
    BY <2>1 DEF Saving, InFlight
  <2>3. ASSUME NEW j \in SettingSlot, Saving(j)', ~crossed PROVE FlagOf(puts[j].op) \in sbusy'
    <3>1. CASE puts[i].op = "load"
      <4>1. FlagOf(puts[i].op) = "loading" /\ FlagOf(puts[j].op) # "loading"
        BY <3>1, <2>2, <2>3 DEF FlagOf, Saving
      <4> QED
        BY <2>0, <2>2, <2>3, <4>1 DEF ApartInv
    <3>2. CASE puts[i].op # "load"
      BY <2>0, <2>2, <2>3, <3>2 DEF ApartInv, Saving
    <3> QED
      BY <3>1, <3>2
  <2> QED
    BY <2>0, <2>2, <2>3 DEF ApartInv, Writing
<1>7. ASSUME NEW i \in SettingSlot, FailSettings(i) PROVE ApartInv'
  BY <1>7, <1>x DEF FailSettings
<1>8. ASSUME NEW i \in SettingSlot, ForgetSettings(i) PROVE ApartInv'
  BY <1>0, <1>8, <1>o, ApartPut DEF ForgetSettings
<1>9. CASE UNCHANGED settingsVars
  BY <1>9 DEF settingsVars, ApartInv, Saving, Writing, InFlight
<1> QED
  BY <1>1, <1>2, <1>3, <1>4, <1>5, <1>6, <1>7, <1>8, <1>9 DEF SettingsNext

\* SectionKept in one step.
WritesOwn == crossed \/ \A f \in FileOps :
    file'[f] # file[f] =>
        \E i \in SettingSlot : /\ InFlight(i) /\ puts[i].at = "begun"
                               /\ puts[i].op = f /\ puts[i].file[f] = file'[f]

\* A section changes only by the call that saves it, and to what that carries.
LEMMA WritesOwnStep == ApartInv /\ [SettingsNext]_settingsVars => WritesOwn
<1> SUFFICES ASSUME ApartInv, [SettingsNext]_settingsVars, ~crossed PROVE WritesOwn
  BY DEF WritesOwn
<1>1. CASE UNCHANGED file
  BY <1>1 DEF WritesOwn
<1>2. ASSUME NEW i \in SettingSlot, FinishSettings(i), file' # file PROVE WritesOwn
  <2>1. Writing(i) /\ file' = puts[i].file
    BY <1>2 DEF FinishSettings, Writing, Saving, FileOps
  <2>2. \A g \in FileOps \ {puts[i].op} : file'[g] = file[g]
    BY <2>1 DEF ApartInv
  <2> QED
    BY <2>1, <2>2 DEF WritesOwn, Writing, Saving
<1> QED
  BY <1>1, <1>2 DEF SettingsNext, settingsVars, Reopen, SaveRedis, SaveHTTPSecurity, SaveAI,
     SaveEnqueueToken, RegenerateToken, Press, Edit, BeginSettings, AnswerSettings,
     FailSettings, ForgetSettings

\* A save of one section of the file never takes back the other section, as
\* long as no call was given up or overtaken by a second page.
THEOREM SavesOneSection == SettingsSpec => SectionKept
<1>1. SettingsInit => SettingsTypeOK /\ ApartInv
  BY SettingsTypeInit, ApartInit
<1>2. SettingsTypeOK /\ ApartInv /\ [SettingsNext]_settingsVars => (SettingsTypeOK /\ ApartInv)'
  BY SettingsTypeStep, ApartStep
<1>3. ApartInv /\ [SettingsNext]_settingsVars => [WritesOwn]_settingsVars
  BY WritesOwnStep
<1>4. SettingsSpec => [][WritesOwn]_settingsVars
  BY <1>1, <1>2, <1>3, PTL DEF SettingsSpec
<1> QED
  BY <1>4 DEF SectionKept, WritesOwn

-----------------------------------------------------------------------------
(* SettingsForm: what the page shows.                                      *)

\* A call whose answer the page waits for.
Heard(i) == InFlight(i) /\ puts[i].heard

\* The page waits for one call at a time, under its flag, and for every one
\* that changes something.
OneHeard == /\ \A i \in SettingSlot : Saving(i) => Heard(i)
            /\ \A i \in SettingSlot : Heard(i) => FlagOf(puts[i].op) \in sbusy
            /\ \A i, j \in SettingSlot : Heard(i) /\ Heard(j) => i = j

\* An answer that is on its way says what is stored.
AnswersHold == \A i \in SettingSlot : Heard(i) /\ puts[i].at = "answered" =>
    /\ puts[i].token = token.memory
    /\ puts[i].op \notin TokenOps => puts[i].file = file /\ puts[i].ai = ai

\* The token differs between the table and the memory only between the two
\* writes of a call, which is going to write what it has put into the table.
TokenBegun(i) == Heard(i) /\ puts[i].op \in TokenOps /\ puts[i].at = "begun"
TokenSettles ==
    /\ token.table = token.memory \/ \E i \in SettingSlot : TokenBegun(i)
    /\ \A i \in SettingSlot : TokenBegun(i) => puts[i].token = token.table

\* What is shown is what is stored, unless an answer that fills it is due.
RestShown == (\A i \in SettingSlot : Heard(i) => puts[i].op \in TokenOps) =>
    /\ ~typed => form.redis = file.redis /\ form.http = file.http /\ form.on = ai.on
    /\ form.keySet <=> ai.key # ""
TokenShown == (\A i \in SettingSlot : ~Heard(i)) => form.token = token.memory

SettledInv == ~crossed => /\ OneHeard /\ AnswersHold /\ TokenSettles
                          /\ RestShown /\ TokenShown

\* A step at one slot leaves the calls at the others as they are.
LEMMA ElsewhereSame ==
    ASSUME PutsOK, NEW i \in SettingSlot, NEW c, puts' = [puts EXCEPT ![i] = c]
    PROVE  /\ puts'[i] = c
           /\ Heard(i)' <=> c.op \in SettingOps /\ c.heard
           /\ \A j \in SettingSlot \ {i} : /\ puts'[j] = puts[j]
                                           /\ Heard(j)' <=> Heard(j)
                                           /\ Saving(j)' <=> Saving(j)
                                           /\ TokenBegun(j)' <=> TokenBegun(j)
<1>1. puts'[i] = c /\ \A j \in SettingSlot \ {i} : puts'[j] = puts[j]
  BY DEF PutsOK
<1> QED
  BY <1>1 DEF Heard, Saving, InFlight, TokenBegun

\* Calls that the page has given up only load something here, and what becomes
\* of them is of no account.
LEMMA UnheardPut ==
    ASSUME PutsOK, ~crossed, SettledInv, UNCHANGED <<file, ai, token, form, typed, sbusy>>,
           NEW i \in SettingSlot, ~Heard(i), NEW c, puts' = [puts EXCEPT ![i] = c],
           c.op \in SettingOps => c.op = "load" /\ ~c.heard
    PROVE  SettledInv'
<1>1. ~Heard(i)' /\ ~Saving(i)'
  BY ElsewhereSame DEF Saving, InFlight
<1>2. ~Saving(i)
  BY DEF SettledInv, OneHeard
<1>3. \A j \in SettingSlot : /\ Heard(j)' <=> Heard(j)
                             /\ Saving(j)' <=> Saving(j)
                             /\ TokenBegun(j)' <=> TokenBegun(j)
                             /\ Heard(j) => puts'[j] = puts[j]
  BY <1>1, <1>2, ElsewhereSame DEF TokenBegun
<1>4. OneHeard'
  BY <1>3 DEF SettledInv, OneHeard
<1>5. AnswersHold'
  BY <1>3 DEF SettledInv, AnswersHold
<1>6. TokenSettles'
  BY <1>3 DEF SettledInv, TokenSettles, TokenBegun
<1>7. RestShown' /\ TokenShown'
  BY <1>3 DEF SettledInv, RestShown, TokenShown
<1> QED
  BY <1>4, <1>5, <1>6, <1>7 DEF SettledInv

\* The invariant holds at the start.
LEMMA SettledInit == SettingsInit => SettledInv
<1> SUFFICES ASSUME SettingsInit PROVE SettledInv
  OBVIOUS
<1>1. NoPut.op \notin SettingOps
  BY DEF NoPut, SettingOps
<1>2. \A i \in SettingSlot : ~InFlight(i)
  BY <1>1 DEF SettingsInit, InFlight
<1>3. \A i \in SettingSlot : ~Heard(i) /\ ~Saving(i) /\ ~TokenBegun(i)
  BY <1>2 DEF Heard, Saving, TokenBegun
<1>4. OneHeard /\ AnswersHold
  BY <1>3 DEF OneHeard, AnswersHold
<1>5. TokenSettles
  BY <1>3 DEF TokenSettles, SettingsInit
<1>6. RestShown /\ TokenShown
  BY DEF RestShown, TokenShown, SettingsInit, EmptyForm, NoFile, NoAi
<1> QED
  BY <1>4, <1>5, <1>6 DEF SettledInv

\* A button waits for every call that the page waits for, or its call crosses
\* with it.
LEMMA NoneHeard ==
    ASSUME ~crossed, ~crossed', SettledInv, crossed \in BOOLEAN,
           NEW c, Pressed(c), Press(c, {"loading"})
    PROVE  \A j \in SettingSlot : ~Heard(j)
<1> SUFFICES ASSUME NEW j \in SettingSlot, Heard(j) PROVE FALSE
  OBVIOUS
<1>1. InFlight(j) /\ FlagOf(puts[j].op) \in sbusy
  BY DEF SettledInv, OneHeard, Heard
<1>2. FlagOf(c.op) \notin sbusy /\ "loading" \notin sbusy
  BY DEF Press
<1>3. c.op \notin TokenOps /\ puts[j].op \notin TokenOps
  BY <1>1 DEF Press, SendPut, Crosses
<1>4. c.op \in SettingOps /\ c.op # "load"
  BY DEF Pressed, SettingCall
<1>5. puts[j].op # "load"
  BY <1>1, <1>2 DEF FlagOf
<1>6. FlagOf(c.op) = "saving" /\ FlagOf(puts[j].op) = "saving"
  BY <1>3, <1>4, <1>5 DEF FlagOf, TokenOps
<1> QED
  BY <1>1, <1>2, <1>6

\* Every step keeps the invariant.
LEMMA SettledStep == SettingsTypeOK /\ SettledInv /\ [SettingsNext]_settingsVars => SettledInv'
<1> SUFFICES ASSUME SettingsTypeOK, SettledInv, [SettingsNext]_settingsVars, ~crossed'
             PROVE  SettledInv'
  BY DEF SettledInv
<1>0. PutsOK /\ form \in Form /\ crossed \in BOOLEAN
  BY DEF SettingsTypeOK, PutsOK
<1>o. PutOver.op \notin SettingOps
  BY DEF PutOver, SettingOps
<1>c. ASSUME crossed' = crossed PROVE ~crossed
  BY <1>c
<1>1. CASE Reopen
  <2>1. ~crossed /\ \A j \in SettingSlot : ~Saving(j)
    BY <1>0, <1>1 DEF Reopen, Saving
  <2>2. PICK n \in SettingSlot : puts' = [i \in SettingSlot |->
                IF i = n THEN NewPut("load")
                ELSE IF InFlight(i) THEN [puts[i] EXCEPT !.heard = FALSE] ELSE puts[i]]
    BY <1>1 DEF Reopen
  <2>3. puts'[n].op = "load" /\ puts'[n].at = "sent" /\ puts'[n].heard
    BY <2>2 DEF NewPut
  <2>4. ASSUME NEW j \in SettingSlot, j # n PROVE ~Heard(j)' /\ ~Saving(j)'
    <3>1. CASE InFlight(j)
      <4>1. puts[j] \in SettingCall /\ puts'[j] = [puts[j] EXCEPT !.heard = FALSE]
        BY <1>0, <2>2, <2>4, <3>1, PutUnderWay
      <4>2. ~puts'[j].heard /\ puts'[j].op = puts[j].op
        BY <4>1 DEF SettingCall
      <4> QED
        BY <2>1, <3>1, <4>2 DEF Heard, Saving
    <3>2. CASE ~InFlight(j)
      BY <2>2, <2>4, <3>2 DEF Heard, Saving, InFlight
    <3> QED
      BY <3>1, <3>2
  <2>5. Heard(n)' /\ ~Saving(n)'
    BY <2>3 DEF Heard, Saving, InFlight, SettingOps
  <2>6. \A j \in SettingSlot : ~TokenBegun(j) /\ ~TokenBegun(j)'
    BY <2>1, <2>3, <2>4 DEF TokenBegun, Heard, Saving, TokenOps
  <2>7. OneHeard'
    BY <1>1, <2>3, <2>4, <2>5 DEF OneHeard, Reopen, FlagOf
  <2>8. AnswersHold'
    BY <2>3, <2>4 DEF AnswersHold
  <2>9. TokenSettles'
    BY <1>1, <2>1, <2>6 DEF SettledInv, TokenSettles, Reopen
  <2>10. RestShown' /\ TokenShown'
    BY <2>3, <2>5 DEF RestShown, TokenShown, TokenOps
  <2> QED
    BY <2>7, <2>8, <2>9, <2>10 DEF SettledInv
<1>2. CASE SaveRedis \/ SaveHTTPSecurity \/ SaveAI \/ SaveEnqueueToken \/ RegenerateToken
  <2>1. PICK c : Pressed(c) /\ Press(c, {"loading"})
    BY <1>0, <1>2, PressedOK
  <2>2. PICK i \in SettingSlot : puts[i] = NoPut /\ puts' = [puts EXCEPT ![i] = c]
    BY <2>1 DEF Press, SendPut, First, Unsent
  <2>3. ~crossed
    BY <1>0, <2>1 DEF Press, SendPut
  <2>4. \A j \in SettingSlot : ~Heard(j)
    BY <1>0, <2>1, <2>3, NoneHeard
  <2>5. /\ puts'[i] = c /\ Heard(i)' /\ c.at = "sent"
        /\ \A j \in SettingSlot \ {i} : ~Heard(j)' /\ ~Saving(j)'
    <3>1. c.op \in SettingOps /\ c.heard /\ c.at = "sent"
      BY <2>1 DEF Pressed, SettingCall
    <3>2. \A j \in SettingSlot : ~Saving(j)
      BY <2>3, <2>4 DEF SettledInv, OneHeard
    <3> QED
      BY <1>0, <2>2, <2>4, <3>1, <3>2, ElsewhereSame
  <2>6. \A j \in SettingSlot : ~TokenBegun(j) /\ ~TokenBegun(j)'
    BY <2>4, <2>5 DEF TokenBegun
  <2>7. /\ sbusy' = sbusy \cup {FlagOf(c.op)}
        /\ UNCHANGED <<file, ai, token, form, typed>>
    BY <2>1 DEF Press
  <2>8. OneHeard'
    BY <2>5, <2>7 DEF OneHeard
  <2>9. AnswersHold'
    BY <2>5 DEF AnswersHold
  <2>10. TokenSettles'
    BY <2>3, <2>6, <2>7 DEF SettledInv, TokenSettles
  <2>11. RestShown' /\ TokenShown'
    BY <2>3, <2>4, <2>5, <2>7 DEF SettledInv, RestShown, TokenShown
  <2> QED
    BY <2>8, <2>9, <2>10, <2>11 DEF SettledInv
<1>3. ASSUME NEW f \in SettingFields, Edit(f) PROVE SettledInv'
  <2>1. /\ UNCHANGED <<file, ai, token, sbusy, puts, crossed>> /\ typed' = TRUE /\ ~crossed
    BY <1>3 DEF Edit
  <2>2. form'.keySet = form.keySet /\ form'.token = form.token
    BY <1>0, <1>3 DEF Edit, Form
  <2>3. OneHeard' /\ AnswersHold' /\ TokenSettles'
    BY <2>1 DEF SettledInv, OneHeard, AnswersHold, TokenSettles, TokenBegun, Heard, Saving, InFlight
  <2>4. RestShown' /\ TokenShown'
    BY <2>1, <2>2 DEF SettledInv, RestShown, TokenShown, Heard, InFlight
  <2> QED
    BY <2>3, <2>4 DEF SettledInv
<1>4. ASSUME NEW i \in SettingSlot, BeginSettings(i) PROVE SettledInv'
  <2>0. /\ puts[i] \in SettingCall /\ InFlight(i) /\ UNCHANGED <<file, ai, form, typed, sbusy>>
        /\ ~crossed /\ puts[i].at = "sent"
    BY <1>0, <1>4, PutUnderWay DEF BeginSettings
  <2>1. PICK t : /\ puts' = [puts EXCEPT ![i].at = "begun", ![i].token = t,
                                         ![i].file = Prepared(puts[i])]
                 /\ token' = IF puts[i].op \in TokenOps THEN [token EXCEPT !.table = t] ELSE token
    BY <1>4 DEF BeginSettings
  <2> DEFINE c == [puts[i] EXCEPT !.at = "begun", !.token = t, !.file = Prepared(puts[i])]
  <2>2. puts' = [puts EXCEPT ![i] = c]
    BY <1>0, <2>0, <2>1 DEF PutsOK, SettingCall
  <2>3. c.op = puts[i].op /\ c.at = "begun" /\ c.token = t /\ c.heard = puts[i].heard
    BY <2>0 DEF SettingCall
  <2> HIDE DEF c
  <2>4. CASE Heard(i)
    <3>1. \A j \in SettingSlot \ {i} : ~Heard(j) /\ ~TokenBegun(j) /\ ~Saving(j)
      BY <2>0, <2>4 DEF SettledInv, OneHeard, TokenBegun
    <3>2. /\ puts'[i] = c /\ Heard(i)' /\ FlagOf(puts[i].op) \in sbusy
          /\ \A j \in SettingSlot \ {i} : ~Heard(j)' /\ ~Saving(j)' /\ ~TokenBegun(j)'
      <4>1. /\ puts'[i] = c
            /\ Heard(i)' <=> c.op \in SettingOps /\ c.heard
            /\ \A j \in SettingSlot \ {i} : /\ Heard(j)' <=> Heard(j)
                                            /\ Saving(j)' <=> Saving(j)
                                            /\ TokenBegun(j)' <=> TokenBegun(j)
        BY <1>0, <2>2, ElsewhereSame
      <4>2. c.op \in SettingOps /\ c.heard
        BY <2>0, <2>3, <2>4 DEF Heard, InFlight
      <4>3. FlagOf(puts[i].op) \in sbusy
        BY <2>0, <2>4 DEF SettledInv, OneHeard
      <4> QED
        BY <3>1, <4>1, <4>2, <4>3
    <3>3. OneHeard'
      BY <2>0, <2>3, <3>2 DEF OneHeard
    <3>4. AnswersHold'
      BY <2>3, <3>2 DEF AnswersHold
    <3>5. RestShown' /\ TokenShown'
      BY <2>0, <2>3, <2>4, <3>1, <3>2 DEF SettledInv, RestShown, TokenShown
    <3>6. TokenSettles'
      <4>1. CASE puts[i].op \in TokenOps
        <5>1. TokenBegun(i)' /\ token'.table = t
          BY <2>1, <2>3, <3>2, <4>1 DEF TokenBegun, SettingsTypeOK
        <5> QED
          BY <2>3, <3>2, <5>1 DEF TokenSettles
      <4>2. CASE puts[i].op \notin TokenOps
        <5>1. ~TokenBegun(i) /\ ~TokenBegun(i)' /\ token' = token
          BY <2>1, <2>3, <3>2, <4>2 DEF TokenBegun
        <5> QED
          BY <2>0, <3>1, <3>2, <5>1 DEF SettledInv, TokenSettles
      <4> QED
        BY <4>1, <4>2
    <3> QED
      BY <3>3, <3>4, <3>5, <3>6 DEF SettledInv
  <2>5. CASE ~Heard(i)
    <3>1. puts[i].op = "load" /\ ~puts[i].heard
      BY <2>0, <2>5 DEF SettledInv, OneHeard, Heard, Saving
    <3>2. token' = token
      BY <2>1, <3>1 DEF TokenOps
    <3> QED
      BY <1>0, <2>0, <2>2, <2>3, <2>5, <3>1, <3>2, UnheardPut
  <2> QED
    BY <2>4, <2>5
<1>5. ASSUME NEW i \in SettingSlot, FinishSettings(i) PROVE SettledInv'
  <2>0. /\ puts[i] \in SettingCall /\ InFlight(i) /\ UNCHANGED <<form, typed, sbusy>>
        /\ ~crossed /\ puts[i].at = "begun"
    BY <1>0, <1>5, PutUnderWay DEF FinishSettings
  <2>1. /\ file' = IF puts[i].op \in FileOps THEN puts[i].file ELSE file
        /\ ai' = NewAi(puts[i])
        /\ token' = IF puts[i].op \in TokenOps THEN [token EXCEPT !.memory = puts[i].token]
                    ELSE token
    BY <1>5 DEF FinishSettings
  <2> DEFINE c == [puts[i] EXCEPT !.at = "answered", !.file = file', !.ai = ai',
                                  !.token = token'.memory]
  <2>2. puts' = [puts EXCEPT ![i] = c]
    BY <1>5 DEF FinishSettings
  <2>3. /\ c.op = puts[i].op /\ c.at = "answered" /\ c.heard = puts[i].heard
        /\ c.file = file' /\ c.ai = ai' /\ c.token = token'.memory
    BY <2>0 DEF SettingCall
  <2> HIDE DEF c
  <2>4. CASE Heard(i)
    <3>1. \A j \in SettingSlot \ {i} : ~Heard(j) /\ ~TokenBegun(j) /\ ~Saving(j)
      BY <2>0, <2>4 DEF SettledInv, OneHeard, TokenBegun
    <3>2. /\ puts'[i] = c /\ Heard(i)' /\ FlagOf(puts[i].op) \in sbusy
          /\ \A j \in SettingSlot \ {i} : ~Heard(j)' /\ ~Saving(j)' /\ ~TokenBegun(j)'
      <4>1. /\ puts'[i] = c
            /\ Heard(i)' <=> c.op \in SettingOps /\ c.heard
            /\ \A j \in SettingSlot \ {i} : /\ Heard(j)' <=> Heard(j)
                                            /\ Saving(j)' <=> Saving(j)
                                            /\ TokenBegun(j)' <=> TokenBegun(j)
        BY <1>0, <2>2, ElsewhereSame
      <4>2. c.op \in SettingOps /\ c.heard
        BY <2>0, <2>3, <2>4 DEF Heard, InFlight
      <4>3. FlagOf(puts[i].op) \in sbusy
        BY <2>0, <2>4 DEF SettledInv, OneHeard
      <4> QED
        BY <3>1, <4>1, <4>2, <4>3
    <3>3. OneHeard'
      BY <2>0, <2>3, <3>2 DEF OneHeard
    <3>4. AnswersHold'
      BY <2>3, <3>2 DEF AnswersHold
    <3>5. RestShown' /\ TokenShown'
      <4>1. CASE puts[i].op \in TokenOps
        <5>1. file' = file /\ ai' = ai
          BY <2>1, <4>1 DEF FileOps, TokenOps, NewAi
        <5> QED
          BY <2>0, <2>4, <3>1, <3>2, <4>1, <5>1 DEF SettledInv, RestShown, TokenShown
      <4>2. CASE puts[i].op \notin TokenOps
        BY <2>3, <3>2, <4>2 DEF RestShown, TokenShown
      <4> QED
        BY <4>1, <4>2
    <3>6. TokenSettles'
      <4>0. ~TokenBegun(i)'
        BY <2>3, <3>2 DEF TokenBegun
      <4>1. token'.table = token'.memory
        <5>1. CASE puts[i].op \in TokenOps
          <6>1. puts[i].token = token.table
            BY <2>0, <2>4, <5>1 DEF SettledInv, TokenSettles, TokenBegun
          <6> QED
            BY <2>1, <5>1, <6>1 DEF SettingsTypeOK
        <5>2. CASE puts[i].op \notin TokenOps
          <6>1. ~TokenBegun(i)
            BY <5>2 DEF TokenBegun
          <6> QED
            BY <2>0, <2>1, <3>1, <5>2, <6>1 DEF SettledInv, TokenSettles
        <5> QED
          BY <5>1, <5>2
      <4> QED
        BY <3>2, <4>0, <4>1 DEF TokenSettles
    <3> QED
      BY <3>3, <3>4, <3>5, <3>6 DEF SettledInv
  <2>5. CASE ~Heard(i)
    <3>1. puts[i].op = "load" /\ ~puts[i].heard
      BY <2>0, <2>5 DEF SettledInv, OneHeard, Heard, Saving
    <3>2. token' = token /\ file' = file /\ ai' = ai
      BY <2>1, <3>1 DEF TokenOps, FileOps, NewAi
    <3> QED
      BY <1>0, <2>0, <2>2, <2>3, <2>5, <3>1, <3>2, UnheardPut
  <2> QED
    BY <2>4, <2>5
<1>6. ASSUME NEW i \in SettingSlot, AnswerSettings(i) PROVE SettledInv'
  <2>0. /\ puts[i] \in SettingCall /\ Heard(i) /\ UNCHANGED <<file, ai, token>>
        /\ ~crossed /\ puts[i].at = "answered" /\ puts' = [puts EXCEPT ![i] = PutOver]
        /\ form' = Filled(puts[i]) /\ typed' = (typed /\ puts[i].op \in TokenOps)
    BY <1>0, <1>6, PutUnderWay DEF AnswerSettings, Heard
  <2>1. \A j \in SettingSlot \ {i} : ~Heard(j) /\ ~TokenBegun(j) /\ ~Saving(j)
    BY <2>0 DEF SettledInv, OneHeard, TokenBegun
  <2>2. \A j \in SettingSlot : ~Heard(j)' /\ ~Saving(j)' /\ ~TokenBegun(j)'
    BY <1>0, <1>o, <2>0, <2>1, ElsewhereSame DEF Saving, InFlight, TokenBegun
  <2>3. OneHeard' /\ AnswersHold'
    BY <2>2 DEF OneHeard, AnswersHold
  <2>4. TokenSettles'
    <3>1. ~TokenBegun(i)
      BY <2>0 DEF TokenBegun
    <3> QED
      BY <2>0, <2>1, <2>2, <3>1 DEF SettledInv, TokenSettles
  <2>5. puts[i].token = token.memory
    BY <2>0 DEF SettledInv, AnswersHold
  <2>6. RestShown' /\ TokenShown'
    <3>1. CASE puts[i].op \in TokenOps
      <4>1. /\ form'.token = token.memory /\ form'.redis = form.redis /\ form'.http = form.http
            /\ form'.on = form.on /\ form'.keySet = form.keySet /\ typed' = typed
        BY <1>0, <2>0, <2>5, <3>1 DEF Filled, Form, SettingsTypeOK
      <4>2. /\ ~typed => form.redis = file.redis /\ form.http = file.http /\ form.on = ai.on
            /\ form.keySet <=> ai.key # ""
        BY <2>0, <2>1, <3>1 DEF SettledInv, RestShown
      <4>3. file' = file /\ ai' = ai /\ token' = token
        BY <2>0
      <4>4. TokenShown'
        BY <4>1, <4>3 DEF TokenShown
      <4>5. /\ ~typed' => form'.redis = file'.redis /\ form'.http = file'.http /\ form'.on = ai'.on
            /\ form'.keySet <=> ai'.key # ""
        BY <4>1, <4>2, <4>3
      <4> QED
        BY <4>4, <4>5 DEF RestShown
    <3>2. CASE puts[i].op \notin TokenOps
      <4>1. puts[i].file = file /\ puts[i].ai = ai
        BY <2>0, <3>2 DEF SettledInv, AnswersHold
      <4> QED
        BY <2>0, <2>5, <3>2, <4>1 DEF Filled, RestShown, TokenShown
    <3> QED
      BY <3>1, <3>2
  <2> QED
    BY <2>3, <2>4, <2>6 DEF SettledInv
<1>7. ASSUME NEW i \in SettingSlot, FailSettings(i) PROVE SettledInv'
  BY <1>7 DEF FailSettings
<1>8. ASSUME NEW i \in SettingSlot, ForgetSettings(i) PROVE SettledInv'
  <2>1. ~Heard(i) /\ puts' = [puts EXCEPT ![i] = PutOver]
    BY <1>8 DEF ForgetSettings, Heard
  <2>2. UNCHANGED <<file, ai, token, form, typed, sbusy>> /\ ~crossed
    BY <1>8 DEF ForgetSettings
  <2> QED
    BY <1>0, <1>o, <2>1, <2>2, UnheardPut
<1>9. CASE UNCHANGED settingsVars
  <2>1. UNCHANGED <<file, ai, token, form, typed, sbusy, puts, crossed>>
    BY <1>9 DEF settingsVars
  <2> QED
    BY <2>1 DEF SettledInv, OneHeard, AnswersHold, TokenSettles, RestShown, TokenShown,
       TokenBegun, Heard, Saving, InFlight
<1> QED
  BY <1>1, <1>2, <1>3, <1>4, <1>5, <1>6, <1>7, <1>8, <1>9 DEF SettingsNext

\* At rest the fields show what is stored, and the token is the same
\* everywhere, as long as no call failed or crossed with one about the token.
THEOREM FieldsShowStored == SettingsSpec => []SettingsShown
<1>1. SettingsInit => SettingsTypeOK /\ SettledInv
  BY SettingsTypeInit, SettledInit
<1>2. SettingsTypeOK /\ SettledInv /\ [SettingsNext]_settingsVars => (SettingsTypeOK /\ SettledInv)'
  BY SettingsTypeStep, SettledStep
<1>3. SettledInv => SettingsShown
  <2> SUFFICES ASSUME SettledInv, sbusy = {}, ~crossed PROVE SettingsShown
    BY DEF SettingsShown
  <2>1. \A i \in SettingSlot : ~Heard(i)
    BY DEF SettledInv, OneHeard
  <2>2. token.table = token.memory
    BY <2>1 DEF SettledInv, TokenSettles, TokenBegun
  <2> QED
    BY <2>1, <2>2 DEF SettledInv, RestShown, TokenShown, SettingsShown
<1> QED
  BY <1>1, <1>2, <1>3, PTL DEF SettingsSpec

-----------------------------------------------------------------------------
(* AccountForms: types.  The codes are numbered without a gap, so that a new one never   *)
(* takes the place of an old one.                                          *)

Numbered == \E k \in 0..MaxCodes : DOMAIN codes = 1..k

AccountTyped == AccountTypeOK /\ Numbered

WiresOK == wires \in [Wires -> Wire \cup {Free, Ended1}]
AFlags == {"showdocSending", "pwdSaving", "sending", "resetting"}

\* A call that is under way is a call.
LEMMA WireUp ==
    ASSUME WiresOK, NEW i \in Wires, Up(i)
    PROVE  wires[i] \in Wire
<1>1. Free.op \notin AccountOps /\ Ended1.op \notin AccountOps
  BY DEF Free, Ended1, AccountOps, SendOps, UseOps
<1>2. wires[i] \in Wire \cup {Free, Ended1} /\ wires[i].op \in AccountOps
  BY DEF WiresOK, Up
<1> QED
  BY <1>1, <1>2

\* What a button sends.
Sends(c) == /\ c \in Wire /\ c.at = "sent"
            /\ c.op = "enable" => c.key # Nothing /\ c.typed \in app \cup {Nothing}
            /\ c.op = "bind" => c.user = Me /\ c.url # Nothing

Buttons == \/ SendShowdocCode \/ BindShowdoc \/ UnbindShowdoc
           \/ SendTotpCode \/ StartTotpSetup \/ EnableTotp \/ DisableTotp
           \/ ChangePassword \/ SendResetCode \/ ResetPassword

\* Every button of the pages sends a call that keeps to its type, and raises its flags.
LEMMA ButtonAsks ==
    ASSUME AccountTypeOK, Buttons
    PROVE  \E c : Sends(c) /\ \E flags \in SUBSET AFlags : Submit(c, flags)
<1>0. /\ page \in Page /\ app \subseteq TotpKeys /\ DOMAIN codes \subseteq 1..MaxCodes
      /\ 0..MaxCodes = 1..MaxCodes \cup {0} /\ Me \in Users
  BY AccountAssumption DEF AccountTypeOK, CodeNames
<1>o. {"send bind", "bind", "unbind", "send totp", "setup", "enable", "disable", "password",
       "send reset", "reset"} \subseteq AccountOps
  BY DEF AccountOps, SendOps, UseOps
<1>1. CASE SendShowdocCode
  <2>1. PICK u \in Urls : Submit([AWire("send bind", Me) EXCEPT !.url = u], {"showdocSending"})
    BY <1>1 DEF SendShowdocCode
  <2> DEFINE c == [AWire("send bind", Me) EXCEPT !.url = u]
  <2>2. Sends(c)
    BY <1>0, <1>o DEF AWire, Sends, Wire
  <2>3. {"showdocSending"} \in SUBSET AFlags
    BY DEF AFlags
  <2> QED
    BY <2>1, <2>2, <2>3
<1>2. CASE BindShowdoc
  <2>1. PICK u \in Urls, n \in Received :
          Submit([AWire("bind", Me) EXCEPT !.url = u, !.code = n, !.token = page.bindToken], {})
    BY <1>2 DEF BindShowdoc
  <2> DEFINE c == [AWire("bind", Me) EXCEPT !.url = u, !.code = n, !.token = page.bindToken]
  <2>2. Sends(c)
    BY <1>0, <1>o, AccountAssumption DEF AWire, Sends, Wire, Page, Received, Nothing
  <2> QED
    BY <2>1, <2>2
<1>3. CASE EnableTotp
  <2>1. PICK n \in Received, k \in app \cup {Nothing} :
          /\ page.secret # Nothing
          /\ Submit([AWire("enable", Me) EXCEPT !.key = page.secret, !.typed = k, !.code = n,
                                                !.token = page.totpToken], {})
    BY <1>3 DEF EnableTotp
  <2> DEFINE c == [AWire("enable", Me) EXCEPT !.key = page.secret, !.typed = k, !.code = n,
                                              !.token = page.totpToken]
  <2>2. Sends(c)
    BY <1>0, <1>o, <2>1 DEF AWire, Sends, Wire, Page, Received
  <2> QED
    BY <2>1, <2>2
<1>4. CASE DisableTotp
  <2>1. PICK k \in app \cup {Nothing} : Submit([AWire("disable", Me) EXCEPT !.typed = k], {})
    BY <1>4 DEF DisableTotp
  <2> DEFINE c == [AWire("disable", Me) EXCEPT !.typed = k]
  <2>2. Sends(c)
    BY <1>0, <1>o DEF AWire, Sends, Wire
  <2> QED
    BY <2>1, <2>2
<1>5. CASE ChangePassword
  <2>1. PICK k \in app \cup {Nothing} :
          Submit([AWire("password", Me) EXCEPT !.typed = k], {"pwdSaving"})
    BY <1>5 DEF ChangePassword
  <2> DEFINE c == [AWire("password", Me) EXCEPT !.typed = k]
  <2>2. Sends(c)
    BY <1>0, <1>o DEF AWire, Sends, Wire
  <2>3. {"pwdSaving"} \in SUBSET AFlags
    BY DEF AFlags
  <2> QED
    BY <2>1, <2>2, <2>3
<1>6. CASE SendResetCode
  <2>1. PICK u \in Users : Submit(AWire("send reset", u), {"sending"})
    BY <1>6 DEF SendResetCode
  <2>2. Sends(AWire("send reset", u))
    BY <1>0, <1>o DEF AWire, Sends, Wire
  <2>3. {"sending"} \in SUBSET AFlags
    BY DEF AFlags
  <2> QED
    BY <2>1, <2>2, <2>3
<1>7. CASE ResetPassword
  <2>1. PICK u \in Users, n \in Received :
          Submit([AWire("reset", u) EXCEPT !.code = n, !.token = page.resetToken], {"resetting"})
    BY <1>7 DEF ResetPassword
  <2> DEFINE c == [AWire("reset", u) EXCEPT !.code = n, !.token = page.resetToken]
  <2>2. Sends(c)
    BY <1>0, <1>o DEF AWire, Sends, Wire, Page, Received
  <2>3. {"resetting"} \in SUBSET AFlags
    BY DEF AFlags
  <2> QED
    BY <2>1, <2>2, <2>3
<1>8. CASE UnbindShowdoc \/ SendTotpCode \/ StartTotpSetup
  <2>1. PICK op \in {"unbind", "send totp", "setup"} : Submit(AWire(op, Me), {})
    BY <1>8 DEF UnbindShowdoc, SendTotpCode, StartTotpSetup
  <2>2. Sends(AWire(op, Me))
    BY <1>0, <1>o DEF AWire, Sends, Wire
  <2> QED
    BY <2>1, <2>2
<1> QED
  BY <1>1, <1>2, <1>3, <1>4, <1>5, <1>6, <1>7, <1>8 DEF Buttons

\* The types hold at the start.
LEMMA AccountTypedInit == AccountInit => AccountTyped
<1> SUFFICES ASSUME AccountInit PROVE AccountTyped
  OBVIOUS
<1>1. PICK a \in {Nothing, CHOOSE a \in Urls : TRUE}, asked \in BOOLEAN :
        /\ asked => a # Nothing
        /\ bound = [u \in Users |-> a]
        /\ codes = [n \in IF asked THEN {1} ELSE {} |->
              [purpose |-> "totp_enable", user |-> Me, extra |-> Nothing, to |-> a]]
  BY DEF AccountInit
<1>2. a \in Urls \cup {Nothing} /\ (asked => a \in Urls)
  BY <1>1, AccountAssumption
<1>3. DOMAIN codes = IF asked THEN 1..1 ELSE 1..0
  BY <1>1
<1>4. Numbered /\ DOMAIN codes \subseteq CodeNames
  <2>1. PICK k \in {0, 1} : DOMAIN codes = 1..k
    BY <1>3
  <2>2. k \in 0..MaxCodes /\ 1..k \subseteq CodeNames
    BY AccountAssumption DEF CodeNames
  <2> QED
    BY <2>1, <2>2 DEF Numbered
<1>5. \A n \in DOMAIN codes : codes[n] \in CodeInfo
  BY <1>1, <1>2, AccountAssumption DEF CodeInfo
<1>6. Cardinality(live) \in 0..MaxCodes
  <2>1. live = IF asked THEN {1} ELSE {}
    BY <1>1 DEF AccountInit
  <2>2. Cardinality({1}) = 1 /\ Cardinality({}) = 0
    BY FS_Singleton, FS_EmptySet
  <2> QED
    BY <2>1, <2>2, AccountAssumption
<1>7. page \in Page
  BY <1>6, AccountAssumption DEF AccountInit, Page
<1>8. bound \in [Users -> Urls \cup {Nothing}] /\ totp \in [Users -> TotpKeys \cup {Nothing}]
  BY <1>1, <1>2 DEF AccountInit
<1>9. /\ password \in [Users -> 0..1] /\ live \subseteq DOMAIN codes /\ app \subseteq TotpKeys
      /\ abusy \subseteq {"showdocSending", "pwdSaving", "sending", "resetting"}
      /\ wires \in [Wires -> Wire \cup {Free, Ended1}]
  BY DEF AccountInit
<1> QED
  BY <1>4, <1>5, <1>7, <1>8, <1>9 DEF AccountTyped, AccountTypeOK

\* A new code gets a number of its own.
LEMMA NextCode ==
    ASSUME Numbered
    PROVE  LET n == Cardinality(DOMAIN codes) + 1 IN
           n \notin DOMAIN codes /\ DOMAIN codes \cup {n} = 1..n /\ n \in Nat
<1>1. PICK k \in 0..MaxCodes : DOMAIN codes = 1..k
  BY DEF Numbered
<1>2. k \in Nat
  BY AccountAssumption
<1>3. Cardinality(1..k) = k
  <2>1. Cardinality(1..k) = IF 1 > k THEN 0 ELSE k - 1 + 1
    BY <1>2, FS_Interval
  <2> QED
    BY <1>2, <2>1
<1>4. k + 1 \notin 1..k /\ 1..k \cup {k + 1} = 1..(k + 1) /\ k + 1 \in Nat
  BY <1>2
<1> QED
  BY <1>1, <1>3, <1>4

\* The code that is issued, in SendCode.
Issued(c) == [purpose |-> Purpose(c.op), user |-> c.user, extra |-> c.url, to |-> Target(c)]

\* Sending a code ends the call, and issues a code under the next number or none.
LEMMA SendCodeDoes ==
    ASSUME AccountTyped, NEW i \in Wires, SendCode(i)
    PROVE  /\ wires[i] \in Wire /\ wires[i].op \in SendOps /\ wires[i].at = "sent"
           /\ UNCHANGED <<bound, totp, password, app, page, abusy>>
           /\ \/ /\ wires' = [wires EXCEPT ![i].at = "done"]
                 /\ UNCHANGED <<codes, live>>
              \/ \E n \in CodeNames : /\ n \notin DOMAIN codes /\ DOMAIN codes \cup {n} = 1..n
                               /\ Issued(wires[i]) \in CodeInfo
                               /\ codes' = [m \in DOMAIN codes \cup {n} |->
                                     IF m = n THEN Issued(wires[i]) ELSE codes[m]]
                               /\ live' = live \cup {n}
                               /\ wires' = [wires EXCEPT ![i].at = "done", ![i].token = n]
<1> DEFINE c == wires[i]
           n == Cardinality(DOMAIN codes) + 1
<1>1. c \in Wire /\ c.op \in SendOps
  BY WireUp DEF SendCode, AccountTyped, AccountTypeOK, WiresOK
<1>2. Target(c) \in Urls \cup {Nothing}
  BY <1>1 DEF Target, Wire, AccountTyped, AccountTypeOK
<1>3. Purpose(c.op) \in {"showdoc_bind", "totp_enable", "password_reset"}
  BY DEF Purpose
<1>4. Target(c) # Nothing => Issued(c) \in CodeInfo
  BY <1>1, <1>2, <1>3 DEF Issued, CodeInfo, Wire
<1>5. CASE Target(c) = Nothing
  BY <1>1, <1>5 DEF SendCode
<1>6. CASE Target(c) # Nothing
  <2>1. n \notin DOMAIN codes /\ DOMAIN codes \cup {n} = 1..n
    BY NextCode DEF AccountTyped
  <2>2. /\ n \in CodeNames /\ live' = live \cup {n}
        /\ codes' = [m \in DOMAIN codes \cup {n} |-> IF m = n THEN Issued(c) ELSE codes[m]]
        /\ wires' = [wires EXCEPT ![i].at = "done", ![i].token = n]
    BY <1>6 DEF SendCode, Issued
  <2> HIDE DEF n
  <2> QED
    BY <1>1, <1>4, <1>6, <2>1, <2>2 DEF SendCode
<1> QED
  BY <1>5, <1>6

\* Every step keeps the types.
LEMMA AccountTypedStep == AccountTyped /\ [AccountNext]_accountVars => AccountTyped'
<1> SUFFICES ASSUME AccountTyped, [AccountNext]_accountVars PROVE AccountTyped'
  OBVIOUS
<1>0. /\ bound \in [Users -> Urls \cup {Nothing}] /\ totp \in [Users -> TotpKeys \cup {Nothing}]
      /\ password \in [Users -> 0..1] /\ app \subseteq TotpKeys /\ page \in Page
      /\ abusy \subseteq AFlags /\ WiresOK
  BY DEF AccountTyped, AccountTypeOK, WiresOK, AFlags
<1>d. /\ DOMAIN codes \subseteq CodeNames /\ (\A n \in DOMAIN codes : codes[n] \in CodeInfo)
      /\ live \subseteq DOMAIN codes /\ Numbered
  BY DEF AccountTyped, AccountTypeOK
<1>c. ASSUME bound' \in [Users -> Urls \cup {Nothing}], totp' \in [Users -> TotpKeys \cup {Nothing}],
             password' \in [Users -> 0..1], app' \subseteq TotpKeys, page' \in Page,
             abusy' \subseteq AFlags, WiresOK', UNCHANGED codes, live' \subseteq live
      PROVE  AccountTyped'
  <2>1. Numbered'
    BY <1>c, <1>d DEF Numbered
  <2> QED
    BY <1>c, <1>d, <2>1 DEF AccountTyped, AccountTypeOK, WiresOK, AFlags
<1>p. ASSUME NEW i \in Wires, NEW c \in Wire \cup {Free, Ended1}, wires' = [wires EXCEPT ![i] = c]
      PROVE  WiresOK'
  BY <1>p, <1>0 DEF WiresOK
<1>e. ASSUME NEW i \in Wires, wires' = [wires EXCEPT ![i] = Ended1] PROVE WiresOK'
  BY <1>e, <1>p
<1>t. ASSUME NEW i \in Wires, wires[i] \in Wire, NEW s \in {"sent", "checked", "done"},
             wires' = [wires EXCEPT ![i].at = s]
      PROVE  WiresOK'
  <2>1. [wires[i] EXCEPT !.at = s] \in Wire
    BY <1>t DEF Wire
  <2> QED
    BY <1>t, <1>0, <2>1 DEF WiresOK
<1>w. ASSUME NEW i \in Wires, Up(i) PROVE wires[i] \in Wire
  BY <1>w, <1>0, WireUp
<1>1. CASE Buttons
  <2>1. PICK c : Sends(c) /\ \E flags \in SUBSET AFlags : Submit(c, flags)
    BY <1>1, ButtonAsks DEF AccountTyped
  <2>2. WiresOK' /\ abusy' \subseteq AFlags
    BY <2>1, <1>0, <1>p DEF Submit, Call2, Sends
  <2> QED
    BY <1>0, <1>c, <2>1, <2>2 DEF Submit
<1>2. CASE ScanSecret
  <2>1. app' \subseteq TotpKeys
    BY <1>0, <1>2 DEF ScanSecret, Page
  <2>2. WiresOK'
    BY <1>0, <1>2 DEF ScanSecret, WiresOK
  <2> QED
    BY <1>0, <1>2, <1>c, <2>1, <2>2 DEF ScanSecret
<1>3. ASSUME NEW i \in Wires, SendCode(i) PROVE AccountTyped'
  <2>0. /\ wires[i] \in Wire /\ UNCHANGED <<bound, totp, password, app, page, abusy>>
        /\ \/ /\ wires' = [wires EXCEPT ![i].at = "done"]
              /\ UNCHANGED <<codes, live>>
           \/ \E n \in CodeNames : /\ n \notin DOMAIN codes /\ DOMAIN codes \cup {n} = 1..n
                            /\ Issued(wires[i]) \in CodeInfo
                            /\ codes' = [m \in DOMAIN codes \cup {n} |->
                                  IF m = n THEN Issued(wires[i]) ELSE codes[m]]
                            /\ live' = live \cup {n}
                            /\ wires' = [wires EXCEPT ![i].at = "done", ![i].token = n]
    BY <1>3, SendCodeDoes
  <2>w. wires[i] \in Wire
    BY <2>0
  <2>1. CASE wires' = [wires EXCEPT ![i].at = "done"] /\ UNCHANGED <<codes, live>>
    <3>1. WiresOK'
      BY <2>w, <2>1, <1>t
    <3> QED
      BY <1>0, <1>c, <2>0, <2>1, <3>1
  <2>2. ASSUME NEW n \in CodeNames, DOMAIN codes \cup {n} = 1..n, Issued(wires[i]) \in CodeInfo,
               codes' = [m \in DOMAIN codes \cup {n} |->
                           IF m = n THEN Issued(wires[i]) ELSE codes[m]],
               live' = live \cup {n}, wires' = [wires EXCEPT ![i].at = "done", ![i].token = n]
        PROVE  AccountTyped'
    <3> DEFINE c == [wires[i] EXCEPT !.at = "done", !.token = n]
    <3>0. n \in 0..MaxCodes
      BY <2>2, AccountAssumption DEF CodeNames
    <3>1. c \in Wire
      BY <2>w, <3>0 DEF Wire
    <3>2. wires' = [wires EXCEPT ![i] = c]
      BY <1>0, <2>w, <2>2 DEF WiresOK, Wire
    <3> HIDE DEF c
    <3>3. WiresOK'
      BY <1>p, <3>1, <3>2
    <3>4. Numbered'
      BY <2>2, AccountAssumption DEF Numbered, CodeNames
    <3>5. DOMAIN codes' \subseteq CodeNames /\ \A m \in DOMAIN codes' : codes'[m] \in CodeInfo
      BY <1>d, <2>2
    <3>6. live' \subseteq DOMAIN codes'
      BY <1>d, <2>2
    <3> QED
      BY <1>0, <2>0, <3>3, <3>4, <3>5, <3>6 DEF AccountTyped, AccountTypeOK, WiresOK, AFlags
  <2> QED
    BY <2>0, <2>1, <2>2
<1>4. ASSUME NEW i \in Wires, CheckCode(i) PROVE AccountTyped'
  <2>1. WiresOK'
    <3>1. CASE CodeFits(wires[i])
      BY <1>4, <1>w, <1>t, <3>1 DEF CheckCode
    <3>2. CASE ~CodeFits(wires[i])
      BY <1>4, <1>e, <3>2 DEF CheckCode
    <3> QED
      BY <3>1, <3>2
  <2>2. abusy' \subseteq AFlags /\ live' \subseteq live
    BY <1>0, <1>4 DEF CheckCode
  <2> QED
    BY <1>0, <1>4, <1>c, <2>1, <2>2 DEF CheckCode
<1>5. ASSUME NEW i \in Wires, UseCode(i) PROVE AccountTyped'
  <2>0. wires[i] \in Wire
    BY <1>5, <1>w DEF UseCode
  <2>1. bound' \in [Users -> Urls \cup {Nothing}]
    BY <1>0, <1>5, <2>0 DEF UseCode, Wire
  <2>2. totp' \in [Users -> TotpKeys \cup {Nothing}]
    BY <1>0, <1>5, <2>0 DEF UseCode, Wire
  <2>3. password' \in [Users -> 0..1]
    BY <1>0, <1>5, <2>0 DEF UseCode, Wire
  <2>4. [wires[i] EXCEPT !.at = "done"] \in Wire
    BY <2>0 DEF Wire
  <2>5. WiresOK'
    BY <1>5, <1>p, <2>4 DEF UseCode
  <2> QED
    BY <1>0, <1>5, <1>c, <2>1, <2>2, <2>3, <2>5 DEF UseCode
<1>6. ASSUME NEW i \in Wires, ServeAccount(i) PROVE AccountTyped'
  <2>0. wires[i] \in Wire
    BY <1>6, <1>w DEF ServeAccount
  <2>1. bound' \in [Users -> Urls \cup {Nothing}]
    BY <1>0, <1>6, <2>0 DEF ServeAccount, Wire
  <2>2. totp' \in [Users -> TotpKeys \cup {Nothing}]
    BY <1>0, <1>6, <2>0 DEF ServeAccount, Wire
  <2>3. password' \in [Users -> 0..1]
    BY <1>0, <1>6, <2>0 DEF ServeAccount, Wire
  <2>4. WiresOK'
    <3>1. CASE wires' = [wires EXCEPT ![i].at = "done"]
      BY <2>0, <1>t, <3>1
    <3>2. ASSUME NEW k \in TotpKeys, wires' = [wires EXCEPT ![i].at = "done", ![i].key = k]
          PROVE  WiresOK'
      <4> DEFINE c == [wires[i] EXCEPT !.at = "done", !.key = k]
      <4>1. c \in Wire
        BY <2>0 DEF Wire
      <4>2. wires' = [wires EXCEPT ![i] = c]
        BY <1>0, <2>0, <3>2 DEF WiresOK, Wire
      <4> HIDE DEF c
      <4> QED
        BY <1>p, <4>1, <4>2
    <3> QED
      BY <1>6, <3>1, <3>2 DEF ServeAccount
  <2> QED
    BY <1>0, <1>6, <1>c, <2>1, <2>2, <2>3, <2>4 DEF ServeAccount
<1>7. ASSUME NEW i \in Wires, AnswerAccount(i) PROVE AccountTyped'
  <2>0. wires[i] \in Wire
    BY <1>7, <1>w DEF AnswerAccount
  <2>1. page' \in Page
    <3>1. wires[i].token \in 0..MaxCodes /\ wires[i].key \in TotpKeys \cup {Nothing}
      BY <2>0 DEF Wire
    <3>2. /\ [page EXCEPT !.bindToken = wires[i].token] \in Page
          /\ [page EXCEPT !.totpToken = wires[i].token] \in Page
          /\ [page EXCEPT !.resetToken = wires[i].token] \in Page
          /\ [page EXCEPT !.bindToken = 0] \in Page
      BY <1>0, <3>1, AccountAssumption DEF Page
    <3>3. /\ [page EXCEPT !.secret = wires[i].key, !.qr = Nothing] \in Page
          /\ [page EXCEPT !.qr = wires[i].key] \in Page
      BY <1>0, <3>1 DEF Page
    <3>5. 0 \in 0..MaxCodes
      BY AccountAssumption
    <3>6. [page EXCEPT !.secret = Nothing, !.qr = Nothing, !.totpToken = 0] \in Page
      BY <1>0, <3>5 DEF Page
    <3>4. \/ page' = [page EXCEPT !.bindToken = wires[i].token]
          \/ page' = [page EXCEPT !.totpToken = wires[i].token]
          \/ page' = [page EXCEPT !.resetToken = wires[i].token]
          \/ page' = [page EXCEPT !.bindToken = 0]
          \/ page' = [page EXCEPT !.secret = wires[i].key, !.qr = Nothing]
          \/ page' = [page EXCEPT !.qr = wires[i].key]
          \/ page' = [page EXCEPT !.secret = Nothing, !.qr = Nothing, !.totpToken = 0]
          \/ page' = page
      BY <1>7, Zenon DEF AnswerAccount
    <3> QED
      BY <1>0, <3>2, <3>3, <3>4, <3>6
  <2>2. [wires[i] EXCEPT !.op = "draw"] \in Wire
    BY <2>0 DEF Wire, AccountOps
  <2>3. WiresOK'
    BY <1>7, <1>p, <2>2 DEF AnswerAccount
  <2> QED
    BY <1>0, <1>7, <1>c, <2>1, <2>3 DEF AnswerAccount
<1>8. ASSUME NEW i \in Wires, FailAccount(i) PROVE AccountTyped'
  <2>1. WiresOK'
    BY <1>8, <1>e DEF FailAccount
  <2> QED
    BY <1>0, <1>8, <1>c, <2>1 DEF FailAccount
<1>9. ASSUME NEW n, Expire(n) PROVE AccountTyped'
  <2>1. WiresOK'
    BY <1>0, <1>9 DEF Expire, WiresOK
  <2> QED
    BY <1>0, <1>9, <1>c, <2>1 DEF Expire
<1>10. CASE UNCHANGED accountVars
  <2>1. WiresOK'
    BY <1>0, <1>10 DEF accountVars, WiresOK
  <2> QED
    BY <1>0, <1>10, <1>c, <2>1 DEF accountVars
<1> QED
  BY <1>1, <1>2, <1>3, <1>4, <1>5, <1>6, <1>7, <1>8, <1>9, <1>10 DEF AccountNext, Buttons

\* Accounts, codes, pages and calls are of the declared kinds in every
\* reachable state, and the codes that can still be used were issued.
THEOREM AccountTypeCorrect == AccountSpec => []AccountTypeOK
<1>1. AccountTyped => AccountTypeOK
  BY DEF AccountTyped
<1> QED
  BY <1>1, AccountTypedInit, AccountTypedStep, PTL DEF AccountSpec

-----------------------------------------------------------------------------
(* What holds of the calls and the codes under way.                        *)

\* A call that switches a second factor on names a secret, and carries a code
\* of the app or none.  A call that binds an address names it, and is of the
\* administrator who is logged in.
Honest(c) == /\ c.op = "enable" => c.key # Nothing /\ c.typed \in app \cup {Nothing}
             /\ c.op = "bind" => c.user = Me /\ c.url # Nothing

\* A code that was looked up is good for what the call does.
Fitting(c) == /\ c.code \in DOMAIN codes
              /\ codes[c.code].user = c.user /\ codes[c.code].purpose = Purpose(c.op)
              /\ c.op = "bind" => codes[c.code].extra = c.url

FormsInv == /\ SecondFactorIsHeld
            /\ \A i \in Wires : Up(i) => Honest(wires[i])
            /\ \A i \in Wires : Up(i) /\ wires[i].op \in UseOps /\ wires[i].at = "checked"
                                => Fitting(wires[i])
            /\ \A n \in DOMAIN codes : codes[n].purpose = "showdoc_bind"
                                       => codes[n].to = codes[n].extra

\* A step that changes one slot, and leaves the codes and the app.
LEMMA FormsPut ==
    ASSUME WiresOK, FormsInv, UNCHANGED <<codes, app>>, SecondFactorIsHeld',
           NEW i \in Wires, NEW c, wires' = [wires EXCEPT ![i] = c],
           c.op \in AccountOps => Honest(c),
           c.op \in UseOps /\ c.at = "checked" => Fitting(c)
    PROVE  FormsInv'
<1>1. wires'[i] = c /\ \A j \in Wires : j # i => wires'[j] = wires[j]
  BY DEF WiresOK
<1>2. \A j \in Wires : Up(j)' => Honest(wires[j])'
  BY <1>1 DEF FormsInv, Up, Honest
<1>3. \A j \in Wires : Up(j)' /\ wires'[j].op \in UseOps /\ wires'[j].at = "checked"
                       => Fitting(wires[j])'
  BY <1>1 DEF FormsInv, Up, Fitting
<1> QED
  BY <1>2, <1>3 DEF FormsInv

\* The invariant holds at the start.
LEMMA FormsInit == AccountInit => FormsInv
<1> SUFFICES ASSUME AccountInit PROVE FormsInv
  OBVIOUS
<1>1. \A u \in Users : totp[u] = Nothing
  BY DEF AccountInit
<1>2. \A i \in Wires : ~Up(i)
  BY DEF AccountInit, Up, Free, AccountOps, SendOps, UseOps
<1>3. \A n \in DOMAIN codes : codes[n].purpose = "totp_enable"
  BY DEF AccountInit
<1> QED
  BY <1>1, <1>2, <1>3 DEF FormsInv, SecondFactorIsHeld

\* Every step keeps the invariant.
LEMMA FormsStep == AccountTyped /\ FormsInv /\ [AccountNext]_accountVars => FormsInv'
<1> SUFFICES ASSUME AccountTyped, FormsInv, [AccountNext]_accountVars PROVE FormsInv'
  OBVIOUS
<1>0. /\ totp \in [Users -> TotpKeys \cup {Nothing}] /\ WiresOK
      /\ live \subseteq DOMAIN codes
  BY DEF AccountTyped, AccountTypeOK, WiresOK
<1>h. UNCHANGED <<totp, app>> => SecondFactorIsHeld'
  BY DEF FormsInv, SecondFactorIsHeld
<1>w. ASSUME NEW i \in Wires, Up(i) PROVE wires[i] \in Wire /\ Honest(wires[i])
  BY <1>w, <1>0, WireUp DEF FormsInv
<1>e. ASSUME NEW i \in Wires, wires' = [wires EXCEPT ![i] = Ended1], UNCHANGED <<codes, app>>,
             SecondFactorIsHeld'
      PROVE  FormsInv'
  <2>1. Ended1.op \notin AccountOps /\ Ended1.op \notin UseOps
    BY DEF Ended1, AccountOps, SendOps, UseOps
  <2> QED
    BY <1>e, <1>0, <2>1, FormsPut
<1>s. ASSUME UNCHANGED <<totp, codes, wires>>, app \subseteq app' PROVE FormsInv'
  BY <1>s DEF FormsInv, SecondFactorIsHeld, Up, Honest, Fitting
\* A call goes on, and carries what it carried.
<1>t. ASSUME NEW i \in Wires, Up(i), NEW c, wires' = [wires EXCEPT ![i] = c],
             c.op = wires[i].op \/ c.op = "draw", c.user = wires[i].user, c.url = wires[i].url,
             c.typed = wires[i].typed, c.key = wires[i].key \/ c.op # "enable",
             c.at # "checked", UNCHANGED <<codes, app>>, SecondFactorIsHeld'
      PROVE  FormsInv'
  <2>1. Honest(c)
    BY <1>t, <1>w DEF Honest
  <2> QED
    BY <1>0, <1>t, <2>1, FormsPut
<1>1. CASE Buttons
  <2>1. PICK c : Sends(c) /\ \E flags \in SUBSET AFlags : Submit(c, flags)
    BY <1>1, ButtonAsks DEF AccountTyped
  <2>2. /\ UNCHANGED <<totp, codes, app>>
        /\ \E i \in Wires : wires' = [wires EXCEPT ![i] = c]
    BY <2>1 DEF Submit, Call2
  <2>3. Honest(c) /\ c.at # "checked"
    BY <2>1 DEF Sends, Honest
  <2> QED
    BY <1>0, <1>h, <2>2, <2>3, FormsPut
<1>2. CASE ScanSecret
  BY <1>2, <1>s DEF ScanSecret
<1>3. ASSUME NEW i \in Wires, SendCode(i) PROVE FormsInv'
  <2>0. wires[i] \in Wire /\ wires[i].op \in SendOps /\ UNCHANGED <<totp, app>> /\ Up(i)
    BY <1>3, SendCodeDoes DEF SendCode
  <2>1. CASE wires' = [wires EXCEPT ![i].at = "done"] /\ UNCHANGED codes
    <3> DEFINE c == [wires[i] EXCEPT !.at = "done"]
    <3>1. /\ wires' = [wires EXCEPT ![i] = c] /\ c.at = "done" /\ c.op = wires[i].op
          /\ c.user = wires[i].user /\ c.url = wires[i].url /\ c.typed = wires[i].typed
          /\ c.key = wires[i].key
      BY <2>0, <2>1 DEF Wire
    <3> HIDE DEF c
    <3> QED
      BY <2>0, <2>1, <3>1, <1>h, <1>t
  <2>2. ASSUME NEW n, n \notin DOMAIN codes,
               codes' = [m \in DOMAIN codes \cup {n} |->
                           IF m = n THEN Issued(wires[i]) ELSE codes[m]],
               wires' = [wires EXCEPT ![i].at = "done", ![i].token = n]
        PROVE  FormsInv'
    <3> DEFINE c == [wires[i] EXCEPT !.at = "done", !.token = n]
    <3>1. /\ wires' = [wires EXCEPT ![i] = c] /\ c.at = "done" /\ c.op = wires[i].op
      BY <1>0, <2>0, <2>2 DEF WiresOK, Wire
    <3> HIDE DEF c
    <3>2. wires'[i] = c /\ \A j \in Wires : j # i => wires'[j] = wires[j]
      BY <1>0, <3>1 DEF WiresOK
    <3>3. c.op \notin {"enable", "bind"}
      BY <2>0, <3>1 DEF SendOps
    <3>4. \A j \in Wires : Up(j)' => Honest(wires[j])'
      BY <2>0, <3>2, <3>3 DEF FormsInv, Honest, Up
    <3>5. \A m \in DOMAIN codes : m \in DOMAIN codes' /\ codes'[m] = codes[m]
      BY <2>2
    <3>6. \A j \in Wires : Up(j)' /\ wires'[j].op \in UseOps /\ wires'[j].at = "checked"
                           => Fitting(wires[j])'
      BY <3>1, <3>2, <3>5 DEF FormsInv, Fitting, Up
    <3>7. Issued(wires[i]).purpose = "showdoc_bind" => Issued(wires[i]).to = Issued(wires[i]).extra
      BY <2>0 DEF Issued, Purpose, Target, SendOps
    <3>8. \A m \in DOMAIN codes' : codes'[m].purpose = "showdoc_bind" => codes'[m].to = codes'[m].extra
      BY <2>2, <3>7 DEF FormsInv
    <3> QED
      BY <1>h, <2>0, <3>4, <3>6, <3>8 DEF FormsInv
  <2> QED
    BY <1>3, <2>1, <2>2, SendCodeDoes
<1>4. ASSUME NEW i \in Wires, CheckCode(i) PROVE FormsInv'
  <2>0. Up(i) /\ UNCHANGED <<totp, codes, app>>
    BY <1>4 DEF CheckCode
  <2>1. CASE CodeFits(wires[i])
    <3> DEFINE c == [wires[i] EXCEPT !.at = "checked"]
    <3>1. /\ wires' = [wires EXCEPT ![i] = c] /\ c.op = wires[i].op
          /\ c.user = wires[i].user /\ c.url = wires[i].url /\ c.typed = wires[i].typed
          /\ c.key = wires[i].key /\ c.code = wires[i].code
      BY <1>4, <1>w, <2>0, <2>1 DEF CheckCode, Wire
    <3> HIDE DEF c
    <3>2. Honest(c)
      BY <1>w, <2>0, <3>1 DEF Honest
    <3>3. Fitting(c)
      BY <1>0, <2>1, <3>1, <3>2 DEF CodeFits, Fitting, Honest
    <3> QED
      BY <1>0, <1>h, <2>0, <3>1, <3>2, <3>3, FormsPut
  <2>2. CASE ~CodeFits(wires[i])
    BY <1>4, <1>e, <1>h, <2>0, <2>2 DEF CheckCode
  <2> QED
    BY <2>1, <2>2
<1>5. ASSUME NEW i \in Wires, UseCode(i) PROVE FormsInv'
  <2>0. wires[i] \in Wire /\ Honest(wires[i]) /\ Up(i) /\ UNCHANGED <<codes, app>>
    BY <1>5, <1>w DEF UseCode
  <2>1. SecondFactorIsHeld'
    <3>1. CASE wires[i].op = "enable" /\ UsesSecret(wires[i])
      <4>1. wires[i].key \in app
        BY <2>0, <3>1 DEF Honest, UsesSecret
      <4>2. totp' = [totp EXCEPT ![wires[i].user] = wires[i].key]
        BY <1>5, <3>1 DEF UseCode
      <4> QED
        BY <1>0, <2>0, <4>1, <4>2 DEF FormsInv, SecondFactorIsHeld
    <3>2. CASE ~(wires[i].op = "enable" /\ UsesSecret(wires[i]))
      BY <1>5, <1>h, <2>0, <3>2 DEF UseCode
    <3> QED
      BY <3>1, <3>2
  <2>2. CASE wires' = [wires EXCEPT ![i] = Ended1]
    BY <1>e, <2>0, <2>1, <2>2
  <2>3. CASE wires' = [wires EXCEPT ![i] = [wires[i] EXCEPT !.at = "done"]]
    <3> DEFINE c == [wires[i] EXCEPT !.at = "done"]
    <3>1. /\ wires' = [wires EXCEPT ![i] = c] /\ c.at = "done" /\ c.op = wires[i].op
          /\ c.user = wires[i].user /\ c.url = wires[i].url /\ c.typed = wires[i].typed
          /\ c.key = wires[i].key
      BY <2>0, <2>3 DEF Wire
    <3> HIDE DEF c
    <3> QED
      BY <2>0, <2>1, <3>1, <1>t
  <2> QED
    BY <1>5, <2>2, <2>3 DEF UseCode
<1>6. ASSUME NEW i \in Wires, ServeAccount(i) PROVE FormsInv'
  <2>0. wires[i] \in Wire /\ Up(i) /\ UNCHANGED <<codes, app>>
    BY <1>6, <1>w DEF ServeAccount
  <2>1. SecondFactorIsHeld'
    <3>1. UNCHANGED totp \/ totp' = [totp EXCEPT ![wires[i].user] = Nothing]
      BY <1>6 DEF ServeAccount
    <3> QED
      BY <1>0, <2>0, <3>1 DEF FormsInv, SecondFactorIsHeld
  <2>2. PICK c : /\ wires' = [wires EXCEPT ![i] = c] /\ c.at = "done" /\ c.op = wires[i].op
                 /\ c.user = wires[i].user /\ c.url = wires[i].url /\ c.typed = wires[i].typed
                 /\ c.key = wires[i].key \/ c.op # "enable"
    <3>1. CASE wires' = [wires EXCEPT ![i].at = "done"]
      <4> DEFINE c == [wires[i] EXCEPT !.at = "done"]
      <4>1. /\ wires' = [wires EXCEPT ![i] = c] /\ c.at = "done" /\ c.op = wires[i].op
            /\ c.user = wires[i].user /\ c.url = wires[i].url /\ c.typed = wires[i].typed
            /\ c.key = wires[i].key
        BY <2>0, <3>1 DEF Wire
      <4> HIDE DEF c
      <4> QED
        BY <4>1
    <3>2. ASSUME NEW k, wires' = [wires EXCEPT ![i].at = "done", ![i].key = k],
                 wires[i].op = "setup"
          PROVE  \E c : /\ wires' = [wires EXCEPT ![i] = c] /\ c.at = "done" /\ c.op = wires[i].op
                        /\ c.user = wires[i].user /\ c.url = wires[i].url
                        /\ c.typed = wires[i].typed /\ c.op # "enable"
      <4> DEFINE c == [wires[i] EXCEPT !.at = "done", !.key = k]
      <4>1. /\ wires' = [wires EXCEPT ![i] = c] /\ c.at = "done" /\ c.op = "setup"
            /\ c.user = wires[i].user /\ c.url = wires[i].url /\ c.typed = wires[i].typed
        BY <1>0, <2>0, <3>2 DEF WiresOK, Wire
      <4> HIDE DEF c
      <4> QED
        BY <3>2, <4>1
    <3> QED
      BY <1>6, <3>1, <3>2 DEF ServeAccount
  <2> QED
    BY <2>0, <2>1, <2>2, <1>t
<1>7. ASSUME NEW i \in Wires, AnswerAccount(i) PROVE FormsInv'
  <2>0. wires[i] \in Wire /\ Up(i) /\ UNCHANGED <<totp, codes, app>> /\ wires[i].at = "done"
    BY <1>7, <1>w DEF AnswerAccount
  <2>1. CASE wires' = [wires EXCEPT ![i] = Ended1]
    BY <1>e, <1>h, <2>0, <2>1
  <2>2. CASE wires' = [wires EXCEPT ![i] = [wires[i] EXCEPT !.op = "draw"]]
    <3> DEFINE c == [wires[i] EXCEPT !.op = "draw"]
    <3>1. /\ wires' = [wires EXCEPT ![i] = c] /\ c.at = "done" /\ c.op = "draw"
          /\ c.user = wires[i].user /\ c.url = wires[i].url /\ c.typed = wires[i].typed
          /\ c.key = wires[i].key
      BY <2>0, <2>2 DEF Wire
    <3> HIDE DEF c
    <3> QED
      BY <2>0, <3>1, <1>h, <1>t
  <2> QED
    BY <1>7, <2>1, <2>2 DEF AnswerAccount
<1>8. ASSUME NEW i \in Wires, FailAccount(i) PROVE FormsInv'
  BY <1>8, <1>e, <1>h DEF FailAccount
<1>9. ASSUME NEW n, Expire(n) PROVE FormsInv'
  BY <1>9, <1>s DEF Expire
<1>10. CASE UNCHANGED accountVars
  BY <1>10, <1>s DEF accountVars
<1> QED
  BY <1>1, <1>2, <1>3, <1>4, <1>5, <1>6, <1>7, <1>8, <1>9, <1>10 DEF AccountNext, Buttons

\* Types and invariant hold throughout.
LEMMA FormsHold == AccountSpec => [](AccountTyped /\ FormsInv)
<1>1. AccountInit => AccountTyped /\ FormsInv
  BY AccountTypedInit, FormsInit
<1>2. AccountTyped /\ FormsInv /\ [AccountNext]_accountVars => (AccountTyped /\ FormsInv)'
  BY AccountTypedStep, FormsStep
<1> QED
  BY <1>1, <1>2, PTL DEF AccountSpec

\* A second factor that an account asks for is in the app of its owner,
\* whichever answers the page mixed up while it was set up.
THEOREM SecondFactorHeld == AccountSpec => []SecondFactorIsHeld
<1>1. FormsInv => SecondFactorIsHeld
  BY DEF FormsInv
<1> QED
  BY <1>1, FormsHold, PTL

\* CodeWasForThis in one step.
CodeFitting == \A i \in Wires :
    (Up(i) /\ wires[i].op \in {"bind", "reset"} /\ wires[i].at = "checked"
        /\ wires'[i] # wires[i])
    => LET c == wires[i] IN
       /\ bound' # bound => codes[c.code].to = bound'[Me]
       /\ \A u \in Users : password'[u] # password[u] =>
             codes[c.code].user = u /\ codes[c.code].purpose = "password_reset"

\* A step that binds an address or changes a password goes by a code for it.
LEMMA CodeFittingStep == AccountTyped /\ FormsInv /\ [AccountNext]_accountVars => CodeFitting
<1> SUFFICES ASSUME AccountTyped, FormsInv, [AccountNext]_accountVars,
                    NEW i \in Wires, Up(i), wires[i].op \in {"bind", "reset"},
                    wires[i].at = "checked", wires'[i] # wires[i]
             PROVE  /\ bound' # bound => codes[wires[i].code].to = bound'[Me]
                    /\ \A u \in Users : password'[u] # password[u] =>
                          /\ codes[wires[i].code].user = u
                          /\ codes[wires[i].code].purpose = "password_reset"
  BY DEF CodeFitting
<1>0. /\ WiresOK /\ bound \in [Users -> Urls \cup {Nothing}] /\ password \in [Users -> 0..1]
  BY DEF AccountTyped, AccountTypeOK, WiresOK
<1>1. wires[i] \in Wire /\ Honest(wires[i]) /\ Fitting(wires[i])
  BY <1>0, WireUp DEF FormsInv, UseOps
<1>2. CASE UseCode(i)
  <2>1. CASE wires[i].op = "bind"
    <3>1. bound' = [bound EXCEPT ![Me] = wires[i].url] /\ UNCHANGED password
      BY <1>1, <1>2, <2>1 DEF UseCode, Honest
    <3>2. codes[wires[i].code].to = wires[i].url
      BY <1>1, <2>1 DEF FormsInv, Fitting, Purpose
    <3> QED
      BY <1>0, <3>1, <3>2, AccountAssumption
  <2>2. CASE wires[i].op = "reset"
    <3>1. password' = [password EXCEPT ![wires[i].user] = 1] /\ UNCHANGED bound
      BY <1>2, <2>2 DEF UseCode
    <3>2. /\ codes[wires[i].code].user = wires[i].user
          /\ codes[wires[i].code].purpose = "password_reset"
      BY <1>1, <2>2 DEF Fitting, Purpose
    <3> QED
      BY <1>0, <3>1, <3>2
  <2> QED
    BY <2>1, <2>2
<1>3. ASSUME UNCHANGED <<bound, password>>
      PROVE  /\ bound' # bound => codes[wires[i].code].to = bound'[Me]
             /\ \A u \in Users : password'[u] # password[u] =>
                   /\ codes[wires[i].code].user = u
                   /\ codes[wires[i].code].purpose = "password_reset"
  BY <1>3
<1>4. ASSUME NEW j \in Wires, UseCode(j) \/ ServeAccount(j), j # i PROVE FALSE
  <2>1. \E c : wires' = [wires EXCEPT ![j] = c]
    BY <1>4 DEF UseCode, ServeAccount
  <2> QED
    BY <1>0, <1>4, <2>1 DEF WiresOK
<1>5. CASE ServeAccount(i)
  BY <1>5 DEF ServeAccount
<1> QED
  BY <1>2, <1>3, <1>4, <1>5 DEF AccountNext, accountVars, SendShowdocCode, BindShowdoc,
     UnbindShowdoc, SendTotpCode, StartTotpSetup, ScanSecret, EnableTotp, DisableTotp,
     ChangePassword, SendResetCode, ResetPassword, Submit, SendCode, CheckCode, AnswerAccount,
     FailAccount, Expire

\* An address is bound, and a password reset, only with a code that was
\* pushed to that address, or for that user, whatever was changed on the page
\* after the code was sent.
THEOREM CodesFit == AccountSpec => CodeWasForThis
<1>1. AccountTyped /\ FormsInv /\ [AccountNext]_accountVars => [CodeFitting]_accountVars
  BY CodeFittingStep
<1>2. AccountSpec => [][CodeFitting]_accountVars
  BY <1>1, FormsHold, PTL DEF AccountSpec
<1> QED
  BY <1>2 DEF CodeWasForThis, CodeFitting

-----------------------------------------------------------------------------
(* ChannelConfig: the calls under way.                                     *)

\* A call for a channel names one, and so does the dialog.
NamesChannel(c) == c.op \in {"get", "save hid", "reset hid"} => c.hid \in Channels
ChannelTyped ==
    /\ ChannelTypeOK
    /\ \A i \in CfgSlot : Asked(i) => NamesChannel(asks[i])
    /\ dialog.shown \/ dialog.ask = "hid" => dialog.hid \in Channels

\* All calls but those for the values of a channel hold the flag; one at a time.
HoldsFlag(i) == Asked(i) /\ asks[i].op # "get"
FlagHeld == /\ \A i \in CfgSlot : HoldsFlag(i) => "loading" \in cbusy
            /\ \A i, j \in CfgSlot : HoldsFlag(i) /\ HoldsFlag(j) => i = j

\* What a load, or the answer to a change of the global configuration, says
\* still holds when it arrives.
LoadTells(c) == c.op \in {"load", "save global"} /\ c.served =>
                    /\ c.cfg = GlobalView
                    /\ c.op = "load" => c.list = HasConfig
LoadsTell == \A i \in CfgSlot : Asked(i) => LoadTells(asks[i])

\* A list is behind only while a load, or a change that one follows, is under way.
ListHolds == (~stale.missed /\ \A i \in CfgSlot : HoldsFlag(i) => asks[i].op = "save global")
             => listed = HasConfig
FormHolds == "loading" \notin cbusy /\ ~stale.missed /\ ~gtyped => gform = GlobalView

ChannelPageHolds == FlagHeld /\ LoadsTell /\ ListHolds /\ FormHolds

\* As long as nothing was mixed: the values of a channel are under way alone,
\* what works on all channels does so behind a closed dialog, and the dialog
\* is as clean as the call that it made.
AloneHolds ==
    \A i, j \in CfgSlot : Asked(i) /\ Asked(j) /\ asks[i].op = "get" => i = j
GetTells(c) == c.op = "get" /\ c.served => c.cfg = Effective(c.hid)
Closed(c) == c.op \in {"load", "save global", "reset global"} => ~dialog.shown
SaveFits(c) ==
    /\ c.op = "save hid" /\ c.clean /\ ~c.served /\ ~stale.missed => c.cfg = Effective(c.hid)
    /\ c.op = "save hid" /\ ~c.clean /\ dialog.shown => ~dialog.clean
DialogFits ==
    (/\ dialog.shown /\ dialog.clean /\ ~stale.missed
     /\ \A i \in CfgSlot : ~(Asked(i) /\ asks[i].op = "reset hid" /\ asks[i].served))
    => dialog.form = Effective(dialog.hid)
Unmixed ==
    ~stale.mixed =>
        /\ AloneHolds /\ DialogFits
        /\ \A i \in CfgSlot : Asked(i) => GetTells(asks[i]) /\ Closed(asks[i]) /\ SaveFits(asks[i])

ChannelInv == /\ ChannelPageHolds /\ Unmixed
              /\ dialog.ask = "global" => ~dialog.shown

\* The configurations.
LEMMA EmptyIsConfig == EmptyConfig \in Config
BY DEF EmptyConfig, Config, Unset

\* The value of a channel is its own where it has one.
LEMMA MergeOK ==
    ASSUME NEW base \in Config, NEW over \in Config
    PROVE  /\ Merge(base, over) \in Config
           /\ \A k \in CfgKeys :
                 Merge(base, over)[k] = IF over[k] = Unset THEN base[k] ELSE over[k]
BY DEF Merge, Config

\* No value of what holds for all channels is unset.
LEMMA GlobalViewOK ==
    ASSUME ChannelTyped
    PROVE  GlobalView \in Config /\ \A k \in CfgKeys : GlobalView[k] # Unset
<1>1. DefaultCfg \in Config /\ global \in Config
  BY ChannelAssumption DEF ChannelTyped, ChannelTypeOK, Config
<1>2. \A k \in CfgKeys : DefaultCfg[k] # Unset
  BY ChannelAssumption DEF Unset
<1> QED
  BY <1>1, <1>2, MergeOK DEF GlobalView

\* What a channel works with is a configuration.
LEMMA EffectiveOK ==
    ASSUME ChannelTyped, NEW h \in Channels
    PROVE  Effective(h) \in Config
<1>1. own[h] \in Config
  BY DEF ChannelTyped, ChannelTypeOK
<1> QED
  BY <1>1, GlobalViewOK, MergeOK DEF Effective

\* To merge again what was merged before changes nothing.
LEMMA MergedAgain ==
    ASSUME NEW base \in Config, NEW over \in Config, \A k \in CfgKeys : base[k] # Unset
    PROVE  Merge(base, Merge(base, over)) = Merge(base, over)
<1>1. \A k \in CfgKeys : Merge(base, over)[k] # Unset
  BY MergeOK
<1>2. /\ Merge(base, over) \in Config /\ Merge(base, Merge(base, over)) \in Config
      /\ \A k \in CfgKeys : Merge(base, Merge(base, over))[k] = Merge(base, over)[k]
  BY <1>1, MergeOK
<1> QED
  BY <1>2 DEF Config

\* A channel whose own values become what holds for it: what holds stays.
LEMMA SaveKeeps ==
    ASSUME ChannelTyped, NEW h \in Channels, UNCHANGED global,
           own' = [own EXCEPT ![h] = Effective(h)]
    PROVE  \A g \in Channels : Effective(g)' = Effective(g)
<1>1. GlobalView' = GlobalView
  BY DEF GlobalView
<1>2. own \in [Channels -> Config]
  BY DEF ChannelTyped, ChannelTypeOK
<1>3. ASSUME NEW g \in Channels PROVE Merge(GlobalView, own'[g]) = Merge(GlobalView, own[g])
  <2>1. CASE g = h
    <3>1. own'[g] = Merge(GlobalView, own[h])
      BY <1>2, <2>1 DEF Effective
    <3> QED
      BY <1>2, <2>1, <3>1, MergedAgain, GlobalViewOK
  <2>2. CASE g # h
    BY <1>2, <2>2
  <2> QED
    BY <2>1, <2>2
<1> QED
  BY <1>1, <1>3 DEF Effective

\* The calls.
LEMMA SlotsOK ==
    ASSUME ChannelTyped
    PROVE  /\ \A i \in CfgSlot : Asked(i) => asks[i] \in CfgCall /\ asks[i].op \in CfgOps
           /\ NoAsk.op \notin CfgOps /\ AskOver.op \notin CfgOps
           /\ asks \in [CfgSlot -> CfgCall \cup {NoAsk, AskOver}]
<1>1. NoAsk.op \notin CfgOps /\ AskOver.op \notin CfgOps
  BY DEF NoAsk, AskOver, CfgOps
<1>2. asks \in [CfgSlot -> CfgCall \cup {NoAsk, AskOver}]
  BY DEF ChannelTyped, ChannelTypeOK
<1> QED
  BY <1>1, <1>2 DEF Asked

\* A call carries what it was made of.
LEMMA CallOK ==
    ASSUME NEW op \in CfgOps, NEW h \in Channels \cup {NoChannel}, NEW cfg \in Config,
           NEW clean \in BOOLEAN
    PROVE  /\ ACfgCall(op, h, cfg, clean) \in CfgCall
           /\ ACfgCall(op, h, cfg, clean).op = op
           /\ ACfgCall(op, h, cfg, clean).hid = h
           /\ ACfgCall(op, h, cfg, clean).cfg = cfg
           /\ ACfgCall(op, h, cfg, clean).clean = clean
           /\ ~ACfgCall(op, h, cfg, clean).served
BY DEF ACfgCall, CfgCall

\* The load of the page is a call that names no channel.
LEMMA LoadAllOK ==
    LoadAll \in CfgCall /\ LoadAll.op = "load" /\ ~LoadAll.served /\ NamesChannel(LoadAll)
<1>1. "load" \in CfgOps /\ NoChannel \in Channels \cup {NoChannel} /\ FALSE \in BOOLEAN
  BY DEF CfgOps
<1>2. LoadAll \in CfgCall
  BY <1>1, EmptyIsConfig DEF LoadAll, ACfgCall, CfgCall
<1>3. LoadAll.op = "load" /\ ~LoadAll.served
  BY DEF LoadAll, ACfgCall
<1> QED
  BY <1>2, <1>3 DEF NamesChannel

\* A call is made.
LEMMA SendOne ==
    ASSUME ChannelTyped, NEW c \in CfgCall, SendCfg(c)
    PROVE  \E i \in CfgSlot :
              /\ ~Asked(i) /\ asks'[i] = c
              /\ \A j \in CfgSlot \ {i} : asks'[j] = asks[j]
              /\ asks' \in [CfgSlot -> CfgCall \cup {NoAsk, AskOver}]
              /\ stale' \in [mixed: BOOLEAN, missed: BOOLEAN]
              /\ stale'.missed = stale.missed
              /\ stale'.mixed \/ /\ ~stale.mixed
                                 /\ \A j \in CfgSlot : Asked(j) => c.op # "get" /\ asks[j].op # "get"
<1>1. PICK i \in CfgSlot : asks[i] = NoAsk /\ asks' = [asks EXCEPT ![i] = c]
  BY DEF SendCfg
<1>2. ~Asked(i)
  BY <1>1, SlotsOK DEF Asked
<1>3. /\ asks'[i] = c /\ \A j \in CfgSlot \ {i} : asks'[j] = asks[j]
      /\ asks' \in [CfgSlot -> CfgCall \cup {NoAsk, AskOver}]
  BY <1>1, SlotsOK
<1> DEFINE mix == \E j \in CfgSlot : Asked(j) /\ "get" \in {c.op, asks[j].op}
<1>4. stale' = [stale EXCEPT !.mixed = stale.mixed \/ mix]
  BY DEF SendCfg
<1>5. stale \in [mixed: BOOLEAN, missed: BOOLEAN]
  BY DEF ChannelTyped, ChannelTypeOK
<1>6. ~mix => \A j \in CfgSlot : Asked(j) => c.op # "get" /\ asks[j].op # "get"
  OBVIOUS
<1> HIDE DEF mix
<1>7. /\ stale' \in [mixed: BOOLEAN, missed: BOOLEAN] /\ stale'.missed = stale.missed
      /\ stale'.mixed = (stale.mixed \/ mix)
  BY <1>4, <1>5
<1> QED
  BY <1>2, <1>3, <1>6, <1>7

\* The call of a slot is replaced.
LEMMA SlotPut ==
    ASSUME ChannelTyped, NEW i \in CfgSlot, NEW k \in CfgCall \cup {NoAsk, AskOver},
           asks' = [asks EXCEPT ![i] = k]
    PROVE  /\ asks'[i] = k /\ \A j \in CfgSlot \ {i} : asks'[j] = asks[j]
           /\ asks' \in [CfgSlot -> CfgCall \cup {NoAsk, AskOver}]
           /\ \A j \in CfgSlot \ {i} : Asked(j)' <=> Asked(j)
           /\ Asked(i)' <=> k.op \in CfgOps
<1>1. /\ asks'[i] = k /\ \A j \in CfgSlot \ {i} : asks'[j] = asks[j]
      /\ asks' \in [CfgSlot -> CfgCall \cup {NoAsk, AskOver}]
  BY SlotsOK
<1> QED
  BY <1>1 DEF Asked

-----------------------------------------------------------------------------
(* ChannelConfig: types.                                                   *)

\* Of the types only the dialog changes.
LEMMA DialogTyped ==
    ASSUME ChannelTyped, UNCHANGED <<global, own, listed, cbusy, asks, stale>>,
           gform' \in Config, gtyped' \in BOOLEAN, dialog' \in Dialog,
           dialog'.shown \/ dialog'.ask = "hid" => dialog'.hid \in Channels
    PROVE  ChannelTyped'
BY DEF ChannelTyped, ChannelTypeOK, Asked, NamesChannel

\* A call for a channel is there, the dialog of a channel is open.
LEMMA SentTyped ==
    ASSUME ChannelTyped, NEW c \in CfgCall, NamesChannel(c), SendCfg(c),
           UNCHANGED <<global, own, gform, gtyped, listed>>, cbusy' \subseteq {"loading"},
           dialog' \in Dialog,
           dialog'.shown \/ dialog'.ask = "hid" => dialog'.hid \in Channels
    PROVE  ChannelTyped'
<1>1. PICK i \in CfgSlot :
              /\ ~Asked(i) /\ asks'[i] = c
              /\ \A j \in CfgSlot \ {i} : asks'[j] = asks[j]
              /\ asks' \in [CfgSlot -> CfgCall \cup {NoAsk, AskOver}]
              /\ stale' \in [mixed: BOOLEAN, missed: BOOLEAN]
  BY SendOne
<1>2. ChannelTypeOK'
  BY <1>1 DEF ChannelTyped, ChannelTypeOK
<1>3. \A j \in CfgSlot : Asked(j)' => NamesChannel(asks[j])'
  BY <1>1 DEF ChannelTyped, Asked, NamesChannel
<1> QED
  BY <1>2, <1>3 DEF ChannelTyped

\* The call of a slot goes on or is over.
LEMMA PutTyped ==
    ASSUME ChannelTyped, NEW i \in CfgSlot, NEW k \in CfgCall \cup {NoAsk, AskOver},
           asks' = [asks EXCEPT ![i] = k], k.op \in CfgOps => NamesChannel(k),
           global' \in Config, own' \in [Channels -> Config], gform' \in Config,
           gtyped' \in BOOLEAN, listed' \subseteq Channels, cbusy' \subseteq {"loading"},
           stale' \in [mixed: BOOLEAN, missed: BOOLEAN], dialog' \in Dialog,
           dialog'.shown \/ dialog'.ask = "hid" => dialog'.hid \in Channels
    PROVE  ChannelTyped'
<1>1. /\ asks'[i] = k /\ \A j \in CfgSlot \ {i} : asks'[j] = asks[j]
      /\ asks' \in [CfgSlot -> CfgCall \cup {NoAsk, AskOver}]
  BY SlotPut
<1>2. ChannelTypeOK'
  BY <1>1 DEF ChannelTyped, ChannelTypeOK
<1>3. \A j \in CfgSlot : Asked(j)' => NamesChannel(asks[j])'
  BY <1>1 DEF ChannelTyped, Asked, NamesChannel
<1> QED
  BY <1>2, <1>3 DEF ChannelTyped

\* The page of the channels starts typed and in step with the server.
LEMMA ChannelStart == ChannelInit => ChannelTyped /\ ChannelInv
<1> SUFFICES ASSUME ChannelInit PROVE ChannelTyped /\ ChannelInv
  OBVIOUS
<1>1. asks = [i \in CfgSlot |-> IF i = 1 THEN LoadAll ELSE NoAsk]
  BY DEF ChannelInit
<1>2. /\ asks \in [CfgSlot -> CfgCall \cup {NoAsk, AskOver}]
      /\ \A i \in CfgSlot : asks[i] = IF i = 1 THEN LoadAll ELSE NoAsk
  BY <1>1, LoadAllOK
<1>3. \A i \in CfgSlot : Asked(i) => i = 1 /\ asks[i] = LoadAll
  <2>1. NoAsk.op \notin CfgOps
    BY DEF NoAsk, CfgOps
  <2> QED
    BY <1>2, <2>1 DEF Asked
<1>4. /\ dialog = [shown |-> FALSE, hid |-> NoChannel, form |-> EmptyConfig,
                   clean |-> FALSE, ask |-> "none"]
      /\ dialog \in Dialog /\ ~dialog.shown /\ dialog.ask = "none"
  BY EmptyIsConfig DEF ChannelInit, Dialog
<1>5. stale \in [mixed: BOOLEAN, missed: BOOLEAN] /\ stale.missed /\ "loading" \in cbusy
  BY DEF ChannelInit
<1>6. ChannelTypeOK
  BY <1>2, <1>4, <1>5, EmptyIsConfig DEF ChannelInit, ChannelTypeOK
<1>7. ChannelTyped
  BY <1>3, <1>4, <1>6, LoadAllOK DEF ChannelTyped
<1>8. ChannelPageHolds
  BY <1>3, <1>5, LoadAllOK DEF ChannelPageHolds, FlagHeld, LoadsTell, LoadTells, ListHolds, FormHolds,
                              HoldsFlag
<1>9. Unmixed
  BY <1>3, <1>4, <1>5, LoadAllOK DEF Unmixed, AloneHolds, DialogFits, GetTells, Closed, SaveFits
<1> QED
  BY <1>4, <1>7, <1>8, <1>9 DEF ChannelInv

\* The forms and the dialog, while no call begins or ends.
LEMMA FormStepTyped ==
    ASSUME ChannelTyped,
           \/ EditGlobal \/ CancelReset \/ (\E what \in {"global", "hid"} : AskReset(what))
           \/ EditChannel \/ CloseChannel
    PROVE  ChannelTyped'
<1>0. /\ dialog \in Dialog /\ dialog.form \in Config /\ gform \in Config /\ gtyped \in BOOLEAN
      /\ dialog.shown \/ dialog.ask = "hid" => dialog.hid \in Channels
  BY DEF ChannelTyped, ChannelTypeOK, Dialog
<1>1. CASE EditGlobal
  <2>1. PICK k \in CfgKeys, v \in CfgValues \cup {Unset} : gform' = [gform EXCEPT ![k] = v]
    BY <1>1 DEF EditGlobal
  <2>2. gform' \in Config
    BY <1>0, <2>1 DEF Config
  <2> QED
    BY <1>0, <1>1, <2>2, DialogTyped DEF EditGlobal
<1>2. CASE CancelReset
  <2>1. dialog' \in Dialog /\ dialog'.shown = dialog.shown /\ dialog'.hid = dialog.hid /\ dialog'.ask = "none"
    BY <1>0, <1>2 DEF CancelReset, Dialog
  <2> QED
    BY <1>0, <1>2, <2>1, DialogTyped DEF CancelReset
<1>3. ASSUME NEW what \in {"global", "hid"}, AskReset(what) PROVE ChannelTyped'
  <2>1. dialog' = [dialog EXCEPT !.ask = what] /\ (what = "hid" => dialog.shown)
    BY <1>3 DEF AskReset
  <2>2. dialog' \in Dialog /\ dialog'.shown = dialog.shown /\ dialog'.hid = dialog.hid /\ dialog'.ask = what
    BY <1>0, <2>1 DEF Dialog
  <2> QED
    BY <1>0, <1>3, <2>1, <2>2, DialogTyped DEF AskReset
<1>4. CASE EditChannel
  <2>1. PICK k \in CfgKeys, v \in CfgValues \cup {Unset} :
            dialog' = [dialog EXCEPT !.form[k] = v, !.clean = FALSE]
    BY <1>4 DEF EditChannel
  <2> DEFINE f == [dialog.form EXCEPT ![k] = v]
  <2>2. f \in Config /\ dialog' = [dialog EXCEPT !.form = f, !.clean = FALSE]
    BY <1>0, <2>1 DEF Config, Dialog
  <2> HIDE DEF f
  <2>3. dialog' \in Dialog /\ dialog'.shown = dialog.shown /\ dialog'.hid = dialog.hid /\ dialog'.ask = dialog.ask
    BY <1>0, <2>2 DEF Dialog
  <2> QED
    BY <1>0, <1>4, <2>3, DialogTyped DEF EditChannel
<1>5. CASE CloseChannel
  <2>1. dialog' \in Dialog /\ dialog'.hid = dialog.hid /\ dialog'.ask = dialog.ask
        /\ dialog.shown
    BY <1>0, <1>5 DEF CloseChannel, Dialog
  <2> QED
    BY <1>0, <1>5, <2>1, DialogTyped DEF CloseChannel
<1> QED
  BY <1>1, <1>2, <1>3, <1>4, <1>5

\* What the handlers answer is a configuration, and what they store.
LEMMA CallServed ==
    ASSUME ChannelTyped, NEW i \in CfgSlot, ServeCfg(i)
    PROVE  /\ asks[i] \in CfgCall /\ asks[i].op \in CfgOps /\ ~asks[i].served
           /\ NamesChannel(asks[i])
           /\ asks'[i] \in CfgCall /\ asks' = [asks EXCEPT ![i] = asks'[i]]
           /\ asks'[i].op = asks[i].op /\ asks'[i].hid = asks[i].hid
           /\ asks'[i].clean = asks[i].clean /\ asks'[i].served
           /\ asks'[i].list = HasConfig /\ asks'[i].cfg = Answered(asks[i])
           /\ global' \in Config /\ own' \in [Channels -> Config]
<1> DEFINE c == asks[i]
           k == [c EXCEPT !.served = TRUE, !.list = HasConfig, !.cfg = Answered(c)]
<1>1. c \in CfgCall /\ c.op \in CfgOps /\ ~c.served /\ NamesChannel(c)
  BY SlotsOK DEF ServeCfg, ChannelTyped
<1>2. asks' = [asks EXCEPT ![i] = k]
  BY DEF ServeCfg
<1>3. Answered(c) \in Config
  <2>1. c.op = "get" => Effective(c.hid) \in Config
    BY <1>1, EffectiveOK DEF NamesChannel
  <2>2. Merge(DefaultCfg, c.cfg) \in Config
    BY <1>1, MergeOK, ChannelAssumption DEF CfgCall, Config
  <2> QED
    BY <2>1, <2>2, GlobalViewOK, EmptyIsConfig DEF Answered
<1>4. HasConfig \in SUBSET Channels
  BY DEF HasConfig
<1>5. global' \in Config /\ own' \in [Channels -> Config]
  <2>1. c.cfg \in Config /\ global \in Config /\ own \in [Channels -> Config]
    BY <1>1 DEF CfgCall, ChannelTyped, ChannelTypeOK
  <2>2. global' \in {c.cfg, EmptyConfig, global}
    BY DEF ServeCfg
  <2>3. own' \in {[own EXCEPT ![c.hid] = c.cfg], [own EXCEPT ![c.hid] = EmptyConfig], own}
    BY DEF ServeCfg
  <2> HIDE DEF c
  <2> QED
    BY <2>1, <2>2, <2>3, EmptyIsConfig
<1>6. asks'[i] = k
  BY <1>2, SlotsOK
<1>7. /\ k \in CfgCall /\ k.op = c.op /\ k.hid = c.hid /\ k.clean = c.clean /\ k.served
      /\ k.list = HasConfig /\ k.cfg = Answered(c)
  <2> HIDE DEF c
  <2> QED
    BY <1>1, <1>3, <1>4 DEF CfgCall
<1> HIDE DEF k
<1> QED
  BY <1>1, <1>2, <1>5, <1>6, <1>7

\* To serve, to answer or to lose a call keeps the types.
LEMMA CallStepTyped ==
    ASSUME ChannelTyped,
           \E i \in CfgSlot : \/ ServeCfg(i) \/ AnswerGlobal(i) \/ AnswerChannel(i)
                              \/ AnswerChange(i) \/ FailCfg(i)
    PROVE  ChannelTyped'
<1>1. PICK i \in CfgSlot : \/ ServeCfg(i) \/ AnswerGlobal(i) \/ AnswerChannel(i)
                           \/ AnswerChange(i) \/ FailCfg(i)
  OBVIOUS
<1>2. /\ global \in Config /\ own \in [Channels -> Config] /\ gform \in Config
      /\ gtyped \in BOOLEAN /\ listed \subseteq Channels /\ cbusy \subseteq {"loading"}
      /\ dialog \in Dialog /\ stale \in [mixed: BOOLEAN, missed: BOOLEAN]
      /\ dialog.shown \/ dialog.ask = "hid" => dialog.hid \in Channels
  BY DEF ChannelTyped, ChannelTypeOK
<1>3. Asked(i) /\ asks[i] \in CfgCall
  BY <1>1, SlotsOK DEF ServeCfg, AnswerGlobal, AnswerChannel, AnswerChange, FailCfg
<1>4. AskOver.op \notin CfgOps /\ AskOver \in CfgCall \cup {NoAsk, AskOver}
  BY SlotsOK
<1>5. CASE ServeCfg(i)
  <2>1. /\ asks'[i] \in CfgCall /\ asks' = [asks EXCEPT ![i] = asks'[i]]
        /\ NamesChannel(asks'[i]) /\ global' \in Config /\ own' \in [Channels -> Config]
    BY <1>5, CallServed DEF NamesChannel
  <2>2. UNCHANGED <<gform, gtyped, listed, dialog, cbusy, stale>>
    BY <1>5 DEF ServeCfg
  <2> QED
    BY <1>2, <2>1, <2>2, PutTyped
<1>6. CASE AnswerGlobal(i)
  <2>1. asks[i].cfg \in Config /\ asks[i].list \subseteq Channels
    BY <1>3 DEF CfgCall
  <2>2. /\ gform' \in Config /\ gtyped' \in BOOLEAN /\ listed' \subseteq Channels
        /\ cbusy' \subseteq {"loading"} /\ asks' = [asks EXCEPT ![i] = AskOver]
        /\ UNCHANGED <<global, own, dialog>>
    BY <1>2, <1>6, <2>1 DEF AnswerGlobal, FillGlobal
  <2>3. stale' \in [mixed: BOOLEAN, missed: BOOLEAN]
    BY <1>2, <1>6 DEF AnswerGlobal
  <2> QED
    BY <1>2, <1>4, <2>2, <2>3, PutTyped
<1>7. CASE AnswerChannel(i)
  <2>1. asks[i].cfg \in Config /\ (asks[i].hid = dialog.hid) \in BOOLEAN
    BY <1>3 DEF CfgCall
  <2>2. dialog' = [dialog EXCEPT !.form = asks[i].cfg, !.clean = (asks[i].hid = dialog.hid)]
    BY <1>7 DEF AnswerChannel
  <2>3. dialog' \in Dialog /\ dialog'.shown = dialog.shown /\ dialog'.hid = dialog.hid /\ dialog'.ask = dialog.ask
    BY <1>2, <2>1, <2>2 DEF Dialog
  <2>4. asks' = [asks EXCEPT ![i] = AskOver] /\ UNCHANGED <<global, own, gform, gtyped, listed, cbusy, stale>>
    BY <1>7 DEF AnswerChannel
  <2> QED
    BY <1>2, <1>4, <2>3, <2>4, PutTyped
<1>8. CASE AnswerChange(i)
  <2>1. dialog' \in Dialog /\ (dialog'.shown => dialog.shown) /\ dialog'.hid = dialog.hid /\ dialog'.ask = dialog.ask
    BY <1>2, <1>8 DEF AnswerChange, Dialog
  <2>2. asks' = [asks EXCEPT ![i] = LoadAll] /\ UNCHANGED <<global, own, gform, gtyped, listed, cbusy, stale>>
    BY <1>8 DEF AnswerChange
  <2> QED
    BY <1>2, <2>1, <2>2, LoadAllOK, PutTyped
<1>9. CASE FailCfg(i)
  <2>1. /\ cbusy' \subseteq {"loading"} /\ asks' = [asks EXCEPT ![i] = AskOver]
        /\ UNCHANGED <<global, own, gform, gtyped, listed, dialog>>
    BY <1>2, <1>9 DEF FailCfg
  <2>2. stale' \in [mixed: BOOLEAN, missed: BOOLEAN]
    BY <1>2, <1>9 DEF FailCfg
  <2> QED
    BY <1>2, <1>4, <2>1, <2>2, PutTyped
<1> QED
  BY <1>1, <1>5, <1>6, <1>7, <1>8, <1>9

\* The clicks that make a call: the types, and the call is a call of its kind.
LEMMA SendStepTyped ==
    ASSUME ChannelTyped,
           \/ RefreshCfg \/ SaveGlobal \/ ConfirmReset \/ SaveHID
           \/ \E h \in Channels : OpenChannel(h)
    PROVE  ChannelTyped'
<1>0. /\ dialog \in Dialog /\ dialog.form \in Config /\ gform \in Config
      /\ dialog.clean \in BOOLEAN /\ cbusy \subseteq {"loading"}
      /\ dialog.hid \in Channels \cup {NoChannel}
      /\ dialog.ask \in {"none", "global", "hid"}
      /\ dialog.shown \/ dialog.ask = "hid" => dialog.hid \in Channels
  BY DEF ChannelTyped, ChannelTypeOK, Dialog
<1>n. NoChannel \in Channels \cup {NoChannel} /\ FALSE \in BOOLEAN /\ EmptyConfig \in Config
  BY EmptyIsConfig
<1>1. CASE RefreshCfg
  <2>1. SendCfg(LoadAll) /\ cbusy' \subseteq {"loading"}
        /\ UNCHANGED <<global, own, gform, gtyped, listed, dialog>>
    BY <1>1 DEF RefreshCfg, SendLoading
  <2> QED
    BY <1>0, <2>1, LoadAllOK, SentTyped
<1>2. CASE SaveGlobal
  <2> DEFINE c == ACfgCall("save global", NoChannel, gform, FALSE)
  <2>1. SendCfg(c) /\ cbusy' \subseteq {"loading"}
        /\ UNCHANGED <<global, own, gform, gtyped, listed, dialog>>
    BY <1>2 DEF SaveGlobal, SendLoading
  <2>2. c \in CfgCall /\ NamesChannel(c)
    BY <1>0, <1>n DEF ACfgCall, CfgCall, CfgOps, NamesChannel
  <2> HIDE DEF c
  <2> QED
    BY <1>0, <2>1, <2>2, SentTyped
<1>3. CASE ConfirmReset
  <2> DEFINE c == IF dialog.ask = "global"
                  THEN ACfgCall("reset global", NoChannel, EmptyConfig, FALSE)
                  ELSE ACfgCall("reset hid", dialog.hid, EmptyConfig, FALSE)
  <2>1. SendCfg(c) /\ cbusy' \subseteq {"loading"}
        /\ UNCHANGED <<global, own, gform, gtyped, listed>>
    BY <1>3 DEF ConfirmReset, SendLoading
  <2>2. c \in CfgCall /\ NamesChannel(c)
    <3>1. CASE dialog.ask = "global"
      <4>1. c = ACfgCall("reset global", NoChannel, EmptyConfig, FALSE)
        BY <3>1
      <4> HIDE DEF c
      <4> QED
        BY <1>n, <4>1 DEF ACfgCall, CfgCall, CfgOps, NamesChannel
    <3>2. CASE dialog.ask = "hid"
      <4>1. c = ACfgCall("reset hid", dialog.hid, EmptyConfig, FALSE) /\ dialog.hid \in Channels
        BY <1>0, <3>2
      <4> HIDE DEF c
      <4> QED
        BY <1>n, <4>1 DEF ACfgCall, CfgCall, CfgOps, NamesChannel
    <3> QED
      BY <1>0, <1>3, <3>1, <3>2 DEF ConfirmReset
  <2> HIDE DEF c
  <2>3. dialog' \in Dialog /\ dialog'.shown = dialog.shown /\ dialog'.hid = dialog.hid /\ dialog'.ask = "none"
    BY <1>0, <1>3 DEF ConfirmReset, Dialog
  <2> QED
    BY <1>0, <2>1, <2>2, <2>3, SentTyped
<1>4. CASE SaveHID
  <2> DEFINE c == ACfgCall("save hid", dialog.hid, dialog.form, dialog.clean)
  <2>1. SendCfg(c) /\ cbusy' \subseteq {"loading"} /\ dialog.shown
        /\ UNCHANGED <<global, own, gform, gtyped, listed, dialog>>
    BY <1>4 DEF SaveHID, SendLoading
  <2>2. c \in CfgCall /\ NamesChannel(c)
    BY <1>0, <2>1 DEF ACfgCall, CfgCall, CfgOps, NamesChannel
  <2> HIDE DEF c
  <2> QED
    BY <1>0, <2>1, <2>2, SentTyped
<1>5. ASSUME NEW h \in Channels, OpenChannel(h) PROVE ChannelTyped'
  <2> DEFINE c == ACfgCall("get", h, EmptyConfig, FALSE)
  <2>1. SendCfg(c) /\ UNCHANGED <<global, own, gform, gtyped, listed, cbusy>>
    BY <1>5 DEF OpenChannel
  <2>2. c \in CfgCall /\ NamesChannel(c)
    BY <1>n DEF ACfgCall, CfgCall, CfgOps, NamesChannel
  <2> HIDE DEF c
  <2>3. dialog' \in Dialog /\ dialog'.hid \in Channels
    BY <1>5, <1>n DEF OpenChannel, Dialog
  <2> QED
    BY <1>0, <2>1, <2>2, <2>3, SentTyped
<1> QED
  BY <1>1, <1>2, <1>3, <1>4, <1>5

\* Every step keeps the types.
LEMMA ChannelTypedStep == ASSUME ChannelTyped, [ChannelNext]_channelVars PROVE ChannelTyped'
<1>1. CASE UNCHANGED channelVars
  BY <1>1 DEF channelVars, ChannelTyped, ChannelTypeOK, Asked, NamesChannel
<1> QED
  BY <1>1, FormStepTyped, CallStepTyped, SendStepTyped DEF ChannelNext

-----------------------------------------------------------------------------
(* ChannelConfig: what the page shows.                                     *)

\* A step of the forms: no call begins or ends.
LEMMA FormStep ==
    ASSUME ChannelTyped, ChannelInv,
           \/ EditGlobal \/ CancelReset \/ (\E what \in {"global", "hid"} : AskReset(what))
           \/ EditChannel \/ CloseChannel
    PROVE  ChannelInv'
<1>1. /\ UNCHANGED <<global, own, listed, cbusy, asks, stale>>
      /\ gtyped' \/ UNCHANGED <<gform, gtyped>>
  BY DEF EditGlobal, CancelReset, AskReset, EditChannel, CloseChannel
<1>2. dialog \in Dialog
  BY DEF ChannelTyped, ChannelTypeOK
<1>3. /\ dialog'.shown => dialog.shown
      /\ dialog'.clean => dialog.clean
      /\ dialog'.shown /\ dialog'.clean => dialog'.form = dialog.form /\ dialog'.hid = dialog.hid
      /\ dialog'.ask = "global" => ~dialog'.shown
  <2>1. CASE EditGlobal
    BY <2>1 DEF EditGlobal, ChannelInv
  <2>2. CASE CancelReset
    BY <1>2, <2>2 DEF CancelReset, Dialog
  <2>3. ASSUME NEW what \in {"global", "hid"}, AskReset(what)
        PROVE /\ dialog'.shown = dialog.shown /\ dialog'.clean = dialog.clean
              /\ dialog'.form = dialog.form /\ dialog'.hid = dialog.hid
              /\ dialog'.ask = "global" => ~dialog'.shown
    BY <1>2, <2>3 DEF AskReset, Dialog
  <2>4. CASE EditChannel
    <3>1. PICK f : dialog' = [dialog EXCEPT !.form = f, !.clean = FALSE] /\ dialog.ask = "none"
      <4>1. PICK k \in CfgKeys, v \in CfgValues \cup {Unset} :
                dialog' = [dialog EXCEPT !.form[k] = v, !.clean = FALSE] /\ dialog.ask = "none"
        BY <2>4 DEF EditChannel
      <4> QED
        BY <1>2, <4>1 DEF Dialog
    <3> QED
      BY <1>2, <3>1 DEF Dialog
  <2>5. CASE CloseChannel
    BY <1>2, <2>5 DEF CloseChannel, Dialog
  <2> QED
    BY <2>1, <2>2, <2>3, <2>4, <2>5
<1>4. ChannelPageHolds'
  BY <1>1 DEF ChannelInv, ChannelPageHolds, FlagHeld, LoadsTell, LoadTells, ListHolds, FormHolds,
              HoldsFlag, Asked, GlobalView, HasConfig
<1>5. Unmixed'
  <2> SUFFICES ASSUME ~stale'.mixed
               PROVE  /\ AloneHolds' /\ DialogFits'
                      /\ \A i \in CfgSlot : Asked(i)' => (GetTells(asks[i]) /\ Closed(asks[i]) /\ SaveFits(asks[i]))'
    BY DEF Unmixed
  <2>1. /\ AloneHolds /\ DialogFits
        /\ \A i \in CfgSlot : Asked(i) => GetTells(asks[i]) /\ Closed(asks[i]) /\ SaveFits(asks[i])
    BY <1>1 DEF ChannelInv, Unmixed
  <2>2. AloneHolds'
    BY <1>1, <2>1 DEF AloneHolds, Asked
  <2>3. DialogFits'
    BY <1>1, <1>3, <2>1 DEF DialogFits, Asked, Effective, GlobalView
  <2>4. ASSUME NEW i \in CfgSlot, Asked(i)'
        PROVE  (GetTells(asks[i]) /\ Closed(asks[i]) /\ SaveFits(asks[i]))'
    <3>1. GetTells(asks[i]) /\ Closed(asks[i]) /\ SaveFits(asks[i])
      BY <1>1, <2>1, <2>4 DEF Asked
    <3>2. GetTells(asks[i])'
      BY <1>1, <3>1 DEF GetTells, Effective, GlobalView
    <3>3. Closed(asks[i])'
      BY <1>1, <1>3, <3>1 DEF Closed
    <3>4. SaveFits(asks[i])'
      BY <1>1, <1>3, <3>1 DEF SaveFits, Effective, GlobalView
    <3> QED
      BY <3>2, <3>3, <3>4
  <2> QED
    BY <2>2, <2>3, <2>4
<1> QED
  BY <1>3, <1>4, <1>5 DEF ChannelInv

\* A call that holds the flag is made.
LEMMA SendHolds ==
    ASSUME ChannelTyped, ChannelInv, NEW c \in CfgCall, ~c.served, c.op # "get",
           SendLoading(c), UNCHANGED <<global, own, gform, gtyped, listed>>,
           dialog'.shown = dialog.shown, dialog'.hid = dialog.hid,
           dialog'.form = dialog.form, dialog'.clean = dialog.clean,
           dialog'.ask = "global" => ~dialog'.shown,
           Closed(c),
           c.op = "save hid" => /\ c.hid = dialog.hid /\ c.cfg = dialog.form
                                /\ c.clean = dialog.clean /\ dialog.shown
    PROVE  ChannelInv'
<1>1. PICK i \in CfgSlot :
              /\ ~Asked(i) /\ asks'[i] = c
              /\ \A j \in CfgSlot \ {i} : asks'[j] = asks[j]
              /\ stale'.missed = stale.missed
              /\ stale'.mixed \/ /\ ~stale.mixed
                                 /\ \A j \in CfgSlot : Asked(j) => c.op # "get" /\ asks[j].op # "get"
  BY SendOne DEF SendLoading
<1>2. /\ \A j \in CfgSlot : ~HoldsFlag(j)
      /\ cbusy' = {"loading"}
  BY DEF ChannelInv, ChannelPageHolds, FlagHeld, SendLoading
<1>3. \A j \in CfgSlot : HoldsFlag(j)' => j = i
  BY <1>1, <1>2 DEF HoldsFlag, Asked
<1>4. \A j \in CfgSlot : Asked(j)' => j = i \/ (Asked(j) /\ asks'[j] = asks[j] /\ asks[j].op = "get")
  BY <1>1, <1>2 DEF Asked, HoldsFlag
<1>5. ChannelPageHolds'
  <2>1. FlagHeld'
    BY <1>2, <1>3 DEF FlagHeld
  <2>2. LoadsTell'
    BY <1>1, <1>4 DEF LoadsTell, LoadTells
  <2>3. ListHolds'
    BY <1>1, <1>2 DEF ListHolds, HasConfig, ChannelInv, ChannelPageHolds
  <2>4. FormHolds'
    BY <1>2 DEF FormHolds
  <2> QED
    BY <2>1, <2>2, <2>3, <2>4 DEF ChannelPageHolds
<1>6. Unmixed'
  <2> SUFFICES ASSUME ~stale'.mixed
               PROVE  /\ AloneHolds' /\ DialogFits'
                      /\ \A j \in CfgSlot : Asked(j)' => (GetTells(asks[j]) /\ Closed(asks[j]) /\ SaveFits(asks[j]))'
    BY DEF Unmixed
  <2>1. ~stale.mixed /\ \A j \in CfgSlot : Asked(j)' => j = i
    BY <1>1, <1>4
  <2>2. AloneHolds'
    BY <2>1 DEF AloneHolds
  <2>3. DialogFits /\ \A j \in CfgSlot : ~(Asked(j) /\ asks[j].op = "reset hid")
    BY <1>2, <2>1 DEF ChannelInv, Unmixed, HoldsFlag
  <2>4. dialog.shown /\ dialog.clean /\ ~stale.missed => dialog.form = Effective(dialog.hid)
    BY <2>3 DEF DialogFits
  <2>5. DialogFits'
    BY <1>1, <2>4 DEF DialogFits, Effective, GlobalView
  <2>6. GetTells(asks[i])'
    BY <1>1 DEF GetTells
  <2>7. Closed(asks[i])'
    BY <1>1 DEF Closed
  <2>8. SaveFits(asks[i])'
    BY <1>1, <2>4 DEF SaveFits, Effective, GlobalView
  <2> QED
    BY <2>1, <2>2, <2>5, <2>6, <2>7, <2>8
<1> QED
  BY <1>5, <1>6 DEF ChannelInv

\* A click that sends a call keeps the invariant.
LEMMA SendStep ==
    ASSUME ChannelTyped, ChannelInv, RefreshCfg \/ SaveGlobal \/ ConfirmReset \/ SaveHID
    PROVE  ChannelInv'
<1>0. /\ dialog \in Dialog /\ dialog.form \in Config /\ gform \in Config
      /\ dialog.clean \in BOOLEAN
      /\ dialog.hid \in Channels \cup {NoChannel}
      /\ dialog.ask \in {"none", "global", "hid"}
      /\ dialog.shown \/ dialog.ask = "hid" => dialog.hid \in Channels
      /\ dialog.ask = "global" => ~dialog.shown
  BY DEF ChannelTyped, ChannelTypeOK, Dialog, ChannelInv
<1>n. NoChannel \in Channels \cup {NoChannel} /\ FALSE \in BOOLEAN /\ EmptyConfig \in Config
  BY EmptyIsConfig
<1>1. CASE RefreshCfg
  <2>1. SendLoading(LoadAll) /\ UNCHANGED <<global, own, gform, gtyped, listed, dialog>> /\ ~dialog.shown
    BY <1>1 DEF RefreshCfg, AtPage
  <2>2. LoadAll \in CfgCall /\ ~LoadAll.served /\ LoadAll.op = "load"
    BY LoadAllOK
  <2> QED
    BY <1>0, <2>1, <2>2, SendHolds DEF Closed
<1>2. CASE SaveGlobal
  <2> DEFINE c == ACfgCall("save global", NoChannel, gform, FALSE)
  <2>1. SendLoading(c) /\ ~dialog.shown
        /\ UNCHANGED <<global, own, gform, gtyped, listed, dialog>>
    BY <1>2 DEF SaveGlobal, AtPage
  <2>2. c \in CfgCall /\ ~c.served /\ c.op = "save global"
    BY <1>0, <1>n DEF ACfgCall, CfgCall, CfgOps
  <2> HIDE DEF c
  <2> QED
    BY <1>0, <2>1, <2>2, SendHolds DEF Closed
<1>3. CASE ConfirmReset
  <2> DEFINE c == IF dialog.ask = "global"
                  THEN ACfgCall("reset global", NoChannel, EmptyConfig, FALSE)
                  ELSE ACfgCall("reset hid", dialog.hid, EmptyConfig, FALSE)
  <2>1. SendLoading(c) /\ UNCHANGED <<global, own, gform, gtyped, listed>>
    BY <1>3 DEF ConfirmReset
  <2>2. /\ c \in CfgCall /\ ~c.served /\ c.op \in {"reset global", "reset hid"}
        /\ c.op = "reset global" => ~dialog.shown
    <3>1. CASE dialog.ask = "global"
      <4>1. c = ACfgCall("reset global", NoChannel, EmptyConfig, FALSE)
        BY <3>1
      <4> HIDE DEF c
      <4> QED
        BY <1>0, <1>n, <3>1, <4>1 DEF ACfgCall, CfgCall, CfgOps
    <3>2. CASE dialog.ask = "hid"
      <4>1. c = ACfgCall("reset hid", dialog.hid, EmptyConfig, FALSE) /\ dialog.hid \in Channels
        BY <1>0, <3>2
      <4> HIDE DEF c
      <4> QED
        BY <1>n, <4>1 DEF ACfgCall, CfgCall, CfgOps
    <3> QED
      BY <1>0, <1>3, <3>1, <3>2 DEF ConfirmReset
  <2> HIDE DEF c
  <2>3. dialog'.shown = dialog.shown /\ dialog'.hid = dialog.hid /\ dialog'.ask = "none"
        /\ dialog'.form = dialog.form /\ dialog'.clean = dialog.clean
    BY <1>0, <1>3 DEF ConfirmReset, Dialog
  <2>4. Closed(c) /\ c.op # "save hid" /\ c.op # "get"
    BY <2>2 DEF Closed
  <2> QED
    BY <2>1, <2>2, <2>3, <2>4, SendHolds
<1>4. CASE SaveHID
  <2> DEFINE c == ACfgCall("save hid", dialog.hid, dialog.form, dialog.clean)
  <2>1. SendLoading(c) /\ dialog.shown
        /\ UNCHANGED <<global, own, gform, gtyped, listed, dialog>>
    BY <1>4 DEF SaveHID
  <2>2. c \in CfgCall /\ ~c.served /\ c.op = "save hid" /\ c.hid = dialog.hid
        /\ c.cfg = dialog.form /\ c.clean = dialog.clean
    BY <1>0, <2>1 DEF ACfgCall, CfgCall, CfgOps
  <2> HIDE DEF c
  <2>3. Closed(c)
    BY <2>2 DEF Closed
  <2> QED
    BY <1>0, <2>1, <2>2, <2>3, SendHolds
<1> QED
  BY <1>1, <1>2, <1>3, <1>4

\* So does one that opens the dialog of a channel.
LEMMA OpenStep ==
    ASSUME ChannelTyped, ChannelInv, NEW h \in Channels, OpenChannel(h)
    PROVE  ChannelInv'
<1> DEFINE c == ACfgCall("get", h, EmptyConfig, FALSE)
<1>1. /\ c \in CfgCall /\ ~c.served /\ c.op = "get"
  BY EmptyIsConfig DEF ACfgCall, CfgCall, CfgOps
<1>2. SendCfg(c) /\ UNCHANGED <<global, own, gform, gtyped, listed, cbusy>>
      /\ ~dialog'.clean /\ dialog'.ask = "none"
  BY DEF OpenChannel
<1> HIDE DEF c
<1>3. PICK i \in CfgSlot :
              /\ ~Asked(i) /\ asks'[i] = c
              /\ \A j \in CfgSlot \ {i} : asks'[j] = asks[j]
              /\ stale'.missed = stale.missed
              /\ stale'.mixed \/ \A j \in CfgSlot : ~Asked(j)
  BY <1>1, <1>2, SendOne
<1>4. \A j \in CfgSlot : HoldsFlag(j)' => HoldsFlag(j) /\ asks'[j] = asks[j]
  BY <1>1, <1>3 DEF HoldsFlag, Asked
<1>5. \A j \in CfgSlot : HoldsFlag(j) => HoldsFlag(j)' /\ asks'[j] = asks[j]
  BY <1>3 DEF HoldsFlag, Asked
<1>6. ChannelPageHolds'
  <2>1. FlagHeld'
    BY <1>2, <1>4 DEF FlagHeld, ChannelInv, ChannelPageHolds
  <2>2. LoadsTell'
    BY <1>1, <1>2, <1>3 DEF LoadsTell, LoadTells, ChannelInv, ChannelPageHolds, Asked, GlobalView, HasConfig
  <2>3. ListHolds'
    BY <1>2, <1>3, <1>5 DEF ListHolds, HasConfig, ChannelInv, ChannelPageHolds
  <2>4. FormHolds'
    BY <1>2, <1>3 DEF FormHolds, ChannelInv, ChannelPageHolds, GlobalView
  <2> QED
    BY <2>1, <2>2, <2>3, <2>4 DEF ChannelPageHolds
<1>7. Unmixed'
  <2> SUFFICES ASSUME ~stale'.mixed
               PROVE  /\ AloneHolds' /\ DialogFits'
                      /\ \A j \in CfgSlot : Asked(j)' => (GetTells(asks[j]) /\ Closed(asks[j]) /\ SaveFits(asks[j]))'
    BY DEF Unmixed
  <2>1. \A j \in CfgSlot : Asked(j)' => j = i
    BY <1>3 DEF Asked
  <2>2. AloneHolds'
    BY <2>1 DEF AloneHolds
  <2>3. DialogFits'
    BY <1>2 DEF DialogFits
  <2>4. (GetTells(asks[i]) /\ Closed(asks[i]) /\ SaveFits(asks[i]))'
    BY <1>1, <1>3 DEF GetTells, Closed, SaveFits
  <2> QED
    BY <2>1, <2>2, <2>3, <2>4
<1> QED
  BY <1>2, <1>6, <1>7 DEF ChannelInv

\* What is known when nothing was mixed.
LEMMA UnmixedNow ==
    ASSUME ChannelInv, ~stale.mixed
    PROVE  /\ AloneHolds /\ DialogFits
           /\ \A j \in CfgSlot : Asked(j) => GetTells(asks[j]) /\ Closed(asks[j]) /\ SaveFits(asks[j])
BY DEF ChannelInv, Unmixed

\* A handler for the values that are asked for changes nothing.
LEMMA ServeLoadStep ==
    ASSUME ChannelTyped, ChannelInv, NEW i \in CfgSlot, ServeCfg(i),
           asks[i].op \in {"load", "get"}
    PROVE  ChannelInv'
<1>1. /\ Asked(i) /\ asks'[i].op = asks[i].op /\ asks'[i].hid = asks[i].hid
      /\ asks'[i].list = HasConfig /\ asks'[i].cfg = Answered(asks[i])
      /\ asks' = [asks EXCEPT ![i] = asks'[i]] /\ asks'[i] \in CfgCall
  BY CallServed DEF ServeCfg
<1>2. /\ \A j \in CfgSlot \ {i} : asks'[j] = asks[j]
      /\ \A j \in CfgSlot : /\ Asked(j)' <=> Asked(j)
                            /\ asks'[j].op = asks[j].op
  BY <1>1, SlotPut, CallServed DEF Asked
<1>3. UNCHANGED <<global, own, gform, gtyped, listed, dialog, cbusy, stale>>
  BY DEF ServeCfg
<1>4. ChannelPageHolds'
  <2>1. FlagHeld'
    BY <1>2, <1>3 DEF FlagHeld, HoldsFlag, ChannelInv, ChannelPageHolds
  <2>2. LoadTells(asks[i])'
    <3>1. asks[i].op = "load" => asks'[i].cfg = GlobalView
      BY <1>1 DEF Answered
    <3> QED
      BY <1>1, <1>3, <3>1 DEF LoadTells, GlobalView, HasConfig
  <2>3. LoadsTell'
    BY <1>2, <1>3, <2>2 DEF LoadsTell, LoadTells, GlobalView, HasConfig, ChannelInv, ChannelPageHolds
  <2>4. ListHolds'
    BY <1>2, <1>3 DEF ListHolds, HoldsFlag, HasConfig, ChannelInv, ChannelPageHolds
  <2>5. FormHolds'
    BY <1>3 DEF FormHolds, GlobalView, ChannelInv, ChannelPageHolds
  <2> QED
    BY <2>1, <2>3, <2>4, <2>5 DEF ChannelPageHolds
<1>5. Unmixed'
  <2> SUFFICES ASSUME ~stale'.mixed
               PROVE  /\ AloneHolds' /\ DialogFits'
                      /\ \A j \in CfgSlot : Asked(j)' => (GetTells(asks[j]) /\ Closed(asks[j]) /\ SaveFits(asks[j]))'
    BY DEF Unmixed
  <2>1. /\ AloneHolds /\ DialogFits
        /\ \A j \in CfgSlot : Asked(j) => GetTells(asks[j]) /\ Closed(asks[j]) /\ SaveFits(asks[j])
    BY <1>3, UnmixedNow
  <2>2. AloneHolds'
    BY <1>2, <2>1 DEF AloneHolds
  <2>3. DialogFits'
    <3>1. ASSUME NEW j \in CfgSlot, Asked(j), asks[j].op = "reset hid" PROVE asks'[j] = asks[j]
      BY <1>2, <3>1
    <3> QED
      BY <1>2, <1>3, <2>1, <3>1 DEF DialogFits, Effective, GlobalView
  <2>4. GetTells(asks[i])'
    <3>1. asks[i].op = "get" => asks'[i].cfg = Effective(asks[i].hid)
      BY <1>1 DEF Answered
    <3> QED
      BY <1>1, <1>3, <3>1 DEF GetTells, Effective, GlobalView
  <2>5. (Closed(asks[i]) /\ SaveFits(asks[i]))'
    BY <1>1, <1>3, <2>1 DEF Closed, SaveFits
  <2>6. ASSUME NEW j \in CfgSlot \ {i}, Asked(j)
        PROVE  (GetTells(asks[j]) /\ Closed(asks[j]) /\ SaveFits(asks[j]))'
    <3>1. GetTells(asks[j]) /\ Closed(asks[j]) /\ SaveFits(asks[j]) /\ asks'[j] = asks[j]
      BY <1>2, <2>1, <2>6
    <3> QED
      BY <1>3, <3>1 DEF GetTells, Closed, SaveFits, Effective, GlobalView
  <2> QED
    BY <1>2, <2>2, <2>3, <2>4, <2>5, <2>6
<1> QED
  BY <1>3, <1>4, <1>5 DEF ChannelInv

\* A handler that changes something is alone with its call.
LEMMA ServeChangeStep ==
    ASSUME ChannelTyped, ChannelInv, NEW i \in CfgSlot, ServeCfg(i), asks[i].op \in CfgWrites
    PROVE  ChannelInv'
<1> DEFINE c == asks[i]
<1>1. /\ Asked(i) /\ asks'[i].op = c.op /\ asks'[i].hid = c.hid /\ asks'[i].clean = c.clean
      /\ asks'[i].served /\ asks'[i].cfg = Answered(c) /\ ~c.served /\ NamesChannel(c)
      /\ asks' = [asks EXCEPT ![i] = asks'[i]] /\ asks'[i] \in CfgCall
  BY CallServed DEF ServeCfg
<1>2. /\ \A j \in CfgSlot \ {i} : asks'[j] = asks[j]
      /\ \A j \in CfgSlot : /\ Asked(j)' <=> Asked(j)
                            /\ asks'[j].op = asks[j].op
  BY <1>1, SlotPut, CallServed DEF Asked
<1>3. UNCHANGED <<gform, gtyped, listed, dialog, cbusy, stale>>
  BY DEF ServeCfg
<1>4. /\ HoldsFlag(i) /\ \A j \in CfgSlot : HoldsFlag(j) => j = i
      /\ "loading" \in cbusy
  BY <1>1 DEF ChannelInv, ChannelPageHolds, FlagHeld, HoldsFlag, CfgWrites
<1>5. \A j \in CfgSlot : HoldsFlag(j)' => j = i
  BY <1>2, <1>4 DEF HoldsFlag
<1>6. ChannelPageHolds'
  <2>1. FlagHeld'
    BY <1>3, <1>4, <1>5 DEF FlagHeld
  <2>2. LoadsTell'
    <3>1. c.op = "save global" => asks'[i].cfg = Merge(DefaultCfg, c.cfg) /\ global' = c.cfg
      BY <1>1 DEF Answered, ServeCfg
    <3>2. LoadTells(asks[i])'
      BY <1>1, <3>1 DEF LoadTells, GlobalView, CfgWrites
    <3>3. ASSUME NEW j \in CfgSlot \ {i}, Asked(j)' PROVE asks'[j].op = "get"
      BY <1>5, <3>3 DEF HoldsFlag
    <3> QED
      BY <3>2, <3>3 DEF LoadsTell, LoadTells
  <2>3. ListHolds'
    <3>1. CASE c.op = "save global"
      <4>1. own' = own
        BY <3>1 DEF ServeCfg
      <4>2. \A j \in CfgSlot : HoldsFlag(j) => asks[j].op = "save global"
        BY <1>4, <3>1
      <4> QED
        BY <1>3, <4>1, <4>2 DEF ListHolds, HasConfig, ChannelInv, ChannelPageHolds
    <3>2. CASE c.op # "save global"
      <4>1. HoldsFlag(i)' /\ asks'[i].op # "save global"
        BY <1>1, <1>2, <1>4, <3>2 DEF HoldsFlag
      <4> QED
        BY <4>1 DEF ListHolds
    <3> QED
      BY <3>1, <3>2
  <2>4. FormHolds'
    BY <1>3, <1>4 DEF FormHolds
  <2> QED
    BY <2>1, <2>2, <2>3, <2>4 DEF ChannelPageHolds
<1>7. Unmixed'
  <2> SUFFICES ASSUME ~stale'.mixed
               PROVE  /\ AloneHolds' /\ DialogFits'
                      /\ \A j \in CfgSlot : Asked(j)' => (GetTells(asks[j]) /\ Closed(asks[j]) /\ SaveFits(asks[j]))'
    BY DEF Unmixed
  <2>1. /\ AloneHolds /\ DialogFits /\ Closed(c) /\ SaveFits(c)
    BY <1>1, <1>3, UnmixedNow
  <2>2. \A j \in CfgSlot : Asked(j)' => j = i
    <3>1. ASSUME NEW j \in CfgSlot, Asked(j) PROVE j = i
      <4>1. asks[j].op = "get" => j = i
        BY <1>1, <2>1, <3>1 DEF AloneHolds
      <4>2. asks[j].op # "get" => j = i
        BY <1>4, <3>1 DEF HoldsFlag
      <4> QED
        BY <4>1, <4>2
    <3> QED
      BY <1>2, <3>1
  <2>3. AloneHolds'
    BY <2>2 DEF AloneHolds
  <2>4. GetTells(asks[i])' /\ Closed(asks[i])'
    BY <1>1, <1>3, <2>1 DEF GetTells, Closed, CfgWrites
  <2>5. SaveFits(asks[i])'
    BY <1>1, <1>3, <2>1 DEF SaveFits
  <2>6. DialogFits'
    <3>1. CASE c.op \in {"save global", "reset global"}
      BY <1>3, <2>1, <3>1 DEF Closed, DialogFits
    <3>2. CASE c.op = "reset hid"
      BY <1>1, <1>2, <3>2 DEF DialogFits
    <3>3. CASE c.op = "save hid"
      <4> SUFFICES ASSUME dialog.shown, dialog.clean, ~stale.missed
                   PROVE  (dialog.form = Effective(dialog.hid))'
        BY <1>3 DEF DialogFits
      <4>1. c.clean /\ c.cfg = Effective(c.hid) /\ c.hid \in Channels
        BY <1>1, <2>1, <3>3 DEF SaveFits, NamesChannel
      <4>2. UNCHANGED global /\ own' = [own EXCEPT ![c.hid] = c.cfg]
        BY <3>3 DEF ServeCfg
      <4>3. \A g \in Channels : Effective(g)' = Effective(g)
        BY <4>1, <4>2, SaveKeeps
      <4>4. dialog.hid \in Channels
        BY DEF ChannelTyped
      <4>5. \A j \in CfgSlot : ~(Asked(j) /\ asks[j].op = "reset hid")
        BY <1>2, <2>2, <3>3
      <4>6. dialog.form = Effective(dialog.hid)
        BY <2>1, <4>5 DEF DialogFits
      <4>7. Effective(dialog.hid)' = Effective(dialog.hid)
        BY <1>3, <4>3, <4>4 DEF Effective
      <4> QED
        BY <1>3, <4>6, <4>7
    <3> QED
      BY <3>1, <3>2, <3>3 DEF CfgWrites
  <2> QED
    BY <2>2, <2>3, <2>4, <2>5, <2>6
<1> QED
  BY <1>3, <1>6, <1>7 DEF ChannelInv

\* The answer that fills the form of all channels keeps the invariant.
LEMMA AnswerGlobalStep ==
    ASSUME ChannelTyped, ChannelInv, NEW i \in CfgSlot, AnswerGlobal(i)
    PROVE  ChannelInv'
<1> DEFINE c == asks[i]
<1>1. /\ Asked(i) /\ c.served /\ c.op \in {"load", "save global"}
      /\ asks' = [asks EXCEPT ![i] = AskOver] /\ UNCHANGED <<global, own, dialog>>
      /\ cbusy' = {} /\ gform' = c.cfg
      /\ listed' = IF c.op = "load" THEN c.list ELSE listed
      /\ stale' = [stale EXCEPT !.missed = stale.missed /\ c.op # "load"]
  BY DEF AnswerGlobal, FillGlobal
<1>2. /\ \A j \in CfgSlot \ {i} : asks'[j] = asks[j] /\ (Asked(j)' <=> Asked(j))
      /\ ~Asked(i)'
  BY <1>1, SlotPut, SlotsOK
<1>3. c.cfg = GlobalView /\ (c.op = "load" => c.list = HasConfig)
  BY <1>1 DEF ChannelInv, ChannelPageHolds, LoadsTell, LoadTells
<1>4. \A j \in CfgSlot : HoldsFlag(j) => j = i
  BY <1>1 DEF ChannelInv, ChannelPageHolds, FlagHeld, HoldsFlag
<1>5. \A j \in CfgSlot : ~HoldsFlag(j)'
  BY <1>2, <1>4 DEF HoldsFlag
<1>6. stale'.mixed = stale.mixed /\ stale'.missed = (stale.missed /\ c.op # "load")
  BY <1>1 DEF ChannelTyped, ChannelTypeOK
<1>7. ChannelPageHolds'
  <2>1. FlagHeld' /\ LoadsTell'
    BY <1>5 DEF FlagHeld, LoadsTell, LoadTells, HoldsFlag
  <2>2. ListHolds'
    <3>1. CASE c.op = "load"
      BY <1>1, <1>3, <3>1 DEF ListHolds, HasConfig
    <3>2. CASE c.op = "save global"
      <4>1. \A j \in CfgSlot : HoldsFlag(j) => asks[j].op = "save global"
        BY <1>4, <3>2
      <4> QED
        BY <1>1, <1>6, <3>2, <4>1 DEF ListHolds, HasConfig, ChannelInv, ChannelPageHolds
    <3> QED
      BY <1>1, <3>1, <3>2
  <2>3. FormHolds'
    BY <1>1, <1>3 DEF FormHolds, GlobalView
  <2> QED
    BY <2>1, <2>2, <2>3 DEF ChannelPageHolds
<1>8. Unmixed'
  <2> SUFFICES ASSUME ~stale'.mixed
               PROVE  /\ AloneHolds' /\ DialogFits'
                      /\ \A j \in CfgSlot : Asked(j)' => (GetTells(asks[j]) /\ Closed(asks[j]) /\ SaveFits(asks[j]))'
    BY DEF Unmixed
  <2>1. /\ AloneHolds /\ Closed(c)
    BY <1>1, <1>6, UnmixedNow
  <2>2. \A j \in CfgSlot : ~Asked(j)'
    <3>1. ASSUME NEW j \in CfgSlot, Asked(j) PROVE j = i
      <4>1. asks[j].op = "get" => j = i
        BY <1>1, <2>1, <3>1 DEF AloneHolds
      <4>2. asks[j].op # "get" => j = i
        BY <1>4, <3>1 DEF HoldsFlag
      <4> QED
        BY <4>1, <4>2
    <3> QED
      BY <1>2, <3>1
  <2>3. DialogFits'
    BY <1>1, <2>1 DEF DialogFits, Closed
  <2> QED
    BY <2>2, <2>3 DEF AloneHolds
<1> QED
  BY <1>1, <1>7, <1>8 DEF ChannelInv

\* So does the one that fills the dialog of a channel.
LEMMA AnswerChannelStep ==
    ASSUME ChannelTyped, ChannelInv, NEW i \in CfgSlot, AnswerChannel(i)
    PROVE  ChannelInv'
<1> DEFINE c == asks[i]
<1>1. /\ Asked(i) /\ c.served /\ c.op = "get"
      /\ asks' = [asks EXCEPT ![i] = AskOver]
      /\ UNCHANGED <<global, own, gform, gtyped, listed, cbusy, stale>>
      /\ dialog' = [dialog EXCEPT !.form = c.cfg, !.clean = (c.hid = dialog.hid)]
  BY DEF AnswerChannel
<1>2. /\ \A j \in CfgSlot \ {i} : asks'[j] = asks[j] /\ (Asked(j)' <=> Asked(j))
      /\ ~Asked(i)'
  BY <1>1, SlotPut, SlotsOK
<1>3. /\ dialog'.shown = dialog.shown /\ dialog'.ask = dialog.ask /\ dialog'.hid = dialog.hid
      /\ dialog'.form = c.cfg /\ (dialog'.clean => c.hid = dialog.hid)
  BY <1>1 DEF ChannelTyped, ChannelTypeOK, Dialog
<1>4. \A j \in CfgSlot : (HoldsFlag(j)' <=> HoldsFlag(j)) /\ (HoldsFlag(j) => asks'[j] = asks[j])
  BY <1>1, <1>2 DEF HoldsFlag
<1>5. ChannelPageHolds'
  <2>1. FlagHeld'
    BY <1>1, <1>4 DEF FlagHeld, ChannelInv, ChannelPageHolds
  <2>2. LoadsTell'
    BY <1>1, <1>2 DEF LoadsTell, LoadTells, ChannelInv, ChannelPageHolds, GlobalView, HasConfig
  <2>3. ListHolds'
    BY <1>1, <1>4 DEF ListHolds, ChannelInv, ChannelPageHolds, HasConfig
  <2>4. FormHolds'
    BY <1>1 DEF FormHolds, ChannelInv, ChannelPageHolds, GlobalView
  <2> QED
    BY <2>1, <2>2, <2>3, <2>4 DEF ChannelPageHolds
<1>6. Unmixed'
  <2> SUFFICES ASSUME ~stale'.mixed
               PROVE  /\ AloneHolds' /\ DialogFits'
                      /\ \A j \in CfgSlot : Asked(j)' => (GetTells(asks[j]) /\ Closed(asks[j]) /\ SaveFits(asks[j]))'
    BY DEF Unmixed
  <2>1. AloneHolds /\ GetTells(c)
    BY <1>1, UnmixedNow
  <2>2. \A j \in CfgSlot : ~Asked(j)'
    BY <1>1, <1>2, <2>1 DEF AloneHolds
  <2>3. c.cfg = Effective(c.hid)
    BY <1>1, <2>1 DEF GetTells
  <2>4. DialogFits'
    BY <1>1, <1>3, <2>3 DEF DialogFits, Effective, GlobalView
  <2> QED
    BY <2>2, <2>4 DEF AloneHolds
<1> QED
  BY <1>3, <1>5, <1>6 DEF ChannelInv

\* So does the one that confirms a change, with the load that follows it.
LEMMA AnswerChangeStep ==
    ASSUME ChannelTyped, ChannelInv, NEW i \in CfgSlot, AnswerChange(i)
    PROVE  ChannelInv'
<1> DEFINE c == asks[i]
<1>1. /\ Asked(i) /\ c.op \in {"save hid", "reset hid", "reset global"}
      /\ asks' = [asks EXCEPT ![i] = LoadAll]
      /\ UNCHANGED <<global, own, gform, gtyped, listed, cbusy, stale>>
  BY DEF AnswerChange
<1>2. /\ \A j \in CfgSlot \ {i} : asks'[j] = asks[j] /\ (Asked(j)' <=> Asked(j))
      /\ asks'[i] = LoadAll /\ LoadAll.op = "load" /\ ~LoadAll.served
  BY <1>1, SlotPut, LoadAllOK
<1>3. /\ dialog'.ask = dialog.ask /\ (dialog'.shown => dialog.shown /\ c.op = "reset global")
  BY <1>1 DEF AnswerChange, ChannelTyped, ChannelTypeOK, Dialog
<1>4. /\ HoldsFlag(i) /\ \A j \in CfgSlot : HoldsFlag(j) => j = i
      /\ "loading" \in cbusy
  BY <1>1 DEF ChannelInv, ChannelPageHolds, FlagHeld, HoldsFlag
<1>5. \A j \in CfgSlot : HoldsFlag(j)' => j = i
  BY <1>2, <1>4 DEF HoldsFlag
<1>6. HoldsFlag(i)'
  <2>1. LoadAll.op \in CfgOps
    BY <1>2 DEF CfgOps
  <2> QED
    BY <1>2, <2>1 DEF HoldsFlag, Asked
<1>7. ChannelPageHolds'
  <2>1. FlagHeld'
    BY <1>1, <1>4, <1>5 DEF FlagHeld
  <2>2. LoadsTell'
    BY <1>2, <1>5 DEF LoadsTell, LoadTells, HoldsFlag
  <2>3. ListHolds'
    BY <1>2, <1>6 DEF ListHolds
  <2>4. FormHolds'
    BY <1>1, <1>4 DEF FormHolds
  <2> QED
    BY <2>1, <2>2, <2>3, <2>4 DEF ChannelPageHolds
<1>8. Unmixed'
  <2> SUFFICES ASSUME ~stale'.mixed
               PROVE  /\ AloneHolds' /\ DialogFits'
                      /\ \A j \in CfgSlot : Asked(j)' => (GetTells(asks[j]) /\ Closed(asks[j]) /\ SaveFits(asks[j]))'
    BY DEF Unmixed
  <2>1. AloneHolds /\ Closed(c)
    BY <1>1, UnmixedNow
  <2>2. \A j \in CfgSlot : Asked(j)' => j = i
    BY <1>1, <1>2, <1>4, <2>1 DEF AloneHolds, HoldsFlag
  <2>3. ~dialog'.shown
    BY <1>3, <2>1 DEF Closed
  <2>4. DialogFits'
    BY <2>3 DEF DialogFits
  <2>5. (GetTells(asks[i]) /\ Closed(asks[i]) /\ SaveFits(asks[i]))'
    BY <1>2, <2>3 DEF GetTells, Closed, SaveFits
  <2> QED
    BY <2>2, <2>4, <2>5 DEF AloneHolds
<1> QED
  BY <1>3, <1>7, <1>8 DEF ChannelInv

\* So does a call that fails.
LEMMA FailCfgStep ==
    ASSUME ChannelTyped, ChannelInv, NEW i \in CfgSlot, FailCfg(i)
    PROVE  ChannelInv'
<1> DEFINE c == asks[i]
<1>1. /\ Asked(i) /\ asks' = [asks EXCEPT ![i] = AskOver]
      /\ cbusy' = IF c.op = "get" THEN cbusy ELSE {}
      /\ stale' = [stale EXCEPT !.missed = stale.missed \/ c.op # "get"]
      /\ UNCHANGED <<global, own, gform, gtyped, listed, dialog>>
  BY DEF FailCfg
<1>2. /\ \A j \in CfgSlot \ {i} : asks'[j] = asks[j] /\ (Asked(j)' <=> Asked(j))
      /\ ~Asked(i)'
  BY <1>1, SlotPut, SlotsOK
<1>3. stale'.mixed = stale.mixed /\ stale'.missed = (stale.missed \/ c.op # "get")
  BY <1>1 DEF ChannelTyped, ChannelTypeOK
<1>4. \A j \in CfgSlot : HoldsFlag(j)' <=> HoldsFlag(j) /\ j # i
  BY <1>2 DEF HoldsFlag
<1>5. c.op # "get" => \A j \in CfgSlot : ~HoldsFlag(j)'
  BY <1>1, <1>4 DEF ChannelInv, ChannelPageHolds, FlagHeld, HoldsFlag
<1>6. c.op = "get" => ~HoldsFlag(i)
  BY DEF HoldsFlag
<1>7. ChannelPageHolds'
  <2>1. FlagHeld'
    BY <1>1, <1>4, <1>5 DEF FlagHeld, ChannelInv, ChannelPageHolds
  <2>2. LoadsTell'
    BY <1>1, <1>2 DEF LoadsTell, LoadTells, ChannelInv, ChannelPageHolds, GlobalView, HasConfig
  <2>3. ListHolds'
    <3>1. CASE c.op = "get"
      BY <1>1, <1>2, <1>3, <1>4, <1>6, <3>1 DEF ListHolds, ChannelInv, ChannelPageHolds, HasConfig
    <3>2. CASE c.op # "get"
      BY <1>3, <3>2 DEF ListHolds
    <3> QED
      BY <3>1, <3>2
  <2>4. FormHolds'
    BY <1>1, <1>3 DEF FormHolds, ChannelInv, ChannelPageHolds, GlobalView
  <2> QED
    BY <2>1, <2>2, <2>3, <2>4 DEF ChannelPageHolds
<1>8. Unmixed'
  <2> SUFFICES ASSUME ~stale'.mixed
               PROVE  /\ AloneHolds' /\ DialogFits'
                      /\ \A j \in CfgSlot : Asked(j)' => (GetTells(asks[j]) /\ Closed(asks[j]) /\ SaveFits(asks[j]))'
    BY DEF Unmixed
  <2>1. /\ AloneHolds /\ DialogFits
        /\ \A j \in CfgSlot : Asked(j) => GetTells(asks[j]) /\ Closed(asks[j]) /\ SaveFits(asks[j])
    BY <1>3, UnmixedNow
  <2>2. AloneHolds'
    BY <1>2, <2>1 DEF AloneHolds
  <2>3. DialogFits'
    <3>1. CASE c.op # "get"
      BY <1>3, <3>1 DEF DialogFits
    <3>2. CASE c.op = "get"
      BY <1>1, <1>2, <1>3, <2>1, <3>2 DEF DialogFits, Effective, GlobalView
    <3> QED
      BY <3>1, <3>2
  <2>4. ASSUME NEW j \in CfgSlot \ {i}, Asked(j)
        PROVE  (GetTells(asks[j]) /\ Closed(asks[j]) /\ SaveFits(asks[j]))'
    <3>1. GetTells(asks[j]) /\ Closed(asks[j]) /\ SaveFits(asks[j]) /\ asks'[j] = asks[j]
      BY <1>2, <2>1, <2>4
    <3>2. stale.missed => stale'.missed
      BY <1>3
    <3> QED
      BY <1>1, <3>1, <3>2 DEF GetTells, Closed, SaveFits, Effective, GlobalView
  <2> QED
    BY <1>2, <2>2, <2>3, <2>4
<1> QED
  BY <1>1, <1>7, <1>8 DEF ChannelInv

\* Every step keeps types and invariant.
LEMMA ChannelStep ==
    ASSUME ChannelTyped, ChannelInv, [ChannelNext]_channelVars
    PROVE  ChannelTyped' /\ ChannelInv'
<1>1. ChannelTyped'
  BY ChannelTypedStep
<1>2. CASE UNCHANGED channelVars
  <2>0. UNCHANGED <<global, own, gform, gtyped, listed, dialog, cbusy, asks, stale>>
    BY <1>2 DEF channelVars
  <2>1. ChannelPageHolds'
    BY <2>0 DEF ChannelInv, ChannelPageHolds, FlagHeld, LoadsTell, LoadTells, ListHolds, FormHolds,
                HoldsFlag, Asked, GlobalView, HasConfig
  <2>2. Unmixed'
    <3>1. stale'.mixed = stale.mixed /\ (AloneHolds => AloneHolds')
      BY <2>0 DEF AloneHolds, Asked
    <3>2. DialogFits => DialogFits'
      BY <2>0 DEF DialogFits, Asked, Effective, GlobalView
    <3>3. ASSUME NEW i \in CfgSlot,
                 Asked(i) => GetTells(asks[i]) /\ Closed(asks[i]) /\ SaveFits(asks[i])
          PROVE  Asked(i)' => (GetTells(asks[i]) /\ Closed(asks[i]) /\ SaveFits(asks[i]))'
      BY <2>0, <3>3 DEF GetTells, Closed, SaveFits, Asked, Effective, GlobalView
    <3> QED
      BY <3>1, <3>2, <3>3 DEF ChannelInv, Unmixed
  <2>3. (dialog.ask = "global" => ~dialog.shown)'
    BY <2>0 DEF ChannelInv
  <2> QED
    BY <1>1, <2>1, <2>2, <2>3 DEF ChannelInv
<1>3. ASSUME NEW i \in CfgSlot, ServeCfg(i) PROVE ChannelInv'
  <2>1. asks[i].op \in CfgOps
    BY <1>3 DEF ServeCfg, Asked
  <2>2. asks[i].op \in {"load", "get"} \/ asks[i].op \in CfgWrites
    BY <2>1 DEF CfgOps, CfgWrites
  <2> QED
    BY <1>3, <2>2, ServeLoadStep, ServeChangeStep
<1> QED
  BY <1>1, <1>2, <1>3, FormStep, SendStep, OpenStep, AnswerGlobalStep, AnswerChannelStep,
     AnswerChangeStep, FailCfgStep DEF ChannelNext

\* The types of the page of the runtime configuration.
THEOREM ChannelTypeCorrect == ChannelSpec => []ChannelTypeOK
<1>1. ChannelTyped /\ ChannelInv /\ [ChannelNext]_channelVars => (ChannelTyped /\ ChannelInv)'
  BY ChannelStep
<1>2. ChannelTyped /\ ChannelInv => ChannelTypeOK
  BY DEF ChannelTyped
<1> QED
  BY <1>1, <1>2, ChannelStart, PTL DEF ChannelSpec

\* At rest the page shows the global configuration and the channels with a
\* configuration of their own as they are: whatever changes either is followed
\* by its answer or by a load, and nothing else holds the flag meanwhile.
THEOREM RestShowsGlobal == ChannelSpec => []GlobalIsShown
<1>1. ChannelTyped /\ ChannelInv /\ [ChannelNext]_channelVars => (ChannelTyped /\ ChannelInv)'
  BY ChannelStep
<1>2. ASSUME ChannelInv PROVE GlobalIsShown
  <2>1. "loading" \notin cbusy => \A i \in CfgSlot : ~HoldsFlag(i)
    BY <1>2 DEF ChannelInv, ChannelPageHolds, FlagHeld
  <2> QED
    BY <1>2, <2>1 DEF ChannelInv, ChannelPageHolds, ListHolds, FormHolds, GlobalIsShown
<1> QED
  BY <1>1, <1>2, ChannelStart, PTL DEF ChannelSpec

\* To save an untouched dialog keeps what holds for every channel: the call
\* carries what holds for its channel, and to merge that again changes nothing.
THEOREM SaveOfShownKeeps == ChannelSpec => UntouchedSaveKeeps
<1>1. ChannelTyped /\ ChannelInv /\ [ChannelNext]_channelVars => (ChannelTyped /\ ChannelInv)'
  BY ChannelStep
<1> DEFINE Keeps == \A i \in CfgSlot :
               (Asked(i) /\ asks[i].op = "save hid" /\ ~asks[i].served /\ asks[i].clean
                   /\ asks'[i] # asks[i] /\ asks'[i] # AskOver
                   /\ ~stale.mixed /\ ~stale.missed)
               => \A h \in Channels : Effective(h)' = Effective(h)
<1>2. ASSUME ChannelTyped, ChannelInv, ChannelNext PROVE Keeps
  <2> SUFFICES ASSUME NEW i \in CfgSlot, Asked(i), asks[i].op = "save hid", ~asks[i].served,
                      asks[i].clean, asks'[i] # asks[i], asks'[i] # AskOver,
                      ~stale.mixed, ~stale.missed
               PROVE  \A h \in Channels : Effective(h)' = Effective(h)
    OBVIOUS
  <2>1. asks[i].cfg = Effective(asks[i].hid) /\ asks[i].hid \in Channels
    BY <1>2, UnmixedNow DEF SaveFits, ChannelTyped, NamesChannel
  <2>2. ASSUME NEW c, SendCfg(c) PROVE FALSE
    <3>1. PICK j \in CfgSlot : asks[j] = NoAsk /\ asks' = [asks EXCEPT ![j] = c]
      BY <2>2 DEF SendCfg
    <3>2. i # j
      BY <1>2, <3>1, SlotsOK DEF Asked
    <3>3. asks'[i] = asks[i]
      BY <1>2, <3>1, <3>2, SlotsOK
    <3> QED
      BY <3>3
  <2>3. ~(RefreshCfg \/ SaveGlobal \/ ConfirmReset \/ SaveHID \/ \E h \in Channels : OpenChannel(h))
    BY <2>2 DEF RefreshCfg, SaveGlobal, ConfirmReset, SaveHID, OpenChannel, SendLoading
  <2>4. asks' # asks
    OBVIOUS
  <2>5. ASSUME NEW j \in CfgSlot, \/ ServeCfg(j) \/ AnswerGlobal(j) \/ AnswerChannel(j)
                                  \/ AnswerChange(j) \/ FailCfg(j)
        PROVE  ServeCfg(i)
    <3>1. PICK k : asks' = [asks EXCEPT ![j] = k]
      BY <2>5 DEF ServeCfg, AnswerGlobal, AnswerChannel, AnswerChange, FailCfg
    <3>2. j = i
      <4>1. j # i => asks'[i] = asks[i]
        BY <1>2, <3>1, SlotsOK
      <4> QED
        BY <4>1
    <3>3. ~(AnswerGlobal(i) \/ AnswerChannel(i) \/ AnswerChange(i))
      BY DEF AnswerGlobal, AnswerChannel, AnswerChange
    <3>4. ~FailCfg(i)
      BY <1>2, SlotsOK DEF FailCfg
    <3> QED
      BY <2>5, <3>2, <3>3, <3>4
  <2>6. ServeCfg(i)
    BY <1>2, <2>3, <2>4, <2>5 DEF ChannelNext, EditGlobal, CancelReset, AskReset, EditChannel,
                                  CloseChannel
  <2>7. UNCHANGED global /\ own' = [own EXCEPT ![asks[i].hid] = Effective(asks[i].hid)]
    BY <2>1, <2>6 DEF ServeCfg
  <2> QED
    BY <1>2, <2>1, <2>7, SaveKeeps
<1>3. ChannelTyped /\ ChannelInv /\ [ChannelNext]_channelVars => [Keeps]_channelVars
  BY <1>2
<1> QED
  BY <1>1, <1>3, ChannelStart, PTL DEF ChannelSpec, UntouchedSaveKeeps

=============================================================================
