---------------------------- MODULE SettingsForm ----------------------------
(***************************************************************************)
(* The page of the system settings,                                        *)
(* src/web/src/views/SystemSettingsView.vue, with the calls of             *)
(* src/web/src/api/system.ts and the handlers that answer them:            *)
(* src/admin_settings.go, src/ai_config.go, src/internal_enqueue_config.go.*)
(*                                                                         *)
(* Redis and the HTTP rules are sections of one file, which a save reads,  *)
(* changes and writes as a whole, with a test of up to three seconds in    *)
(* between; the AI settings and the enqueue token are rows of a table.     *)
(* The password of Redis, which a save keeps like the key of the AI, is    *)
(* left out.  What is typed into the fields of the key and of the token is *)
(* chosen when their button is pressed.                                    *)
(*                                                                         *)
(* Each handler is two steps: what it does first (BeginSettings) and last  *)
(* (FinishSettings).                                                       *)
(***************************************************************************)
EXTENDS Naturals, FiniteSets

CONSTANTS Values,        \* what a section of the file holds
          Secrets,       \* keys of the AI
          Tokens,        \* enqueue tokens
          FirstValue, FirstToken,  \* what is stored at the start
          SettingSlots   \* bound: so many calls does the page send

ASSUME SettingsAssumption ==
    /\ FirstValue \in Values /\ FirstToken \in Tokens
    /\ "" \notin Secrets
    /\ SettingSlots \in Nat \ {0}

VARIABLES file,          \* the configuration file
          ai,            \* the AI settings: on, and their key
          token,         \* the enqueue token: in the table, in memory
          form,          \* the fields of the page
          typed,         \* a field was changed since an answer filled them
          sbusy,         \* loading, saving, savingEnqueue, regeneratingEnqueue
          puts,          \* the calls in flight
          crossed        \* calls overlapped, or one failed

settingsVars == <<file, ai, token, form, typed, sbusy, puts, crossed>>

-----------------------------------------------------------------------------

Secret == Secrets \cup {""}
File == [redis: Values, http: Values]
Ai == [on: BOOLEAN, key: Secret]

\* A secret is never sent to the page: it learns that there is one.
SettingFields == {"redis", "http", "on"}
Form == [redis: Values, http: Values, on: BOOLEAN, keySet: BOOLEAN, token: Tokens]

SettingOps == {"load", "redis", "http", "ai", "put token", "new token"}
FileOps == {"redis", "http"}
TokenOps == {"put token", "new token"}
SettingFlags == {"loading", "saving", "savingEnqueue", "regeneratingEnqueue"}

\* "file" is the section that the call carries, then the file that the
\* handler has read and changed, and at last what it answers; "ai" and "token"
\* are what the call carries, and what it answers.  "heard" says that the
\* page still waits.
SettingCall == [op: SettingOps, file: File, ai: Ai, token: Tokens,
                at: {"sent", "begun", "answered"}, heard: BOOLEAN]
EmptyForm == [redis |-> FirstValue, http |-> FirstValue, on |-> FALSE,
              keySet |-> FALSE, token |-> FirstToken]
NoPut == [op |-> "unused"]
PutOver == [op |-> "over"]
SettingSlot == 1..SettingSlots

InFlight(i) == puts[i].op \in SettingOps
Unsent == {i \in SettingSlot : puts[i] = NoPut}

FlagOf(op) ==
    CASE op = "load" -> "loading"
      [] op = "put token" -> "savingEnqueue"
      [] op = "new token" -> "regeneratingEnqueue"
      [] OTHER -> "saving"

\* The token is changed by two buttons with a flag each, and shown by every
\* answer: its calls may overlap with each other and with a save.
Crosses(op) == \E i \in SettingSlot : InFlight(i) /\ (op \in TokenOps \/ puts[i].op \in TokenOps)

NoFile == [redis |-> FirstValue, http |-> FirstValue]
NoAi == [on |-> FALSE, key |-> ""]
NewPut(op) == [op |-> op, file |-> NoFile, ai |-> NoAi, token |-> FirstToken,
               at |-> "sent", heard |-> TRUE]

\* A new call takes the first slot that is free; a slot is used once.
First(i) == i \in Unsent /\ \A j \in Unsent : i <= j
SendPut(c) ==
    /\ \E i \in SettingSlot : First(i) /\ puts' = [puts EXCEPT ![i] = c]
    /\ crossed' = (crossed \/ Crosses(c.op))

-----------------------------------------------------------------------------
(* The page.                                                               *)

\* The sections are hidden while "loading".
Edit(f) ==
    /\ "loading" \notin sbusy
    /\ \/ f \in {"redis", "http"} /\ \E v \in Values \ {form[f]} : form' = [form EXCEPT ![f] = v]
       \/ f = "on" /\ form' = [form EXCEPT !.on = ~form.on]
    /\ typed' = TRUE
    /\ UNCHANGED <<file, ai, token, sbusy, puts, crossed>>

Press(c, flags) ==
    /\ sbusy \cap ({FlagOf(c.op)} \cup flags) = {}
    /\ SendPut(c)
    /\ sbusy' = sbusy \cup {FlagOf(c.op)}
    /\ UNCHANGED <<file, ai, token, form, typed>>

\* Mutant of SaveHTTPSecurity: it does not wait for a save under way.
SaveHTTPAtOnce ==
    /\ "loading" \notin sbusy
    /\ SendPut([NewPut("http") EXCEPT !.file.http = form.http])
    /\ sbusy' = sbusy \cup {"saving"}
    /\ UNCHANGED <<file, ai, token, form, typed>>

SaveRedis == Press([NewPut("redis") EXCEPT !.file.redis = form.redis], {"loading"})
SaveHTTPSecurity == Press([NewPut("http") EXCEPT !.file.http = form.http], {"loading"})

\* The page lets the AI be switched on only with a key, stored or typed; ""
\* when none is typed.
SaveAI == \E s \in Secret :
    /\ form.on => form.keySet \/ s # ""
    /\ Press([NewPut("ai") EXCEPT !.ai = [on |-> form.on, key |-> s]], {"loading"})

SaveEnqueueToken == \E t \in Tokens :
    Press([NewPut("put token") EXCEPT !.token = t], {"loading"})
RegenerateToken == Press(NewPut("new token"), {"loading"})

-----------------------------------------------------------------------------
(* The handlers.                                                           *)

\* The section of the file that the call carries is put into the file as it
\* is now.
Prepared(c) ==
    CASE c.op = "redis" -> [file EXCEPT !.redis = c.file.redis]
      [] c.op = "http" -> [file EXCEPT !.http = c.file.http]
      [] OTHER -> c.file

\* The file is read, or the token is written to the table.
BeginSettings(i) ==
    /\ InFlight(i) /\ puts[i].at = "sent"
    /\ \E t \in IF puts[i].op = "new token" THEN Tokens ELSE {puts[i].token} :
          /\ puts' = [puts EXCEPT ![i].at = "begun", ![i].token = t,
                                  ![i].file = Prepared(puts[i])]
          /\ token' = IF puts[i].op \in TokenOps THEN [token EXCEPT !.table = t] ELSE token
    /\ UNCHANGED <<file, ai, form, typed, sbusy, crossed>>

\* Mutant of KeptOr: an empty secret is stored.
KeptNever(new, old) == new

\* An empty secret keeps the one that is stored.
KeptOr(new, old) == IF new = "" THEN old ELSE new

NewAi(c) ==
    IF c.op = "ai" THEN [on |-> c.ai.on, key |-> KeptOr(c.ai.key, ai.key)] ELSE ai

FinishSettings(i) ==
    /\ InFlight(i) /\ puts[i].at = "begun"
    /\ LET c == puts[i] IN
       /\ file' = IF c.op \in FileOps THEN c.file ELSE file
       /\ ai' = NewAi(c)
       /\ token' = IF c.op \in TokenOps THEN [token EXCEPT !.memory = c.token] ELSE token
       /\ puts' = [puts EXCEPT ![i] =
              [c EXCEPT !.at = "answered", !.file = file', !.ai = ai', !.token = token'.memory]]
    /\ UNCHANGED <<form, typed, sbusy, crossed>>

-----------------------------------------------------------------------------
(* The end of a call.                                                      *)

\* Mutant of Filled: the answer to a save is not shown.
FilledByLoad(c) ==
    IF c.op = "load"
    THEN [redis |-> c.file.redis, http |-> c.file.http,
          on |-> c.ai.on, keySet |-> c.ai.key # "", token |-> c.token]
    ELSE form

\* applySettings fills every section, whichever was saved; the answers about
\* the token fill the token.
Filled(c) ==
    IF c.op \in TokenOps THEN [form EXCEPT !.token = c.token]
    ELSE [redis |-> c.file.redis, http |-> c.file.http,
          on |-> c.ai.on, keySet |-> c.ai.key # "", token |-> c.token]

AnswerSettings(i) ==
    /\ InFlight(i) /\ puts[i].at = "answered" /\ puts[i].heard
    /\ form' = Filled(puts[i])
    /\ typed' = (typed /\ puts[i].op \in TokenOps)
    /\ sbusy' = sbusy \ {FlagOf(puts[i].op)}
    /\ puts' = [puts EXCEPT ![i] = PutOver]
    /\ UNCHANGED <<file, ai, token, crossed>>

\* Refused, or the connection breaks: then the handler may still go on.
FailSettings(i) ==
    /\ InFlight(i) /\ puts[i].heard
    /\ sbusy' = sbusy \ {FlagOf(puts[i].op)}
    /\ \/ puts' = [puts EXCEPT ![i] = PutOver]
       \/ puts' = [puts EXCEPT ![i].heard = FALSE]
    /\ crossed' = TRUE
    /\ UNCHANGED <<file, ai, token, form, typed>>

ForgetSettings(i) ==
    /\ InFlight(i) /\ puts[i].at = "answered" /\ ~puts[i].heard
    /\ puts' = [puts EXCEPT ![i] = PutOver]
    /\ UNCHANGED <<file, ai, token, form, typed, sbusy, crossed>>

\* The page is left and opened again: it starts empty and loads.  Calls of
\* the page that was left are served, and their answers change nothing.
Reopen ==
    /\ form' = EmptyForm /\ typed' = FALSE
    /\ sbusy' = {"loading"}
    /\ crossed' = (crossed \/ \E i \in SettingSlot : InFlight(i) /\ puts[i].op # "load")
    /\ \E n \in SettingSlot :
          /\ First(n)
          /\ puts' = [i \in SettingSlot |->
                IF i = n THEN NewPut("load")
                ELSE IF InFlight(i) THEN [puts[i] EXCEPT !.heard = FALSE] ELSE puts[i]]
    /\ UNCHANGED <<file, ai, token>>

-----------------------------------------------------------------------------

\* The page that has just been loaded.
SettingsInit ==
    /\ file = NoFile /\ ai = NoAi
    /\ token = [table |-> FirstToken, memory |-> FirstToken]
    /\ form = EmptyForm
    /\ typed = FALSE
    /\ sbusy = {}
    /\ puts = [i \in SettingSlot |-> NoPut]
    /\ crossed = FALSE

SettingsNext ==
    \/ Reopen
    \/ SaveRedis \/ SaveHTTPSecurity \/ SaveAI
    \/ SaveEnqueueToken \/ RegenerateToken
    \/ \E f \in SettingFields : Edit(f)
    \/ \E i \in SettingSlot : \/ BeginSettings(i) \/ FinishSettings(i)
                              \/ AnswerSettings(i) \/ FailSettings(i) \/ ForgetSettings(i)

SettingsSpec == SettingsInit /\ [][SettingsNext]_settingsVars

-----------------------------------------------------------------------------
(* Properties.                                                             *)

SettingsTypeOK ==
    /\ file \in File /\ ai \in Ai /\ token \in [table: Tokens, memory: Tokens]
    /\ form \in Form /\ typed \in BOOLEAN /\ sbusy \subseteq SettingFlags
    /\ puts \in [SettingSlot -> SettingCall \cup {NoPut, PutOver}]
    /\ crossed \in BOOLEAN

\* Saving one section of the file never takes back what was saved in the
\* other one, although each save writes the whole file as it was read before
\* the test of the connection: one flag keeps the saves of a page apart.  Only
\* a call that was given up and goes on, or a second page, breaks this.
SectionKept ==
    [][crossed \/ \A f \in FileOps :
          file'[f] # file[f] =>
              \E i \in SettingSlot : /\ InFlight(i) /\ puts[i].at = "begun"
                                     /\ puts[i].op = f /\ puts[i].file[f] = file'[f]
      ]_settingsVars

\* The AI is never on without a key, although the handler does not check it:
\* the page knows from the last answer whether there is a key, and no save,
\* in whatever order the saves are served, takes the key away.
EnabledHasKey == ai.on => ai.key # ""

\* When every call has ended well and none overlapped with a change of the
\* token, a field shows what is stored, or what was typed since; and the
\* token is the same in the table, in memory and on the page.
SettingsShown ==
    (sbusy = {} /\ ~crossed) =>
        /\ ~typed => form.redis = file.redis /\ form.http = file.http /\ form.on = ai.on
        /\ form.keySet <=> ai.key # ""
        /\ token.table = token.memory
        /\ form.token = token.memory

=============================================================================
