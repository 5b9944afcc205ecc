----------------------------- MODULE AdminConsole -----------------------------
(***************************************************************************)
(* The admin console, src/web: a browser shows one page at a time.  A page *)
(* starts anew whenever it is opened, and what one page keeps on the       *)
(* server no other page reads, so that a visit of the console is a visit   *)
(* of one page.  The page stays the same; the state of all the others is   *)
(* that of a server on which nothing was done yet.                         *)
(***************************************************************************)
EXTENDS ConsoleSession, RuleEditor, SettingsForm, ChannelConfig, OpsPanel,
        AccountForms, LogStream, StatsPage

VARIABLE view            \* the page: the name of its route, "session" for
                         \* the way in and out

consoleVars == <<view, ruleVars, settingsVars, channelVars, opsVars, accountVars,
                 sessionVars, logVars, visits>>

Routes == {"session", "dashboard", "settings", "huoyuan", "ops", "profile", "logs",
           "overview"}

-----------------------------------------------------------------------------

ConsoleInit ==
    /\ view \in Routes
    /\ SettingsInit /\ LogInit /\ StatsInit
    /\ SessionInit
    /\ view # "session" => ~installed /\ \A t \in Tabs : tabs[t].view = NoView
    /\ RuleInit /\ (view # "dashboard" => ~aiConfigured)
    /\ ChannelInit /\ (view # "huoyuan" => own = [h \in Channels |-> EmptyConfig])
    /\ OpsInit
    /\ view # "ops" => ~opsOn /\ override = [h \in OpsChannels |-> NoOverride]
    /\ AccountInit /\ (view # "profile" => bound = [u \in Users |-> Nothing])

\* The routes of src/web/src/router/index.ts.
ConsoleNext ==
    \/ /\ view = "session" /\ SessionNext
       /\ UNCHANGED <<view, ruleVars, settingsVars, channelVars, opsVars,
                     accountVars, logVars, visits>>
    \/ /\ view = "dashboard" /\ RuleNext
       /\ UNCHANGED <<view, sessionVars, settingsVars, channelVars, opsVars,
                     accountVars, logVars, visits>>
    \/ /\ view = "settings" /\ SettingsNext
       /\ UNCHANGED <<view, sessionVars, ruleVars, channelVars, opsVars,
                     accountVars, logVars, visits>>
    \/ /\ view = "huoyuan" /\ ChannelNext
       /\ UNCHANGED <<view, sessionVars, ruleVars, settingsVars, opsVars,
                     accountVars, logVars, visits>>
    \/ /\ view = "ops" /\ OpsNext
       /\ UNCHANGED <<view, sessionVars, ruleVars, settingsVars, channelVars,
                     accountVars, logVars, visits>>
    \/ /\ view = "profile" /\ AccountNext
       /\ UNCHANGED <<view, sessionVars, ruleVars, settingsVars, channelVars,
                     opsVars, logVars, visits>>
    \/ /\ view = "logs" /\ LogNext
       /\ UNCHANGED <<view, sessionVars, ruleVars, settingsVars, channelVars,
                     opsVars, accountVars, visits>>
    \/ /\ view = "overview" /\ StatsNext
       /\ UNCHANGED <<view, sessionVars, ruleVars, settingsVars, channelVars,
                     opsVars, accountVars, logVars>>

ConsoleSpec == ConsoleInit /\ [][ConsoleNext]_consoleVars

-----------------------------------------------------------------------------

\* A page that is not shown keeps the state it had at the start.
ConsoleTypeOK ==
    /\ view \in Routes
    /\ view = "session" => SessionTypeOK
    /\ view = "dashboard" => RuleTypeOK
    /\ view = "settings" => SettingsTypeOK
    /\ view = "huoyuan" => ChannelTypeOK
    /\ view = "ops" => OpsTypeOK
    /\ view = "profile" => AccountTypeOK
    /\ view = "logs" => LogTypeOK
    /\ view = "overview" => StatsTypeOK

=============================================================================
