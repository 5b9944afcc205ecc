--------------------------- MODULE AdminConsole_proofs ---------------------------
(***************************************************************************)
(* Theorems about AdminConsole: the console is every one of its pages.     *)
(*                                                                         *)
(* A step of the console is a step of the page that is shown and leaves    *)
(* all others as they are, so each behaviour of the console is a behaviour *)
(* of each page (ConsoleIsPages).  What was proved of a page, for any      *)
(* number of its calls, therefore holds of the console; and a page that is *)
(* not shown stays as it was at the start (PagesApart).                    *)
(***************************************************************************)
EXTENDS AdminConsole, RuleEditor_proofs, ConsoleForms_proofs, ConsolePages_proofs

-----------------------------------------------------------------------------
(* The pages.                                                              *)

\* The console starts with every page at its start.
LEMMA PagesStart ==
    ConsoleInit => /\ SessionInit /\ RuleInit /\ SettingsInit /\ ChannelInit
                   /\ OpsInit /\ AccountInit /\ LogInit /\ StatsInit
BY DEF ConsoleInit

\* A step of the console leaves the page that it shows.
LEMMA ViewStays == [ConsoleNext]_consoleVars => view' = view
BY DEF ConsoleNext, consoleVars

\* A step of the console is a step of its page, and of no other one.
LEMMA PageSteps ==
    ASSUME [ConsoleNext]_consoleVars
    PROVE  /\ UNCHANGED sessionVars \/ (view = "session" /\ SessionNext)
           /\ UNCHANGED ruleVars \/ (view = "dashboard" /\ RuleNext)
           /\ UNCHANGED settingsVars \/ (view = "settings" /\ SettingsNext)
           /\ UNCHANGED channelVars \/ (view = "huoyuan" /\ ChannelNext)
           /\ UNCHANGED opsVars \/ (view = "ops" /\ OpsNext)
           /\ UNCHANGED accountVars \/ (view = "profile" /\ AccountNext)
           /\ UNCHANGED logVars \/ (view = "logs" /\ LogNext)
           /\ UNCHANGED visits \/ (view = "overview" /\ StatsNext)
<1>1. CASE UNCHANGED consoleVars
  BY <1>1 DEF consoleVars
<1>2. CASE ConsoleNext
  BY <1>2 DEF ConsoleNext
<1> QED
  BY <1>1, <1>2

\* The pages of src/web/src/router/index.ts share neither state nor calls: what
\* the console does is what each of its pages may do on its own.
THEOREM ConsoleIsPages ==
    ConsoleSpec => /\ SessionSpec /\ RuleSpec /\ SettingsSpec /\ ChannelSpec
                   /\ OpsSpec /\ AccountSpec /\ LogSpec /\ StatsSpec
<1>1. [ConsoleNext]_consoleVars => /\ [SessionNext]_sessionVars /\ [RuleNext]_ruleVars
                                   /\ [SettingsNext]_settingsVars /\ [ChannelNext]_channelVars
                                   /\ [OpsNext]_opsVars /\ [AccountNext]_accountVars
                                   /\ [LogNext]_logVars /\ [StatsNext]_visits
  BY PageSteps
<1> QED
  BY <1>1, PagesStart, PTL
     DEF ConsoleSpec, SessionSpec, RuleSpec, SettingsSpec, ChannelSpec, OpsSpec, AccountSpec,
         LogSpec, StatsSpec

-----------------------------------------------------------------------------
(* What holds of the console.                                              *)

\* The types of the console: those of the page that is shown.
THEOREM ConsoleTypeCorrect == ConsoleSpec => []ConsoleTypeOK
<1>1. ConsoleInit => view \in Routes
  BY DEF ConsoleInit
<1>2. view \in Routes /\ [ConsoleNext]_consoleVars => (view \in Routes)'
  BY ViewStays DEF Routes
<1>3. ConsoleSpec => [](view \in Routes)
  BY <1>1, <1>2, PTL DEF ConsoleSpec
<1>4. /\ view \in Routes /\ SessionTypeOK /\ RuleTypeOK /\ SettingsTypeOK /\ ChannelTypeOK
      /\ OpsTypeOK /\ AccountTypeOK /\ LogTypeOK /\ StatsTypeOK
      => ConsoleTypeOK
  BY DEF ConsoleTypeOK
<1> QED
  BY <1>3, <1>4, ConsoleIsPages, SessionTypeCorrect, RuleTypeCorrect, SettingsTypeCorrect,
     ChannelTypeCorrect, OpsTypeCorrect, AccountTypeCorrect, LogTypeCorrect, StatsTypeCorrect,
     PTL

\* All that is proved of the pages holds of a visit of the console: what is
\* shown is what the server holds, and no button stays disabled.
THEOREM ConsoleShowsServer ==
    ConsoleSpec => [](/\ NavigationSettles /\ ListIsFresh /\ BusyHasCause
                      /\ EnabledHasKey /\ SettingsShown /\ GlobalIsShown
                      /\ OpsFlagsHaveCause /\ SecondFactorIsHeld /\ TailIsShown
                      /\ ShownIsRefreshed)
BY ConsoleIsPages, GuardSettles, ListShowsTable, NoButtonIsStuck, AiHasKey, FieldsShowStored,
   RestShowsGlobal, NoOpsFlagIsStuck, SecondFactorHeld, TailStaysShown, ShownStaysFresh, PTL

\* And what is saved, bound or rolled back in it is what was meant.
THEOREM ConsoleSavesShown ==
    ConsoleSpec => /\ LoginLands /\ SavedIsShown /\ SectionKept /\ UntouchedSaveKeeps
                   /\ RollbackRestores /\ CodeWasForThis
BY ConsoleIsPages, LoginEndsInConsole, SaveSendsText, SavesOneSection, SaveOfShownKeeps,
   RollbackIsInverse, CodesFit

\* A page that is not shown stays as it was at the start: the pages are apart,
\* and TLC's visits of one page each leave nothing out.
PageAtStart ==
    /\ view # "session" => SessionInit
    /\ view # "dashboard" => RuleInit
    /\ view # "settings" => SettingsInit
    /\ view # "huoyuan" => ChannelInit
    /\ view # "ops" => OpsInit
    /\ view # "profile" => AccountInit
    /\ view # "logs" => LogInit
    /\ view # "overview" => StatsInit

THEOREM PagesApart == ConsoleSpec => []PageAtStart
<1>1. ConsoleInit => PageAtStart
  BY PagesStart DEF PageAtStart
<1>2. PageAtStart /\ [ConsoleNext]_consoleVars => PageAtStart'
  <2> SUFFICES ASSUME PageAtStart, [ConsoleNext]_consoleVars PROVE PageAtStart'
    OBVIOUS
  <2>0. view' = view
    BY ViewStays
  <2>1. (view # "session" => SessionInit)'
    <3> SUFFICES ASSUME view # "session" PROVE SessionInit'
      BY <2>0
    <3>1. UNCHANGED sessionVars /\ SessionInit
      BY PageSteps DEF PageAtStart
    <3> QED
      BY <3>1 DEF SessionInit, sessionVars
  <2>2. (view # "dashboard" => RuleInit)'
    <3> SUFFICES ASSUME view # "dashboard" PROVE RuleInit'
      BY <2>0
    <3>1. UNCHANGED ruleVars /\ RuleInit
      BY PageSteps DEF PageAtStart
    <3> QED
      BY <3>1 DEF RuleInit, ruleVars
  <2>3. (view # "settings" => SettingsInit)'
    <3> SUFFICES ASSUME view # "settings" PROVE SettingsInit'
      BY <2>0
    <3>1. UNCHANGED settingsVars /\ SettingsInit
      BY PageSteps DEF PageAtStart
    <3> QED
      BY <3>1 DEF SettingsInit, settingsVars
  <2>4. (view # "huoyuan" => ChannelInit)'
    <3> SUFFICES ASSUME view # "huoyuan" PROVE ChannelInit'
      BY <2>0
    <3>1. UNCHANGED channelVars /\ ChannelInit
      BY PageSteps DEF PageAtStart
    <3> QED
      BY <3>1 DEF ChannelInit, channelVars
  <2>5. (view # "ops" => OpsInit)'
    <3> SUFFICES ASSUME view # "ops" PROVE OpsInit'
      BY <2>0
    <3>1. UNCHANGED opsVars /\ OpsInit
      BY PageSteps DEF PageAtStart
    <3> QED
      BY <3>1 DEF OpsInit, opsVars, APost
  <2>6. (view # "profile" => AccountInit)'
    <3> SUFFICES ASSUME view # "profile" PROVE AccountInit'
      BY <2>0
    <3>1. UNCHANGED accountVars /\ AccountInit
      BY PageSteps DEF PageAtStart
    <3> QED
      BY <3>1 DEF AccountInit, accountVars
  <2>7. (view # "logs" => LogInit)'
    <3> SUFFICES ASSUME view # "logs" PROVE LogInit'
      BY <2>0
    <3>1. UNCHANGED logVars /\ LogInit
      BY PageSteps DEF PageAtStart
    <3> QED
      BY <3>1 DEF LogInit, logVars
  <2>8. (view # "overview" => StatsInit)'
    <3> SUFFICES ASSUME view # "overview" PROVE StatsInit'
      BY <2>0
    <3>1. UNCHANGED visits /\ StatsInit
      BY PageSteps DEF PageAtStart
    <3> QED
      BY <3>1 DEF StatsInit
  <2> QED
    BY <2>1, <2>2, <2>3, <2>4, <2>5, <2>6, <2>7, <2>8 DEF PageAtStart
<1> QED
  BY <1>1, <1>2, PTL DEF ConsoleSpec

=============================================================================
