---------------------------- MODULE ConsoleSession ----------------------------
(***************************************************************************)
(* How the administrator gets into the console and out of it: the guard of *)
(* src/web/src/router/index.ts, the pages LoginView.vue and InstallView.vue*)
(* and the menu of AppSidebar.vue, with src/web/src/api/auth.ts; on the    *)
(* server the sessions of src/admin_auth.go.                               *)
(*                                                                         *)
(* Several tabs of one browser share the token in the local storage and    *)
(* the cookie.  Every navigation asks the server first and may be sent     *)
(* elsewhere, which is a navigation again.  All pages that need a session  *)
(* are the one view "admin".  A token is a number, 0 is none.              *)
(***************************************************************************)
EXTENDS Naturals

CONSTANTS Tabs,
          MaxSessions,   \* bound: so many sessions are created
          MaxMoves       \* bound: so many times the administrator does something

ASSUME SessionAssumption == MaxSessions \in Nat \ {0} /\ MaxMoves \in Nat

VARIABLES installed,     \* there is an administrator in the plugin database
          sessions,      \* the tokens that the server knows
          issued,        \* so many tokens were created
          stored,        \* the local storage
          cookie,
          tabs,
          moves          \* so many times has the administrator done something

sessionVars == <<installed, sessions, issued, stored, cookie, tabs, moves>>

-----------------------------------------------------------------------------

Token == 0..MaxSessions
Views == {"admin", "login", "forgot", "install"}
NoView == "none"

\* A call for the status: the token it carries, and what the server says:
\* not installed, or installed and logged in or out.
Nav == [to: Views \cup {NoView}, token: Token, says: {"none", "bare", "in", "out"}]
NoNav == [to |-> NoView, token |-> 0, says |-> "none"]

\* Another call of the tab; bound: one at a time.  "step" is that of the
\* wizard, "test both" and "test rest" are the two calls of goToAdminStep.
TestOps == {"test one", "test both", "test rest"}
NetOps == TestOps \cup {"login", "logout", "load", "install"}
Net == [op: NetOps \cup {"none"}, token: Token, says: {"none", "ok", "no"}]
NoNet == [op |-> "none", token |-> 0, says |-> "none"]

\* "hops" counts the redirects of a navigation; "calm" says that nothing it
\* depends on changed since it began; "fresh" that a login began it.
Tab == [view: Views \cup {NoView}, step: {1, 2}, nav: Nav, net: Net,
        hops: 0..3, calm: BOOLEAN, fresh: BOOLEAN]

\* authHeaders, extractSessionToken: the cookie counts when no token is stored.
Bearer == IF stored # 0 THEN stored ELSE cookie

Leads(v) == [to |-> v, token |-> Bearer', says |-> "none"]
Heads(tab, v, fresh, calm) ==
    [tab EXCEPT !.nav = Leads(v), !.hops = 0, !.calm = calm, !.fresh = fresh]
Redirected(tab, v) == [tab EXCEPT !.nav = Leads(v), !.hops = IF @ = 3 THEN 3 ELSE @ + 1]
Arrived(tab) == [tab EXCEPT !.view = tab.nav.to, !.nav = NoNav, !.step = 1,
                            !.hops = 0, !.calm = FALSE, !.fresh = FALSE]

Unsettled(ts) == [t \in Tabs |-> [ts[t] EXCEPT !.calm = FALSE]]
Moved == moves < MaxMoves /\ moves' = moves + 1

Browser == <<stored, cookie>>
Server == <<installed, sessions, issued>>

-----------------------------------------------------------------------------
(* Navigation.                                                             *)

\* A link; the last navigation of a tab replaces one that is under way.
Follow(t, v) ==
    /\ <<tabs[t].view, v>> \in
          {<<"admin", "admin">>, <<"login", "forgot">>, <<"forgot", "login">>}
    /\ UNCHANGED <<Server, Browser>> /\ Moved
    /\ tabs' = [tabs EXCEPT ![t] = Heads(@, v, FALSE, TRUE)]

\* An address is typed into a new tab; to load a tab again is no different.
Visit(t, v) ==
    /\ tabs[t].view = NoView
    /\ UNCHANGED <<Server, Browser>> /\ Moved
    /\ tabs' = [tabs EXCEPT ![t] = Heads(@, v, FALSE, TRUE)]

\* adminAuthStatusHandler.  isPluginInstalled says no when the database does
\* not answer.
ServeStatus(t) ==
    LET nav == tabs[t].nav IN
    /\ nav.to # NoView /\ nav.says = "none"
    /\ \/ tabs' = [tabs EXCEPT ![t].nav.says =
                      IF ~installed THEN "bare" ELSE IF nav.token \in sessions THEN "in" ELSE "out"]
       \/ installed /\ tabs' = [tabs EXCEPT ![t].nav.says = "bare", ![t].calm = FALSE]
    /\ UNCHANGED <<Server, Browser, moves>>

LoggedIn(nav) == nav.says = "in" /\ stored # 0

\* Mutant of Instead: the pages without a session look at the status alone.
InsteadByStatus(nav) ==
    CASE nav.says = "bare" -> IF nav.to = "install" THEN NoView ELSE "install"
      [] nav.says # "bare" /\ nav.to = "install" -> IF nav.says = "in" THEN "admin" ELSE "login"
      [] nav.says # "bare" /\ nav.to = "admin" /\ ~LoggedIn(nav) -> "login"
      [] nav.says = "in" /\ nav.to \in {"login", "forgot"} -> "admin"
      [] OTHER -> NoView

\* router.beforeEach: where the navigation goes instead, or NoView.
Instead(nav) ==
    CASE nav.says = "bare" -> IF nav.to = "install" THEN NoView ELSE "install"
      [] nav.says # "bare" /\ nav.to = "install" -> IF nav.says = "in" THEN "admin" ELSE "login"
      [] nav.says # "bare" /\ nav.to = "admin" /\ ~LoggedIn(nav) -> "login"
      [] nav.says # "bare" /\ nav.to \in {"login", "forgot"} /\ LoggedIn(nav) -> "admin"
      [] OTHER -> NoView

AnswerStatus(t) ==
    LET nav == tabs[t].nav IN
    /\ nav.says # "none"
    /\ UNCHANGED <<Server, Browser, moves>>
    /\ tabs' = [tabs EXCEPT ![t] = IF Instead(nav) = NoView THEN Arrived(@)
                                   ELSE Redirected(@, Instead(nav))]

\* No answer: the page for the installation.
FailStatus(t) ==
    LET nav == tabs[t].nav IN
    /\ nav.to # NoView
    /\ UNCHANGED <<Server, Browser, moves>>
    /\ tabs' = [tabs EXCEPT ![t] = IF nav.to = "install" THEN Arrived(@)
                                   ELSE [Redirected(@, "install") EXCEPT !.calm = FALSE]]

-----------------------------------------------------------------------------
(* The pages.                                                              *)

\* "loading" keeps the buttons of a page apart.
Send(t, view, op) ==
    /\ tabs[t].view = view /\ tabs[t].net = NoNet
    /\ tabs' = [tabs EXCEPT ![t].net = [op |-> op, token |-> Bearer, says |-> "none"]]
    /\ UNCHANGED <<Server, Browser>> /\ Moved

Login(t) == Send(t, "login", "login")
Logout(t) == Send(t, "admin", "logout")
LoadPage(t) == Send(t, "admin", "load")
TestDB(t) == tabs[t].step = 1 /\ \E op \in {"test one", "test both"} : Send(t, "install", op)
RunInstall(t) == tabs[t].step = 2 /\ Send(t, "install", "install")

\* Not disabled while the installation runs.
StepBack(t) ==
    /\ tabs[t].view = "install" /\ tabs[t].step = 2
    /\ tabs' = [tabs EXCEPT ![t].step = 1]
    /\ UNCHANGED <<Server, Browser, moves>>

-----------------------------------------------------------------------------
(* The handlers.                                                           *)

Says(t, word) == Unsettled([tabs EXCEPT ![t].net.says = word])

\* createAdminSession
Create(t) ==
    /\ issued < MaxSessions
    /\ issued' = issued + 1
    /\ sessions' = sessions \cup {issued + 1}
    /\ tabs' = Unsettled([tabs EXCEPT ![t].net.token = issued + 1, ![t].net.says = "ok"])

\* adminLoginHandler, adminLogoutHandler, adminRequireAuth, and
\* adminInstallHandler: it may fail after the administrator is there.
Serve(t) ==
    LET net == tabs[t].net IN
    /\ net.op # "none" /\ net.says = "none"
    /\ \/ net.op = "login" /\ installed /\ Create(t) /\ UNCHANGED installed
       \/ /\ net.op = "install" /\ ~installed
          /\ installed' = TRUE
          /\ \/ Create(t)
             \/ tabs' = Says(t, "no") /\ UNCHANGED <<sessions, issued>>
       \/ /\ net.op \in TestOps \cup {"login", "install"}
          /\ tabs' = [tabs EXCEPT ![t].net.says = "no"]
          /\ UNCHANGED Server
       \/ /\ net.op \in TestOps \/ (net.op = "load" /\ installed /\ net.token \in sessions)
          /\ tabs' = [tabs EXCEPT ![t].net.says = "ok"]
          /\ UNCHANGED Server
       \/ /\ net.op = "load" /\ ~(installed /\ net.token \in sessions)
          /\ tabs' = [tabs EXCEPT ![t].net.says = "no"]
          /\ UNCHANGED Server
       \/ /\ net.op = "logout"
          /\ sessions' = sessions \ {net.token}
          /\ tabs' = Says(t, "ok")
          /\ UNCHANGED <<installed, issued>>
    /\ UNCHANGED <<Browser, moves>>

\* The time of a session is over, or another administrator's change of the
\* password ended it.
Lapse(n) ==
    /\ n \in sessions
    /\ sessions' = sessions \ {n}
    /\ tabs' = Unsettled(tabs)
    /\ UNCHANGED <<installed, issued, Browser, moves>>

-----------------------------------------------------------------------------
(* The answers.                                                            *)

\* Mutant of SetSession: the token is left to the cookie.
SetNoSession(n) == n \in Token /\ UNCHANGED stored

SetSession(n) == stored' = n
ClearSession == stored' = 0

\* LoginView and InstallView go to "/" with replace(), whatever the tab shows
\* by now.
AnswerLogin(t) ==
    LET net == tabs[t].net IN
    /\ net.op \in {"login", "install"} /\ net.says = "ok"
    /\ SetSession(net.token) /\ cookie' = net.token
    /\ tabs' = [Unsettled(tabs) EXCEPT ![t] =
                   Heads([@ EXCEPT !.net = NoNet], "admin", TRUE, net.token \in sessions)]
    /\ UNCHANGED <<Server, moves>>

\* AppSidebar.logout: it clears what another tab may have stored by now.
AnswerLogout(t) ==
    /\ tabs[t].net.op = "logout" /\ tabs[t].net.says = "ok"
    /\ ClearSession /\ cookie' = 0
    /\ tabs' = [Unsettled(tabs) EXCEPT ![t] =
                   Heads([@ EXCEPT !.net = NoNet], "login", FALSE, TRUE)]
    /\ UNCHANGED <<Server, moves>>

\* need_login sends the tab to the page for the login, a refusal anywhere
\* else changes nothing; the tests lead to the second step of the wizard.
AnswerRest(t) ==
    LET net == tabs[t].net
        rest == [tabs[t] EXCEPT !.net = NoNet] IN
    /\ net.says # "none"
    /\ net.op \in TestOps \cup {"load"} \/ net.says = "no"
    /\ UNCHANGED <<Server, Browser, moves>>
    /\ tabs' = [tabs EXCEPT ![t] =
          IF net.op = "load" /\ net.says = "no" THEN Heads(rest, "login", FALSE, TRUE)
          ELSE IF net.op = "test both" /\ net.says = "ok"
          THEN [rest EXCEPT !.net = [op |-> "test rest", token |-> Bearer, says |-> "none"]]
          ELSE IF net.op = "test rest" /\ net.says = "ok" THEN [rest EXCEPT !.step = 2]
          ELSE rest]

\* The network fails, before or after the handler.
FailNet(t) ==
    /\ tabs[t].net # NoNet
    /\ tabs' = [tabs EXCEPT ![t].net = NoNet]
    /\ UNCHANGED <<Server, Browser, moves>>

-----------------------------------------------------------------------------

\* A browser that knows nothing, or one that kept the cookie, the token or
\* both, and tabs that all are new or show what goes with that.
SessionInit ==
    /\ installed \in BOOLEAN
    /\ issued = IF installed THEN 1 ELSE 0
    /\ sessions \in SUBSET (1..issued)
    /\ stored \in 0..issued /\ cookie \in 0..issued
    /\ \E v \in {NoView, IF ~installed THEN "install"
                        ELSE IF stored # 0 THEN "admin" ELSE "login"} :
          /\ v = NoView \/ stored \in sessions \cup {0}
          /\ tabs = [t \in Tabs |-> [view |-> v, step |-> 1, nav |-> NoNav, net |-> NoNet,
                                     hops |-> 0, calm |-> FALSE, fresh |-> FALSE]]
    /\ moves = 0

SessionNext ==
    \/ \E t \in Tabs : \/ \E v \in Views : Follow(t, v) \/ Visit(t, v)
                       \/ ServeStatus(t) \/ AnswerStatus(t) \/ FailStatus(t)
                       \/ Login(t) \/ Logout(t) \/ LoadPage(t)
                       \/ TestDB(t) \/ RunInstall(t) \/ StepBack(t)
                       \/ Serve(t) \/ AnswerLogin(t) \/ AnswerLogout(t)
                       \/ AnswerRest(t) \/ FailNet(t)
    \/ \E n \in Token : Lapse(n)

SessionSpec == SessionInit /\ [][SessionNext]_sessionVars

-----------------------------------------------------------------------------
(* Properties.                                                             *)

SessionTypeOK ==
    /\ installed \in BOOLEAN /\ issued \in Token
    /\ sessions \subseteq 1..issued /\ stored \in 0..issued /\ cookie \in 0..issued
    /\ tabs \in [Tabs -> Tab] /\ moves \in 0..MaxMoves

\* The guard never sends a navigation round in a circle: as long as nothing
\* changes on the server or in the browser it is redirected at most twice.
\* The server calls a browser with a cookie logged in, the guard only one
\* that also has a token: the two must not send to each other.
NavigationSettles == \A t \in Tabs : tabs[t].calm => tabs[t].hops <= 2

\* A login or an installation ends in the console and not at the page for
\* the login again, whatever the tabs did while it was under way: the token is
\* stored before the navigation asks for the status.
LoginLands ==
    [][\A t \in Tabs :
          (tabs[t].fresh /\ tabs[t].calm /\ tabs[t].nav # NoNav /\ tabs'[t].nav = NoNav)
          => tabs'[t].view = "admin"]_sessionVars

=============================================================================
