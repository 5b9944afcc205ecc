---------------------------- MODULE AccountForms ----------------------------
(***************************************************************************)
(* The administrator's own settings, src/web/src/views/ProfileView.vue     *)
(* with src/web/src/api/profile.ts, and the page for a forgotten password, *)
(* src/web/src/views/ForgotPasswordView.vue; the handlers are those of     *)
(* src/admin_profile.go and src/admin_auth.go.                             *)
(*                                                                         *)
(* A verification code is pushed to a Showdoc address, and a token for it  *)
(* goes to the page: the code is good only together with its token.  A     *)
(* code and its token are one number here.  What is typed is chosen when a *)
(* button is pressed: a code that arrived somewhere, any address, a code   *)
(* of a secret that the authenticator app holds.                           *)
(***************************************************************************)
EXTENDS Naturals, FiniteSets

CONSTANTS Users, Me,     \* the administrators, and the one who is logged in
          Urls,          \* Showdoc addresses
          TotpKeys,      \* secrets of a second factor
          MaxCodes,      \* bound: so many codes are issued
          AccountSlots   \* bound: so many calls are sent

ASSUME AccountAssumption ==
    /\ Me \in Users /\ Urls # {}
    /\ "none" \notin Users \cup Urls \cup TotpKeys
    /\ MaxCodes \in Nat \ {0} /\ AccountSlots \in Nat \ {0}

VARIABLES bound,         \* showdoc_url of each user
          totp,          \* totp_secret of each user
          password,      \* how often the password of each user was changed
          codes,         \* the codes issued, with what they are good for
          live,          \* the codes that can still be used
          app,           \* the secrets in the authenticator app
          page,          \* what the pages hold from answers
          abusy,         \* showdocSending, pwdSaving, sending, resetting
          wires          \* the calls in flight

accountVars == <<bound, totp, password, codes, live, app, page, abusy, wires>>

-----------------------------------------------------------------------------

Nothing == "none"
CodeNames == 1..MaxCodes
\* "to" is the address that the code was pushed to.
CodeInfo == [purpose: {"showdoc_bind", "totp_enable", "password_reset"}, user: Users,
             extra: Urls \cup {Nothing}, to: Urls]

\* verifyToken of each form; totpSecret and the QR code that is shown.
Page == [bindToken: 0..MaxCodes, totpToken: 0..MaxCodes, resetToken: 0..MaxCodes,
         secret: TotpKeys \cup {Nothing}, qr: TotpKeys \cup {Nothing}]

SendOps == {"send bind", "send totp", "send reset"}
UseOps == {"bind", "enable", "reset"}
AccountOps == SendOps \cup UseOps \cup {"unbind", "setup", "draw", "disable", "password"}
Wire == [op: AccountOps, user: Users, url: Urls \cup {Nothing}, token: 0..MaxCodes,
         code: 0..MaxCodes, key: TotpKeys \cup {Nothing}, typed: TotpKeys \cup {Nothing},
         at: {"sent", "checked", "done"}]
Free == [op |-> "unused"]
Ended1 == [op |-> "over"]
Wires == 1..AccountSlots
Up(i) == wires[i].op \in AccountOps

AWire(op, user) == [op |-> op, user |-> user, url |-> Nothing, token |-> 0, code |-> 0,
                    key |-> Nothing, typed |-> Nothing, at |-> "sent"]
Call2(c) == \E i \in Wires : /\ wires[i] = Free /\ \A j \in Wires : wires[j] = Free => i <= j
                             /\ wires' = [wires EXCEPT ![i] = c]

-----------------------------------------------------------------------------
(* The pages.                                                              *)

Received == DOMAIN codes

Submit(c, flags) ==
    /\ abusy \cap flags = {}
    /\ Call2(c)
    /\ abusy' = abusy \cup flags
    /\ UNCHANGED <<bound, totp, password, codes, live, app, page>>

SendShowdocCode == \E u \in Urls :
    Submit([AWire("send bind", Me) EXCEPT !.url = u], {"showdocSending"})
BindShowdoc == \E u \in Urls, n \in Received :
    /\ page.bindToken # 0
    /\ Submit([AWire("bind", Me) EXCEPT !.url = u, !.code = n, !.token = page.bindToken], {})
UnbindShowdoc == bound[Me] # Nothing /\ Submit(AWire("unbind", Me), {})

SendTotpCode == Submit(AWire("send totp", Me), {})
StartTotpSetup == Submit(AWire("setup", Me), {})

\* The administrator scans the QR code, or copies the secret.
ScanSecret ==
    /\ \E k \in {page.secret, page.qr} \ {Nothing} : app' = app \cup {k}
    /\ UNCHANGED <<bound, totp, password, codes, live, page, abusy, wires>>

EnableTotp == \E n \in Received, k \in app \cup {Nothing} :
    /\ page.secret # Nothing /\ page.totpToken # 0
    /\ Submit([AWire("enable", Me) EXCEPT !.key = page.secret, !.typed = k, !.code = n,
                                          !.token = page.totpToken], {})
DisableTotp == \E k \in app \cup {Nothing} :
    Submit([AWire("disable", Me) EXCEPT !.typed = k], {})
ChangePassword == \E k \in app \cup {Nothing} :
    Submit([AWire("password", Me) EXCEPT !.typed = k], {"pwdSaving"})

\* The page for a forgotten password: the name may be changed between the
\* code and the reset.
SendResetCode == \E u \in Users : Submit(AWire("send reset", u), {"sending"})
ResetPassword == \E u \in Users, n \in Received :
    /\ page.resetToken # 0
    /\ Submit([AWire("reset", u) EXCEPT !.code = n, !.token = page.resetToken], {"resetting"})

-----------------------------------------------------------------------------
(* The handlers.  A code is looked up and compared in one step and used in *)
(* another; a code that does not fit is used up by the attempt.            *)

Purpose(op) == CASE op \in {"send bind", "bind"} -> "showdoc_bind"
                 [] op \in {"send totp", "enable"} -> "totp_enable"
                 [] OTHER -> "password_reset"

\* The address that a code is pushed to: the one to be bound, or the one
\* that is bound.
Target(c) == IF c.op = "send bind" THEN c.url ELSE bound[c.user]

\* issueVerifyCode, pushShowdoc; without an address the page for a forgotten
\* password gets an answer without a token.
SendCode(i) ==
    LET c == wires[i] IN
    /\ Up(i) /\ c.op \in SendOps /\ c.at = "sent"
    /\ IF Target(c) = Nothing
       THEN /\ c.op = "send reset"
            /\ wires' = [wires EXCEPT ![i].at = "done"]
            /\ UNCHANGED <<codes, live>>
       ELSE LET n == Cardinality(DOMAIN codes) + 1 IN
            /\ n \in CodeNames
            /\ codes' = [m \in DOMAIN codes \cup {n} |->
                  IF m = n THEN [purpose |-> Purpose(c.op), user |-> c.user, extra |-> c.url,
                                 to |-> Target(c)]
                  ELSE codes[m]]
            /\ live' = live \cup {n}
            /\ wires' = [wires EXCEPT ![i].at = "done", ![i].token = n]
    /\ UNCHANGED <<bound, totp, password, app, page, abusy>>

\* Mutant of CodeFits: neither the user nor the address is compared.
CodeFitsPurpose(c) ==
    /\ c.token \in live /\ c.code = c.token
    /\ codes[c.token].purpose = Purpose(c.op)

\* The comparisons of consumeVerifyCode.
CodeFits(c) ==
    /\ c.token \in live /\ c.code = c.token
    /\ codes[c.token].purpose = Purpose(c.op) /\ codes[c.token].user = c.user
    /\ c.url # Nothing => codes[c.token].extra = c.url

CheckCode(i) ==
    LET c == wires[i] IN
    /\ Up(i) /\ c.op \in UseOps /\ c.at = "sent"
    /\ c.op = "reset" => bound[c.user] # Nothing
    /\ IF CodeFits(c)
       THEN wires' = [wires EXCEPT ![i].at = "checked"] /\ UNCHANGED <<live, abusy>>
       ELSE /\ live' = live \ {c.token}
            /\ wires' = [wires EXCEPT ![i] = Ended1]
            /\ abusy' = abusy \ {"resetting"}
    /\ UNCHANGED <<bound, totp, password, codes, app, page>>

\* Mutant of UsesSecret: the code of the app is not looked at.
UsesAny(c) == c.key # Nothing

\* totp.Validate
UsesSecret(c) == c.typed = c.key

UseCode(i) ==
    LET c == wires[i] IN
    /\ Up(i) /\ c.at = "checked"
    /\ live' = live \ {c.token}
    /\ bound' = IF c.op = "bind" THEN [bound EXCEPT ![c.user] = c.url] ELSE bound
    /\ totp' = IF c.op = "enable" /\ UsesSecret(c)
               THEN [totp EXCEPT ![c.user] = c.key] ELSE totp
    /\ password' = IF c.op = "reset" THEN [password EXCEPT ![c.user] = 1] ELSE password
    /\ wires' = [wires EXCEPT ![i] = IF c.op = "enable" /\ ~UsesSecret(c) THEN Ended1
                                     ELSE [c EXCEPT !.at = "done"]]
    /\ UNCHANGED <<codes, app, page, abusy>>

\* requireAdminTotpIfEnabled
SecondFactor(c) == totp[c.user] # Nothing => c.typed = totp[c.user]

ServeAccount(i) ==
    LET c == wires[i] IN
    /\ Up(i) /\ c.at = "sent"
    /\ \/ /\ c.op = "unbind"
          /\ bound' = [bound EXCEPT ![c.user] = Nothing]
          /\ wires' = [wires EXCEPT ![i].at = "done"]
          /\ UNCHANGED <<totp, password>>
       \/ /\ c.op = "setup" /\ totp[c.user] = Nothing
          /\ \E k \in TotpKeys : wires' = [wires EXCEPT ![i].at = "done", ![i].key = k]
          /\ UNCHANGED <<bound, totp, password>>
       \/ /\ c.op = "disable" /\ SecondFactor(c)
          /\ totp' = [totp EXCEPT ![c.user] = Nothing]
          /\ wires' = [wires EXCEPT ![i].at = "done"]
          /\ UNCHANGED <<bound, password>>
       \/ /\ c.op = "password" /\ SecondFactor(c)
          /\ password' = [password EXCEPT ![c.user] = 1]
          /\ wires' = [wires EXCEPT ![i].at = "done"]
          /\ UNCHANGED <<bound, totp>>
    /\ UNCHANGED <<codes, live, app, page, abusy>>

Expire(n) ==
    /\ n \in live
    /\ live' = live \ {n}
    /\ UNCHANGED <<bound, totp, password, codes, app, page, abusy, wires>>

-----------------------------------------------------------------------------
(* The answers.                                                            *)

FlagsOf(op) == CASE op = "send bind" -> {"showdocSending"}
                 [] op = "send reset" -> {"sending"}
                 [] op = "reset" -> {"resetting"}
                 [] op = "password" -> {"pwdSaving"}
                 [] OTHER -> {}

\* The last answer wins: its token may be of an older code than the one that
\* arrived last, and the QR code is drawn after the secret is shown.
AnswerAccount(i) ==
    LET c == wires[i] IN
    /\ Up(i) /\ c.at = "done"
    /\ page' = CASE c.op = "send bind" -> [page EXCEPT !.bindToken = c.token]
                 [] c.op = "send totp" -> [page EXCEPT !.totpToken = c.token]
                 [] c.op = "send reset" -> [page EXCEPT !.resetToken = c.token]
                 [] c.op = "bind" -> [page EXCEPT !.bindToken = 0]
                 [] c.op = "setup" -> [page EXCEPT !.secret = c.key, !.qr = Nothing]
                 [] c.op = "draw" -> [page EXCEPT !.qr = c.key]
                 [] c.op = "enable" ->
                       [page EXCEPT !.secret = Nothing, !.qr = Nothing, !.totpToken = 0]
                 [] OTHER -> page
    /\ abusy' = abusy \ FlagsOf(c.op)
    /\ wires' = [wires EXCEPT ![i] = IF c.op = "setup" THEN [c EXCEPT !.op = "draw"]
                                     ELSE Ended1]
    /\ UNCHANGED <<bound, totp, password, codes, live, app>>

\* Refused or unanswered; what the handler did stays done.
FailAccount(i) ==
    /\ Up(i) /\ wires[i].at # "checked"
    /\ abusy' = abusy \ FlagsOf(wires[i].op)
    /\ wires' = [wires EXCEPT ![i] = Ended1]
    /\ UNCHANGED <<bound, totp, password, codes, live, app, page>>

-----------------------------------------------------------------------------

\* Nobody has an address bound yet, or all share one; then the code for a
\* second factor may have been asked for.
AccountInit ==
    /\ \E a \in {Nothing, CHOOSE a \in Urls : TRUE}, asked \in BOOLEAN :
          /\ asked => a # Nothing
          /\ bound = [u \in Users |-> a]
          /\ codes = [n \in IF asked THEN {1} ELSE {} |->
                [purpose |-> "totp_enable", user |-> Me, extra |-> Nothing, to |-> a]]
    /\ live = DOMAIN codes
    /\ totp = [u \in Users |-> Nothing]
    /\ password = [u \in Users |-> 0]
    /\ app = {}
    /\ page = [bindToken |-> 0, totpToken |-> Cardinality(live), resetToken |-> 0,
               secret |-> Nothing, qr |-> Nothing]
    /\ abusy = {}
    /\ wires = [i \in Wires |-> Free]

AccountNext ==
    \/ SendShowdocCode \/ BindShowdoc \/ UnbindShowdoc
    \/ SendTotpCode \/ StartTotpSetup \/ ScanSecret \/ EnableTotp \/ DisableTotp
    \/ ChangePassword \/ SendResetCode \/ ResetPassword
    \/ \E i \in Wires : \/ SendCode(i) \/ CheckCode(i) \/ UseCode(i) \/ ServeAccount(i)
                        \/ AnswerAccount(i) \/ FailAccount(i)
    \/ \E n \in CodeNames : Expire(n)

AccountSpec == AccountInit /\ [][AccountNext]_accountVars

-----------------------------------------------------------------------------
(* Properties.                                                             *)

AccountTypeOK ==
    /\ bound \in [Users -> Urls \cup {Nothing}]
    /\ totp \in [Users -> TotpKeys \cup {Nothing}]
    /\ password \in [Users -> 0..1]
    /\ DOMAIN codes \subseteq CodeNames /\ \A n \in DOMAIN codes : codes[n] \in CodeInfo
    /\ live \subseteq DOMAIN codes /\ app \subseteq TotpKeys /\ page \in Page
    /\ abusy \subseteq {"showdocSending", "pwdSaving", "sending", "resetting"}
    /\ wires \in [Wires -> Wire \cup {Free, Ended1}]

\* An account never asks for a second factor that its owner cannot give: a
\* secret that is switched on is in the app, although the secret and the QR
\* code on the page may be of two different answers.
SecondFactorIsHeld == \A u \in Users : totp[u] # Nothing => totp[u] \in app

\* An address is bound only when a code arrived at that very address, and a
\* password is reset only with a code that was pushed for that user, although
\* address and name can be changed on the page after the code was sent.
CodeWasForThis ==
    [][\A i \in Wires :
          (Up(i) /\ wires[i].op \in {"bind", "reset"} /\ wires[i].at = "checked"
              /\ wires'[i] # wires[i])
          => LET c == wires[i] IN
             /\ bound' # bound => codes[c.code].to = bound'[Me]
             /\ \A u \in Users : password'[u] # password[u] =>
                   codes[c.code].user = u /\ codes[c.code].purpose = "password_reset"
      ]_accountVars

=============================================================================
