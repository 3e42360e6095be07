----------------------------- MODULE TwoFactor -----------------------------
(***************************************************************************)
(* The second factor of one user: the Security page (pages/Security.js) in *)
(* one or more tabs, which sets it up, confirms it and disables it, and    *)
(* the second step of a login (pages/Login.js), over the handlers of       *)
(* controllers/authController.js.  Challenges live in the memory of the    *)
(* server, the secret in the user's row.                                   *)
(*                                                                         *)
(* The page disables no button: any number of its requests may be under    *)
(* way, each query by query, and their answers come in any order, late or  *)
(* never.  What the page knows may be stale.                               *)
(*                                                                         *)
(* A code is the secret it was computed from; the authenticator shows the  *)
(* codes of the secret scanned last.                                       *)
(***************************************************************************)
EXTENDS FiniteSets, Integers

CONSTANTS
    Secrets,      \* secrets ever generated: a bound on setups
    Tabs,         \* tabs showing the Security page
    Clicks,       \* requests of the Security page at a time
    Logins,       \* browsers logging in
    Verifiers,    \* requests of the second step at a time
    MaxFaults,    \* bound on failed queries, lost answers, expiries and crashes
    None

TwoFactorAssumption ==
    None \notin Secrets /\ IsFiniteSet(Verifiers) /\ MaxFaults \in Nat

VARIABLES
    enabled, secret,  \* is_2fa_enabled, two_fa_secret
    generated,        \* secrets used so far
    confirmed,        \* secrets a code was verified of
    app,              \* the secret in the authenticator
    view, qr,         \* a tab's user.is_2fa_enabled and qrCode
    click,            \* the requests of the page
    blind,            \* whether the user has pressed a button blindly of late
    challenge,        \* pendingTwoFA
    accepted,         \* codes accepted for a challenge
    pc, of,           \* the verifying requests, and the login of each
    faults

rowVars  == <<enabled, secret>>
userVars == <<generated, confirmed, app, blind>>
tabVars  == <<view, qr>>
pageVars == <<userVars, tabVars, click>>
loginVars == <<challenge, accepted, pc, of>>
vars == <<rowVars, pageVars, loginVars, faults>>

\* A click: the step its request is at, its tab, the secret it carries or brings,
\* and who hears the answer: the page, or only AuthContext once the page was left,
\* or nobody once the tab was reloaded.
Idle == [at |-> "idle", by |-> None, code |-> None, heard |-> "no"]

Request ==
    [at    : {"setup", "setupDone", "confirm", "enable", "confirmDone",
              "disable", "disableDone"},
     by    : Tabs,
     code  : Secrets \cup {None},
     heard : {"page", "context", "no"}]

Init ==
    /\ enabled = FALSE
    /\ secret = None
    /\ generated = {}
    /\ confirmed = {}
    /\ app  = None
    /\ view = [t \in Tabs |-> FALSE]
    /\ qr   = [t \in Tabs |-> None]
    /\ click = [c \in Clicks |-> Idle]
    /\ blind = FALSE
    /\ challenge = [l \in Logins |-> "none"]
    /\ accepted  = [l \in Logins |-> 0]
    /\ pc = [v \in Verifiers |-> "idle"]
    /\ of = [v \in Verifiers |-> None]
    /\ faults = 0

Fault == faults < MaxFaults /\ faults' = faults + 1

Goto(c, here, there) ==
    click[c].at = here /\ click' = [click EXCEPT ![c].at = there]

End(c) == click' = [click EXCEPT ![c] = Idle]

UnderWay == {c \in Clicks : click[c] # Idle}

-----------------------------------------------------------------------------
(* The Security page.                                                      *)

\* A bug: the button is there whatever the page knows.
OffersSetupAlways(t) == qr[t] = None

OffersSetup(t) == ~view[t] /\ qr[t] = None

Press(c, t, kind, code) ==
    /\ click[c] = Idle
    /\ click' = [click EXCEPT ![c] = [at |-> kind, by |-> t, code |-> code,
                                      heard |-> "page"]]
    /\ UNCHANGED <<rowVars, confirmed, app, tabVars, loginVars, faults>>

\* A button is pressed blindly while an earlier request is under way.
Hasty == blind' = (blind \/ UnderWay # {})

\* Or if it offers to set up what is on: the page shows "Disabled".  The setup of what
\* is off, with nothing under way, starts afresh.
PressSetup(c, t) ==
    /\ OffersSetup(t)
    /\ \E k \in Secrets \ generated :
          Press(c, t, "setup", k) /\ generated' = generated \cup {k}
    /\ blind' = (UnderWay # {} \/ (enabled /\ (blind \/ ~view[t])))

\* The code of the moment is typed.
PressConfirm(c, t) ==
    /\ qr[t] # None
    /\ Press(c, t, "confirm", app)
    /\ Hasty
    /\ UNCHANGED generated

PressDisable(c, t) ==
    /\ view[t]
    /\ Press(c, t, "disable", None)
    /\ Hasty
    /\ UNCHANGED generated

\* The user scans the code that is shown.
Scan(t) ==
    /\ qr[t] # None
    /\ app' = qr[t]
    /\ UNCHANGED <<rowVars, generated, confirmed, blind, tabVars, click, loginVars,
                   faults>>

\* The user goes to another page and comes back: qrCode is the page's own, what the
\* context knows stays.
Leave(t) ==
    /\ qr' = [qr EXCEPT ![t] = None]
    /\ click' = [c \in Clicks |->
                   IF click[c].by = t /\ click[c].heard = "page"
                   THEN [click[c] EXCEPT !.heard = "context"] ELSE click[c]]
    /\ UNCHANGED <<rowVars, userVars, view, loginVars, faults>>

\* The user reloads the tab: loadUser asks for the row.
Reload(t) ==
    /\ view' = [view EXCEPT ![t] = enabled]
    /\ qr'   = [qr EXCEPT ![t] = None]
    /\ click' = [c \in Clicks |->
                   IF click[c].by = t THEN [click[c] EXCEPT !.heard = "no"] ELSE click[c]]
    /\ UNCHANGED <<rowVars, userVars, loginVars, faults>>

-----------------------------------------------------------------------------
(* Its requests at the server.                                             *)

\* setupTwoFactor: the new secret is in the row before anyone has seen it.
SetSecret(c) ==
    /\ Goto(c, "setup", "setupDone")
    /\ secret' = click[c].code
    /\ UNCHANGED <<enabled, userVars, tabVars, loginVars, faults>>

Verifies(code) == secret # None /\ code = secret

\* confirmTwoFactor: the SELECT of the secret, and the code that was typed.
VerifyCode(c) ==
    /\ Goto(c, "confirm", "enable")
    /\ Verifies(click[c].code)
    /\ confirmed' = confirmed \cup {click[c].code}
    /\ UNCHANGED <<rowVars, generated, app, blind, tabVars, loginVars, faults>>

\* 400 or 401.  What api.js sends again after a 401 is verified again.
RefuseCode(c) ==
    /\ click[c].at = "confirm"
    /\ ~Verifies(click[c].code)
    /\ End(c)
    /\ UNCHANGED <<rowVars, userVars, tabVars, loginVars, faults>>

Enable(c) ==
    /\ Goto(c, "enable", "confirmDone")
    /\ enabled' = TRUE
    /\ UNCHANGED <<secret, userVars, tabVars, loginVars, faults>>

Clear == enabled' = FALSE /\ secret' = None

Disable(c) ==
    /\ Goto(c, "disable", "disableDone")
    /\ Clear
    /\ UNCHANGED <<userVars, tabVars, loginVars, faults>>

\* A query throws, or the answer is lost: the tab stays as it is.
Fails(c) ==
    /\ Fault
    /\ click[c] # Idle
    /\ End(c)
    /\ UNCHANGED <<rowVars, userVars, tabVars, loginVars>>

\* The answers: setQrCode reaches the page that asked, setUser its tab.
Told(state, c, who, value) ==
    IF click[c].heard \in who THEN [state EXCEPT ![click[c].by] = value] ELSE state

SetupAnswered(c) ==
    /\ click[c].at = "setupDone"
    /\ End(c)
    /\ qr' = Told(qr, c, {"page"}, click[c].code)
    /\ UNCHANGED <<rowVars, userVars, view, loginVars, faults>>

ConfirmAnswered(c) ==
    /\ click[c].at = "confirmDone"
    /\ End(c)
    /\ qr'   = Told(qr, c, {"page"}, None)
    /\ view' = Told(view, c, {"page", "context"}, TRUE)
    /\ UNCHANGED <<rowVars, userVars, loginVars, faults>>

DisableAnswered(c) ==
    /\ click[c].at = "disableDone"
    /\ End(c)
    /\ view' = Told(view, c, {"page", "context"}, FALSE)
    /\ UNCHANGED <<rowVars, userVars, qr, loginVars, faults>>

-----------------------------------------------------------------------------
(* The login.                                                              *)

\* The password step of a user with a second factor; a new challenge takes the
\* place of the one before.
Challenge(l) ==
    /\ enabled
    /\ challenge[l] # "open"
    /\ \A v \in Verifiers : of[v] # l
    /\ challenge' = [challenge EXCEPT ![l] = "open"]
    /\ accepted' = [accepted EXCEPT ![l] = 0]
    /\ UNCHANGED <<rowVars, pageVars, pc, of, faults>>

\* verifyTwoFactorLogin: the challenge is looked up, the user asked for.
Verify(v, l) ==
    /\ pc[v] = "idle"
    /\ challenge[l] = "open"
    /\ pc' = [pc EXCEPT ![v] = "found"]
    /\ of' = [of EXCEPT ![v] = l]
    /\ UNCHANGED <<rowVars, pageVars, challenge, accepted, faults>>

EndVerify(v) ==
    /\ pc' = [pc EXCEPT ![v] = "idle"]
    /\ of' = [of EXCEPT ![v] = None]

\* A bug: the challenge is not deleted.
SpentKept(l) == challenge

Spent(l) == [challenge EXCEPT ![l] = "in"]

\* The code is right: the challenge goes, the tokens are issued.
Accept(v) ==
    /\ pc[v] = "found"
    /\ Verifies(app)
    /\ challenge' = Spent(of[v])
    /\ accepted' = [accepted EXCEPT ![of[v]] = @ + 1]
    /\ EndVerify(v)
    /\ UNCHANGED <<rowVars, pageVars, faults>>

\* A wrong code, or a secret that is gone; the challenge stays.
Reject(v) ==
    /\ pc[v] = "found"
    /\ ~Verifies(app)
    /\ EndVerify(v)
    /\ UNCHANGED <<rowVars, pageVars, challenge, accepted, faults>>

Expire(l) ==
    /\ Fault
    /\ challenge[l] = "open"
    /\ challenge' = [challenge EXCEPT ![l] = "none"]
    /\ UNCHANGED <<rowVars, pageVars, accepted, pc, of>>

\* The map goes with the process, and every request with it.
Crash ==
    /\ Fault
    /\ challenge' = [l \in Logins |-> IF challenge[l] = "open" THEN "none" ELSE challenge[l]]
    /\ pc' = [v \in Verifiers |-> "idle"]
    /\ of' = [v \in Verifiers |-> None]
    /\ click' = [c \in Clicks |-> Idle]
    /\ UNCHANGED <<rowVars, userVars, tabVars, accepted>>

Next ==
    \/ \E t \in Tabs :
          \/ \E c \in Clicks : PressSetup(c, t) \/ PressConfirm(c, t) \/ PressDisable(c, t)
          \/ Scan(t) \/ Leave(t) \/ Reload(t)
    \/ \E c \in Clicks :
          \/ SetSecret(c) \/ VerifyCode(c) \/ RefuseCode(c) \/ Enable(c) \/ Disable(c)
          \/ SetupAnswered(c) \/ ConfirmAnswered(c) \/ DisableAnswered(c) \/ Fails(c)
    \/ \E l \in Logins : Challenge(l) \/ Expire(l)
    \/ \E v \in Verifiers :
          \/ \E l \in Logins : Verify(v, l)
          \/ Accept(v) \/ Reject(v)
    \/ Crash

Spec == Init /\ [][Next]_vars

-----------------------------------------------------------------------------
(* Properties.                                                             *)

TypeOK ==
    /\ enabled \in BOOLEAN
    /\ {secret, app} \subseteq Secrets \cup {None}
    /\ confirmed \subseteq generated /\ generated \subseteq Secrets
    /\ view \in [Tabs -> BOOLEAN]
    /\ qr \in [Tabs -> Secrets \cup {None}]
    /\ click \in [Clicks -> Request \cup {Idle}]
    /\ blind \in BOOLEAN
    /\ challenge \in [Logins -> {"none", "open", "in"}]
    /\ accepted \in [Logins -> Nat]
    /\ pc \in [Verifiers -> {"idle", "found"}]
    /\ of \in [Verifiers -> Logins \cup {None}]
    /\ faults \in 0 .. MaxFaults

\* The secret a login is held to is one a code was verified of
\* (authController.js:185), unless the user has pressed a button blindly since the
\* setup: with a request under way, or to set up what the page did not know to be on.
EnabledIsConfirmed == enabled /\ ~blind => secret \in confirmed

\* The user can answer a challenge; a user who never pressed blindly always can.
CanLogIn == enabled /\ (blind => app = secret)

\* A challenge lets in no more requests than had looked it up together
\* (authController.js:136-165).
AcceptedOncePerRequest ==
    \A l \in Logins : accepted[l] <= Cardinality(Verifiers)
=============================================================================
