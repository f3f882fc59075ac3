------------------------------ MODULE Sessions ------------------------------
(***************************************************************************)
(* One user's sign-ins: the rows of sessions with their rotating refresh   *)
(* tokens, and the columns of the users row that several requests read and *)
(* then write: the count of failed sign-ins, the second factor with its    *)
(* recovery codes, and the phone number with its code.                     *)
(*                                                                         *)
(* A request is a slot that goes through the awaited steps of its handler; *)
(* requests interleave at every step.  A refresh token is named by the     *)
(* session it opens.  Any token that reached a client may be presented at  *)
(* any time, by that client or by whoever else has come to hold it.  An    *)
(* access token is not modelled to expire, so a client keeps its session's *)
(* rights for as long as it likes.  Time is counted in the thirty-second   *)
(* steps of a one-time password.                                           *)
(***************************************************************************)
EXTENDS Integers, FiniteSets

CONSTANTS
    Requests,      \* requests in flight at once
    Operations,    \* what clients ask for in this instance
    Phones, NoPhone,
    MaxAsked,      \* how many requests are made in a behaviour
    MaxSessions,   \* and how many sessions begun
    MaxSecrets,    \* how many authenticator secrets, and batches of recovery codes
    MaxPhoneCodes, \* how many phone codes are issued
    MaxClock,
    MaxFailed,     \* MAX_FAILED_ATTEMPTS (8 in the code)
    RecoveryCodes, \* how many codes an enrolment hands out (10 in the code)
    Window,        \* TOTP_WINDOW (1 in the code)
    Disturbances, MaxDisturbed

SlowOperations == {"refresh", "signIn", "guess", "verify", "setup", "enable", "disable", "redeem"}
QuickOperations == {"signOut", "signOutAll", "startPhone", "unlink"}

DisturbanceKinds == {
    "crash",     \* the api dies in the middle of a request
    "lost",      \* the answer does not reach the client
    "expired" }  \* a refresh token or a phone code has outlived its term

ASSUME OperationsAssumption == Operations \subseteq SlowOperations \cup QuickOperations
ASSUME SessionBoundsAssumption ==
    /\ MaxAsked \in Nat /\ MaxSessions \in Nat \ {0} /\ MaxSecrets \in Nat \ {0}
    /\ MaxPhoneCodes \in Nat /\ MaxClock \in Nat \ {0} /\ MaxFailed \in Nat \ {0}
    /\ RecoveryCodes \in Nat /\ Window \in Nat
ASSUME PhonesAssumption == NoPhone \notin Phones
ASSUME SessionDisturbances == Disturbances \subseteq DisturbanceKinds /\ MaxDisturbed \in Nat

Ids == 1..MaxSessions
None == 0
TotpSteps == 1 - Window .. MaxClock + Window

\* What can be typed to be let in: a code of an authenticator, a recovery code,
\* a phone's code.  "of" is the secret, the batch or the issue it belongs to.
Recovery == [kind : {"recovery"}, of : 1..MaxSecrets, at : 1..RecoveryCodes]
OneTime == [kind : {"totp"}, of : 1..MaxSecrets, at : TotpSteps]
           \cup Recovery
           \cup [kind : {"phone"}, of : 1..MaxPhoneCodes, at : {0}]
NoCode == [kind |-> "none", of |-> 0, at |-> 0]

\* The columns of users; lastStep is below every step when nothing was spent.
Users == [failures : Nat, locked : BOOLEAN, on : BOOLEAN, secret : 0..MaxSecrets,
          lastStep : TotpSteps \cup {-Window}, codes : SUBSET Recovery,
          phone : Phones \cup {NoPhone}, phoneCode : 0..MaxPhoneCodes]
Sessions == [family : 0..MaxSessions, revoked : BOOLEAN, heir : 0..MaxSessions, mfa : BOOLEAN]

VARIABLES
    clock,
    user,       \* the row of users
    session,    \* the rows of sessions, by id
    born,       \* how many sessions were created
    request,    \* where each request is, and what it has read
    delivered,  \* sessions whose refresh token reached a client
    trusted,    \* sessions that were given an access token saying mfa: true
    minted,     \* secrets minted so far
    handed,     \* batches of recovery codes handed out so far
    issued,     \* phone codes issued so far
    asked,
    disturbed,
    ended,      \* history: families that were signed out as a whole
    uses,       \* history: how often a one-time code was honoured
    guesses,    \* history: wrong passwords answered since the lock or a sign-in
    stale       \* history: writes over a row that had changed since it was read

rowVars == <<user, session, born>>
clientVars == <<delivered, trusted>>
countVars == <<minted, handed, issued>>
historyVars == <<ended, uses, guesses, stale>>
vars == <<clock, rowVars, request, clientVars, countVars, asked, disturbed, historyVars>>

Steps == {"idle", "read", "issue", "claim", "revoke", "answer", "record", "reset", "create",
          "load", "spend", "mark", "mint", "turnOn", "turnOff", "revokeAll", "find", "link"}
Request == [step : Steps, op : SlowOperations \cup {"none"}, on : 0..MaxSessions,
            new : 0..MaxSessions, code : OneTime \cup {NoCode}, phone : Phones \cup {NoPhone},
            mfa : BOOLEAN, saw : Users]
NewUser == [failures |-> 0, locked |-> FALSE, on |-> FALSE, secret |-> None, lastStep |-> -Window,
            codes |-> {}, phone |-> NoPhone, phoneCode |-> None]
Idle == [step |-> "idle", op |-> "none", on |-> None, new |-> None, code |-> NoCode,
         phone |-> NoPhone, mfa |-> FALSE, saw |-> NewUser]
NoSession == [family |-> None, revoked |-> FALSE, heir |-> None, mfa |-> FALSE]

TypeOK ==
    /\ clock \in 1..MaxClock
    /\ user \in Users
    /\ born \in Ids /\ session \in [Ids -> Sessions]
    /\ \A s \in Ids : session[s].family \in IF s <= born THEN 1..s ELSE {None}
    /\ request \in [Requests -> Request]
    /\ delivered \subseteq 1..born /\ trusted \subseteq 1..born
    /\ minted \in 0..MaxSecrets /\ handed \in 0..MaxSecrets /\ issued \in 0..MaxPhoneCodes
    /\ asked \in 0..MaxAsked /\ disturbed \in 0..MaxDisturbed
    /\ ended \subseteq Ids
    /\ uses \in [OneTime -> Nat] /\ guesses \in Nat
    /\ stale \in [{"code", "guess"} -> Nat]

\* An account that has signed up, and perhaps set up its second factor since.
Batch(n) == {c \in Recovery : c.of = n}
Enrolled == [NewUser EXCEPT !.on = TRUE, !.secret = 1, !.codes = Batch(1)]
Init ==
    /\ clock = 1
    /\ user \in {NewUser, Enrolled}
    /\ session = [[s \in Ids |-> NoSession] EXCEPT ![1].family = 1, ![1].mfa = user.on]
    /\ born = 1
    /\ request = [r \in Requests |-> Idle]
    /\ delivered = {1} /\ trusted = {1}
    /\ minted = user.secret /\ handed = user.secret /\ issued = 0
    /\ asked = 0 /\ disturbed = 0
    /\ ended = {} /\ uses = [c \in OneTime |-> 0] /\ guesses = 0
    /\ stale = [w \in {"code", "guess"} |-> 0]

At(r, step) == request[r].step = step
Goto(r, step) == request' = [request EXCEPT ![r].step = step]
Finish(r) == request' = [request EXCEPT ![r] = Idle]
Disturb(kind) == kind \in Disturbances /\ disturbed < MaxDisturbed /\ disturbed' = disturbed + 1

(***************************************************************************)
(* Time, and requests as they arrive.                                      *)
(***************************************************************************)
Tick ==
    /\ clock < MaxClock /\ clock' = clock + 1
    /\ UNCHANGED <<rowVars, request, clientVars, countVars, asked, disturbed, historyVars>>

\* LOCKOUT_MS are over.
Unlock ==
    /\ user.locked /\ user' = [user EXCEPT !.locked = FALSE]
    /\ UNCHANGED <<clock, session, born, request, clientVars, countVars, asked, disturbed, historyVars>>

Ask(r, op, what) ==
    /\ At(r, "idle") /\ asked < MaxAsked /\ op \in Operations
    /\ asked' = asked + 1
    /\ request' = [request EXCEPT ![r] = [what EXCEPT !.op = op]]
    /\ UNCHANGED <<clock, rowVars, clientVars, countVars, disturbed, historyVars>>

\* Of a sign-in only matters whether the password is right.
AskSignIn(r) == \E op \in {"signIn", "guess"} : Ask(r, op, [Idle EXCEPT !.step = "load"])

AskRefresh(r) ==
    \E s \in delivered : Ask(r, "refresh", [Idle EXCEPT !.step = "read", !.on = s])

\* A code that is someone's to know, for the session whose access token comes
\* with it.  To turn the factor off that token must say mfa: true (MfaGuard).
Typable == {c \in OneTime : \/ c.kind = "totp" /\ c.of <= minted
                            \/ c.kind = "recovery" /\ c.of <= handed}
AskWithCode(r) ==
    \E op \in {"verify", "enable", "disable"}, s \in delivered, c \in Typable :
        /\ op = "disable" => s \in trusted
        /\ Ask(r, op, [Idle EXCEPT !.step = "load", !.on = s, !.code = c])

AskSetup(r) == Ask(r, "setup", [Idle EXCEPT !.step = "load"])

\* A stranger's WhatsApp message with a code in it.
AskRedeem(r) ==
    \E p \in Phones, n \in 1..issued :
        Ask(r, "redeem", [Idle EXCEPT !.step = "find", !.phone = p,
                                      !.code = [kind |-> "phone", of |-> n, at |-> 0]])

(***************************************************************************)
(* SessionService.rotate: the presented token's row is read, a replacement *)
(* is issued, and only then is the presented one claimed, conditionally.   *)
(***************************************************************************)
Retired(s) == session[s].revoked \/ session[s].heir # None

ReadToken(r) ==
    /\ At(r, "read")
    /\ request' = [request EXCEPT
           ![r].step = IF Retired(request[r].on) THEN "revoke" ELSE "issue",
           ![r].mfa = session[request[r].on].mfa]
    /\ UNCHANGED <<clock, rowVars, clientVars, countVars, asked, disturbed, historyVars>>

RejectExpired(r) ==
    /\ At(r, "read") /\ ~Retired(request[r].on) /\ Disturb("expired")
    /\ Finish(r)
    /\ UNCHANGED <<clock, rowVars, clientVars, countVars, asked, historyVars>>

Issue(r) ==
    /\ At(r, "issue") /\ born < MaxSessions
    /\ born' = born + 1
    /\ session' = [session EXCEPT ![born + 1] =
           [family |-> session[request[r].on].family, revoked |-> FALSE, heir |-> None,
            mfa |-> request[r].mfa]]
    /\ request' = [request EXCEPT ![r].step = "claim", ![r].new = born + 1]
    /\ UNCHANGED <<clock, user, clientVars, countVars, asked, disturbed, historyVars>>

\* Wrong: the update does not look at the row.
ClaimAnyway(r) ==
    /\ At(r, "claim")
    /\ session' = [session EXCEPT ![request[r].on].heir = request[r].new]
    /\ Goto(r, "answer")
    /\ UNCHANGED <<clock, user, born, clientVars, countVars, asked, disturbed, historyVars>>

\* Wrong: the update only asks whether the token was rotated.
ClaimUnlessRotated(r) ==
    /\ At(r, "claim")
    /\ IF session[request[r].on].heir # None
       THEN Goto(r, "revoke") /\ UNCHANGED session
       ELSE /\ session' = [session EXCEPT ![request[r].on].heir = request[r].new]
            /\ Goto(r, "answer")
    /\ UNCHANGED <<clock, user, born, clientVars, countVars, asked, disturbed, historyVars>>

Claim(r) ==
    /\ At(r, "claim")
    /\ IF Retired(request[r].on)
       THEN Goto(r, "revoke") /\ UNCHANGED session
       ELSE /\ session' = [session EXCEPT ![request[r].on].heir = request[r].new]
            /\ Goto(r, "answer")
    /\ UNCHANGED <<clock, user, born, clientVars, countVars, asked, disturbed, historyVars>>

\* One token in two hands: the whole family is signed out.
RevokeFamily(r) ==
    /\ At(r, "revoke")
    /\ LET family == session[request[r].on].family IN
       /\ session' = [s \in Ids |-> IF session[s].family = family
                                    THEN [session[s] EXCEPT !.revoked = TRUE] ELSE session[s]]
       /\ ended' = ended \cup {family}
    /\ Finish(r)
    /\ UNCHANGED <<clock, user, born, clientVars, countVars, asked, disturbed, uses, guesses, stale>>

\* What the access token that goes out says.  A refresh asks the rows again; a
\* sign-in remembers whether there was a second factor when it looked.
SaysMfa(r) == IF request[r].op = "refresh" THEN ~user.on \/ request[r].mfa
              ELSE ~request[r].saw.on

Answer(r) ==
    /\ At(r, "answer") /\ request[r].new # None
    /\ delivered' = delivered \cup {request[r].new}
    /\ trusted' = trusted \cup {s \in {request[r].new} : SaysMfa(r)}
    /\ Finish(r)
    /\ UNCHANGED <<clock, rowVars, countVars, asked, disturbed, historyVars>>

AnswerLost(r) ==
    /\ At(r, "answer") /\ Disturb("lost")
    /\ Finish(r)
    /\ UNCHANGED <<clock, rowVars, clientVars, countVars, asked, historyVars>>

\* The process dies: what was written stays, and nobody is answered.
Crash(r) ==
    /\ ~At(r, "idle") /\ Disturb("crash")
    /\ Finish(r)
    /\ UNCHANGED <<clock, rowVars, clientVars, countVars, asked, historyVars>>

(***************************************************************************)
(* Sign-in and the second factor: the users row is read, the code or the   *)
(* password is compared, and what was read is written back.                *)
(***************************************************************************)
\* verifyTotp, with the replay guard.
TotpMatches(u, c) ==
    /\ c.kind = "totp" /\ c.of = u.secret
    /\ c.at \in clock - Window .. clock + Window
    /\ c.at > u.lastStep

Matches(u, c) == TotpMatches(u, c) \/ c \in u.codes

\* What lets a request past its first read; loadSecret wants a secret.
Admitted(op, u, c) ==
    CASE op \in {"signIn", "guess"} -> ~u.locked
      [] op = "setup"               -> ~u.on
      [] op = "enable"              -> u.secret # None /\ ~u.on /\ TotpMatches(u, c)
      [] op \in {"verify", "disable"} -> u.secret # None /\ u.on /\ Matches(u, c)

Written == [signIn |-> "reset", guess |-> "record", setup |-> "mint", enable |-> "turnOn",
            verify |-> "spend", disable |-> "turnOff"]

Load(r) ==
    /\ At(r, "load")
    /\ IF Admitted(request[r].op, user, request[r].code)
       THEN request' = [request EXCEPT ![r].step = Written[request[r].op], ![r].saw = user]
       ELSE Finish(r)
    /\ UNCHANGED <<clock, rowVars, clientVars, countVars, asked, disturbed, historyVars>>

\* Wrong: the account is locked one failure late.
RecordFailureLate(r) ==
    /\ At(r, "record")
    /\ LET attempts == request[r].saw.failures + 1
           locks == attempts > MaxFailed IN
       /\ user' = [user EXCEPT !.failures = attempts, !.locked = @ \/ locks]
       /\ guesses' = IF locks THEN 0 ELSE guesses + 1
    /\ stale' = [stale EXCEPT !["guess"] = @ + IF user.failures = request[r].saw.failures THEN 0 ELSE 1]
    /\ Finish(r)
    /\ UNCHANGED <<clock, session, born, clientVars, countVars, asked, disturbed, ended, uses>>

RecordFailure(r) ==
    /\ At(r, "record")
    /\ LET attempts == request[r].saw.failures + 1
           locks == attempts >= MaxFailed IN
       /\ user' = [user EXCEPT !.failures = attempts, !.locked = @ \/ locks]
       /\ guesses' = IF locks THEN 0 ELSE guesses + 1
    /\ stale' = [stale EXCEPT !["guess"] = @ + IF user.failures = request[r].saw.failures THEN 0 ELSE 1]
    /\ Finish(r)
    /\ UNCHANGED <<clock, session, born, clientVars, countVars, asked, disturbed, ended, uses>>

ResetFailures(r) ==
    /\ At(r, "reset")
    /\ user' = [user EXCEPT !.failures = 0, !.locked = FALSE]
    /\ guesses' = 0
    /\ Goto(r, "create")
    /\ UNCHANGED <<clock, session, born, clientVars, countVars, asked, disturbed, ended, uses, stale>>

\* A login starts a family.
Create(r) ==
    /\ At(r, "create") /\ born < MaxSessions
    /\ born' = born + 1
    /\ session' = [session EXCEPT ![born + 1] = [NoSession EXCEPT !.family = born + 1]]
    /\ request' = [request EXCEPT ![r].step = "answer", ![r].new = born + 1]
    /\ UNCHANGED <<clock, user, clientVars, countVars, asked, disturbed, historyVars>>

\* History: the code was honoured, and whether the row it was matched against
\* is still the row being written.
Moved(saw, c) ==
    CASE c.kind = "totp"     -> user.lastStep # saw.lastStep \/ user.secret # saw.secret
      [] c.kind = "recovery" -> user.codes # saw.codes
      [] c.kind = "phone"    -> user.phoneCode # saw.phoneCode
Honour(r) ==
    /\ uses' = [uses EXCEPT ![request[r].code] = @ + 1]
    /\ stale' = [stale EXCEPT !["code"] = @ + IF Moved(request[r].saw, request[r].code) THEN 1 ELSE 0]

\* Wrong: the recovery code stays on the list.
SpendStep(r) ==
    /\ At(r, "spend")
    /\ user' = IF request[r].code.kind = "totp"
               THEN [user EXCEPT !.lastStep = request[r].code.at]
               ELSE user
    /\ Honour(r)
    /\ Goto(r, "mark")
    /\ UNCHANGED <<clock, session, born, clientVars, countVars, asked, disturbed, ended, guesses>>

\* The list is written whole, without the code.
Spend(r) ==
    /\ At(r, "spend")
    /\ user' = IF request[r].code.kind = "totp"
               THEN [user EXCEPT !.lastStep = request[r].code.at]
               ELSE [user EXCEPT !.codes = request[r].saw.codes \ {request[r].code}]
    /\ Honour(r)
    /\ Goto(r, "mark")
    /\ UNCHANGED <<clock, session, born, clientVars, countVars, asked, disturbed, ended, guesses>>

MarkMfaSatisfied(r) ==
    /\ At(r, "mark")
    /\ session' = [session EXCEPT ![request[r].on].mfa = @ \/ ~session[request[r].on].revoked]
    /\ Goto(r, "answer")
    /\ UNCHANGED <<clock, user, born, clientVars, countVars, asked, disturbed, historyVars>>

\* A fresh access token, from the rows as they are now.
ReissueForSession(r) ==
    /\ At(r, "answer") /\ request[r].new = None
    /\ trusted' = trusted \cup {s \in {request[r].on} :
                      ~session[s].revoked /\ (~user.on \/ session[s].mfa)}
    /\ Finish(r)
    /\ UNCHANGED <<clock, rowVars, delivered, countVars, asked, disturbed, historyVars>>

Mint(r) ==
    /\ At(r, "mint") /\ minted < MaxSecrets
    /\ minted' = minted + 1
    /\ user' = [user EXCEPT !.secret = minted + 1, !.lastStep = -Window]
    /\ Finish(r)
    /\ UNCHANGED <<clock, session, born, clientVars, handed, issued, asked, disturbed, historyVars>>

TurnOn(r) ==
    /\ At(r, "turnOn") /\ handed < MaxSecrets
    /\ handed' = handed + 1
    /\ user' = [user EXCEPT !.on = TRUE, !.codes = Batch(handed + 1),
                            !.lastStep = request[r].code.at]
    /\ Honour(r)
    /\ Goto(r, "mark")
    /\ UNCHANGED <<clock, session, born, clientVars, minted, issued, asked, disturbed, ended, guesses>>

TurnOff(r) ==
    /\ At(r, "turnOff")
    /\ user' = [user EXCEPT !.on = FALSE, !.secret = None, !.codes = {}, !.lastStep = -Window]
    /\ Honour(r)
    /\ Goto(r, "revokeAll")
    /\ UNCHANGED <<clock, session, born, clientVars, countVars, asked, disturbed, ended, guesses>>

\* Every session of every family.  tokensValidFrom moves too; nothing reads it.
RevokeAll ==
    /\ session' = [s \in Ids |-> IF s <= born THEN [session[s] EXCEPT !.revoked = TRUE] ELSE session[s]]
    /\ ended' = ended \cup {session[s].family : s \in 1..born}

RevokeAfterDisabling(r) ==
    /\ At(r, "revokeAll") /\ RevokeAll
    /\ Finish(r)
    /\ UNCHANGED <<clock, user, born, clientVars, countVars, asked, disturbed, uses, guesses, stale>>

(***************************************************************************)
(* Requests of one write.                                                  *)
(***************************************************************************)
Quick(op) == op \in Operations /\ asked < MaxAsked /\ asked' = asked + 1

SignOut ==
    /\ Quick("signOut")
    /\ \E s \in delivered : session' = [session EXCEPT ![s].revoked = TRUE]
    /\ UNCHANGED <<clock, user, born, request, clientVars, countVars, disturbed, historyVars>>

SignOutEverywhere ==
    /\ Quick("signOutAll") /\ RevokeAll
    /\ UNCHANGED <<clock, user, born, request, clientVars, countVars, disturbed, uses, guesses, stale>>

StartPhone ==
    /\ Quick("startPhone") /\ trusted # {} /\ issued < MaxPhoneCodes
    /\ issued' = issued + 1
    /\ user' = [user EXCEPT !.phoneCode = issued + 1]
    /\ UNCHANGED <<clock, session, born, request, clientVars, minted, handed, disturbed, historyVars>>

Unlink ==
    /\ Quick("unlink") /\ trusted # {}
    /\ user' = [user EXCEPT !.phone = NoPhone, !.phoneCode = None]
    /\ UNCHANGED <<clock, session, born, request, clientVars, countVars, disturbed, historyVars>>

(***************************************************************************)
(* A phone code, sent from the phone: the row is found by the code's hash  *)
(* and then updated by its id.                                             *)
(***************************************************************************)
FindByCode(r) ==
    /\ At(r, "find")
    /\ IF request[r].code.of = user.phoneCode
       THEN request' = [request EXCEPT ![r].step = "link", ![r].saw = user]
       ELSE Finish(r)
    /\ UNCHANGED <<clock, rowVars, clientVars, countVars, asked, disturbed, historyVars>>

CodeExpired(r) ==
    /\ At(r, "find") /\ Disturb("expired")
    /\ Finish(r)
    /\ UNCHANGED <<clock, rowVars, clientVars, countVars, asked, historyVars>>

LinkPhone(r) ==
    /\ At(r, "link")
    /\ user' = [user EXCEPT !.phone = request[r].phone, !.phoneCode = None]
    /\ Honour(r)
    /\ Finish(r)
    /\ UNCHANGED <<clock, session, born, clientVars, countVars, asked, disturbed, ended, guesses>>

\* The number is another account's: the unique constraint refuses the update.
PhoneTaken(r) ==
    /\ At(r, "link")
    /\ Finish(r)
    /\ UNCHANGED <<clock, rowVars, clientVars, countVars, asked, disturbed, historyVars>>

Arrive(r) == AskSignIn(r) \/ AskRefresh(r) \/ AskWithCode(r) \/ AskSetup(r) \/ AskRedeem(r)
Rotate(r) == ReadToken(r) \/ RejectExpired(r) \/ Issue(r) \/ Claim(r) \/ RevokeFamily(r)
Sign(r) == Load(r) \/ RecordFailure(r) \/ ResetFailures(r) \/ Create(r)
Factor(r) ==
    \/ Spend(r) \/ MarkMfaSatisfied(r) \/ ReissueForSession(r)
    \/ Mint(r) \/ TurnOn(r) \/ TurnOff(r) \/ RevokeAfterDisabling(r)
Phone(r) == FindByCode(r) \/ CodeExpired(r) \/ LinkPhone(r) \/ PhoneTaken(r)
Depart(r) == Answer(r) \/ AnswerLost(r) \/ Crash(r)

Next ==
    \/ Tick \/ Unlock \/ SignOut \/ SignOutEverywhere \/ StartPhone \/ Unlink
    \/ \E r \in Requests : Arrive(r) \/ Rotate(r) \/ Sign(r) \/ Factor(r) \/ Phone(r) \/ Depart(r)

Spec == Init /\ [][Next]_vars

(***************************************************************************)
(* Properties.                                                             *)
(***************************************************************************)
\* Of the refresh tokens of one login that clients hold, at most one can still
\* be exchanged, however many requests present them at once (the conditional
\* update of SessionService.rotate).
Usable(s) == s \in delivered /\ ~Retired(s)
OneHeir ==
    \A s, t \in Ids :
        Usable(s) /\ Usable(t) /\ session[s].family = session[t].family => s = t

\* Once a login has been signed out as a whole, because a token was reused or
\* because the user said everywhere, no token of it that a client holds or will
\* be handed can be exchanged, not even one a rotation was issuing meanwhile.
EndedStaysEnded ==
    \A s \in delivered : session[s].family \in ended => session[s].revoked

\* "Each is spent on use": a recovery code, a step of the authenticator and a
\* phone's code are each honoured once, and once more at most for every time a
\* request wrote over a row that another had changed since it was read.
SpentOnce == \A c \in OneTime : uses[c] <= 1 + stale["code"]

\* Progressive lockout: between two locks, or since the last sign-in, fewer than
\* MaxFailed wrong passwords are answered, and MaxFailed more at most for every
\* failure that was counted over another's.
GuessesBounded == guesses < MaxFailed * (1 + stale["guess"])
=============================================================================
