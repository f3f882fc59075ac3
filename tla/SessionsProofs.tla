---------------------------- MODULE SessionsProofs ----------------------------
(***************************************************************************)
(* Sessions, for any number of requests in flight, sessions, secrets,      *)
(* codes and failures of every kind.                                       *)
(***************************************************************************)
EXTENDS Sessions, TLAPS

USE DEF None

\* The steps of each operation, from its first to its last.
StepsOf(op) ==
    CASE op = "refresh" -> {"read", "issue", "claim", "revoke", "answer"}
      [] op = "signIn"  -> {"load", "reset", "create", "answer"}
      [] op = "guess"   -> {"load", "record"}
      [] op = "verify"  -> {"load", "spend", "mark", "answer"}
      [] op = "setup"   -> {"load", "mint"}
      [] op = "enable"  -> {"load", "turnOn", "mark", "answer"}
      [] op = "disable" -> {"load", "turnOff", "revokeAll"}
      [] op = "redeem"  -> {"find", "link"}
      [] OTHER          -> {"idle"}

\* A request keeps to its steps, is about a session whose token reached a client,
\* and brings the code its operation asks for.
Fit(q) ==
    /\ q.step \in StepsOf(q.op)
    /\ q.op \in {"refresh", "verify", "enable", "disable"} => q.on \in delivered
    /\ q.op \in {"verify", "enable", "disable"} => q.code \in OneTime /\ q.code.kind \in {"totp", "recovery"}
    /\ q.step = "turnOn" => q.code.kind = "totp"
    /\ q.op \in {"refresh", "signIn"} /\ q.step \in {"claim", "answer"} => q.new # 0
    /\ q.op = "redeem" => q.code \in OneTime /\ q.code.kind = "phone"

Fits == \A r \in Requests : Fit(request[r]) /\ request[r].new \in 0..born

Base == TypeOK /\ Fits

-----------------------------------------------------------------------------
(***************************************************************************)
(* Types.                                                                  *)
(***************************************************************************)
LEMMA Constants ==
    /\ MaxAsked \in Nat /\ MaxSessions \in Nat \ {0} /\ MaxSecrets \in Nat \ {0}
    /\ MaxPhoneCodes \in Nat /\ MaxClock \in Nat \ {0} /\ MaxFailed \in Nat \ {0}
    /\ RecoveryCodes \in Nat /\ Window \in Nat /\ MaxDisturbed \in Nat
BY SessionBoundsAssumption, SessionDisturbances

LEMMA IdleTyped == Idle \in Request /\ NewUser \in Users
<1>1. NewUser \in Users
    BY Constants DEF NewUser, Users
<1>2. Idle \in Request
    BY <1>1, Constants DEF Idle, Request, Steps
<1> QED BY <1>1, <1>2

LEMMA BatchTyped == \A n : Batch(n) \in SUBSET Recovery
BY DEF Batch

LEMMA EnrolledTyped == Enrolled \in Users
<1>1. Batch(1) \in SUBSET Recovery
    BY BatchTyped
<1>2. 1 \in 0..MaxSecrets
    BY Constants
<1> QED BY <1>1, <1>2, IdleTyped DEF Enrolled, Users

LEMMA InitTyped == Init => TypeOK
<1> SUFFICES ASSUME Init PROVE TypeOK
    OBVIOUS
<1>1. user \in Users
    BY IdleTyped, EnrolledTyped DEF Init
<1>2. user.secret \in 0..MaxSecrets /\ user.on \in BOOLEAN
    BY <1>1 DEF Users
<1>3. NoSession \in Sessions
    BY Constants DEF NoSession, Sessions
<1>4. 1 \in Ids /\ 1 \in 0..MaxSessions
    BY Constants DEF Ids
<1>5. [NoSession EXCEPT !.family = 1] \in Sessions
    BY <1>3, <1>4 DEF Sessions
<1>6. [NoSession EXCEPT !.family = 1, !.mfa = user.on] \in Sessions
    BY <1>2, <1>3, <1>4 DEF Sessions
<1>7. session = [[s \in Ids |-> NoSession] EXCEPT ![1] = [NoSession EXCEPT !.family = 1, !.mfa = user.on]]
    BY <1>4 DEF Init
<1>8. session \in [Ids -> Sessions]
    BY <1>3, <1>6, <1>7
<1>9. \A s \in Ids : session[s].family \in IF s <= born THEN 1..s ELSE {None}
    BY <1>4, <1>7 DEF Init, Ids, NoSession
<1>10. request \in [Requests -> Request]
    BY IdleTyped DEF Init
<1> QED BY <1>1, <1>2, <1>4, <1>8, <1>9, <1>10, Constants DEF Init, TypeOK, Ids

LEMMA IdleFits == Fit(Idle) /\ Idle.new = 0
BY DEF Fit, Idle, StepsOf, None

\* What a request is made of.
LEMMA RequestParts ==
    ASSUME NEW q \in Request
    PROVE  /\ q.step \in Steps /\ q.op \in SlowOperations \cup {"none"} /\ q.on \in 0..MaxSessions
           /\ q.new \in 0..MaxSessions /\ q.code \in OneTime \cup {NoCode}
           /\ q.phone \in Phones \cup {NoPhone} /\ q.mfa \in BOOLEAN /\ q.saw \in Users
BY DEF Request

\* A request that goes on to another step is a request still.
LEMMA RequestGoes ==
    ASSUME NEW q \in Request, NEW s \in Steps
    PROVE  /\ [q EXCEPT !.step = s] \in Request
           /\ [q EXCEPT !.step = s].step = s
           /\ [q EXCEPT !.step = s].op = q.op /\ [q EXCEPT !.step = s].on = q.on
           /\ [q EXCEPT !.step = s].new = q.new /\ [q EXCEPT !.step = s].code = q.code
           /\ [q EXCEPT !.step = s].saw = q.saw /\ [q EXCEPT !.step = s].phone = q.phone
BY DEF Request

\* One request moves: the others stay as they were, for clients lose no token.
LEMMA RequestMoves ==
    ASSUME Base, delivered \subseteq delivered', 0..born \subseteq 0..born',
           NEW r \in Requests, NEW q \in Request, Fit(q)', q.new \in 0..born', request' = [request EXCEPT ![r] = q]
    PROVE  request' \in [Requests -> Request] /\ Fits'
<1>1. request \in [Requests -> Request]
    BY DEF Base, TypeOK
<1>2. ASSUME NEW t \in Requests PROVE Fit(request[t])' /\ request'[t].new \in 0..born'
    <2>1. CASE t = r
        BY <1>1, <2>1 DEF Fit
    <2>2. CASE t # r
        <3>1. request'[t] = request[t] /\ Fit(request[t]) /\ request[t].new \in 0..born
            BY <1>1, <2>2 DEF Base, Fits
        <3> QED BY <3>1 DEF Fit
    <2> QED BY <2>1, <2>2
<1> QED BY <1>1, <1>2 DEF Fits

\* It moves and nothing else happens.
LEMMA RequestOnly ==
    ASSUME Base, NEW r \in Requests, NEW q \in Request, Fit(q), q.new \in {0, request[r].new},
           request' = [request EXCEPT ![r] = q], UNCHANGED <<clock, rowVars, clientVars, countVars, historyVars>>,
           asked' \in 0..MaxAsked, disturbed' \in 0..MaxDisturbed
    PROVE  Base'
<1>1. Fit(q)' /\ delivered \subseteq delivered' /\ born' = born
    BY DEF Fit, clientVars, rowVars
<1>2. q.new \in 0..born'
    BY <1>1 DEF Base, TypeOK, Fits, Ids
<1>3. request' \in [Requests -> Request] /\ Fits'
    BY <1>1, <1>2, RequestMoves
<1> QED BY <1>3 DEF Base, TypeOK, rowVars, clientVars, countVars, historyVars

LEMMA DisturbTyped == ASSUME Base, NEW kind, Disturb(kind) PROVE disturbed' \in 0..MaxDisturbed
BY Constants DEF Base, TypeOK, Disturb

\* It ends, with or without an answer.
LEMMA FinishOnly ==
    ASSUME Base, NEW r \in Requests, Finish(r),
           UNCHANGED <<clock, rowVars, clientVars, countVars, historyVars, asked>>,
           disturbed' \in 0..MaxDisturbed
    PROVE  Base'
BY IdleTyped, IdleFits, RequestOnly DEF Finish, Base, TypeOK

LEMMA AskedTyped ==
    ASSUME Base, NEW r \in Requests, NEW op, NEW what, Ask(r, op, what)
    PROVE  /\ asked' \in 0..MaxAsked /\ disturbed' \in 0..MaxDisturbed
           /\ UNCHANGED <<clock, rowVars, clientVars, countVars, historyVars>>
           /\ request' = [request EXCEPT ![r] = [what EXCEPT !.op = op]]
<1>1. asked \in 0..MaxAsked /\ disturbed \in 0..MaxDisturbed
    BY DEF Base, TypeOK
<1>2. asked' = asked + 1 /\ asked < MaxAsked /\ disturbed' = disturbed
    BY DEF Ask
<1>3. UNCHANGED <<clock, rowVars, clientVars, countVars, historyVars>>
    BY DEF Ask
<1>4. request' = [request EXCEPT ![r] = [what EXCEPT !.op = op]]
    BY DEF Ask
<1> QED BY <1>1, <1>2, <1>3, <1>4, Constants

LEMMA ArriveBase == ASSUME Base, NEW r \in Requests, Arrive(r) PROVE Base'
<1>1. CASE AskSignIn(r)
  <2>1. PICK op \in {"signIn", "guess"} : Ask(r, op, [Idle EXCEPT !.step = "load"])
    BY <1>1 DEF AskSignIn
  <2> DEFINE q == [[Idle EXCEPT !.step = "load"] EXCEPT !.op = op]
  <2>2. q \in Request
    BY IdleTyped DEF Request, Steps, SlowOperations
  <2>3. Fit(q) /\ q.new = 0
    BY <2>1 DEF Fit, StepsOf, Idle, None
  <2>8. /\ asked' \in 0..MaxAsked /\ disturbed' \in 0..MaxDisturbed
        /\ UNCHANGED <<clock, rowVars, clientVars, countVars, historyVars>>
        /\ request' = [request EXCEPT ![r] = q]
    BY <2>1, AskedTyped
  <2> HIDE DEF q
  <2> QED BY <2>2, <2>3, <2>8, RequestOnly
<1>2. CASE AskRefresh(r)
  <2>1. PICK s \in delivered : Ask(r, "refresh", [Idle EXCEPT !.step = "read", !.on = s])
    BY <1>2 DEF AskRefresh
  <2> DEFINE q == [[Idle EXCEPT !.step = "read", !.on = s] EXCEPT !.op = "refresh"]
  <2>7. s \in 0..MaxSessions
    BY Constants DEF Base, TypeOK, Ids
  <2>2. q \in Request
    BY <2>7, IdleTyped DEF Request, Steps, SlowOperations
  <2>3. Fit(q) /\ q.new = 0
    BY <2>1 DEF Fit, StepsOf, Idle, None
  <2>8. /\ asked' \in 0..MaxAsked /\ disturbed' \in 0..MaxDisturbed
        /\ UNCHANGED <<clock, rowVars, clientVars, countVars, historyVars>>
        /\ request' = [request EXCEPT ![r] = q]
    BY <2>1, AskedTyped
  <2> HIDE DEF q
  <2> QED BY <2>2, <2>3, <2>8, RequestOnly
<1>3. CASE AskWithCode(r)
  <2>1. PICK op \in {"verify", "enable", "disable"}, s \in delivered, c \in Typable :
            Ask(r, op, [Idle EXCEPT !.step = "load", !.on = s, !.code = c])
    BY <1>3 DEF AskWithCode
  <2> DEFINE q == [[Idle EXCEPT !.step = "load", !.on = s, !.code = c] EXCEPT !.op = op]
  <2>7. s \in 0..MaxSessions /\ c \in OneTime
    BY Constants DEF Base, TypeOK, Ids, Typable
  <2>2. q \in Request
    BY <2>1, <2>7, IdleTyped DEF Request, Steps, SlowOperations
  <2>3. Fit(q) /\ q.new = 0
    BY <2>1 DEF Fit, StepsOf, Idle, None, Typable
  <2>8. /\ asked' \in 0..MaxAsked /\ disturbed' \in 0..MaxDisturbed
        /\ UNCHANGED <<clock, rowVars, clientVars, countVars, historyVars>>
        /\ request' = [request EXCEPT ![r] = q]
    BY <2>1, AskedTyped
  <2> HIDE DEF q
  <2> QED BY <2>2, <2>3, <2>8, RequestOnly
<1>4. CASE AskSetup(r)
  <2> DEFINE q == [[Idle EXCEPT !.step = "load"] EXCEPT !.op = "setup"]
  <2>2. q \in Request
    BY IdleTyped DEF Request, Steps, SlowOperations
  <2>3. Fit(q) /\ q.new = 0
    BY DEF Fit, StepsOf, Idle, None
  <2>4. Ask(r, "setup", [Idle EXCEPT !.step = "load"])
    BY <1>4 DEF AskSetup
  <2>8. /\ asked' \in 0..MaxAsked /\ disturbed' \in 0..MaxDisturbed
        /\ UNCHANGED <<clock, rowVars, clientVars, countVars, historyVars>>
        /\ request' = [request EXCEPT ![r] = q]
    BY <2>4, AskedTyped
  <2> HIDE DEF q
  <2> QED BY <2>2, <2>3, <2>8, RequestOnly
<1>5. CASE AskRedeem(r)
  <2>1. PICK p \in Phones, n \in 1..issued :
            Ask(r, "redeem", [Idle EXCEPT !.step = "find", !.phone = p,
                                          !.code = [kind |-> "phone", of |-> n, at |-> 0]])
    BY <1>5 DEF AskRedeem
  <2> DEFINE c == [kind |-> "phone", of |-> n, at |-> 0]
             q == [[Idle EXCEPT !.step = "find", !.phone = p, !.code = c] EXCEPT !.op = "redeem"]
  <2>2. c \in OneTime /\ c.kind = "phone"
    BY Constants DEF OneTime, Base, TypeOK
  <2> HIDE DEF c
  <2>3. q \in Request
    BY <2>2, IdleTyped DEF Request, Steps, SlowOperations
  <2>4. Fit(q) /\ q.new = 0
    BY <2>2 DEF Fit, StepsOf, Idle, None
  <2>8. /\ asked' \in 0..MaxAsked /\ disturbed' \in 0..MaxDisturbed
        /\ UNCHANGED <<clock, rowVars, clientVars, countVars, historyVars>>
        /\ request' = [request EXCEPT ![r] = q]
    BY <2>1, AskedTyped DEF c
  <2> HIDE DEF q
  <2> QED BY <2>3, <2>4, <2>8, RequestOnly
<1> QED BY <1>1, <1>2, <1>3, <1>4, <1>5 DEF Arrive

\* The step a request is at tells what it is for.
LEMMA StepTells ==
    ASSUME NEW q, Fit(q)
    PROVE  /\ q.step \in {"read", "issue", "claim", "revoke"} => q.op = "refresh"
           /\ q.step \in {"reset", "create"} => q.op = "signIn"
           /\ q.step = "record" => q.op = "guess"
           /\ q.step = "spend" => q.op = "verify"
           /\ q.step = "mint" => q.op = "setup"
           /\ q.step = "turnOn" => q.op = "enable"
           /\ q.step \in {"turnOff", "revokeAll"} => q.op = "disable"
           /\ q.step \in {"find", "link"} => q.op = "redeem"
           /\ q.step = "mark" => q.op \in {"verify", "enable"}
           /\ q.step = "answer" => q.op \in {"refresh", "signIn", "verify", "enable"}
           /\ q.step = "load" => q.op \in {"signIn", "guess", "verify", "setup", "enable", "disable"}
BY DEF Fit, StepsOf

\* A session that is held has a row, of a login no younger than itself.
LEMMA HeldRow ==
    ASSUME Base, NEW s \in 1..born
    PROVE  /\ s \in Ids /\ s \in 0..MaxSessions /\ session[s] \in Sessions
           /\ session[s].family \in 1..s /\ session[s].family \in 1..born
           /\ session[s].mfa \in BOOLEAN /\ session[s].heir \in 0..MaxSessions
<1>1. s \in Ids /\ s \in 0..MaxSessions
    BY Constants DEF Base, TypeOK, Ids
<1>2. session[s] \in Sessions
    BY <1>1 DEF Base, TypeOK
<1>3. session[s].family \in 1..s
    BY <1>1 DEF Base, TypeOK
<1> QED BY <1>1, <1>2, <1>3 DEF Sessions, Base, TypeOK, Ids

\* The session a request is about.
LEMMA OnHeld ==
    ASSUME Base, NEW r \in Requests, request[r].op \in {"refresh", "verify", "enable", "disable"}
    PROVE  request[r].on \in delivered /\ request[r].on \in 1..born
BY DEF Base, TypeOK, Fits, Fit

LEMMA ReadBase == ASSUME Base, NEW r \in Requests, ReadToken(r) PROVE Base'
<1>1. request[r] \in Request /\ Fit(request[r]) /\ request[r].step = "read"
    BY DEF Base, TypeOK, Fits, ReadToken, At
<1>2. request[r].op = "refresh"
    BY <1>1, StepTells
<1>3. session[request[r].on].mfa \in BOOLEAN
    BY <1>2, OnHeld, HeldRow
<1> DEFINE s == IF Retired(request[r].on) THEN "revoke" ELSE "issue"
           q == [request[r] EXCEPT !.step = s, !.mfa = session[request[r].on].mfa]
<1>4. s \in {"revoke", "issue"} /\ s \in Steps
    BY DEF Steps
<1>5. request' = [request EXCEPT ![r] = q]
    BY <1>1 DEF ReadToken, Base, TypeOK, Request
<1> HIDE DEF s
<1>6. q \in Request
    BY <1>1, <1>3, <1>4 DEF Request
<1>7. Fit(q) /\ q.new = request[r].new
    BY <1>1, <1>2, <1>4 DEF Fit, StepsOf, Request
<1> HIDE DEF q
<1>8. asked' \in 0..MaxAsked /\ disturbed' \in 0..MaxDisturbed
    BY DEF ReadToken, Base, TypeOK
<1>9. UNCHANGED <<clock, rowVars, clientVars, countVars, historyVars>>
    BY DEF ReadToken
<1> QED BY <1>5, <1>6, <1>7, <1>8, <1>9, RequestOnly

LEMMA EndsBase ==
    ASSUME Base, NEW r \in Requests,
           RejectExpired(r) \/ AnswerLost(r) \/ Crash(r) \/ CodeExpired(r) \/ PhoneTaken(r)
    PROVE  Base'
<1>1. Finish(r) /\ UNCHANGED <<clock, rowVars, clientVars, countVars, historyVars, asked>>
    BY DEF RejectExpired, AnswerLost, Crash, CodeExpired, PhoneTaken
<1>2. disturbed' \in 0..MaxDisturbed
    BY DisturbTyped DEF RejectExpired, AnswerLost, Crash, CodeExpired, PhoneTaken, Base, TypeOK
<1> QED BY <1>1, <1>2, FinishOnly

\* Rows of sessions as TypeOK wants them.
Rows ==
    /\ born \in Ids /\ session \in [Ids -> Sessions]
    /\ \A s \in Ids : session[s].family \in IF s <= born THEN 1..s ELSE {None}

\* A new row, for an old login or for one of its own.
LEMMA NewRow ==
    ASSUME Base, born < MaxSessions, born' = born + 1, NEW row \in Sessions, row.family \in 1..born + 1,
           session' = [session EXCEPT ![born + 1] = row]
    PROVE  Rows' /\ born + 1 \in 0..MaxSessions /\ 0..born \subseteq 0..born' /\ born + 1 \in 0..born' /\ delivered \subseteq 1..born' /\ trusted \subseteq 1..born'
<1>1. born + 1 \in Ids /\ born \in Nat
    BY Constants DEF Base, TypeOK, Ids
<1>2. session' \in [Ids -> Sessions]
    BY <1>1 DEF Base, TypeOK
<1>3. ASSUME NEW s \in Ids PROVE (session')[s].family \in IF s <= born + 1 THEN 1..s ELSE {None}
    <2>1. CASE s = born + 1
        BY <1>1, <2>1 DEF Base, TypeOK, Ids
    <2>2. CASE s # born + 1
        BY <1>1, <2>2 DEF Base, TypeOK, Ids
    <2> QED BY <2>1, <2>2
<1> QED BY <1>1, <1>2, <1>3, Constants DEF Rows, Base, TypeOK, Ids

\* Rows that change and keep their logins.
LEMMA SameLogins ==
    ASSUME Base, born' = born, session' \in [Ids -> Sessions],
           \A s \in Ids : (session')[s].family = session[s].family
    PROVE  Rows'
BY DEF Rows, Base, TypeOK

\* What a step that writes rows of sessions leaves to be shown.
LEMMA RowsBase ==
    ASSUME Base, Rows', 0..born \subseteq 0..born', NEW r \in Requests, NEW q \in Request, Fit(q),
           q.new \in {0, request[r].new, born'}, request' = [request EXCEPT ![r] = q],
           UNCHANGED <<clock, user, clientVars, countVars, asked, disturbed, uses, guesses, stale>>,
           delivered \subseteq 1..born', trusted \subseteq 1..born', ended' \subseteq Ids
    PROVE  Base'
<1>1. Fit(q)' /\ delivered \subseteq delivered'
    BY DEF Fit, clientVars
<1>2. q.new \in 0..born'
  <2>1. born' \in Nat
    BY Constants DEF Rows, Ids
  <2>2. request[r].new \in 0..born'
    BY DEF Base, Fits
  <2> QED BY <2>1, <2>2
<1>3. request' \in [Requests -> Request] /\ Fits'
    BY <1>1, <1>2, RequestMoves
<1> QED BY <1>3 DEF Base, TypeOK, Rows, clientVars, countVars

LEMMA IssueBase == ASSUME Base, NEW r \in Requests, Issue(r) PROVE Base'
<1>1. request[r] \in Request /\ Fit(request[r]) /\ request[r].step = "issue"
    BY DEF Base, TypeOK, Fits, Issue, At
<1>2. request[r].op = "refresh"
    BY <1>1, StepTells
<1> DEFINE row == [family |-> session[request[r].on].family, revoked |-> FALSE, heir |-> None,
                   mfa |-> request[r].mfa]
           q == [request[r] EXCEPT !.step = "claim", !.new = born + 1]
<1>3. session[request[r].on].family \in 1..born
    BY <1>2, OnHeld, HeldRow
<1>4. row \in Sessions /\ row.family \in 1..born + 1
  <2>1. session[request[r].on].family \in 0..MaxSessions /\ session[request[r].on].family \in 1..born + 1
    BY <1>3, Constants DEF Base, TypeOK, Ids
  <2>2. request[r].mfa \in BOOLEAN /\ None \in 0..MaxSessions
    BY <1>1, RequestParts, Constants DEF None
  <2> QED BY <2>1, <2>2 DEF Sessions
<1>5. /\ born < MaxSessions /\ born' = born + 1 /\ session' = [session EXCEPT ![born + 1] = row]
      /\ request' = [request EXCEPT ![r] = q]
      /\ UNCHANGED <<clock, user, clientVars, countVars, asked, disturbed, ended, uses, guesses, stale>>
    BY <1>1 DEF Issue, Base, TypeOK, Request, historyVars
<1> HIDE DEF row
<1>6. /\ Rows' /\ born + 1 \in 0..MaxSessions /\ 0..born \subseteq 0..born'
      /\ delivered \subseteq 1..born' /\ trusted \subseteq 1..born'
    BY <1>4, <1>5, NewRow
<1>7. q \in Request
    BY <1>1, <1>6 DEF Request, Steps
<1>8. Fit(q) /\ q.new = born + 1
  <2>1. born + 1 # 0
    BY DEF Base, TypeOK, Ids
  <2> QED BY <1>1, <1>2, <2>1 DEF Fit, StepsOf, Request
<1> HIDE DEF q
<1>9. ended' \subseteq Ids /\ q.new = born'
    BY <1>5, <1>8 DEF Base, TypeOK
<1> QED BY <1>5, <1>6, <1>7, <1>8, <1>9, RowsBase

LEMMA ClaimBase == ASSUME Base, NEW r \in Requests, Claim(r) PROVE Base'
<1>1. request[r] \in Request /\ Fit(request[r]) /\ request[r].step = "claim"
    BY DEF Base, TypeOK, Fits, Claim, At
<1>2. request[r].op = "refresh"
    BY <1>1, StepTells
<1>3. PICK s \in {"revoke", "answer"} : request' = [request EXCEPT ![r].step = s]
    BY DEF Claim, Goto
<1> DEFINE q == [request[r] EXCEPT !.step = s]
<1>4. q \in Request /\ Fit(q) /\ q.new = request[r].new
    BY <1>1, <1>2 DEF Fit, StepsOf, Request, Steps
<1>5. session' = session \/ session' = [session EXCEPT ![request[r].on].heir = request[r].new]
    BY DEF Claim
<1>6. request[r].new \in 0..MaxSessions
    BY <1>1, RequestParts
<1>7. session' \in [Ids -> Sessions] /\ \A t \in Ids : (session')[t].family = session[t].family
  <2>1. session \in [Ids -> Sessions]
    BY DEF Base, TypeOK
  <2>2. CASE session' = session
    BY <2>1, <2>2
  <2>3. CASE session' = [session EXCEPT ![request[r].on].heir = request[r].new]
    BY <1>6, <2>1, <2>3 DEF Sessions
  <2> QED BY <1>5, <2>2, <2>3
<1>8. UNCHANGED <<clock, user, born, clientVars, countVars, asked, disturbed, ended, uses, guesses, stale>>
    BY DEF Claim, historyVars
<1>9. Rows'
    BY <1>7, <1>8, SameLogins
<1>10. request' = [request EXCEPT ![r] = q]
    BY <1>1, <1>3 DEF Base, TypeOK
<1> HIDE DEF q
<1> QED BY <1>4, <1>8, <1>9, <1>10, RowsBase DEF Base, TypeOK

LEMMA RevokeBase == ASSUME Base, NEW r \in Requests, RevokeFamily(r) PROVE Base'
<1>1. request[r] \in Request /\ Fit(request[r]) /\ request[r].step = "revoke"
    BY DEF Base, TypeOK, Fits, RevokeFamily, At
<1>2. session[request[r].on].family \in 1..born
    BY <1>1, StepTells, OnHeld, HeldRow
<1> DEFINE family == session[request[r].on].family
<1>3. session' = [s \in Ids |-> IF session[s].family = family THEN [session[s] EXCEPT !.revoked = TRUE]
                                ELSE session[s]]
    BY DEF RevokeFamily
<1>4. ended' = ended \cup {family} /\ Finish(r)
      /\ UNCHANGED <<clock, user, born, clientVars, countVars, asked, disturbed, uses, guesses, stale>>
    BY DEF RevokeFamily
<1>5. ended' \subseteq Ids
  <2>1. family \in Ids
    BY <1>2, Constants DEF Base, TypeOK, Ids
  <2> HIDE DEF family
  <2> QED BY <1>4, <2>1 DEF Base, TypeOK
<1> HIDE DEF family
<1>6. session' \in [Ids -> Sessions] /\ \A t \in Ids : (session')[t].family = session[t].family
    BY <1>3 DEF Base, TypeOK, Sessions
<1>7. Rows'
    BY <1>4, <1>6, SameLogins
<1> QED BY <1>4, <1>5, <1>7, IdleTyped, IdleFits, RowsBase DEF Finish, Base, TypeOK

LEMMA CreateBase == ASSUME Base, NEW r \in Requests, Create(r) PROVE Base'
<1>1. request[r] \in Request /\ Fit(request[r]) /\ request[r].step = "create"
    BY DEF Base, TypeOK, Fits, Create, At
<1>2. request[r].op = "signIn"
    BY <1>1, StepTells
<1> DEFINE row == [NoSession EXCEPT !.family = born + 1]
           q == [request[r] EXCEPT !.step = "answer", !.new = born + 1]
<1>3. born \in 1..MaxSessions
    BY DEF Base, TypeOK, Ids
<1>4. /\ born < MaxSessions /\ born' = born + 1 /\ session' = [session EXCEPT ![born + 1] = row]
      /\ request' = [request EXCEPT ![r] = q]
      /\ UNCHANGED <<clock, user, clientVars, countVars, asked, disturbed, ended, uses, guesses, stale>>
    BY <1>1 DEF Create, Base, TypeOK, Request, historyVars
<1>5. row \in Sessions /\ row.family \in 1..born + 1
  <2>1. born + 1 \in 0..MaxSessions /\ born + 1 \in 1..born + 1 /\ 0 \in 0..MaxSessions
    BY <1>3, <1>4, Constants
  <2> QED BY <2>1 DEF Sessions, NoSession, None
<1> HIDE DEF row
<1>6. /\ Rows' /\ born + 1 \in 0..MaxSessions /\ 0..born \subseteq 0..born'
      /\ delivered \subseteq 1..born' /\ trusted \subseteq 1..born'
    BY <1>4, <1>5, NewRow
<1>7. q \in Request
    BY <1>1, <1>6 DEF Request, Steps
<1>8. Fit(q) /\ q.new = born'
  <2>1. born + 1 # 0
    BY <1>3
  <2> QED BY <1>1, <1>2, <1>4, <2>1 DEF Fit, StepsOf, Request
<1> HIDE DEF q
<1>9. ended' \subseteq Ids
    BY <1>4 DEF Base, TypeOK
<1> QED BY <1>4, <1>6, <1>7, <1>8, <1>9, RowsBase

LEMMA MarkBase == ASSUME Base, NEW r \in Requests, MarkMfaSatisfied(r) PROVE Base'
<1>1. request[r] \in Request /\ Fit(request[r]) /\ request[r].step = "mark"
    BY DEF Base, TypeOK, Fits, MarkMfaSatisfied, At
<1>2. request[r].op \in {"verify", "enable"}
    BY <1>1, StepTells
<1> DEFINE on == request[r].on
           q == [request[r] EXCEPT !.step = "answer"]
<1>3. on \in Ids /\ session[on].mfa \in BOOLEAN
    BY <1>2, OnHeld, HeldRow
<1>4. q \in Request /\ Fit(q) /\ q.new = request[r].new
    BY <1>1, <1>2 DEF Fit, StepsOf, Request, Steps
<1>5. session' = [session EXCEPT ![on].mfa = session[on].mfa \/ ~session[on].revoked]
    BY <1>3 DEF MarkMfaSatisfied, Base, TypeOK
<1> DEFINE m == session[on].mfa \/ ~session[on].revoked
<1>6. m \in BOOLEAN
    OBVIOUS
<1>7. session' = [session EXCEPT ![on].mfa = m]
    BY <1>5
<1> HIDE DEF m, on
<1>8. session' \in [Ids -> Sessions] /\ \A t \in Ids : (session')[t].family = session[t].family
    BY <1>6, <1>7 DEF Base, TypeOK, Sessions
<1>9. UNCHANGED <<clock, user, born, clientVars, countVars, asked, disturbed, ended, uses, guesses, stale>>
    BY DEF MarkMfaSatisfied, historyVars
<1>10. request' = [request EXCEPT ![r] = q]
    BY <1>1 DEF MarkMfaSatisfied, Goto, Base, TypeOK
<1>11. Rows' /\ 0..born \subseteq 0..born' /\ ended' \subseteq Ids
       /\ delivered \subseteq 1..born' /\ trusted \subseteq 1..born'
    BY <1>8, <1>9, SameLogins DEF Base, TypeOK
<1> HIDE DEF q
<1> QED BY <1>4, <1>9, <1>10, <1>11, RowsBase

LEMMA RevokeAllRows ==
    ASSUME Base, RevokeAll, born' = born
    PROVE  Rows' /\ ended' \subseteq Ids
<1>1. session' \in [Ids -> Sessions] /\ \A t \in Ids : (session')[t].family = session[t].family
    BY DEF RevokeAll, Base, TypeOK, Sessions
<1>2. \A s \in 1..born : session[s].family \in Ids
  <2> TAKE s \in 1..born
  <2>1. session[s].family \in 1..born
    BY HeldRow
  <2> QED BY <2>1, Constants DEF Base, TypeOK, Ids
<1>3. ended' \subseteq Ids
    BY <1>2 DEF RevokeAll, Base, TypeOK
<1> QED BY <1>1, <1>3, SameLogins

LEMMA DisabledBase == ASSUME Base, NEW r \in Requests, RevokeAfterDisabling(r) PROVE Base'
<1>1. RevokeAll /\ Finish(r)
      /\ UNCHANGED <<clock, user, born, clientVars, countVars, asked, disturbed, uses, guesses, stale>>
    BY DEF RevokeAfterDisabling
<1>2. Rows' /\ ended' \subseteq Ids
    BY <1>1, RevokeAllRows
<1> QED BY <1>1, <1>2, IdleTyped, IdleFits, RowsBase DEF Finish, Base, TypeOK, clientVars

\* The answer brings what was issued to the client.
LEMMA AnswerBase == ASSUME Base, NEW r \in Requests, Answer(r) \/ ReissueForSession(r) PROVE Base'
<1>1. request[r] \in Request /\ Fit(request[r]) /\ request[r].step = "answer" /\ request[r].new \in 0..born
    BY DEF Base, TypeOK, Fits, Answer, ReissueForSession, At
<1>2. /\ Finish(r) /\ UNCHANGED <<clock, rowVars, countVars, asked, disturbed, historyVars>>
    BY DEF Answer, ReissueForSession
<1>3. delivered \subseteq delivered' /\ delivered' \subseteq 1..born /\ trusted' \subseteq 1..born
  <2>1. CASE Answer(r)
    <3>1. request[r].new \in 1..born
        BY <1>1, <2>1 DEF Answer, None, Base, TypeOK, Ids
    <3> QED BY <2>1, <3>1 DEF Answer, Base, TypeOK
  <2>2. CASE ReissueForSession(r)
    <3>1. request[r].new = 0
        BY <2>2 DEF ReissueForSession, None
    <3>2. request[r].on \in 1..born
        BY <1>1, <3>1, StepTells, OnHeld DEF Fit
    <3> QED BY <2>2, <3>2 DEF ReissueForSession, Base, TypeOK
  <2> QED BY <2>1, <2>2
<1>4. Fit(Idle)' /\ Idle.new \in 0..born'
    BY <1>2, IdleFits DEF Fit, Idle, Base, TypeOK, Ids, rowVars
<1>5. request' \in [Requests -> Request] /\ Fits'
    BY <1>2, <1>3, <1>4, IdleTyped, RequestMoves DEF Finish, rowVars
<1> QED BY <1>2, <1>3, <1>5 DEF Base, TypeOK, rowVars, countVars, historyVars

\* What a step that writes the row of users leaves to be shown.
LEMMA UserBase ==
    ASSUME Base, user' \in Users, NEW r \in Requests, NEW q \in Request, Fit(q),
           q.new \in {0, request[r].new}, request' = [request EXCEPT ![r] = q],
           UNCHANGED <<clock, session, born, clientVars, issued, asked, disturbed, ended>>,
           minted' \in 0..MaxSecrets, handed' \in 0..MaxSecrets,
           uses' \in [OneTime -> Nat], guesses' \in Nat, stale' \in [{"code", "guess"} -> Nat]
    PROVE  Base'
<1>1. Fit(q)' /\ delivered \subseteq delivered'
    BY DEF Fit, clientVars
<1>2. request[r].new \in 0..born /\ born \in Nat
    BY Constants DEF Base, TypeOK, Fits, Ids
<1>3. q.new \in 0..born' /\ 0..born \subseteq 0..born'
    BY <1>2
<1>4. request' \in [Requests -> Request] /\ Fits'
    BY <1>1, <1>3, RequestMoves
<1> QED BY <1>4 DEF Base, TypeOK, clientVars

\* A code is counted when it is honoured.
LEMMA HonourTyped ==
    ASSUME Base, NEW r \in Requests, Honour(r), request[r].code \in OneTime
    PROVE  uses' \in [OneTime -> Nat] /\ stale' \in [{"code", "guess"} -> Nat]
<1>1. uses' \in [OneTime -> Nat]
    BY DEF Honour, Base, TypeOK
<1> DEFINE n == IF Moved(request[r].saw, request[r].code) THEN 1 ELSE 0
<1>2. n \in Nat
    OBVIOUS
<1>3. stale' = [stale EXCEPT !["code"] = stale["code"] + n]
    BY DEF Honour, Base, TypeOK
<1> HIDE DEF n
<1> QED BY <1>1, <1>2, <1>3 DEF Base, TypeOK

\* What was read of the row, by whom it was read.
LEMMA CodeTyped ==
    ASSUME Base, NEW r \in Requests, request[r].op \in {"verify", "enable", "disable", "redeem"}
    PROVE  request[r].code \in OneTime /\ request[r].code.kind \in {"totp", "recovery", "phone"}
BY DEF Base, Fits, Fit

LEMMA TotpTyped == ASSUME NEW c \in OneTime, c.kind = "totp" PROVE c.at \in TotpSteps /\ c.of \in 1..MaxSecrets
BY DEF OneTime, Recovery

LEMMA UserParts ==
    ASSUME NEW u \in Users
    PROVE  /\ u.failures \in Nat /\ u.locked \in BOOLEAN /\ u.on \in BOOLEAN /\ u.secret \in 0..MaxSecrets
           /\ u.lastStep \in TotpSteps \cup {-Window} /\ u.codes \in SUBSET Recovery
           /\ u.phone \in Phones \cup {NoPhone} /\ u.phoneCode \in 0..MaxPhoneCodes
BY DEF Users

LEMMA LoadBase == ASSUME Base, NEW r \in Requests, Load(r) PROVE Base'
<1>1. request[r] \in Request /\ Fit(request[r]) /\ request[r].step = "load"
    BY DEF Base, TypeOK, Fits, Load, At
<1>2. request[r].op \in {"signIn", "guess", "verify", "setup", "enable", "disable"}
    BY <1>1, StepTells
<1>3. UNCHANGED <<clock, rowVars, clientVars, countVars, asked, disturbed, historyVars>>
    BY DEF Load
<1>4. CASE ~Admitted(request[r].op, user, request[r].code)
    BY <1>3, <1>4, FinishOnly DEF Load, Base, TypeOK
<1>5. CASE Admitted(request[r].op, user, request[r].code)
  <2> DEFINE s == Written[request[r].op]
             q == [request[r] EXCEPT !.step = s, !.saw = user]
  <2>1. s \in StepsOf(request[r].op) /\ s \in Steps /\ s # "answer" /\ s # "claim"
    BY <1>2 DEF Written, StepsOf, Steps
  <2>2. s = "turnOn" => request[r].op = "enable"
    BY <1>2 DEF Written
  <2>3. request[r].op = "enable" => request[r].code.kind = "totp"
    BY <1>5 DEF Admitted, TotpMatches
  <2>4. request' = [request EXCEPT ![r] = q]
    BY <1>1, <1>5 DEF Load, Base, TypeOK, Request
  <2> HIDE DEF s
  <2>5. q \in Request
    BY <1>1, <2>1 DEF Request, Base, TypeOK
  <2>6. Fit(q) /\ q.new = request[r].new
    BY <1>1, <2>1, <2>2, <2>3 DEF Fit, Request
  <2> HIDE DEF q
  <2> QED BY <1>3, <2>4, <2>5, <2>6, RequestOnly DEF Base, TypeOK
<1> QED BY <1>4, <1>5

LEMMA FindBase == ASSUME Base, NEW r \in Requests, FindByCode(r) PROVE Base'
<1>1. request[r] \in Request /\ Fit(request[r]) /\ request[r].step = "find"
    BY DEF Base, TypeOK, Fits, FindByCode, At
<1>2. request[r].op = "redeem"
    BY <1>1, StepTells
<1>3. UNCHANGED <<clock, rowVars, clientVars, countVars, asked, disturbed, historyVars>>
    BY DEF FindByCode
<1>4. CASE request[r].code.of # user.phoneCode
    BY <1>3, <1>4, FinishOnly DEF FindByCode, Base, TypeOK
<1>5. CASE request[r].code.of = user.phoneCode
  <2> DEFINE q == [request[r] EXCEPT !.step = "link", !.saw = user]
  <2>1. request' = [request EXCEPT ![r] = q]
    BY <1>1, <1>5 DEF FindByCode, Base, TypeOK, Request
  <2>2. q \in Request
    BY <1>1 DEF Request, Steps, Base, TypeOK
  <2>3. Fit(q) /\ q.new = request[r].new
    BY <1>1, <1>2 DEF Fit, StepsOf, Request
  <2> HIDE DEF q
  <2> QED BY <1>3, <2>1, <2>2, <2>3, RequestOnly DEF Base, TypeOK
<1> QED BY <1>4, <1>5

\* Whether a failure is counted over another's.
LEMMA RecordBase == ASSUME Base, NEW r \in Requests, RecordFailure(r) PROVE Base'
<1>1. request[r] \in Request /\ guesses \in Nat /\ user \in Users /\ stale \in [{"code", "guess"} -> Nat]
    BY DEF Base, TypeOK
<1> DEFINE attempts == request[r].saw.failures + 1
           locks == attempts >= MaxFailed
           n == IF user.failures = request[r].saw.failures THEN 0 ELSE 1
           b == user.locked \/ locks
<1>2. attempts \in Nat
    BY <1>1, RequestParts, UserParts
<1>3. guesses' = (IF locks THEN 0 ELSE guesses + 1) /\ stale' = [stale EXCEPT !["guess"] = stale["guess"] + n]
      /\ Finish(r)
      /\ UNCHANGED <<clock, session, born, clientVars, countVars, asked, disturbed, ended, uses>>
    BY <1>1 DEF RecordFailure
<1>4. user' = [user EXCEPT !.failures = attempts, !.locked = b]
    BY <1>1 DEF RecordFailure, Users
<1>5. b \in BOOLEAN /\ n \in Nat
    OBVIOUS
<1> HIDE DEF attempts, b, n
<1>6. user' \in Users
    BY <1>1, <1>2, <1>4, <1>5 DEF Users
<1> HIDE DEF locks
<1>7. guesses' \in Nat /\ stale' \in [{"code", "guess"} -> Nat]
    BY <1>1, <1>3, <1>5
<1> QED BY <1>3, <1>6, <1>7, IdleTyped, IdleFits, UserBase DEF Finish, Base, TypeOK, countVars

LEMMA ResetBase == ASSUME Base, NEW r \in Requests, ResetFailures(r) PROVE Base'
<1>1. request[r] \in Request /\ Fit(request[r]) /\ request[r].step = "reset"
    BY DEF Base, TypeOK, Fits, ResetFailures, At
<1>2. request[r].op = "signIn"
    BY <1>1, StepTells
<1> DEFINE q == [request[r] EXCEPT !.step = "create"]
<1>3. q \in Request /\ Fit(q) /\ q.new = request[r].new
    BY <1>1, <1>2 DEF Fit, StepsOf, Request, Steps
<1>4. request' = [request EXCEPT ![r] = q]
    BY <1>1 DEF ResetFailures, Goto, Base, TypeOK
<1>5. user' \in Users
    BY DEF ResetFailures, Base, TypeOK, Users
<1> HIDE DEF q
<1> QED BY <1>3, <1>4, <1>5, UserBase DEF ResetFailures, Base, TypeOK, countVars

LEMMA SpendBase == ASSUME Base, NEW r \in Requests, Spend(r) PROVE Base'
<1>1. request[r] \in Request /\ Fit(request[r]) /\ request[r].step = "spend"
    BY DEF Base, TypeOK, Fits, Spend, At
<1>2. request[r].op = "verify"
    BY <1>1, StepTells
<1>3. request[r].code \in OneTime
    BY <1>2, CodeTyped
<1> DEFINE q == [request[r] EXCEPT !.step = "mark"]
<1>4. q \in Request /\ Fit(q) /\ q.new = request[r].new
    BY <1>1, <1>2 DEF Fit, StepsOf, Request, Steps
<1>5. request' = [request EXCEPT ![r] = q]
    BY <1>1 DEF Spend, Goto, Base, TypeOK
<1>6. user' \in Users
  <2>1. user \in Users /\ request[r].saw.codes \in SUBSET Recovery
    BY <1>1, RequestParts, UserParts DEF Base, TypeOK
  <2>2. CASE request[r].code.kind = "totp"
    <3>1. request[r].code.at \in TotpSteps
        BY <1>3, <2>2, TotpTyped
    <3> QED BY <2>1, <2>2, <3>1 DEF Spend, Users
  <2>3. CASE request[r].code.kind # "totp"
    <3>1. request[r].saw.codes \ {request[r].code} \in SUBSET Recovery
        BY <2>1
    <3> QED BY <2>1, <2>3, <3>1 DEF Spend, Users
  <2> QED BY <2>2, <2>3
<1>7. uses' \in [OneTime -> Nat] /\ stale' \in [{"code", "guess"} -> Nat]
    BY <1>3, HonourTyped DEF Spend
<1> HIDE DEF q
<1> QED BY <1>4, <1>5, <1>6, <1>7, UserBase DEF Spend, Base, TypeOK, countVars

LEMMA MintBase == ASSUME Base, NEW r \in Requests, Mint(r) PROVE Base'
<1>1. user \in Users /\ minted + 1 \in 0..MaxSecrets
  <2>1. user \in Users /\ minted \in 0..MaxSecrets /\ minted < MaxSecrets
    BY DEF Base, TypeOK, Mint
  <2> QED BY <2>1, Constants
<1>2. user' \in Users
    BY <1>1 DEF Mint, Users
<1> QED BY <1>1, <1>2, IdleTyped, IdleFits, UserBase DEF Mint, Finish, Base, TypeOK, historyVars

LEMMA TurnOnBase == ASSUME Base, NEW r \in Requests, TurnOn(r) PROVE Base'
<1>1. request[r] \in Request /\ Fit(request[r]) /\ request[r].step = "turnOn"
    BY DEF Base, TypeOK, Fits, TurnOn, At
<1>2. request[r].op = "enable"
    BY <1>1, StepTells
<1>3. request[r].code \in OneTime /\ request[r].code.at \in TotpSteps
    BY <1>1, <1>2, CodeTyped, TotpTyped DEF Fit
<1> DEFINE q == [request[r] EXCEPT !.step = "mark"]
<1>4. q \in Request /\ Fit(q) /\ q.new = request[r].new
    BY <1>1, <1>2 DEF Fit, StepsOf, Request, Steps
<1>5. request' = [request EXCEPT ![r] = q]
    BY <1>1 DEF TurnOn, Goto, Base, TypeOK
<1>6. user' \in Users /\ handed' \in 0..MaxSecrets
  <2>1. user \in Users /\ handed + 1 \in 0..MaxSecrets
    <3>1. user \in Users /\ handed \in 0..MaxSecrets /\ handed < MaxSecrets
        BY DEF Base, TypeOK, TurnOn
    <3> QED BY <3>1, Constants
  <2>2. Batch(handed + 1) \in SUBSET Recovery
    BY BatchTyped
  <2> QED BY <1>3, <2>1, <2>2 DEF TurnOn, Users
<1>7. uses' \in [OneTime -> Nat] /\ stale' \in [{"code", "guess"} -> Nat]
    BY <1>3, HonourTyped DEF TurnOn
<1> HIDE DEF q
<1> QED BY <1>4, <1>5, <1>6, <1>7, UserBase DEF TurnOn, Base, TypeOK

LEMMA TurnOffBase == ASSUME Base, NEW r \in Requests, TurnOff(r) PROVE Base'
<1>1. request[r] \in Request /\ Fit(request[r]) /\ request[r].step = "turnOff"
    BY DEF Base, TypeOK, Fits, TurnOff, At
<1>2. request[r].op = "disable"
    BY <1>1, StepTells
<1>3. request[r].code \in OneTime
    BY <1>2, CodeTyped
<1> DEFINE q == [request[r] EXCEPT !.step = "revokeAll"]
<1>4. q \in Request /\ Fit(q) /\ q.new = request[r].new
    BY <1>1, <1>2 DEF Fit, StepsOf, Request, Steps
<1>5. request' = [request EXCEPT ![r] = q]
    BY <1>1 DEF TurnOff, Goto, Base, TypeOK
<1>6. user' \in Users
  <2>1. user \in Users /\ None \in 0..MaxSecrets
    BY Constants DEF Base, TypeOK, None
  <2> QED BY <2>1 DEF TurnOff, Users
<1>7. uses' \in [OneTime -> Nat] /\ stale' \in [{"code", "guess"} -> Nat]
    BY <1>3, HonourTyped DEF TurnOff
<1> HIDE DEF q
<1> QED BY <1>4, <1>5, <1>6, <1>7, UserBase DEF TurnOff, Base, TypeOK, countVars

LEMMA LinkBase == ASSUME Base, NEW r \in Requests, LinkPhone(r) PROVE Base'
<1>1. request[r] \in Request /\ Fit(request[r]) /\ request[r].step = "link"
    BY DEF Base, TypeOK, Fits, LinkPhone, At
<1>2. request[r].code \in OneTime
    BY <1>1, StepTells, CodeTyped
<1>3. user' \in Users
  <2>1. user \in Users /\ None \in 0..MaxPhoneCodes /\ request[r].phone \in Phones \cup {NoPhone}
    BY <1>1, RequestParts, Constants DEF Base, TypeOK, None
  <2> QED BY <2>1 DEF LinkPhone, Users
<1>4. uses' \in [OneTime -> Nat] /\ stale' \in [{"code", "guess"} -> Nat]
    BY <1>2, HonourTyped DEF LinkPhone
<1> QED BY <1>3, <1>4, IdleTyped, IdleFits, UserBase DEF LinkPhone, Finish, Base, TypeOK, countVars

-----------------------------------------------------------------------------
\* One more was asked.
LEMMA QuickTyped == ASSUME Base, NEW op, Quick(op) PROVE asked' \in 0..MaxAsked
<1>1. asked \in 0..MaxAsked /\ asked < MaxAsked /\ asked' = asked + 1
    BY DEF Base, TypeOK, Quick
<1> QED BY <1>1, Constants

\* Steps of no request.
QuietNext == Tick \/ Unlock \/ SignOut \/ SignOutEverywhere \/ StartPhone \/ Unlink

LEMMA FitsStay ==
    ASSUME Base, UNCHANGED <<request, delivered, born>>
    PROVE  Fits'
BY DEF Base, Fits, Fit

LEMMA QuietBase == ASSUME Base, QuietNext PROVE Base'
<1>1. CASE Tick
    BY <1>1, FitsStay, Constants DEF Tick, Base, TypeOK, rowVars, clientVars, countVars, historyVars
<1>2. CASE Unlock
  <2>1. user' \in Users
    BY <1>2 DEF Unlock, Base, TypeOK, Users
  <2> QED BY <1>2, <2>1, FitsStay DEF Unlock, Base, TypeOK, clientVars, countVars, historyVars
<1>3. CASE SignOut
  <2>1. session' \in [Ids -> Sessions] /\ \A t \in Ids : (session')[t].family = session[t].family
    <3>1. PICK s \in delivered : session' = [session EXCEPT ![s].revoked = TRUE]
        BY <1>3 DEF SignOut
    <3>2. session \in [Ids -> Sessions]
        BY DEF Base, TypeOK
    <3> QED BY <3>1, <3>2 DEF Sessions
  <2>2. Rows'
    BY <1>3, <2>1, SameLogins DEF SignOut
  <2>3. asked' \in 0..MaxAsked
    BY <1>3, QuickTyped DEF SignOut
  <2> QED BY <1>3, <2>2, <2>3, FitsStay DEF SignOut, Rows, Base, TypeOK, clientVars, countVars, historyVars
<1>4. CASE SignOutEverywhere
  <2>1. Rows' /\ ended' \subseteq Ids
    BY <1>4, RevokeAllRows DEF SignOutEverywhere
  <2>2. asked' \in 0..MaxAsked
    BY <1>4, QuickTyped DEF SignOutEverywhere
  <2> QED BY <1>4, <2>1, <2>2, FitsStay DEF SignOutEverywhere, Rows, Base, TypeOK, clientVars, countVars
<1>5. CASE StartPhone
  <2>1. asked' \in 0..MaxAsked /\ issued + 1 \in 0..MaxPhoneCodes
    <3>1. asked' \in 0..MaxAsked
        BY <1>5, QuickTyped DEF StartPhone
    <3>2. issued \in 0..MaxPhoneCodes /\ issued < MaxPhoneCodes
        BY <1>5 DEF StartPhone, Base, TypeOK
    <3> QED BY <3>1, <3>2, Constants
  <2>2. user' \in Users
    BY <1>5, <2>1 DEF StartPhone, Base, TypeOK, Users
  <2> QED BY <1>5, <2>1, <2>2, FitsStay DEF StartPhone, Base, TypeOK, clientVars, historyVars
<1>6. CASE Unlink
  <2>1. asked' \in 0..MaxAsked /\ None \in 0..MaxPhoneCodes
    BY <1>6, QuickTyped, Constants DEF Unlink, None
  <2>2. user' \in Users
    BY <1>6, <2>1 DEF Unlink, Base, TypeOK, Users
  <2> QED BY <1>6, <2>1, <2>2, FitsStay DEF Unlink, Base, TypeOK, clientVars, countVars, historyVars
<1> QED BY <1>1, <1>2, <1>3, <1>4, <1>5, <1>6 DEF QuietNext

\* The steps of one request.
RequestNext(r) == Arrive(r) \/ Rotate(r) \/ Sign(r) \/ Factor(r) \/ Phone(r) \/ Depart(r)

LEMMA RequestBase == ASSUME Base, NEW r \in Requests, RequestNext(r) PROVE Base'
<1>1. CASE Arrive(r)
    BY <1>1, ArriveBase
<1>2. CASE Rotate(r)
    BY <1>2, ReadBase, EndsBase, IssueBase, ClaimBase, RevokeBase DEF Rotate
<1>3. CASE Sign(r)
    BY <1>3, LoadBase, RecordBase, ResetBase, CreateBase DEF Sign
<1>4. CASE Factor(r)
    BY <1>4, SpendBase, MarkBase, AnswerBase, MintBase, TurnOnBase, TurnOffBase, DisabledBase DEF Factor
<1>5. CASE Phone(r)
    BY <1>5, FindBase, EndsBase, LinkBase DEF Phone
<1>6. CASE Depart(r)
    BY <1>6, AnswerBase, EndsBase DEF Depart
<1> QED BY <1>1, <1>2, <1>3, <1>4, <1>5, <1>6 DEF RequestNext

LEMMA NextSplit == Next => QuietNext \/ \E r \in Requests : RequestNext(r)
BY DEF Next, QuietNext, RequestNext

LEMMA BaseInit == Init => Base
<1>1. Init => Fits
  <2> SUFFICES ASSUME Init PROVE Fits
    OBVIOUS
  <2>1. born = 1 /\ \A r \in Requests : request[r] = Idle
    BY DEF Init
  <2> QED BY <2>1, IdleFits DEF Fits
<1> QED BY <1>1, InitTyped DEF Base

LEMMA BaseNext == Base /\ [Next]_vars => Base'
<1> SUFFICES ASSUME Base, [Next]_vars PROVE Base'
    OBVIOUS
<1>1. CASE Next
    BY <1>1, NextSplit, QuietBase, RequestBase
<1>2. CASE UNCHANGED vars
  <2>1. Fits'
    BY <1>2, FitsStay DEF vars, rowVars, clientVars
  <2> QED BY <1>2, <2>1 DEF Base, TypeOK, vars, rowVars, clientVars, countVars, historyVars
<1> QED BY <1>1, <1>2

LEMMA BaseAlways == Spec => []Base
BY BaseInit, BaseNext, PTL DEF Spec

\* Every variable keeps its type, for any number of requests at once.
THEOREM SessionTypes == Spec => []TypeOK
<1>1. Base => TypeOK
    BY DEF Base
<1> QED BY <1>1, BaseAlways, PTL

-----------------------------------------------------------------------------
(***************************************************************************)
(* Guesses.  The count of the row is behind the guesses by at most a       *)
(* lock's worth for each time it was written over.                         *)
(***************************************************************************)
GuessInv ==
    /\ guesses <= user.failures + MaxFailed * stale["guess"]
    /\ user.failures >= MaxFailed => guesses = 0

LEMMA GuessTypes ==
    ASSUME Base
    PROVE  /\ guesses \in Nat /\ user.failures \in Nat /\ stale["guess"] \in Nat /\ stale["code"] \in Nat
           /\ MaxFailed * stale["guess"] \in Nat /\ MaxFailed * (stale["guess"] + 1) \in Nat
           /\ MaxFailed * (stale["guess"] + 1) = MaxFailed * stale["guess"] + MaxFailed
<1>1. guesses \in Nat /\ user.failures \in Nat /\ stale["guess"] \in Nat /\ stale["code"] \in Nat
    BY UserParts DEF Base, TypeOK
<1> QED BY <1>1, Constants

LEMMA GuessStays ==
    ASSUME GuessInv, guesses' = guesses, user'.failures = user.failures, (stale')["guess"] = stale["guess"]
    PROVE  GuessInv'
BY DEF GuessInv

\* Whoever else writes the row of users leaves the count of failures alone.
LEMMA OtherWrites ==
    ASSUME Base, NEW r \in Requests, Spend(r) \/ Mint(r) \/ TurnOn(r) \/ TurnOff(r) \/ LinkPhone(r)
    PROVE  guesses' = guesses /\ user'.failures = user.failures /\ (stale')["guess"] = stale["guess"]
<1>1. user'.failures = user.failures
  <2>1. user \in Users
    BY DEF Base, TypeOK
  <2> QED BY <2>1 DEF Spend, Mint, TurnOn, TurnOff, LinkPhone, Users
<1>2. guesses' = guesses /\ (Honour(r) \/ stale' = stale)
    BY DEF Spend, Mint, TurnOn, TurnOff, LinkPhone, historyVars
<1>3. Honour(r) => (stale')["guess"] = stale["guess"]
    BY DEF Honour, Base, TypeOK
<1> QED BY <1>1, <1>2, <1>3

LEMMA GuessNext == Base /\ GuessInv /\ [Next]_vars => GuessInv'
<1> SUFFICES ASSUME Base, GuessInv, [Next]_vars PROVE GuessInv'
    OBVIOUS
<1>1. ASSUME UNCHANGED <<user, guesses, stale>> PROVE GuessInv'
    BY <1>1, GuessStays
<1>2. CASE QuietNext
  <2>1. user'.failures = user.failures
    BY <1>2, UserParts DEF QuietNext, Tick, Unlock, SignOut, SignOutEverywhere, StartPhone, Unlink, Base, TypeOK,
       Users, rowVars
  <2>2. guesses' = guesses /\ stale' = stale
    BY <1>2 DEF QuietNext, Tick, Unlock, SignOut, SignOutEverywhere, StartPhone, Unlink, historyVars
  <2> QED BY <2>1, <2>2, GuessStays
<1>3. ASSUME NEW r \in Requests, RequestNext(r) PROVE GuessInv'
  <2>1. CASE RecordFailure(r)
    <3>1. stale \in [{"code", "guess"} -> Nat] /\ user \in Users /\ request[r] \in Request
        BY DEF Base, TypeOK
    <3> DEFINE attempts == request[r].saw.failures + 1
               n == stale["guess"]
    <3>2. attempts \in Nat /\ attempts >= 1
        BY <3>1, RequestParts, UserParts
    <3>3. user'.failures = attempts /\ guesses' = (IF attempts >= MaxFailed THEN 0 ELSE guesses + 1)
        BY <2>1, <3>1 DEF RecordFailure, Users
    <3>4. (stale')["guess"] = IF user.failures + 1 = attempts THEN n ELSE n + 1
        BY <2>1, <3>1, <3>2, RequestParts, UserParts DEF RecordFailure
    <3>5. MaxFailed * (n + 1) = MaxFailed * n + MaxFailed /\ MaxFailed * n \in Nat /\ MaxFailed \in Nat \ {0}
          /\ guesses \in Nat /\ user.failures \in Nat
        BY GuessTypes, Constants
    <3> HIDE DEF attempts, n
    <3>6. guesses <= user.failures + MaxFailed * n /\ (user.failures >= MaxFailed => guesses = 0)
        BY DEF GuessInv, n
    <3>7. CASE user.failures + 1 = attempts
        BY <3>2, <3>3, <3>4, <3>5, <3>6, <3>7 DEF GuessInv
    <3>8. CASE user.failures + 1 # attempts
        BY <3>2, <3>3, <3>4, <3>5, <3>6, <3>8 DEF GuessInv
    <3> QED BY <3>7, <3>8
  <2>2. CASE ResetFailures(r)
    <3>1. guesses' = 0 /\ user'.failures = 0 /\ (stale')["guess"] = stale["guess"]
        BY <2>2 DEF ResetFailures, Base, TypeOK, Users
    <3> QED BY <3>1, GuessTypes, Constants DEF GuessInv
  <2>3. CASE Spend(r) \/ Mint(r) \/ TurnOn(r) \/ TurnOff(r) \/ LinkPhone(r)
    BY <2>3, OtherWrites, GuessStays
  <2>4. CASE Arrive(r) \/ Rotate(r) \/ Load(r) \/ Create(r) \/ MarkMfaSatisfied(r) \/ ReissueForSession(r)
             \/ RevokeAfterDisabling(r) \/ FindByCode(r) \/ CodeExpired(r) \/ PhoneTaken(r) \/ Depart(r)
    BY <2>4, <1>1 DEF Arrive, AskSignIn, AskRefresh, AskWithCode, AskSetup, AskRedeem, Ask, Rotate, ReadToken,
       RejectExpired, Issue, Claim, RevokeFamily, Load, Create, MarkMfaSatisfied, ReissueForSession,
       RevokeAfterDisabling, FindByCode, CodeExpired, PhoneTaken, Depart, Answer, AnswerLost, Crash,
       rowVars, historyVars
  <2> QED BY <1>3, <2>1, <2>2, <2>3, <2>4 DEF RequestNext, Sign, Factor, Phone
<1>4. CASE UNCHANGED vars
    BY <1>4, <1>1 DEF vars, rowVars, historyVars
<1> QED BY <1>2, <1>3, <1>4, NextSplit

LEMMA GuessInit == Init => GuessInv
<1> SUFFICES ASSUME Init PROVE GuessInv
    OBVIOUS
<1>1. user.failures = 0
  <2>1. NewUser.failures = 0
    BY DEF NewUser
  <2>2. Enrolled.failures = NewUser.failures
    BY IdleTyped DEF Enrolled, Users
  <2> QED BY <2>1, <2>2 DEF Init
<1>2. guesses = 0 /\ stale["guess"] = 0
    BY DEF Init
<1> QED BY <1>1, <1>2, Constants DEF GuessInv

\* However many guesses are handled side by side, they are bounded by the failures
\* that were counted over another's (AuthController.login, recordFailedLogin).
THEOREM GuessesAreBounded == Spec => []GuessesBounded
<1>1. ASSUME Base, GuessInv PROVE GuessesBounded
  <2> DEFINE n == stale["guess"]
  <2>1. MaxFailed * (n + 1) = MaxFailed * n + MaxFailed /\ MaxFailed * n \in Nat /\ MaxFailed \in Nat \ {0}
        /\ guesses \in Nat /\ user.failures \in Nat /\ n + 1 = 1 + n
    BY <1>1, GuessTypes, Constants
  <2>2. guesses <= user.failures + MaxFailed * n /\ (user.failures >= MaxFailed => guesses = 0)
    BY <1>1 DEF GuessInv
  <2> HIDE DEF n
  <2>3. guesses < MaxFailed * (1 + n)
    BY <2>1, <2>2
  <2> QED BY <2>3 DEF GuessesBounded, n
<1> QED BY <1>1, BaseAlways, GuessInit, GuessNext, PTL DEF Spec

-----------------------------------------------------------------------------
(***************************************************************************)
(* Tokens.  A replacement is on its way from the claim to the client; only *)
(* then does it count, with the tokens clients hold, as one of its login.  *)
(***************************************************************************)

\* Issued by one request, for the login it is about, and in no client's hands.
Issuing ==
    /\ \A r \in Requests : request[r].new # 0 =>
          /\ request[r].step \in {"claim", "answer", "revoke"}
          /\ request[r].new \notin delivered
          /\ request[r].step = "claim" => session[request[r].new].family = session[request[r].on].family
    /\ \A r, t \in Requests : request[r].new # 0 /\ request[r].new = request[t].new => r = t

OnItsWay(r) == request[r].step = "answer" /\ request[r].new # 0
Alive(s) == s \in delivered \/ \E r \in Requests : OnItsWay(r) /\ request[r].new = s

\* At most one of a login's is neither replaced nor revoked, and of a login that
\* was signed out as a whole all are revoked.
Tips ==
    /\ \A s, t \in 1..born : Alive(s) /\ Alive(t) /\ ~Retired(s) /\ ~Retired(t)
                             /\ session[s].family = session[t].family => s = t
    /\ \A s \in 1..born : Alive(s) /\ session[s].family \in ended => session[s].revoked
    /\ ended \subseteq 1..born

TokenInv == Issuing /\ Tips

\* A step that issues nothing and claims nothing, and only retires what it changes.
LEMMA TokensRest ==
    ASSUME Base, TokenInv, born' = born, session' \in [Ids -> Sessions],
           \A s \in 1..born : /\ (session')[s].family = session[s].family
                              /\ session[s].revoked => (session')[s].revoked
                              /\ Retired(s) => Retired(s)'
           , delivered' = delivered, request' \in [Requests -> Request],
           \A r \in Requests : \/ request'[r].new = 0
                               \/ /\ request'[r].new = request[r].new /\ request'[r].on = request[r].on
                                  /\ request'[r].step \in {request[r].step, "revoke"},
           ended' \subseteq 1..born,
           \A s \in 1..born : Alive(s) /\ session[s].family \in ended' \ ended => (session')[s].revoked
    PROVE  TokenInv'
<1>1. \A r \in Requests : request[r].on \in 1..born \/ request[r].step # "claim"
    BY StepTells, OnHeld DEF Base, Fits
<1>2. \A r \in Requests : request[r].new # 0 => request[r].new \in 1..born
    BY DEF Base, TypeOK, Fits, Ids
<1>3. Issuing'
    BY <1>1, <1>2 DEF TokenInv, Issuing
<1>4. \A s : Alive(s)' => Alive(s)
    BY DEF Alive, OnItsWay
<1>5. Tips'
    BY <1>4 DEF TokenInv, Tips
<1> QED BY <1>3, <1>5 DEF TokenInv

\* Requests that may move and hold no token they did not hold.
Holding ==
    \A r \in Requests : \/ request'[r].new = 0
                        \/ /\ request'[r].new = request[r].new /\ request'[r].on = request[r].on
                           /\ request'[r].step \in {request[r].step, "revoke"}

LEMMA RowsRest ==
    ASSUME Base, Base', TokenInv, Holding, UNCHANGED <<session, born, delivered, ended>>
    PROVE  TokenInv'
<1>1. session' \in [Ids -> Sessions] /\ request' \in [Requests -> Request]
    BY DEF Base, TypeOK
<1>2. ended' \subseteq 1..born
    BY DEF TokenInv, Tips
<1>3. \A s \in 1..born : Retired(s) => Retired(s)'
    BY DEF Retired
<1> QED BY <1>1, <1>2, <1>3, TokensRest DEF Holding

LEMMA Finishing == ASSUME Base, NEW r \in Requests, Finish(r) PROVE Holding
BY DEF Holding, Finish, Base, TypeOK, Idle, None

\* Before a token is issued a request has none.
LEMMA NoneYet ==
    ASSUME Base, TokenInv, NEW r \in Requests, ~(request[r].step \in {"claim", "answer", "revoke"})
    PROVE  request[r].new = 0
BY DEF TokenInv, Issuing

LEMMA MovesOn ==
    ASSUME Base, NEW r \in Requests, request[r].new = 0, NEW q \in Request, q.new = request[r].new,
           request' = [request EXCEPT ![r] = q]
    PROVE  Holding
BY DEF Holding, Base, TypeOK

LEMMA ArrivedHolding == ASSUME Base, NEW r \in Requests, Arrive(r) PROVE Holding
<1>1. ASSUME NEW op, NEW what, Ask(r, op, what), [what EXCEPT !.op = op].new = 0
      PROVE  Holding
    BY <1>1 DEF Holding, Ask, Base, TypeOK
<1>2. \A op, s, on, c, p : /\ [[Idle EXCEPT !.step = s] EXCEPT !.op = op].new = 0
                           /\ [[Idle EXCEPT !.step = s, !.on = on] EXCEPT !.op = op].new = 0
                           /\ [[Idle EXCEPT !.step = s, !.on = on, !.code = c] EXCEPT !.op = op].new = 0
                           /\ [[Idle EXCEPT !.step = s, !.phone = p, !.code = c] EXCEPT !.op = op].new = 0
    BY DEF Idle, None
<1>3. CASE AskSignIn(r)
    BY <1>1, <1>2, <1>3 DEF AskSignIn
<1>4. CASE AskRefresh(r)
    BY <1>1, <1>2, <1>4 DEF AskRefresh
<1>5. CASE AskWithCode(r)
  <2>1. PICK op \in {"verify", "enable", "disable"}, s \in delivered, c \in Typable :
            Ask(r, op, [Idle EXCEPT !.step = "load", !.on = s, !.code = c])
    BY <1>5 DEF AskWithCode
  <2>2. [[Idle EXCEPT !.step = "load", !.on = s, !.code = c] EXCEPT !.op = op].new = 0
    BY <1>2
  <2> QED BY <1>1, <2>1, <2>2
<1>6. CASE AskSetup(r)
    BY <1>1, <1>2, <1>6 DEF AskSetup
<1>7. CASE AskRedeem(r)
  <2>1. PICK p \in Phones, n \in 1..issued :
            Ask(r, "redeem", [Idle EXCEPT !.step = "find", !.phone = p,
                                          !.code = [kind |-> "phone", of |-> n, at |-> 0]])
    BY <1>7 DEF AskRedeem
  <2>2. [[Idle EXCEPT !.step = "find", !.phone = p, !.code = [kind |-> "phone", of |-> n, at |-> 0]]
            EXCEPT !.op = "redeem"].new = 0
    BY <1>2
  <2> QED BY <1>1, <2>1, <2>2
<1> QED BY <1>3, <1>4, <1>5, <1>6, <1>7 DEF Arrive

LEMMA NewBorn == ASSUME Base PROVE \A r \in Requests : request[r].new # 0 => request[r].new \in 1..born
BY DEF Base, TypeOK, Fits, Ids

LEMMA SteppedHolding ==
    ASSUME Base, TokenInv, NEW r \in Requests,
           ReadToken(r) \/ Load(r) \/ ResetFailures(r) \/ Spend(r) \/ TurnOn(r) \/ TurnOff(r) \/ FindByCode(r)
           \/ MarkMfaSatisfied(r)
    PROVE  Holding
<1>1. request[r] \in Request /\ request \in [Requests -> Request]
    BY DEF Base, TypeOK
<1>2. ~(request[r].step \in {"claim", "answer", "revoke"})
    BY DEF ReadToken, Load, ResetFailures, Spend, TurnOn, TurnOff, FindByCode, MarkMfaSatisfied, At
<1>3. request[r].new = 0
    BY <1>2, NoneYet
<1>4. request'[r].new = 0 /\ \A t \in Requests : t # r => request'[t] = request[t]
    BY <1>1, <1>3 DEF ReadToken, Load, ResetFailures, Spend, TurnOn, TurnOff, FindByCode, MarkMfaSatisfied, Goto,
       Finish, Request, Idle, None
<1> QED BY <1>4 DEF Holding

LEMMA ClaimTokens == ASSUME Base, Base', TokenInv, NEW r \in Requests, Claim(r) PROVE TokenInv'
<1>1. request[r] \in Request /\ Fit(request[r]) /\ request[r].step = "claim" /\ request \in [Requests -> Request]
    BY DEF Base, TypeOK, Fits, Claim, At
<1> DEFINE on == request[r].on
           new == request[r].new
<1>2. on \in delivered /\ on \in 1..born /\ on \in Ids
    BY <1>1, StepTells, OnHeld, HeldRow
<1>3. new # 0 /\ new \in 1..born /\ new \in Ids /\ new \notin delivered
      /\ session[new].family = session[on].family
  <2>1. new # 0
    BY <1>1, StepTells DEF Fit
  <2>2. new \in 1..born
    BY <2>1, NewBorn
  <2> QED BY <1>1, <2>1, <2>2, HeldRow DEF TokenInv, Issuing
<1>4. born' = born /\ delivered' = delivered /\ ended' = ended
    BY DEF Claim, clientVars, historyVars
<1>5. CASE Retired(on)
  <2>1. Holding
    BY <1>1, <1>5 DEF Claim, Goto, Holding, Request
  <2>2. session' = session
    BY <1>5 DEF Claim
  <2> QED BY <1>4, <2>1, <2>2, RowsRest
<1>6. CASE ~Retired(on)
  <2>1. session' = [session EXCEPT ![on].heir = new] /\ request' = [request EXCEPT ![r].step = "answer"]
    BY <1>6 DEF Claim, Goto
  <2>2. \A t \in Requests : /\ request'[t].new = request[t].new /\ request'[t].on = request[t].on
                            /\ request'[t].step = IF t = r THEN "answer" ELSE request[t].step
    BY <1>1, <2>1 DEF Request
  <2>3. \A s \in Ids : /\ (session')[s].family = session[s].family
                       /\ (session')[s].revoked = session[s].revoked
                       /\ (session')[s].heir = IF s = on THEN new ELSE session[s].heir
    <3>1. session \in [Ids -> Sessions]
        BY DEF Base, TypeOK
    <3> QED BY <2>1, <3>1 DEF Sessions
  <2>4. 1..born \subseteq Ids
    BY HeldRow
  <2>5. \A s \in 1..born : Retired(s)' = (Retired(s) \/ s = on)
    BY <1>3, <2>3, <2>4 DEF Retired, None
  <2>6. \A t \in Requests : request[t].new # 0 => request[t].new \in 1..born
    BY NewBorn
  <2>7. \A t \in Requests : request[t].step = "claim" => request[t].on \in 1..born
    BY StepTells, OnHeld DEF Base, Fits
  <2>8. Issuing'
    BY <1>1, <1>4, <2>2, <2>3, <2>4, <2>6, <2>7 DEF TokenInv, Issuing
  <2>9. \A s \in 1..born : Alive(s)' = (Alive(s) \/ s = new)
    BY <1>1, <1>3, <1>4, <2>2 DEF Alive, OnItsWay
  <2>10. session[on].family \notin ended
    BY <1>2, <1>6 DEF TokenInv, Tips, Alive, Retired
  <2>11. \A s, t \in 1..born : Alive(s)' /\ Alive(t)' /\ ~Retired(s)' /\ ~Retired(t)'
                               /\ session[s].family = session[t].family => s = t
    <3> SUFFICES ASSUME NEW s \in 1..born, NEW t \in 1..born, Alive(s)', Alive(t)', ~Retired(s)', ~Retired(t)',
                        session[s].family = session[t].family
                 PROVE  s = t
        OBVIOUS
    <3>1. s # on /\ t # on /\ ~Retired(s) /\ ~Retired(t)
        BY <2>5
    <3>2. Alive(on) /\ ~Retired(on)
        BY <1>2, <1>6 DEF Alive
    <3>3. \A u \in 1..born : Alive(u) /\ ~Retired(u) /\ session[u].family = session[on].family => u = on
        BY <1>2, <3>2 DEF TokenInv, Tips
    <3>4. CASE s = new \/ t = new
        BY <1>3, <2>9, <3>1, <3>3, <3>4
    <3>5. CASE s # new /\ t # new
        BY <2>9, <3>1, <3>5 DEF TokenInv, Tips
    <3> QED BY <3>4, <3>5
  <2>12. \A s \in 1..born : Alive(s)' /\ session[s].family \in ended => session[s].revoked
    BY <1>3, <2>9, <2>10 DEF TokenInv, Tips
  <2>13. Tips'
    BY <1>4, <2>3, <2>4, <2>11, <2>12 DEF TokenInv, Tips
  <2> QED BY <2>8, <2>13 DEF TokenInv
<1> QED BY <1>5, <1>6

\* A row is made: the newest, and no login's tip but its own's, or on nobody's way.
LEMMA RowTokens ==
    ASSUME Base, Base', TokenInv, NEW r \in Requests, Issue(r) \/ Create(r)
    PROVE  TokenInv'
<1>1. request[r] \in Request /\ request \in [Requests -> Request] /\ request[r].step \in {"issue", "create"}
      /\ session \in [Ids -> Sessions]
    BY DEF Base, TypeOK, Issue, Create, At
<1> DEFINE new == born + 1
           on == request[r].on
<1>2. /\ born' = new /\ delivered' = delivered /\ ended' = ended /\ born < MaxSessions
      /\ born \in Nat /\ new \in Ids /\ new \notin 1..born /\ 1..born' = 1..born \cup {new}
  <2>1. born' = new /\ delivered' = delivered /\ ended' = ended /\ born < MaxSessions
    BY DEF Issue, Create, clientVars, historyVars
  <2>2. born \in 1..MaxSessions
    BY DEF Base, TypeOK, Ids
  <2> QED BY <2>1, <2>2, Constants DEF Ids
<1>3. \A s \in Ids : s # new => (session')[s] = session[s]
    BY <1>1 DEF Issue, Create
<1>4. 1..born \subseteq Ids /\ \A s \in 1..born : s # new
    BY <1>2, HeldRow
<1>5. \A s \in 1..born : (session')[s] = session[s] /\ Retired(s)' = Retired(s)
    BY <1>3, <1>4 DEF Retired
<1>6. \A t \in Requests : t # r => request'[t] = request[t]
    BY <1>1 DEF Issue, Create
<1>7. request'[r].new = new /\ request'[r].on = on /\ request'[r].step = (IF Issue(r) THEN "claim" ELSE "answer")
      /\ new # 0
  <2>1. CASE Issue(r)
    BY <1>1, <1>2, <2>1 DEF Issue, Request
  <2>2. CASE Create(r)
    <3>1. ~Issue(r)
        BY <2>2 DEF Issue, Create, At
    <3> QED BY <1>1, <1>2, <2>2, <3>1 DEF Create, Request
  <2> QED BY <2>1, <2>2
<1>8. \A t \in Requests : request[t].new # 0 => request[t].new \in 1..born
    BY NewBorn
<1>9. \A t \in Requests : request[t].step \in {"issue", "claim"} => request[t].on \in 1..born
    BY StepTells, OnHeld DEF Base, Fits
<1>10. CASE Issue(r)
  <2>1. on \in 1..born /\ (session')[new].family = session[on].family
    BY <1>1, <1>2, <1>9, <1>10 DEF Issue, At
  <2>2. delivered \subseteq 1..born
    BY DEF Base, TypeOK
  <2> HIDE DEF new
  <2>3. Issuing'
    <3>1. \A t \in Requests : request'[t].new # 0 =>
             /\ request'[t].step \in {"claim", "answer", "revoke"} /\ request'[t].new \notin delivered
             /\ request'[t].step = "claim" => (session')[request'[t].new].family = (session')[request'[t].on].family
        <4> TAKE t \in Requests
        <4>1. CASE t = r
            BY <1>2, <1>4, <1>5, <1>7, <1>10, <2>1, <2>2, <4>1
        <4>2. CASE t # r
            BY <1>2, <1>4, <1>5, <1>6, <1>8, <1>9, <4>2 DEF TokenInv, Issuing
        <4> QED BY <4>1, <4>2
    <3>2. \A t, u \in Requests : request'[t].new # 0 /\ request'[t].new = request'[u].new => t = u
        BY <1>4, <1>2, <1>6, <1>7, <1>8 DEF TokenInv, Issuing
    <3> QED BY <1>2, <3>1, <3>2 DEF Issuing
  <2>4. \A s \in 1..born : Alive(s)' => Alive(s)
    BY <1>2, <1>4, <1>6, <1>7, <1>10 DEF Alive, OnItsWay
  <2>5. \A s : s = new => ~Alive(s)'
    BY <1>2, <1>6, <1>7, <1>8, <1>10, <2>2 DEF Alive, OnItsWay
  <2>6. \A s \in 1..born' : Alive(s)' => s \in 1..born /\ Alive(s)
    BY <1>2, <2>4, <2>5
  <2>7. Tips'
    BY <1>2, <1>5, <2>6 DEF TokenInv, Tips
  <2> QED BY <2>3, <2>7 DEF TokenInv
<1>11. CASE Create(r)
  <2>1. (session')[new].family = new /\ request'[r].step = "answer"
    <3>1. ~Issue(r)
        BY <1>11 DEF Issue, Create, At
    <3> QED BY <1>1, <1>2, <1>7, <1>11, <3>1 DEF Create, NoSession
  <2>2. delivered \subseteq 1..born
    BY DEF Base, TypeOK
  <2>3. \A s \in 1..born : session[s].family \in 1..born
    BY HeldRow
  <2> HIDE DEF new
  <2>4. Issuing'
    <3>1. \A t \in Requests : request'[t].new # 0 =>
             /\ request'[t].step \in {"claim", "answer", "revoke"} /\ request'[t].new \notin delivered
             /\ request'[t].step = "claim" => (session')[request'[t].new].family = (session')[request'[t].on].family
        <4> TAKE t \in Requests
        <4>1. CASE t = r
            BY <1>2, <1>7, <2>1, <2>2, <4>1
        <4>2. CASE t # r
            BY <1>2, <1>4, <1>5, <1>6, <1>8, <1>9, <4>2 DEF TokenInv, Issuing
        <4> QED BY <4>1, <4>2
    <3>2. \A t, u \in Requests : request'[t].new # 0 /\ request'[t].new = request'[u].new => t = u
        BY <1>4, <1>2, <1>6, <1>7, <1>8 DEF TokenInv, Issuing
    <3> QED BY <1>2, <3>1, <3>2 DEF Issuing
  <2>5. \A s \in 1..born : Alive(s)' => Alive(s)
    BY <1>2, <1>4, <1>6, <1>7 DEF Alive, OnItsWay
  <2>6. ended \subseteq 1..born
    BY DEF TokenInv, Tips
  <2>7. \A s, t \in 1..born' : Alive(s)' /\ Alive(t)' /\ ~Retired(s)' /\ ~Retired(t)'
                               /\ (session')[s].family = (session')[t].family => s = t
    BY <1>2, <1>5, <2>1, <2>3, <2>5 DEF TokenInv, Tips
  <2>8. \A s \in 1..born' : Alive(s)' /\ (session')[s].family \in ended => (session')[s].revoked
    BY <1>2, <1>5, <2>1, <2>5, <2>6 DEF TokenInv, Tips
  <2>9. Tips'
    BY <1>2, <2>6, <2>7, <2>8 DEF Tips
  <2> QED BY <2>4, <2>9 DEF TokenInv
<1> QED BY <1>10, <1>11

\* What was on its way has come.
LEMMA AnswerTokens == ASSUME Base, Base', TokenInv, NEW r \in Requests, Answer(r) PROVE TokenInv'
<1>1. request[r] \in Request /\ request \in [Requests -> Request] /\ request[r].step = "answer"
      /\ request[r].new # 0
    BY DEF Base, TypeOK, Answer, At, None
<1> DEFINE new == request[r].new
<1>2. delivered' = delivered \cup {new} /\ session' = session /\ born' = born /\ ended' = ended
    BY DEF Answer, rowVars, historyVars
<1>3. request'[r].new = 0 /\ \A t \in Requests : t # r => request'[t] = request[t]
    BY <1>1 DEF Answer, Finish, Idle, None
<1>4. Issuing'
    BY <1>1, <1>2, <1>3 DEF TokenInv, Issuing
<1>5. \A s : Alive(s)' => Alive(s)
    BY <1>1, <1>2, <1>3 DEF Alive, OnItsWay
<1>6. Tips'
    BY <1>2, <1>5 DEF TokenInv, Tips, Retired
<1> QED BY <1>4, <1>6 DEF TokenInv

LEMMA RevokeTokens == ASSUME Base, Base', TokenInv, NEW r \in Requests, RevokeFamily(r) PROVE TokenInv'
<1>1. request[r] \in Request /\ request[r].step = "revoke" /\ session \in [Ids -> Sessions] /\ Fit(request[r])
    BY DEF Base, TypeOK, Fits, RevokeFamily, At
<1> DEFINE family == session[request[r].on].family
<1>2. family \in 1..born
    BY <1>1, StepTells, OnHeld, HeldRow
<1>3. /\ \A s \in Ids : (session')[s] = IF session[s].family = family THEN [session[s] EXCEPT !.revoked = TRUE]
                                        ELSE session[s]
      /\ ended' = ended \cup {family} /\ Finish(r) /\ born' = born /\ delivered' = delivered
    BY DEF RevokeFamily, clientVars
<1> HIDE DEF family
<1>4. \A s \in Ids : /\ (session')[s].family = session[s].family
                     /\ session[s].revoked \/ session[s].family = family => (session')[s].revoked
                     /\ Retired(s) => Retired(s)'
    BY <1>1, <1>3 DEF Retired, Sessions
<1>5. 1..born \subseteq Ids
    BY HeldRow
<1>6. session' \in [Ids -> Sessions] /\ request' \in [Requests -> Request]
    BY DEF Base, TypeOK
<1>7. ended' \subseteq 1..born
    BY <1>2, <1>3 DEF TokenInv, Tips
<1>8. \A s \in 1..born : session[s].family \in ended' \ ended => (session')[s].revoked
    BY <1>3, <1>4, <1>5
<1>9. Holding
    BY <1>3, Finishing
<1> QED BY <1>3, <1>4, <1>5, <1>6, <1>7, <1>8, <1>9, TokensRest DEF Holding

LEMMA RevokeAllTokens ==
    ASSUME Base, Base', TokenInv, RevokeAll, Holding, born' = born, delivered' = delivered
    PROVE  TokenInv'
<1>1. session \in [Ids -> Sessions] /\ session' \in [Ids -> Sessions] /\ request' \in [Requests -> Request]
    BY DEF Base, TypeOK
<1>2. 1..born \subseteq Ids
    BY HeldRow
<1>3. \A s \in 1..born : /\ (session')[s].family = session[s].family /\ (session')[s].revoked /\ Retired(s)'
    BY <1>1, <1>2 DEF RevokeAll, Retired, Sessions
<1>4. \A s \in 1..born : session[s].family \in 1..born
    BY HeldRow
<1>5. ended' \subseteq 1..born
    BY <1>4 DEF RevokeAll, TokenInv, Tips
<1> QED BY <1>1, <1>3, <1>5, TokensRest DEF Holding

LEMMA MarkTokens == ASSUME Base, Base', TokenInv, NEW r \in Requests, MarkMfaSatisfied(r) PROVE TokenInv'
<1>1. session \in [Ids -> Sessions] /\ session' \in [Ids -> Sessions] /\ request' \in [Requests -> Request]
    BY DEF Base, TypeOK
<1>2. born' = born /\ delivered' = delivered /\ ended' = ended /\ Holding
    BY SteppedHolding DEF MarkMfaSatisfied, clientVars, historyVars
<1>3. \A s \in Ids : /\ (session')[s].family = session[s].family /\ (session')[s].revoked = session[s].revoked
                     /\ (session')[s].heir = session[s].heir
    BY <1>1 DEF MarkMfaSatisfied, Sessions
<1>4. 1..born \subseteq Ids
    BY HeldRow
<1>5. \A s \in 1..born : Retired(s) => Retired(s)'
    BY <1>3, <1>4 DEF Retired
<1>6. ended' \subseteq 1..born
    BY <1>2 DEF TokenInv, Tips
<1> QED BY <1>1, <1>2, <1>3, <1>4, <1>5, <1>6, TokensRest DEF Holding

LEMMA SignOutTokens == ASSUME Base, Base', TokenInv, SignOut PROVE TokenInv'
<1>1. session \in [Ids -> Sessions] /\ session' \in [Ids -> Sessions] /\ request' \in [Requests -> Request]
    BY DEF Base, TypeOK
<1>2. born' = born /\ delivered' = delivered /\ ended' = ended /\ request' = request
    BY DEF SignOut, clientVars, historyVars
<1>3. PICK o \in delivered : session' = [session EXCEPT ![o].revoked = TRUE]
    BY DEF SignOut
<1>4. \A s \in Ids : /\ (session')[s].family = session[s].family
                     /\ session[s].revoked => (session')[s].revoked
                     /\ Retired(s) => Retired(s)'
    BY <1>1, <1>3 DEF Retired, Sessions
<1>5. 1..born \subseteq Ids
    BY HeldRow
<1>6. ended' \subseteq 1..born
    BY <1>2 DEF TokenInv, Tips
<1> QED BY <1>1, <1>2, <1>4, <1>5, <1>6, TokensRest

LEMMA TokenNext == Base /\ Base' /\ TokenInv /\ [Next]_vars => TokenInv'
<1> SUFFICES ASSUME Base, Base', TokenInv, [Next]_vars PROVE TokenInv'
    OBVIOUS
<1>1. request' = request => Holding
    BY DEF Holding
<1>2. CASE QuietNext
  <2>1. CASE Tick \/ Unlock \/ StartPhone \/ Unlink
    BY <2>1, <1>1, RowsRest DEF Tick, Unlock, StartPhone, Unlink, rowVars, clientVars, historyVars
  <2>2. CASE SignOutEverywhere
    BY <2>2, <1>1, RevokeAllTokens DEF SignOutEverywhere, clientVars
  <2> QED BY <1>2, <2>1, <2>2, SignOutTokens DEF QuietNext
<1>3. ASSUME NEW r \in Requests, RequestNext(r) PROVE TokenInv'
  <2>1. CASE Arrive(r)
    <3>1. UNCHANGED <<session, born, delivered, ended>>
        BY <2>1 DEF Arrive, AskSignIn, AskRefresh, AskWithCode, AskSetup, AskRedeem, Ask, rowVars, clientVars,
           historyVars
    <3> QED BY <2>1, <3>1, ArrivedHolding, RowsRest
  <2>2. CASE ReadToken(r) \/ Load(r) \/ ResetFailures(r) \/ Spend(r) \/ TurnOn(r) \/ TurnOff(r) \/ FindByCode(r)
    <3>1. UNCHANGED <<session, born, delivered, ended>>
        BY <2>2 DEF ReadToken, Load, ResetFailures, Spend, TurnOn, TurnOff, FindByCode, rowVars, clientVars,
           historyVars
    <3> QED BY <2>2, <3>1, SteppedHolding, RowsRest
  <2>3. CASE RejectExpired(r) \/ AnswerLost(r) \/ Crash(r) \/ CodeExpired(r) \/ PhoneTaken(r) \/ RecordFailure(r)
             \/ ReissueForSession(r) \/ Mint(r) \/ LinkPhone(r)
    <3>1. UNCHANGED <<session, born, delivered, ended>> /\ Finish(r)
        BY <2>3 DEF RejectExpired, AnswerLost, Crash, CodeExpired, PhoneTaken, RecordFailure, ReissueForSession,
           Mint, LinkPhone, rowVars, clientVars, historyVars
    <3> QED BY <3>1, Finishing, RowsRest
  <2>4. CASE RevokeAfterDisabling(r)
    BY <2>4, Finishing, RevokeAllTokens DEF RevokeAfterDisabling, clientVars
  <2> QED BY <1>3, <2>1, <2>2, <2>3, <2>4, ClaimTokens, RowTokens, AnswerTokens, RevokeTokens, MarkTokens
          DEF RequestNext, Rotate, Sign, Factor, Phone, Depart
<1>4. CASE UNCHANGED vars
    BY <1>4, <1>1, RowsRest DEF vars, rowVars, clientVars, historyVars
<1> QED BY <1>2, <1>3, <1>4, NextSplit

LEMMA TokenInit == Init => TokenInv
<1> SUFFICES ASSUME Init PROVE TokenInv
    OBVIOUS
<1>1. born = 1 /\ delivered = {1} /\ ended = {} /\ \A r \in Requests : request[r].new = 0
    BY IdleFits DEF Init
<1> QED BY <1>1 DEF TokenInv, Issuing, Tips, Alive, OnItsWay

LEMMA TokenAlways == Spec => [](Base /\ TokenInv)
BY BaseInit, BaseNext, TokenInit, TokenNext, PTL DEF Spec

\* However many requests present a login's tokens at once, one of those that clients
\* hold can be exchanged (SessionService.rotate).
THEOREM LoginHasOneHeir == Spec => []OneHeir
<1>1. ASSUME Base, TokenInv PROVE OneHeir
  <2>1. \A s : s \in delivered => s \in 1..born /\ Alive(s)
    BY <1>1 DEF Base, TypeOK, Alive
  <2> QED BY <1>1, <2>1 DEF OneHeir, Usable, TokenInv, Tips
<1> QED BY <1>1, TokenAlways, PTL

\* Nor can any of a login that was signed out as a whole, not even one that was being
\* issued meanwhile.
THEOREM EndedLoginStaysEnded == Spec => []EndedStaysEnded
<1>1. ASSUME Base, TokenInv PROVE EndedStaysEnded
  <2>1. \A s : s \in delivered => s \in 1..born /\ Alive(s)
    BY <1>1 DEF Base, TypeOK, Alive
  <2> QED BY <1>1, <2>1 DEF EndedStaysEnded, TokenInv, Tips
<1> QED BY <1>1, TokenAlways, PTL

-----------------------------------------------------------------------------
(***************************************************************************)
(* Codes.  What the row would accept now was honoured less often than it   *)
(* may be, and what was never handed out was never honoured.               *)
(***************************************************************************)

\* The row takes it for one that was not spent yet, whatever the clock says.
Fresh(u, c) ==
    CASE c.kind = "totp"     -> c.of = u.secret /\ c.at > u.lastStep
      [] c.kind = "recovery" -> c \in u.codes
      [] c.kind = "phone"    -> c.of = u.phoneCode

HandedOut(c) ==
    CASE c.kind = "totp"     -> c.of <= minted
      [] c.kind = "recovery" -> c.of <= handed
      [] c.kind = "phone"    -> c.of <= issued

Spent ==
    \A c \in OneTime :
        /\ uses[c] <= 1 + stale["code"]
        /\ Fresh(user, c) => uses[c] <= stale["code"]
        /\ ~HandedOut(c) => uses[c] = 0

\* The row holds what was handed out, and a request was given no other code.
GivenOut ==
    /\ user.secret <= minted /\ user.phoneCode <= issued
    /\ \A c \in user.codes : HandedOut(c)
    /\ \A r \in Requests : request[r].code \in OneTime => HandedOut(request[r].code)
    /\ \A r \in Requests : \A c \in request[r].saw.codes : HandedOut(c)

\* A code that is about to be honoured was fresh in the row that was read.
Seen(q) == q.step \in {"spend", "turnOn", "turnOff", "link"} => Fresh(q.saw, q.code)

SpendInv == Spent /\ GivenOut /\ \A r \in Requests : Seen(request[r])

LEMMA CodeKinds == ASSUME NEW c \in OneTime PROVE c.kind \in {"totp", "recovery", "phone"} /\ c.of \in Nat \ {0}
BY Constants DEF OneTime, Recovery

LEMMA RecoveryKind == ASSUME NEW c \in Recovery PROVE c \in OneTime /\ c.kind = "recovery"
BY DEF OneTime, Recovery

LEMMA CountTypes ==
    ASSUME Base
    PROVE  /\ minted \in Nat /\ handed \in Nat /\ issued \in Nat /\ stale["code"] \in Nat
           /\ uses \in [OneTime -> Nat] /\ stale \in [{"code", "guess"} -> Nat]
BY DEF Base, TypeOK

\* What is known of codes holds for the requests as they are after the step.
Shown ==
    \A r \in Requests :
        /\ Seen(request'[r])
        /\ request'[r].code \in OneTime => HandedOut(request'[r].code)
        /\ \A c \in request'[r].saw.codes : HandedOut(c)

LEMMA HandedGrows ==
    ASSUME Base, NEW c \in OneTime, HandedOut(c), minted' \in {minted, minted + 1},
           handed' \in {handed, handed + 1}, issued' \in {issued, issued + 1}
    PROVE  HandedOut(c)'
<1>1. minted <= minted' /\ handed <= handed' /\ issued <= issued'
      /\ minted' \in Nat /\ handed' \in Nat /\ issued' \in Nat /\ minted \in Nat /\ handed \in Nat /\ issued \in Nat
    BY CountTypes
<1>2. c.of \in Nat
    BY CodeKinds
<1>3. CASE c.kind = "totp"
    BY <1>1, <1>2, <1>3 DEF HandedOut
<1>4. CASE c.kind = "recovery"
    BY <1>1, <1>2, <1>4 DEF HandedOut
<1>5. CASE c.kind = "phone"
    BY <1>1, <1>2, <1>5 DEF HandedOut
<1> QED BY <1>3, <1>4, <1>5, CodeKinds

LEMMA SpendRest ==
    ASSUME Base, Base', SpendInv, Shown, UNCHANGED <<countVars, uses>>, (stale')["code"] = stale["code"],
           user'.secret = user.secret, user'.lastStep = user.lastStep, user'.codes = user.codes,
           user'.phoneCode \in {user.phoneCode, 0}
    PROVE  SpendInv'
<1>1. \A c \in OneTime : Fresh(user', c) => Fresh(user, c)
    BY CodeKinds DEF Fresh
<1>2. \A c : HandedOut(c)' = HandedOut(c)
    BY DEF HandedOut, countVars
<1>3. Spent'
    BY <1>1, <1>2 DEF SpendInv, Spent
<1>4. GivenOut'
    BY <1>2, CountTypes DEF SpendInv, GivenOut, Shown, countVars
<1>5. \A r \in Requests : Seen(request[r])'
    BY DEF Shown, Seen
<1> QED BY <1>3, <1>4, <1>5 DEF SpendInv

\* A code is honoured that was fresh in what was read; and if the row has not moved
\* since, what the step writes leaves it fresh no more and makes no other fresh.
LEMMA HonourSpends ==
    ASSUME Base, Base', SpendInv, NEW r \in Requests, request[r].code \in OneTime, Honour(r),
           HandedOut(request[r].code), Fresh(request[r].saw, request[r].code),
           minted' \in {minted, minted + 1}, handed' \in {handed, handed + 1}, issued' \in {issued, issued + 1},
           ~Fresh(user', request[r].code),
           \A c \in OneTime : Fresh(user', c) /\ ~Moved(request[r].saw, request[r].code) =>
                                  Fresh(user, c) \/ ~HandedOut(c)
    PROVE  Spent'
<1> DEFINE code == request[r].code
           n == IF Moved(request[r].saw, code) THEN 1 ELSE 0
<1>1. uses \in [OneTime -> Nat] /\ stale \in [{"code", "guess"} -> Nat] /\ stale["code"] \in Nat
    BY CountTypes
<1>2. \A c \in OneTime : (uses')[c] = IF c = code THEN uses[c] + 1 ELSE uses[c]
    BY <1>1 DEF Honour
<1>3. (stale')["code"] = stale["code"] + n
    BY <1>1 DEF Honour
<1>4. n = 0 => Fresh(user, code)
  <2> SUFFICES ASSUME ~Moved(request[r].saw, code) PROVE Fresh(user, code)
    OBVIOUS
  <2> HIDE DEF code
  <2>1. Fresh(request[r].saw, code) /\ code.kind \in {"totp", "recovery", "phone"}
    BY CodeKinds DEF code
  <2>2. CASE code.kind = "totp"
    BY <2>1, <2>2 DEF Moved, Fresh
  <2>3. CASE code.kind = "recovery"
    BY <2>1, <2>3 DEF Moved, Fresh
  <2>4. CASE code.kind = "phone"
    BY <2>1, <2>4 DEF Moved, Fresh
  <2> QED BY <2>1, <2>2, <2>3, <2>4
<1>5. n \in {0, 1} /\ (n = 0 <=> ~Moved(request[r].saw, code))
    OBVIOUS
<1> HIDE DEF n, code
<1>6. ASSUME NEW c \in OneTime
      PROVE  /\ (uses')[c] <= 1 + (stale')["code"]
             /\ Fresh(user', c) => (uses')[c] <= (stale')["code"]
             /\ ~HandedOut(c)' => (uses')[c] = 0
  <2>1. uses[c] \in Nat /\ uses[c] <= 1 + stale["code"] /\ (Fresh(user, c) => uses[c] <= stale["code"])
        /\ (~HandedOut(c) => uses[c] = 0)
    BY <1>1 DEF SpendInv, Spent
  <2>2. (uses')[c] <= 1 + (stale')["code"]
    BY <1>1, <1>2, <1>3, <1>4, <1>5, <2>1
  <2>3. Fresh(user', c) => (uses')[c] <= (stale')["code"]
    <3>1. Fresh(user', c) => c # code /\ (n = 0 => Fresh(user, c) \/ ~HandedOut(c))
        BY <1>5 DEF code
    <3>2. HandedOut(code) /\ code \in OneTime /\ uses[code] \in Nat /\ uses[code] <= 1 + stale["code"]
        BY <1>1 DEF code, SpendInv, Spent
    <3>3. CASE n = 0
        BY <1>1, <1>2, <1>3, <2>1, <3>1, <3>3
    <3>4. CASE n = 1
        BY <1>1, <1>2, <1>3, <2>1, <3>1, <3>4
    <3> QED BY <1>5, <3>3, <3>4
  <2>4. ~HandedOut(c)' => (uses')[c] = 0
    <3>1. HandedOut(c) => HandedOut(c)'
        BY HandedGrows
    <3>2. HandedOut(code)
        BY DEF code
    <3> QED BY <1>2, <2>1, <3>1, <3>2
  <2> QED BY <2>2, <2>3, <2>4
<1> QED BY <1>6 DEF Spent

LEMMA ShownMoves ==
    ASSUME Base, SpendInv, NEW r \in Requests, NEW q, request' = [request EXCEPT ![r] = q], Seen(q),
           q.code \in OneTime => HandedOut(q.code), \A c \in q.saw.codes : HandedOut(c)
    PROVE  Shown
<1> SUFFICES ASSUME NEW t \in Requests
             PROVE  /\ Seen(request'[t])
                    /\ request'[t].code \in OneTime => HandedOut(request'[t].code)
                    /\ \A c \in request'[t].saw.codes : HandedOut(c)
    BY DEF Shown
<1>1. CASE t = r
  <2>1. request'[t] = q
    BY <1>1 DEF Base, TypeOK
  <2> QED BY <2>1
<1>2. CASE t # r
  <2>1. request'[t] = request[t]
    BY <1>2 DEF Base, TypeOK
  <2> QED BY <2>1 DEF SpendInv, GivenOut
<1> QED BY <1>1, <1>2

LEMMA ShownStays == ASSUME SpendInv, request' = request PROVE Shown
BY DEF Shown, SpendInv, GivenOut

LEMMA ShownIdle == Seen(Idle) /\ Idle.code \notin OneTime /\ Idle.saw.codes = {}
<1>1. Idle.code = NoCode /\ NoCode.kind = "none" /\ Idle.step = "idle" /\ Idle.saw = NewUser /\ NewUser.codes = {}
    BY DEF Idle, NoCode, NewUser
<1> QED BY <1>1, CodeKinds DEF Seen

LEMMA ShownFinish == ASSUME Base, SpendInv, NEW r \in Requests, Finish(r) PROVE Shown
<1>1. \A c \in Idle.saw.codes : HandedOut(c)
    BY ShownIdle
<1> QED BY <1>1, ShownIdle, ShownMoves DEF Finish

\* It goes on with what it has to a step that honours nothing.
LEMMA ShownGoes ==
    ASSUME Base, SpendInv, NEW r \in Requests, NEW q \in Request, q.code = request[r].code,
           q.saw = request[r].saw, request' = [request EXCEPT ![r] = q],
           ~(q.step \in {"spend", "turnOn", "turnOff", "link"})
    PROVE  Shown
<1>1. Seen(q)
    BY DEF Seen
<1>2. q.code \in OneTime => HandedOut(q.code)
    BY DEF SpendInv, GivenOut
<1>3. \A c \in q.saw.codes : HandedOut(c)
    BY DEF SpendInv, GivenOut
<1> QED BY <1>1, <1>2, <1>3, ShownMoves

LEMMA ShownGoto ==
    ASSUME Base, SpendInv, NEW r \in Requests, NEW step \in Steps, Goto(r, step),
           ~(step \in {"spend", "turnOn", "turnOff", "link"})
    PROVE  Shown
<1> DEFINE q == [request[r] EXCEPT !.step = step]
<1>1. request[r] \in Request
    BY DEF Base, TypeOK
<1>2. q \in Request /\ q.step = step /\ q.code = request[r].code /\ q.saw = request[r].saw
    BY <1>1, RequestGoes
<1>3. request' = [request EXCEPT ![r] = q]
    BY DEF Goto, Base, TypeOK
<1> HIDE DEF q
<1> QED BY <1>2, <1>3, ShownGoes

LEMMA ShownRotates == ASSUME Base, SpendInv, NEW r \in Requests, ReadToken(r) \/ Issue(r) \/ Create(r) PROVE Shown
<1>1. request[r] \in Request /\ request \in [Requests -> Request] /\ request[r].step \in {"read", "issue", "create"}
    BY DEF Base, TypeOK, ReadToken, Issue, Create, At
<1>2. request'[r].step \in {"revoke", "issue", "claim", "answer"} /\ request'[r].code = request[r].code
      /\ request'[r].saw = request[r].saw /\ \A t \in Requests : t # r => request'[t] = request[t]
    BY <1>1 DEF ReadToken, Issue, Create, Request
<1>3. \A t \in Requests : Seen(request'[t])
    BY <1>2 DEF SpendInv, Seen
<1>4. \A t \in Requests : request'[t].code = request[t].code /\ request'[t].saw = request[t].saw
    BY <1>2
<1> QED BY <1>3, <1>4 DEF Shown, SpendInv, GivenOut

LEMMA ShownArrives == ASSUME Base, SpendInv, NEW r \in Requests, Arrive(r) PROVE Shown
<1>1. ASSUME NEW op, NEW what, Ask(r, op, what),
             NEW q, q = [what EXCEPT !.op = op], ~(q.step \in {"spend", "turnOn", "turnOff", "link"}),
             q.code \in OneTime => HandedOut(q.code), q.saw.codes = {}
      PROVE  Shown
  <2>1. Seen(q) /\ request' = [request EXCEPT ![r] = q] /\ \A c \in q.saw.codes : HandedOut(c)
    BY <1>1 DEF Seen, Ask
  <2> QED BY <1>1, <2>1, ShownMoves
<1>2. NoCode \notin OneTime /\ NewUser.codes = {}
    BY ShownIdle DEF Idle, NewUser
<1>3. CASE AskSignIn(r)
  <2>1. PICK op \in {"signIn", "guess"} : Ask(r, op, [Idle EXCEPT !.step = "load"])
    BY <1>3 DEF AskSignIn
  <2>2. PICK q : q = [[Idle EXCEPT !.step = "load"] EXCEPT !.op = op]
    OBVIOUS
  <2>3. q.step = "load" /\ q.code = NoCode /\ q.saw = NewUser
    BY <2>2 DEF Idle
  <2> QED BY <1>1, <1>2, <2>1, <2>2, <2>3
<1>4. CASE AskRefresh(r)
  <2>1. PICK s \in delivered : Ask(r, "refresh", [Idle EXCEPT !.step = "read", !.on = s])
    BY <1>4 DEF AskRefresh
  <2>2. PICK q : q = [[Idle EXCEPT !.step = "read", !.on = s] EXCEPT !.op = "refresh"]
    OBVIOUS
  <2>3. q.step = "read" /\ q.code = NoCode /\ q.saw = NewUser
    BY <2>2 DEF Idle
  <2> QED BY <1>1, <1>2, <2>1, <2>2, <2>3
<1>5. CASE AskWithCode(r)
  <2>1. PICK op \in {"verify", "enable", "disable"}, s \in delivered, c \in Typable :
            Ask(r, op, [Idle EXCEPT !.step = "load", !.on = s, !.code = c])
    BY <1>5 DEF AskWithCode
  <2>2. PICK q : q = [[Idle EXCEPT !.step = "load", !.on = s, !.code = c] EXCEPT !.op = op]
    OBVIOUS
  <2>3. q.step = "load" /\ q.code = c /\ q.saw = NewUser
    BY <2>2 DEF Idle
  <2>4. HandedOut(c)
    BY DEF Typable, HandedOut
  <2> QED BY <1>1, <1>2, <2>1, <2>2, <2>3, <2>4
<1>6. CASE AskSetup(r)
  <2>1. Ask(r, "setup", [Idle EXCEPT !.step = "load"])
    BY <1>6 DEF AskSetup
  <2>2. PICK q : q = [[Idle EXCEPT !.step = "load"] EXCEPT !.op = "setup"]
    OBVIOUS
  <2>3. q.step = "load" /\ q.code = NoCode /\ q.saw = NewUser
    BY <2>2 DEF Idle
  <2> QED BY <1>1, <1>2, <2>1, <2>2, <2>3
<1>7. CASE AskRedeem(r)
  <2>1. PICK p \in Phones, n \in 1..issued :
            Ask(r, "redeem", [Idle EXCEPT !.step = "find", !.phone = p,
                                          !.code = [kind |-> "phone", of |-> n, at |-> 0]])
    BY <1>7 DEF AskRedeem
  <2> DEFINE c == [kind |-> "phone", of |-> n, at |-> 0]
  <2>2. c.kind = "phone" /\ c.of <= issued
    BY CountTypes
  <2>3. HandedOut(c)
    BY <2>2 DEF HandedOut
  <2>4. Ask(r, "redeem", [Idle EXCEPT !.step = "find", !.phone = p, !.code = c])
    BY <2>1
  <2> HIDE DEF c
  <2>5. PICK q : q = [[Idle EXCEPT !.step = "find", !.phone = p, !.code = c] EXCEPT !.op = "redeem"]
    OBVIOUS
  <2>6. q.step = "find" /\ q.code = c /\ q.saw = NewUser
    BY <2>5 DEF Idle
  <2> QED BY <1>1, <1>2, <2>3, <2>4, <2>5, <2>6
<1> QED BY <1>3, <1>4, <1>5, <1>6, <1>7 DEF Arrive

\* The row that was read is kept with the code that is fresh in it.
LEMMA ShownReads == ASSUME Base, SpendInv, NEW r \in Requests, Load(r) \/ FindByCode(r) PROVE Shown
<1>1. request[r] \in Request /\ Fit(request[r]) /\ request \in [Requests -> Request] /\ user \in Users
    BY DEF Base, TypeOK, Fits
<1>2. CASE Finish(r)
    BY <1>2, ShownFinish
<1>3. CASE ~Finish(r)
  <2>1. PICK s : s = IF Load(r) THEN Written[request[r].op] ELSE "link"
    OBVIOUS
  <2> DEFINE q == [request[r] EXCEPT !.step = s, !.saw = user]
  <2>2. request' = [request EXCEPT ![r] = q]
    BY <1>1, <1>3, <2>1 DEF Load, FindByCode, Request
  <2>3. q.step = s /\ q.saw = user /\ q.code = request[r].code
    BY <1>1 DEF Request
  <2>4. s \in {"spend", "turnOn", "turnOff", "link"} => Fresh(user, request[r].code)
    <3>1. CASE Load(r)
        <4>1. request[r].op \in {"signIn", "guess", "verify", "setup", "enable", "disable"}
            BY <1>1, <3>1, StepTells DEF Load, At
        <4>2. s \in {"spend", "turnOn", "turnOff", "link"} =>
                 request[r].op \in {"verify", "enable", "disable"}
            BY <2>1, <3>1, <4>1 DEF Written
        <4>3. request[r].op \in {"verify", "enable", "disable"} => Matches(user, request[r].code)
            BY <1>3, <3>1 DEF Load, Admitted, Matches
        <4>4. ASSUME NEW c \in OneTime, Matches(user, c) PROVE Fresh(user, c)
            <5>1. CASE TotpMatches(user, c)
                BY <5>1 DEF TotpMatches, Fresh
            <5>2. CASE c \in user.codes
                <6>1. c.kind = "recovery"
                    BY <1>1, <5>2, UserParts, RecoveryKind
                <6> QED BY <5>2, <6>1 DEF Fresh
            <5> QED BY <4>4, <5>1, <5>2 DEF Matches
        <4>5. request[r].op \in {"verify", "enable", "disable"} => request[r].code \in OneTime
            BY CodeTyped
        <4> QED BY <4>2, <4>3, <4>4, <4>5
    <3>2. CASE ~Load(r)
        <4>1. FindByCode(r) /\ request[r].code.of = user.phoneCode
            BY <1>3, <3>2 DEF FindByCode
        <4>2. request[r].code.kind = "phone"
            BY <1>1, <4>1, StepTells DEF FindByCode, At, Fit
        <4> QED BY <4>1, <4>2 DEF Fresh
    <3> QED BY <3>1, <3>2
  <2>5. Seen(q)
    BY <2>3, <2>4 DEF Seen
  <2>6. q.code \in OneTime => HandedOut(q.code)
    BY <2>3 DEF SpendInv, GivenOut
  <2>7. \A c \in q.saw.codes : HandedOut(c)
    BY <2>3 DEF SpendInv, GivenOut
  <2> HIDE DEF q
  <2> QED BY <2>2, <2>5, <2>6, <2>7, ShownMoves
<1> QED BY <1>2, <1>3

LEMMA SpendKeeps ==
    ASSUME Base, Base', Shown, Spent', minted' \in {minted, minted + 1},
           handed' \in {handed, handed + 1}, issued' \in {issued, issued + 1},
           user'.secret <= minted', user'.phoneCode <= issued', \A c \in user'.codes : HandedOut(c)'
    PROVE  SpendInv'
<1>1. \A c \in OneTime : HandedOut(c) => HandedOut(c)'
    BY HandedGrows
<1>2. ASSUME NEW r \in Requests PROVE (request[r].code \in OneTime => HandedOut(request[r].code))'
  <2> DEFINE c == request'[r].code
  <2>1. c \in OneTime => HandedOut(c)
    BY DEF Shown
  <2>2. c \in OneTime => HandedOut(request[r].code)'
    <3>1. PICK d : d = c
        OBVIOUS
    <3>2. d \in OneTime => HandedOut(d)'
        BY <1>1, <2>1, <3>1
    <3> QED BY <3>1, <3>2 DEF HandedOut
  <2> QED BY <2>2
<1>3. ASSUME NEW r \in Requests, NEW c \in request'[r].saw.codes PROVE HandedOut(c)'
  <2>1. request'[r] \in Request
    BY DEF Base, TypeOK
  <2>2. request'[r].saw.codes \in SUBSET Recovery
    BY <2>1 DEF Request, Users
  <2>3. c \in OneTime
    BY <2>2, RecoveryKind
  <2> QED BY <1>1, <1>3, <2>3 DEF Shown
<1>4. GivenOut'
    BY <1>2, <1>3 DEF GivenOut
<1>5. \A r \in Requests : Seen(request[r])'
    BY DEF Shown, Seen
<1> QED BY <1>4, <1>5 DEF SpendInv

\* What a request about to honour a code brings.
LEMMA HonourBrings ==
    ASSUME Base, SpendInv, NEW r \in Requests, request[r].step \in {"spend", "turnOn", "turnOff", "link"}
    PROVE  /\ request[r].code \in OneTime /\ HandedOut(request[r].code)
           /\ Fresh(request[r].saw, request[r].code)
           /\ request[r].saw \in Users /\ user \in Users
           /\ request[r].step \in {"spend", "turnOff"} => request[r].code.kind \in {"totp", "recovery"}
           /\ request[r].step = "turnOn" => request[r].code.kind = "totp"
           /\ request[r].step = "link" => request[r].code.kind = "phone"
<1>1. request[r] \in Request /\ Fit(request[r]) /\ user \in Users
    BY DEF Base, TypeOK, Fits
<1>2. request[r].op \in {"verify", "enable", "disable", "redeem"}
      /\ (request[r].step \in {"spend", "turnOff"} => request[r].op \in {"verify", "disable"})
      /\ (request[r].step = "link" => request[r].op = "redeem")
    BY <1>1, StepTells DEF Fit
<1>3. request[r].code \in OneTime
    BY <1>1, <1>2 DEF Fit
<1>4. HandedOut(request[r].code) /\ Fresh(request[r].saw, request[r].code)
    BY <1>3 DEF SpendInv, GivenOut, Seen
<1> QED BY <1>1, <1>2, <1>3, <1>4 DEF Fit, Request

LEMMA SpendSpends == ASSUME Base, Base', SpendInv, NEW r \in Requests, Spend(r) PROVE SpendInv'
<1> DEFINE code == request[r].code
           saw == request[r].saw
<1>1. request[r].step = "spend" /\ Honour(r) /\ Goto(r, "mark") /\ UNCHANGED countVars
    BY DEF Spend, At
<1>2. code \in OneTime /\ HandedOut(code) /\ Fresh(saw, code) /\ saw \in Users /\ user \in Users
      /\ code.kind \in {"totp", "recovery"}
    BY <1>1, HonourBrings
<1>3. minted' = minted /\ handed' = handed /\ issued' = issued
    BY <1>1 DEF countVars
<1>4. Shown
    BY <1>1, ShownGoto DEF Steps
<1>5. user'.secret = user.secret /\ user'.phoneCode = user.phoneCode
      /\ (code.kind = "totp" => user'.lastStep = code.at /\ user'.codes = user.codes)
      /\ (code.kind = "recovery" => user'.lastStep = user.lastStep /\ user'.codes = saw.codes \ {code})
    BY <1>2 DEF Spend, Users
<1>6. \A c \in OneTime : c.kind = "totp" => c.at \in Int
    BY Constants DEF OneTime, Recovery, TotpSteps
<1>7. saw.lastStep \in Int /\ user.lastStep \in Int
    BY <1>2, Constants DEF Users, TotpSteps
<1> HIDE DEF code, saw
<1>8. ~Fresh(user', code)
  <2>1. CASE code.kind = "totp"
    <3>1. code.at \in Int
        BY <1>2, <1>6, <2>1
    <3>2. ~(code.at > code.at)
        BY <3>1
    <3> QED BY <1>5, <2>1, <3>2 DEF Fresh
  <2>2. CASE code.kind = "recovery"
    BY <1>5, <2>2 DEF Fresh
  <2> QED BY <1>2, <2>1, <2>2
<1>9. ASSUME NEW c \in OneTime, Fresh(user', c), ~Moved(saw, code) PROVE Fresh(user, c)
  <2>1. CASE c.kind = "totp"
    <3>1. CASE code.kind = "totp"
        <4>1. user.lastStep = saw.lastStep /\ code.at > saw.lastStep
            BY <1>2, <1>9, <3>1 DEF Moved, Fresh
        <4>2. c.of = user.secret /\ c.at > code.at
            BY <1>5, <1>9, <2>1, <3>1 DEF Fresh
        <4>3. c.at \in Int /\ code.at \in Int
            BY <1>2, <1>6, <2>1, <3>1
        <4> QED BY <1>7, <2>1, <4>1, <4>2, <4>3 DEF Fresh
    <3>2. CASE code.kind = "recovery"
        BY <1>5, <1>9, <2>1, <3>2 DEF Fresh
    <3> QED BY <1>2, <3>1, <3>2
  <2>2. CASE c.kind = "recovery"
    <3>1. CASE code.kind = "totp"
        BY <1>5, <1>9, <2>2, <3>1 DEF Fresh
    <3>2. CASE code.kind = "recovery"
        BY <1>5, <1>9, <2>2, <3>2 DEF Fresh, Moved
    <3> QED BY <1>2, <3>1, <3>2
  <2>3. CASE c.kind = "phone"
    BY <1>5, <1>9, <2>3 DEF Fresh
  <2> QED BY <2>1, <2>2, <2>3, CodeKinds
<1>10. Spent'
    BY <1>1, <1>2, <1>3, <1>8, <1>9, HonourSpends DEF code, saw
<1>11. \A c \in user'.codes : HandedOut(c)
    BY <1>2, <1>5 DEF SpendInv, GivenOut, saw
<1>12. \A c : HandedOut(c)' = HandedOut(c)
    BY <1>3 DEF HandedOut
<1>13. user'.secret <= minted' /\ user'.phoneCode <= issued'
    BY <1>3, <1>5 DEF SpendInv, GivenOut
<1>14. \A c \in user'.codes : HandedOut(c)'
    BY <1>11, <1>12
<1> QED BY <1>3, <1>4, <1>10, <1>13, <1>14, SpendKeeps

LEMMA TurnOnSpends == ASSUME Base, Base', SpendInv, NEW r \in Requests, TurnOn(r) PROVE SpendInv'
<1> DEFINE code == request[r].code
           saw == request[r].saw
<1>1. request[r].step = "turnOn" /\ Honour(r) /\ Goto(r, "mark")
    BY DEF TurnOn, At
<1>2. code \in OneTime /\ HandedOut(code) /\ Fresh(saw, code) /\ saw \in Users /\ user \in Users
      /\ code.kind = "totp"
    BY <1>1, HonourBrings
<1>3. minted' = minted /\ handed' = handed + 1 /\ issued' = issued
    BY DEF TurnOn
<1>4. Shown
    BY <1>1, ShownGoto DEF Steps
<1>5. user'.secret = user.secret /\ user'.phoneCode = user.phoneCode
      /\ user'.lastStep = code.at /\ user'.codes = Batch(handed + 1)
    BY <1>2 DEF TurnOn, Users
<1>6. \A c \in OneTime : c.kind = "totp" => c.at \in Int
    BY Constants DEF OneTime, Recovery, TotpSteps
<1>7. saw.lastStep \in Int /\ user.lastStep \in Int /\ handed \in Nat
    BY <1>2, Constants, CountTypes DEF Users, TotpSteps
<1> HIDE DEF code, saw
<1>8. ~Fresh(user', code)
    BY <1>2, <1>5, <1>6 DEF Fresh
<1>9. ASSUME NEW c \in OneTime, Fresh(user', c), ~Moved(saw, code) PROVE Fresh(user, c) \/ ~HandedOut(c)
  <2>1. CASE c.kind = "totp"
    <3>1. user.lastStep = saw.lastStep /\ code.at > saw.lastStep
        BY <1>2, <1>9 DEF Moved, Fresh
    <3>2. c.of = user.secret /\ c.at > code.at
        BY <1>5, <1>9, <2>1 DEF Fresh
    <3>3. c.at \in Int /\ code.at \in Int
        BY <1>2, <1>6, <2>1
    <3> QED BY <1>7, <2>1, <3>1, <3>2, <3>3 DEF Fresh
  <2>2. CASE c.kind = "recovery"
    <3>1. c.of = handed + 1
        BY <1>5, <1>9, <2>2 DEF Fresh, Batch
    <3> QED BY <1>7, <2>2, <3>1 DEF HandedOut
  <2>3. CASE c.kind = "phone"
    BY <1>5, <1>9, <2>3 DEF Fresh
  <2> QED BY <2>1, <2>2, <2>3, CodeKinds
<1>10. Spent'
    BY <1>1, <1>2, <1>3, <1>8, <1>9, HonourSpends DEF code, saw
<1>11. ASSUME NEW c \in user'.codes PROVE HandedOut(c)'
  <2>1. c.of = handed + 1 /\ c.kind = "recovery"
    BY <1>5, <1>11, RecoveryKind DEF Batch
  <2> QED BY <1>3, <1>7, <2>1 DEF HandedOut
<1>12. user'.secret <= minted' /\ user'.phoneCode <= issued'
    BY <1>3, <1>5 DEF SpendInv, GivenOut
<1> QED BY <1>3, <1>4, <1>10, <1>11, <1>12, SpendKeeps

LEMMA TurnOffSpends == ASSUME Base, Base', SpendInv, NEW r \in Requests, TurnOff(r) PROVE SpendInv'
<1> DEFINE code == request[r].code
<1>1. request[r].step = "turnOff" /\ Honour(r) /\ Goto(r, "revokeAll") /\ UNCHANGED countVars
    BY DEF TurnOff, At
<1>2. code \in OneTime /\ HandedOut(code) /\ Fresh(request[r].saw, code) /\ user \in Users
      /\ code.kind \in {"totp", "recovery"}
    BY <1>1, HonourBrings
<1>3. minted' = minted /\ handed' = handed /\ issued' = issued /\ minted \in Nat
    BY <1>1, CountTypes DEF countVars
<1>4. Shown
    BY <1>1, ShownGoto DEF Steps
<1>5. user'.secret = 0 /\ user'.phoneCode = user.phoneCode /\ user'.codes = {}
    BY <1>2 DEF TurnOff, Users
<1> HIDE DEF code
<1>6. \A c \in OneTime : Fresh(user', c) => c.kind = "phone" /\ Fresh(user, c)
    BY <1>5, CodeKinds DEF Fresh
<1>7. Spent'
    BY <1>1, <1>2, <1>3, <1>6, HonourSpends DEF code
<1>8. user'.secret <= minted' /\ user'.phoneCode <= issued'
    BY <1>3, <1>5 DEF SpendInv, GivenOut
<1>9. \A c \in user'.codes : HandedOut(c)'
    BY <1>5
<1> QED BY <1>3, <1>4, <1>7, <1>8, <1>9, SpendKeeps

LEMMA LinkSpends == ASSUME Base, Base', SpendInv, NEW r \in Requests, LinkPhone(r) PROVE SpendInv'
<1> DEFINE code == request[r].code
<1>1. request[r].step = "link" /\ Honour(r) /\ Finish(r) /\ UNCHANGED countVars
    BY DEF LinkPhone, At
<1>2. code \in OneTime /\ HandedOut(code) /\ Fresh(request[r].saw, code) /\ user \in Users
      /\ code.kind = "phone"
    BY <1>1, HonourBrings
<1>3. minted' = minted /\ handed' = handed /\ issued' = issued /\ issued \in Nat
    BY <1>1, CountTypes DEF countVars
<1>4. Shown
    BY <1>1, ShownFinish
<1>5. user'.secret = user.secret /\ user'.lastStep = user.lastStep /\ user'.phoneCode = 0
      /\ user'.codes = user.codes
    BY <1>2 DEF LinkPhone, Users
<1> HIDE DEF code
<1>6. \A c \in OneTime : Fresh(user', c) => c.kind # "phone" /\ Fresh(user, c)
    BY <1>5, CodeKinds DEF Fresh
<1>7. Spent'
    BY <1>1, <1>2, <1>3, <1>6, HonourSpends DEF code
<1>8. user'.secret <= minted' /\ user'.phoneCode <= issued'
    BY <1>3, <1>5 DEF SpendInv, GivenOut
<1>9. \A c : HandedOut(c)' = HandedOut(c)
    BY <1>3 DEF HandedOut
<1>10. \A c \in user'.codes : HandedOut(c)'
    BY <1>5, <1>9 DEF SpendInv, GivenOut
<1> QED BY <1>3, <1>4, <1>7, <1>8, <1>10, SpendKeeps

\* A secret or a phone code that nobody was shown before makes fresh only what was
\* never honoured.
LEMMA NewSecretSpends ==
    ASSUME Base, Base', SpendInv, Shown, UNCHANGED <<uses, stale>>,
           minted' \in {minted, minted + 1}, handed' = handed, issued' \in {issued, issued + 1},
           user'.codes = user.codes,
           (user'.secret = user.secret /\ user'.lastStep = user.lastStep) \/ (user'.secret = minted + 1 /\ minted' = minted + 1),
           user'.phoneCode = user.phoneCode \/ (user'.phoneCode = issued + 1 /\ issued' = issued + 1)
    PROVE  SpendInv'
<1>1. minted \in Nat /\ handed \in Nat /\ issued \in Nat /\ stale["code"] \in Nat /\ uses \in [OneTime -> Nat]
    BY CountTypes
<1>2. \A c \in OneTime : HandedOut(c) => HandedOut(c)'
    BY HandedGrows
<1>3. ASSUME NEW c \in OneTime, Fresh(user', c) PROVE Fresh(user, c) \/ ~HandedOut(c)
  <2>1. CASE c.kind = "totp"
    BY <1>1, <1>3, <2>1 DEF Fresh, HandedOut
  <2>2. CASE c.kind = "recovery"
    BY <1>3, <2>2 DEF Fresh
  <2>3. CASE c.kind = "phone"
    BY <1>1, <1>3, <2>3 DEF Fresh, HandedOut
  <2> QED BY <2>1, <2>2, <2>3, CodeKinds
<1>4. Spent'
  <2> SUFFICES ASSUME NEW c \in OneTime
               PROVE  /\ uses[c] <= 1 + stale["code"]
                      /\ Fresh(user', c) => uses[c] <= stale["code"]
                      /\ ~HandedOut(c)' => uses[c] = 0
    BY DEF Spent
  <2>1. uses[c] <= 1 + stale["code"] /\ (Fresh(user, c) => uses[c] <= stale["code"]) /\ (~HandedOut(c) => uses[c] = 0)
    BY DEF SpendInv, Spent
  <2> QED BY <1>1, <1>2, <1>3, <2>1
<1>5. user'.secret <= minted' /\ user'.phoneCode <= issued'
  <2>1. user.secret <= minted /\ user.phoneCode <= issued /\ user \in Users
    BY DEF SpendInv, GivenOut, Base, TypeOK
  <2>2. user.secret \in Nat /\ user.phoneCode \in Nat
    BY <2>1, Constants DEF Users
  <2> QED BY <1>1, <2>1, <2>2
<1>6. \A c : c.kind = "recovery" => HandedOut(c)' = HandedOut(c)
    BY DEF HandedOut
<1>7. \A c \in user'.codes : HandedOut(c)'
  <2>1. user.codes \in SUBSET Recovery
    BY UserParts DEF Base, TypeOK
  <2> QED BY <1>6, <2>1, RecoveryKind DEF SpendInv, GivenOut
<1> QED BY <1>4, <1>5, <1>7, SpendKeeps

LEMMA MintSpends == ASSUME Base, Base', SpendInv, NEW r \in Requests, Mint(r) PROVE SpendInv'
<1>1. user \in Users
    BY DEF Base, TypeOK
<1>2. Shown
    BY ShownFinish DEF Mint
<1>3. user'.codes = user.codes /\ user'.secret = minted + 1 /\ user'.phoneCode = user.phoneCode
    BY <1>1 DEF Mint, Users
<1>4. minted' = minted + 1 /\ handed' = handed /\ issued' = issued /\ UNCHANGED <<uses, stale>>
    BY DEF Mint, historyVars
<1> QED BY <1>2, <1>3, <1>4, NewSecretSpends

LEMMA StartSpends == ASSUME Base, Base', SpendInv, StartPhone PROVE SpendInv'
<1>1. user \in Users
    BY DEF Base, TypeOK
<1>2. Shown
    BY ShownStays DEF StartPhone
<1>3. user'.codes = user.codes /\ user'.secret = user.secret /\ user'.lastStep = user.lastStep
      /\ user'.phoneCode = issued + 1
    BY <1>1 DEF StartPhone, Users
<1>4. minted' = minted /\ handed' = handed /\ issued' = issued + 1 /\ UNCHANGED <<uses, stale>>
    BY DEF StartPhone, historyVars
<1> QED BY <1>2, <1>3, <1>4, NewSecretSpends

\* Steps that neither honour a code nor make one.
LEMMA RowSpends ==
    ASSUME Base, Base', SpendInv, Shown, UNCHANGED <<user, countVars, uses, stale>>
    PROVE  SpendInv'
BY SpendRest

LEMMA QuietSpends == ASSUME Base, Base', SpendInv, QuietNext PROVE SpendInv'
<1>1. user \in Users
    BY DEF Base, TypeOK
<1>2. CASE Tick \/ SignOut \/ SignOutEverywhere
  <2>1. request' = request /\ UNCHANGED <<user, countVars, uses, stale>>
    BY <1>2 DEF Tick, SignOut, SignOutEverywhere, rowVars, historyVars
  <2> QED BY <2>1, ShownStays, RowSpends
<1>3. CASE Unlock \/ Unlink
  <2>1. request' = request /\ UNCHANGED <<countVars, uses, stale>>
    BY <1>3 DEF Unlock, Unlink, historyVars
  <2>2. user'.secret = user.secret /\ user'.lastStep = user.lastStep /\ user'.codes = user.codes
        /\ user'.phoneCode \in {user.phoneCode, 0}
    BY <1>1, <1>3 DEF Unlock, Unlink, Users
  <2> QED BY <2>1, <2>2, ShownStays, SpendRest
<1> QED BY <1>2, <1>3, StartSpends DEF QuietNext

LEMMA SignSpends ==
    ASSUME Base, Base', SpendInv, NEW r \in Requests, RecordFailure(r) \/ ResetFailures(r)
    PROVE  SpendInv'
<1>1. user \in Users /\ stale \in [{"code", "guess"} -> Nat]
    BY DEF Base, TypeOK
<1>2. UNCHANGED <<countVars, uses>> /\ (stale')["code"] = stale["code"]
    BY <1>1 DEF RecordFailure, ResetFailures
<1>3. user'.secret = user.secret /\ user'.lastStep = user.lastStep /\ user'.codes = user.codes
      /\ user'.phoneCode = user.phoneCode
    BY <1>1 DEF RecordFailure, ResetFailures, Users
<1>4. Shown
    BY ShownFinish, ShownGoto DEF RecordFailure, ResetFailures, Steps
<1> QED BY <1>2, <1>3, <1>4, SpendRest

LEMMA RequestSpends == ASSUME Base, Base', SpendInv, NEW r \in Requests, RequestNext(r) PROVE SpendInv'
<1>1. CASE Arrive(r)
  <2>1. UNCHANGED <<user, countVars, uses, stale>>
    BY <1>1 DEF Arrive, AskSignIn, AskRefresh, AskWithCode, AskSetup, AskRedeem, Ask, rowVars, historyVars
  <2> QED BY <1>1, <2>1, ShownArrives, RowSpends
<1>2. CASE ReadToken(r) \/ Issue(r) \/ Create(r) \/ Load(r) \/ FindByCode(r)
  <2>1. UNCHANGED <<user, countVars, uses, stale>>
    BY <1>2 DEF ReadToken, Issue, Create, Load, FindByCode, rowVars, historyVars
  <2> QED BY <1>2, <2>1, ShownRotates, ShownReads, RowSpends
<1>3. CASE Claim(r) \/ MarkMfaSatisfied(r)
  <2>1. UNCHANGED <<user, countVars, uses, stale>>
    BY <1>3 DEF Claim, MarkMfaSatisfied, historyVars
  <2>2. Goto(r, "revoke") \/ Goto(r, "answer")
    BY <1>3 DEF Claim, MarkMfaSatisfied
  <2> QED BY <2>1, <2>2, ShownGoto, RowSpends DEF Steps
<1>4. CASE RejectExpired(r) \/ AnswerLost(r) \/ Crash(r) \/ CodeExpired(r) \/ PhoneTaken(r) \/ RevokeFamily(r)
           \/ Answer(r) \/ ReissueForSession(r) \/ RevokeAfterDisabling(r)
  <2>1. UNCHANGED <<user, countVars, uses, stale>> /\ Finish(r)
    BY <1>4 DEF RejectExpired, AnswerLost, Crash, CodeExpired, PhoneTaken, RevokeFamily, Answer,
       ReissueForSession, RevokeAfterDisabling, rowVars, historyVars
  <2> QED BY <2>1, ShownFinish, RowSpends
<1> QED BY <1>1, <1>2, <1>3, <1>4, SignSpends, SpendSpends, MintSpends, TurnOnSpends, TurnOffSpends, LinkSpends
        DEF RequestNext, Rotate, Sign, Factor, Phone, Depart

LEMMA SpendNext == Base /\ Base' /\ SpendInv /\ [Next]_vars => SpendInv'
<1> SUFFICES ASSUME Base, Base', SpendInv, [Next]_vars PROVE SpendInv'
    OBVIOUS
<1>1. CASE UNCHANGED vars
  <2>1. request' = request /\ UNCHANGED <<user, countVars, uses, stale>>
    BY <1>1 DEF vars, rowVars, historyVars
  <2> QED BY <2>1, ShownStays, RowSpends
<1> QED BY <1>1, NextSplit, QuietSpends, RequestSpends

LEMMA SpendInit == Init => SpendInv
<1> SUFFICES ASSUME Init PROVE SpendInv
    OBVIOUS
<1>1. uses = [c \in OneTime |-> 0] /\ stale["code"] = 0 /\ minted = user.secret /\ handed = user.secret
      /\ issued = 0 /\ user \in {NewUser, Enrolled} /\ \A r \in Requests : request[r] = Idle
    BY DEF Init
<1>2. user.secret \in {0, 1} /\ user.phoneCode = 0 /\ \A c \in user.codes : c \in Batch(1) /\ user.secret = 1
  <2>1. CASE user = NewUser
    BY <2>1 DEF NewUser
  <2>2. CASE user = Enrolled
    <3>1. user.secret = 1 /\ user.codes = Batch(1) /\ user.phoneCode = 0
        BY <2>2 DEF NewUser, Enrolled
    <3> QED BY <3>1
  <2> QED BY <1>1, <2>1, <2>2
<1>3. \A c \in user.codes : HandedOut(c)
  <2> TAKE c \in user.codes
  <2>1. c.kind = "recovery" /\ c.of = 1 /\ user.secret = 1
    BY <1>2, RecoveryKind DEF Batch
  <2> QED BY <1>1, <2>1 DEF HandedOut
<1>4. GivenOut
    BY <1>1, <1>2, <1>3, ShownIdle DEF GivenOut
<1>5. Spent
    BY <1>1 DEF Spent
<1> QED BY <1>1, <1>4, <1>5, ShownIdle DEF SpendInv

\* A recovery code, a step of the authenticator and a phone's code are each honoured
\* once, but for writes over a row that had changed since it was read (the users row
\* of TwoFactorService and PhoneVerificationService).
THEOREM CodesAreSpentOnce == Spec => []SpentOnce
<1>1. SpendInv => SpentOnce
    BY DEF SpendInv, Spent, SpentOnce
<1> QED BY <1>1, BaseInit, BaseNext, SpendInit, SpendNext, PTL DEF Spec
=============================================================================
