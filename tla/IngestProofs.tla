---------------------------- MODULE IngestProofs ----------------------------
(***************************************************************************)
(* Proofs about Ingest, for every number of messages, intervals, attempts  *)
(* and side-by-side jobs, and every disturbance.                           *)
(*                                                                         *)
(* NothingSkipped is not inductive: the position a walk saves was reported *)
(* to it long before.  WalkInv says what a walk knows at each of its steps *)
(* about the messages it has passed; that knowledge never expires because  *)
(* a message once covered stays covered.  CaughtUp, of a Gmail mailbox,    *)
(* needs where each message is that is not covered yet (Chased), and that  *)
(* every job keeps an attempt in hand (Steady).                            *)
(***************************************************************************)
EXTENDS Ingest, TLAPS

\* Everything up to position p was dealt with.
CoveredTo(p) == \A m \in Mail : m <= p => Covered(m)

\* What a walk knows about the messages behind it.
WalkKnows(k) ==
    /\ step[k] \in {"list", "fetch", "persist", "enqueue", "save"} => CoveredTo(from[k])
    /\ step[k] \in {"fetch", "persist", "enqueue"} =>
          /\ at[k] \in 1..upto[k]
          /\ CoveredTo(at[k] - 1)
    /\ step[k] = "enqueue" => at[k] \in stored
    /\ step[k] = "save" => CoveredTo(upto[k])

WalkInv == \A k \in Keys : WalkKnows(k)

\* A handler runs only in an active job.
RunsActive == \A k \in Keys : step[k] # "idle" => job[k] = "active"

\* What is stored is announced, or about to be by the walk that stored it.
Announcing ==
    \A m \in stored : m \in queued \/ \E k \in Keys : step[k] = "enqueue" /\ at[k] = m

Inv == TypeOK /\ CoveredTo(cursor) /\ WalkInv

-----------------------------------------------------------------------------
(***************************************************************************)
(* Types.                                                                  *)
(***************************************************************************)

\* The budget of disturbances is kept.
LEMMA DisturbTypes ==
    ASSUME TypeOK, Undisturbed \/ \E kind \in DisturbanceKinds : Disturb(kind)
    PROVE  disturbed' \in 0..MaxDisturbed
BY DisturbancesAssumption DEF TypeOK, Undisturbed, Disturb

\* Adding a job keeps the type of the queue.
LEMMA EnqueueTypes ==
    ASSUME TypeOK, NEW k, Enqueue(k) \/ UNCHANGED job
    PROVE  job' \in [Keys -> {"absent", "waiting", "active", "completed", "dead"}]
BY DEF TypeOK, Enqueue

\* The environment's steps, and the writers of the watch, keep the types.
LEMMA OutsideTypes ==
    ASSUME TypeOK,
           \/ Arrive \/ Tick \/ Disturbance \/ Poll
           \/ \E m \in Mail : Vanish(m) \/ ReceiveNotice(m)
           \/ Reconnect \/ BeginRenewal
           \/ \E c \in Callers : Watch(c) \/ WatchFails(c) \/ RecordWatch(c)
    PROVE  TypeOK'
<1> USE SizeAssumption, DisturbancesAssumption DEF Mail, Position, Cursor, NoCursor
<1>1. CASE Arrive
  BY <1>1 DEF TypeOK, Arrive, accountVars, callVars, mailVars, jobVars, walkVars
<1>2. CASE Tick
  BY <1>2 DEF TypeOK, Tick, accountVars, callVars, mailVars, jobVars, walkVars
<1>3. CASE Disturbance
  <2>1. disturbed' \in 0..MaxDisturbed
    BY <1>3, DisturbTypes DEF Disturbance, DisturbanceKinds
  <2>2. oldest' \in Position /\ pushing' \in BOOLEAN
    BY <1>3 DEF TypeOK, Disturbance
  <2>3. notices' \subseteq notices
    BY <1>3 DEF Disturbance
  <2> QED
    BY <1>3, <2>1, <2>2, <2>3
       DEF TypeOK, Disturbance, accountVars, callVars, mailVars, jobVars, walkVars
<1>4. CASE Poll
  <2>1. /\ job' \in [Keys -> {"absent", "waiting", "active", "completed", "dead"}]
        /\ disturbed' \in 0..MaxDisturbed
    BY <1>4, EnqueueTypes DEF TypeOK, Poll, SweepFinds, Undisturbed, Disturb
  <2> QED
    BY <1>4, <2>1 DEF TypeOK, Poll, mailboxVars, accountVars, callVars, mailVars, walkVars
<1>5. ASSUME NEW m \in Mail, Vanish(m) PROVE TypeOK'
  BY <1>5 DEF TypeOK, Vanish, Disturb, accountVars, callVars, mailVars, jobVars, walkVars
<1>6. ASSUME NEW m \in Mail, ReceiveNotice(m) PROVE TypeOK'
  <2>1. job' \in [Keys -> {"absent", "waiting", "active", "completed", "dead"}]
    BY <1>6, EnqueueTypes DEF ReceiveNotice, RouteNotice
  <2>2. disturbed' \in 0..MaxDisturbed
    BY <1>6, DisturbTypes DEF ReceiveNotice, DisturbanceKinds
  <2>3. notices' \subseteq notices
    BY <1>6 DEF ReceiveNotice
  <2> QED
    BY <1>6, <2>1, <2>2, <2>3 DEF TypeOK, ReceiveNotice, accountVars, callVars, mailVars, walkVars
<1>7. CASE Reconnect
  BY <1>7 DEF TypeOK, Reconnect, Disturb, mailboxVars, mailVars, jobVars, walkVars, Callers
<1>8. CASE BeginRenewal
  BY <1>8 DEF TypeOK, BeginRenewal, SweepFinds, Undisturbed, Disturb, mailboxVars, mailVars,
              jobVars, walkVars, Callers
<1>9. ASSUME NEW c \in Callers, Watch(c) PROVE TypeOK'
  BY <1>9 DEF TypeOK, Watch, accountVars, mailVars, jobVars, walkVars
<1>10. ASSUME NEW c \in Callers, WatchFails(c) PROVE TypeOK'
  BY <1>10 DEF TypeOK, WatchFails, Disturb, mailboxVars, mailVars, jobVars, walkVars
<1>11. ASSUME NEW c \in Callers, RecordWatch(c) PROVE TypeOK'
  <2>1. callAt[c] \in Position /\ 1..callAt[c] \subseteq Mail
    BY <1>11 DEF TypeOK
  <2>2. excused' \subseteq Mail
    BY <1>11, <2>1 DEF TypeOK, RecordWatch
  <2>3. cursor' \in Cursor
    BY <1>11, <2>1 DEF TypeOK, RecordWatch
  <2> QED
    BY <1>11, <2>2, <2>3 DEF TypeOK, RecordWatch, mailboxVars, jobVars, walkVars
<1> QED
  BY <1>1, <1>2, <1>3, <1>4, <1>5, <1>6, <1>7, <1>8, <1>9, <1>10, <1>11

\* Leaving the handler, or going on inside it, keeps the types of its job.
LEMMA LeaveTypes ==
    ASSUME TypeOK, NEW k \in Keys,
           \/ Complete(k)
           \/ \E e \in Errors : Throw(k, e)
    PROVE  /\ job' \in [Keys -> {"absent", "waiting", "active", "completed", "dead"}]
           /\ attempts' \in [Keys -> Nat] /\ crashed' \subseteq Keys
           /\ step' \in [Keys -> Steps] /\ from' \in [Keys -> Cursor]
           /\ upto' \in [Keys -> Position] /\ at' \in [Keys -> Position]
           /\ err' \in [Keys -> Errors]
<1>1. CASE Complete(k)
  BY <1>1, SizeAssumption DEF TypeOK, Complete, Leave, Steps, Errors, Cursor, Position, NoCursor
<1>2. ASSUME NEW e \in Errors, Throw(k, e)
      PROVE  /\ attempts' \in [Keys -> Nat] /\ crashed' = crashed
             /\ \E s \in {"waiting", "dead"} : Leave(k, s)
  BY <1>2 DEF TypeOK, Throw
<1>3. ASSUME NEW e \in Errors, Throw(k, e), NEW s \in {"waiting", "dead"}, Leave(k, s)
      PROVE  /\ job' \in [Keys -> {"absent", "waiting", "active", "completed", "dead"}]
             /\ step' \in [Keys -> Steps] /\ from' \in [Keys -> Cursor]
             /\ upto' \in [Keys -> Position] /\ at' \in [Keys -> Position]
             /\ err' \in [Keys -> Errors]
  BY <1>3, SizeAssumption DEF TypeOK, Leave, Steps, Errors, Cursor, Position, NoCursor
<1> QED
  BY <1>1, <1>2, <1>3 DEF TypeOK

\* Every step of a walk keeps the types.
LEMMA HandlerTypes ==
    ASSUME TypeOK, NEW k \in Keys, Handle(k) \/ Crash(k),
           step[k] \in {"persist", "enqueue"} => at[k] \in Mail
    PROVE  TypeOK'
<1> DEFINE JobTypes ==
        /\ job' \in [Keys -> {"absent", "waiting", "active", "completed", "dead"}]
        /\ attempts' \in [Keys -> Nat] /\ crashed' \subseteq Keys
        /\ step' \in [Keys -> Steps] /\ from' \in [Keys -> Cursor]
        /\ upto' \in [Keys -> Position] /\ at' \in [Keys -> Position]
        /\ err' \in [Keys -> Errors]
<1> USE SizeAssumption DEF Position, Cursor, NoCursor, Mail
<1>1. disturbed' \in 0..MaxDisturbed
  BY DisturbTypes DEF Handle, Crash, LoadAccount, GetInitialCursor, SaveFresh, ListChanges,
     FetchMessage, Persist, EnqueueAnalysis, SaveCursor, RecordFailure, ProviderFails,
     DisturbanceKinds
<1>2. ASSUME Complete(k) \/ \E e \in Errors : Throw(k, e) PROVE JobTypes
  BY <1>2, LeaveTypes
<1>3. ASSUME NEW e \in Errors, Catch(k, e) PROVE JobTypes
  BY <1>3 DEF TypeOK, Catch, jobVars, Steps
<1>4. ASSUME NEW s \in Steps, Goto(k, s), upto' \in [Keys -> Position] PROVE JobTypes
  BY <1>4 DEF TypeOK, Goto, jobVars
<1>5. ASSUME NEW m \in Position \cup Mail, Advance(k, m), upto' \in [Keys -> Position]
      PROVE  JobTypes
  <2>1. at' \in [Keys -> Position]
    BY <1>5 DEF TypeOK, Advance
  <2> QED
    BY <1>5, <2>1 DEF TypeOK, Advance, jobVars, Steps
<1>6. CASE LoadAccount(k)
  <2>1. CASE account = "active" /\ from' = [from EXCEPT ![k] = ResumeFrom(k)]
             /\ job' = [job EXCEPT ![k] = "active"]
             /\ step' = [step EXCEPT ![k] = IF ResumeFrom(k) = NoCursor THEN "first" ELSE "list"]
             /\ UNCHANGED <<upto, at, err, attempts, crashed>>
    BY <1>1, <1>6, <2>1 DEF TypeOK, LoadAccount, ResumeFrom, Steps, mailboxVars, accountVars,
       callVars, mailVars
  <2>2. CASE \E e \in Errors : Throw(k, e)
    BY <1>1, <1>2, <1>6, <2>2 DEF TypeOK, LoadAccount, mailboxVars, accountVars, callVars, mailVars
  <2> QED
    BY <1>6, <2>1, <2>2 DEF LoadAccount, Errors
<1>7. CASE GetInitialCursor(k)
  <2>1. JobTypes
    BY <1>2, <1>4, <1>7 DEF GetInitialCursor, TypeOK, Steps
  <2> QED
    BY <1>1, <1>7, <2>1 DEF TypeOK, GetInitialCursor, mailboxVars, accountVars, callVars, mailVars
<1>8. CASE SaveFresh(k)
  <2>1. JobTypes
    BY <1>2, <1>8 DEF SaveFresh, Errors
  <2>2. upto[k] \in Position /\ 1..upto[k] \subseteq Mail
    BY DEF TypeOK
  <2>3. cursor' \in Cursor /\ excused' \subseteq Mail
    BY <1>8, <2>2 DEF TypeOK, SaveFresh
  <2> QED
    BY <1>1, <1>8, <2>1, <2>3 DEF TypeOK, SaveFresh, mailboxVars, callVars
<1>9. CASE ListChanges(k)
  <2>1. ASSUME from[k] >= oldest, upto' = [upto EXCEPT ![k] = arrived], Advance(k, from[k])
        PROVE  JobTypes
    <3>1. from[k] \in Position
      BY <2>1 DEF TypeOK
    <3>2. upto' \in [Keys -> Position]
      BY <2>1 DEF TypeOK
    <3> QED
      BY <1>5, <2>1, <3>1, <3>2
  <2>2. ASSUME Goto(k, "resync"), UNCHANGED upto PROVE JobTypes
    <3>1. upto' \in [Keys -> Position] /\ "resync" \in Steps
      BY <2>2 DEF TypeOK, Steps
    <3> QED
      BY <1>4, <2>2, <3>1
  <2>3. ASSUME NEW e \in Errors, Catch(k, e) PROVE JobTypes
    BY <1>3, <2>3
  <2>4. JobTypes
    BY <1>9, <2>1, <2>2, <2>3 DEF ListChanges
  <2> QED
    BY <1>1, <1>9, <2>4 DEF TypeOK, ListChanges, mailboxVars, accountVars, callVars, mailVars
<1>10. CASE FetchMessage(k)
  <2>1. JobTypes
    BY <1>3, <1>4, <1>5, <1>10 DEF FetchMessage, TypeOK, Steps
  <2> QED
    BY <1>1, <1>10, <2>1 DEF TypeOK, FetchMessage, mailboxVars, accountVars, callVars, mailVars
<1>11. CASE Persist(k)
  <2>0. at[k] \in Mail
    BY <1>11 DEF Persist
  <2>1. JobTypes
    BY <1>3, <1>4, <1>5, <1>11, <2>0 DEF Persist, TypeOK, Steps, Errors
  <2> QED
    BY <1>1, <1>11, <2>0, <2>1 DEF TypeOK, Persist, mailboxVars, accountVars, callVars
<1>12. CASE EnqueueAnalysis(k)
  <2>0. at[k] \in Mail
    BY <1>12 DEF EnqueueAnalysis
  <2>1. JobTypes
    BY <1>3, <1>5, <1>12, <2>0 DEF EnqueueAnalysis, TypeOK, Errors
  <2> QED
    BY <1>1, <1>12, <2>0, <2>1 DEF TypeOK, EnqueueAnalysis, mailboxVars, accountVars, callVars
<1>13. CASE SaveCursor(k)
  <2>1. JobTypes
    BY <1>2, <1>3, <1>13 DEF SaveCursor, Errors
  <2> QED
    BY <1>1, <1>13, <2>1 DEF TypeOK, SaveCursor, Saved, mailboxVars, callVars, mailVars
<1>14. CASE RecordFailure(k)
  <2>1. err[k] \in Errors
    BY DEF TypeOK
  <2>2. JobTypes
    BY <1>2, <1>14, <2>1 DEF RecordFailure, Errors
  <2> QED
    BY <1>1, <1>14, <2>2 DEF TypeOK, RecordFailure, mailboxVars, callVars, mailVars
<1>15. CASE Crash(k)
  BY <1>1, <1>15 DEF TypeOK, Crash, Leave, Steps, Errors, mailboxVars, accountVars, callVars, mailVars
<1> QED
  BY <1>6, <1>7, <1>8, <1>9, <1>10, <1>11, <1>12, <1>13, <1>14, <1>15 DEF Handle

-----------------------------------------------------------------------------
(***************************************************************************)
(* What was covered stays covered, so what a walk knows stays true.        *)
(***************************************************************************)

\* Nothing stored is unstored, nothing deleted comes back, no excuse is withdrawn.
LEMMA CoveredGrows ==
    ASSUME Next \/ UNCHANGED vars
    PROVE  stored \subseteq stored' /\ gone \subseteq gone' /\ excused \subseteq excused'
<1> USE DEF mailboxVars, accountVars, callVars, mailVars, jobVars, walkVars
<1>1. CASE UNCHANGED vars
  BY <1>1 DEF vars
<1>2. CASE Arrive \/ Tick \/ Disturbance \/ Poll \/ Reconnect \/ BeginRenewal
  BY <1>2 DEF Arrive, Tick, Disturbance, Poll, Reconnect, BeginRenewal
<1>3. ASSUME NEW m \in Mail, Vanish(m) \/ ReceiveNotice(m)
      PROVE  stored \subseteq stored' /\ gone \subseteq gone' /\ excused \subseteq excused'
  BY <1>3 DEF Vanish, ReceiveNotice
<1>4. ASSUME NEW c \in Callers, Watch(c) \/ WatchFails(c) \/ RecordWatch(c)
      PROVE  stored \subseteq stored' /\ gone \subseteq gone' /\ excused \subseteq excused'
  BY <1>4 DEF Watch, WatchFails, RecordWatch
<1>5. ASSUME NEW k \in Keys, Handle(k) \/ Crash(k)
      PROVE  stored \subseteq stored' /\ gone \subseteq gone' /\ excused \subseteq excused'
  BY <1>5 DEF Handle, Crash, LoadAccount, GetInitialCursor, SaveFresh, ListChanges,
     FetchMessage, Persist, EnqueueAnalysis, SaveCursor, RecordFailure
<1> QED
  BY <1>1, <1>2, <1>3, <1>4, <1>5 DEF Next

\* So everything up to a position stays dealt with.
LEMMA CoveredToStays ==
    ASSUME Next \/ UNCHANGED vars, NEW p, CoveredTo(p)
    PROVE  \A m \in Mail : m <= p => Covered(m)'
BY CoveredGrows DEF CoveredTo, Covered

\* What is known of a walk that does not move stays known.
LEMMA WalkKnowsStays ==
    ASSUME Next \/ UNCHANGED vars, NEW k \in Keys, WalkKnows(k),
           step'[k] = step[k], from'[k] = from[k], upto'[k] = upto[k], at'[k] = at[k]
    PROVE  WalkKnows(k)'
<1>1. stored \subseteq stored'
  BY CoveredGrows
<1>2. CoveredTo(from[k]) => \A m \in Mail : m <= from'[k] => Covered(m)'
  BY CoveredToStays
<1>3. CoveredTo(at[k] - 1) => \A m \in Mail : m <= at'[k] - 1 => Covered(m)'
  BY CoveredToStays
<1>4. CoveredTo(upto[k]) => \A m \in Mail : m <= upto'[k] => Covered(m)'
  BY CoveredToStays
<1> QED
  BY <1>1, <1>2, <1>3, <1>4 DEF WalkKnows, CoveredTo

-----------------------------------------------------------------------------
(***************************************************************************)
(* The walks.                                                              *)
(***************************************************************************)

\* Only its own handler, or its crash, moves a walk.
LEMMA WalkFrame ==
    ASSUME TypeOK, Next \/ UNCHANGED vars, NEW k \in Keys, ~ (Handle(k) \/ Crash(k))
    PROVE  step'[k] = step[k] /\ from'[k] = from[k] /\ upto'[k] = upto[k] /\ at'[k] = at[k]
<1> USE DEF walkVars
<1>1. CASE UNCHANGED walkVars
  BY <1>1
<1>2. ASSUME NEW j \in Keys, j # k, Handle(j) \/ Crash(j)
      PROVE  step'[k] = step[k] /\ from'[k] = from[k] /\ upto'[k] = upto[k] /\ at'[k] = at[k]
  BY <1>2 DEF TypeOK, Handle, Crash, LoadAccount, GetInitialCursor, SaveFresh, ListChanges,
     FetchMessage, Persist, EnqueueAnalysis, SaveCursor, RecordFailure, Complete, Throw,
     Leave, Goto, Catch, Advance
<1>3. CASE UNCHANGED vars
  BY <1>1, <1>3 DEF vars
<1>4. CASE Arrive \/ Tick \/ Disturbance \/ Poll \/ Reconnect \/ BeginRenewal
  BY <1>1, <1>4 DEF Arrive, Tick, Disturbance, Poll, Reconnect, BeginRenewal
<1>5. ASSUME NEW m \in Mail, Vanish(m) \/ ReceiveNotice(m) PROVE UNCHANGED walkVars
  BY <1>5 DEF Vanish, ReceiveNotice
<1>6. ASSUME NEW c \in Callers, Watch(c) \/ WatchFails(c) \/ RecordWatch(c)
      PROVE  UNCHANGED walkVars
  BY <1>6 DEF Watch, WatchFails, RecordWatch
<1> QED
  BY <1>1, <1>2, <1>3, <1>4, <1>5, <1>6 DEF Next

\* A walk that ends, or goes to its catch block, claims nothing.
LEMMA WalkEnds ==
    ASSUME TypeOK, NEW k \in Keys,
           \/ Complete(k) \/ \E e : Throw(k, e) \/ Catch(k, e)
           \/ \E s : Leave(k, s)
    PROVE  WalkKnows(k)'
BY DEF TypeOK, Complete, Throw, Leave, Catch, WalkKnows

\* Having dealt with everything up to m, the walk may go on to the next message.
LEMMA AdvanceKnows ==
    ASSUME TypeOK, NEW k \in Keys, NEW m \in Position, Advance(k, m),
           upto' \in [Keys -> Position], m <= upto'[k],
           \A n \in Mail : n <= from[k] => Covered(n)',
           \A n \in Mail : n <= m => Covered(n)'
    PROVE  WalkKnows(k)'
<1>a. from'[k] = from[k] /\ upto'[k] \in Position
  BY DEF Advance
<1>b. m \in Int
  BY SizeAssumption DEF Position
<1>0. from'[k] = from[k] /\ upto'[k] \in Position /\ m \in Int
  BY <1>a, <1>b
<1>1. CASE m < upto'[k]
  <2>1. step'[k] = "fetch" /\ at'[k] = m + 1
    BY <1>1 DEF TypeOK, Advance
  <2>2. at'[k] \in 1..upto'[k] /\ at'[k] - 1 = m
    BY <1>0, <1>1, <2>1 DEF Position
  <2> QED
    BY <1>0, <2>1, <2>2 DEF WalkKnows, CoveredTo
<1>2. CASE ~(m < upto'[k])
  <2>1. step'[k] = "save" /\ upto'[k] = m
    BY <1>0, <1>2 DEF TypeOK, Advance, Position
  <2> QED
    BY <1>0, <2>1 DEF WalkKnows, CoveredTo
<1> QED
  BY <1>1, <1>2

\* Each step of a walk hands on what it knows, and what it just did.
LEMMA WalkStep ==
    ASSUME Inv, TypeOK', Next, NEW k \in Keys, Handle(k) \/ Crash(k)
    PROVE  WalkKnows(k)'
<1> USE SizeAssumption
<1>0. WalkKnows(k) /\ TypeOK
  BY DEF Inv, WalkInv
<1>1. CASE LoadAccount(k)
  <2>1. ASSUME from' = [from EXCEPT ![k] = cursor],
               step' = [step EXCEPT ![k] = IF cursor = NoCursor THEN "first" ELSE "list"]
        PROVE  WalkKnows(k)'
    <3>1. \A m \in Mail : m <= cursor => Covered(m)'
      BY CoveredToStays DEF Inv
    <3> QED
      BY <1>0, <2>1, <3>1 DEF TypeOK, WalkKnows, CoveredTo
  <2> QED
    BY <1>0, <1>1, <2>1, WalkEnds DEF LoadAccount, ResumeFrom
<1>2. CASE GetInitialCursor(k)
  <2>1. ASSUME Goto(k, "saveFresh") PROVE WalkKnows(k)'
    BY <1>0, <2>1 DEF TypeOK, Goto, WalkKnows
  <2> QED
    BY <1>0, <1>2, <2>1, WalkEnds DEF GetInitialCursor
<1>3. CASE SaveFresh(k)
  BY <1>0, <1>3, WalkEnds DEF SaveFresh
<1>4. CASE ListChanges(k)
  <2>1. ASSUME from[k] >= oldest, upto' = [upto EXCEPT ![k] = arrived], Advance(k, from[k])
        PROVE  WalkKnows(k)'
    <3>1. \A n \in Mail : n <= from[k] => Covered(n)'
      BY <1>0, <1>4, CoveredToStays DEF ListChanges, WalkKnows
    <3>2. from[k] \in Position
      BY <1>0, <2>1 DEF TypeOK, Position, Cursor, NoCursor
    <3>3. upto' \in [Keys -> Position] /\ upto'[k] = arrived
      BY <1>0, <2>1 DEF TypeOK
    <3>4. CASE from[k] <= arrived
      BY <1>0, <2>1, <3>1, <3>2, <3>3, <3>4, AdvanceKnows
    <3>5. CASE ~(from[k] <= arrived)
      <4>1. step'[k] = "save" /\ from'[k] = from[k] /\ upto'[k] < from[k]
        BY <1>0, <2>1, <3>2, <3>3, <3>5 DEF TypeOK, Advance, Position
      <4> QED
        BY <3>1, <3>2, <3>3, <4>1 DEF WalkKnows, CoveredTo, Position, Mail
    <3> QED
      BY <3>4, <3>5
  <2>2. ASSUME Goto(k, "resync") PROVE WalkKnows(k)'
    BY <1>0, <2>2 DEF TypeOK, Goto, WalkKnows
  <2> QED
    BY <1>0, <1>4, <2>1, <2>2, WalkEnds DEF ListChanges
<1>5. ASSUME step[k] \in {"fetch", "persist", "enqueue"}, UNCHANGED upto,
             Advance(k, at[k]), \A n \in Mail : n = at[k] => Covered(n)'
      PROVE  WalkKnows(k)'
  <2>1. at[k] \in 1..upto[k] /\ upto[k] \in Position /\ at[k] \in Position
    BY <1>0, <1>5 DEF WalkKnows, TypeOK
  <2>2. \A n \in Mail : n <= from[k] => Covered(n)'
    BY <1>0, <1>5, CoveredToStays DEF WalkKnows
  <2>3. \A n \in Mail : n <= at[k] - 1 => Covered(n)'
    BY <1>0, <1>5, CoveredToStays DEF WalkKnows
  <2>4. \A n \in Mail : n <= at[k] => Covered(n)'
    BY <1>5, <2>1, <2>3 DEF Mail, Position
  <2>5. upto' \in [Keys -> Position] /\ at[k] <= upto'[k]
    BY <1>0, <1>5, <2>1 DEF TypeOK, Position
  <2> QED
    BY <1>0, <1>5, <2>1, <2>2, <2>4, <2>5, AdvanceKnows
<1>6. ASSUME step[k] \in {"fetch", "persist"}, UNCHANGED upto,
             \/ Goto(k, "persist")
             \/ Goto(k, "enqueue") /\ at[k] \in stored'
      PROVE  WalkKnows(k)'
  <2>1. \A n \in Mail : n <= from[k] => Covered(n)'
    BY <1>0, <1>6, CoveredToStays DEF WalkKnows
  <2>2. \A n \in Mail : n <= at[k] - 1 => Covered(n)'
    BY <1>0, <1>6, CoveredToStays DEF WalkKnows
  <2> QED
    BY <1>0, <1>6, <2>1, <2>2 DEF TypeOK, Goto, WalkKnows, CoveredTo
<1>7. CASE FetchMessage(k)
  <2>1. ASSUME at[k] \in gone PROVE \A n \in Mail : n = at[k] => Covered(n)'
    BY <2>1, CoveredGrows DEF Covered
  <2> QED
    BY <1>0, <1>5, <1>6, <1>7, <2>1, WalkEnds DEF FetchMessage
<1>8. CASE Persist(k)
  <2>1. ASSUME stored' = stored \cup {at[k]}
        PROVE  at[k] \in stored' /\ \A n \in Mail : n = at[k] => Covered(n)'
    BY <2>1 DEF Covered
  <2> QED
    BY <1>0, <1>5, <1>6, <1>8, <2>1, WalkEnds DEF Persist
<1>9. CASE EnqueueAnalysis(k)
  <2>1. \A n \in Mail : n = at[k] => Covered(n)'
    BY <1>0, <1>9, CoveredGrows DEF EnqueueAnalysis, WalkKnows, Covered
  <2> QED
    BY <1>0, <1>5, <1>9, <2>1, WalkEnds DEF EnqueueAnalysis
<1>10. CASE SaveCursor(k)
  BY <1>0, <1>10, WalkEnds DEF SaveCursor
<1>11. CASE RecordFailure(k)
  BY <1>0, <1>11, WalkEnds DEF RecordFailure
<1>12. CASE Crash(k)
  BY <1>0, <1>12, WalkEnds DEF Crash
<1> QED
  BY <1>1, <1>2, <1>3, <1>4, <1>7, <1>8, <1>9, <1>10, <1>11, <1>12 DEF Handle

-----------------------------------------------------------------------------
(***************************************************************************)
(* The position on the account, and the theorems.                          *)
(***************************************************************************)

\* Whoever writes the position writes one behind which everything is covered.
LEMMA CursorStep ==
    ASSUME Inv, Next \/ UNCHANGED vars
    PROVE  CoveredTo(cursor)'
<1> USE SizeAssumption
<1>0. \A m \in Mail : m <= cursor => Covered(m)'
  BY CoveredToStays DEF Inv
<1>1. CASE UNCHANGED cursor
  BY <1>0, <1>1 DEF CoveredTo
<1>2. ASSUME NEW p \in Position, cursor' = p, 1..p \subseteq excused'
      PROVE  CoveredTo(cursor)'
  BY <1>2 DEF CoveredTo, Covered, Mail, Position
<1>3. ASSUME NEW k \in Keys, SaveFresh(k) PROVE CoveredTo(cursor)'
  <2>1. upto[k] \in Position
    BY DEF Inv, TypeOK
  <2> QED
    BY <1>1, <1>2, <1>3, <2>1 DEF SaveFresh
<1>4. ASSUME NEW k \in Keys, SaveCursor(k) PROVE CoveredTo(cursor)'
  <2>1. \A m \in Mail : m <= upto[k] => Covered(m)'
    BY <1>4, CoveredToStays DEF Inv, WalkInv, WalkKnows, SaveCursor
  <2> QED
    BY <1>1, <1>4, <2>1 DEF SaveCursor, Saved, CoveredTo
<1>5. ASSUME NEW c \in Callers, RecordWatch(c) PROVE CoveredTo(cursor)'
  <2>1. callAt[c] \in Position
    BY DEF Inv, TypeOK
  <2>2. CASE KeepsCursor(c)
    BY <1>1, <1>5, <2>2 DEF RecordWatch
  <2>3. CASE ~KeepsCursor(c)
    BY <1>2, <1>5, <2>1, <2>3 DEF RecordWatch, KeepsCursor, Callers
  <2> QED
    BY <2>2, <2>3
<1>6. ASSUME NEW k \in Keys,
             \/ LoadAccount(k) \/ GetInitialCursor(k) \/ ListChanges(k) \/ FetchMessage(k)
             \/ Persist(k) \/ EnqueueAnalysis(k) \/ RecordFailure(k) \/ Crash(k)
      PROVE  UNCHANGED cursor
  BY <1>6 DEF LoadAccount, GetInitialCursor, ListChanges, FetchMessage, Persist,
     EnqueueAnalysis, RecordFailure, Crash, accountVars
<1>7. CASE Arrive \/ Tick \/ Disturbance \/ Poll \/ Reconnect \/ BeginRenewal
  BY <1>1, <1>7 DEF Arrive, Tick, Disturbance, Poll, Reconnect, BeginRenewal, accountVars
<1>8. ASSUME NEW m \in Mail, Vanish(m) \/ ReceiveNotice(m) PROVE UNCHANGED cursor
  BY <1>8 DEF Vanish, ReceiveNotice, accountVars
<1>9. ASSUME NEW c \in Callers, Watch(c) \/ WatchFails(c) PROVE UNCHANGED cursor
  BY <1>9 DEF Watch, WatchFails, accountVars
<1>10. CASE UNCHANGED vars
  BY <1>1, <1>10 DEF vars, accountVars
<1> QED
  BY <1>1, <1>3, <1>4, <1>5, <1>6, <1>7, <1>8, <1>9, <1>10 DEF Next, Handle

\* A step keeps the types.
LEMMA StepTypes ==
    ASSUME Inv, Next \/ UNCHANGED vars
    PROVE  TypeOK'
<1>1. ASSUME NEW k \in Keys, Handle(k) \/ Crash(k) PROVE TypeOK'
  <2>1. step[k] \in {"persist", "enqueue"} => at[k] \in Mail
    BY SizeAssumption DEF Inv, TypeOK, WalkInv, WalkKnows, Position, Mail
  <2> QED
    BY <1>1, <2>1, HandlerTypes DEF Inv
<1>2. CASE UNCHANGED vars
  BY <1>2 DEF Inv, TypeOK, vars, mailboxVars, accountVars, callVars, mailVars, jobVars, walkVars
<1> QED
  BY <1>1, <1>2, OutsideTypes DEF Next, Inv

\* A step keeps the invariant.
LEMMA StepInv ==
    ASSUME Inv, Next \/ UNCHANGED vars
    PROVE  Inv'
<1>1. TypeOK'
  BY StepTypes
<1>2. ASSUME NEW k \in Keys PROVE WalkKnows(k)'
  <2>1. CASE Next /\ (Handle(k) \/ Crash(k))
    BY <1>1, <2>1, WalkStep
  <2>2. CASE ~(Handle(k) \/ Crash(k))
    BY <2>2, WalkFrame, WalkKnowsStays DEF Inv, WalkInv
  <2>3. CASE UNCHANGED vars
    BY <2>3, WalkKnowsStays DEF Inv, WalkInv, vars, walkVars
  <2> QED
    BY <2>1, <2>2, <2>3
<1> QED
  BY <1>1, <1>2, CursorStep DEF Inv, WalkInv, Keys

\* Nothing has arrived, nothing runs.
LEMMA InitInv == ASSUME Init PROVE Inv
<1> USE SizeAssumption, DisturbancesAssumption
<1>1. TypeOK
  <2>1. 0 \in Position /\ NoCursor \in Cursor /\ 0 \in Nat /\ 0 \in 0..MaxDisturbed
        /\ 1 \in 1..MaxClock
    BY DEF Position, Cursor
  <2>2. callStep \in [Callers -> {"idle", "watch", "record"}]
    BY DEF Init
  <2>3. step \in [Keys -> Steps] /\ err \in [Keys -> Errors]
    BY DEF Init, Steps, Errors
  <2> QED
    BY <2>1, <2>2, <2>3 DEF Init, TypeOK
<1>2. CoveredTo(cursor)
  BY DEF Init, CoveredTo, NoCursor, Mail
<1>3. WalkInv
  BY DEF Init, WalkInv, WalkKnows
<1> QED
  BY <1>1, <1>2, <1>3 DEF Inv

\* The invariant holds of every behaviour.
LEMMA InvHolds == Spec => []Inv
<1>1. Inv /\ [Next]_vars => Inv'
  BY StepInv
<1> QED
  BY InitInv, <1>1, PTL DEF Spec

\* Every variable keeps its type: in particular no walk, sweep or watch ever
\* stores a position the mailbox has not reached.
THEOREM IngestTypes == Spec => []TypeOK
<1>1. Inv => TypeOK
  BY DEF Inv
<1> QED
  BY InvHolds, <1>1, PTL

\* The position of a mailbox never passes a message that was not dealt with,
\* for any number of overlapping, failing, crashing or repeated ingest jobs,
\* and whoever links, renews or reconnects the mailbox meanwhile.
THEOREM CursorSkipsNothing == Spec => []NothingSkipped
<1>1. Inv => NothingSkipped
  BY DEF Inv, NothingSkipped, CoveredTo
<1> QED
  BY InvHolds, <1>1, PTL

-----------------------------------------------------------------------------
(***************************************************************************)
(* Announcing what was stored: only a crash, or Redis refusing the job,    *)
(* between the two can cost a message its delivery.                        *)
(***************************************************************************)

\* A handler ends with its job, and starts with it.
LEMMA RunsActiveStep ==
    ASSUME TypeOK, RunsActive, Next \/ UNCHANGED vars
    PROVE  RunsActive'
<1> SUFFICES ASSUME NEW k \in Keys, step'[k] # "idle" PROVE job'[k] = "active"
  BY DEF RunsActive
<1> USE DEF jobVars, walkVars
<1>1. CASE UNCHANGED <<step, job>>
  BY <1>1 DEF RunsActive
<1>2. ASSUME NEW j \in Keys, Handle(j) \/ Crash(j) PROVE job'[k] = "active"
  <2>1. CASE LoadAccount(j)
    BY <1>2, <2>1 DEF TypeOK, RunsActive, LoadAccount, Throw, Leave
  <2>2. CASE GetInitialCursor(j) \/ SaveFresh(j) \/ ListChanges(j) \/ FetchMessage(j)
    BY <1>2, <2>2 DEF TypeOK, RunsActive, GetInitialCursor, SaveFresh, ListChanges,
       FetchMessage, Complete, Throw, Leave, Goto, Catch, Advance
  <2>3. CASE Persist(j) \/ EnqueueAnalysis(j) \/ SaveCursor(j) \/ RecordFailure(j) \/ Crash(j)
    BY <1>2, <2>3 DEF TypeOK, RunsActive, Persist, EnqueueAnalysis, SaveCursor,
       RecordFailure, Crash, Complete, Throw, Leave, Goto, Catch, Advance
  <2> QED
    BY <1>2, <2>1, <2>2, <2>3 DEF Handle
<1>3. CASE UNCHANGED vars
  BY <1>1, <1>3 DEF vars
<1>4. CASE Arrive \/ Tick \/ Disturbance \/ Reconnect \/ BeginRenewal
  BY <1>1, <1>4 DEF Arrive, Tick, Disturbance, Reconnect, BeginRenewal
<1>5. CASE Poll
  BY <1>5 DEF TypeOK, RunsActive, Poll, Enqueue
<1>6. ASSUME NEW m \in Mail, Vanish(m) PROVE UNCHANGED <<step, job>>
  BY <1>6 DEF Vanish
<1>7. ASSUME NEW m \in Mail, ReceiveNotice(m) PROVE job'[k] = "active"
  BY <1>7 DEF TypeOK, RunsActive, ReceiveNotice, RouteNotice, Routed, Enqueue
<1>8. ASSUME NEW c \in Callers, Watch(c) \/ WatchFails(c) \/ RecordWatch(c)
      PROVE  UNCHANGED <<step, job>>
  BY <1>8 DEF Watch, WatchFails, RecordWatch
<1> QED
  BY <1>1, <1>2, <1>3, <1>4, <1>5, <1>6, <1>7, <1>8 DEF Next

\* Without a crash or a refusal the walk that stored a message enqueues it.
LEMMA AnnouncingStep ==
    ASSUME TypeOK, RunsActive, Announcing, Next \/ UNCHANGED vars,
           Disturbances \cap {"crash", "enqueue"} = {}
    PROVE  Announcing'
<1> SUFFICES ASSUME NEW m \in stored'
             PROVE  m \in queued' \/ \E k \in Keys : step'[k] = "enqueue" /\ at'[k] = m
  BY DEF Announcing
<1> USE DEF mailVars, walkVars, Disturb
<1>1. ASSUME NEW k \in Keys, Persist(k), m \notin stored
      PROVE  step'[k] = "enqueue" /\ at'[k] = m
  BY <1>1 DEF TypeOK, Persist, IsNew, Goto, Catch
<1>2. queued \subseteq queued' /\ (m \in stored \/ \E k \in Keys : Persist(k))
  <2>1. CASE UNCHANGED <<stored, queued>>
    BY <2>1
  <2>2. ASSUME NEW k \in Keys, Handle(k) \/ Crash(k)
        PROVE  queued \subseteq queued' /\ (m \in stored \/ Persist(k))
    BY <2>2 DEF Handle, Crash, LoadAccount, GetInitialCursor, SaveFresh, ListChanges,
       FetchMessage, Persist, EnqueueAnalysis, SaveCursor, RecordFailure
  <2>3. CASE Arrive \/ Tick \/ Disturbance \/ Poll \/ Reconnect \/ BeginRenewal
    BY <2>1, <2>3 DEF Arrive, Tick, Disturbance, Poll, Reconnect, BeginRenewal
  <2>4. ASSUME NEW n \in Mail, Vanish(n) \/ ReceiveNotice(n) PROVE UNCHANGED <<stored, queued>>
    BY <2>4 DEF Vanish, ReceiveNotice
  <2>5. ASSUME NEW c \in Callers, Watch(c) \/ WatchFails(c) \/ RecordWatch(c)
        PROVE  UNCHANGED <<stored, queued>>
    BY <2>5 DEF Watch, WatchFails, RecordWatch
  <2> QED
    BY <2>1, <2>2, <2>3, <2>4, <2>5 DEF Next, vars
<1>3. ASSUME NEW k \in Keys, step[k] = "enqueue", at[k] = m
      PROVE  m \in queued' \/ (step'[k] = "enqueue" /\ at'[k] = m)
  <2>1. CASE Handle(k) \/ Crash(k)
    <3>1. EnqueueAnalysis(k)
      BY <1>3, <2>1 DEF Handle, Crash, LoadAccount, GetInitialCursor, SaveFresh,
         ListChanges, FetchMessage, Persist, SaveCursor, RecordFailure, RunsActive
    <3> QED
      BY <1>3, <3>1 DEF EnqueueAnalysis
  <2>2. CASE ~(Handle(k) \/ Crash(k))
    BY <1>3, <2>2, WalkFrame
  <2> QED
    BY <2>1, <2>2
<1> QED
  BY <1>1, <1>2, <1>3 DEF Announcing

\* If no worker dies and Redis refuses no job, then whenever the mailbox's
\* queue is at rest every stored message has been announced, whatever else
\* fails and however jobs overlap: the two disturbances the run announce
\* exhibits are the only ones that can lose an announcement.
THEOREM OnlyRefusalSilences ==
    ASSUME Disturbances \cap {"crash", "enqueue"} = {}
    PROVE  Spec => []StoredIsAnnounced
<1> DEFINE J == Inv /\ RunsActive /\ Announcing
<1>1. Init => J
  BY InitInv DEF Init, RunsActive, Announcing
<1>2. J /\ [Next]_vars => J'
  BY StepInv, RunsActiveStep, AnnouncingStep DEF Inv
<1>3. J => StoredIsAnnounced
  BY DEF Announcing, RunsActive, StoredIsAnnounced, Quiet
<1> QED
  BY <1>1, <1>2, <1>3, PTL DEF Spec

-----------------------------------------------------------------------------
(***************************************************************************)
(* Catching up: what arrived while the mailbox was watched is missing no   *)
(* more once its queue is at rest.                                         *)
(***************************************************************************)

\* The disturbances that neither lose a push or its job, nor end the watch, nor
\* make an ingest job give up for good.
Harmless == {"provider", "db", "crash", "expire", "vanish", "repeatNotice", "sweep", "reconnect"}

\* There are fewer of them than a job has attempts, and a job survives one crash.
Forgiven ==
    /\ Disturbances \subseteq Harmless
    /\ MaxDisturbed < MaxAttempts
    /\ "crash" \in Disturbances => MaxDisturbed < 2

\* A job that has failed has attempts left.
Perseveres(k) ==
    /\ job[k] # "dead" /\ attempts[k] <= disturbed
    /\ step[k] = "fail" => err[k] = "retryable" /\ attempts[k] < disturbed
    /\ k \in crashed => disturbed > 0

\* The mailbox stays ours, and watched once linking has asked for it.
Watched ==
    /\ account = "active" /\ route # "none"
    /\ callStep["link"] # "watch" => pushing

Steady == Watched /\ \A k \in Keys : Perseveres(k)

\* Linking is about to start afresh beyond message m.
Linking(m) == callStep["link"] = "watch" \/ (callStep["link"] = "record" /\ m <= callAt["link"])

\* The job of m's push asks for changes that include m, or has done so.
TakesIn(m) ==
    /\ step[m] # "idle"
    /\ step[m] \in {"fetch", "persist", "enqueue", "save", "saveFresh"} => m <= upto[m]

\* Where message m is between the provider and us.
Chased(m) ==
    /\ m \in notices \/ job[m] # "absent" => m <= arrived
    /\ job[m] = "active" => TakesIn(m)
    /\ job[m] = "completed" => Covered(m)
    /\ m <= arrived => \/ Covered(m) \/ Linking(m)
                       \/ m \in notices \/ job[m] \in {"waiting", "active"}

\* A forgiven disturbance is counted and harmless.
LEMMA DisturbanceCounts ==
    ASSUME TypeOK, Forgiven, Next \/ UNCHANGED vars
    PROVE  disturbed \in Nat /\ disturbed' \in Nat /\ disturbed <= disturbed'
<1>1. Undisturbed \/ \E kind \in DisturbanceKinds : Disturb(kind)
  <2> USE DEF DisturbanceKinds
  <2>1. CASE \E k \in Keys : Handle(k) \/ Crash(k)
    BY <2>1 DEF Handle, Crash, LoadAccount, GetInitialCursor, SaveFresh, ListChanges, FetchMessage,
       Persist, EnqueueAnalysis, SaveCursor, RecordFailure, ProviderFails
  <2>2. CASE Arrive \/ Tick \/ Disturbance \/ Poll \/ Reconnect \/ BeginRenewal
    BY <2>2 DEF Arrive, Tick, Disturbance, Poll, Reconnect, BeginRenewal, SweepFinds, Undisturbed
  <2>3. CASE \E m \in Mail : Vanish(m) \/ ReceiveNotice(m)
    BY <2>3 DEF Vanish, ReceiveNotice
  <2>4. CASE \E c \in Callers : Watch(c) \/ WatchFails(c) \/ RecordWatch(c)
    BY <2>4 DEF Watch, WatchFails, RecordWatch, Undisturbed
  <2>5. CASE UNCHANGED vars
    BY <2>5 DEF vars, Undisturbed
  <2> QED
    BY <2>1, <2>2, <2>3, <2>4, <2>5 DEF Next
<1> QED
  BY <1>1 DEF TypeOK, Undisturbed, Disturb

\* A retryable error leaves the job attempts, as long as each was disturbed.
LEMMA ThrowPerseveres ==
    ASSUME TypeOK, Forgiven, NEW k \in Keys, Throw(k, "retryable"), attempts[k] < disturbed',
           disturbed' \in 0..MaxDisturbed, Perseveres(k), disturbed <= disturbed'
    PROVE  Perseveres(k)' /\ job'[k] = "waiting"
<1>1. /\ attempts'[k] = attempts[k] + 1 /\ attempts[k] \in Nat
      /\ step'[k] = "idle" /\ crashed' = crashed
      /\ attempts'[k] < MaxAttempts => job'[k] = "waiting"
  BY DEF TypeOK, Throw, Leave
<1>2. disturbed \in Nat /\ disturbed' \in Nat /\ disturbed' < MaxAttempts
  BY SizeAssumption, DisturbancesAssumption DEF TypeOK, Forgiven
<1> QED
  BY <1>1, <1>2, SizeAssumption DEF Perseveres

\* The steps of a job leave it attempts.
LEMMA HandlerPerseveres ==
    ASSUME TypeOK, TypeOK', RunsActive, Forgiven, Watched, NEW k \in Keys, Perseveres(k),
           Handle(k) \/ Crash(k)
    PROVE  Perseveres(k)' /\ job'[k] \in {"waiting", "active", "completed"}
<1> DEFINE Kept == Perseveres(k)' /\ job'[k] \in {"waiting", "active", "completed"}
<1>0. /\ disturbed \in Nat /\ disturbed' \in 0..MaxDisturbed /\ disturbed' \in Nat /\ attempts[k] \in Nat
      /\ disturbed <= disturbed'
      /\ \A kind : Disturb(kind) => kind \in Harmless /\ disturbed' = disturbed + 1
      /\ \A e \in Errors : ProviderFails(e) => e = "retryable" /\ disturbed' = disturbed + 1
      /\ step[k] # "idle" => job[k] = "active"
  <2>1. disturbed \in Nat /\ disturbed' \in 0..MaxDisturbed /\ disturbed' \in Nat /\ attempts[k] \in Nat
    BY DisturbancesAssumption DEF TypeOK
  <2>2. \A kind : Disturb(kind) => kind \in Harmless /\ disturbed' = disturbed + 1
    BY DEF Disturb, Forgiven
  <2>3. disturbed <= disturbed'
    BY DisturbanceCounts DEF Next
  <2>4. \A e \in Errors : ProviderFails(e) => e = "retryable" /\ disturbed' = disturbed + 1
    BY <2>2 DEF ProviderFails, Harmless
  <2> QED
    BY <2>1, <2>2, <2>3, <2>4 DEF RunsActive
<1>1. ASSUME \/ Throw(k, "retryable") /\ disturbed' = disturbed + 1
             \/ Throw(k, "retryable") /\ step[k] = "fail"
      PROVE  Kept
  <2>1. attempts[k] < disturbed'
    BY <1>0, <1>1 DEF Perseveres
  <2> QED
    BY <1>0, <1>1, <2>1, ThrowPerseveres
<1>2. ASSUME Complete(k) PROVE Kept
  BY <1>0, <1>2 DEF TypeOK, Complete, Leave, Perseveres
<1>3. ASSUME Catch(k, "retryable"), disturbed' = disturbed + 1, step[k] # "idle" PROVE Kept
  BY <1>0, <1>3 DEF TypeOK, Catch, jobVars, Perseveres
<1>4. ASSUME UNCHANGED <<attempts, crashed>>, step'[k] # "fail", job'[k] = "active" PROVE Kept
  BY <1>0, <1>4 DEF Perseveres
<1>5. ASSUME NEW s \in Steps \ {"fail"}, Goto(k, s), step[k] # "idle" PROVE Kept
  <2>1. step'[k] = s
    BY <1>5 DEF TypeOK, Goto
  <2> QED
    BY <1>0, <1>4, <1>5, <2>1 DEF Goto, jobVars
<1>6. ASSUME NEW m, Advance(k, m), step[k] # "idle" PROVE Kept
  <2>1. step'[k] # "fail"
    BY <1>6 DEF TypeOK, Advance
  <2> QED
    BY <1>0, <1>4, <1>6, <2>1 DEF Advance, jobVars
<1>7. CASE LoadAccount(k)
  <2>1. CASE Throw(k, "unauthorized") /\ account = "reauth_required"
    BY <2>1 DEF Watched
  <2>2. CASE Disturb("db") /\ Throw(k, "retryable")
    BY <1>0, <1>1, <2>2
  <2>3. CASE /\ job' = [job EXCEPT ![k] = "active"]
             /\ step' = [step EXCEPT ![k] = IF ResumeFrom(k) = NoCursor THEN "first" ELSE "list"]
             /\ UNCHANGED <<attempts, crashed>>
    BY <1>4, <2>3 DEF TypeOK
  <2> QED
    BY <1>7, <2>1, <2>2, <2>3 DEF LoadAccount
<1>8. CASE GetInitialCursor(k)
  BY <1>0, <1>1, <1>5, <1>8 DEF GetInitialCursor, Steps
<1>9. CASE SaveFresh(k)
  BY <1>0, <1>1, <1>2, <1>9 DEF SaveFresh
<1>10. CASE ListChanges(k)
  BY <1>0, <1>3, <1>5, <1>6, <1>10 DEF ListChanges, Steps
<1>11. CASE FetchMessage(k)
  BY <1>0, <1>3, <1>5, <1>6, <1>11 DEF FetchMessage, Steps
<1>12. CASE Persist(k)
  BY <1>0, <1>3, <1>5, <1>6, <1>12 DEF Persist, Steps
<1>13. CASE EnqueueAnalysis(k)
  BY <1>0, <1>3, <1>6, <1>13 DEF EnqueueAnalysis
<1>14. CASE SaveCursor(k)
  BY <1>0, <1>2, <1>3, <1>14 DEF SaveCursor
<1>15. CASE RecordFailure(k)
  BY <1>1, <1>15 DEF RecordFailure, Perseveres
<1>16. CASE Crash(k)
  <2>1. k \notin crashed /\ disturbed' = 1
    <3>1. "crash" \in Disturbances /\ disturbed < MaxDisturbed /\ disturbed' = disturbed + 1
      BY <1>16 DEF Crash, Disturb
    <3> QED
      BY <1>0, <3>1, DisturbancesAssumption DEF Forgiven, Perseveres
  <2>2. /\ job'[k] = "waiting" /\ step'[k] = "idle" /\ attempts'[k] = attempts[k]
    BY <1>16, <2>1 DEF TypeOK, Crash, Leave
  <2> QED
    BY <1>0, <2>1, <2>2 DEF Perseveres
<1> QED
  BY <1>7, <1>8, <1>9, <1>10, <1>11, <1>12, <1>13, <1>14, <1>15, <1>16 DEF Handle

\* The job of a push that was sent for a message keeps after it until the message is covered.
LEMMA HandlerTakesIn ==
    ASSUME Inv, RunsActive, NEW m \in Mail, m \in Keys, m <= arrived,
           job[m] = "active" => TakesIn(m), Handle(m) \/ Crash(m)
    PROVE  /\ job'[m] = "active" => TakesIn(m)'
           /\ job'[m] = "completed" => Covered(m)'
<1> DEFINE Kept == /\ job'[m] = "active" => TakesIn(m)'
                   /\ job'[m] = "completed" => Covered(m)'
<1>0. /\ TypeOK /\ WalkKnows(m) /\ (step[m] # "idle" => job[m] = "active")
      /\ step[m] \in {"fetch", "persist", "enqueue", "save", "saveFresh"} => m <= upto[m]
  BY DEF Inv, WalkInv, RunsActive, TakesIn
<1>1. ASSUME NEW s, Leave(m, s), s # "active", s # "completed" PROVE Kept
  BY <1>0, <1>1 DEF TypeOK, Leave
<1>2. ASSUME NEW e, Throw(m, e) PROVE Kept
  BY <1>1, <1>2 DEF Throw
<1>3. ASSUME NEW e, Catch(m, e), step[m] # "idle" PROVE Kept
  BY <1>0, <1>3 DEF TypeOK, Catch, jobVars, TakesIn
<1>4. ASSUME NEW s \in Steps \ {"idle"}, Goto(m, s), step[m] # "idle", s # "resync" => m <= upto'[m] PROVE Kept
  BY <1>0, <1>4 DEF TypeOK, Goto, jobVars, TakesIn
<1>5. ASSUME NEW p, Advance(m, p), step[m] # "idle", m <= upto'[m] PROVE Kept
  BY <1>0, <1>5 DEF TypeOK, Advance, jobVars, TakesIn
<1>6. CASE LoadAccount(m)
  <2>1. CASE /\ job' = [job EXCEPT ![m] = "active"]
             /\ step' = [step EXCEPT ![m] = IF ResumeFrom(m) = NoCursor THEN "first" ELSE "list"]
    BY <1>0, <2>1 DEF TypeOK, TakesIn
  <2> QED
    BY <1>2, <1>6, <2>1 DEF LoadAccount
<1>7. ASSUME upto' = [upto EXCEPT ![m] = arrived] PROVE m <= upto'[m]
  BY <1>0, <1>7 DEF TypeOK
<1>8. CASE GetInitialCursor(m)
  BY <1>2, <1>4, <1>7, <1>8 DEF GetInitialCursor, Steps
<1>9. CASE SaveFresh(m)
  <2>1. ASSUME excused' = excused \cup 1..upto[m], Complete(m) PROVE Kept
    <3>1. m \in excused'
      BY <1>0, <1>9, <2>1 DEF SaveFresh, TypeOK, Mail, Position
    <3>2. job'[m] = "completed"
      BY <1>0, <2>1 DEF TypeOK, Complete, Leave
    <3> QED
      BY <3>1, <3>2 DEF Covered
  <2> QED
    BY <1>2, <1>9, <2>1 DEF SaveFresh
<1>10. CASE ListChanges(m)
  BY <1>3, <1>4, <1>5, <1>7, <1>10 DEF ListChanges, Steps
<1>11. ASSUME step[m] \in {"fetch", "persist", "enqueue"}, UNCHANGED upto PROVE m <= upto'[m]
  BY <1>0, <1>11
<1>12. CASE FetchMessage(m)
  BY <1>3, <1>4, <1>5, <1>11, <1>12 DEF FetchMessage, Steps
<1>13. CASE Persist(m)
  BY <1>3, <1>4, <1>5, <1>11, <1>13 DEF Persist, Steps
<1>14. CASE EnqueueAnalysis(m)
  BY <1>3, <1>5, <1>11, <1>14 DEF EnqueueAnalysis
<1>15. CASE SaveCursor(m)
  <2>1. ASSUME Complete(m), UNCHANGED mailVars, UNCHANGED mailboxVars PROVE Kept
    <3>1. Covered(m)
      BY <1>0, <1>15 DEF SaveCursor, WalkKnows, CoveredTo
    <3>2. job'[m] = "completed"
      BY <1>0, <2>1 DEF TypeOK, Complete, Leave
    <3> QED
      BY <2>1, <3>1, <3>2 DEF Covered, mailVars, mailboxVars
  <2> QED
    BY <1>3, <1>15, <2>1 DEF SaveCursor
<1>16. CASE RecordFailure(m)
  BY <1>2, <1>16 DEF RecordFailure
<1>17. CASE Crash(m)
  BY <1>1, <1>17 DEF Crash
<1> QED
  BY <1>6, <1>8, <1>9, <1>10, <1>12, <1>13, <1>14, <1>15, <1>16, <1>17 DEF Handle

\* Nobody else touches a job, but for pushes and the poll, which may add it.
LEMMA JobFrame ==
    ASSUME TypeOK, Next \/ UNCHANGED vars, NEW k \in Keys, ~ (Handle(k) \/ Crash(k))
    PROVE  /\ attempts'[k] = attempts[k] /\ err'[k] = err[k] /\ (k \in crashed' => k \in crashed)
           /\ \/ job'[k] = job[k]
              \/ /\ job[k] = "absent" /\ job'[k] = "waiting"
                 /\ Poll \/ \E m \in Mail : ReceiveNotice(m)
<1> DEFINE Kept == /\ attempts'[k] = attempts[k] /\ err'[k] = err[k] /\ (k \in crashed' => k \in crashed)
                   /\ job'[k] = job[k]
<1> USE DEF walkVars, jobVars
<1>1. CASE UNCHANGED <<walkVars, jobVars>>
  BY <1>1
<1>2. ASSUME NEW j \in Keys, j # k, Handle(j) \/ Crash(j) PROVE Kept
  BY <1>2 DEF TypeOK, Handle, Crash, LoadAccount, GetInitialCursor, SaveFresh, ListChanges,
     FetchMessage, Persist, EnqueueAnalysis, SaveCursor, RecordFailure, Complete, Throw,
     Leave, Goto, Catch, Advance
<1>3. CASE UNCHANGED vars
  BY <1>1, <1>3 DEF vars
<1>4. CASE Arrive \/ Tick \/ Disturbance \/ Reconnect \/ BeginRenewal
  BY <1>1, <1>4 DEF Arrive, Tick, Disturbance, Reconnect, BeginRenewal
<1>5. CASE Poll
  BY <1>5 DEF TypeOK, Poll, Enqueue
<1>6. ASSUME NEW m \in Mail, Vanish(m) PROVE Kept
  BY <1>6 DEF Vanish
<1>7. ASSUME NEW m \in Mail, ReceiveNotice(m)
      PROVE  /\ attempts'[k] = attempts[k] /\ err'[k] = err[k] /\ (k \in crashed' => k \in crashed)
             /\ job'[k] = job[k] \/ (job[k] = "absent" /\ job'[k] = "waiting")
  BY <1>7 DEF TypeOK, ReceiveNotice, RouteNotice, Routed, Enqueue
<1>8. ASSUME NEW c \in Callers, Watch(c) \/ WatchFails(c) \/ RecordWatch(c) PROVE Kept
  BY <1>8 DEF Watch, WatchFails, RecordWatch
<1> QED
  BY <1>1, <1>2, <1>3, <1>4, <1>5, <1>6, <1>7, <1>8 DEF Next

\* The mailbox stays ours, and watched.
LEMMA WatchedStep ==
    ASSUME TypeOK, Forgiven, Steady, Next \/ UNCHANGED vars
    PROVE  Watched'
<1>0. \A kind : Disturb(kind) => kind \in Harmless
  BY DEF Disturb, Forgiven
<1> USE DEF Steady, Watched, accountVars, callVars, mailboxVars
<1>1. CASE UNCHANGED <<account, route, callStep, pushing>>
  BY <1>1
<1>2. ASSUME NEW k \in Keys, Handle(k) \/ Crash(k) PROVE UNCHANGED <<account, route, callStep, pushing>>
  <2>1. CASE RecordFailure(k)
    BY <2>1 DEF RecordFailure, Perseveres
  <2> QED
    BY <1>2, <2>1 DEF Handle, Crash, LoadAccount, GetInitialCursor, SaveFresh, ListChanges,
       FetchMessage, Persist, EnqueueAnalysis, SaveCursor
<1>3. CASE Arrive \/ Tick \/ Poll
  BY <1>1, <1>3 DEF Arrive, Tick, Poll
<1>4. CASE Disturbance
  BY <1>0, <1>4 DEF Disturbance, Harmless
<1>5. CASE Reconnect
  BY <1>5 DEF TypeOK, Reconnect, Callers
<1>6. CASE BeginRenewal
  BY <1>6 DEF TypeOK, BeginRenewal, Callers
<1>7. ASSUME NEW m \in Mail, Vanish(m) \/ ReceiveNotice(m) PROVE UNCHANGED <<account, route, callStep, pushing>>
  BY <1>7 DEF Vanish, ReceiveNotice
<1>8. ASSUME NEW c \in Callers, Watch(c) PROVE Watched'
  BY <1>8 DEF Watch
<1>9. ASSUME NEW c \in Callers, WatchFails(c) PROVE FALSE
  BY <1>0, <1>9 DEF WatchFails, Harmless
<1>10. ASSUME NEW c \in Callers, RecordWatch(c) PROVE Watched'
  BY <1>10 DEF TypeOK, RecordWatch, Callers
<1>11. CASE UNCHANGED vars
  BY <1>1, <1>11 DEF vars
<1> QED
  BY <1>1, <1>2, <1>3, <1>4, <1>5, <1>6, <1>7, <1>8, <1>9, <1>10, <1>11 DEF Next

\* Forgiven disturbances cost neither the mailbox nor a job.
LEMMA SteadyStep ==
    ASSUME Inv, RunsActive, Forgiven, Steady, Next \/ UNCHANGED vars
    PROVE  Steady'
<1>1. TypeOK /\ TypeOK'
  BY StepTypes DEF Inv
<1>2. ASSUME NEW k \in Keys PROVE Perseveres(k)'
  <2>1. CASE Handle(k) \/ Crash(k)
    BY <1>1, <2>1, HandlerPerseveres DEF Steady
  <2>2. CASE ~(Handle(k) \/ Crash(k))
    <3>1. step'[k] = step[k] /\ attempts[k] \in Nat
      BY <1>1, <2>2, WalkFrame DEF TypeOK
    <3>2. /\ attempts'[k] = attempts[k] /\ err'[k] = err[k] /\ (k \in crashed' => k \in crashed)
          /\ job'[k] # "dead" \/ job[k] = "dead"
      BY <1>1, <2>2, JobFrame
    <3> QED
      BY <1>1, <3>1, <3>2, DisturbanceCounts DEF Steady, Perseveres
  <2> QED
    BY <2>1, <2>2
<1>3. Keys' = Keys
  BY DEF Keys
<1> QED
  BY <1>1, <1>2, <1>3, WatchedStep DEF Steady

\* What becomes of a message while its own job rests.
LEMMA ChaseFrame ==
    ASSUME Inv, Forgiven, Steady, Kind = "gmail", Next \/ UNCHANGED vars, NEW m \in Mail, m \in Keys,
           Chased(m), ~ (Handle(m) \/ Crash(m))
    PROVE  Chased(m)'
<1> USE SizeAssumption
<1>0. /\ TypeOK /\ (Covered(m) => Covered(m)')
      /\ \A kind : Disturb(kind) => kind \in Harmless
  BY CoveredGrows DEF Inv, Covered, Disturb, Forgiven
<1>1. step'[m] = step[m] /\ upto'[m] = upto[m] /\ (TakesIn(m) => TakesIn(m)')
  BY <1>0, WalkFrame DEF TakesIn
<1>2. ASSUME UNCHANGED <<arrived, notices, callStep, callAt>>, job'[m] = job[m] PROVE Chased(m)'
  BY <1>0, <1>1, <1>2 DEF Chased, Linking
<1>3. ASSUME ~Poll, \A n \in Mail : ~ReceiveNotice(n) PROVE job'[m] = job[m]
  BY <1>0, <1>3, JobFrame
<1>4. ASSUME NEW k \in Keys, Handle(k) \/ Crash(k) PROVE Chased(m)'
  <2>1. UNCHANGED <<arrived, notices, callStep, callAt>>
    BY <1>4 DEF Handle, Crash, LoadAccount, GetInitialCursor, SaveFresh, ListChanges,
       FetchMessage, Persist, EnqueueAnalysis, SaveCursor, RecordFailure, mailboxVars, callVars
  <2>2. job'[m] = job[m]
    BY <1>0, <1>4 DEF TypeOK, Handle, Crash, LoadAccount, GetInitialCursor, SaveFresh, ListChanges,
     FetchMessage, Persist, EnqueueAnalysis, SaveCursor, RecordFailure, Complete, Throw,
     Leave, Goto, Catch, Advance, jobVars
  <2> QED
    BY <1>2, <2>1, <2>2
<1>5. CASE Arrive
  <2>1. job'[m] = job[m] /\ UNCHANGED callVars /\ arrived' = arrived + 1
    BY <1>5 DEF Arrive, jobVars
  <2>2. notices \subseteq notices' /\ (m \in notices' => m \in notices \/ m = arrived')
    BY <1>5 DEF Arrive
  <2>3. m = arrived' => m \in notices' \/ callStep["link"] = "watch"
    BY <1>5 DEF Arrive, Steady, Watched
  <2>4. arrived \in Int /\ m \in Int
    BY <1>0 DEF TypeOK, Position, Mail
  <2> QED
    BY <1>0, <1>1, <2>1, <2>2, <2>3, <2>4 DEF Chased, Linking, callVars
<1>6. CASE Tick
  BY <1>2, <1>6 DEF Tick, callVars, jobVars
<1>7. CASE Disturbance
  BY <1>0, <1>2, <1>7 DEF Disturbance, Harmless, callVars, jobVars
<1>8. CASE Poll
  <2>1. job'[m] = job[m]
    <3>1. m # PollKey
      BY <1>0 DEF PollKey, TypeOK, Mail
    <3> QED
      BY <1>0, <1>8, <3>1 DEF TypeOK, Poll, Enqueue
  <2> QED
    BY <1>2, <1>8, <2>1 DEF Poll, mailboxVars, callVars
<1>9. ASSUME NEW n \in Mail, Vanish(n) PROVE Chased(m)'
  BY <1>2, <1>9 DEF Vanish, callVars, jobVars
<1>10. ASSUME NEW n \in Mail, ReceiveNotice(n) PROVE Chased(m)'
  <2>1. /\ notices' \in {notices, notices \ {n}} /\ Enqueue(n) /\ UNCHANGED <<arrived, callVars>>
        /\ n \in notices
    <3>1. Routed = {TRUE}
      BY <1>0 DEF Routed, Steady, Watched
    <3>2. RouteNotice(n) => Enqueue(n)
      BY <1>0, <3>1 DEF RouteNotice, NoticeKey
    <3> QED
      BY <1>0, <1>10, <3>2 DEF ReceiveNotice, Harmless
  <2>2. CASE n # m
    <3>1. job'[m] = job[m]
      BY <1>0, <2>1, <2>2 DEF TypeOK, Enqueue
    <3> QED
      BY <1>0, <1>1, <2>1, <2>2, <3>1 DEF Chased, Linking, callVars
  <2>3. CASE n = m
    <3>1. job'[m] = IF job[m] = "absent" THEN "waiting" ELSE job[m]
      BY <1>0, <2>1, <2>3 DEF TypeOK, Enqueue
    <3>2. job[m] \in {"absent", "waiting", "active", "completed"}
      BY <1>0 DEF TypeOK, Steady, Perseveres
    <3> QED
      BY <1>0, <1>1, <2>1, <2>3, <3>1, <3>2 DEF Chased, Linking, callVars
  <2> QED
    BY <2>2, <2>3
<1>11. CASE Reconnect
  <2>1. callStep'["link"] = "watch"
    BY <1>0, <1>11 DEF TypeOK, Reconnect, Callers
  <2> QED
    BY <1>0, <1>1, <1>11, <2>1 DEF Chased, Linking, Reconnect, mailboxVars, jobVars
<1>12. CASE BeginRenewal
  <2>1. callStep'["link"] = callStep["link"] /\ callAt' = callAt
    BY <1>0, <1>12 DEF TypeOK, BeginRenewal, Callers
  <2> QED
    BY <1>0, <1>1, <1>12, <2>1 DEF Chased, Linking, BeginRenewal, mailboxVars, jobVars
<1>13. ASSUME NEW c \in Callers, Watch(c) PROVE Chased(m)'
  <2>1. \/ callStep'["link"] = callStep["link"] /\ callAt'["link"] = callAt["link"]
        \/ callStep'["link"] = "record" /\ callAt'["link"] = arrived
    BY <1>0, <1>13 DEF TypeOK, Watch, Callers
  <2> QED
    BY <1>0, <1>1, <1>13, <2>1 DEF Chased, Linking, Watch, jobVars
<1>14. ASSUME NEW c \in Callers, WatchFails(c) PROVE Chased(m)'
  BY <1>0, <1>14 DEF WatchFails, Harmless
<1>15. ASSUME NEW c \in Callers, RecordWatch(c) PROVE Chased(m)'
  <2>1. \/ callStep'["link"] = callStep["link"] /\ callAt'["link"] = callAt["link"]
        \/ callStep["link"] = "record" /\ 1..callAt["link"] \subseteq excused'
    BY <1>0, <1>15 DEF TypeOK, RecordWatch, Callers
  <2>2. Linking(m) => Linking(m)' \/ Covered(m)'
    <3>1. callAt["link"] \in Int /\ m \in Int /\ m >= 1
      BY <1>0 DEF TypeOK, Callers, Position, Mail
    <3> QED
      BY <2>1, <3>1 DEF Linking, Covered
  <2> QED
    BY <1>0, <1>1, <1>15, <2>2 DEF Chased, RecordWatch, mailboxVars, jobVars
<1>16. CASE UNCHANGED vars
  BY <1>2, <1>16 DEF vars, mailboxVars, callVars, jobVars
<1> QED
  BY <1>4, <1>5, <1>6, <1>7, <1>8, <1>9, <1>10, <1>11, <1>12, <1>13, <1>14, <1>15, <1>16 DEF Next

\* Every step keeps after every message.
LEMMA ChaseStep ==
    ASSUME Inv, RunsActive, Forgiven, Steady, Kind = "gmail", Next \/ UNCHANGED vars, NEW m \in Mail,
           Chased(m)
    PROVE  Chased(m)'
<1>1. m \in Keys
  BY SizeAssumption DEF Mail, Keys
<1>2. CASE Handle(m) \/ Crash(m)
  <2>1. TypeOK /\ TypeOK'
    BY StepTypes DEF Inv
  <2>2. m <= arrived
    BY <1>1, <1>2, <2>1 DEF Chased, RunsActive, Handle, Crash, LoadAccount, GetInitialCursor, SaveFresh, ListChanges,
       FetchMessage, Persist, EnqueueAnalysis, SaveCursor, RecordFailure
  <2>3. /\ job'[m] = "active" => TakesIn(m)'
        /\ job'[m] = "completed" => Covered(m)'
    BY <1>1, <1>2, <2>2, HandlerTakesIn DEF Chased
  <2>4. job'[m] \in {"waiting", "active", "completed"}
    BY <1>1, <1>2, <2>1, HandlerPerseveres DEF Steady
  <2>5. UNCHANGED arrived
    BY <1>2 DEF Handle, Crash, LoadAccount, GetInitialCursor, SaveFresh, ListChanges,
       FetchMessage, Persist, EnqueueAnalysis, SaveCursor, RecordFailure, mailboxVars
  <2> QED
    BY <2>2, <2>3, <2>4, <2>5 DEF Chased
<1>3. CASE ~(Handle(m) \/ Crash(m))
  BY <1>1, <1>3, ChaseFrame
<1> QED
  BY <1>2, <1>3

\* In a Gmail mailbox, as long as no push and no job is lost, the watch does not
\* end and a job is not disturbed more often than it is retried: whenever the
\* queue is at rest and no linking is under way, nothing that has arrived is
\* missing, whatever jobs overlapped, failed, crashed or started afresh.
THEOREM QuietMeansCaughtUp ==
    ASSUME Kind = "gmail", Forgiven
    PROVE  Spec => []CaughtUp
<1> DEFINE J == Inv /\ RunsActive /\ Steady /\ \A m \in Mail : Chased(m)
<1>1. Init => J
  <2> SUFFICES ASSUME Init PROVE J
    OBVIOUS
  <2>1. Steady
    BY DEF Init, Steady, Watched, Perseveres, Callers
  <2>2. \A m \in Mail : Chased(m)
    BY SizeAssumption DEF Init, Chased, Linking, Mail, Keys, Callers
  <2> QED
    BY <2>1, <2>2, InitInv DEF Init, RunsActive
<1>2. J /\ [Next]_vars => J'
  <2> SUFFICES ASSUME J, [Next]_vars PROVE J'
    OBVIOUS
  <2>1. Inv' /\ RunsActive' /\ Steady'
    BY StepInv, RunsActiveStep, SteadyStep DEF Inv
  <2>2. ASSUME NEW m \in Mail PROVE Chased(m)'
    BY ChaseStep
  <2> QED
    BY <2>1, <2>2
<1>3. J => CaughtUp
  <2> SUFFICES ASSUME J, Quiet, callStep["link"] = "idle", NEW m \in 1..arrived PROVE Covered(m)
    BY DEF CaughtUp
  <2>1. m \in Mail /\ m \in Keys /\ m <= arrived
    BY SizeAssumption DEF Inv, TypeOK, Position, Mail, Keys
  <2> QED
    BY <2>1 DEF Chased, Linking, Quiet
<1> QED
  BY <1>1, <1>2, <1>3, PTL DEF Spec

=============================================================================
