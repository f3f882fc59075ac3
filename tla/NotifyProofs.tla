---------------------------- MODULE NotifyProofs ----------------------------
(***************************************************************************)
(* Proofs about Notify, for any number of messages, reminders, digests and *)
(* overlapping sweeps, any bounds and any disturbances.                    *)
(***************************************************************************)
EXTENDS Notify, TLAPS

\* What is known of a reminder: only one that was created is swept or returned,
\* and it is about a message.
Known ==
    /\ \A r \in created : about[r] \in Emails
    /\ \A r \in Reminders : job[<<"return", r>>] # "absent" => r \in created
    /\ \A s \in Sweeps : sweepStep[s] # "idle" => sweepOn[s] \in created

\* The steps of each kind of job.
StepsOf(kind) ==
    CASE kind = "analyze" -> {"idle", "analyze", "notify"}
      [] kind = "digest"  -> {"idle", "context", "list", "count", "template", "send", "record",
                              "mark", "stamp"}
      [] OTHER            -> {"idle", "message", "context", "decide", "defer", "template", "send",
                              "record", "mark"}

Fits == \A j \in Jobs : step[j] \in StepsOf(KindOf(j))

Base == TypeOK /\ Known /\ Fits

\* The types of a job and its handler.
JobTypes ==
    /\ job \in [Jobs -> JobStates] /\ attempts \in [Jobs -> Nat] /\ crashed \subseteq Jobs
    /\ step \in [Jobs -> Steps]
    /\ \A j \in Jobs : step[j] = "idle" <=> job[j] # "active"
    /\ snap \in [Jobs -> 0..MaxInbound]
    /\ listed \in [Jobs -> SUBSET Emails]

\* No reminder's card is queued by the step.
NoReturnQueued ==
    \A r \in Reminders : job'[<<"return", r>>] # "absent" => job[<<"return", r>>] # "absent"

-----------------------------------------------------------------------------
(***************************************************************************)
(* Types.                                                                  *)
(***************************************************************************)

\* A job is of one of four kinds, and about a message or a reminder.
LEMMA JobShape ==
    ASSUME NEW j \in Jobs
    PROVE  /\ KindOf(j) \in {"analyze", "card", "return", "digest"}
           /\ j = <<j[1], j[2]>>
           /\ KindOf(j) \in {"analyze", "card"} => j[2] \in Emails
           /\ KindOf(j) = "return" => j[2] \in Reminders
           /\ KindOf(j) = "digest" => j[2] \in Digests
BY DEF Jobs, KindOf

\* The budget of disturbances is kept.
LEMMA DisturbTypes ==
    ASSUME TypeOK, Undisturbed \/ \E kind \in DisturbanceKinds : Disturb(kind)
    PROVE  disturbed' \in 0..MaxDisturbed
BY DisturbancesAssumption DEF TypeOK, Undisturbed, Disturb

\* A job that is running is known, and so is the message it is about.
LEMMA ActiveJob ==
    ASSUME Base, NEW j \in Jobs, step[j] # "idle" \/ job[j] # "absent", KindOf(j) # "digest"
    PROVE  EmailOf(j) \in Emails
<1>1. job[j] # "absent"
  BY DEF Base, TypeOK
<1>2. CASE KindOf(j) = "return"
  <2>1. j[2] \in Reminders /\ j = <<"return", j[2]>>
    BY <1>2, JobShape DEF KindOf
  <2>2. j[2] \in created
    BY <1>1, <2>1 DEF Base, Known
  <2> QED
    BY <1>2, <2>2 DEF Base, Known, EmailOf
<1>3. CASE KindOf(j) # "return"
  BY <1>3, JobShape DEF EmailOf
<1> QED
  BY <1>2, <1>3

\* Adding a job keeps the types, if it does not run already.
LEMMA EnqueueTypes ==
    ASSUME TypeOK, NEW j \in Jobs, Enqueue(j), UNCHANGED <<attempts, crashed, handlerVars>>
    PROVE  JobTypes'
BY DEF TypeOK, JobTypes, Enqueue, JobStates, handlerVars

\* Leaving a handler keeps the types.
LEMMA LeaveTypes ==
    ASSUME TypeOK, NEW j \in Jobs, NEW state \in JobStates \ {"active"}, Leave(j, state),
           attempts' \in [Jobs -> Nat], crashed' \subseteq Jobs
    PROVE  JobTypes'
<1>1. 0 \in 0..MaxInbound
  BY BoundsAssumption
<1> QED
  BY <1>1 DEF TypeOK, JobTypes, Leave, Steps

LEMMA CompleteTypes ==
    ASSUME TypeOK, NEW j \in Jobs, Complete(j)
    PROVE  JobTypes'
<1>1. "completed" \in JobStates \ {"active"}
  BY DEF JobStates
<1> QED
  BY <1>1, LeaveTypes DEF TypeOK, Complete

LEMMA ThrowTypes ==
    ASSUME TypeOK, NEW j \in Jobs, NEW retryable \in BOOLEAN, Throw(j, retryable)
    PROVE  JobTypes'
<1>1. \E state \in JobStates \ {"active"} : Leave(j, state)
  BY DEF Throw, JobStates
<1>2. attempts' \in [Jobs -> Nat] /\ crashed' \subseteq Jobs
  BY DEF TypeOK, Throw
<1> QED
  BY <1>1, <1>2, LeaveTypes

\* Going on inside a handler keeps the types.
LEMMA GotoTypes ==
    ASSUME TypeOK, NEW j \in Jobs, step[j] # "idle", NEW s \in Steps \ {"idle"}, Goto(j, s),
           snap' \in [Jobs -> 0..MaxInbound], listed' \in [Jobs -> SUBSET Emails]
    PROVE  JobTypes'
BY DEF TypeOK, JobTypes, Goto, jobVars

\* A step inside a handler, out of it or back into the queue: what the bases of
\* every handler step are.
LEMMA StepTypes ==
    ASSUME TypeOK, Fits, NEW j \in Jobs, step[j] # "idle",
           \/ Complete(j)
           \/ \E retryable \in BOOLEAN : Throw(j, retryable)
           \/ /\ \E s \in StepsOf(KindOf(j)) \ {"idle"} : Goto(j, s)
              /\ snap' \in [Jobs -> 0..MaxInbound] /\ listed' \in [Jobs -> SUBSET Emails]
    PROVE  JobTypes' /\ NoReturnQueued /\ Fits'
<1>0. StepsOf(KindOf(j)) \subseteq Steps /\ "idle" \in StepsOf(KindOf(j))
  BY DEF StepsOf, Steps
<1>1. JobTypes'
  BY <1>0, CompleteTypes, ThrowTypes, GotoTypes
<1>2. job[j] = "active"
  BY DEF TypeOK
<1>3. \A r \in Reminders : <<"return", r>> \in Jobs
  BY DEF Jobs
<1>4. ASSUME NEW state, Leave(j, state) PROVE NoReturnQueued /\ Fits'
  BY <1>0, <1>2, <1>3, <1>4 DEF TypeOK, Leave, NoReturnQueued, Fits
<1>5. ASSUME NEW s \in StepsOf(KindOf(j)), Goto(j, s) PROVE NoReturnQueued /\ Fits'
  BY <1>5 DEF TypeOK, NoReturnQueued, Goto, jobVars, Fits
<1>6. CASE Complete(j)
  BY <1>1, <1>4, <1>6 DEF Complete
<1>7. ASSUME NEW retryable \in BOOLEAN, Throw(j, retryable) PROVE NoReturnQueued /\ Fits'
  BY <1>4, <1>7 DEF Throw
<1> QED
  BY <1>1, <1>5, <1>6, <1>7

\* The steps of a handler keep what is known.
LEMMA HandlerBase ==
    ASSUME Base, NEW j \in Jobs, Handle(j) \/ Crash(j)
    PROVE  Base'
<1> USE DEF Base
<1> DEFINE Kept == JobTypes' /\ NoReturnQueued /\ Fits'
<1>a. step[j] \in StepsOf(KindOf(j))
  BY DEF Fits
<1>b. snap \in [Jobs -> 0..MaxInbound] /\ listed \in [Jobs -> SUBSET Emails]
  BY DEF TypeOK
<1>1. disturbed' \in 0..MaxDisturbed
  BY DisturbTypes DEF Handle, Crash, TakeJob, Analyze, QueueCard, ReadMessage, ReadContext, Decide,
     SendTemplate, MarkDeferred, ListDeferred, CountDeferred, SendCard, RecordDelivery,
     MarkNotified, StampDigest, CallFails, DbFails, DisturbanceKinds, Undisturbed
<1>2. ASSUME Kept, UNCHANGED <<where, windowVars, reminderVars, commandVars, sweepVars, abandoned>>,
             held' \subseteq Emails, shown' \subseteq Emails, returned' \subseteq Reminders,
             excused' \subseteq Emails
      PROVE  Base'
  <2>1. TypeOK'
    BY <1>1, <1>2 DEF TypeOK, JobTypes, windowVars, reminderVars, commandVars, sweepVars
  <2>2. Known'
    BY <1>2 DEF Known, NoReturnQueued, reminderVars, sweepVars
  <2> QED
    BY <1>2, <2>1, <2>2
<1>c. ASSUME Kept, UNCHANGED <<mailVars, windowVars, reminderVars, commandVars, sweepVars,
                               historyVars>>
      PROVE  Base'
  BY <1>2, <1>c DEF mailVars, historyVars, TypeOK
<1>3. CASE TakeJob(j)
  <2>1. FirstStep(j) \in Steps \ {"idle"} /\ FirstStep(j) \in StepsOf(KindOf(j))
    BY DEF FirstStep, Steps, StepsOf
  <2>2. JobTypes'
    BY <1>3, <2>1 DEF TypeOK, TakeJob, JobTypes, JobStates
  <2>3. NoReturnQueued
    BY <1>3 DEF TypeOK, TakeJob, NoReturnQueued, Jobs
  <2>4. Fits'
    BY <1>3, <2>1 DEF TypeOK, TakeJob, Fits
  <2> QED
    BY <1>c, <1>3, <2>2, <2>3, <2>4 DEF TakeJob
<1>4. CASE Analyze(j)
  <2>1. "notify" \in StepsOf(KindOf(j)) \ {"idle"} /\ step[j] # "idle"
    BY <1>4, <1>a DEF Analyze, StepsOf
  <2>2. \/ Goto(j, "notify") /\ UNCHANGED <<snap, listed>>
        \/ \E retryable \in BOOLEAN : Throw(j, retryable)
    BY <1>4 DEF Analyze
  <2>3. Kept
    BY <1>b, <2>1, <2>2, StepTypes
  <2> QED
    BY <1>c, <1>4, <2>3 DEF Analyze
<1>5. CASE QueueCard(j)
  <2>1. ASSUME Throw(j, TRUE) PROVE Kept
    BY <1>5, <2>1, StepTypes DEF QueueCard
  <2>2. ASSUME job' = [job EXCEPT ![j] = "completed",
                                  ![<<"card", j[2]>>] = IF @ = "absent" THEN "waiting" ELSE @],
               step' = [step EXCEPT ![j] = "idle"],
               UNCHANGED <<snap, listed, attempts, crashed>>
        PROVE  Kept
    <3>1. job[j] = "active" /\ KindOf(j) = "analyze"
      BY <1>5, <1>a DEF QueueCard, TypeOK, StepsOf
    <3>2. j[2] \in Emails /\ j = <<"analyze", j[2]>>
      BY <3>1, JobShape DEF KindOf
    <3>3a. <<"card", j[2]>> \in Jobs
      BY <3>2 DEF Jobs
    <3>3b. <<"card", j[2]>> # j
      BY <3>1 DEF KindOf
    <3>3. PICK card \in Jobs : card = <<"card", j[2]>> /\ card # j
      BY <3>3a, <3>3b
    <3>4. job' = [job EXCEPT ![j] = "completed",
                             ![card] = IF @ = "absent" THEN "waiting" ELSE @]
      BY <2>2, <3>3
    <3>5. /\ job' \in [Jobs -> JobStates]
          /\ \A k \in Jobs : job'[k] = IF k = j THEN "completed"
                              ELSE IF k = card /\ job[k] = "absent" THEN "waiting" ELSE job[k]
      BY <3>3, <3>4 DEF TypeOK, JobStates
    <3>6. step' \in [Jobs -> Steps] /\ \A k \in Jobs : step'[k] = IF k = j THEN "idle" ELSE step[k]
      BY <2>2 DEF TypeOK, Steps
    <3>7. \A k \in Jobs : step'[k] = "idle" <=> job'[k] # "active"
      BY <3>5, <3>6 DEF TypeOK
    <3>8. JobTypes'
      BY <2>2, <3>5, <3>6, <3>7 DEF TypeOK, JobTypes
    <3>9. \A r \in Reminders : <<"return", r>> \in Jobs /\ <<"return", r>> # card
      BY <3>3 DEF Jobs
    <3>10. NoReturnQueued
      BY <3>1, <3>5, <3>9 DEF NoReturnQueued
    <3>11. Fits'
      BY <3>6 DEF Fits, StepsOf
    <3> QED
      BY <3>8, <3>10, <3>11
  <2> QED
    <3>1. Kept
      BY <1>5, <2>1, <2>2 DEF QueueCard
    <3>2. EmailOf(j) = j[2] /\ j[2] \in Emails
      <4>1. KindOf(j) = "analyze"
        BY <1>5, <1>a DEF QueueCard, StepsOf
      <4> QED
        BY <4>1, JobShape DEF KindOf, EmailOf
    <3>3. excused' \subseteq Emails
      BY <1>5, <3>2 DEF QueueCard, TypeOK
    <3> QED
      BY <1>2, <1>5, <3>1, <3>3 DEF QueueCard, mailVars, TypeOK
<1>6. CASE ReadMessage(j)
  <2>1. "context" \in StepsOf(KindOf(j)) \ {"idle"} /\ step[j] # "idle"
    BY <1>6, <1>a DEF ReadMessage, StepsOf
  <2>2. \/ Goto(j, "context") /\ UNCHANGED <<snap, listed>>
        \/ Complete(j)
        \/ Throw(j, TRUE)
    BY <1>6 DEF ReadMessage, DbFails
  <2>3. Kept
    BY <1>b, <2>1, <2>2, StepTypes
  <2> QED
    BY <1>c, <1>6, <2>3 DEF ReadMessage
<1>7. CASE ReadContext(j)
  <2>0. step[j] = "context"
    BY <1>7 DEF ReadContext
  <2> DEFINE next == IF KindOf(j) = "digest" THEN "list" ELSE "decide"
  <2>1. next \in StepsOf(KindOf(j)) \ {"idle"}
    BY <2>0, <1>a DEF StepsOf
  <2>2. \/ /\ Goto(j, next) /\ UNCHANGED listed
           /\ snap' = [snap EXCEPT ![j] = lastInbound]
        \/ Complete(j)
        \/ Throw(j, TRUE)
    BY <1>7 DEF ReadContext, DbFails
  <2>3. snap' = [snap EXCEPT ![j] = lastInbound] => snap' \in [Jobs -> 0..MaxInbound]
    BY DEF TypeOK
  <2> HIDE DEF next
  <2>4. Kept
    BY <1>b, <2>0, <2>1, <2>2, <2>3, StepTypes
  <2>5. KindOf(j) # "digest" => EmailOf(j) \in Emails
    BY <2>0, ActiveJob
  <2>6. excused' \subseteq Emails
    BY <1>7, <2>5 DEF ReadContext, TypeOK
  <2> QED
    BY <1>2, <1>7, <2>4, <2>6 DEF ReadContext, mailVars, TypeOK
<1>8. CASE Decide(j)
  <2>0. step[j] = "decide" /\ KindOf(j) # "digest"
    BY <1>8, <1>a DEF Decide, StepsOf
  <2>1. PICK next \in {"suppress", "defer", "send", "template", "mark"} :
          IF next = "suppress"
          THEN Complete(j) /\ excused' = excused \cup {EmailOf(j)}
          ELSE /\ Goto(j, next)
               /\ listed' = [listed EXCEPT ![j] = {EmailOf(j)}]
               /\ UNCHANGED <<snap, excused>>
    BY <1>8 DEF Decide, Verdicts, AfterVerdict
  <2>2. next # "suppress" => next \in StepsOf(KindOf(j)) \ {"idle"}
    BY <2>0, <1>a DEF StepsOf
  <2>3. EmailOf(j) \in Emails
    BY <2>0, ActiveJob
  <2>4. listed' = [listed EXCEPT ![j] = {EmailOf(j)}] => listed' \in [Jobs -> SUBSET Emails]
    BY <1>b, <2>3
  <2>5. Kept
    BY <1>b, <2>0, <2>1, <2>2, <2>4, StepTypes
  <2>6. excused' \subseteq Emails
    BY <2>1, <2>3 DEF TypeOK
  <2> QED
    BY <1>2, <1>8, <2>5, <2>6 DEF Decide, mailVars, TypeOK
<1>9. CASE SendTemplate(j)
  <2> DEFINE next == IF KindOf(j) = "digest" THEN "stamp" ELSE "defer"
  <2>1. next \in StepsOf(KindOf(j)) \ {"idle"} /\ step[j] # "idle"
    BY <1>9, <1>a DEF SendTemplate, StepsOf
  <2>2. \/ Goto(j, next) /\ UNCHANGED <<snap, listed>>
        \/ \E retryable \in BOOLEAN : Throw(j, retryable)
    BY <1>9 DEF SendTemplate, CallFails, DbFails
  <2> HIDE DEF next
  <2>3. Kept
    BY <1>b, <2>1, <2>2, StepTypes
  <2> QED
    BY <1>c, <1>9, <2>3 DEF SendTemplate
<1>10. CASE MarkDeferred(j)
  <2>1. step[j] # "idle" /\ KindOf(j) # "digest"
    BY <1>10, <1>a DEF MarkDeferred, StepsOf
  <2>2. Complete(j) \/ Throw(j, TRUE)
    BY <1>10 DEF MarkDeferred, DbFails
  <2>3. Kept
    BY <2>1, <2>2, StepTypes
  <2>4. EmailOf(j) \in Emails
    BY <2>1, ActiveJob
  <2>5. held' \subseteq Emails
    BY <1>10, <2>4 DEF MarkDeferred, TypeOK
  <2> QED
    BY <1>2, <1>10, <2>3, <2>5 DEF MarkDeferred, historyVars, TypeOK
<1>11. CASE ListDeferred(j)
  <2> DEFINE next == IF Open(snap[j]) THEN "count" ELSE "template"
  <2>1. next \in StepsOf(KindOf(j)) \ {"idle"} /\ step[j] # "idle"
    BY <1>11, <1>a DEF ListDeferred, StepsOf
  <2>2. \/ /\ \E some \in SUBSET Waiting : listed' = [listed EXCEPT ![j] = some]
           /\ Goto(j, next) /\ UNCHANGED snap
        \/ Complete(j)
        \/ Throw(j, TRUE)
    BY <1>11 DEF ListDeferred, DbFails
  <2> HIDE DEF next
  <2>3. ASSUME NEW some \in SUBSET Waiting, listed' = [listed EXCEPT ![j] = some]
        PROVE  listed' \in [Jobs -> SUBSET Emails]
    BY <1>b, <2>3 DEF Waiting, TypeOK
  <2>4. Kept
    BY <1>b, <2>1, <2>2, <2>3, StepTypes
  <2> QED
    BY <1>c, <1>11, <2>4 DEF ListDeferred
<1>12. CASE CountDeferred(j)
  <2>1. step[j] = "count" /\ {"send", "mark"} \subseteq StepsOf(KindOf(j)) \ {"idle"}
    BY <1>12, <1>a DEF CountDeferred, StepsOf
  <2>2. \/ \E s \in {"send", "mark"} : Goto(j, s) /\ UNCHANGED <<snap, listed>>
        \/ Throw(j, TRUE)
    BY <1>12 DEF CountDeferred, AfterVerdict, DbFails
  <2>3. Kept
    BY <1>b, <2>1, <2>2, StepTypes
  <2> QED
    BY <1>c, <1>12, <2>3 DEF CountDeferred
<1>13. CASE SendCard(j)
  <2>1. step[j] # "idle" /\ "record" \in StepsOf(KindOf(j)) \ {"idle"}
    BY <1>13, <1>a DEF SendCard, StepsOf
  <2>2. \/ Goto(j, "record") /\ UNCHANGED <<snap, listed>>
        \/ \E retryable \in BOOLEAN : Throw(j, retryable)
    BY <1>13 DEF SendCard
  <2>3. Kept
    BY <1>b, <2>1, <2>2, StepTypes
  <2>4. KindOf(j) = "return" => j[2] \in Reminders
    BY JobShape
  <2>5. shown' \subseteq Emails /\ returned' \subseteq Reminders
    BY <1>13, <1>b, <2>4 DEF SendCard, Delivered, TypeOK
  <2> QED
    BY <1>2, <1>13, <2>3, <2>5 DEF SendCard, mailVars, TypeOK
<1>14. CASE RecordDelivery(j)
  <2>1. step[j] # "idle" /\ "mark" \in StepsOf(KindOf(j)) \ {"idle"}
    BY <1>14, <1>a DEF RecordDelivery, StepsOf
  <2>2. \/ Goto(j, "mark") /\ UNCHANGED <<snap, listed>>
        \/ Throw(j, TRUE)
    BY <1>14 DEF RecordDelivery, DbFails
  <2>3. Kept
    BY <1>b, <2>1, <2>2, StepTypes
  <2> QED
    BY <1>c, <1>14, <2>3 DEF RecordDelivery
<1>15. CASE MarkNotified(j)
  <2>1. step[j] # "idle" /\ (KindOf(j) = "digest" => "stamp" \in StepsOf(KindOf(j)) \ {"idle"})
    BY <1>15, <1>a DEF MarkNotified, StepsOf
  <2>2. \/ KindOf(j) = "digest" /\ Goto(j, "stamp") /\ UNCHANGED <<snap, listed>>
        \/ Complete(j)
        \/ Throw(j, TRUE)
    BY <1>15 DEF MarkNotified, DbFails
  <2>3. Kept
    BY <1>b, <2>1, <2>2, StepTypes
  <2>4. held' \subseteq Emails
    BY <1>15 DEF MarkNotified, TypeOK
  <2> QED
    BY <1>2, <1>15, <2>3, <2>4 DEF MarkNotified, historyVars, TypeOK
<1>16. CASE StampDigest(j)
  <2>1. step[j] # "idle" /\ (Complete(j) \/ Throw(j, TRUE))
    BY <1>16 DEF StampDigest, DbFails
  <2>2. Kept
    BY <2>1, StepTypes
  <2> QED
    BY <1>c, <1>16, <2>2 DEF StampDigest
<1>17. CASE Crash(j)
  <2>1. job[j] = "active" /\ step[j] # "idle"
    BY <1>17 DEF Crash, TypeOK
  <2>2. PICK state \in JobStates \ {"active"} : Leave(j, state)
    BY <1>17 DEF Crash, JobStates
  <2>3. attempts' \in [Jobs -> Nat] /\ crashed' \subseteq Jobs
    BY <1>17 DEF Crash, TypeOK
  <2>4. JobTypes'
    BY <2>2, <2>3, LeaveTypes
  <2>5. NoReturnQueued
    BY <2>1, <2>2 DEF TypeOK, Leave, NoReturnQueued, Jobs
  <2>6. Fits'
    BY <2>2 DEF TypeOK, Leave, Fits, StepsOf
  <2> QED
    BY <1>c, <1>17, <2>4, <2>5, <2>6 DEF Crash
<1> QED
  BY <1>3, <1>4, <1>5, <1>6, <1>7, <1>8, <1>9, <1>10, <1>11, <1>12, <1>13, <1>14, <1>15, <1>16,
     <1>17 DEF Handle

\* The steps of the user, the mailbox and time keep what is known.
LEMMA OutsideBase ==
    ASSUME Base,
           \/ \E e \in Emails : Arrive(e) \/ Purge(e)
           \/ TouchConversation \/ FlushDeferred \/ WindowLapses \/ Unlink \/ SweepDigests
    PROVE  Base'
<1> USE DEF Base
<1>1. disturbed' \in 0..MaxDisturbed
  BY DisturbTypes DEF Arrive, Purge, TouchConversation, FlushDeferred, WindowLapses, Unlink,
     SweepDigests, DisturbanceKinds, Undisturbed
<1>2. ASSUME NEW j \in Jobs, KindOf(j) # "return", Enqueue(j), UNCHANGED <<attempts, crashed, handlerVars>>
      PROVE  JobTypes' /\ NoReturnQueued /\ Fits'
  <2>1. JobTypes'
    BY <1>2, EnqueueTypes
  <2>2. NoReturnQueued
    BY <1>2 DEF Enqueue, TypeOK, NoReturnQueued, Jobs, KindOf
  <2>3. Fits'
    BY <1>2 DEF Fits, handlerVars
  <2> QED
    BY <2>1, <2>2, <2>3
<1>3. ASSUME UNCHANGED <<jobVars, handlerVars>> PROVE JobTypes' /\ NoReturnQueued /\ Fits'
  BY <1>3 DEF TypeOK, JobTypes, NoReturnQueued, Fits, jobVars, handlerVars
<1>4. ASSUME JobTypes', NoReturnQueued, Fits', UNCHANGED <<reminderVars, commandVars, sweepVars,
                                                           historyVars>>,
             where' \in [Emails -> Places], held' = held, linked' \in BOOLEAN, flushing' \in BOOLEAN,
             lastInbound' \in 0..MaxInbound, lapsed' \in 0..lastInbound'
      PROVE  Base'
  <2>1. TypeOK'
    BY <1>1, <1>4 DEF TypeOK, JobTypes, reminderVars, commandVars, sweepVars, historyVars
  <2>2. Known'
    BY <1>4 DEF Known, NoReturnQueued, reminderVars, sweepVars
  <2> QED
    BY <1>4, <2>1, <2>2
<1>5. ASSUME NEW e \in Emails, Arrive(e) PROVE Base'
  <2>1. <<"analyze", e>> \in Jobs /\ KindOf(<<"analyze", e>>) # "return"
    BY DEF Jobs, KindOf
  <2>2. JobTypes' /\ NoReturnQueued /\ Fits'
    BY <1>2, <1>5, <2>1 DEF Arrive
  <2> QED
    BY <1>4, <1>5, <2>2 DEF Arrive, TypeOK, Places, windowVars
<1>6. ASSUME NEW e \in Emails, Purge(e) PROVE Base'
  BY <1>3, <1>4, <1>6 DEF Purge, TypeOK, Places, windowVars
<1>7. CASE TouchConversation
  BY <1>3, <1>4, <1>7, BoundsAssumption DEF TouchConversation, TypeOK, mailVars
<1>8. ASSUME NEW i \in Digests, Enqueue(<<"digest", i>>), UNCHANGED <<attempts, crashed, handlerVars>>
      PROVE  JobTypes' /\ NoReturnQueued /\ Fits'
  <2>1. <<"digest", i>> \in Jobs /\ KindOf(<<"digest", i>>) # "return"
    BY DEF Jobs, KindOf
  <2> QED
    BY <1>2, <1>8, <2>1
<1>9. CASE FlushDeferred
  <2>1. JobTypes' /\ NoReturnQueued /\ Fits'
    BY <1>3, <1>8, <1>9 DEF FlushDeferred, jobVars
  <2> QED
    BY <1>4, <1>9, <2>1 DEF FlushDeferred, TypeOK, mailVars
<1>10. CASE WindowLapses
  BY <1>3, <1>4, <1>10 DEF WindowLapses, TypeOK, mailVars
<1>11. CASE Unlink
  BY <1>3, <1>4, <1>11 DEF Unlink, TypeOK, mailVars
<1>12. CASE SweepDigests
  <2>1. JobTypes' /\ NoReturnQueued /\ Fits'
    BY <1>8, <1>12 DEF SweepDigests
  <2> QED
    BY <1>4, <1>12, <2>1 DEF SweepDigests, TypeOK, mailVars, windowVars
<1> QED
  BY <1>5, <1>6, <1>7, <1>9, <1>10, <1>11, <1>12

\* The steps of the commands and the sweep keep what is known.
LEMMA ReminderBase ==
    ASSUME Base,
           \/ \E e \in Emails : ArchiveSnoozed(e) \/ DealWith(e) \/ CancelFor(e)
           \/ \E r \in Reminders : ComesDue(r) \/ \E e \in Emails : Snooze(r, e)
           \/ \E s \in Sweeps : Sweep(s) \/ SweepDies(s) \/ \E r \in Reminders : FindDue(s, r)
    PROVE  Base'
<1> USE DEF Base
<1>1. disturbed' \in 0..MaxDisturbed
  BY DisturbTypes DEF ArchiveSnoozed, DealWith, CancelFor, ComesDue, Snooze, Sweep, Claim, Unarchive,
     EnqueueReturn, Release, SweepDies, FindDue, DisturbanceKinds, Undisturbed
<1>2. ASSUME UNCHANGED <<held, windowVars, jobVars, handlerVars, shown, returned, excused>>,
             where' \in [Emails -> Places], created' \subseteq Reminders, due' \subseteq created',
             sent' \subseteq created', cancelled' \subseteq created',
             about' \in [Reminders -> Emails \cup {NoEmail}], snoozing' \subseteq Emails,
             dealing' \subseteq Emails, sweepStep' \in [Sweeps -> SweepSteps],
             sweepOn' \in [Sweeps -> Reminders \cup {NoReminder}], abandoned' \subseteq Reminders,
             Known'
      PROVE  Base'
  <2>1. TypeOK'
    BY <1>1, <1>2 DEF TypeOK, windowVars, jobVars, handlerVars
  <2>2. Fits'
    BY <1>2 DEF Fits, handlerVars
  <2> QED
    BY <1>2, <2>1, <2>2
<1> USE DEF jobVars, sweepVars, commandVars, reminderVars, historyVars, mailVars
<1>3. ASSUME NEW e \in Emails, ArchiveSnoozed(e) PROVE Base'
  BY <1>2, <1>3 DEF ArchiveSnoozed, TypeOK, Known, Places
<1>4. ASSUME NEW e \in Emails, DealWith(e) PROVE Base'
  <2>1. where' \in [Emails -> Places]
    BY <1>4, CommandsAssumption DEF DealWith, TypeOK, Places
  <2> QED
    BY <1>2, <1>4, <2>1 DEF DealWith, TypeOK, Known
<1>5. ASSUME NEW e \in Emails, CancelFor(e) PROVE Base'
  BY <1>2, <1>5 DEF CancelFor, LiveAbout, Live, TypeOK, Known
<1>6. ASSUME NEW r \in Reminders, ComesDue(r) PROVE Base'
  BY <1>2, <1>6 DEF ComesDue, TypeOK, Known
<1>7. ASSUME NEW r \in Reminders, NEW e \in Emails, Snooze(r, e) PROVE Base'
  <2>1. about' \in [Reminders -> Emails \cup {NoEmail}] /\ created' \subseteq Reminders
    BY <1>7 DEF Snooze, TypeOK
  <2>2. Known'
    BY <1>7 DEF Snooze, TypeOK, Known
  <2> QED
    BY <1>2, <1>7, <2>1, <2>2 DEF Snooze, LiveAbout, Live, TypeOK
<1>8. ASSUME NEW s \in Sweeps, SweepEnds(s)
      PROVE  /\ sweepStep' \in [Sweeps -> SweepSteps]
             /\ sweepOn' \in [Sweeps -> Reminders \cup {NoReminder}]
             /\ \A t \in Sweeps : sweepStep'[t] # "idle" =>
                  sweepStep[t] # "idle" /\ sweepOn'[t] = sweepOn[t]
  BY <1>8 DEF SweepEnds, SweepGoto, TypeOK, SweepSteps
<1>9. ASSUME NEW s \in Sweeps, sweepStep[s] # "idle", NEW next \in SweepSteps, SweepGoto(s, next),
             UNCHANGED sweepOn
      PROVE  /\ sweepStep' \in [Sweeps -> SweepSteps]
             /\ sweepOn' \in [Sweeps -> Reminders \cup {NoReminder}]
             /\ \A t \in Sweeps : sweepStep'[t] # "idle" =>
                  sweepStep[t] # "idle" /\ sweepOn'[t] = sweepOn[t]
  BY <1>9 DEF SweepGoto, TypeOK
<1>10. ASSUME NEW s \in Sweeps, Sweep(s) \/ SweepDies(s)
       PROVE  /\ sweepStep[s] # "idle"
              /\ sweepStep' \in [Sweeps -> SweepSteps]
              /\ sweepOn' \in [Sweeps -> Reminders \cup {NoReminder}]
              /\ \A t \in Sweeps : sweepStep'[t] # "idle" =>
                   sweepStep[t] # "idle" /\ sweepOn'[t] = sweepOn[t]
  <2>1. sweepStep[s] # "idle"
    BY <1>10 DEF Sweep, SweepDies, Claim, Unarchive, EnqueueReturn, Release
  <2>2. \/ SweepEnds(s)
        \/ UNCHANGED sweepOn /\ \E next \in SweepSteps : SweepGoto(s, next)
    BY <1>10 DEF Sweep, SweepDies, Claim, Unarchive, EnqueueReturn, Release, SweepSteps
  <2> QED
    BY <1>8, <1>9, <2>1, <2>2
<1>11. ASSUME NEW s \in Sweeps, NEW r \in Reminders, FindDue(s, r) PROVE Base'
  <2>1. /\ sweepStep' \in [Sweeps -> SweepSteps]
        /\ sweepOn' \in [Sweeps -> Reminders \cup {NoReminder}]
    BY <1>11 DEF FindDue, SweepGoto, TypeOK, SweepSteps
  <2>2. Known'
    BY <1>11 DEF FindDue, SweepGoto, Live, TypeOK, Known
  <2> QED
    BY <1>2, <1>11, <2>1, <2>2 DEF FindDue, TypeOK
<1>12. ASSUME NEW s \in Sweeps, Sweep(s) \/ SweepDies(s) PROVE sweepOn[s] \in created
  BY <1>10, <1>12 DEF Known
<1>13. ASSUME NEW s \in Sweeps, Claim(s) PROVE Base'
  <2>1. Sweep(s)
    BY <1>13 DEF Sweep
  <2>2. Known'
    BY <1>10, <1>13, <2>1 DEF Claim, Known
  <2> QED
    BY <1>2, <1>10, <1>12, <1>13, <2>1, <2>2 DEF Claim, TypeOK
<1>14. ASSUME NEW s \in Sweeps, Unarchive(s) PROVE Base'
  <2>1. Sweep(s)
    BY <1>14 DEF Sweep
  <2>2. Known'
    BY <1>10, <1>14, <2>1 DEF Unarchive, Known
  <2>3. where' \in [Emails -> Places]
    BY <1>14 DEF Unarchive, TypeOK, Places
  <2> QED
    BY <1>2, <1>10, <1>14, <2>1, <2>2, <2>3 DEF Unarchive, TypeOK
<1>15. ASSUME NEW s \in Sweeps, EnqueueReturn(s) PROVE Base'
  <2>1. Sweep(s)
    BY <1>15 DEF Sweep
  <2>2. sweepOn[s] \in Reminders /\ sweepOn[s] \in created /\ <<"return", sweepOn[s]>> \in Jobs
    BY <1>12, <2>1 DEF TypeOK, Jobs
  <2>3. JobTypes'
    <3>1. CASE Enqueue(<<"return", sweepOn[s]>>)
      BY <1>15, <2>2, <3>1, EnqueueTypes DEF EnqueueReturn
    <3>2. CASE UNCHANGED job
      BY <1>15, <3>2 DEF EnqueueReturn, TypeOK, JobTypes, handlerVars
    <3> QED
      BY <1>15, <3>1, <3>2 DEF EnqueueReturn
  <2>4. TypeOK'
    BY <1>1, <1>10, <1>15, <2>1, <2>3 DEF EnqueueReturn, TypeOK, JobTypes, windowVars
  <2>5. \A r \in Reminders : job'[<<"return", r>>] # "absent" =>
            job[<<"return", r>>] # "absent" \/ r = sweepOn[s]
    BY <1>15, <2>2 DEF EnqueueReturn, Enqueue, TypeOK, Jobs
  <2>6. Known'
    BY <1>10, <1>15, <2>1, <2>2, <2>5 DEF EnqueueReturn, Known
  <2>7. Fits'
    BY <1>15 DEF EnqueueReturn, Fits, handlerVars
  <2> QED
    BY <2>4, <2>6, <2>7
<1>16. ASSUME NEW s \in Sweeps, Release(s) PROVE Base'
  <2>1. Sweep(s)
    BY <1>16 DEF Sweep
  <2>2. Known'
    BY <1>10, <1>16, <2>1 DEF Release, Known
  <2> QED
    BY <1>2, <1>10, <1>12, <1>16, <2>1, <2>2 DEF Release, Released, Abandons, TypeOK
<1>17. ASSUME NEW s \in Sweeps, SweepDies(s) PROVE Base'
  <2>2. Known'
    BY <1>10, <1>17 DEF SweepDies, Known
  <2> QED
    BY <1>2, <1>10, <1>12, <1>17, <2>2 DEF SweepDies, Abandons, TypeOK
<1> QED
  BY <1>3, <1>4, <1>5, <1>6, <1>7, <1>11, <1>13, <1>14, <1>15, <1>16, <1>17 DEF Sweep

LEMMA BaseInit ==
    ASSUME Init
    PROVE  Base
<1>1. TypeOK
  <2>1. 0 \in 0..MaxInbound /\ 0 \in 0..0 /\ 0 \in 0..MaxDisturbed /\ 0 \in Nat
    BY BoundsAssumption, DisturbancesAssumption
  <2>2. /\ where \in [Emails -> Places] /\ job \in [Jobs -> JobStates]
        /\ attempts \in [Jobs -> Nat] /\ step \in [Jobs -> Steps]
        /\ snap \in [Jobs -> 0..MaxInbound] /\ listed \in [Jobs -> SUBSET Emails]
        /\ about \in [Reminders -> Emails \cup {NoEmail}]
        /\ sweepStep \in [Sweeps -> SweepSteps]
        /\ sweepOn \in [Sweeps -> Reminders \cup {NoReminder}]
    BY <2>1 DEF Init, Places, JobStates, Steps, SweepSteps
  <2>3. \A j \in Jobs : step[j] = "idle" /\ job[j] # "active"
    BY DEF Init
  <2> QED
    BY <2>1, <2>2, <2>3 DEF Init, TypeOK
<1>2. Known
  BY DEF Init, Known, Jobs
<1>3. Fits
  BY DEF Init, Fits, StepsOf
<1> QED
  BY <1>1, <1>2, <1>3 DEF Base

LEMMA BaseNext ==
    ASSUME Base, [Next]_vars
    PROVE  Base'
<1>1. CASE UNCHANGED vars
  BY <1>1 DEF vars, Base, TypeOK, Known, Fits, mailVars, windowVars, jobVars, handlerVars,
     reminderVars, commandVars, sweepVars, historyVars
<1>2. CASE Next
  BY <1>2, HandlerBase, OutsideBase, ReminderBase DEF Next
<1> QED
  BY <1>1, <1>2

\* Every variable keeps its type.
THEOREM NotifyTypes == Spec => []TypeOK
<1>1. Spec => []Base
  BY BaseInit, BaseNext, PTL DEF Spec
<1>2. Base => TypeOK
  BY DEF Base
<1> QED
  BY <1>1, <1>2, PTL

-----------------------------------------------------------------------------
(***************************************************************************)
(* The reminders' claim.                                                   *)
(***************************************************************************)

Holding(s) == sweepStep[s] \in {"unarchive", "enqueue", "release"}

\* A run past its claim owns it: the row is marked, its message not queued, and
\* no other run is past a claim of the same row.  A marked row is never called
\* off, and only a marked one was queued.
ClaimInv ==
    /\ \A s \in Sweeps :
          Holding(s) => sweepOn[s] \in sent /\ job[<<"return", sweepOn[s]>>] = "absent"
    /\ \A s, t \in Sweeps : Holding(s) /\ Holding(t) /\ sweepOn[s] = sweepOn[t] => s = t
    /\ \A r \in sent : r \notin cancelled
    /\ \A r \in Reminders : job[<<"return", r>>] # "absent" => r \in sent

\* A handler step queues no reminder's card, and takes none out of the queue's
\* memory.
LEMMA ReturnsKept ==
    ASSUME Base, NEW j \in Jobs, Handle(j) \/ Crash(j)
    PROVE  \A r \in Reminders : job'[<<"return", r>>] # "absent" <=> job[<<"return", r>>] # "absent"
<1> USE DEF Base
<1>0. \A r \in Reminders : <<"return", r>> \in Jobs
  BY DEF Jobs
<1>1. ASSUME NEW state \in JobStates \ {"absent"}, Leave(j, state), job[j] # "absent"
      PROVE  \A r \in Reminders : job'[<<"return", r>>] # "absent" <=> job[<<"return", r>>] # "absent"
  BY <1>0, <1>1 DEF Leave, TypeOK
<1>2. CASE QueueCard(j) /\ job' = [job EXCEPT ![j] = "completed",
                                ![<<"card", j[2]>>] = IF @ = "absent" THEN "waiting" ELSE @]
  <2>1. job[j] = "active"
    BY <1>2 DEF QueueCard, TypeOK
  <2>2. \A r \in Reminders : <<"return", r>> # <<"card", j[2]>>
    OBVIOUS
  <2> QED
    BY <1>0, <1>2, <2>1, <2>2 DEF TypeOK
<1>3. CASE TakeJob(j)
  BY <1>0, <1>3 DEF TakeJob, TypeOK
<1>4. CASE UNCHANGED job
  BY <1>4
<1>5. CASE step[j] # "idle" /\ \/ Complete(j)
                                \/ \E retryable \in BOOLEAN : Throw(j, retryable)
  <2>1. job[j] # "absent"
    BY <1>5 DEF TypeOK
  <2>2. \E state \in JobStates \ {"absent"} : Leave(j, state)
    BY <1>5 DEF Complete, Throw, JobStates
  <2> QED
    BY <1>1, <2>1, <2>2
<1>6. CASE Crash(j)
  <2>1. \E state \in JobStates \ {"absent"} : Leave(j, state)
    BY <1>6 DEF Crash, JobStates
  <2> QED
    BY <1>1, <1>6, <2>1 DEF Crash
<1>7. CASE Handle(j)
  <2>1. \/ TakeJob(j) \/ UNCHANGED job
        \/ QueueCard(j) /\ job' = [job EXCEPT ![j] = "completed",
                                ![<<"card", j[2]>>] = IF @ = "absent" THEN "waiting" ELSE @]
        \/ step[j] # "idle" /\ \/ Complete(j)
                               \/ \E retryable \in BOOLEAN : Throw(j, retryable)
    BY <1>7 DEF Handle, Analyze, QueueCard, ReadMessage, ReadContext, Decide, SendTemplate,
       MarkDeferred, ListDeferred, CountDeferred, SendCard, RecordDelivery, MarkNotified,
       StampDigest, CallFails, DbFails, Goto, jobVars
  <2> QED
    BY <1>2, <1>3, <1>4, <1>5, <2>1
<1> QED
  BY <1>6, <1>7

LEMMA ClaimInit ==
    ASSUME Init
    PROVE  ClaimInv
BY DEF Init, ClaimInv, Holding, Jobs

LEMMA ClaimNext ==
    ASSUME Base, ClaimInv, [Next]_vars
    PROVE  ClaimInv'
<1> USE DEF Base
<1>0. \A r \in Reminders : <<"return", r>> \in Jobs
  BY DEF Jobs
<1>1. ASSUME UNCHANGED <<sent, cancelled, sweepVars>>,
             \A r \in Reminders : job'[<<"return", r>>] # "absent" <=> job[<<"return", r>>] # "absent"
      PROVE  ClaimInv'
  <2>1. \A s \in Sweeps : Holding(s) => sweepOn[s] \in Reminders
    BY DEF Known, Holding, TypeOK
  <2> QED
    BY <1>1, <2>1 DEF ClaimInv, Holding, sweepVars
<1>2. CASE UNCHANGED vars
  BY <1>2 DEF vars, ClaimInv, Holding, jobVars, reminderVars, sweepVars
<1>3. ASSUME NEW j \in Jobs, Handle(j) \/ Crash(j) PROVE ClaimInv'
  <2>1. UNCHANGED <<sent, cancelled, sweepVars>>
    BY <1>3 DEF Handle, Crash, TakeJob, Analyze, QueueCard, ReadMessage, ReadContext, Decide,
       SendTemplate, MarkDeferred, ListDeferred, CountDeferred, SendCard, RecordDelivery,
       MarkNotified, StampDigest, reminderVars
  <2> QED
    BY <1>1, <1>3, <2>1, ReturnsKept
<1>4. ASSUME NEW e \in Emails, Arrive(e) PROVE ClaimInv'
  <2>1. \A r \in Reminders : job'[<<"return", r>>] = job[<<"return", r>>]
    BY <1>0, <1>4 DEF Arrive, Enqueue, TypeOK
  <2> QED
    BY <1>1, <1>4, <2>1 DEF Arrive, reminderVars
<1>5. CASE FlushDeferred \/ SweepDigests
  <2>1. \A r \in Reminders : job'[<<"return", r>>] = job[<<"return", r>>]
    BY <1>0, <1>5 DEF FlushDeferred, SweepDigests, Enqueue, TypeOK
  <2> QED
    BY <1>1, <1>5, <2>1 DEF FlushDeferred, SweepDigests, reminderVars
<1>6. ASSUME NEW e \in Emails, Purge(e) \/ ArchiveSnoozed(e) \/ DealWith(e) PROVE ClaimInv'
  BY <1>1, <1>6 DEF Purge, ArchiveSnoozed, DealWith, reminderVars, jobVars
<1>7. CASE TouchConversation \/ WindowLapses \/ Unlink
  BY <1>1, <1>7 DEF TouchConversation, WindowLapses, Unlink, reminderVars, jobVars
<1>8. ASSUME NEW e \in Emails, CancelFor(e) PROVE ClaimInv'
  BY <1>8 DEF CancelFor, LiveAbout, Live, ClaimInv, Holding, jobVars, sweepVars, TypeOK
<1>9. ASSUME NEW r \in Reminders, NEW e \in Emails, Snooze(r, e) PROVE ClaimInv'
  BY <1>9 DEF Snooze, LiveAbout, Live, ClaimInv, Holding, jobVars, sweepVars, TypeOK
<1>10. ASSUME NEW r \in Reminders, ComesDue(r) PROVE ClaimInv'
  BY <1>10 DEF ComesDue, ClaimInv, Holding, jobVars, sweepVars
<1>11. ASSUME NEW s \in Sweeps, NEW r \in Reminders, FindDue(s, r) PROVE ClaimInv'
  BY <1>11 DEF FindDue, SweepGoto, ClaimInv, Holding, jobVars, reminderVars, TypeOK
<1>12. ASSUME NEW s \in Sweeps, Claim(s) PROVE ClaimInv'
  <2>1. sweepOn[s] \in Reminders /\ ~Holding(s)
    BY <1>12 DEF Claim, Known, TypeOK, Holding
  <2>2. CASE Claimable(sweepOn[s]) /\ sent' = sent \cup {sweepOn[s]} /\ SweepGoto(s, "unarchive")
             /\ UNCHANGED sweepOn
    <3>1. sweepOn[s] \notin sent /\ sweepOn[s] \notin cancelled
      BY <2>2 DEF Claimable, Live
    <3>2. job[<<"return", sweepOn[s]>>] = "absent"
      BY <2>1, <3>1 DEF ClaimInv
    <3>3. \A t \in Sweeps : Holding(t) => sweepOn[t] # sweepOn[s]
      BY <3>1 DEF ClaimInv
    <3>4. \A t \in Sweeps : Holding(t)' <=> Holding(t) \/ t = s
      BY <2>2 DEF SweepGoto, Holding, TypeOK
    <3>5. UNCHANGED <<job, cancelled, sweepOn>>
      BY <1>12, <2>2 DEF Claim, jobVars
    <3> QED
      BY <2>2, <3>1, <3>2, <3>3, <3>4, <3>5 DEF ClaimInv
  <2>3. CASE SweepEnds(s) /\ UNCHANGED sent
    <3>1. \A t \in Sweeps : Holding(t)' => Holding(t) /\ sweepOn'[t] = sweepOn[t]
      BY <2>3 DEF SweepEnds, SweepGoto, Holding, TypeOK
    <3>2. UNCHANGED <<job, cancelled, sent>>
      BY <1>12, <2>3 DEF Claim, jobVars
    <3> QED
      BY <3>1, <3>2 DEF ClaimInv
  <2> QED
    BY <1>12, <2>2, <2>3 DEF Claim
<1>13. ASSUME NEW s \in Sweeps, Unarchive(s) PROVE ClaimInv'
  <2>1. Holding(s)
    BY <1>13 DEF Unarchive, Holding
  <2>2. \A t \in Sweeps : Holding(t)' <=> Holding(t)
    BY <1>13, <2>1 DEF Unarchive, SweepGoto, Holding, TypeOK
  <2> QED
    BY <1>13, <2>2 DEF Unarchive, ClaimInv, jobVars, reminderVars
<1>14. ASSUME NEW s \in Sweeps, EnqueueReturn(s) PROVE ClaimInv'
  <2>1. Holding(s) /\ sweepOn[s] \in Reminders /\ sweepOn[s] \in sent
    BY <1>14 DEF EnqueueReturn, Holding, Known, TypeOK, ClaimInv
  <2>2. CASE Enqueue(<<"return", sweepOn[s]>>) /\ SweepEnds(s)
    <3>1. \A t \in Sweeps : Holding(t)' => Holding(t) /\ t # s /\ sweepOn'[t] = sweepOn[t]
      BY <2>2 DEF SweepEnds, SweepGoto, Holding, TypeOK
    <3>2. \A r \in Reminders : r # sweepOn[s] => job'[<<"return", r>>] = job[<<"return", r>>]
      BY <1>0, <2>1, <2>2 DEF Enqueue, TypeOK
    <3>3. \A t \in Sweeps : Holding(t) => sweepOn[t] \in Reminders
      BY DEF Holding, Known, TypeOK
    <3>4. UNCHANGED <<sent, cancelled>>
      BY <1>14 DEF EnqueueReturn, reminderVars
    <3> QED
      BY <2>1, <3>1, <3>2, <3>3, <3>4 DEF ClaimInv
  <2>3. CASE SweepGoto(s, "release") /\ UNCHANGED <<sweepOn, job>>
    <3>1. \A t \in Sweeps : Holding(t)' <=> Holding(t)
      BY <2>1, <2>3 DEF SweepGoto, Holding, TypeOK
    <3> QED
      BY <1>14, <2>3, <3>1 DEF EnqueueReturn, ClaimInv, reminderVars
  <2> QED
    BY <1>14, <2>2, <2>3 DEF EnqueueReturn
<1>15. ASSUME NEW s \in Sweeps, Release(s) PROVE ClaimInv'
  <2>1. Holding(s) /\ job[<<"return", sweepOn[s]>>] = "absent"
    BY <1>15 DEF Release, Holding, ClaimInv
  <2>2. \A t \in Sweeps : Holding(t)' => Holding(t) /\ t # s /\ sweepOn'[t] = sweepOn[t]
    BY <1>15 DEF Release, SweepEnds, SweepGoto, Holding, TypeOK
  <2>3. \A t \in Sweeps : Holding(t)' => sweepOn[t] # sweepOn[s]
    BY <2>1, <2>2 DEF ClaimInv
  <2>4. sent \ {sweepOn[s]} \subseteq sent' /\ sent' \subseteq sent /\ UNCHANGED <<job, cancelled>>
    BY <1>15 DEF Release, Released, jobVars
  <2> QED
    BY <2>1, <2>2, <2>3, <2>4 DEF ClaimInv
<1>16. ASSUME NEW s \in Sweeps, SweepDies(s) PROVE ClaimInv'
  <2>1. \A t \in Sweeps : Holding(t)' => Holding(t) /\ sweepOn'[t] = sweepOn[t]
    BY <1>16 DEF SweepDies, SweepEnds, SweepGoto, Holding, TypeOK
  <2> QED
    BY <1>16, <2>1 DEF SweepDies, ClaimInv, jobVars, reminderVars
<1> QED
  BY <1>2, <1>3, <1>4, <1>5, <1>6, <1>7, <1>8, <1>9, <1>10, <1>11, <1>12, <1>13, <1>14, <1>15, <1>16
     DEF Next, Sweep

LEMMA ClaimAlways == Spec => [](Base /\ ClaimInv)
BY BaseInit, BaseNext, ClaimInit, ClaimNext, PTL DEF Spec

\* However many runs of the sweep overlap, one of them brings a reminder back.
THEOREM ReminderFiredByOne == Spec => []FiredByOne
<1>1. Base /\ ClaimInv => FiredByOne
  BY DEF ClaimInv, Holding, FiredByOne
<1> QED
  BY <1>1, ClaimAlways, PTL

\* A reminder that was called off or replaced brings nothing back.
THEOREM CancelledReminderStaysAway == Spec => []CancelledStaysAway
<1>1. Base /\ ClaimInv => CancelledStaysAway
  BY DEF ClaimInv, CancelledStaysAway, Base, TypeOK
<1> QED
  BY <1>1, ClaimAlways, PTL

-----------------------------------------------------------------------------
(***************************************************************************)
(* Nothing is forgotten, as long as the window does not close in the       *)
(* moment between a job's look at it and its send.                         *)
(***************************************************************************)

NoMidway == "midway" \notin Disturbances

\* Delivered, owed, silenced, put down by the user, or deleted.
Accounted(e) == e \in shown \cup held \cup excused \cup Snoozed \/ where[e] = "gone"

\* What a job knows between its look at the window and its mark: the window it
\* saw is open until it has sent; what it marks was shown, unless it returned a
\* snooze; and a card is about its own message.
JobSees(j) ==
    /\ snap[j] <= lastInbound
    /\ step[j] \in {"count", "send"} => Open(snap[j])
    /\ step[j] \in {"record", "mark"} /\ KindOf(j) # "return" => listed[j] \subseteq shown
    /\ KindOf(j) = "return" => listed[j] \subseteq Snoozed
    /\ KindOf(j) = "card" /\ step[j] \in {"template", "defer", "send", "record", "mark"} =>
          listed[j] = {j[2]}

SeenInv ==
    /\ \A j \in Jobs : JobSees(j)
    /\ \A e \in Emails : job[<<"card", e>>] = "completed" => Accounted(e)

LEMMA SeenInit ==
    ASSUME Init
    PROVE  SeenInv
<1>1. \A j \in Jobs : JobSees(j)
  BY DEF Init, JobSees
<1>2. \A e \in Emails : <<"card", e>> \in Jobs
  BY DEF Jobs
<1> QED
  BY <1>1, <1>2 DEF Init, SeenInv

\* What was shown, silenced, put down or deleted stays so.
LEMMA HistoryGrows ==
    ASSUME Base, Next \/ UNCHANGED vars
    PROVE  /\ shown \subseteq shown' /\ excused \subseteq excused' /\ Snoozed \subseteq Snoozed'
           /\ \A e \in Emails : where[e] = "gone" => where'[e] = "gone"
           /\ \A r \in created : r \in created' /\ about'[r] = about[r]
<1> USE DEF Base, mailVars, reminderVars, historyVars
<1>1. shown \subseteq shown' /\ excused \subseteq excused'
  <2>1. ASSUME NEW j \in Jobs, Handle(j) \/ Crash(j) PROVE shown \subseteq shown' /\ excused \subseteq excused'
    BY <2>1 DEF Handle, Crash, TakeJob, Analyze, QueueCard, ReadMessage, ReadContext, Decide,
       SendTemplate, MarkDeferred, ListDeferred, CountDeferred, SendCard, Delivered, RecordDelivery,
       MarkNotified, StampDigest
  <2>2. CASE ~\E j \in Jobs : Handle(j) \/ Crash(j)
    BY <2>2 DEF Next, Sweep, Arrive, Purge, ArchiveSnoozed, DealWith, CancelFor, TouchConversation,
       FlushDeferred, WindowLapses, Unlink, SweepDigests, ComesDue, Snooze, Claim, Unarchive,
       EnqueueReturn, Release, SweepDies, FindDue, vars
  <2> QED
    BY <2>1, <2>2
<1>2. \A r \in created : r \in created' /\ about'[r] = about[r]
  <2>1. ASSUME NEW r \in Reminders, NEW e \in Emails, Snooze(r, e)
        PROVE  \A q \in created : q \in created' /\ about'[q] = about[q]
    BY <2>1 DEF Snooze, TypeOK
  <2>2. ASSUME NEW j \in Jobs, Handle(j) \/ Crash(j) PROVE UNCHANGED <<created, about>>
    BY <2>2 DEF Handle, Crash, TakeJob, Analyze, QueueCard, ReadMessage, ReadContext, Decide,
       SendTemplate, MarkDeferred, ListDeferred, CountDeferred, SendCard, RecordDelivery,
       MarkNotified, StampDigest
  <2>3. ASSUME ~\E j \in Jobs : Handle(j) \/ Crash(j),
               ~\E r \in Reminders, e \in Emails : Snooze(r, e)
        PROVE  UNCHANGED <<created, about>>
    BY <2>3 DEF Next, Sweep, Arrive, Purge, ArchiveSnoozed, DealWith, CancelFor, TouchConversation,
       FlushDeferred, WindowLapses, Unlink, SweepDigests, ComesDue, Claim, Unarchive,
       EnqueueReturn, Release, SweepDies, FindDue, vars
  <2> QED
    BY <2>1, <2>2, <2>3
<1>3. Snoozed \subseteq Snoozed'
  BY <1>2 DEF Snoozed
<1>4. \A e \in Emails : where[e] = "gone" => where'[e] = "gone"
  <2>1. ASSUME NEW e \in Emails, Arrive(e) \/ Purge(e) \/ ArchiveSnoozed(e) \/ DealWith(e)
        PROVE  \A f \in Emails : where[f] = "gone" => where'[f] = "gone"
    BY <2>1 DEF Arrive, Purge, ArchiveSnoozed, DealWith, TypeOK
  <2>2. ASSUME NEW s \in Sweeps, Unarchive(s)
        PROVE  \A f \in Emails : where[f] = "gone" => where'[f] = "gone"
    BY <2>2 DEF Unarchive, TypeOK
  <2>3. ASSUME NEW j \in Jobs, Handle(j) \/ Crash(j) PROVE UNCHANGED where
    BY <2>3 DEF Handle, Crash, TakeJob, Analyze, QueueCard, ReadMessage, ReadContext, Decide,
       SendTemplate, MarkDeferred, ListDeferred, CountDeferred, SendCard, RecordDelivery,
       MarkNotified, StampDigest
  <2>4. ASSUME ~\E j \in Jobs : Handle(j) \/ Crash(j), ~\E s \in Sweeps : Unarchive(s),
               ~\E e \in Emails : Arrive(e) \/ Purge(e) \/ ArchiveSnoozed(e) \/ DealWith(e)
        PROVE  UNCHANGED where
    BY <2>4 DEF Next, Sweep, CancelFor, TouchConversation, FlushDeferred, WindowLapses, Unlink,
       SweepDigests, ComesDue, Snooze, Claim, EnqueueReturn, Release, SweepDies, FindDue, vars
  <2> QED
    BY <2>1, <2>2, <2>3, <2>4
<1> QED
  BY <1>1, <1>2, <1>3, <1>4

\* Only the two marks touch what is owed, and a mark takes off only what is
\* accounted for otherwise.
LEMMA AccountedStays ==
    ASSUME Base, SeenInv, Next \/ UNCHANGED vars, NEW e \in Emails, Accounted(e)
    PROVE  Accounted(e)'
<1>1. ASSUME e \notin held \/ e \in held' PROVE Accounted(e)'
  BY <1>1, HistoryGrows DEF Accounted
<1>2. CASE e \in held /\ e \notin held'
  <2>1. PICK j \in Jobs : MarkNotified(j)
    <3>1. ASSUME NEW j \in Jobs, Handle(j) \/ Crash(j), ~MarkNotified(j) PROVE held \subseteq held'
      BY <3>1 DEF Handle, Crash, TakeJob, Analyze, QueueCard, ReadMessage, ReadContext, Decide,
         SendTemplate, MarkDeferred, ListDeferred, CountDeferred, SendCard, RecordDelivery,
         StampDigest, mailVars
    <3>2. ASSUME ~\E j \in Jobs : Handle(j) \/ Crash(j) PROVE UNCHANGED held
      BY <3>2 DEF Next, Sweep, Arrive, Purge, ArchiveSnoozed, DealWith, CancelFor, TouchConversation,
         FlushDeferred, WindowLapses, Unlink, SweepDigests, ComesDue, Snooze, Claim, Unarchive,
         EnqueueReturn, Release, SweepDies, FindDue, vars, mailVars
    <3> QED
      BY <1>2, <3>1, <3>2
  <2>2. step[j] = "mark" /\ e \in listed[j]
    BY <1>2, <2>1 DEF MarkNotified, Clears
  <2>3. e \in shown \cup Snoozed
    BY <2>2 DEF SeenInv, JobSees
  <2> QED
    BY <2>3, HistoryGrows DEF Accounted
<1> QED
  BY <1>1, <1>2

\* What leaving a handler, or going on in it, does to the jobs.
LEMMA LeftBehind ==
    ASSUME TypeOK, NEW j \in Jobs, NEW state, Leave(j, state)
    PROVE  /\ \A k \in Jobs \ {j} : /\ step'[k] = step[k] /\ snap'[k] = snap[k]
                                    /\ listed'[k] = listed[k] /\ job'[k] = job[k]
           /\ step'[j] = "idle" /\ snap'[j] = 0 /\ listed'[j] = {} /\ job'[j] = state
BY DEF TypeOK, Leave

\* The steps of a handler keep what jobs know: it is enough to look at the job
\* that moves, and at the message of a card that completes.
LEMMA MovedJob ==
    ASSUME Base, SeenInv, NEW j \in Jobs, Handle(j) \/ Crash(j),
           \A k \in Jobs \ {j} : /\ step'[k] = step[k] /\ snap'[k] = snap[k]
                                 /\ listed'[k] = listed[k]
                                 /\ job'[k] # job[k] => job'[k] = "waiting",
           JobSees(j)',
           \A e \in Emails : j = <<"card", e>> /\ job'[j] = "completed" => Accounted(e)'
    PROVE  SeenInv'
<1>1. shown \subseteq shown' /\ Snoozed \subseteq Snoozed'
  BY HistoryGrows DEF Next
<1>2. UNCHANGED <<lastInbound, lapsed>>
  BY DEF Handle, Crash, TakeJob, Analyze, QueueCard, ReadMessage, ReadContext, Decide,
     SendTemplate, MarkDeferred, ListDeferred, CountDeferred, SendCard, RecordDelivery,
     MarkNotified, StampDigest, windowVars
<1>3. ASSUME NEW k \in Jobs, k # j PROVE JobSees(k)'
  <2>1. JobSees(k)
    BY DEF SeenInv
  <2>2. step'[k] = step[k] /\ snap'[k] = snap[k] /\ listed'[k] = listed[k]
    BY <1>3
  <2> QED
    BY <1>1, <1>2, <2>1, <2>2 DEF JobSees, Open
<1>4. ASSUME NEW e \in Emails, job'[<<"card", e>>] = "completed" PROVE Accounted(e)'
  <2>1. <<"card", e>> \in Jobs
    BY DEF Jobs
  <2>2. CASE <<"card", e>> # j
    <3>1. job[<<"card", e>>] = "completed"
      BY <1>4, <2>1, <2>2
    <3>2. Accounted(e)
      BY <3>1 DEF SeenInv
    <3> QED
      BY <3>2, AccountedStays DEF Next
  <2> QED
    BY <1>4, <2>1, <2>2
<1> QED
  BY <1>3, <1>4 DEF SeenInv

LEMMA HandlerSeen ==
    ASSUME Base, SeenInv, NoMidway, NEW j \in Jobs, Handle(j) \/ Crash(j)
    PROVE  SeenInv'
<1> USE DEF Base
<1> DEFINE Others == \A k \in Jobs \ {j} : /\ step'[k] = step[k] /\ snap'[k] = snap[k]
                                           /\ listed'[k] = listed[k]
                                           /\ job'[k] # job[k] => job'[k] = "waiting"
           Card == \A e \in Emails : j = <<"card", e>> /\ job'[j] = "completed" => Accounted(e)'
<1>a. JobSees(j) /\ snap[j] \in 0..MaxInbound /\ lastInbound \in Nat /\ lapsed \in Nat
      /\ step[j] \in StepsOf(KindOf(j))
  BY BoundsAssumption DEF SeenInv, TypeOK, Fits
<1>b. UNCHANGED <<lastInbound, lapsed, created, about>>
  BY DEF Handle, Crash, TakeJob, Analyze, QueueCard, ReadMessage, ReadContext, Decide,
     SendTemplate, MarkDeferred, ListDeferred, CountDeferred, SendCard, RecordDelivery,
     MarkNotified, StampDigest, windowVars, reminderVars
<1>c. ASSUME NEW state, Leave(j, state), state # "completed" \/ Card PROVE SeenInv'
  <2>1. Others /\ step'[j] = "idle" /\ snap'[j] = 0 /\ listed'[j] = {} /\ job'[j] = state
    BY <1>c, LeftBehind
  <2>2. JobSees(j)'
    BY <1>a, <1>b, <2>1 DEF JobSees
  <2> QED
    BY <1>c, <2>1, <2>2, MovedJob
<1>d. ASSUME NEW retryable \in BOOLEAN, Throw(j, retryable) PROVE SeenInv'
  BY <1>c, <1>d DEF Throw
<1>e. ASSUME Complete(j), Card PROVE SeenInv'
  BY <1>c, <1>e DEF Complete
<1>f. ASSUME NEW s, Goto(j, s), step[j] # "idle",
             \A k \in Jobs \ {j} : snap'[k] = snap[k] /\ listed'[k] = listed[k],
             (step'[j] = s => JobSees(j)')
      PROVE  SeenInv'
  <2>1. Others /\ step'[j] = s /\ job'[j] = job[j]
    BY <1>f DEF Goto, jobVars, TypeOK
  <2>2. job[j] = "active"
    BY <1>f DEF TypeOK
  <2> QED
    BY <1>f, <2>1, <2>2, MovedJob
<1>g. ASSUME NEW e \in Emails, j = <<"card", e>> PROVE KindOf(j) = "card" /\ EmailOf(j) = e /\ j[2] = e
  BY <1>g DEF KindOf, EmailOf
<1>3. CASE TakeJob(j)
  <2>1. Others /\ step'[j] = FirstStep(j) /\ snap'[j] = snap[j] /\ listed'[j] = listed[j]
        /\ job'[j] = "active"
    BY <1>3 DEF TakeJob, TypeOK
  <2>2. FirstStep(j) \in {"analyze", "context", "message"}
    BY DEF FirstStep
  <2>3. JobSees(j)'
    BY <1>a, <1>b, <2>1, <2>2 DEF JobSees, Snoozed
  <2> QED
    BY <2>1, <2>3, MovedJob
<1>4. CASE Analyze(j)
  <2>1. \/ Goto(j, "notify") /\ UNCHANGED <<snap, listed>>
        \/ \E retryable \in BOOLEAN : Throw(j, retryable)
    BY <1>4 DEF Analyze
  <2>2. ASSUME Goto(j, "notify"), UNCHANGED <<snap, listed>> PROVE SeenInv'
    BY <1>4, <1>a, <1>b, <1>f, <2>2 DEF Analyze, JobSees, Snoozed
  <2> QED
    BY <1>d, <2>1, <2>2
<1>5. CASE QueueCard(j)
  <2>1. CASE Throw(j, TRUE)
    BY <1>d, <2>1
  <2>2. CASE /\ job' = [job EXCEPT ![j] = "completed",
                                   ![<<"card", j[2]>>] = IF @ = "absent" THEN "waiting" ELSE @]
             /\ step' = [step EXCEPT ![j] = "idle"]
             /\ UNCHANGED <<snap, listed>>
    <3>1. KindOf(j) = "analyze" /\ step[j] = "notify"
      BY <1>5, <1>a DEF QueueCard, StepsOf
    <3>2. Others /\ step'[j] = "idle" /\ snap'[j] = snap[j] /\ listed'[j] = listed[j]
      BY <2>2 DEF TypeOK
    <3>3. JobSees(j)'
      BY <1>a, <1>b, <3>1, <3>2 DEF JobSees
    <3>4. Card
      BY <3>1 DEF KindOf
    <3> QED
      BY <3>2, <3>3, <3>4, MovedJob
  <2> QED
    BY <1>5, <2>1, <2>2 DEF QueueCard
<1>6. CASE ReadMessage(j)
  <2>1. CASE Goto(j, "context") /\ UNCHANGED <<snap, listed>>
    BY <1>6, <1>a, <1>b, <1>f, <2>1 DEF ReadMessage, JobSees, Snoozed
  <2>2. CASE where[EmailOf(j)] = "gone" /\ Complete(j)
    <3>1. Card
      BY <1>6, <1>g, <2>2 DEF ReadMessage, Accounted, mailVars
    <3> QED
      BY <1>e, <2>2, <3>1
  <2> QED
    BY <1>6, <1>d, <2>1, <2>2 DEF ReadMessage, DbFails
<1>7. CASE ReadContext(j)
  <2> DEFINE next == IF KindOf(j) = "digest" THEN "list" ELSE "decide"
  <2>1. CASE /\ snap' = [snap EXCEPT ![j] = lastInbound] /\ UNCHANGED listed
             /\ Goto(j, next)
    <3>1. snap'[j] = lastInbound /\ next \in {"list", "decide"} /\ listed'[j] = listed[j]
      BY <2>1 DEF TypeOK
    <3>2. \A k \in Jobs \ {j} : snap'[k] = snap[k] /\ listed'[k] = listed[k]
      BY <2>1 DEF TypeOK
    <3>3. step'[j] = next => JobSees(j)'
      BY <1>a, <1>b, <3>1 DEF JobSees, Snoozed
    <3>4. step[j] # "idle"
      BY <1>7 DEF ReadContext
    <3> HIDE DEF next
    <3> QED
      BY <1>f, <2>1, <3>2, <3>3, <3>4
  <2>2. CASE /\ excused' = IF KindOf(j) = "digest" THEN excused ELSE excused \cup {EmailOf(j)}
             /\ Complete(j)
    <3>1. Card
      BY <1>g, <2>2 DEF Accounted
    <3> QED
      BY <1>e, <2>2, <3>1
  <2> QED
    BY <1>7, <1>d, <2>1, <2>2 DEF ReadContext, DbFails
<1>8. CASE Decide(j)
  <2>0. step[j] = "decide" /\ KindOf(j) \in {"card", "return"}
    BY <1>8, <1>a, JobShape DEF Decide, StepsOf
  <2>1. PICK next \in {"suppress", "defer", "send", "template", "mark"} :
          /\ IF next = "suppress"
             THEN Complete(j) /\ excused' = excused \cup {EmailOf(j)}
             ELSE /\ Goto(j, next)
                  /\ listed' = [listed EXCEPT ![j] = {EmailOf(j)}]
                  /\ UNCHANGED <<snap, excused>>
          /\ next = "send" => Open(snap[j])
          /\ next = "mark" => KindOf(j) = "return"
    BY <1>8 DEF Decide, Verdicts, AfterVerdict
  <2>2. CASE next = "suppress"
    <3>1. Card
      BY <1>g, <2>1, <2>2 DEF Accounted
    <3> QED
      BY <1>e, <2>1, <2>2, <3>1
  <2>3. CASE next # "suppress"
    <3>1. listed'[j] = {EmailOf(j)} /\ \A k \in Jobs \ {j} : listed'[k] = listed[k]
      BY <2>1, <2>3 DEF TypeOK
    <3>2. snap' = snap
      BY <2>1, <2>3
    <3>3. KindOf(j) = "card" => EmailOf(j) = j[2]
      BY DEF EmailOf
    <3>4. KindOf(j) = "return" => EmailOf(j) \in Snoozed
      <4>1. KindOf(j) = "return" => j[2] \in Reminders /\ j = <<"return", j[2]>>
        BY JobShape DEF KindOf
      <4>2. job[j] # "absent"
        BY <2>0 DEF TypeOK
      <4>3. KindOf(j) = "return" => j[2] \in created
        BY <4>1, <4>2 DEF Known
      <4> QED
        BY <4>3 DEF EmailOf, Snoozed
    <3>5. Snoozed' = Snoozed
      BY <1>b DEF Snoozed
    <3>6. Open(snap[j]) => Open(snap[j])'
      BY <1>b, <3>2 DEF Open
    <3>7. step'[j] = next => JobSees(j)'
      BY <1>a, <1>b, <2>0, <2>1, <2>3, <3>1, <3>2, <3>3, <3>4, <3>5, <3>6 DEF JobSees
    <3> QED
      BY <1>f, <2>0, <2>1, <2>3, <3>1, <3>2, <3>7
  <2> QED
    BY <2>2, <2>3
<1>9. CASE SendTemplate(j)
  <2> DEFINE next == IF KindOf(j) = "digest" THEN "stamp" ELSE "defer"
  <2>1. ASSUME Goto(j, next), UNCHANGED <<snap, listed>> PROVE SeenInv'
    <3>1. step[j] = "template" /\ next \in {"stamp", "defer"}
      BY <1>9 DEF SendTemplate
    <3>2. step'[j] = next => JobSees(j)'
      BY <1>a, <1>b, <2>1, <3>1 DEF JobSees, Snoozed
    <3> HIDE DEF next
    <3> QED
      BY <1>f, <2>1, <3>1, <3>2
  <2> QED
    BY <1>9, <1>d, <2>1 DEF SendTemplate, CallFails, DbFails
<1>10. CASE MarkDeferred(j)
  <2>1. CASE held' = held \cup {EmailOf(j)} /\ Complete(j)
    <3>1. Card
      BY <1>g, <2>1 DEF Accounted
    <3> QED
      BY <1>e, <2>1, <3>1
  <2> QED
    BY <1>10, <1>d, <2>1 DEF MarkDeferred, DbFails
<1>11. CASE ListDeferred(j)
  <2>0. step[j] = "list" /\ KindOf(j) = "digest"
    BY <1>11, <1>a, JobShape DEF ListDeferred, StepsOf
  <2> DEFINE next == IF Open(snap[j]) THEN "count" ELSE "template"
  <2>1. ASSUME NEW some \in SUBSET Waiting, listed' = [listed EXCEPT ![j] = some], Goto(j, next),
               UNCHANGED snap
        PROVE  SeenInv'
    <3>1. next \in {"count", "template"} /\ (next = "count" => Open(snap[j])')
      BY <1>b, <2>1 DEF Open
    <3>2. step'[j] = next => JobSees(j)'
      BY <1>a, <1>b, <2>0, <2>1, <3>1 DEF JobSees
    <3>3. \A k \in Jobs \ {j} : listed'[k] = listed[k]
      BY <2>1 DEF TypeOK
    <3> HIDE DEF next
    <3> QED
      BY <1>f, <2>0, <2>1, <3>2, <3>3
  <2>2. ASSUME Complete(j) PROVE SeenInv'
    <3>1. Card
      BY <2>0 DEF KindOf
    <3> QED
      BY <1>e, <2>2, <3>1
  <2> QED
    BY <1>11, <1>d, <2>1, <2>2 DEF ListDeferred, DbFails
<1>12. CASE CountDeferred(j)
  <2>0. step[j] = "count" /\ KindOf(j) = "digest" /\ Open(snap[j])
    BY <1>12, <1>a, JobShape DEF CountDeferred, StepsOf, JobSees
  <2>1. ASSUME Goto(j, "send"), UNCHANGED <<snap, listed>> PROVE SeenInv'
    <3>1. step'[j] = "send" => JobSees(j)'
      BY <1>a, <1>b, <2>0, <2>1 DEF JobSees, Open
    <3> QED
      BY <1>f, <2>0, <2>1, <3>1
  <2> QED
    BY <1>12, <1>d, <2>0, <2>1 DEF CountDeferred, AfterVerdict, DbFails
<1>13. CASE SendCard(j)
  <2>0. step[j] = "send" /\ Open(lastInbound)
    BY <1>13, <1>a DEF SendCard, JobSees, Open
  <2>1. ASSUME Delivered(j), Goto(j, "record"), UNCHANGED <<snap, listed>> PROVE SeenInv'
    <3>1. shown' = shown \cup listed[j]
      BY <2>0, <2>1 DEF Delivered
    <3>2. step'[j] = "record" => JobSees(j)'
      BY <1>a, <1>b, <2>0, <2>1, <3>1 DEF JobSees, Snoozed
    <3> QED
      BY <1>f, <2>0, <2>1, <3>2
  <2> QED
    BY <1>13, <1>d, <2>1 DEF SendCard
<1>14. CASE RecordDelivery(j)
  <2>1. ASSUME Goto(j, "mark"), UNCHANGED <<snap, listed>> PROVE SeenInv'
    <3>0. step[j] = "record" /\ shown' = shown
      BY <1>14 DEF RecordDelivery, historyVars
    <3>1. step'[j] = "mark" => JobSees(j)'
      BY <1>a, <1>b, <2>1, <3>0 DEF JobSees, Snoozed
    <3> QED
      BY <1>f, <2>1, <3>0, <3>1
  <2> QED
    BY <1>14, <1>d, <2>1 DEF RecordDelivery, DbFails
<1>15. CASE MarkNotified(j)
  <2>0. step[j] = "mark" /\ shown' = shown
    BY <1>15 DEF MarkNotified, historyVars
  <2>1. ASSUME Goto(j, "stamp"), UNCHANGED <<snap, listed>> PROVE SeenInv'
    <3>1. step'[j] = "stamp" => JobSees(j)'
      BY <1>a, <1>b, <2>0, <2>1 DEF JobSees, Snoozed
    <3> QED
      BY <1>f, <2>0, <2>1, <3>1
  <2>2. ASSUME Complete(j) PROVE SeenInv'
    <3>1. ASSUME NEW e \in Emails, j = <<"card", e>> PROVE e \in shown
      BY <1>a, <1>g, <2>0, <3>1 DEF JobSees
    <3>2. Card
      BY <2>0, <3>1 DEF Accounted
    <3> QED
      BY <1>e, <2>2, <3>2
  <2> QED
    BY <1>15, <1>d, <2>1, <2>2 DEF MarkNotified, DbFails
<1>16. CASE StampDigest(j)
  <2>1. KindOf(j) = "digest"
    BY <1>16, <1>a, JobShape DEF StampDigest, StepsOf
  <2>2. Card
    BY <2>1 DEF KindOf
  <2> QED
    BY <1>16, <1>d, <1>e, <2>2 DEF StampDigest, DbFails
<1>17. CASE Crash(j)
  <2>1. PICK state \in {"waiting", "dead"} : Leave(j, state)
    BY <1>17 DEF Crash
  <2> QED
    BY <1>c, <2>1
<1> QED
  BY <1>3, <1>4, <1>5, <1>6, <1>7, <1>8, <1>9, <1>10, <1>11, <1>12, <1>13, <1>14, <1>15, <1>16,
     <1>17 DEF Handle

\* Everyone else leaves the jobs' knowledge alone; only the window's closing
\* could take it away, and it does not come between a look and a send.
LEMMA OutsideSeen ==
    ASSUME Base, SeenInv, NoMidway, Next, ~\E j \in Jobs : Handle(j) \/ Crash(j)
    PROVE  SeenInv'
<1> USE DEF Base
<1>1. UNCHANGED handlerVars /\ shown' = shown
  BY DEF Next, Sweep, Arrive, Purge, ArchiveSnoozed, DealWith, CancelFor, TouchConversation,
     FlushDeferred, WindowLapses, Unlink, SweepDigests, ComesDue, Snooze, Claim, Unarchive,
     EnqueueReturn, Release, SweepDies, FindDue, historyVars
<1>2. /\ lastInbound \in Nat /\ lastInbound' \in Nat /\ lastInbound <= lastInbound'
      /\ lapsed \in Nat /\ \A j \in Jobs : snap[j] \in Nat
  <2>1. lastInbound' = lastInbound \/ lastInbound' = lastInbound + 1
    BY DEF Next, Sweep, Arrive, Purge, ArchiveSnoozed, DealWith, CancelFor, TouchConversation,
       FlushDeferred, WindowLapses, Unlink, SweepDigests, ComesDue, Snooze, Claim, Unarchive,
       EnqueueReturn, Release, SweepDies, FindDue, windowVars
  <2> QED
    BY <2>1, BoundsAssumption DEF TypeOK
<1>3. ASSUME NEW j \in Jobs, step[j] \in {"count", "send"} PROVE lapsed' = lapsed
  <2>1. ~WindowLapses
    BY <1>3 DEF WindowLapses, Midway, Disturb, NoMidway
  <2> QED
    BY <2>1 DEF Next, Sweep, Arrive, Purge, ArchiveSnoozed, DealWith, CancelFor, TouchConversation,
       FlushDeferred, Unlink, SweepDigests, ComesDue, Snooze, Claim, Unarchive, EnqueueReturn,
       Release, SweepDies, FindDue, windowVars
<1>4. Snoozed \subseteq Snoozed'
  BY HistoryGrows
<1>5. ASSUME NEW j \in Jobs PROVE JobSees(j)'
  <2>1. JobSees(j)
    BY DEF SeenInv
  <2>2. snap[j] <= lastInbound' /\ (step[j] \in {"count", "send"} => Open(snap[j])')
    BY <1>1, <1>2, <1>3, <2>1 DEF JobSees, Open, handlerVars
  <2> QED
    BY <1>1, <1>4, <2>1, <2>2 DEF JobSees, handlerVars
<1>6. ASSUME NEW e \in Emails, job'[<<"card", e>>] = "completed" PROVE Accounted(e)'
  <2>1. <<"card", e>> \in Jobs
    BY DEF Jobs
  <2>2. job' = job \/ \E j \in Jobs : Enqueue(j)
    <3>1. ASSUME NEW s \in Sweeps, EnqueueReturn(s) PROVE job' = job \/ \E j \in Jobs : Enqueue(j)
      <4>1. <<"return", sweepOn[s]>> \in Jobs
        BY <3>1 DEF EnqueueReturn, Known, TypeOK, Jobs
      <4> QED
        BY <3>1, <4>1 DEF EnqueueReturn
    <3>2. \A f \in Emails : <<"analyze", f>> \in Jobs
      BY DEF Jobs
    <3>3. \A i \in Digests : <<"digest", i>> \in Jobs
      BY DEF Jobs
    <3> QED
      BY <3>1, <3>2, <3>3 DEF Next, Sweep, Arrive, Purge, ArchiveSnoozed, DealWith, CancelFor,
         TouchConversation, FlushDeferred, WindowLapses, Unlink, SweepDigests, ComesDue, Snooze, Claim,
         Unarchive, Release, SweepDies, FindDue, jobVars
  <2>3. job[<<"card", e>>] = "completed"
    BY <1>6, <2>1, <2>2 DEF Enqueue, TypeOK
  <2>4. Accounted(e)
    BY <2>3 DEF SeenInv
  <2> QED
    BY <2>4, AccountedStays
<1> QED
  BY <1>5, <1>6 DEF SeenInv

LEMMA SeenNext ==
    ASSUME Base, SeenInv, NoMidway, [Next]_vars
    PROVE  SeenInv'
<1>1. CASE UNCHANGED vars
  BY <1>1 DEF vars, SeenInv, JobSees, Accounted, Open, Snoozed, mailVars, windowVars, jobVars,
     handlerVars, reminderVars, historyVars
<1>2. CASE Next
  BY <1>2, HandlerSeen, OutsideSeen
<1> QED
  BY <1>1, <1>2

\* However cards, templates, digests and failures interleave, a message whose
\* card job is done was delivered, is owed, was silenced or is gone.
THEOREM NobodyForgotten == NoMidway => (Spec => []NothingForgotten)
<1> SUFFICES ASSUME NoMidway PROVE Spec => []NothingForgotten
  OBVIOUS
<1>1. Init => Base /\ SeenInv
  BY BaseInit, SeenInit
<1>2. Base /\ SeenInv /\ [Next]_vars => (Base /\ SeenInv)'
  BY BaseNext, SeenNext
<1>3. Base /\ SeenInv => NothingForgotten
  BY DEF SeenInv, Accounted, NothingForgotten
<1> QED
  BY <1>1, <1>2, <1>3, PTL DEF Spec
-----------------------------------------------------------------------------
(***************************************************************************)
(* The analysis job lets every message through.                            *)
(***************************************************************************)

\* An analysis job that is over has queued the card of its message, unless Redis
\* refused that on its last attempt, or its worker died.
AnalysisLetsThrough ==
    \A e \in Emails : job[<<"analyze", e>>] \in {"completed", "dead"} =>
       job[<<"card", e>>] # "absent" \/ e \in excused \/ <<"analyze", e>> \in crashed

\* A handler moves its own job, to some place in the queue, and may queue a card.
LEMMA HandlerMoves ==
    ASSUME TypeOK, NEW j \in Jobs, Handle(j) \/ Crash(j)
    PROVE  /\ \A k \in Jobs \ {j} : job'[k] = job[k] \/ (job[k] = "absent" /\ job'[k] = "waiting")
           /\ job[j] # "absent" => job'[j] # "absent"
           /\ crashed \subseteq crashed'
<1> DEFINE Moves == /\ \A k \in Jobs \ {j} : job'[k] = job[k] \/ (job[k] = "absent" /\ job'[k] = "waiting")
                    /\ job[j] # "absent" => job'[j] # "absent"
                    /\ crashed \subseteq crashed'
<1>1. ASSUME NEW state, Leave(j, state), state # "absent", crashed \subseteq crashed' PROVE Moves
  BY <1>1, LeftBehind
<1>2. ASSUME NEW retryable \in BOOLEAN, Throw(j, retryable) PROVE Moves
  BY <1>1, <1>2 DEF Throw
<1>3. ASSUME Complete(j) PROVE Moves
  BY <1>1, <1>3 DEF Complete
<1>4. ASSUME job' = job, crashed' = crashed PROVE Moves
  BY <1>4
<1>5. CASE TakeJob(j)
  BY <1>5 DEF TakeJob, TypeOK
<1>6. CASE QueueCard(j)
  <2>1. CASE \E retryable \in BOOLEAN : Throw(j, retryable)
    BY <1>2, <2>1
  <2>2. CASE ~\E retryable \in BOOLEAN : Throw(j, retryable)
    <3>1. /\ job' = [job EXCEPT ![j] = "completed",
                                ![<<"card", j[2]>>] = IF @ = "absent" THEN "waiting" ELSE @]
          /\ UNCHANGED crashed
      BY <1>6, <2>2 DEF QueueCard
    <3> QED
      BY <3>1 DEF TypeOK
  <2> QED
    BY <2>1, <2>2
<1>7. CASE Crash(j)
  BY <1>1, <1>7 DEF Crash
<1>8. CASE \/ Analyze(j) \/ ReadMessage(j) \/ ReadContext(j) \/ Decide(j) \/ SendTemplate(j)
           \/ MarkDeferred(j) \/ ListDeferred(j) \/ CountDeferred(j) \/ SendCard(j)
           \/ RecordDelivery(j) \/ MarkNotified(j) \/ StampDigest(j)
  <2>1. \/ job' = job /\ crashed' = crashed
        \/ Complete(j)
        \/ \E retryable \in BOOLEAN : Throw(j, retryable)
    BY <1>8 DEF Analyze, ReadMessage, ReadContext, Decide, SendTemplate, MarkDeferred, ListDeferred,
       CountDeferred, SendCard, RecordDelivery, MarkNotified, StampDigest, DbFails, CallFails, Goto,
       jobVars
  <2> QED
    BY <1>2, <1>3, <1>4, <2>1
<1> QED
  BY <1>5, <1>6, <1>7, <1>8 DEF Handle

\* So does everyone else: jobs are queued, and nothing else happens to them.
LEMMA OutsideMoves ==
    ASSUME Base, Next, ~\E j \in Jobs : Handle(j) \/ Crash(j)
    PROVE  /\ \A k \in Jobs : job'[k] = job[k] \/ (job[k] = "absent" /\ job'[k] = "waiting")
           /\ crashed' = crashed
<1> USE DEF Base
<1>1. crashed' = crashed
  BY DEF Next, Sweep, Arrive, Purge, ArchiveSnoozed, DealWith, CancelFor, TouchConversation,
     FlushDeferred, WindowLapses, Unlink, SweepDigests, ComesDue, Snooze, Claim, Unarchive,
     EnqueueReturn, Release, SweepDies, FindDue, jobVars
<1>2. job' = job \/ \E j \in Jobs : Enqueue(j)
  <2>1. ASSUME NEW s \in Sweeps, EnqueueReturn(s) PROVE job' = job \/ \E j \in Jobs : Enqueue(j)
    <3>1. <<"return", sweepOn[s]>> \in Jobs
      BY <2>1 DEF EnqueueReturn, Known, TypeOK, Jobs
    <3> QED
      BY <2>1, <3>1 DEF EnqueueReturn
  <2>2. \A f \in Emails : <<"analyze", f>> \in Jobs
    BY DEF Jobs
  <2>3. \A i \in Digests : <<"digest", i>> \in Jobs
    BY DEF Jobs
  <2> QED
    BY <2>1, <2>2, <2>3 DEF Next, Sweep, Arrive, Purge, ArchiveSnoozed, DealWith, CancelFor,
       TouchConversation, FlushDeferred, WindowLapses, Unlink, SweepDigests, ComesDue, Snooze, Claim,
       Unarchive, Release, SweepDies, FindDue, jobVars
<1> QED
  BY <1>1, <1>2 DEF Enqueue, TypeOK

\* An analysis job ends by queuing the card, or as the exceptions say: a failed
\* analysis goes on to the card on the last attempt and is tried again before it.
LEMMA AnalysisEnds ==
    ASSUME Base, NEW e \in Emails, Handle(<<"analyze", e>>) \/ Crash(<<"analyze", e>>),
           job'[<<"analyze", e>>] \in {"completed", "dead"}
    PROVE  job'[<<"card", e>>] # "absent" \/ e \in excused' \/ <<"analyze", e>> \in crashed'
<1> USE DEF Base
<1> DEFINE j == <<"analyze", e>>
<1>1. j \in Jobs /\ <<"card", e>> \in Jobs /\ KindOf(j) = "analyze" /\ j[2] = e
  BY DEF Jobs, KindOf
<1>2. step[j] \in {"idle", "analyze", "notify"}
  BY <1>1 DEF Fits, StepsOf
<1>3. ASSUME NEW retryable \in BOOLEAN, Throw(j, retryable), retryable, ~LastAttempt(j) PROVE FALSE
  BY <1>1, <1>3 DEF Throw, Leave, TypeOK
<1>4. CASE TakeJob(j)
  BY <1>1, <1>4 DEF TakeJob, TypeOK
<1>5. CASE Analyze(j)
  <2>1. job[j] = "active"
    BY <1>1, <1>5 DEF Analyze, TypeOK
  <2>2. job' # job
    BY <2>1
  <2>3. PICK retryable \in BOOLEAN : ~GivesUp(j, retryable) /\ Throw(j, retryable)
    BY <1>5, <2>2 DEF Analyze, Goto, jobVars
  <2> QED
    BY <1>3, <2>3 DEF GivesUp
<1>6. CASE QueueCard(j)
  <2>1. CASE Throw(j, TRUE)
    BY <1>1, <1>3, <1>6, <2>1 DEF QueueCard, Throw, Leave, TypeOK
  <2>2. CASE ~Throw(j, TRUE)
    <3>1. job' = [job EXCEPT ![j] = "completed",
                             ![<<"card", e>>] = IF @ = "absent" THEN "waiting" ELSE @]
      BY <1>1, <1>6, <2>2 DEF QueueCard
    <3> QED
      BY <1>1, <3>1 DEF TypeOK
  <2> QED
    BY <2>1, <2>2
<1>7. CASE Crash(j)
  BY <1>7 DEF Crash
<1> QED
  BY <1>2, <1>4, <1>5, <1>6, <1>7 DEF Handle, ReadMessage, ReadContext, Decide, SendTemplate,
     MarkDeferred, ListDeferred, CountDeferred, SendCard, RecordDelivery, MarkNotified, StampDigest

LEMMA LetThroughNext ==
    ASSUME Base, AnalysisLetsThrough, [Next]_vars
    PROVE  AnalysisLetsThrough'
<1>1. CASE UNCHANGED vars
  BY <1>1 DEF vars, jobVars, historyVars, AnalysisLetsThrough
<1>2. CASE Next
  <2> SUFFICES ASSUME NEW e \in Emails, job'[<<"analyze", e>>] \in {"completed", "dead"}
               PROVE  job'[<<"card", e>>] # "absent" \/ e \in excused' \/ <<"analyze", e>> \in crashed'
    BY DEF AnalysisLetsThrough
  <2>1. <<"analyze", e>> \in Jobs /\ <<"card", e>> \in Jobs /\ <<"analyze", e>> # <<"card", e>>
    BY DEF Jobs
  <2>2. /\ job[<<"card", e>>] # "absent" => job'[<<"card", e>>] # "absent"
        /\ crashed \subseteq crashed' /\ excused \subseteq excused'
    BY <1>2, <2>1, HandlerMoves, OutsideMoves, HistoryGrows DEF Base
  <2>3. CASE Handle(<<"analyze", e>>) \/ Crash(<<"analyze", e>>)
    BY <2>3, AnalysisEnds
  <2>4. CASE ~(Handle(<<"analyze", e>>) \/ Crash(<<"analyze", e>>))
    <3>1. job[<<"analyze", e>>] = job'[<<"analyze", e>>]
      BY <1>2, <2>1, <2>4, HandlerMoves, OutsideMoves DEF Base
    <3> QED
      BY <2>2, <3>1 DEF AnalysisLetsThrough
  <2> QED
    BY <2>3, <2>4
<1> QED
  BY <1>1, <1>2

\* Whatever fails, however often, an analysis does not keep its message back
\* (AiProcessor.handle).
THEOREM AnalysisNeverSilences == Spec => []AnalysisLetsThrough
<1>1. Init => Base /\ AnalysisLetsThrough
  <2>1. \A e \in Emails : <<"analyze", e>> \in Jobs
    BY DEF Jobs
  <2> QED
    BY <2>1, BaseInit DEF Init, AnalysisLetsThrough
<1>2. Base /\ AnalysisLetsThrough /\ [Next]_vars => (Base /\ AnalysisLetsThrough)'
  BY BaseNext, LetThroughNext
<1> QED
  BY <1>1, <1>2, PTL DEF Spec
=============================================================================
