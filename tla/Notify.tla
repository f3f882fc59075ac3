------------------------------- MODULE Notify -------------------------------
(***************************************************************************)
(* Telling one user about their mail: the analysis job that queues a card, *)
(* the card, the template that stands in for it outside WhatsApp's 24-hour *)
(* window, the digest of what is owed, and the messages put down until     *)
(* later.                                                                  *)
(*                                                                         *)
(* The window is counted, not timed: lastInbound numbers the user's last   *)
(* message and lapsed the last one whose 24 hours are over.  One action is *)
(* one awaited step; jobs run side by side.  What goes wrong is drawn from *)
(* Disturbances, at most MaxDisturbed times in a behaviour.                *)
(***************************************************************************)
EXTENDS Integers, FiniteSets

CONSTANTS
    Emails,        \* rows of email_messages
    Reminders,     \* rows of reminders
    Digests,       \* intervals a digest is asked for in (job ids digest~...)
    Sweeps,        \* runs of the reminder sweep that may overlap
    NoReminder, NoEmail,
    DigestLimit,   \* how many messages a digest shows (20 in the code)
    Commands,      \* what the user does with a message: reply, archive, delete
    MaxInbound,    \* bound on the user's messages
    MaxAttempts,   \* QUEUE_DEFAULTS.notify.attempts (5 in the code)
    MaxAnalyses,   \* QUEUE_DEFAULTS.ai.attempts (3 in the code)
    Disturbances, MaxDisturbed

DisturbanceKinds == {
    "model",      \* the model, the budget or the mailbox data fail the analysis
    "whatsapp",   \* WhatsApp is unavailable
    "reject",     \* WhatsApp refuses the message for good
    "db",         \* a transaction fails
    "enqueue",    \* Redis refuses a job
    "crash",      \* a worker dies in the middle of a job
    "sweepCrash", \* the sync worker dies in the middle of a sweep
    "mailbox",    \* the mail provider refuses to move the message
    "midway",     \* the window closes between a job's look at it and its send
    "unlink",     \* the user's number is unlinked
    "purge" }     \* the row is deleted

ASSUME CommandsAssumption == Commands \subseteq {"reply", "archive", "delete"}
ASSUME NamesAssumption == NoReminder \notin Reminders /\ NoEmail \notin Emails
ASSUME BoundsAssumption ==
    /\ DigestLimit \in Nat \ {0} /\ MaxInbound \in Nat
    /\ MaxAttempts \in Nat \ {0} /\ MaxAnalyses \in Nat \ {0}
ASSUME DisturbancesAssumption == Disturbances \subseteq DisturbanceKinds /\ MaxDisturbed \in Nat

Jobs == ({"analyze", "card"} \X Emails) \cup ({"return"} \X Reminders) \cup ({"digest"} \X Digests)

VARIABLES
    where,       \* the row's place: none, inbox, archived, deleted, gone
    held,        \* messages with notifyDeferredAt: owed to the user
    linked,      \* the user has a verified number
    lastInbound, \* conversation_states.lastInboundAt
    lapsed,      \* the last of the user's messages whose window is over
    flushing,    \* a message of the user was recorded, its digest is not asked for yet
    job, attempts, crashed,
    step, snap, listed,  \* a job's handler: where it is, lastInboundAt and messages it read
    created, about, due, sent, cancelled,  \* reminders, their columns and whether time is up
    snoozing, dealing,   \* a command moved on from the reminder row, or has yet to cancel it
    sweepStep, sweepOn,  \* a run of the reminder sweep and the reminder it handles
    shown,       \* history: the messages whose content WhatsApp delivered
    returned,    \* history: the reminders whose message it delivered
    abandoned,   \* history: reminders whose claim was neither used nor released
    excused,     \* history: messages silenced by the user's settings, by a missing number, or
                 \* by Redis, which refused the card on the analysis job's last attempt
    disturbed

mailVars     == <<where, held>>
windowVars   == <<linked, lastInbound, lapsed, flushing>>
jobVars      == <<job, attempts, crashed>>
handlerVars  == <<step, snap, listed>>
reminderVars == <<created, about, due, sent, cancelled>>
commandVars  == <<snoozing, dealing>>
sweepVars    == <<sweepStep, sweepOn>>
historyVars  == <<shown, returned, abandoned, excused>>
vars == <<mailVars, windowVars, jobVars, handlerVars, reminderVars, commandVars, sweepVars,
          historyVars, disturbed>>

Places     == {"none", "inbox", "archived", "deleted", "gone"}
JobStates  == {"absent", "waiting", "active", "completed", "dead"}
Steps      == {"idle", "analyze", "notify", "message", "context", "decide", "defer", "template",
               "list", "count", "send", "record", "mark", "stamp"}
SweepSteps == {"idle", "claim", "unarchive", "enqueue", "release"}

TypeOK ==
    /\ where \in [Emails -> Places] /\ held \subseteq Emails
    /\ linked \in BOOLEAN /\ flushing \in BOOLEAN
    /\ lastInbound \in 0..MaxInbound /\ lapsed \in 0..lastInbound
    /\ job \in [Jobs -> JobStates] /\ attempts \in [Jobs -> Nat] /\ crashed \subseteq Jobs
    /\ step \in [Jobs -> Steps]
    /\ \A j \in Jobs : step[j] = "idle" <=> job[j] # "active"
    /\ snap \in [Jobs -> 0..MaxInbound]
    /\ listed \in [Jobs -> SUBSET Emails]
    /\ created \subseteq Reminders /\ due \subseteq created
    /\ sent \subseteq created /\ cancelled \subseteq created
    /\ about \in [Reminders -> Emails \cup {NoEmail}]
    /\ snoozing \subseteq Emails /\ dealing \subseteq Emails
    /\ sweepStep \in [Sweeps -> SweepSteps]
    /\ sweepOn \in [Sweeps -> Reminders \cup {NoReminder}]
    /\ shown \subseteq Emails /\ returned \subseteq Reminders /\ abandoned \subseteq Reminders /\ excused \subseteq Emails
    /\ disturbed \in 0..MaxDisturbed

Init ==
    /\ where = [e \in Emails |-> "none"] /\ held = {}
    /\ linked = TRUE /\ flushing = FALSE /\ lastInbound = 0 /\ lapsed = 0
    /\ job = [j \in Jobs |-> "absent"] /\ attempts = [j \in Jobs |-> 0] /\ crashed = {}
    /\ step = [j \in Jobs |-> "idle"]
    /\ snap = [j \in Jobs |-> 0]
    /\ listed = [j \in Jobs |-> {}]
    /\ created = {} /\ due = {} /\ sent = {} /\ cancelled = {}
    /\ about = [r \in Reminders |-> NoEmail]
    /\ snoozing = {} /\ dealing = {}
    /\ sweepStep = [s \in Sweeps |-> "idle"]
    /\ sweepOn = [s \in Sweeps |-> NoReminder]
    /\ shown = {} /\ returned = {} /\ abandoned = {} /\ excused = {}
    /\ disturbed = 0

Disturb(kind) ==
    /\ kind \in Disturbances
    /\ disturbed < MaxDisturbed
    /\ disturbed' = disturbed + 1

Undisturbed == UNCHANGED disturbed

\* What a job or a reminder is about.
KindOf(j) == j[1]
EmailOf(j) == IF KindOf(j) = "return" THEN about[j[2]] ELSE j[2]

\* evaluateWindow: whether a message the user sent still holds the window open.
Open(inbound) == inbound > lapsed

\* What a digest may offer: owed, and not dealt with elsewhere.
Waiting == {e \in held : where[e] = "inbox"}

\* BullMQ ignores a job whose id it still knows.
Enqueue(j) ==
    IF job[j] = "absent" THEN job' = [job EXCEPT ![j] = "waiting"] ELSE UNCHANGED job

-----------------------------------------------------------------------------
(***************************************************************************)
(* The user, the mailbox and time.                                         *)
(***************************************************************************)

\* Ingest stored a message and queued its analysis.
Arrive(e) ==
    /\ where[e] = "none"
    /\ where' = [where EXCEPT ![e] = "inbox"]
    /\ Enqueue(<<"analyze", e>>)
    /\ UNCHANGED <<held, windowVars, attempts, crashed, handlerVars, reminderVars, commandVars,
                   sweepVars, historyVars, disturbed>>

\* The user writes: the window reopens, and what is owed will be asked for.
TouchConversation ==
    /\ linked /\ ~flushing /\ lastInbound < MaxInbound
    /\ lastInbound' = lastInbound + 1
    /\ flushing' = TRUE
    /\ UNCHANGED <<mailVars, linked, lapsed, jobVars, handlerVars, reminderVars, commandVars,
                   sweepVars, historyVars, disturbed>>

\* One digest an hour at most; a refusal is swallowed.
FlushDeferred ==
    /\ flushing
    /\ flushing' = FALSE
    /\ \/ \E i \in Digests : Enqueue(<<"digest", i>>) /\ Undisturbed
       \/ Disturb("enqueue") /\ UNCHANGED job
    /\ UNCHANGED <<mailVars, linked, lastInbound, lapsed, attempts, crashed, handlerVars,
                   reminderVars, commandVars, sweepVars, historyVars>>

\* A job that has looked at the window and not sent yet.
Midway == \E j \in Jobs : step[j] \in {"count", "send"}

\* Twenty-four hours without a message.
WindowLapses ==
    /\ lapsed < lastInbound
    /\ lapsed' = lastInbound
    /\ IF Midway THEN Disturb("midway") ELSE Undisturbed
    /\ UNCHANGED <<mailVars, linked, lastInbound, flushing, jobVars, handlerVars, reminderVars,
                   commandVars, sweepVars, historyVars>>

Unlink ==
    /\ linked /\ Disturb("unlink")
    /\ linked' = FALSE
    /\ UNCHANGED <<mailVars, lastInbound, lapsed, flushing, jobVars, handlerVars, reminderVars,
                   commandVars, sweepVars, historyVars>>

Purge(e) ==
    /\ where[e] # "none" /\ Disturb("purge")
    /\ where' = [where EXCEPT ![e] = "gone"]
    /\ UNCHANGED <<held, windowVars, jobVars, handlerVars, reminderVars, commandVars, sweepVars,
                   historyVars>>

\* sweepDigests: someone is owed something at one of their times.
SweepDigests ==
    /\ Waiting # {}
    /\ \E i \in Digests : job[<<"digest", i>>] = "absent" /\ Enqueue(<<"digest", i>>)
    /\ UNCHANGED <<mailVars, windowVars, attempts, crashed, handlerVars, reminderVars, commandVars,
                   sweepVars, historyVars, disturbed>>

-----------------------------------------------------------------------------
(***************************************************************************)
(* A job and its handler.                                                  *)
(***************************************************************************)

FirstStep(j) ==
    CASE KindOf(j) = "analyze" -> "analyze"
      [] KindOf(j) = "digest"  -> "context"
      [] OTHER                 -> "message"

TakeJob(j) ==
    /\ job[j] = "waiting"
    /\ job' = [job EXCEPT ![j] = "active"]
    /\ step' = [step EXCEPT ![j] = FirstStep(j)]
    /\ UNCHANGED <<mailVars, windowVars, attempts, crashed, snap, listed, reminderVars, commandVars,
                   sweepVars, historyVars, disturbed>>

\* The handler is over and its local state with it.
Leave(j, state) ==
    /\ job' = [job EXCEPT ![j] = state]
    /\ step' = [step EXCEPT ![j] = "idle"]
    /\ snap' = [snap EXCEPT ![j] = 0]
    /\ listed' = [listed EXCEPT ![j] = {}]

Complete(j) == Leave(j, "completed") /\ UNCHANGED <<attempts, crashed>>

\* This attempt at the job is its last.
LastAttempt(j) == attempts[j] + 1 >= IF KindOf(j) = "analyze" THEN MaxAnalyses ELSE MaxAttempts

\* A retryable error is retried while attempts remain, any other discarded.
Throw(j, retryable) ==
    /\ attempts' = [attempts EXCEPT ![j] = @ + 1]
    /\ Leave(j, IF retryable /\ ~LastAttempt(j) THEN "waiting" ELSE "dead")
    /\ UNCHANGED crashed

Goto(j, s) == step' = [step EXCEPT ![j] = s] /\ UNCHANGED jobVars

\* The worker dies; BullMQ re-runs the job once.
Crash(j) ==
    /\ job[j] = "active" /\ Disturb("crash")
    /\ Leave(j, IF j \in crashed THEN "dead" ELSE "waiting")
    /\ crashed' = crashed \cup {j}
    /\ UNCHANGED <<mailVars, windowVars, attempts, reminderVars, commandVars, sweepVars, historyVars>>

\* A transaction of the handler rolls back.
DbFails(j) == Disturb("db") /\ Throw(j, TRUE)

\* Wrong: the attempts before this one are counted, and not this one.
GivesUpLate(j, retryable) ==
    ~retryable \/ attempts[j] >= IF KindOf(j) = "analyze" THEN MaxAnalyses ELSE MaxAttempts

\* The analysis is given up for good, and the message delivered without.
GivesUp(j, retryable) == ~retryable \/ LastAttempt(j)

\* AiProcessor.analyze, and the failures handle() lets through.
Analyze(j) ==
    /\ step[j] = "analyze"
    /\ \/ Goto(j, "notify") /\ UNCHANGED <<snap, listed>> /\ Undisturbed
       \/ \E retryable \in BOOLEAN :
            /\ Disturb("model")
            /\ IF GivesUp(j, retryable) THEN Goto(j, "notify") /\ UNCHANGED <<snap, listed>>
               ELSE Throw(j, retryable)
    /\ UNCHANGED <<mailVars, windowVars, reminderVars, commandVars, sweepVars, historyVars>>

\* AiProcessor.notify: the card is queued whatever came of the analysis.  If Redis refuses it the
\* job fails, and dies when that was its last attempt.
QueueCard(j) ==
    /\ step[j] = "notify"
    /\ LET card == <<"card", j[2]>> IN
       \/ /\ job' = [job EXCEPT ![j] = "completed",
                                ![card] = IF @ = "absent" THEN "waiting" ELSE @]
          /\ step' = [step EXCEPT ![j] = "idle"]
          /\ UNCHANGED <<snap, listed, attempts, crashed, excused>>
          /\ Undisturbed
       \/ /\ Disturb("enqueue")
          /\ Throw(j, TRUE)
          /\ excused' = IF LastAttempt(j) THEN excused \cup {j[2]} ELSE excused
    /\ UNCHANGED <<mailVars, windowVars, reminderVars, commandVars, sweepVars, shown, returned, abandoned>>

-----------------------------------------------------------------------------
(***************************************************************************)
(* NotifyProcessor: notifyOne and sendDigest.                              *)
(***************************************************************************)

ReadMessage(j) ==
    /\ step[j] = "message"
    /\ \/ where[EmailOf(j)] # "gone" /\ Goto(j, "context") /\ UNCHANGED <<snap, listed>> /\ Undisturbed
       \/ where[EmailOf(j)] = "gone" /\ Complete(j) /\ Undisturbed
       \/ DbFails(j)
    /\ UNCHANGED <<mailVars, windowVars, reminderVars, commandVars, sweepVars, historyVars>>

\* findDeliveryContext: without a verified number there is nowhere to deliver.
ReadContext(j) ==
    /\ step[j] = "context"
    /\ \/ /\ linked
          /\ snap' = [snap EXCEPT ![j] = lastInbound]
          /\ Goto(j, IF KindOf(j) = "digest" THEN "list" ELSE "decide")
          /\ UNCHANGED <<listed, excused>>
          /\ Undisturbed
       \/ /\ ~linked
          /\ excused' = IF KindOf(j) = "digest" THEN excused ELSE excused \cup {EmailOf(j)}
          /\ Complete(j)
          /\ Undisturbed
       \/ DbFails(j) /\ UNCHANGED excused
    /\ UNCHANGED <<mailVars, windowVars, reminderVars, commandVars, sweepVars, shown, returned, abandoned>>

\* decideDelivery, for whatever the user's settings and the message are.
Verdicts(open) ==
    {"suppress", "defer"} \cup IF open THEN {"send"} ELSE {"template"}

\* Where a verdict leads.  A card meets reply()'s own look at the window, which
\* drops it without a word when it is closed.
AfterVerdict(verdict, open) ==
    IF verdict = "send" THEN IF open THEN "send" ELSE "mark" ELSE verdict

\* A reminder's card is forced past the decision.
Decide(j) ==
    /\ step[j] = "decide"
    /\ \E verdict \in IF KindOf(j) = "return" THEN {"send"} ELSE Verdicts(Open(snap[j])) :
        LET next == AfterVerdict(verdict, Open(snap[j])) IN
        IF next = "suppress"
        THEN Complete(j) /\ excused' = excused \cup {EmailOf(j)}
        ELSE /\ Goto(j, next)
             /\ listed' = [listed EXCEPT ![j] = {EmailOf(j)}]
             /\ UNCHANGED <<snap, excused>>
    /\ UNCHANGED <<mailVars, windowVars, reminderVars, commandVars, sweepVars, shown, returned, abandoned,
                   disturbed>>

\* WhatsApp is down, or refuses the message for good; or a digest's count
\* before it, or the record of what was sent, fails.
CallFails(j) ==
    \/ Disturb("whatsapp") /\ Throw(j, TRUE)
    \/ Disturb("reject") /\ Throw(j, FALSE)
    \/ DbFails(j)

\* The one shape that gets through a closed window: a nudge for a message, a
\* count for a digest.  Either way the messages stay owed.
SendTemplate(j) ==
    /\ step[j] = "template"
    /\ \/ /\ Goto(j, IF KindOf(j) = "digest" THEN "stamp" ELSE "defer")
          /\ UNCHANGED <<snap, listed>>
          /\ Undisturbed
       \/ CallFails(j)
    /\ UNCHANGED <<mailVars, windowVars, reminderVars, commandVars, sweepVars, historyVars>>

\* markDeferred.
MarkDeferred(j) ==
    /\ step[j] = "defer"
    /\ \/ held' = held \cup {EmailOf(j)} /\ Complete(j) /\ Undisturbed
       \/ DbFails(j) /\ UNCHANGED held
    /\ UNCHANGED <<where, windowVars, reminderVars, commandVars, sweepVars, historyVars>>

\* findDeferred, at most DigestLimit of them, and the first look at the window.
ListDeferred(j) ==
    /\ step[j] = "list"
    /\ \/ /\ \E some \in SUBSET Waiting :
               /\ some # {}
               /\ Cardinality(some) <= DigestLimit
               /\ Cardinality(some) < DigestLimit => some = Waiting
               /\ listed' = [listed EXCEPT ![j] = some]
          /\ Goto(j, IF Open(snap[j]) THEN "count" ELSE "template")
          /\ UNCHANGED snap
          /\ Undisturbed
       \/ Waiting = {} /\ Complete(j) /\ Undisturbed
       \/ DbFails(j)
    /\ UNCHANGED <<mailVars, windowVars, reminderVars, commandVars, sweepVars, historyVars>>

\* countDeferred, after which reply() looks at the window again.
CountDeferred(j) ==
    /\ step[j] = "count"
    /\ \/ Goto(j, AfterVerdict("send", Open(snap[j]))) /\ UNCHANGED <<snap, listed>> /\ Undisturbed
       \/ DbFails(j)
    /\ UNCHANGED <<mailVars, windowVars, reminderVars, commandVars, sweepVars, historyVars>>

\* The card or the list goes out; Meta delivers it only inside the window.
Delivered(j) ==
    IF Open(lastInbound)
    THEN /\ shown' = shown \cup listed[j]
         /\ returned' = IF KindOf(j) = "return" THEN returned \cup {j[2]} ELSE returned
    ELSE UNCHANGED <<shown, returned>>

SendCard(j) ==
    /\ step[j] = "send"
    /\ \/ Delivered(j) /\ Goto(j, "record") /\ UNCHANGED <<snap, listed>> /\ Undisturbed
       \/ Disturb("whatsapp") /\ Throw(j, TRUE) /\ (Delivered(j) \/ UNCHANGED <<shown, returned>>)
       \/ Disturb("reject") /\ Throw(j, FALSE) /\ UNCHANGED <<shown, returned>>
    /\ UNCHANGED <<mailVars, windowVars, reminderVars, commandVars, sweepVars, abandoned, excused>>

\* recordDelivery, inside reply()'s try: its failure throws like the send's.
RecordDelivery(j) ==
    /\ step[j] = "record"
    /\ \/ Goto(j, "mark") /\ UNCHANGED <<snap, listed>> /\ Undisturbed
       \/ DbFails(j)
    /\ UNCHANGED <<mailVars, windowVars, reminderVars, commandVars, sweepVars, historyVars>>

\* Wrong: a digest clears the whole backlog.
ClearsAll(j) == held

\* What a delivery settles: only what it showed.
Clears(j) == listed[j]

\* markNotified.
MarkNotified(j) ==
    /\ step[j] = "mark"
    /\ \/ /\ held' = held \ Clears(j)
          /\ IF KindOf(j) = "digest" THEN Goto(j, "stamp") /\ UNCHANGED <<snap, listed>>
             ELSE Complete(j)
          /\ Undisturbed
       \/ DbFails(j) /\ UNCHANGED held
    /\ UNCHANGED <<where, windowVars, reminderVars, commandVars, sweepVars, historyVars>>

\* recordDigestSent.
StampDigest(j) ==
    /\ step[j] = "stamp"
    /\ (Complete(j) /\ Undisturbed) \/ DbFails(j)
    /\ UNCHANGED <<mailVars, windowVars, reminderVars, commandVars, sweepVars, historyVars>>

Handle(j) ==
    \/ TakeJob(j) \/ Analyze(j) \/ QueueCard(j) \/ ReadMessage(j) \/ ReadContext(j) \/ Decide(j)
    \/ SendTemplate(j) \/ MarkDeferred(j) \/ ListDeferred(j) \/ CountDeferred(j)
    \/ SendCard(j) \/ RecordDelivery(j) \/ MarkNotified(j) \/ StampDigest(j)

-----------------------------------------------------------------------------
(***************************************************************************)
(* Snooze: commands write the reminder, a sweep brings the message back.   *)
(***************************************************************************)

\* Neither delivered nor given up.
Live(r) == r \in created /\ r \notin sent /\ r \notin cancelled

LiveAbout(e) == {r \in Reminders : Live(r) /\ about[r] = e}

\* The user's message asks for a snooze.  reminders.create: a new snooze replaces the one the message has.
Snooze(r, e) ==
    /\ lastInbound > 0
    /\ r \notin created /\ where[e] \in {"inbox", "archived"}
    /\ created' = created \cup {r}
    /\ about' = [about EXCEPT ![r] = e]
    /\ cancelled' = cancelled \cup LiveAbout(e)
    /\ snoozing' = snoozing \cup {e}
    /\ UNCHANGED <<mailVars, windowVars, jobVars, handlerVars, due, sent, dealing, sweepVars,
                   historyVars, disturbed>>

\* Then the message leaves the inbox; if it cannot, it stays in sight.
ArchiveSnoozed(e) ==
    /\ e \in snoozing
    /\ snoozing' = snoozing \ {e}
    /\ \/ where[e] \in {"inbox", "archived"} /\ where' = [where EXCEPT ![e] = "archived"] /\ Undisturbed
       \/ where[e] \in {"deleted", "gone"} /\ UNCHANGED where /\ Undisturbed
       \/ Disturb("mailbox") /\ UNCHANGED where
    /\ UNCHANGED <<held, windowVars, jobVars, handlerVars, reminderVars, dealing, sweepVars, historyVars>>

\* The user's message asks to reply to, archive or delete one.
DealWith(e) ==
    /\ lastInbound > 0
    /\ where[e] \in {"inbox", "archived"} /\ e \notin dealing
    /\ \E command \in Commands :
         where' = [where EXCEPT ![e] = CASE command = "reply"   -> @
                                         [] command = "archive" -> "archived"
                                         [] command = "delete"  -> "deleted"]
    /\ dealing' = dealing \cup {e}
    /\ UNCHANGED <<held, windowVars, jobVars, handlerVars, reminderVars, snoozing, sweepVars,
                   historyVars, disturbed>>

\* dealtWith: best effort, a failure is swallowed.
CancelFor(e) ==
    /\ e \in dealing
    /\ dealing' = dealing \ {e}
    /\ \/ cancelled' = cancelled \cup LiveAbout(e) /\ Undisturbed
       \/ Disturb("db") /\ UNCHANGED cancelled
    /\ UNCHANGED <<mailVars, windowVars, jobVars, handlerVars, created, about, due, sent, snoozing,
                   sweepVars, historyVars>>

\* remindAt passes.
ComesDue(r) ==
    /\ r \in created \ due
    /\ due' = due \cup {r}
    /\ UNCHANGED <<mailVars, windowVars, jobVars, handlerVars, created, about, sent, cancelled,
                   commandVars, sweepVars, historyVars, disturbed>>

SweepGoto(s, next) == sweepStep' = [sweepStep EXCEPT ![s] = next]

SweepEnds(s) == SweepGoto(s, "idle") /\ sweepOn' = [sweepOn EXCEPT ![s] = NoReminder]

\* findDueFor: read now, claimed later.
FindDue(s, r) ==
    /\ sweepStep[s] = "idle"
    /\ r \in due /\ Live(r)
    /\ SweepGoto(s, "claim")
    /\ sweepOn' = [sweepOn EXCEPT ![s] = r]
    /\ UNCHANGED <<mailVars, windowVars, jobVars, handlerVars, reminderVars, commandVars,
                   historyVars, disturbed>>

\* Wrong: the claim does not look at what became of the reminder since.
ClaimableStale(r) == r \in created

\* The condition of the claim's conditional update.
Claimable(r) == Live(r)

\* reminders.claim: whoever changes the row fires; a failure is left to the next sweep.
Claim(s) ==
    /\ sweepStep[s] = "claim"
    /\ \/ /\ Claimable(sweepOn[s])
          /\ sent' = sent \cup {sweepOn[s]}
          /\ SweepGoto(s, "unarchive") /\ UNCHANGED sweepOn
          /\ Undisturbed
       \/ ~Claimable(sweepOn[s]) /\ SweepEnds(s) /\ UNCHANGED sent /\ Undisturbed
       \/ Disturb("db") /\ SweepEnds(s) /\ UNCHANGED sent
    /\ UNCHANGED <<mailVars, windowVars, jobVars, handlerVars, created, about, due, cancelled,
                   commandVars, historyVars>>

\* The mailbox takes it back to the inbox, or cannot: it is deleted, or down.
Unarchive(s) ==
    /\ sweepStep[s] = "unarchive"
    /\ LET e == about[sweepOn[s]] IN
       \/ /\ where[e] \in {"inbox", "archived"}
          /\ where' = [where EXCEPT ![e] = "inbox"]
          /\ SweepGoto(s, "enqueue")
          /\ Undisturbed
       \/ where[e] \in {"deleted", "gone"} /\ SweepGoto(s, "release") /\ UNCHANGED where /\ Undisturbed
       \/ Disturb("mailbox") /\ SweepGoto(s, "release") /\ UNCHANGED where
    /\ UNCHANGED <<held, windowVars, jobVars, handlerVars, reminderVars, commandVars, sweepOn,
                   historyVars>>

EnqueueReturn(s) ==
    /\ sweepStep[s] = "enqueue"
    /\ \/ Enqueue(<<"return", sweepOn[s]>>) /\ SweepEnds(s) /\ Undisturbed
       \/ Disturb("enqueue") /\ SweepGoto(s, "release") /\ UNCHANGED <<sweepOn, job>>
    /\ UNCHANGED <<mailVars, windowVars, attempts, crashed, handlerVars, reminderVars, commandVars,
                   historyVars>>

\* A run that holds a claim, and goes without using or releasing it.
Abandons(s) ==
    abandoned' = IF sweepStep[s] = "claim" THEN abandoned ELSE abandoned \cup {sweepOn[s]}

\* Wrong: a failed return leaves the claim where it is.
ReleasedNever(s) == sent

\* Put back for the next sweep.
Released(s) == sent \ {sweepOn[s]}

\* reminders.release; its own failure is swallowed.
Release(s) ==
    /\ sweepStep[s] = "release"
    /\ SweepEnds(s)
    /\ \/ sent' = Released(s) /\ UNCHANGED abandoned /\ Undisturbed
       \/ Disturb("db") /\ Abandons(s) /\ UNCHANGED sent
    /\ UNCHANGED <<mailVars, windowVars, jobVars, handlerVars, created, about, due, cancelled,
                   commandVars, shown, returned, excused>>

\* The sync worker dies; the next sweep starts over from what is due.
SweepDies(s) ==
    /\ sweepStep[s] # "idle" /\ Disturb("sweepCrash")
    /\ SweepEnds(s) /\ Abandons(s)
    /\ UNCHANGED <<mailVars, windowVars, jobVars, handlerVars, reminderVars, commandVars, shown,
                   returned, excused>>

Sweep(s) == Claim(s) \/ Unarchive(s) \/ EnqueueReturn(s) \/ Release(s)

-----------------------------------------------------------------------------
Next ==
    \/ \E e \in Emails : Arrive(e) \/ Purge(e) \/ ArchiveSnoozed(e) \/ DealWith(e) \/ CancelFor(e)
    \/ TouchConversation \/ FlushDeferred \/ WindowLapses \/ Unlink \/ SweepDigests
    \/ \E j \in Jobs : Handle(j) \/ Crash(j)
    \/ \E r \in Reminders : ComesDue(r) \/ \E e \in Emails : Snooze(r, e)
    \/ \E s \in Sweeps : Sweep(s) \/ SweepDies(s) \/ \E r \in Reminders : FindDue(s, r)

Spec == Init /\ [][Next]_vars

\* Workers take jobs and their awaits resolve; the scheduler repeats the sweep.
Fairness ==
    /\ \A j \in Jobs : WF_vars(Handle(j))
    /\ \A s \in Sweeps : WF_vars(Sweep(s)) /\ WF_vars(\E r \in Reminders : FindDue(s, r))

FairSpec == Spec /\ Fairness

-----------------------------------------------------------------------------
(***************************************************************************)
(* Properties.                                                             *)
(***************************************************************************)

Snoozed == {about[r] : r \in created}

\* A message whose card job is done was delivered, is owed, or was silenced by
\* the user's settings or deleted: however cards and digests interleave, no
\* backlog flag is cleared for a message nobody showed.
NothingForgotten ==
    \A e \in Emails \ Snoozed :
        job[<<"card", e>>] = "completed" =>
            e \in shown \cup held \cup excused \/ where[e] = "gone"

\* No two sweeps bring back the same reminder: the conditional update is the
\* only lock they share.
FiredByOne ==
    \A s, t \in Sweeps :
        /\ sweepStep[s] \in {"unarchive", "enqueue", "release"}
        /\ sweepStep[t] \in {"unarchive", "enqueue", "release"}
        /\ sweepOn[s] = sweepOn[t]
        => s = t

\* A snooze the user gave up, or replaced, brings nothing back, whatever sweep
\* had already picked it up.
CancelledStaysAway == \A r \in cancelled : job[<<"return", r>>] = "absent"

\* A message that arrives is in the end delivered, owed, silenced or gone,
\* whatever becomes of its analysis, also when that fails on every attempt (one
\* the user put down is SnoozeEnds' care).
MailIsHeard ==
    \A e \in Emails :
        where[e] = "inbox" ~>
            e \in shown \cup held \cup excused \cup Snoozed \/ where[e] = "gone"

\* A snooze that is due is called off, or its message comes back, or the run
\* that claimed it died holding the claim: a failure it lives to see is retried.
SnoozeEnds ==
    \A r \in Reminders : r \in due ~>
        \/ r \in cancelled \cup abandoned \/ job[<<"return", r>>] # "absent"
        \/ \E e \in Emails : about[r] = e /\ where[e] \in {"deleted", "gone"}

=============================================================================
