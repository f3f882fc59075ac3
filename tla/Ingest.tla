------------------------------- MODULE Ingest -------------------------------
(***************************************************************************)
(* Mail arriving in one connected mailbox, from the provider's push to the *)
(* row in email_messages and the analysis job that announces it.           *)
(*                                                                         *)
(* The mailbox is a sequence: message m is the m-th to arrive, and a sync  *)
(* position (Gmail's historyId, Graph's delta link) is the number of       *)
(* messages that had arrived when the provider handed it out.  One action  *)
(* is one awaited step of the code.  Ingest jobs of the same mailbox run   *)
(* side by side; the position they share is email_accounts.syncCursor.     *)
(*                                                                         *)
(* Everything that disturbs the ordinary course (failures, lost pushes, a  *)
(* user reconnecting) is drawn from Disturbances, at most MaxDisturbed     *)
(* times in a behaviour.                                                   *)
(***************************************************************************)
EXTENDS Integers, FiniteSets

CONSTANTS
    Kind,          \* the mailbox's provider: "gmail" or "graph"
    MaxMail,       \* bound on the messages that arrive
    MaxClock,      \* bound on the intervals (a minute of Graph, two of polling)
    MaxAttempts,   \* QUEUE_DEFAULTS.ingest.attempts (5 in the code)
    Concurrency,   \* QUEUE_DEFAULTS.ingest.concurrency (50 in the code)
    Disturbances, MaxDisturbed

DisturbanceKinds == {
    "provider", "reject",     \* a provider call fails: for now, for good
    "revoke",                 \* the provider refuses our grant
    "db", "enqueue",          \* a transaction rolls back; Redis refuses a job
    "crash",                  \* a worker dies in the middle of a job
    "expire",                 \* the provider forgets old history
    "vanish",                 \* the user deletes a message elsewhere
    "loseNotice", "repeatNotice",
    "lapse", "watch",         \* the subscription lapses; setting it up fails
    "sweep",                  \* a sweep falls into linking, or a live watch is due
    "reconnect" }             \* the user links the mailbox again

ASSUME KindAssumption == Kind \in {"gmail", "graph"}
ASSUME SizeAssumption ==
    /\ MaxMail \in Nat /\ MaxClock \in Nat \ {0}
    /\ MaxAttempts \in Nat \ {0} /\ Concurrency \in Nat \ {0}
ASSUME DisturbancesAssumption == Disturbances \subseteq DisturbanceKinds /\ MaxDisturbed \in Nat

NoCursor == -1
Mail     == 1..MaxMail
Position == 0..MaxMail
Cursor   == Position \cup {NoCursor}
Keys     == 1..(MaxMail + MaxClock)   \* BullMQ job ids, per push or per interval
Callers  == {"link", "renew"}         \* who sets up a watch: the API, the sync worker

VARIABLES
    arrived,   \* how many messages have arrived at the provider
    gone,      \* those deleted there
    oldest,    \* the earliest position the provider still serves history from
    pushing,   \* the provider's subscription is live
    notices,   \* pushes on their way, by the position they carry
    clock,     \* the current interval
    cursor,    \* email_accounts.syncCursor
    account,   \* email_accounts.status
    route,     \* provider_account_routes: none, polling (no expiry), watched
    callStep,  \* where link or renewal is in setting up a watch
    callAt,    \* the position the provider answered with
    stored,    \* rows of email_messages
    queued,    \* messages with an analysis job
    excused,   \* history: messages a fresh start decided not to look at
    job,       \* the ingest job under a key
    attempts,  \* its attemptsMade
    crashed,   \* the jobs BullMQ already re-ran once after a crash
    step,      \* where its handler is
    from,      \* the position the walk resumes from
    upto,      \* the position the provider reported
    at,        \* the message being handled
    err,       \* the error the catch block deals with
    disturbed  \* how many disturbances there have been

mailboxVars == <<arrived, gone, oldest, pushing, notices, clock>>
accountVars == <<cursor, account, route>>
callVars    == <<callStep, callAt>>
mailVars    == <<stored, queued, excused>>
jobVars     == <<job, attempts, crashed>>
walkVars    == <<step, from, upto, at, err>>
vars == <<mailboxVars, accountVars, callVars, mailVars, jobVars, walkVars, disturbed>>

Steps  == {"idle", "first", "list", "fetch", "persist", "enqueue", "save",
           "resync", "saveFresh", "fail"}
Errors == {"none", "retryable", "fatal", "unauthorized"}

TypeOK ==
    /\ arrived \in Position /\ oldest \in Position /\ gone \subseteq Mail
    /\ pushing \in BOOLEAN /\ notices \subseteq Mail /\ clock \in 1..MaxClock
    /\ cursor \in Cursor
    /\ account \in {"active", "reauth_required"}
    /\ route \in {"none", "polling", "watched"}
    /\ callStep \in [Callers -> {"idle", "watch", "record"}]
    /\ callAt \in [Callers -> Position]
    /\ stored \subseteq Mail /\ queued \subseteq Mail /\ excused \subseteq Mail
    /\ job \in [Keys -> {"absent", "waiting", "active", "completed", "dead"}]
    /\ attempts \in [Keys -> Nat]
    /\ crashed \subseteq Keys
    /\ step \in [Keys -> Steps]
    /\ from \in [Keys -> Cursor]
    /\ upto \in [Keys -> Position]
    /\ at \in [Keys -> Position]
    /\ err \in [Keys -> Errors]
    /\ disturbed \in 0..MaxDisturbed

\* link() has stored the grant and the route, and goes on to startWatching.
Init ==
    /\ arrived = 0 /\ oldest = 0 /\ gone = {}
    /\ pushing = FALSE /\ notices = {} /\ clock = 1
    /\ cursor = NoCursor /\ account = "active" /\ route = "polling"
    /\ callStep = [c \in Callers |-> IF c = "link" THEN "watch" ELSE "idle"]
    /\ callAt = [c \in Callers |-> 0]
    /\ stored = {} /\ queued = {} /\ excused = {}
    /\ job = [k \in Keys |-> "absent"]
    /\ attempts = [k \in Keys |-> 0]
    /\ crashed = {}
    /\ step = [k \in Keys |-> "idle"]
    /\ from = [k \in Keys |-> NoCursor]
    /\ upto = [k \in Keys |-> 0]
    /\ at = [k \in Keys |-> 0]
    /\ err = [k \in Keys |-> "none"]
    /\ disturbed = 0

Disturb(kind) ==
    /\ kind \in Disturbances
    /\ disturbed < MaxDisturbed
    /\ disturbed' = disturbed + 1

Undisturbed == UNCHANGED disturbed

\* The errors a provider call may end in.
ProviderFails(e) ==
    \/ e = "retryable" /\ Disturb("provider")
    \/ e = "fatal" /\ Disturb("reject")
    \/ e = "unauthorized" /\ Disturb("revoke")

-----------------------------------------------------------------------------
(***************************************************************************)
(* The mailbox, and the pushes it sends.                                   *)
(***************************************************************************)

Arrive ==
    /\ arrived < MaxMail
    /\ arrived' = arrived + 1
    /\ notices' = IF pushing THEN notices \cup {arrived'} ELSE notices
    /\ UNCHANGED <<gone, oldest, pushing, clock, accountVars, callVars, mailVars,
                   jobVars, walkVars, disturbed>>

\* The user deletes a message before we fetched it.
Vanish(m) ==
    /\ m <= arrived /\ m \notin gone
    /\ Disturb("vanish")
    /\ gone' = gone \cup {m}
    /\ UNCHANGED <<arrived, oldest, pushing, notices, clock, accountVars, callVars,
                   mailVars, jobVars, walkVars>>

Tick ==
    /\ clock < MaxClock
    /\ clock' = clock + 1
    /\ UNCHANGED <<arrived, gone, oldest, pushing, notices, accountVars, callVars,
                   mailVars, jobVars, walkVars, disturbed>>

\* History older than a week is forgotten, a subscription lapses, a push is lost.
Disturbance ==
    /\ \/ Disturb("expire") /\ oldest' = arrived /\ UNCHANGED <<pushing, notices>>
       \/ Disturb("lapse") /\ pushing' = FALSE /\ UNCHANGED <<oldest, notices>>
       \/ /\ Disturb("loseNotice")
          /\ \E p \in notices : notices' = notices \ {p}
          /\ UNCHANGED <<oldest, pushing>>
    /\ UNCHANGED <<arrived, gone, clock, accountVars, callVars, mailVars, jobVars, walkVars>>

-----------------------------------------------------------------------------
(***************************************************************************)
(* From a push, or the polling sweep, to a job.                            *)
(***************************************************************************)

\* Wrong for Gmail: one job for all pushes of an interval.
NoticePerInterval(p) == MaxMail + clock

\* The job id of a push: Gmail's carries the position, Graph's the minute.
NoticeKey(p) == IF Kind = "gmail" THEN p ELSE MaxMail + clock

\* The job id of the polling sweep: the interval.
PollKey == MaxMail + clock

\* BullMQ ignores a job whose id it still knows, finished or not.
Enqueue(k) ==
    IF job[k] = "absent" THEN job' = [job EXCEPT ![k] = "waiting"] ELSE UNCHANGED job

\* Whether the webhook finds the account.  Gmail's looks for the route.  Graph's looks for the
\* subscription's id among the accounts, before it knows whose it is: what row-level security
\* lets it see is the database role's affair.
Routed == IF Kind = "gmail" THEN {route # "none"} ELSE BOOLEAN

\* It enqueues, or drops the push.
RouteNotice(p) == \E found \in Routed : IF found THEN Enqueue(NoticeKey(p)) ELSE UNCHANGED job

\* A push arrives, perhaps not for the last time; it was acknowledged before it
\* was enqueued, so a job Redis refuses is lost.
ReceiveNotice(p) ==
    /\ p \in notices
    /\ \/ notices' = notices \ {p} /\ RouteNotice(p) /\ Undisturbed
       \/ Disturb("repeatNotice") /\ RouteNotice(p) /\ UNCHANGED notices
       \/ Disturb("enqueue") /\ notices' = notices \ {p} /\ UNCHANGED job
    /\ UNCHANGED <<arrived, gone, oldest, pushing, clock, accountVars, callVars, mailVars,
                   attempts, crashed, walkVars>>

\* The sweeps look for Gmail mailboxes whose route has no expiry; they mostly
\* find those that linking could not watch.
SweepFinds ==
    /\ Kind = "gmail" /\ route = "polling"
    /\ IF callStep["link"] = "idle" THEN Undisturbed ELSE Disturb("sweep")

\* sweepPolling.
Poll ==
    /\ SweepFinds
    /\ job[PollKey] = "absent"
    /\ Enqueue(PollKey)
    /\ UNCHANGED <<mailboxVars, accountVars, callVars, mailVars, attempts, crashed, walkVars>>

-----------------------------------------------------------------------------
(***************************************************************************)
(* IngestProcessor.handle, one action per awaited step.                    *)
(***************************************************************************)

\* The handler is over and its local state with it.
Leave(k, state) ==
    /\ job' = [job EXCEPT ![k] = state]
    /\ step' = [step EXCEPT ![k] = "idle"]
    /\ from' = [from EXCEPT ![k] = NoCursor]
    /\ upto' = [upto EXCEPT ![k] = 0]
    /\ at' = [at EXCEPT ![k] = 0]
    /\ err' = [err EXCEPT ![k] = "none"]

Complete(k) == Leave(k, "completed") /\ UNCHANGED <<attempts, crashed>>

\* A retryable error is retried while attempts remain, any other discarded.
Throw(k, e) ==
    /\ attempts' = [attempts EXCEPT ![k] = @ + 1]
    /\ Leave(k, IF e = "retryable" /\ attempts'[k] < MaxAttempts THEN "waiting" ELSE "dead")
    /\ UNCHANGED crashed

Goto(k, s) == step' = [step EXCEPT ![k] = s] /\ UNCHANGED <<from, at, err, jobVars>>

Catch(k, e) ==
    /\ step' = [step EXCEPT ![k] = "fail"]
    /\ err' = [err EXCEPT ![k] = e]
    /\ UNCHANGED <<from, upto, at, jobVars>>

\* The worker dies; BullMQ re-runs the job once.
Crash(k) ==
    /\ Disturb("crash")
    /\ job[k] = "active"
    /\ Leave(k, IF k \in crashed THEN "dead" ELSE "waiting")
    /\ crashed' = crashed \cup {k}
    /\ UNCHANGED <<mailboxVars, accountVars, callVars, mailVars, attempts>>

\* Wrong: the walk resumes from the position the push carried.
ResumeFromPush(k) == IF cursor = NoCursor THEN NoCursor ELSE IF k \in Mail THEN k ELSE cursor

\* Where the walk resumes: what is stored on the account, never the job's.
ResumeFrom(k) == cursor

\* A worker takes the job.  Its first await is accounts.load, which reads the
\* position; then comes the branch on a mailbox never synced.
LoadAccount(k) ==
    /\ job[k] = "waiting"
    /\ Cardinality({j \in Keys : job[j] = "active"}) < Concurrency
    /\ \/ /\ account = "active"
          /\ job' = [job EXCEPT ![k] = "active"]
          /\ from' = [from EXCEPT ![k] = ResumeFrom(k)]
          /\ step' = [step EXCEPT ![k] = IF ResumeFrom(k) = NoCursor THEN "first" ELSE "list"]
          /\ UNCHANGED <<upto, at, err, attempts, crashed>>
          /\ Undisturbed
       \/ account = "reauth_required" /\ Throw(k, "unauthorized") /\ Undisturbed
       \/ Disturb("db") /\ Throw(k, "retryable")
    /\ UNCHANGED <<mailboxVars, accountVars, callVars, mailVars>>

\* getInitialCursor, for a mailbox never synced or one whose history expired;
\* both are outside the try block.
GetInitialCursor(k) ==
    /\ step[k] \in {"first", "resync"}
    /\ \/ upto' = [upto EXCEPT ![k] = arrived] /\ Goto(k, "saveFresh") /\ Undisturbed
       \/ \E e \in Errors : ProviderFails(e) /\ Throw(k, e)
    /\ UNCHANGED <<mailboxVars, accountVars, callVars, mailVars>>

\* The fresh position is stored: whatever had arrived by then is behind us.
SaveFresh(k) ==
    /\ step[k] = "saveFresh"
    /\ \/ /\ cursor' = upto[k]
          /\ excused' = excused \cup 1..upto[k]
          /\ Complete(k)
          /\ Undisturbed
       \/ /\ Disturb("db")
          /\ Throw(k, "retryable")
          /\ UNCHANGED <<cursor, excused>>
    /\ UNCHANGED <<mailboxVars, account, route, callVars, stored, queued>>

\* The walk's next message, or its end.
Advance(k, m) ==
    /\ at' = [at EXCEPT ![k] = IF m < upto'[k] THEN m + 1 ELSE 0]
    /\ step' = [step EXCEPT ![k] = IF m < upto'[k] THEN "fetch" ELSE "save"]
    /\ UNCHANGED <<from, err, jobVars>>

\* fetchChanges: the changes since from, and the position they lead to.
ListChanges(k) ==
    /\ step[k] = "list"
    /\ \/ /\ from[k] >= oldest
          /\ upto' = [upto EXCEPT ![k] = arrived]
          /\ Advance(k, from[k])
          /\ Undisturbed
       \/ /\ from[k] < oldest
          /\ Goto(k, "resync")
          /\ UNCHANGED upto
          /\ Undisturbed
       \/ \E e \in Errors : ProviderFails(e) /\ Catch(k, e)
    /\ UNCHANGED <<mailboxVars, accountVars, callVars, mailVars>>

\* getMessage: a message deleted meanwhile is skipped.
FetchMessage(k) ==
    /\ step[k] = "fetch"
    /\ \/ at[k] \notin gone /\ Goto(k, "persist") /\ UNCHANGED upto /\ Undisturbed
       \/ at[k] \in gone /\ UNCHANGED upto /\ Advance(k, at[k]) /\ Undisturbed
       \/ \E e \in Errors : ProviderFails(e) /\ Catch(k, e)
    /\ UNCHANGED <<mailboxVars, accountVars, callVars, mailVars>>

\* Wrong: the count of created rows is read the other way round.
IsNewInverted(m) == m \in stored

\* Whether persist created the row.
IsNew(m) == m \notin stored

\* persist: only the walk that created the row announces it.
Persist(k) ==
    /\ step[k] = "persist"
    /\ \/ /\ stored' = stored \cup {at[k]}
          /\ IF IsNew(at[k]) THEN Goto(k, "enqueue") /\ UNCHANGED upto
             ELSE UNCHANGED upto /\ Advance(k, at[k])
          /\ Undisturbed
       \/ Disturb("db") /\ Catch(k, "retryable") /\ UNCHANGED stored
    /\ UNCHANGED <<mailboxVars, accountVars, callVars, queued, excused>>

EnqueueAnalysis(k) ==
    /\ step[k] = "enqueue"
    /\ \/ /\ queued' = queued \cup {at[k]}
          /\ UNCHANGED upto
          /\ Advance(k, at[k])
          /\ Undisturbed
       \/ Disturb("enqueue") /\ Catch(k, "retryable") /\ UNCHANGED queued
    /\ UNCHANGED <<mailboxVars, accountVars, callVars, stored, excused>>

\* The position the walk leaves behind.
Saved(k) == upto[k]

SaveCursor(k) ==
    /\ step[k] = "save"
    /\ \/ cursor' = Saved(k) /\ Complete(k) /\ Undisturbed
       \/ Disturb("db") /\ Catch(k, "retryable") /\ UNCHANGED cursor
    /\ UNCHANGED <<mailboxVars, account, route, callVars, mailVars>>

\* The catch block: bookkeeping, the account when the grant is gone, rethrow.
RecordFailure(k) ==
    /\ step[k] = "fail"
    /\ \/ /\ account' = IF err[k] = "unauthorized" THEN "reauth_required" ELSE account
          /\ Throw(k, err[k])
          /\ Undisturbed
       \/ Disturb("db") /\ Throw(k, "retryable") /\ UNCHANGED account
    /\ UNCHANGED <<mailboxVars, cursor, route, callVars, mailVars>>

-----------------------------------------------------------------------------
(***************************************************************************)
(* Linking and renewing: the other writers of the position.                *)
(***************************************************************************)

\* The user links the mailbox again: the grant is fresh, the route has no expiry.
Reconnect ==
    /\ Disturb("reconnect")
    /\ callStep["link"] = "idle"
    /\ account' = "active" /\ route' = "polling"
    /\ callStep' = [callStep EXCEPT !["link"] = "watch"]
    /\ UNCHANGED <<mailboxVars, cursor, callAt, mailVars, jobVars, walkVars>>

\* The sweep finds the route due (no expiry, or one within the horizon), and the
\* sync worker loads the account.
BeginRenewal ==
    /\ callStep["renew"] = "idle"
    /\ \/ SweepFinds
       \/ Kind = "gmail" /\ route = "watched" /\ Disturb("sweep")
    /\ IF account = "active"
       THEN callStep' = [callStep EXCEPT !["renew"] = "watch"] /\ UNCHANGED route
       ELSE route' = "none" /\ UNCHANGED callStep
    /\ UNCHANGED <<mailboxVars, cursor, account, callAt, mailVars, jobVars, walkVars>>

\* provider.watch answers with the mailbox's position now.
Watch(c) ==
    /\ callStep[c] = "watch"
    /\ pushing' = TRUE
    /\ callAt' = [callAt EXCEPT ![c] = arrived]
    /\ callStep' = [callStep EXCEPT ![c] = "record"]
    /\ UNCHANGED <<arrived, gone, oldest, notices, clock, accountVars, mailVars, jobVars,
                   walkVars, disturbed>>

\* It fails: linking falls back to polling; a renewal drops the route, falls
\* back to polling, or is retried later.
WatchFails(c) ==
    /\ callStep[c] # "idle"
    /\ Disturb("watch")
    /\ callStep' = [callStep EXCEPT ![c] = "idle"]
    /\ callAt' = [callAt EXCEPT ![c] = 0]
    /\ IF c = "link" THEN account' = "active" /\ UNCHANGED route
       ELSE \/ account' = "reauth_required" /\ route' = "none"
            \/ UNCHANGED account /\ route' = IF route = "none" THEN "none" ELSE "polling"
            \/ UNCHANGED <<account, route>>
    /\ UNCHANGED <<mailboxVars, cursor, mailVars, jobVars, walkVars>>

\* recordRenewed keeps a position the account already has; startWatching does not.
KeepsCursor(c) == c = "renew" /\ cursor # NoCursor

RecordWatch(c) ==
    /\ callStep[c] = "record"
    /\ callStep' = [callStep EXCEPT ![c] = "idle"]
    /\ callAt' = [callAt EXCEPT ![c] = 0]
    /\ account' = "active"
    /\ route' = IF route = "none" THEN "none" ELSE "watched"
    /\ IF KeepsCursor(c) THEN UNCHANGED cursor ELSE cursor' = callAt[c]
    /\ excused' = IF c = "link" \/ cursor = NoCursor
                  THEN excused \cup 1..callAt[c] ELSE excused
    /\ UNCHANGED <<mailboxVars, stored, queued, jobVars, walkVars, disturbed>>

-----------------------------------------------------------------------------
Handle(k) ==
    \/ LoadAccount(k) \/ GetInitialCursor(k) \/ SaveFresh(k) \/ ListChanges(k)
    \/ FetchMessage(k) \/ Persist(k) \/ EnqueueAnalysis(k) \/ SaveCursor(k)
    \/ RecordFailure(k)

Next ==
    \/ Arrive \/ Tick \/ Disturbance \/ Poll
    \/ \E m \in Mail : Vanish(m) \/ ReceiveNotice(m)
    \/ \E k \in Keys : Handle(k) \/ Crash(k)
    \/ Reconnect \/ BeginRenewal
    \/ \E c \in Callers : Watch(c) \/ WatchFails(c) \/ RecordWatch(c)

Spec == Init /\ [][Next]_vars

\* Workers take jobs and their awaits resolve, pushes that are not lost arrive,
\* and the controller that links a mailbox goes on to watch it.
Fairness ==
    /\ \A k \in Keys : WF_vars(Handle(k))
    /\ \A m \in Mail : WF_vars(ReceiveNotice(m))
    /\ \A c \in Callers : WF_vars(Watch(c)) /\ WF_vars(RecordWatch(c))

FairSpec == Spec /\ Fairness

-----------------------------------------------------------------------------
(***************************************************************************)
(* Properties.                                                             *)
(***************************************************************************)

\* We have it, it no longer exists, or a fresh start decided not to look at it.
Covered(m) == m \in stored \/ m \in gone \/ m \in excused

\* The position never passes a message that was not dealt with, whatever jobs
\* overlap, fail or restart (ingest.processor.ts, "The cursor advances only
\* after the work succeeds, and only to the position the provider reported").
NothingSkipped == \A m \in Mail : m <= cursor => Covered(m)

\* No job of the mailbox is waiting or running, and no push is on its way.
Quiet == notices = {} /\ \A k \in Keys : job[k] \notin {"waiting", "active"}

\* When the queue is at rest, every message that was stored was announced
\* ("cannot cost an email its delivery").
StoredIsAnnounced == Quiet => stored \subseteq queued

\* When the queue is at rest and the mailbox is watched, nothing that arrived
\* while it was watched is missing ("one delta walk catches all of them").
CaughtUp ==
    Quiet /\ cursor # NoCursor /\ pushing /\ callStep["link"] = "idle"
        => \A m \in 1..arrived : Covered(m)

\* Time and again everything that has arrived is stored and announced, or
\* excused: no message stays behind for ever.
MailIsAnnounced ==
    []<>(\A m \in 1..arrived : m \in queued \/ m \in gone \/ m \in excused)

=============================================================================
