----------------------------- MODULE ModelCalls -----------------------------
(***************************************************************************)
(* What is asked of the model providers for one user, and what it costs:   *)
(* the AI queue's two jobs per message (analyse, embed), the requests of   *)
(* the chat (summary, translation, draft, speech, question), the sweep     *)
(* that embeds the mail from before, and the daily meter they all read     *)
(* before they call and write after.                                       *)
(*                                                                         *)
(* A slot is one task being carried out, a job or a request; slots         *)
(* interleave at every await.  Of a completion only matters whether the    *)
(* provider charged for it and whether the code can use it.  Times of day  *)
(* are left out: the meter starts again at midnight, at any moment.  The   *)
(* backfill's window (EMBEDDING_BACKFILL_DAYS) holds all the mail there is.*)
(* Transcription is not here: it neither reads the meter nor counts on it. *)
(***************************************************************************)
EXTENDS Integers, Sequences, FiniteSets

CONSTANTS
    Messages,      \* rows of email_messages
    NoMessage,
    Slots,         \* tasks carried out at once (the AI queue's concurrency and the chat's)
    Primary,       \* AI_PRIMARY_PROVIDER and AI_FALLBACK_PROVIDER:
    Fallback,      \* "none", "openai", "gemini" or "anthropic"
    Requested,     \* what the chat asks for in this instance
    Ceiling,       \* AI_MAX_TOKENS_PER_USER_DAY, in units of a call's cost
    MaxCost,       \* the most one call can cost
    MaxAttempts,   \* QUEUE_DEFAULTS.ai.attempts
    Batch,         \* BACKFILL_BATCH_PER_USER (50 in the code)
    MaxDays,       \* how many days pass
    MaxRequests,   \* how many requests the chat makes
    Disturbances, MaxDisturbed

Requests == {"summary", "translation", "draft", "speech", "search", "query", "question"}

\* What comes back from a provider instead of what was asked for: the first six
\* are charged for, of the rest two may go away by themselves.
OddReplies == {"prose", "empty", "cut", "late", "filtered", "notFinite", "unreachable", "busy", "denied"}
DisturbanceKinds == OddReplies \cup {
    "database",  \* a read or a write fails
    "redis",     \* a job cannot be enqueued
    "crash",     \* the worker dies
    "evicted" }  \* BullMQ forgets a finished job

ASSUME ProvidersAssumption ==
    /\ {Primary, Fallback} \subseteq {"none", "openai", "gemini", "anthropic"}
    /\ Requested \subseteq Requests \ {"question"}
ASSUME MessagesAssumption == NoMessage \notin Messages /\ IsFiniteSet(Messages)
ASSUME CallBounds ==
    /\ IsFiniteSet(Slots)
    /\ Ceiling \in Nat \ {0} /\ MaxCost \in Nat \ {0} /\ MaxAttempts \in Nat \ {0}
    /\ Batch \in Nat \ {0} /\ MaxDays \in Nat \ {0} /\ MaxRequests \in Nat
ASSUME CallDisturbances == Disturbances \subseteq DisturbanceKinds /\ MaxDisturbed \in Nat

VARIABLES
    day,
    row,        \* email_messages
    summarised, \* message_analyses
    embedded,   \* message_embeddings
    job, tries, \* the AI queue
    meter,      \* ai_usage_records of the day
    slot,       \* where each task is
    asked,      \* requests made so far
    sweep,      \* where the backfill is, and the messages it is to queue
    backfilled, \* embeddingBackfilledAt
    bill,       \* history: what providers have charged since midnight
    escaped,    \* history: calls let through unread, or charged and never recorded
    bought,     \* history: embeddings charged for, but for those lost before they were stored
    looked,     \* history: messages there were when the sweep found none to embed
    disturbed

mailVars == <<row, summarised, embedded>>
queueVars == <<job, tries>>
sweepVars == <<sweep, backfilled, looked>>
costVars == <<bill, escaped, bought>>
vars == <<day, mailVars, queueVars, meter, slot, asked, sweepVars, costVars, disturbed>>

Kinds == {"analyse", "embed"}
Steps == {"idle", "has", "budget", "read", "call", "failover", "save", "record", "notify", "queue"}
Tasks == Kinds \cup Requests
Task == [step : Steps, task : Tasks \cup {"none"}, of : Messages \cup {NoMessage}, cost : 0..MaxCost]
Idle == [step |-> "idle", task |-> "none", of |-> NoMessage, cost |-> 0]

TypeOK ==
    /\ day \in 1..MaxDays
    /\ row \in [Messages -> {"none", "stored", "gone"}]
    /\ summarised \subseteq Messages /\ embedded \subseteq Messages
    /\ job \in [Kinds \X Messages -> {"none", "waiting", "active", "done", "dead"}]
    /\ tries \in [Kinds \X Messages -> 0..MaxAttempts]
    /\ meter \in Nat /\ bill \in Nat /\ escaped \in Nat
    /\ slot \in [Slots -> Task]
    /\ asked \in 0..MaxRequests
    /\ sweep \in [step : {"idle", "queue", "mark"}, list : SUBSET Messages]
    /\ backfilled \in BOOLEAN /\ looked \subseteq Messages
    /\ bought \in [Messages -> Nat]
    /\ disturbed \in 0..MaxDisturbed

\* Some mail is older than the feature: it has a row, and no job ever ran for it.
Init ==
    /\ day = 1
    /\ row \in [Messages -> {"none", "stored"}]
    /\ summarised = {} /\ embedded = {}
    /\ job = [j \in Kinds \X Messages |-> "none"] /\ tries = [j \in Kinds \X Messages |-> 0]
    /\ meter = 0
    /\ slot = [s \in Slots |-> Idle]
    /\ asked = 0
    /\ sweep = [step |-> "idle", list |-> {}] /\ backfilled = FALSE /\ looked = {}
    /\ bill = 0 /\ escaped = 0
    /\ bought = [m \in Messages |-> 0]
    /\ disturbed = 0

At(s, step) == slot[s].step = step
IsJob(s) == slot[s].task \in Kinds
JobOf(s) == <<slot[s].task, slot[s].of>>
Goto(s, step) == slot' = [slot EXCEPT ![s].step = step]
GotoOwing(s, step, cost) == slot' = [slot EXCEPT ![s] = [@ EXCEPT !.step = step, !.cost = cost]]
Free(s) == slot' = [slot EXCEPT ![s] = Idle]
Disturb(kind) == kind \in Disturbances /\ disturbed < MaxDisturbed /\ disturbed' = disturbed + 1

\* The embedding provider: the primary when it can, else the fallback.  One
\* adapter speaks.
CanEmbed(provider) == provider \in {"openai", "gemini"}
CanSpeak(provider) == provider = "openai"
Embedder == IF CanEmbed(Primary) THEN Primary ELSE Fallback
Embeds == CanEmbed(Embedder)

(***************************************************************************)
(* What each task goes through.  A search embeds its words, a question     *)
(* ("query") does and then asks a model about what was found ("question"). *)
(***************************************************************************)
Analyze == <<"budget", "read", "call", "save", "record", "notify", "queue">>
Embed == <<"has", "budget", "read", "call", "save", "record">>
Summarize == <<"has", "budget", "read", "call", "save", "record">>
Translate == <<"budget", "read", "call", "record">>
DraftReply == <<"budget", "read", "call", "record">>
ReadAloud == <<"budget", "read", "call", "record">>
QueryVector == <<"budget", "call", "record">>
AnswerQuestionFrom == <<"budget", "read", "call", "record">>

Path(task) ==
    CASE task = "analyse"     -> Analyze
      [] task = "embed"       -> Embed
      [] task = "summary"     -> Summarize
      [] task = "translation" -> Translate
      [] task = "draft"       -> DraftReply
      [] task = "speech"      -> ReadAloud
      [] task = "question"    -> AnswerQuestionFrom
      [] task \in {"search", "query"} -> QueryVector

Following(s) ==
    LET path == Path(slot[s].task)
        here == CHOOSE i \in DOMAIN path :
                    path[i] = IF At(s, "failover") THEN "call" ELSE slot[s].step IN
    path[here + 1]
Advance(s) == Goto(s, Following(s))

(***************************************************************************)
(* How a task ends.  A job's error is retried while it has attempts left;  *)
(* an analysis that may not be retried goes on to announce the message     *)
(* without a summary.  A request's error is told to the user.              *)
(***************************************************************************)
Complete(s) ==
    /\ Free(s)
    /\ job' = IF IsJob(s) THEN [job EXCEPT ![JobOf(s)] = "done"] ELSE job
    /\ UNCHANGED tries

LastAttempt(s) == tries[JobOf(s)] + 1 >= MaxAttempts
FailJob(s, retryable) ==
    /\ Free(s)
    /\ job' = [job EXCEPT ![JobOf(s)] = IF retryable /\ ~LastAttempt(s) THEN "waiting" ELSE "dead"]
    /\ tries' = [tries EXCEPT ![JobOf(s)] = @ + 1]

Fail(s, retryable) ==
    CASE ~IsJob(s) -> Free(s) /\ UNCHANGED queueVars
      [] slot[s].task = "embed" -> FailJob(s, retryable)
      [] slot[s].task = "analyse" ->
            IF retryable /\ ~LastAttempt(s) THEN FailJob(s, TRUE)
            ELSE GotoOwing(s, "notify", 0) /\ UNCHANGED queueVars

\* There is nothing to do for this task after all.
Skip(s) == IF slot[s].task = "analyse" THEN Goto(s, "notify") /\ UNCHANGED queueVars ELSE Complete(s)

\* What was charged and is not recorded any more.
Lose(s) == escaped' = escaped + IF slot[s].cost > 0 THEN 1 ELSE 0
Waste(s) == bought' = IF slot[s].task = "embed" /\ At(s, "save")
                      THEN [bought EXCEPT ![slot[s].of] = @ - 1] ELSE bought

(***************************************************************************)
(* Mail, jobs and requests as they come.                                   *)
(***************************************************************************)
Enqueue(j) == job' = IF job[j] = "none" THEN [job EXCEPT ![j] = "waiting"] ELSE job

Arrive(m) ==
    /\ row[m] = "none" /\ row' = [row EXCEPT ![m] = "stored"]
    /\ Enqueue(<<"analyse", m>>)
    /\ UNCHANGED <<day, summarised, embedded, tries, meter, slot, asked, sweepVars, costVars, disturbed>>

Purge(m) ==
    /\ row[m] = "stored" /\ row' = [row EXCEPT ![m] = "gone"]
    /\ summarised' = summarised \ {m} /\ embedded' = embedded \ {m}
    /\ UNCHANGED <<day, queueVars, meter, slot, asked, sweepVars, costVars, disturbed>>

Midnight ==
    /\ day < MaxDays /\ day' = day + 1
    /\ meter' = 0 /\ bill' = 0
    /\ UNCHANGED <<mailVars, queueVars, slot, asked, sweepVars, escaped, bought, disturbed>>

\* A job starts from its beginning; without a provider there is little to it.
TakeJob(s, j) ==
    /\ At(s, "idle") /\ job[j] = "waiting"
    /\ job' = [job EXCEPT ![j] = "active"]
    /\ slot' = [slot EXCEPT ![s] = [step |-> CASE j[1] = "embed" -> IF Embeds THEN "has" ELSE "queue"
                                               [] j[1] = "analyse" -> IF Primary # "none" THEN "budget" ELSE "notify",
                                    task |-> j[1], of |-> j[2], cost |-> 0]]
    /\ UNCHANGED <<day, mailVars, tries, meter, asked, sweepVars, costVars, disturbed>>

Forget(j) ==
    /\ job[j] \in {"done", "dead"} /\ Disturb("evicted")
    /\ job' = [job EXCEPT ![j] = "none"] /\ tries' = [tries EXCEPT ![j] = 0]
    /\ UNCHANGED <<day, mailVars, meter, slot, asked, sweepVars, costVars>>

\* A question is preceded by a search, whose words are embedded when they can be.
Ask(s, request, m) ==
    /\ At(s, "idle") /\ Primary # "none" /\ asked < MaxRequests
    /\ request \in Requested /\ row[m] # "none"
    /\ request = "speech" => CanSpeak(Primary)
    /\ request = "search" => Embeds
    /\ asked' = asked + 1
    /\ LET task == IF request = "query" /\ ~Embeds THEN "question" ELSE request IN
       slot' = [slot EXCEPT ![s] = [step |-> Path(task)[1], task |-> task, of |-> m, cost |-> 0]]
    /\ UNCHANGED <<day, mailVars, queueVars, meter, sweepVars, costVars, disturbed>>

(***************************************************************************)
(* Before the call: is it there already, is it affordable, is the message. *)
(***************************************************************************)
\* Wrong: an embedding is bought whether there is one or not.
NeverThere(s) == FALSE

Has(s) == slot[s].of \in IF slot[s].task = "embed" THEN embedded ELSE summarised

FindStored(s) ==
    /\ At(s, "has")
    /\ IF Has(s) THEN Complete(s) ELSE Advance(s) /\ UNCHANGED queueVars
    /\ UNCHANGED <<day, mailVars, meter, asked, sweepVars, costVars, disturbed>>

\* Wrong: the ceiling is the first count that is too much.
AboveCeiling == meter > Ceiling

IsOverBudget == meter >= Ceiling

\* With or without a vector the mailbox is searched, and a question goes on to
\* the model.
Queries == {"search", "query"}
Searched(s) ==
    /\ slot' = [slot EXCEPT ![s] = IF slot[s].task = "search" THEN Idle
                                   ELSE [@ EXCEPT !.task = "question", !.step = "budget", !.cost = 0]]
    /\ UNCHANGED queueVars

AssertAffordable(s) ==
    /\ At(s, "budget")
    /\ IF ~IsOverBudget THEN Advance(s) /\ UNCHANGED queueVars
       ELSE IF slot[s].task \in Queries THEN Searched(s)
       ELSE Skip(s)
    /\ UNCHANGED <<day, mailVars, meter, asked, sweepVars, costVars, disturbed>>

\* "Could not read the token budget; proceeding."
ProceedUnchecked(s) ==
    /\ At(s, "budget") /\ Disturb("database")
    /\ Advance(s)
    /\ escaped' = escaped + 1
    /\ UNCHANGED <<day, mailVars, queueVars, meter, asked, sweepVars, bill, bought>>

\* A question's sources fall back to their snippets when their rows are gone.
FindForAnalysis(s) ==
    /\ At(s, "read")
    /\ IF row[slot[s].of] = "stored" \/ slot[s].task = "question"
       THEN Advance(s) /\ UNCHANGED queueVars
       ELSE Skip(s)
    /\ UNCHANGED <<day, mailVars, meter, asked, sweepVars, costVars, disturbed>>

(***************************************************************************)
(* The call, and what comes of it.  An analysis is asked of the fallback   *)
(* once when the primary's error is one that another try could cure.       *)
(***************************************************************************)
Calling(s) == At(s, "call") \/ At(s, "failover")
Vectors(s) == slot[s].task \in {"embed"} \cup Queries
Provider(s) == IF Vectors(s) THEN Embedder
               ELSE IF At(s, "failover") THEN Fallback ELSE Primary

\* How each adapter reads a reply.  OpenAI's does not ask why the model stopped,
\* Gemini's asks and gives up on a filter, Anthropic's asks about length alone.
OpenAi(reply) ==
    CASE reply = "cut"                   -> "prose"
      [] reply \in {"empty", "filtered"} -> "unusable"
      [] OTHER                           -> reply
Gemini(reply) ==
    CASE reply \in {"empty", "cut"} -> "unusable"
      [] reply = "filtered"         -> "blocked"
      [] OTHER                      -> reply
Anthropic(reply) == IF reply \in {"empty", "cut", "filtered"} THEN "unusable" ELSE reply
OpenAiVector(reply) == CASE reply = "empty" -> "unusable" [] reply = "notFinite" -> "blocked" [] OTHER -> reply
OpenAiSpeech(reply) == IF reply = "empty" THEN "unusable" ELSE reply
GeminiVector(reply) == CASE reply = "empty" -> "unusable" [] reply = "notFinite" -> "blocked" [] OTHER -> reply

\* A completion that timed out may have been charged all the same.
HttpError(reading) ==
    CASE reading = "late" -> "unusable"
      [] reading \in {"unreachable", "busy"} -> "away"
      [] OTHER -> reading

\* An answer of its own accord is the right one.  Where JSON was asked for prose
\* will not do, and nothing can be cut out of it.
ExtractJson(reading) == IF reading = "prose" THEN "unusable" ELSE reading
AnalyzeEmail(reading) == ExtractJson(reading)
AnswerQuestion(reading) == ExtractJson(reading)
EmbedEmail(reading) == reading
Draft(reading) == IF reading = "prose" THEN "good" ELSE reading
TranslateEmail(reading) == IF reading = "prose" THEN "good" ELSE reading

Reading(s, reply) ==
    HttpError(
        CASE slot[s].task = "speech"    -> OpenAiSpeech(reply)
          [] Provider(s) = "openai"     -> IF Vectors(s) THEN OpenAiVector(reply) ELSE OpenAi(reply)
          [] Provider(s) = "gemini"     -> IF Vectors(s) THEN GeminiVector(reply) ELSE Gemini(reply)
          [] Provider(s) = "anthropic"  -> Anthropic(reply))
Verdict(s, reply) ==
    CASE slot[s].task \in {"analyse", "summary"} -> AnalyzeEmail(Reading(s, reply))
      [] slot[s].task = "question"               -> AnswerQuestion(Reading(s, reply))
      [] slot[s].task = "draft"                  -> Draft(Reading(s, reply))
      [] slot[s].task = "translation"            -> TranslateEmail(Reading(s, reply))
      [] Vectors(s)                              -> EmbedEmail(Reading(s, reply))
      [] OTHER                                   -> Reading(s, reply)

\* A vector or a sound is not prose, is not cut or filtered; only vectors hold numbers.
Strange(s) ==
    CASE Vectors(s)               -> OddReplies \ {"prose", "cut", "filtered"}
      [] slot[s].task = "speech"  -> OddReplies \ {"prose", "cut", "filtered", "notFinite"}
      [] OTHER                    -> OddReplies \ {"notFinite"}

Answered(s) ==
    /\ Calling(s)
    /\ \/ UNCHANGED disturbed
       \/ \E reply \in Strange(s) : Verdict(s, reply) = "good" /\ Disturb(reply)
    /\ \E cost \in 1..MaxCost :
          /\ bill' = bill + cost
          /\ GotoOwing(s, Following(s), cost)
    /\ bought' = IF slot[s].task = "embed" THEN [bought EXCEPT ![slot[s].of] = @ + 1] ELSE bought
    /\ UNCHANGED <<day, mailVars, queueVars, meter, asked, sweepVars, escaped>>

\* A query's error is swallowed, an analysis is tried again elsewhere.
CallFailed(s, retryable) ==
    IF slot[s].task \in Queries THEN Searched(s)
    ELSE IF slot[s].task = "analyse" /\ At(s, "call") /\ Fallback # "none" /\ retryable
         THEN Goto(s, "failover") /\ UNCHANGED queueVars
         ELSE Fail(s, retryable)

\* A completion that is paid for and thrown away: what it cost is never recorded.
Discarded(s) ==
    /\ Calling(s)
    /\ \E reply \in Strange(s), cost \in 1..MaxCost :
          /\ Verdict(s, reply) \in {"unusable", "blocked"} /\ Disturb(reply)
          /\ bill' = bill + cost
          /\ CallFailed(s, Verdict(s, reply) = "unusable")
    /\ escaped' = escaped + 1
    /\ UNCHANGED <<day, mailVars, meter, asked, sweepVars, bought>>

Refused(s) ==
    /\ Calling(s)
    /\ \E reply \in Strange(s) :
          /\ Verdict(s, reply) \in {"away", "denied"} /\ Disturb(reply)
          /\ CallFailed(s, Verdict(s, reply) = "away")
    /\ UNCHANGED <<day, mailVars, meter, asked, sweepVars, costVars>>

(***************************************************************************)
(* After it: the result is stored, then the cost recorded.                 *)
(***************************************************************************)
\* An embedding is inserted from its message's row: without one it does nothing.
SaveEmbedding(s) ==
    /\ embedded' = IF row[slot[s].of] = "stored" THEN embedded \cup {slot[s].of} ELSE embedded
    /\ Advance(s)
    /\ UNCHANGED <<summarised, queueVars, costVars>>

\* An analysis has a foreign key to it: without one it fails.
SaveAnalysis(s) ==
    /\ IF row[slot[s].of] = "stored"
       THEN /\ summarised' = summarised \cup {slot[s].of}
            /\ Advance(s)
            /\ UNCHANGED <<queueVars, costVars>>
       ELSE /\ Fail(s, TRUE) /\ Lose(s)
            /\ UNCHANGED <<summarised, bill, bought>>
    /\ UNCHANGED embedded

Save(s) ==
    /\ At(s, "save")
    /\ IF slot[s].task = "embed" THEN SaveEmbedding(s) ELSE SaveAnalysis(s)
    /\ UNCHANGED <<day, row, meter, asked, sweepVars, disturbed>>

\* Midnight may have passed since the call: the cost is the new day's.
RecordUsage(s) ==
    /\ At(s, "record")
    /\ meter' = meter + slot[s].cost
    /\ CASE slot[s].task = "analyse"  -> GotoOwing(s, "notify", 0) /\ UNCHANGED queueVars
         [] slot[s].task \in Queries  -> Searched(s)
         [] OTHER                     -> Complete(s)
    /\ UNCHANGED <<day, mailVars, asked, sweepVars, costVars, disturbed>>

\* The database fails one of the steps that are not allowed to fail.
StepFails(s) ==
    /\ slot[s].step \in {"has", "read", "save", "record"} /\ Disturb("database")
    /\ Lose(s) /\ Waste(s)
    /\ IF slot[s].task \in Queries THEN Searched(s)
       ELSE IF At(s, "read") /\ slot[s].task = "question" THEN Goto(s, "call") /\ UNCHANGED queueVars
       ELSE Fail(s, TRUE)
    /\ UNCHANGED <<day, mailVars, meter, asked, sweepVars, bill>>

Notify(s) ==
    /\ At(s, "notify")
    /\ \/ Goto(s, "queue") /\ UNCHANGED <<queueVars, disturbed>>
       \/ Disturb("redis") /\ FailJob(s, TRUE)
    /\ UNCHANGED <<day, mailVars, meter, asked, sweepVars, costVars>>

\* The last step of a job: an analysis queues its message's embedding, if Redis will.
QueueEmbedding(s) ==
    /\ At(s, "queue") /\ Free(s)
    /\ LET done == [job EXCEPT ![JobOf(s)] = "done"]
           next == <<"embed", slot[s].of>> IN
       \/ /\ job' = IF slot[s].task = "analyse" /\ job[next] = "none"
                    THEN [done EXCEPT ![next] = "waiting"] ELSE done
          /\ UNCHANGED disturbed
       \/ slot[s].task = "analyse" /\ Disturb("redis") /\ job' = done
    /\ UNCHANGED <<day, mailVars, tries, meter, asked, sweepVars, costVars>>

\* The worker dies; BullMQ hands the job out again, and the user is not answered.
Crash(s) ==
    /\ ~At(s, "idle") /\ Disturb("crash")
    /\ Lose(s) /\ Waste(s)
    /\ Free(s)
    /\ job' = IF IsJob(s) THEN [job EXCEPT ![JobOf(s)] = "waiting"] ELSE job
    /\ UNCHANGED <<day, mailVars, tries, meter, asked, sweepVars, bill>>

(***************************************************************************)
(* The sweep over the mail from before.                                    *)
(***************************************************************************)
Stored == {m \in Messages : row[m] = "stored"}
FindUnembedded(list) ==
    /\ list \subseteq Stored \ embedded
    /\ Cardinality(list) = IF Cardinality(Stored \ embedded) < Batch
                           THEN Cardinality(Stored \ embedded) ELSE Batch

Look(list) ==
    /\ sweep.step = "idle" /\ ~backfilled /\ ~IsOverBudget
    /\ FindUnembedded(list)
    /\ sweep' = [step |-> IF list = {} THEN "mark" ELSE "queue", list |-> list]
    /\ looked' = Stored
    /\ UNCHANGED <<day, mailVars, queueVars, meter, slot, asked, backfilled, costVars, disturbed>>

\* Wrong: what was queued counts as done.
QueueBackfillAndMark(m) ==
    /\ sweep.step = "queue" /\ m \in sweep.list
    /\ LET left == sweep.list \ {m} IN
       \/ /\ Enqueue(<<"embed", m>>)
          /\ sweep' = [step |-> IF left = {} THEN "mark" ELSE "queue", list |-> left]
          /\ UNCHANGED disturbed
       \/ /\ Disturb("redis") /\ sweep' = [step |-> "idle", list |-> {}]
          /\ UNCHANGED job
    /\ UNCHANGED <<day, mailVars, tries, meter, slot, asked, backfilled, looked, costVars>>

QueueBackfill(m) ==
    /\ sweep.step = "queue" /\ m \in sweep.list
    /\ LET left == sweep.list \ {m} IN
       \/ /\ Enqueue(<<"embed", m>>)
          /\ sweep' = [step |-> IF left = {} THEN "idle" ELSE "queue", list |-> left]
          /\ UNCHANGED disturbed
       \/ /\ Disturb("redis") /\ sweep' = [step |-> "idle", list |-> {}]
          /\ UNCHANGED job
    /\ UNCHANGED <<day, mailVars, tries, meter, slot, asked, backfilled, looked, costVars>>

MarkBackfilled ==
    /\ sweep.step = "mark"
    /\ backfilled' = TRUE /\ sweep' = [step |-> "idle", list |-> {}]
    /\ UNCHANGED <<day, mailVars, queueVars, meter, slot, asked, looked, costVars, disturbed>>

Come == \/ \E m \in Messages : Arrive(m) \/ Purge(m)
        \/ \E j \in Kinds \X Messages : Forget(j)
Start(s) == \/ \E j \in Kinds \X Messages : TakeJob(s, j)
            \/ \E request \in Requested, m \in Messages : Ask(s, request, m)
Work(s) ==
    \/ FindStored(s) \/ AssertAffordable(s) \/ ProceedUnchecked(s) \/ FindForAnalysis(s)
    \/ Answered(s) \/ Discarded(s) \/ Refused(s)
    \/ Save(s) \/ RecordUsage(s) \/ StepFails(s) \/ Notify(s) \/ QueueEmbedding(s) \/ Crash(s)
Backfill == \/ \E list \in SUBSET Messages : Look(list)
            \/ \E m \in Messages : QueueBackfill(m)
            \/ MarkBackfilled

Next == Come \/ Midnight \/ Backfill \/ \E s \in Slots : Start(s) \/ Work(s)

Spec == Init /\ [][Next]_vars

(***************************************************************************)
(* Properties.                                                             *)
(***************************************************************************)
\* The daily allowance is checked before a call and written after it, by
\* several tasks at once: what providers charge between two midnights passes
\* the ceiling by at most one call for each task in flight, besides the calls
\* that went ahead unchecked and those whose cost was never recorded.
SpendBounded ==
    bill <= Ceiling - 1 + MaxCost * (Cardinality(Slots) + escaped)

\* A message's embedding is paid for once, however often its job is queued (by
\* ingest, by the sweep, again when Redis forgot it); an attempt that broke
\* between paying and storing is not counted.
BoughtOnce == \A m \in Messages : bought[m] <= 1

\* A mailbox is marked done for ever only when every message the sweep could
\* see had its vector: work that was queued does not count.
BackfillCovers == backfilled => \A m \in looked : m \in embedded \/ row[m] = "gone"
=============================================================================
