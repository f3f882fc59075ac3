---------------------------- MODULE Conversation ----------------------------
(***************************************************************************)
(* What one user says in the chat and what becomes of it: the webhook's    *)
(* job for each message, CommandsProcessor, the row of conversation_states *)
(* they all read and write (the email being talked about, the question     *)
(* waiting for a tap, the action an undo takes back), the files held for   *)
(* the next email and the drafts that are written.                         *)
(*                                                                         *)
(* One action is one awaited step.  Jobs of one user run side by side, at  *)
(* most Concurrency of them: the worker does not serialise a user.  A      *)
(* transaction that reads and then writes the row is two steps, because    *)
(* the database runs at READ COMMITTED.  A draft that was queued leaves in *)
(* one step here; SendPipeline is about that step.  Time is counted in     *)
(* half hours, the life of the conversation's state.                       *)
(***************************************************************************)
EXTENDS Integers, FiniteSets

CONSTANTS
    Emails,        \* rows of email_messages, all of them shown in the chat
    COMPOSE,       \* COMPOSE_TARGET: the id a new email's buttons carry
    NoEmail,
    Typed,         \* what the user types,
    Voiced,        \* says in a voice note,
    Captions,      \* writes under a file ("none" is no caption)
    Tapped,        \* and taps, in this instance
    MaxMessages,   \* how many messages the user sends
    Concurrency,   \* how many of them are handled at once (40 in the code)
    MaxHeld,       \* MAX_PENDING_FILES (10 in the code)
    MaxAttempts,   \* QUEUE_DEFAULTS.commands.attempts (3 in the code)
    MaxClock,      \* how many half hours pass
    Disturbances, MaxDisturbed

DisturbanceKinds == {
    "db",        \* a transaction fails outside attempt(): the job is retried
    "service",   \* what attempt() runs fails: the user is told
    "enqueue",   \* Redis refuses the job of a draft that is written
    "whatsapp",  \* WhatsApp does not take the answer
    "record",    \* the answer is out, and recording it fails
    "crash",     \* the worker dies in the middle of a job
    "lost",      \* the webhook acknowledged a message and could not enqueue it
    "purge" }    \* retention deletes an email

TypedVerbs == {"reply", "forward", "draft", "compose", "archive", "undo", "drop", "cancel",
               "search", "read"}
TapVerbs == {"send", "edit", "cancel", "yes", "delete", "confirm_delete", "undo"}

ASSUME VerbsAssumption ==
    /\ Typed \subseteq TypedVerbs /\ Voiced \subseteq TypedVerbs
    /\ Captions \subseteq TypedVerbs \cup {"none"} /\ Tapped \subseteq TapVerbs
ASSUME NamesAssumption ==
    COMPOSE \notin Emails /\ NoEmail \notin Emails /\ NoEmail # COMPOSE
ASSUME BoundsAssumption ==
    /\ MaxMessages \in Nat /\ Concurrency \in Nat \ {0} /\ MaxHeld \in Nat
    /\ MaxAttempts \in Nat \ {0} /\ MaxClock \in Nat
ASSUME DisturbancesAssumption == Disturbances \subseteq DisturbanceKinds /\ MaxDisturbed \in Nat

Messages == 1..MaxMessages
Targets == Emails \cup {COMPOSE}

\* A run of a message's job: each attempt, and one more for a crash.
Runs == Messages \X (1..MaxAttempts + 1)

\* pendingOptions: what the user was asked to confirm, and the run that asked.
Asks == [kind : {"reply", "forward", "compose"}, about : Targets, run : Runs]
NoAsk == [kind |-> "none", about |-> NoEmail, run |-> <<0, 0>>]

\* lastAction: what was done, to which email, by which run and when.
Actions == [verb : {"archive", "delete", "send"}, about : Targets, run : Runs, at : 0..MaxClock]
NoAction == [verb |-> "none", about |-> NoEmail, run |-> <<0, 0>>, at |-> 0]

VARIABLES
    clock,
    message,    \* what the user sent, and when
    job, tries, crashed,
    here,       \* the handler's local state: step, email, question, action, answer
    active,     \* activeEmailMessageId
    expires,    \* expiresAt
    slot,       \* pendingAction and pendingOptions
    last,       \* lastAction
    place,      \* where an email is
    file,       \* staged_attachments, by the message that brought the file
    drafts,     \* the draft a run wrote: its words and what became of it
    put,        \* history: the questions that were put into the slot,
    cards,      \* and the ones the user has been shown
    heard,      \* history: what the user was answered
    reversed,   \* history: how often a run's action was undone
    disturbed

convVars == <<active, expires, slot, last>>
jobVars == <<job, tries, crashed>>
mailVars == <<place, file, drafts>>
historyVars == <<put, cards, heard, reversed>>
worldVars == <<clock, message>>
vars == <<worldVars, jobVars, here, convVars, mailVars, historyVars, disturbed>>

Kinds == {"none", "text", "voice", "file", "tap"}
JobStates == {"absent", "lost", "waiting", "active", "completed", "dead"}
Steps == {"idle", "touch", "listen", "measure", "stage", "query", "read", "resolve", "subject", "focus", "ask",
          "draft", "take", "clear", "compose", "enqueue", "act", "remember", "undo", "undoClear",
          "reverse", "drop", "withdraw", "answer"}
Answers == {"none", "echo", "done", "sending", "card", "which", "expired", "cancelled", "gone", "held",
            "refused", "nothing", "late", "already", "error"}
DraftStates == {"none", "unqueued", "queued", "gone", "cancelled"}

Message == [kind : Kinds, verb : TypedVerbs \cup TapVerbs \cup {"none"},
            about : Targets \cup {NoEmail}, card : Asks \cup {NoAsk}, at : 0..MaxClock]
Silence == [kind |-> "none", verb |-> "none", about |-> NoEmail, card |-> NoAsk, at |-> 0]
Local == [step : Steps, on : Targets \cup {NoEmail}, ask : Asks \cup {NoAsk},
          action : Actions \cup {NoAction}, say : Answers]
Idle == [step |-> "idle", on |-> NoEmail, ask |-> NoAsk, action |-> NoAction, say |-> "none"]
NoDraft == [words |-> NoAsk, state |-> "none"]

TypeOK ==
    /\ clock \in 0..MaxClock
    /\ message \in [Messages -> Message]
    /\ job \in [Messages -> JobStates]
    /\ tries \in [Messages -> 0..MaxAttempts]
    /\ crashed \subseteq Messages
    /\ here \in [Messages -> Local]
    /\ active \in Emails \cup {NoEmail}
    /\ expires \in 0..MaxClock + 1
    /\ slot \in Asks \cup {NoAsk}
    /\ last \in Actions \cup {NoAction}
    /\ place \in [Emails -> {"inbox", "archived", "trash", "gone"}]
    /\ file \in [Messages -> {"none", "held", "carried", "expired"}]
    /\ drafts \in [Runs -> [words : Asks \cup {NoAsk}, state : DraftStates]]
    /\ put \subseteq Asks /\ cards \subseteq Asks
    /\ heard \in [Messages -> SUBSET Answers]
    /\ reversed \in [Runs -> Nat]
    /\ disturbed \in 0..MaxDisturbed

Init ==
    /\ clock = 0
    /\ message = [m \in Messages |-> Silence]
    /\ job = [m \in Messages |-> "absent"]
    /\ tries = [m \in Messages |-> 0]
    /\ crashed = {}
    /\ here = [m \in Messages |-> Idle]
    /\ active = NoEmail /\ expires = 0 /\ slot = NoAsk /\ last = NoAction
    /\ place = [e \in Emails |-> "inbox"]
    /\ file = [m \in Messages |-> "none"]
    /\ drafts = [r \in Runs |-> NoDraft]
    /\ put = {} /\ cards = {}
    /\ heard = [m \in Messages |-> {}]
    /\ reversed = [r \in Runs |-> 0]
    /\ disturbed = 0

Disturb(kind) ==
    /\ kind \in Disturbances
    /\ disturbed < MaxDisturbed
    /\ disturbed' = disturbed + 1

Undisturbed == UNCHANGED disturbed

-----------------------------------------------------------------------------
(***************************************************************************)
(* The user, the clock, retention, and the workers of the send queue.      *)
(***************************************************************************)

\* The messages the user can send now.  Typed words may quote a card; a button
\* is on a card that was shown, and carries the card's target and no more.
Sayable ==
    [kind : {"text"}, verb : Typed, about : Emails \cup {NoEmail}, card : {NoAsk}, at : {clock}]
    \cup [kind : {"voice"}, verb : Voiced, about : {NoEmail}, card : {NoAsk}, at : {clock}]
    \cup [kind : {"file"}, verb : Captions, about : {NoEmail}, card : {NoAsk}, at : {clock}]
    \cup [kind : {"tap"}, verb : Tapped \ {"send", "edit", "cancel"}, about : Emails,
          card : {NoAsk}, at : {clock}]
    \cup UNION {[kind : {"tap"}, verb : Tapped \cap {"send", "edit", "cancel"}, about : {c.about},
                 card : {c}, at : {clock}] : c \in cards}

\* The webhook answers Meta before it enqueues, so a refusal loses the message.
\* A redelivery meets the job's id and adds nothing.
Receive(m) ==
    /\ message[m] = Silence /\ \A n \in Messages : n < m => message[n] # Silence
    /\ \E said \in Sayable : message' = [message EXCEPT ![m] = said]
    /\ \/ job' = [job EXCEPT ![m] = "waiting"] /\ Undisturbed
       \/ job' = [job EXCEPT ![m] = "lost"] /\ Disturb("lost")
    /\ UNCHANGED <<clock, tries, crashed, here, convVars, mailVars, historyVars>>

Tick ==
    /\ clock < MaxClock
    /\ clock' = clock + 1
    /\ UNCHANGED <<message, jobVars, here, convVars, mailVars, historyVars, disturbed>>

\* STAGED_ATTACHMENT_TTL_MS is over: the row stays and is no longer pending.
ExpireFile(m) ==
    /\ file[m] = "held" /\ clock > message[m].at
    /\ file' = [file EXCEPT ![m] = "expired"]
    /\ UNCHANGED <<worldVars, jobVars, here, convVars, place, drafts, historyVars, disturbed>>

\* An email's row is deleted, and its deliveries with it.  The conversation
\* refers to it by a column without a foreign key: the reference stays.
Purge(e) ==
    /\ place[e] # "gone" /\ Disturb("purge")
    /\ place' = [place EXCEPT ![e] = "gone"]
    /\ UNCHANGED <<worldVars, jobVars, here, convVars, file, drafts, historyVars>>

\* A send worker claims a queued draft: from here on no undo can stop it.
Depart(r) ==
    /\ drafts[r].state = "queued"
    /\ drafts' = [drafts EXCEPT ![r].state = "gone"]
    /\ UNCHANGED <<worldVars, jobVars, here, convVars, place, file, historyVars, disturbed>>

-----------------------------------------------------------------------------
(***************************************************************************)
(* A job and its handler.                                                  *)
(***************************************************************************)

Running == {m \in Messages : job[m] = "active"}
At(m, s) == here[m].step = s

\* The run of m that is under way.
Run(m) == <<m, tries[m] + 1 + IF m \in crashed THEN 1 ELSE 0>>

Goto(m, s) == here' = [here EXCEPT ![m].step = s]
Say(m, words) == here' = [here EXCEPT ![m].step = "answer", ![m].say = words]

TakeJob(m) ==
    /\ job[m] = "waiting" /\ Cardinality(Running) < Concurrency
    /\ job' = [job EXCEPT ![m] = "active"]
    /\ Goto(m, "touch")
    /\ UNCHANGED <<worldVars, tries, crashed, convVars, mailVars, historyVars, disturbed>>

Leave(m, state) ==
    /\ job' = [job EXCEPT ![m] = state]
    /\ here' = [here EXCEPT ![m] = Idle]

Complete(m) == Leave(m, "completed") /\ UNCHANGED <<tries, crashed>>

\* Wrong: a failed attempt is not counted.
ThrowUncounted(m, retryable) ==
    /\ Leave(m, IF retryable /\ tries[m] + 1 < MaxAttempts THEN "waiting" ELSE "dead")
    /\ UNCHANGED <<tries, crashed>>

\* A retryable error is retried while attempts remain, any other discarded.
Throw(m, retryable) ==
    /\ tries' = [tries EXCEPT ![m] = @ + 1]
    /\ Leave(m, IF retryable /\ tries[m] + 1 < MaxAttempts THEN "waiting" ELSE "dead")
    /\ UNCHANGED crashed

\* The worker dies; BullMQ re-runs the job once.
Crash(m) ==
    /\ job[m] = "active" /\ Disturb("crash")
    /\ Leave(m, IF m \in crashed THEN "dead" ELSE "waiting")
    /\ crashed' = crashed \cup {m}
    /\ UNCHANGED <<worldVars, tries, convVars, mailVars, historyVars>>

\* A step outside attempt() throws: its transaction rolls back, the job fails.
OutsideAttempt == {"touch", "resolve", "subject", "focus", "ask", "take", "clear", "withdraw"}

StepFails(m) ==
    /\ here[m].step \in OutsideAttempt /\ Disturb("db")
    /\ Throw(m, TRUE)
    /\ UNCHANGED <<worldVars, convVars, mailVars, historyVars>>

\* A step inside attempt(), or a catch of its own: the failure is the answer.
InsideAttempt == {"listen", "measure", "stage", "query", "read", "draft", "compose", "enqueue", "act",
                  "undo", "undoClear", "reverse", "drop"}

AttemptFails(m) ==
    /\ here[m].step \in InsideAttempt
    /\ Disturb(IF At(m, "enqueue") THEN "enqueue" ELSE "service")
    /\ Say(m, "error")
    /\ UNCHANGED <<worldVars, jobVars, convVars, mailVars, historyVars>>

-----------------------------------------------------------------------------
(***************************************************************************)
(* handle: the window reopens, then the message is told apart.             *)
(***************************************************************************)

\* Where a command goes once it is known which words or button it is.
CommandStep(m) ==
    IF message[m].kind = "tap" THEN IF message[m].about = COMPOSE THEN "take" ELSE "subject"
    ELSE IF message[m].verb = "search" THEN "query" ELSE "resolve"

\* touchConversation: whatever the message is, the state lives on from it.
Touch(m) ==
    /\ At(m, "touch")
    /\ expires' = message[m].at + 1
    /\ Goto(m, CASE message[m].kind = "voice" -> "listen"
                 [] message[m].kind = "file"  -> "measure"
                 [] OTHER                     -> CommandStep(m))
    /\ UNCHANGED <<worldVars, jobVars, active, slot, last, mailVars, historyVars, disturbed>>

\* A voice note is transcribed, and the words said back before they are obeyed.
Listen(m) ==
    /\ At(m, "listen")
    /\ Say(m, "echo")
    /\ UNCHANGED <<worldVars, jobVars, convVars, mailVars, historyVars, disturbed>>

Held == {n \in Messages : file[n] = "held"}

\* Wrong: one file more than the limit is let in.
MeasureLoosely(m) ==
    /\ At(m, "measure")
    /\ IF Cardinality(Held) > MaxHeld THEN Say(m, "refused") ELSE Goto(m, "stage")
    /\ UNCHANGED <<worldVars, jobVars, convVars, mailVars, historyVars, disturbed>>

\* AttachmentStagingService.stage reads what is pending and decides on it.
Measure(m) ==
    /\ At(m, "measure")
    /\ IF Cardinality(Held) >= MaxHeld THEN Say(m, "refused") ELSE Goto(m, "stage")
    /\ UNCHANGED <<worldVars, jobVars, convVars, mailVars, historyVars, disturbed>>

\* The row is unique per message: a second run finds it and is silent.
Stage(m) ==
    /\ At(m, "stage")
    /\ IF file[m] # "none"
       THEN Complete(m) /\ UNCHANGED file
       ELSE /\ file' = [file EXCEPT ![m] = "held"]
            /\ IF message[m].verb = "none" THEN Say(m, "held") ELSE Goto(m, CommandStep(m))
            /\ UNCHANGED jobVars
    /\ UNCHANGED <<worldVars, convVars, place, drafts, historyVars, disturbed>>

\* answerQuery: search, lists and questions about the whole mailbox.
AnswerQuery(m) ==
    /\ At(m, "query")
    /\ Say(m, "done")
    /\ UNCHANGED <<worldVars, jobVars, convVars, mailVars, historyVars, disturbed>>

\* Summaries, translations, voice and files of one email.
Read(m) ==
    /\ At(m, "read")
    /\ Say(m, "done")
    /\ UNCHANGED <<worldVars, jobVars, convVars, mailVars, historyVars, disturbed>>

-----------------------------------------------------------------------------
(***************************************************************************)
(* Which email is meant: ThreadResolver's ladder, and the tap's target.    *)
(***************************************************************************)

\* findRecentCandidates: shown in the chat, and still in the inbox.
Recent == {e \in Emails : place[e] = "inbox"}

\* findEmailByDelivery, for a message that quotes a card.
Quoted(m) == message[m].about \in Emails /\ place[message[m].about] # "gone"

\* A quoted card, the live conversation, the only recent email, or nothing.
Resolution(m) ==
    IF Quoted(m) THEN message[m].about
    ELSE IF active # NoEmail /\ expires > clock THEN active
    ELSE IF Cardinality(Recent) = 1 THEN CHOOSE e \in Recent : TRUE
    ELSE NoEmail

\* planUntargeted: commands that concern no particular email.
Untargeted == {"compose", "undo", "drop", "cancel"}

\* ResponsePlanner: what is done about typed words.  Archiving stands for all
\* that changes a message and is undone by its inverse, reading for summaries,
\* translations and files, which change nothing.
PlanStep(verb) ==
    CASE verb = "reply"                  -> "compose"
      [] verb \in {"forward", "compose"} -> "ask"
      [] verb = "archive"                -> "act"
      [] verb = "cancel"                 -> "answer"
      [] OTHER                           -> verb

\* interpretTap: what is done about a button.
TapStep(verb) ==
    CASE verb = "send"           -> "take"
      [] verb = "yes"            -> "compose"
      [] verb = "confirm_delete" -> "act"
      [] verb = "cancel"         -> "withdraw"
      [] verb = "undo"           -> "undo"
      [] OTHER                   -> "answer"

VerbStep(m) == IF message[m].kind = "tap" THEN TapStep(message[m].verb) ELSE PlanStep(message[m].verb)

\* What is said when the plan has no effect to carry out.
VerbAnswer(m) == IF message[m].verb = "cancel" THEN "cancelled" ELSE "done"

\* carryOutTap, carryOutPlan: m's handler starts on what the user asked for.
Begin(m, e) ==
    here' = [here EXCEPT ![m].step = VerbStep(m), ![m].on = e,
                         ![m].say = IF VerbStep(m) = "answer" THEN VerbAnswer(m) ELSE @]

\* handleText: the mailbox a new email leaves from is picked on the way.
Resolve(m) ==
    /\ At(m, "resolve")
    /\ LET e == Resolution(m) IN
       \/ e # NoEmail /\ here' = [here EXCEPT ![m].step = "focus", ![m].on = e] /\ Undisturbed
       \/ e = NoEmail /\ message[m].verb \in Untargeted /\ Begin(m, e) /\ Undisturbed
       \/ e = NoEmail /\ message[m].verb \notin Untargeted /\ Say(m, "which") /\ Undisturbed
       \/ message[m].verb = "compose" /\ Disturb("service") /\ Say(m, "error")
    /\ UNCHANGED <<worldVars, jobVars, convVars, mailVars, historyVars>>

\* Wrong: a tap on an email that has gone ends without a word.
FindSubjectSilently(m) ==
    /\ At(m, "subject")
    /\ IF place[message[m].about] = "gone" THEN Complete(m)
       ELSE /\ here' = [here EXCEPT ![m].step = "focus", ![m].on = message[m].about]
            /\ UNCHANGED jobVars
    /\ UNCHANGED <<worldVars, convVars, mailVars, historyVars, disturbed>>

\* findSubject: a button may outlive its email.
FindSubject(m) ==
    /\ At(m, "subject")
    /\ IF place[message[m].about] = "gone" THEN Say(m, "gone")
       ELSE here' = [here EXCEPT ![m].step = "focus", ![m].on = message[m].about]
    /\ UNCHANGED <<worldVars, jobVars, convVars, mailVars, historyVars, disturbed>>

\* touchConversation again, now with the email.
Focus(m) ==
    /\ At(m, "focus")
    /\ active' = here[m].on
    /\ expires' = message[m].at + 1
    /\ Begin(m, here[m].on)
    /\ UNCHANGED <<worldVars, jobVars, slot, last, mailVars, historyVars, disturbed>>

-----------------------------------------------------------------------------
(***************************************************************************)
(* Asking for a confirmation, and taking it.                               *)
(***************************************************************************)

\* What a run puts to the user.
Question(m) ==
    [kind |-> IF message[m].verb = "draft" THEN "reply" ELSE message[m].verb,
     about |-> IF message[m].verb = "compose" THEN COMPOSE ELSE here[m].on,
     run |-> Run(m)]

\* setPendingAction: the words and the address are kept here, whatever was
\* there before is overwritten.
SetPending(ask) == slot' = ask /\ put' = put \cup {ask}

\* The confirmation card is what will be answered.
ShowCard(m) ==
    here' = [here EXCEPT ![m].step = "answer", ![m].ask = Question(m), ![m].say = "card"]

\* A forward and a new email are put by handleText,
Ask(m) ==
    /\ At(m, "ask")
    /\ SetPending(Question(m))
    /\ ShowCard(m)
    /\ UNCHANGED <<worldVars, jobVars, active, expires, last, mailVars, cards, heard, reversed,
                   disturbed>>

\* and a reply that a model wrote once it is written.
Draft(m) ==
    /\ At(m, "draft")
    /\ SetPending(Question(m))
    /\ ShowCard(m)
    /\ UNCHANGED <<worldVars, jobVars, active, expires, last, mailVars, cards, heard, reversed,
                   disturbed>>

\* carryOutSend, carryOutComposeTap: a tap that does not send has no use for
\* what it takes.
TookNothing(m) == Say(m, IF message[m].verb = "send" THEN "expired" ELSE "cancelled")

\* takePendingAction reads the row,
Take(m) ==
    /\ At(m, "take")
    /\ IF slot # NoAsk /\ expires > clock
       THEN here' = [here EXCEPT ![m].step = "clear", ![m].ask = slot] ELSE TookNothing(m)
    /\ UNCHANGED <<worldVars, jobVars, convVars, mailVars, historyVars, disturbed>>

\* Wrong: what was taken stays pending.
ClearNothing(m) ==
    /\ At(m, "clear")
    /\ IF message[m].verb = "send" /\ here[m].ask.about = message[m].about
       THEN Goto(m, "compose") ELSE TookNothing(m)
    /\ UNCHANGED <<worldVars, jobVars, convVars, mailVars, historyVars, disturbed>>

\* Wrong: a button sends whatever is pending.
ClearUnmatched(m) ==
    /\ At(m, "clear")
    /\ slot' = NoAsk
    /\ IF message[m].verb = "send" THEN Goto(m, "compose") ELSE TookNothing(m)
    /\ UNCHANGED <<worldVars, jobVars, active, expires, last, mailVars, historyVars, disturbed>>

\* and clears it, whatever is in it by now.  What does not belong to the
\* button's email is spent all the same.
Clear(m) ==
    /\ At(m, "clear")
    /\ slot' = NoAsk
    /\ IF message[m].verb = "send" /\ here[m].ask.about = message[m].about
       THEN Goto(m, "compose") ELSE TookNothing(m)
    /\ UNCHANGED <<worldVars, jobVars, active, expires, last, mailVars, historyVars, disturbed>>

\* clearActiveThread, for the cancel button of anything but a new email.
Withdraw(m) ==
    /\ At(m, "withdraw")
    /\ active' = NoEmail
    /\ slot' = NoAsk
    /\ Say(m, "cancelled")
    /\ UNCHANGED <<worldVars, jobVars, expires, last, mailVars, historyVars, disturbed>>

-----------------------------------------------------------------------------
(***************************************************************************)
(* Writing mail, changing the mailbox, and taking it back.                 *)
(***************************************************************************)

\* A reply and a forward are written from their email's row.
Sourced(m) == here[m].on \in Emails => place[here[m].on] # "gone"

ComposeFails(m) ==
    /\ At(m, "compose") /\ ~Sourced(m)
    /\ Say(m, "error")
    /\ UNCHANGED <<worldVars, jobVars, convVars, mailVars, historyVars, disturbed>>

\* createForSend: the draft's row and the files it takes along, together.  Its
\* words are the confirmed question's, or the message's own.
Compose(m) ==
    /\ At(m, "compose") /\ Sourced(m)
    /\ drafts' = [drafts EXCEPT ![Run(m)] = [words |-> here[m].ask, state |-> "unqueued"]]
    /\ file' = [n \in Messages |-> IF n \in Held THEN "carried" ELSE file[n]]
    /\ Goto(m, "enqueue")
    /\ UNCHANGED <<worldVars, jobVars, convVars, place, historyVars, disturbed>>

\* Of a forward and a drafted reply no undo record is made; a new email's is
\* about no email.
Recorded(ask) == ask = NoAsk \/ ask.kind = "compose"
RecordedAbout(m) == IF here[m].ask = NoAsk THEN here[m].on ELSE COMPOSE

\* What the handler is about to write down as done.
Done(m, verb, target) == [verb |-> verb, about |-> target, run |-> Run(m), at |-> clock]

Enqueue(m) ==
    /\ At(m, "enqueue")
    /\ drafts' = [drafts EXCEPT ![Run(m)].state = "queued"]
    /\ IF Recorded(here[m].ask)
       THEN here' = [here EXCEPT ![m].step = "remember",
                                 ![m].action = Done(m, "send", RecordedAbout(m))]
       ELSE Say(m, "sending")
    /\ UNCHANGED <<worldVars, jobVars, convVars, place, file, historyVars, disturbed>>

\* MailboxActionService.apply refuses an email that has gone, and to do
\* anything but delete or restore one in the trash.
Applicable(e, verb) == place[e] # "gone" /\ (place[e] = "trash" => verb = "delete")

\* The operation a verb stands for.
Operation(m) == IF message[m].verb = "confirm_delete" THEN "delete" ELSE "archive"

\* The provider's mailbox, then our row.
Act(m) ==
    /\ At(m, "act") /\ Applicable(here[m].on, Operation(m))
    /\ LET delete == Operation(m) = "delete" IN
       /\ place' = [place EXCEPT ![here[m].on] = IF delete THEN "trash" ELSE "archived"]
       /\ here' = [here EXCEPT ![m].step = "remember",
                               ![m].action = Done(m, Operation(m), here[m].on)]
    /\ UNCHANGED <<worldVars, jobVars, convVars, file, drafts, historyVars, disturbed>>

\* undos.record: a failure costs the user the undo and no more.
Remember(m) ==
    /\ At(m, "remember")
    /\ \/ last' = here[m].action /\ Undisturbed
       \/ UNCHANGED last /\ Disturb("service")
    /\ Say(m, IF here[m].action.verb = "send" THEN "sending" ELSE "done")
    /\ UNCHANGED <<worldVars, jobVars, active, expires, slot, mailVars, historyVars>>

\* takeLastAction reads the record,
Undo(m) ==
    /\ At(m, "undo")
    /\ IF last = NoAction THEN Say(m, "nothing")
       ELSE here' = [here EXCEPT ![m].step = "undoClear", ![m].action = last]
    /\ UNCHANGED <<worldVars, jobVars, convVars, mailVars, historyVars, disturbed>>

\* Wrong: the record stays when it was read.
UndoClearNothing(m) ==
    /\ At(m, "undoClear")
    /\ IF clock > here[m].action.at THEN Say(m, "late") ELSE Goto(m, "reverse")
    /\ UNCHANGED <<worldVars, jobVars, convVars, mailVars, historyVars, disturbed>>

\* and clears what is there.  UNDO_WINDOW_MS is shorter than half an hour.
UndoClear(m) ==
    /\ At(m, "undoClear")
    /\ last' = NoAction
    /\ IF clock > here[m].action.at THEN Say(m, "late") ELSE Goto(m, "reverse")
    /\ UNCHANGED <<worldVars, jobVars, active, expires, slot, mailVars, historyVars, disturbed>>

\* cancelIfQueued: a draft can be stopped while its row says queued, whether or
\* not a job exists for it.
Stop(m) ==
    LET r == here[m].action.run IN
    /\ At(m, "reverse") /\ here[m].action.verb = "send"
    /\ IF drafts[r].state \in {"unqueued", "queued"}
       THEN /\ drafts' = [drafts EXCEPT ![r].state = "cancelled"]
            /\ reversed' = [reversed EXCEPT ![r] = @ + 1]
            /\ Say(m, "done")
       ELSE Say(m, "already") /\ UNCHANGED <<drafts, reversed>>
    /\ UNCHANGED <<worldVars, jobVars, convVars, place, file, put, cards, heard, disturbed>>

\* The inverse of archiving and of deleting is the inbox.
PutBack(m) ==
    LET r == here[m].action.run IN
    /\ At(m, "reverse") /\ here[m].action.verb # "send"
    /\ IF ~Applicable(here[m].action.about, here[m].action.verb)
       THEN Say(m, "error") /\ UNCHANGED <<place, reversed>>
       ELSE /\ place' = [place EXCEPT ![here[m].action.about] = "inbox"]
            /\ reversed' = [reversed EXCEPT ![r] = @ + 1]
            /\ Say(m, "done")
    /\ UNCHANGED <<worldVars, jobVars, convVars, file, drafts, put, cards, heard, disturbed>>

\* discardPending: the files that were waiting are forgotten.
Drop(m) ==
    /\ At(m, "drop")
    /\ file' = [n \in Messages |-> IF n \in Held THEN "none" ELSE file[n]]
    /\ Say(m, "done")
    /\ UNCHANGED <<worldVars, jobVars, convVars, place, drafts, historyVars, disturbed>>

\* attempt() tells the user that the email is not there to be acted on.
ActFails(m) ==
    /\ At(m, "act") /\ ~Applicable(here[m].on, Operation(m))
    /\ Say(m, "error")
    /\ UNCHANGED <<worldVars, jobVars, convVars, mailVars, historyVars, disturbed>>

-----------------------------------------------------------------------------
(***************************************************************************)
(* OutboundService.reply: the answer, and its delivery record.             *)
(***************************************************************************)

\* The user sees the answer, and with a card its buttons.
Seen(m) ==
    /\ heard' = [heard EXCEPT ![m] = @ \cup {here[m].say}]
    /\ cards' = IF here[m].say = "card" THEN cards \cup {here[m].ask} ELSE cards

\* The answers whose delivery record refers to the email they are about, and
\* the one that cannot be recorded because its row has gone.
NamesEmail(m) == here[m].on # NoEmail /\ ~(message[m].verb \in Untargeted /\ message[m].kind # "tap")
Dangling(m) == NamesEmail(m) /\ place[here[m].on] = "gone"

\* An echo is followed by the command it repeats.
Answer(m) ==
    /\ At(m, "answer") /\ ~Dangling(m)
    /\ Seen(m)
    /\ IF here[m].say = "echo" THEN Goto(m, CommandStep(m)) /\ UNCHANGED jobVars ELSE Complete(m)
    /\ UNCHANGED <<worldVars, convVars, mailVars, put, reversed, disturbed>>

\* WhatsApp refuses it, or it is out and the record of it fails.  Either way
\* the job has failed, and a retry starts from the beginning.
AnswerFails(m) ==
    /\ At(m, "answer") /\ ~Dangling(m)
    /\ \/ UNCHANGED <<cards, heard>> /\ Disturb("whatsapp")
       \/ Seen(m) /\ Disturb("record")
    /\ \E retryable \in BOOLEAN : Throw(m, retryable)
    /\ UNCHANGED <<worldVars, convVars, mailVars, put, reversed>>

\* The foreign key of the delivery record has nothing to refer to: the user
\* has the answer and the job has failed.
AnswerDangles(m) ==
    /\ At(m, "answer") /\ Dangling(m)
    /\ \/ Seen(m) /\ Undisturbed
       \/ UNCHANGED <<cards, heard>> /\ Disturb("whatsapp")
    /\ Throw(m, TRUE)
    /\ UNCHANGED <<worldVars, convVars, mailVars, put, reversed>>

-----------------------------------------------------------------------------
Handle(m) ==
    \/ Touch(m) \/ Listen(m) \/ Measure(m) \/ Stage(m) \/ AnswerQuery(m) \/ Read(m)
    \/ Resolve(m) \/ FindSubject(m) \/ Focus(m)
    \/ Ask(m) \/ Draft(m) \/ Take(m) \/ Clear(m) \/ Withdraw(m)
    \/ Compose(m) \/ ComposeFails(m) \/ Enqueue(m) \/ Act(m) \/ ActFails(m) \/ Remember(m)
    \/ Undo(m) \/ UndoClear(m) \/ Stop(m) \/ PutBack(m) \/ Drop(m)
    \/ Answer(m) \/ AnswerDangles(m)

Next ==
    \/ Tick
    \/ \E e \in Emails : Purge(e)
    \/ \E r \in Runs : Depart(r)
    \/ \E m \in Messages :
        \/ Receive(m) \/ ExpireFile(m) \/ TakeJob(m) \/ Crash(m)
        \/ StepFails(m) \/ AttemptFails(m) \/ AnswerFails(m)
        \/ Handle(m)

Spec == Init /\ [][Next]_vars

\* A waiting job is taken when a slot is free, and a handler goes on: Node and
\* BullMQ owe that much.  Nothing is owed by the user, the clock or retention.
Fairness == \A m \in Messages : WF_vars(Handle(m)) /\ SF_vars(TakeJob(m))

LiveSpec == Spec /\ Fairness

-----------------------------------------------------------------------------
(***************************************************************************)
(* Properties.                                                             *)
(***************************************************************************)

Written(r) == drafts[r].state # "none"

\* The runs that turned a question into a mail.
SentFrom(ask) == {r \in Runs : Written(r) /\ drafts[r].words = ask}

\* Words that a model wrote, and an address the user typed, leave only by a tap
\* on a confirmation of the same email; what leaves without one is a reply the
\* user dictated.  Whatever is taken from the slot at whatever time, in retries
\* and in races (carryOutSend, carryOutComposeTap, handleText).
NothingUnconfirmed ==
    \A r \in Runs : Written(r) =>
        LET m == message[r[1]] IN
        IF drafts[r].words = NoAsk THEN m.verb \in {"reply", "yes"}
        ELSE m.kind = "tap" /\ m.verb = "send" /\ m.about = drafts[r].words.about

\* takeLastAction likewise: an action is taken back once for each undo that was
\* handled side by side with the first.
UndoneByFew == \A r \in Runs : reversed[r] <= Concurrency

\* The limit on waiting files is checked before the row is inserted: files sent
\* together may exceed it, by no more than were being handled.
HeldBounded == Cardinality(Held) <= MaxHeld + Concurrency - 1

\* A message that was handled was answered.  The exception is a file whose row
\* an earlier run had made before its answer failed: the later run says nothing,
\* and its caption is not carried out (handleFile, the duplicate branch).
SilenceMeansFile ==
    \A m \in Messages : job[m] = "completed" /\ heard[m] \subseteq {"echo"} =>
        message[m].kind = "file" /\ (tries[m] > 0 \/ m \in crashed)

\* A message that was enqueued is done with in the end, however often its
\* handling fails.
MessagesEnd == \A m \in Messages : job[m] = "waiting" ~> job[m] \in {"completed", "dead"}

\* One handler at a time, the slot is what Confirmation says it is: a question
\* is answered by one tap, and becomes at most one mail.
Taken == {here[m].ask : m \in {n \in Messages : At(n, "compose")}} \ {NoAsk}
Mailed == {drafts[r].words : r \in Runs} \ {NoAsk}

Slot == INSTANCE Confirmation WITH open <- slot, asked <- put, taken <- Taken, sent <- Mailed

ConfirmationSpec == Slot!Spec
=============================================================================
