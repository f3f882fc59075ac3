# Verification of the WhatsApp email assistant

TLA+ models of the parts of this repository where concurrency, failure, time and
ordering decide whether it is right, the TLC runs that check them on small
instances, and TLAPS proofs of what matters most for every size. Paths below
are relative to `src/`; `worker` stands for `apps/worker/src`, `api` for
`apps/api/src`.

To check a run: `tlc -config <cfg> <module>`; to check the proofs: `tlapm` on each
module whose name ends in `Proofs`. `PROJECT.json` lists the components, the runs,
what each definition translates (`map`), a mutant for every property, and the hazards
line by line with the properties that watch them.

## The system

A user links a Gmail or Microsoft mailbox and a WhatsApp number. Mail that
arrives becomes a WhatsApp card; what the user types or taps becomes an email or
an action on the mailbox. `api` (NestJS) answers webhooks and the dashboard and
only enqueues; `worker` does everything else, from BullMQ queues in Redis, with
the durable state in PostgreSQL. Several copies of both run at once. Node is
single-threaded: code between two `await`s is atomic, and everything across
them, across jobs and across processes interleaves. PostgreSQL runs at READ
COMMITTED, so a transaction that reads a row and then writes it is two steps unless
its update repeats the condition.

| Component | State | Operations | Interacts with | Hard because | Right when |
|---|---|---|---|---|---|
| Outgoing mail (`worker/processors/send`, composers, `draft`/`staged-attachment` repositories, `undo`) | `drafts`, `staged_attachments`, `conversation_states.lastAction`, job `send~<draft>` | compose, enqueue, claim, send, mark, confirm, report, undo, stage a file | mail provider, WhatsApp, Redis | retries and re-runs of a step with an external effect; undo races the send; writes that do not look at the row | one copy, truth to the user, one claim, an undone email never leaves |
| Ingest (webhooks, `worker/processors/ingest`, `message.repository`, providers' history) | `email_accounts.syncCursor/status`, routes, `email_messages`, ingest jobs | push, enqueue, walk, persist, enqueue analysis, save position | provider, Redis, AI queue | jobs of one mailbox overlap; a position is read, walked from and saved; pushes are lost or repeated; job ids swallow work | no message skipped, each announced |
| Notification (`worker/processors/notify`, `outbound.service`, `session-window`) | `notifiedAt`, `notifyDeferredAt`, `whatsapp_deliveries`, 24-hour window | card, template, digest | WhatsApp | window closes meanwhile; send then mark; digests race cards | every message reaches the user |
| Snooze (`snooze.service`, `reminder.repository`) | `reminders` | snooze, claim, fire, release, cancel | mailbox, notify queue | claim and delivery are two steps | a snoozed message comes back, once, unless cancelled |
| Conversation (`commands.processor`, `inbox.repository`, `attachment-staging`) | `conversation_states`, inbound messages, held files | text, voice, file, tap, confirm, undo | everything above | one user's messages are handled side by side; one pending slot; retried jobs | only what was confirmed leaves, once |
| Mailbox actions (`mailbox-action.service`, `folder.service`, `undo`, providers) | the provider's message, its row | archive, delete, label, move, mark, undo | both providers | two providers with different ideas of a folder; a row that mirrors without reading back | the row follows the mailbox, undo restores |
| Mailbox accounts (`api/oauth`, `api/accounts`, `worker/processors/sync`, `watch.repository`, adapters' tokens) | `email_accounts`, routes, watches, token caches, renewal jobs | link, relink, disconnect, refresh, renew, poll | provider, every queue | every writer of a row without a lock; writes nobody awaits; caches in two processes | a mailbox opens itself and is never silent |
| Models (`worker/processors/ai`, `packages/ai`, `worker/services`) | `message_analyses`, embeddings, `ai_usage_records` | analyse, embed, answer, backfill, meter | model providers | checked before, charged in between, written after | cost bounded, nothing paid twice, nothing unsearchable |
| Schedules (`digest-schedule`, `snooze-time`, sweeps) | digest times, `lastDigestAt`, time zone | sweep, digest, snooze until | notify queue | clocks change; a sweep is late, repeated or missed | what is chosen is served, what is said is meant |
| Sessions and second factor (`api/auth`) | `sessions`, `users` | sign in, rotate, revoke, enrol, verify, phone code | dashboard, WhatsApp | read-then-write on single rows | a replaced token is dead, a code is spent once |
| Rate limiting, media, retention, mail algorithms, parsing, crypto, search, web application, infrastructure | rows or none | one step each | | I/O, text, or no interleaving | |

## Modules

| Module | Models | Kind |
|---|---|---|
| `SendPipeline` | outgoing mail, from the draft row to the end of its job | component |
| `OutboundMail` | what that pipeline promises about each email | abstract specification |
| `Ingest` | mail arriving in one mailbox, its pushes, jobs and position | component |
| `Notify` | one user's cards, templates, digests and snoozes | component |
| `Conversation` | what one user says, the row it all goes through, drafts and files | component |
| `Confirmation` | what the chat promises about mail that needs a tap | abstract specification |
| `MailOperations` | what a command and its undo do to a message and to its row, as operators | algorithms |
| `Mailboxes` | the accounts, tokens, routes and watches of several users | component |
| `ModelCalls` | what is asked of the models, what it costs, what is stored | component |
| `Calendar` | digest times and snooze times in a zone whose clocks change | component and algorithms |
| `Sessions` | one account's sign-ins, second factor and phone | component |
| `SendPipelineProofs`, `IngestProofs`, `NotifyProofs`, `MailboxesProofs`, `ModelCallsProofs`, `CalendarProofs`, `SessionsProofs` | theorems about those modules | proofs |
| `ConversationProofs` | theorems about `Conversation`, `MailOperations` and the two together | proofs |
| `MC...` | symmetry, and the instances TLC is given; `MCConversation` joins `Conversation` with `MailOperations` | model checking |

In every component one action is one awaited step of a handler; what happens around
it is named in a set of disturbances (`Faults` in `SendPipeline`), of which a
behaviour sees at most `MaxDisturbed`, so that a property is stated under exactly
the failures it survives. "History" variables are read by properties alone. Operators
after a comment "Wrong:" are mutants: no specification uses them.

### SendPipeline

The awaited steps of `SendProcessor.handle` (claim, load the account, call the
provider, `markSent`, confirm, `markFailed`, reauthorise, report), of the composers
(`createForSend`, enqueue), of undo (`takeLastAction`, `cancelIfQueued`), of staging
a file, and of BullMQ (`TakeJob`, `Throw`, `Crash`, `StallJob`, where a live job is
taken for stalled and runs twice). `status` is `drafts.status`,
`fileState`/`claimedBy` are `staged_attachments`, `job`, `attempts`, `stalls` and
`holder` are the job in Redis, `step`/`on`/`err` where a worker slot is, `delivered`,
`carried` and `told` are history.

`OutboundMail` has one variable per email for its fate (held, delivered, stopped,
abandoned), its copies and what the user heard. `MailSpec` is its specification
under the refinement mapping `Fate`: a draft is delivered when a copy has left,
stopped when the row is cancelled, abandoned when it failed or when its job never
reached the queue.

### Ingest

A mailbox is a sequence; message *m* is the *m*-th to arrive, and a sync position
(Gmail's historyId, Graph's delta link) is how many had arrived when it was handed
out. `LoadAccount`, `GetInitialCursor`, `SaveFresh`, `ListChanges`,
`FetchMessage`, `Persist`, `EnqueueAnalysis`, `SaveCursor`, `RecordFailure` are
the steps of `IngestProcessor.handle`; a job is indexed by its BullMQ id,
which is the position for a Gmail push and the interval for a Graph push or a
polling sweep. A Gmail push finds its mailbox by the route, a Graph push by its subscription,
which may find it or not (`Routed`). `Reconnect`, `BeginRenewal`, `Watch`, `WatchFails`, `RecordWatch`
are linking and renewal, the other writers of the position and the status.
`excused` is history: what a fresh start deliberately does not look at.

### Notify

The analysis job that hands a message on (`Analyze`, `QueueCard`), the card job
(`ReadMessage` to `MarkNotified`, the steps of `notifyOne`), the digest job
(`ListDeferred`, `CountDeferred`, `StampDigest` and the steps it shares, `sendDigest`)
and the forced card of a reminder, which is a card job of kind `return`. `held` is
`notifyDeferredAt`, `where` is where the row's flags put the message. The window is
counted, not timed: `lastInbound` numbers the user's last message (`lastInboundAt`),
`lapsed` the last one whose 24 hours are over, and `snap` is the copy of
`lastInboundAt` a job read. `Verdicts` is every answer `decideDelivery` has for some
message and settings. `created`, `about`, `due`, `sent`, `cancelled` are the rows of
`reminders`; `FindDue`, `Claim`, `Unarchive`, `EnqueueReturn`, `Release` are the
steps of a reminder sweep; `Snooze`/`ArchiveSnoozed` and `DealWith`/`CancelFor` the
two halves of the commands that write them.

### Conversation, Confirmation and MailOperations

A message of the user has a job (`Receive`, `TakeJob`), and its handler
(`CommandsProcessor.handle`) goes through `Touch`, then by kind and verb: `Listen`
(voice, echoed and then obeyed), `Measure`/`Stage` (files), `AnswerQuery`/`Read`,
`Resolve`/`FindSubject`/`Focus` (which email is meant), `Ask`/`Draft` (the pending
question and its card), `Take`/`Clear`/`Withdraw` (taps), `Compose`/`Enqueue`,
`Act`/`Remember`, `Undo`/`UndoClear`/`Stop`/`PutBack`, `Drop`, `Answer`. Steps that
throw inside `attempt()` become an answer (`AttemptFails`), those outside fail the
job (`StepFails`). A question is named by the run that put it, so that two questions
with the same words are two. `active`, `expires`, `slot`, `last` are the columns of
`conversation_states`.

`Confirmation` says what the slot is for: a question is open until a tap takes it, it
is replaced or it is withdrawn, and what was taken is sent once or lost.
`ConfirmationSpec` is `Conversation` under `Slot`, with one handler at a time; with
two at a time it does not hold (see Divergences).

`Conversation` keeps of an email where it is. `MailOperations` has the rest as
operators: what each operation does to a Gmail message (a set of labels) and to an
Outlook message (one folder, and a new id when it moves), what
`MailboxActionService.apply` writes into the row, what `inverseOf` undoes, and how a
folder's name is matched. The row is written after the provider was called, best effort: it says
what the operation is thought to have done, or what it said before (`RowsAfter`).
`MCConversation` asks `Follows` (of rows that are written), `Mends` (of rows that were not) and
`Restores` (of both) of every message in every place the conversation brings an email to.

### Mailboxes

Slots carry out `link`, `disconnect`, `renew` and `walk` tasks, whose steps
load, refresh a token, call the provider and record. A token is named by the consent
(`grant`) it came from, which makes "this token opens that mailbox" a question with an
answer. `cached` is the Graph adapters' token cache in each process, `persisting` the
write of a refreshed token that nobody awaits. `route` is
`provider_account_routes`, `till` what Google itself does, `renewals` and `dead` the
renewal jobs and the ids of those that failed for good. Calls fail, and so do the writes that
record a watch (`RecordFails`), which linking catches and a renewal retries. `mistaken`, `crossed`,
`withdrawn` are history, and name the situations in which a property is given up.

### ModelCalls

Slots carry out analyses, embeddings and requests of the chat, each along its `Path`: what is
stored already (`FindStored`), the budget (`AssertAffordable`, or `ProceedUnchecked` where its
reading fails), the message (`FindForAnalysis`), the call, whose reply each adapter reads in its
own way (`OpenAi`, `Gemini`, `Anthropic`, `OpenAiVector`, ...; `Reading`, `Verdict`) and which is
`Answered`, `Discarded` or `Refused`, the other provider (`CallFailed`), `Save`,
`RecordUsage`, `Notify`, `QueueEmbedding`. `Backfill` is the embedding sweep (`Look`,
`QueueBackfill`, `MarkBackfilled`). BullMQ's re-run of a job that still runs elsewhere is in
`SendPipeline` and not here. `meter` is `ai_usage_records`, `bill` what providers charged since midnight,
`escaped` the charges that were never recorded or never checked.

### Calendar

Instants and the readings of a wall clock are integers; `WallClock`, `InstantOf` and
the rest of `digest-schedule.ts`, `snooze-time.ts` and the zone helpers are operators;
the sweep, the digest job, its id and `lastDigestAt` are actions. A day has eight
units, which is the least in which there are a time before and after a change of
clocks, two digest times and a sweep between them. A zone changes its clocks twice at
most, once each way, by no more than a day, and a clock that is put forward stays so for
longer than it was put forward by (`ZonesAssumption`): true of summer time and of the
countries that crossed the date line.

### Sessions

A request is a slot that goes through the steps of `SessionService.rotate`,
`AuthService.signIn`, `TwoFactorService` and `PhoneVerificationService`: reads copy the
row (`saw`), writes use the copy as the code does. A refresh token is named by its
session. `delivered` is what clients hold, `trusted` which access tokens say
`mfa: true`. `stale` counts the writes over a row that another request had changed
since it was read, the one hole `SpentOnce` and `GuessesBounded` leave.

## Runs

| Run | Instance | Shows |
|---|---|---|
| `send_all_faults` | two drafts, one file, one undo slot, two worker slots, every failure at any step | `SentMeansDelivered`, `CopiesBounded`, a file travels with one email (`FileTravelsOnce`), an undone email never leaves (`CancelledIsFinal`) |
| `send_once` | one draft, nothing fails once a copy has left | the claim is exclusive (`ClaimExclusive`), one copy (`AtMostOnce`), the user hears the truth (`ToldTheTruth`), `OutboundMail` is implemented (`MailSpec`), every job ends (`JobEnds`) |
| `ingest_all` | fourteen disturbances, two at a time, two overlapping walks | the position skips nothing (`NothingSkipped`) |
| `ingest_live` | three messages, one failure | stored means announced at rest (`StoredIsAnnounced`), nothing is missing at rest (`CaughtUp`), everything is announced in the end (`MailIsAnnounced`) |
| `notify_mail` | two messages, a digest that shows one, one failure | no message is forgotten (`NothingForgotten`) |
| `notify_snooze` | one snooze, two overlapping sweeps, two failures | brought back by one run (`FiredByOne`), never after it was called off (`CancelledStaysAway`), in the end (`SnoozeEnds`); an unsnoozed message is heard of, also when its analysis fails on its last attempt (`MailIsHeard`) |
| `conversation_race` | three messages, two handled at once | nothing leaves unconfirmed (`NothingUnconfirmed`), held files stay near their limit (`HeldBounded`) |
| `conversation_live` | two messages, one at a time, every failure | `UndoneByFew`, only a repeated file is met with silence (`SilenceMeansFile`), the row follows the mailbox as long as it is written (`MirrorFollows`), a lost write is put right by the next command or undo (`LostWriteMends`), undo restores (`UndoRestores`), `Confirmation` is implemented (`ConfirmationSpec`), every message is done with (`MessagesEnd`) |
| `sessions` | three requests, two at once, every operation | one live token per login (`OneHeir`), an ended login stays ended (`EndedStaysEnded`), a code is spent once (`SpentOnce`), guesses are bounded (`GuessesBounded`) |
| `model_calls` | one message, a request, a sweep, two tasks at once, two days | `SpendBounded`, an embedding is paid for once (`BoughtOnce`), a backfill is marked done when it is (`BackfillCovers`) |
| `mailboxes` | one Gmail mailbox or two of Outlook's, two consents, three tasks | tokens open their own mailbox (`OwnMailbox`), a Gmail mailbox keeps a way in (`NeverDeaf`), nobody is asked to reconnect without cause (`AskedWithCause`) |
| `calendar` | three days, clocks put forward or back, east and west of Greenwich | a chosen time is served by the next sweep (`TimesServed`), a snooze ends when the user said (`SnoozeAsMeant`), a digest has a time of its own (`DigestHasItsTime`) |

Each property is broken by a mutant of the code it watches, under the same
configuration (`PROJECT.json`, "mutants").

### Bounds, and why they are enough

*Send.* Two slots give every race on a row: a third can only repeat what one of the
two does, since the only lock is the row's status. Two drafts matter through the shared
undo slot and the file. Two attempts and no second stall in `send_all_faults`, where the
second draft multiplies states; the code's 3 and BullMQ's 1 in `send_once`. The
invariants of both are proved without bounds.

*Ingest.* Two messages and two side-by-side jobs are what it takes for a walk to
be overtaken by another; three messages and two intervals in the run on liveness.
Two disturbances per behaviour let a failure meet a second one (crash then
reconnect, lapse then lost push). The code's 5 attempts and 50 slots become 2 and
2: a third attempt meets nothing the second did not. `NothingSkipped` is proved
without these bounds, `CaughtUp` for a Gmail mailbox.

*Notify.* Two messages and a digest that shows one are what a digest's cap needs; the
code's 20 is 1. One message and two runs of the sweep are what a race on a reminder
needs; that a second snooze replaces the first is left to the proof. One of the
user's messages opens the window and may lapse at any moment outside a job's short
look at it (disturbance `midway` closes it there too, and is off in these runs:
with it, a card sent in the last instant is accepted by Meta, not delivered and
marked as notified). One disturbance per behaviour and two attempts instead of five (notify) and
three (ai) in `notify_mail`: each failure meets one retry. In `notify_snooze` two disturbances
and two attempts at an analysis, so that it can fail for good, and three at a card, so that it
cannot: an analysis refused by the model on its last attempt delivers the message without a
summary, and that is what `MailIsHeard` is about; one whose last attempt meets Redis's refusal
is excused (see Divergences).

*Conversation.* A race needs a message that puts a question and two that answer or
replace it: three messages, two at once, in `conversation_race`. What a failure does to
one handler needs the message before it and no more: two messages, with all verbs,
channels and failures, in `conversation_live`. Every email is interchangeable; one file
held is the limit, so that the second is one too many. The folder tree of `MCConversation`
has one folder that can be moved to and one under a folder that is not offered; the
theorems about `MailOperations` hold for any.

*Sessions.* A race on a row needs two requests, and what it leads to a third: a rotation,
another, and the use of what came out. Three sessions are one login rotated twice or two
logins. A phone, two secrets, two recovery codes, a lock at two failures. `Window` is 0: a
wider one lets more steps in and changes no order; the theorems have any window.

*ModelCalls.* Two tasks at once, because a budget is overrun by what overlaps; costs of one
or two against a ceiling of one, so that one call can pass it and the other be refused; a
second day for costs recorded after midnight; two attempts for a retry.

*Mailboxes.* Three tasks are what the losses need: a connection, what crosses it, and what
comes after. Two consents: a mailbox reconnected, or two mailboxes. Outlook needs two
mailboxes for a mistaken token, Gmail one mailbox for its watch: no instance needs both.
A watch lasts two of the renewal's horizons and the clock passes its end.

*Calendar.* A change of clocks is by two units, more than a sweep's interval, between two
ordinary days; four zones and an unknown one; times early, late, and too late for the
day's last sweep. A week has three days and a month four, so that nothing asked for is more than
a few days off. The theorems have any day, week, month, zone
and interval.

Deadlock checking is off in every run: the system rightly stops when all mail has
been handled and every counter is at its bound.

### Fairness

*Send:* a slot's awaits resolve (`Handle`), BullMQ gives a waiting job to some
free slot (`TakeJob`), the stalled check returns a job whose slot died
(`StallJob` with no holder). Nothing is asked of users, Redis or the mailbox: a
compose whose enqueue fails may stay stranded, and does.
*Ingest:* handlers go on, pushes that are not lost arrive, and the controller that
links a mailbox sets up its watch. No sweep is assumed to run, so
`MailIsAnnounced` rests on pushes and retries alone.
*Notify:* every job's handler goes on, the sweep is repeated and its runs go on. No
digest sweep is assumed: what `MailIsHeard` promises is shown or owed.
*Conversation:* a handler goes on (weak: once active it stays enabled), and a waiting job is
taken when a slot is free again and again (strong: with one slot, other jobs take it in
between). Nothing is owed by the user, the clock or retention.
The other modules state no liveness: a request that dies is not owed an answer, and what
must happen of a watch or a backfill is owed by sweeps whose failure the code accepts.

## Divergences

What the code does against what its comments, documents or plain intent say. The models
have the code's behaviour; where a property would be broken by one of these, the property
says so or the run leaves the disturbance out.

*Sending.* A confirmation that fails after the send puts the draft back to queued, and a
second copy goes out (`send.processor.ts:116`, against `:30`): hence `NoResend` and the
faults left out of `send_once`. A draft whose account cannot be loaded after the claim
stays in `sending`, and nobody is told (`:79`, against `:36`). WhatsApp refusing the installation's
own token, while staged files are fetched (`:249`) or at the confirmation (`:116`), raises
`PROVIDER_UNAUTHORIZED` inside the same try block, and the user's mailbox is marked
`reauth_required` (`:144`), which `docs/runbook.md:253` reads as "disconnected by the provider".

*Arriving mail.* A row is stored before its analysis is enqueued; if Redis refuses, the retry
finds the row and the message is never announced (`ingest.processor.ts:123`). A Graph
notification in a minute whose walk is done is ignored (`microsoft.controller.ts:128`).
A Graph push looks its account up in a table with row-level security and outside any tenant
(`microsoft.controller.ts:97`; the policies are forced, and the application's role is not exempt), so
none is found and mail waits for something else; `Routed` allows either answer, and no run has
Outlook's pushes. Gmail's history is not filtered by
label: what the user sends, drafts and spam are ingested and announced
(`gmail.provider.ts:183`, against `schema.prisma:370`).

*Notifying.* A snooze due more than a day after the user's last message: the card is dropped
by the window check and marked as shown (`notify.processor.ts:218`, against
`snooze.service.ts:15`). An analysis job whose hand-over meets Redis's refusal on its last attempt
dies, and its message is not announced (`ai.processor.ts:88`, against `:70`): `excused`. A crash between claim and delivery is not picked up by the next
sweep (`snooze.service.ts:86` says it is): `SnoozeEnds` excepts it. A message snoozed again
while an older snooze is claimed and then released has two. Receipts overwrite a delivery's
status in any order; nothing reads it.

*Conversation.* Two taps handled side by side both read the pending question before either
clears it, and one question becomes two mails (`inbox.repository.ts:264`); two undos apply
the inverse twice. A tap on an older card of the same email sends the newer question; the
retry of a tap takes whatever is pending by then. `touchConversation` renews the expiry before it is read, so a conversation never
expires. Undo after a tapped forward or drafted reply reverses the action before it. Typed
"cancel" leaves the question pending. A file's caption is not carried out when its first
run died after staging. `activeEmailMessageId` has no foreign key: after a purge the answer
is delivered, recording it fails, and the user is answered up to three times.

*Mailbox actions.* The write of the row is caught when it fails and lost when the worker dies
before it (`mailbox-action.service.ts:88`); the comments there (`:24`, `:83`, `:94`) count on the
next sync to reconcile, and no sync changes a row that exists: only `messageAdded` is looked at.
The row stays behind until the command is repeated or undone (`Mends`), and for good where Outlook
gave the message another id. An Outlook message has a new id after a move, so undo, replies and
attachments no longer find it (`graph.provider.ts`, no immutable ids). An undo of an
action that changed nothing flips the state. What leaves Outlook's junk folder stays spam in
the row; "not spam" of an archived message, and a move to the inbox, leave it archived.
`UNMOVABLE_TO` compares English names, so a localised Outlook offers its deleted items.

*Accounts and tokens.* `persistRefreshedToken` drops the refresh token Microsoft rotates
(`graph.provider.ts:147` says it must be kept), reads `email_accounts` outside any tenant,
and may write to a disconnected account. The Graph adapter of the api caches under the id
`pending`, so a second Outlook linked within the hour is verified with the first one's
token (`account-linking.service.ts:114`): `OwnMailbox` excepts it. A renewal, or the start
of a watch, sets the account active whatever happened meanwhile; a relink crossing a
disconnect can leave an active mailbox without a route, and so can two users of one
mailbox. Outlook's watches are never renewed or polled, its disconnect never cancels the
subscription. A renewal job that died keeps its id, and the watch is then neither renewed
nor polled (`watch-schedule.ts:57`). A revoked Gmail grant answers a refresh with 400, which
is not read as revoked; Microsoft's 400 of any kind is.

*Models.* A truncated or malformed answer is charged and not metered; a cost whose recording
fails is lost; a failed hand-over repeats a paid analysis. An embedding skipped for budget is
not tried again, and a mailbox with a dead embedding job is never marked done
(`sync.processor.ts:380`). `findUnembedded` orders newest first, its comment says oldest.

*Calendar.* A digest time within the last interval before local midnight never fires
(`digest-schedule.ts:50`). Digest job ids are per interval, so two sweeps with the first
digest in flight both send (`sync.processor.ts:346` says not). A user who has not written
since their number was verified has no row to record a digest in and gets one at every
sweep. "Next friday" said on a Saturday is thirteen days off (`snooze-time.ts:173`).

*Sessions.* `tokensValidFrom` is written and never read (`docs/data-model.md:53`).
Concurrent verifications write the list of recovery codes back whole, and a spent one
returns (`two-factor.service.ts:34`); likewise the count of failed sign-ins. A signed-out token,
or a sign-out racing a refresh, is recorded as reuse. Setting up again while confirming
replaces a confirmed secret; enabling racing disabling leaves the factor on without a
secret.

## Proofs

Every theorem holds for any number of drafts, messages, slots, sessions, folders and
so on, and any bounds and disturbances except those its statement names. The assumptions
are those on the constants, stated in the modules and evaluated by TLC in the runs.

`SendPipelineProofs`: `TypeCorrect`, `ClaimIsExclusive`, `CancelledForGood`,
`SentIsDelivered`, `FilesTravelOnce`; and, if none of `lostAck`, `db`, `confirm`
happens (`NoResend`): `SendsAtMostOnce`, `TellsTheTruth`, `ImplementsOutboundMail`. The invariant is a conjunction of named
parts. `ClaimExclusive` is not inductive: it needs `ClaimedStatus`, that a slot
past the claim has a row in `sending`, so that another claim of it fails.
`SentMeansDelivered` needs to know at which steps a copy has left (`DeliveryInv`),
`FileTravelsOnce` that a file's owner never changes once it has travelled
(`FileInv`), `AtMostOnce` that without a resend fault a row whose copy left is
never queued again (`OnceInv`), the truth that a failed row is final
(`ToldInv`). `CopiesAreBounded` (`CopiesBounded`, under every fault) counts: the copies that
left plus the runs that may still send one are at most the attempts and the stalls so
far, and one more while the job is active (`CopyInv`); the number of runs is a
cardinality, so each action says how that set changes. The refinement has one step per action, each a step of
`OutboundMail` or a stutter.

`IngestProofs`: `IngestTypes`, `CursorSkipsNothing` (`NothingSkipped`),
and, when no worker dies and Redis refuses nothing, `OnlyRefusalSilences`
(`StoredIsAnnounced`). `NothingSkipped` is not inductive, because the position a
walk saves was handed out long before: `WalkInv` says what a walk knows at each of
its steps about the messages it has passed (covered up to where it started, up to
where it is, up to what it will save), and `CoveredGrows` that this knowledge
never expires, whoever moves the position meanwhile. `StoredIsAnnounced` rests on
`Announcing`: an unannounced stored message has a walk about to enqueue it.
`QuietMeansCaughtUp` (`CaughtUp`) is about Gmail, where a job is named by the position it
was pushed for, and supposes (`Forgiven`, which the run's instance satisfies) disturbances that
lose neither a push nor a job, fewer of them than attempts, and one alone where a worker may
die (the queue gives up a job whose worker died twice). `Steady` says that a job
then keeps an attempt in hand and that the mailbox stays connected or is being linked;
`Chased(m)` that a message not covered by the position is being linked over, or its push is
on the way, or its job is waiting or at work on it. Outlook's jobs share an id within an
interval, and a push that finds a finished one is dropped (see Divergences), so there it is not so.

`NotifyProofs`: `NotifyTypes`, `ReminderFiredByOne` (`FiredByOne`),
`CancelledReminderStaysAway` (`CancelledStaysAway`), and, if the window does not
close between a job's look at it and its send (`NoMidway`), `NobodyForgotten`
(`NothingForgotten`). Types need `Known` (a reminder that is swept or returned was
created, and is about a message) and `Fits` (each kind of job keeps to its steps).
`FiredByOne` is not inductive: `ClaimInv` adds that a run past its claim holds a
marked row whose message is not queued, and that a marked row is never called off.
`NothingForgotten` needs `JobSees`, what a job knows between its look and its mark:
the window it saw is open until it sends, and what it marks was shown, unless it
returned a snooze. `AnalysisNeverSilences` is the safety half of `MailIsHeard`, under every
disturbance: an analysis job that is over has queued the card, whatever failed and however often,
but for Redis's refusal on its last attempt and a worker that died (`AnalysisEnds`).

`ConversationProofs`, first part, about the operators of `MailOperations`, for any tree of
folders and any message: `UndoRestoresMail`, that every message `Restores`, whether its row was
written or not (the run asks it of one small tree), by one lemma per operation and provider over what adding and removing
labels does (`RelabelTwice`, `OnAndOff`, `MarkAndBack`); `MoveFindsTheFolder`, that a named
folder is the one said, never the trash or the spam; and `RowFollowsMail`, that every
message `Follows`: its row, as long as it is written, says where it is after any command and
after its undo, if a mailbox's trash and junk have their English names (elsewhere it does not, see
Divergences); `LostWritesMend`, that every message `Mends`: operations set what they set, so the
same one again, or its inverse, leaves a stale row as a fresh one.
What each operation keeps is `GmailKeeps` and `GraphKeeps`, over what a row must say
(`MirrorsParts`). `UndoRestoresFromHere` (`UndoRestores`), `MirrorFollowsFromHere`
(`MirrorFollows`) and `LostWriteMendsFromHere` (`LostWriteMends`) carry them over to every place a conversation brings an email to.

Second part, about `Conversation`: `TypesHold`, `ConfirmedBeforeSent` (`NothingUnconfirmed`),
`FilesNearTheLimit` (`HeldBounded`), `UndoneAtMostTogether` (`UndoneByFew`),
`SilentOnlyForAFile` (`SilenceMeansFile`), and, with one handler at a time,
`OneAtATimeConfirms` (`ConfirmationSpec`, the refinement). Types need `Fits`: at each step a
handler holds what its message and its run allow, so that what it writes is about its own
run. `NothingUnconfirmed` is not inductive: `Kept` adds that whoever is about to enqueue a
draft has written it. `HeldBounded` and `UndoneByFew` count handlers: at most `Concurrency`
run (`RunningBounded`), the files held and those about to be are within it of the limit
(`HeldTogether`), and what was taken back plus what is about to be is within it, a run being
taken back only when it is past and no longer the last (`UndoneInTurn`).
`SilenceMeansFile` needs that a message has a file before its handler stages it only when
an earlier run did (`AllAccounted`). The refinement needs `Settled`: every question was put
by a run that is past, and what a handler is about to clear is what is in the row, which is
what one handler at a time gives and two do not.

`CalendarProofs`: `CalendarTypes`, `DigestsHaveTheirTime` (`DigestHasItsTime`),
`ChosenTimesAreServed` (`TimesServed`), `SnoozesEndAsMeant` (`SnoozeAsMeant`). The argument
is about clocks first. `SinceThen`: between two instants, if the later reads past a time, the
clock came to that time in between or was past it on that day already; `SinceUnchanged` where
the clocks do not change, `SinceOver` across a change.
`NothingEarlier`: before a time's first reading no instant of that day reads past it, though
a clock may be put back over it. Then `Reasoned` says that a job of a sweep keeps its reason
until something is sent or chosen, and `AllServed` that a time whose sweep is over was
served, slipped away, or has its job queued. For snoozes, `InstantReads`: the guess corrected
twice reads what was asked for wherever anything does, whatever the zone; `TwiceWhenBack`: a
reading that comes again after a later one comes twice; hence `NonePassedOver`. `NearLeads` and
`DayNamed` are the arithmetic of weekdays.

`ModelCallsProofs`: `TypesHold`, `EmbeddingsBoughtOnce` (`BoughtOnce`), `BackfillEndsDone`
(`BackfillCovers`), `DaysSpendIsBounded` (`SpendBounded`). `Base` is where everything is: a
task keeps to its steps (`Fits`), carries out a job nobody else does and that has an attempt
left (`Working`), about a message that was stored (`Found`). `PaidOnce` follows an embedding
through its task: not there and not paid until the call, paid once after it. `Covers` is the
sweep's part: what it looked at has a vector from the moment it finds nothing left.
`SpendBounded` is not inductive, because a budget is read before it is spent: `Account` says
that the bill is at most what was metered, what tasks are about to record and what escaped,
and that a call for every task let through still fits under the bound; `RoomForOne` is why a
task that is let through leaves it so.

`MailboxesProofs`: `TypesHold`, `TokensOpenTheirMailbox` (`OwnMailbox`), `AskedOnlyWithCause`
(`AskedWithCause`), `NeverLeftDeaf` (`NeverDeaf`). `Own` says of every token, in a row, in a
slot, in a write nobody awaits and in a cache, which mailbox it opens: only together is this
inductive, because each is copied into the next. `Standing` adds why a status is what it is: a refused
token opens a mailbox whose access was withdrawn (`Withdrawn`), and who is about to ask the
user to reconnect has met one (`Refused`), which with Gmail is the one stored, unless a
connection crossed it (`SameToken`, `Alone`). `Heard` says that an active
Gmail mailbox has its route or a handler about to give it one, that Google pushes for as long as
the watch about to be recorded, and that a route leads to its own mailbox (`Watched`, `Routed`).

`SessionsProofs`: `SessionTypes`, `LoginHasOneHeir` (`OneHeir`), `EndedLoginStaysEnded`
(`EndedStaysEnded`), `GuessesAreBounded` (`GuessesBounded`), `CodesAreSpentOnce`
(`SpentOnce`). Types need `Fits`: a request keeps to the steps of its operation, about
a session whose token was delivered. Neither `OneHeir` nor `EndedStaysEnded` is
inductive, because a replacement is issued before the presented token is claimed and
handed out after: `TokenInv` counts a replacement as its login's from the claim on
(`Alive`), and says that of a login's tokens alive at most one is not retired, and none
once it has ended. `GuessInv` bounds the guesses by the failures that are counted and those
that were counted over another's. `SpendInv` says that what the row would accept
now was honoured less often than `SpentOnce` allows, that what was never handed out was
never honoured, and that a code about to be honoured was acceptable in the row
that was read; `HonourSpends` is the argument every honouring step shares.

Only model-checked: liveness (`JobEnds`, `MailIsAnnounced`, `MailIsHeard`, `SnoozeEnds`,
`MessagesEnd`), which the prover does not reach. Every other property of a run is a theorem,
under the assumptions its statement names.

## Not modelled

*Rate limiting*: one counter per window, incremented and read in one Redis transaction.
*Media*: one download and one answer. *Mail algorithms, parsing of text, cards and
prompts*: functions of text, whose correctness is their wording; what is parsed is an input
of `Conversation` and `Calendar`. *Cryptography*: it succeeds or fails; which one-time
passwords are accepted is in `Sessions`. *Search and lists*: they read and rank.
*Row-level security*: a property of SQL text, out of TLC's reach; where it changes what a query
finds (`persistRefreshedToken`) the model has it. *OAuth state*: a signed value without state
on the server. *Retention of other tables, health, metrics, preflight, configuration, the
web client, deployment*: nothing modelled depends on them, or they are any client's behaviour.

Hazards without a property. Where the code does what it should not, a property would have to except
exactly that, so none is claimed; Divergences describes each: `send.processor.ts:142` (WhatsApp's
refusal taken for the mailbox's), `ingest.processor.ts:123` (a message stored and never announced),
`microsoft.controller.ts:128` (a Graph push ignored), `notify.processor.ts:311` (a card sent or
dropped outside the window), `snooze.service.ts:94` (a claim lost in a crash),
`inbox.repository.ts:272` (two taps, two undos), `two-factor.service.ts:212` and
`auth.service.ts:297` (whole-row writes over a changed row), `graph.provider.ts:97` (the shared
cache id), `watch.repository.ts:121` (a renewal over a disconnect), `watch-schedule.ts:74` (a dead
renewal's id), `sync.processor.ts:345` (two digests in flight). Where the model leaves it out:
`ingest.processor.ts:150` (an expired history is answered with a fresh position, and what arrived in
between is given up: `excused`, by design of the code) and `gmail.provider.ts:230` (Gmail's position
comes with every page of a listing; pages are not modelled).

## What could come next

In this order: Gmail's pages as a refinement of `ListChanges`; composing `Conversation`
with `SendPipeline` in place of its one-step `Depart`, its promise then being
`Confirmation` and `OutboundMail` together; what a sweep finds of an Outlook mailbox whose
push was dropped, so that `CaughtUp` has a form for it.
