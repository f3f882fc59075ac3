---------------------------- MODULE SendPipeline ----------------------------
(***************************************************************************)
(* Outgoing mail of one user, from the moment a composer writes a draft    *)
(* row until the send worker is done with it: the drafts table, the files  *)
(* the user staged in the chat, the BullMQ job that carries a draft, the   *)
(* workers of the send queue, the confirmation on WhatsApp and undo.       *)
(*                                                                         *)
(* One action is one awaited step of the code (one database transaction,   *)
(* one call to the mail provider, one call to WhatsApp): everything        *)
(* between two awaits is atomic on the Node event loop, everything across  *)
(* them interleaves.  Faults selects which failures may happen, so that a  *)
(* property can be checked under exactly the failures it survives.         *)
(***************************************************************************)
EXTENDS Integers, FiniteSets

CONSTANTS
    Drafts,       \* ids of rows of the drafts table
    Files,        \* files sent in the chat (one per WhatsApp message id)
    Workers,      \* concurrent slots of the send queue's workers
    NoDraft, NoWorker,
    MaxAttempts,  \* QUEUE_DEFAULTS.send.attempts (3 in the code)
    MaxStalls,    \* BullMQ's maxStalledCount (default 1)
    Faults        \* the failures that may happen, a subset of FaultKinds

FaultKinds == {
    "crash",      \* a worker process dies in the middle of a job
    "stall",      \* BullMQ takes a running job's lock for lost and re-runs it
    "db",         \* a database transaction fails and rolls back
    "enqueue",    \* Redis refuses the job after the draft was committed
    "load",       \* the account cannot be loaded: KMS, database, unknown provider
    "refuse",     \* the mailbox or WhatsApp refuses a file, or the provider the email
    "lostAck",    \* the provider sent the message but the call failed
    "confirm" }   \* the confirmation on WhatsApp fails

ASSUME DraftsAssumption  == NoDraft \notin Drafts
ASSUME WorkersAssumption == NoWorker \notin Workers
ASSUME BoundsAssumption  == MaxAttempts \in Nat \ {0} /\ MaxStalls \in Nat
ASSUME FaultsAssumption  == Faults \subseteq FaultKinds

VARIABLES
    status,      \* drafts.status; "none" before the row exists
    composing,   \* drafts whose row is committed and whose job is not enqueued yet
    fileState,   \* staged_attachments: absent, pending, claimed, expired
    claimedBy,   \* staged_attachments.draftId
    job,         \* the state of the job send~<draftId> in Redis
    attempts,    \* job.attemptsMade
    stalls,      \* how often BullMQ put the job back because its lock was lost
    holder,      \* the worker slot that holds the job's lock
    step,        \* where a worker slot is in SendProcessor.handle
    on,          \* the draft it handles
    err,         \* the error its catch block is dealing with
    account,     \* email_accounts.status of the mailbox the mail leaves from
    lastAction,  \* conversation_states.lastAction, when it names a draft
    undoing,     \* the draft an undo took from lastAction and is about to cancel
    delivered,   \* history: how many copies of the draft the provider sent
    carried,     \* history: the drafts whose sent copies carried the file
    told         \* history: what the user was told about the draft

draftVars  == <<status, composing>>
fileVars   == <<fileState, claimedBy>>
jobVars    == <<job, attempts, stalls, holder>>
workerVars == <<step, on, err>>
undoVars   == <<lastAction, undoing>>
historyVars == <<delivered, carried, told>>
vars == <<draftVars, fileVars, jobVars, workerVars, account, undoVars, historyVars>>

Statuses  == {"none", "queued", "sending", "sent", "failed", "cancelled"}
FileStates == {"absent", "pending", "claimed", "expired"}
JobStates == {"absent", "waiting", "active", "completed", "dead"}
Steps     == {"idle", "claim", "load", "provider", "markSent", "confirm",
              "markFailed", "markReauth", "report"}
Errors    == {"none", "retryable", "fatal", "unauthorized"}
Messages  == {"sent", "failed", "stopped", "gone"}

TypeOK ==
    /\ status \in [Drafts -> Statuses]
    /\ composing \subseteq Drafts
    /\ fileState \in [Files -> FileStates]
    /\ claimedBy \in [Files -> Drafts \cup {NoDraft}]
    /\ job \in [Drafts -> JobStates]
    /\ attempts \in [Drafts -> Nat]
    /\ stalls \in [Drafts -> Nat]
    /\ holder \in [Drafts -> Workers \cup {NoWorker}]
    /\ step \in [Workers -> Steps]
    /\ on \in [Workers -> Drafts \cup {NoDraft}]
    /\ err \in [Workers -> Errors]
    /\ account \in {"active", "reauth_required"}
    /\ lastAction \in Drafts \cup {NoDraft}
    /\ undoing \in Drafts \cup {NoDraft}
    /\ delivered \in [Drafts -> Nat]
    /\ carried \in [Files -> SUBSET Drafts]
    /\ told \in [Drafts -> SUBSET Messages]

Init ==
    /\ status = [d \in Drafts |-> "none"]
    /\ composing = {}
    /\ fileState = [f \in Files |-> "absent"]
    /\ claimedBy = [f \in Files |-> NoDraft]
    /\ job = [d \in Drafts |-> "absent"]
    /\ attempts = [d \in Drafts |-> 0]
    /\ stalls = [d \in Drafts |-> 0]
    /\ holder = [d \in Drafts |-> NoWorker]
    /\ step = [w \in Workers |-> "idle"]
    /\ on = [w \in Workers |-> NoDraft]
    /\ err = [w \in Workers |-> "none"]
    /\ account = "active"
    /\ lastAction = NoDraft
    /\ undoing = NoDraft
    /\ delivered = [d \in Drafts |-> 0]
    /\ carried = [f \in Files |-> {}]
    /\ told = [d \in Drafts |-> {}]

Tell(d, message) == told' = [told EXCEPT ![d] = @ \cup {message}]

-----------------------------------------------------------------------------
(***************************************************************************)
(* Files the user sends in the chat.                                       *)
(***************************************************************************)

\* A file arrives and is held.  A redelivered message finds its row and is
\* dropped, so only an absent file can be staged.
StageFile(f) ==
    /\ fileState[f] = "absent"
    /\ fileState' = [fileState EXCEPT ![f] = "pending"]
    /\ UNCHANGED <<draftVars, claimedBy, jobVars, workerVars, account, undoVars, historyVars>>

\* STAGED_ATTACHMENT_TTL_MS passes before any email took the file.
ExpireFile(f) ==
    /\ fileState[f] = "pending"
    /\ fileState' = [fileState EXCEPT ![f] = "expired"]
    /\ UNCHANGED <<draftVars, claimedBy, jobVars, workerVars, account, undoVars, historyVars>>

\* "Drop the files": rows still pending are deleted.
DiscardPending ==
    /\ \E f \in Files : fileState[f] = "pending"
    /\ fileState' = [f \in Files |->
                        IF fileState[f] = "pending" THEN "absent" ELSE fileState[f]]
    /\ UNCHANGED <<draftVars, claimedBy, jobVars, workerVars, account, undoVars, historyVars>>

-----------------------------------------------------------------------------
(***************************************************************************)
(* Composing: one transaction, then one call to Redis.                     *)
(***************************************************************************)

\* Not enforced: a file another draft already took.
ClaimableTwice(f) == fileState[f] \in {"pending", "claimed"}

\* claimForDraft's WHERE: no draft yet, not expired.
Claimable(f) == fileState[f] = "pending"

\* DraftRepository.createForSend: the row and the claim on every pending file
\* commit together.
CreateForSend(d) ==
    /\ status[d] = "none"
    /\ status' = [status EXCEPT ![d] = "queued"]
    /\ composing' = composing \cup {d}
    /\ fileState' = [f \in Files |-> IF Claimable(f) THEN "claimed" ELSE fileState[f]]
    /\ claimedBy' = [f \in Files |-> IF Claimable(f) THEN d ELSE claimedBy[f]]
    /\ UNCHANGED <<jobVars, workerVars, account, undoVars, historyVars>>

\* The job is added under the key send~<draftId>.  A direct reply and a new
\* email are then recorded for undo; a reply or forward the user confirmed by a
\* tap is not, and a failure to record is swallowed.
EnqueueSend(d) ==
    /\ d \in composing
    /\ composing' = composing \ {d}
    /\ job' = [job EXCEPT ![d] = "waiting"]
    /\ lastAction' \in {d, lastAction}
    /\ UNCHANGED <<status, fileVars, attempts, stalls, holder, workerVars, account,
                   undoing, historyVars>>

\* Redis is down, or the commands worker dies between the two: the draft stays
\* queued with no job.  The user is told it failed, or is told nothing.
EnqueueFails(d) ==
    /\ "enqueue" \in Faults
    /\ d \in composing
    /\ composing' = composing \ {d}
    /\ \/ Tell(d, "failed")
       \/ told' = told
    /\ UNCHANGED <<status, fileVars, jobVars, workerVars, account, undoVars,
                   delivered, carried>>

-----------------------------------------------------------------------------
(***************************************************************************)
(* The job: what BullMQ does around the handler.                           *)
(***************************************************************************)

\* A free worker slot takes the job and its lock.
TakeJob(w, d) ==
    /\ step[w] = "idle"
    /\ job[d] = "waiting"
    /\ job' = [job EXCEPT ![d] = "active"]
    /\ holder' = [holder EXCEPT ![d] = w]
    /\ step' = [step EXCEPT ![w] = "claim"]
    /\ on' = [on EXCEPT ![w] = d]
    /\ err' = [err EXCEPT ![w] = "none"]
    /\ UNCHANGED <<draftVars, fileVars, attempts, stalls, account, undoVars, historyVars>>

Release(w) ==
    /\ step' = [step EXCEPT ![w] = "idle"]
    /\ on' = [on EXCEPT ![w] = NoDraft]
    /\ err' = [err EXCEPT ![w] = "none"]

\* The handler returned.  Only the slot that still holds the lock moves the job.
Complete(w) ==
    /\ IF holder[on[w]] = w
       THEN /\ job' = [job EXCEPT ![on[w]] = "completed"]
            /\ holder' = [holder EXCEPT ![on[w]] = NoWorker]
       ELSE UNCHANGED <<job, holder>>
    /\ UNCHANGED <<attempts, stalls>>
    /\ Release(w)

\* Not counted: a failed attempt leaves attemptsMade as it was.
NotCounted(d) == attempts[d]

\* job.attemptsMade after a failed attempt.
AttemptsAfter(d) == attempts[d] + 1

\* The handler threw error e: a retryable error goes back to the queue while
\* attempts remain; any other is discarded at once.
Throw(w, e) ==
    LET d == on[w] IN
    /\ IF holder[d] = w
       THEN /\ attempts' = [attempts EXCEPT ![d] = AttemptsAfter(d)]
            /\ job' = [job EXCEPT ![d] =
                        IF e = "retryable" /\ AttemptsAfter(d) < MaxAttempts
                        THEN "waiting" ELSE "dead"]
            /\ holder' = [holder EXCEPT ![d] = NoWorker]
       ELSE UNCHANGED <<job, holder, attempts>>
    /\ UNCHANGED stalls
    /\ Release(w)

\* A worker process dies; its locks are only found expired later.
Crash(w) ==
    /\ "crash" \in Faults
    /\ step[w] # "idle"
    /\ holder' = [d \in Drafts |-> IF holder[d] = w THEN NoWorker ELSE holder[d]]
    /\ Release(w)
    /\ UNCHANGED <<draftVars, fileVars, job, attempts, stalls, account, undoVars, historyVars>>

\* BullMQ's stalled check: an active job whose lock expired goes back to the
\* queue, and is failed once it stalled too often.  The slot may still be
\* running when the lock is taken for lost.
StallJob(d) ==
    /\ job[d] = "active"
    /\ holder[d] = NoWorker \/ "stall" \in Faults
    /\ holder' = [holder EXCEPT ![d] = NoWorker]
    /\ \/ /\ stalls[d] < MaxStalls
          /\ stalls' = [stalls EXCEPT ![d] = @ + 1]
          /\ job' = [job EXCEPT ![d] = "waiting"]
       \/ /\ stalls[d] >= MaxStalls
          /\ job' = [job EXCEPT ![d] = "dead"]
          /\ UNCHANGED stalls
    /\ UNCHANGED <<draftVars, fileVars, attempts, workerVars, account, undoVars, historyVars>>

-----------------------------------------------------------------------------
(***************************************************************************)
(* SendProcessor.handle, one action per awaited step.                      *)
(***************************************************************************)

Goto(w, s) == step' = [step EXCEPT ![w] = s] /\ UNCHANGED <<on, err>>

\* Control passes to the catch block with error e.
Catch(w, e) ==
    /\ step' = [step EXCEPT ![w] = "markFailed"]
    /\ err' = [err EXCEPT ![w] = e]
    /\ UNCHANGED on

Fails(fault) == fault \in Faults

\* Wrong conditions for the claim: one that takes over a draft in flight, one
\* that takes a draft back from undo.
CanClaimInFlight(d)  == status[d] \in {"queued", "sending"}
CanClaimCancelled(d) == status[d] \in {"queued", "cancelled"}

\* The conditional update of claimForSending.
CanClaim(d) == status[d] = "queued"

\* claimForSending.  Its transaction also decrypts the body: a failure there
\* rolls the claim back and leaves the handler outside its try block.
ClaimForSending(w) ==
    /\ step[w] = "claim"
    /\ \/ /\ CanClaim(on[w])
          /\ status' = [status EXCEPT ![on[w]] = "sending"]
          /\ Goto(w, "load")
          /\ UNCHANGED jobVars
       \/ /\ ~CanClaim(on[w])
          /\ Complete(w)
          /\ UNCHANGED status
       \/ /\ Fails("db")
          /\ \E e \in {"retryable", "fatal"} : Throw(w, e)
          /\ UNCHANGED status
    /\ UNCHANGED <<composing, fileVars, account, undoVars, historyVars>>

\* accounts.load and providerFor, also outside the try block: an error here is
\* thrown with the draft already claimed.
LoadAccount(w) ==
    /\ step[w] = "load"
    /\ \/ /\ account = "active"
          /\ Goto(w, "provider")
          /\ UNCHANGED jobVars
       \/ /\ account = "reauth_required"
          /\ Throw(w, "unauthorized")
       \/ /\ Fails("load")
          /\ \E e \in {"retryable", "fatal"} : Throw(w, e)
    /\ UNCHANGED <<draftVars, fileVars, account, undoVars, historyVars>>

\* A copy of the draft leaves, with the files it claimed.
CopyLeaves(d) ==
    /\ delivered' = [delivered EXCEPT ![d] = @ + 1]
    /\ carried' = [f \in Files |->
                      IF claimedBy[f] = d THEN carried[f] \cup {d} ELSE carried[f]]

\* Wrong: a provider's refusal is taken for an answer.
CallProviderUnchecked(w) ==
    /\ step[w] = "provider"
    /\ \/ CopyLeaves(on[w]) /\ Goto(w, "markSent")
       \/ Fails("refuse") /\ Goto(w, "markSent") /\ UNCHANGED <<delivered, carried>>
    /\ UNCHANGED <<draftVars, fileVars, jobVars, account, undoVars, told>>

\* Forwarded attachments are fetched from the mailbox and staged ones from
\* WhatsApp, then provider.send is called; a refusal by any of the three, of our
\* token too, lands in one catch block, which does not ask whose it was.  The
\* providers do not use the idempotency key.
CallProvider(w) ==
    /\ step[w] = "provider"
    /\ \/ CopyLeaves(on[w]) /\ Goto(w, "markSent")
       \/ Fails("lostAck") /\ CopyLeaves(on[w]) /\ Catch(w, "retryable")
       \/ /\ Fails("refuse")
          /\ \E e \in {"retryable", "fatal", "unauthorized"} : Catch(w, e)
          /\ UNCHANGED <<delivered, carried>>
    /\ UNCHANGED <<draftVars, fileVars, jobVars, account, undoVars, told>>

MarkSent(w) ==
    /\ step[w] = "markSent"
    /\ \/ /\ status' = [status EXCEPT ![on[w]] = "sent"]
          /\ Goto(w, "confirm")
       \/ Fails("db") /\ Catch(w, "retryable") /\ UNCHANGED status
    /\ UNCHANGED <<composing, fileVars, jobVars, account, undoVars, historyVars>>

\* outbound.reply with "Sent to ...": outside the 24-hour window it returns
\* without sending; a failure lands in the same catch block as a failed send,
\* and WhatsApp refusing our token carries the code a mailbox's refusal carries.
Confirm(w) ==
    /\ step[w] = "confirm"
    /\ \/ Tell(on[w], "sent") /\ Complete(w)
       \/ told' = told /\ Complete(w)
       \/ /\ Fails("confirm")
          /\ \E e \in {"retryable", "fatal", "unauthorized"} : Catch(w, e)
          /\ UNCHANGED <<jobVars, told>>
    /\ UNCHANGED <<draftVars, fileVars, account, undoVars, delivered, carried>>

\* Wrong: a permanent failure goes back to the queue.
StatusAfterRequeued(e) == "queued"

\* The status markFailed writes, whatever the row holds.
StatusAfter(e) == IF e = "retryable" THEN "queued" ELSE "failed"

\* markFailed, then: unauthorized marks the account, a retryable error is
\* rethrown, any other is reported to the user first.
MarkFailed(w) ==
    /\ step[w] = "markFailed"
    /\ \/ /\ status' = [status EXCEPT ![on[w]] = StatusAfter(err[w])]
          /\ \/ err[w] = "retryable" /\ Throw(w, "retryable")
             \/ err[w] = "fatal" /\ Goto(w, "report") /\ UNCHANGED jobVars
             \/ err[w] = "unauthorized" /\ Goto(w, "markReauth") /\ UNCHANGED jobVars
       \/ /\ Fails("db")
          /\ Throw(w, "retryable")
          /\ UNCHANGED status
    /\ UNCHANGED <<composing, fileVars, account, undoVars, historyVars>>

MarkReauthRequired(w) ==
    /\ step[w] = "markReauth"
    /\ \/ account' = "reauth_required" /\ Goto(w, "report") /\ UNCHANGED jobVars
       \/ Fails("db") /\ Throw(w, "retryable") /\ UNCHANGED account
    /\ UNCHANGED <<draftVars, fileVars, undoVars, historyVars>>

\* "I couldn't send that", which outbound.reply drops outside the 24-hour window
\* and whose own failure is swallowed; then the rethrow.
ReportFailure(w) ==
    /\ step[w] = "report"
    /\ Tell(on[w], "failed") \/ told' = told
    /\ Throw(w, err[w])
    /\ UNCHANGED <<draftVars, fileVars, account, undoVars, delivered, carried>>

-----------------------------------------------------------------------------
(***************************************************************************)
(* Undo, other actions on the chat, and the mailbox's authorisation.       *)
(***************************************************************************)

\* takeLastAction: the slot is emptied before anything is cancelled.  An action
\* older than the ten-minute window is dropped here.
TakeLastAction ==
    /\ lastAction # NoDraft
    /\ undoing = NoDraft
    /\ undoing' \in {lastAction, NoDraft}
    /\ lastAction' = NoDraft
    /\ UNCHANGED <<draftVars, fileVars, jobVars, workerVars, account, historyVars>>

\* Wrong: a draft a worker already claimed is cancelled.
CanCancelInFlight(d) == status[d] \in {"queued", "sending"}

\* The conditional update of cancelIfQueued.
CanCancel(d) == status[d] = "queued"

\* cancelIfQueued and the answer it is turned into.
CancelIfQueued ==
    /\ undoing # NoDraft
    /\ IF CanCancel(undoing)
       THEN /\ status' = [status EXCEPT ![undoing] = "cancelled"]
            /\ Tell(undoing, "stopped")
       ELSE /\ UNCHANGED status
            /\ Tell(undoing, "gone")
    /\ undoing' = NoDraft
    /\ UNCHANGED <<composing, fileVars, jobVars, workerVars, account, lastAction,
                   delivered, carried>>

\* The undo dies between the two steps; a retry finds nothing to undo.
UndoLost ==
    /\ "db" \in Faults
    /\ undoing # NoDraft
    /\ undoing' = NoDraft
    /\ UNCHANGED <<draftVars, fileVars, jobVars, workerVars, account, lastAction, historyVars>>

\* Another undoable action takes the single slot.
OtherAction ==
    /\ lastAction # NoDraft
    /\ lastAction' = NoDraft
    /\ UNCHANGED <<draftVars, fileVars, jobVars, workerVars, account, undoing, historyVars>>

\* Another processor loses access to the mailbox, or the user reconnects it.
LoseAccess ==
    /\ account = "active"
    /\ account' = "reauth_required"
    /\ UNCHANGED <<draftVars, fileVars, jobVars, workerVars, undoVars, historyVars>>

Reconnect ==
    /\ account = "reauth_required"
    /\ account' = "active"
    /\ UNCHANGED <<draftVars, fileVars, jobVars, workerVars, undoVars, historyVars>>

-----------------------------------------------------------------------------
\* The steps of a worker slot inside the handler.
Handle(w) ==
    \/ ClaimForSending(w) \/ LoadAccount(w) \/ CallProvider(w) \/ MarkSent(w)
    \/ Confirm(w) \/ MarkFailed(w) \/ MarkReauthRequired(w) \/ ReportFailure(w)

Next ==
    \/ \E f \in Files : StageFile(f) \/ ExpireFile(f)
    \/ DiscardPending
    \/ \E d \in Drafts : CreateForSend(d) \/ EnqueueSend(d) \/ EnqueueFails(d) \/ StallJob(d)
    \/ \E w \in Workers, d \in Drafts : TakeJob(w, d)
    \/ \E w \in Workers : Handle(w) \/ Crash(w)
    \/ TakeLastAction \/ CancelIfQueued \/ UndoLost \/ OtherAction
    \/ LoseAccess \/ Reconnect

Spec == Init /\ [][Next]_vars

\* BullMQ hands waiting jobs to free slots, a slot's awaits resolve, and the
\* stalled check runs.  Users, Redis and the mailbox owe nothing.
Fairness ==
    /\ \A w \in Workers : WF_vars(Handle(w))
    /\ \A d \in Drafts : WF_vars(\E w \in Workers : TakeJob(w, d))
    /\ \A d \in Drafts : WF_vars(holder[d] = NoWorker /\ StallJob(d))

FairSpec == Spec /\ Fairness

-----------------------------------------------------------------------------
(***************************************************************************)
(* Properties.                                                             *)
(***************************************************************************)

\* A slot that has claimed its draft and has not yet recorded an outcome.
Holds(w) == step[w] \in {"load", "provider", "markSent", "confirm", "markFailed"}

\* No two slots ever work on the same draft at once, whatever BullMQ re-runs:
\* the conditional update in claimForSending is the only lock there is.
ClaimExclusive ==
    \A w1, w2 \in Workers :
        Holds(w1) /\ Holds(w2) /\ on[w1] = on[w2] => w1 = w2

\* What undo stopped stays stopped: no copy leaves afterwards and no later
\* write (markSent and markFailed are unconditional) brings the draft back.
CancelledIsFinal ==
    [][\A d \in Drafts : status[d] = "cancelled" =>
          status'[d] = "cancelled" /\ delivered'[d] = delivered[d]]_vars

\* A row that says sent, and a user who was told so, mean a copy left.
SentMeansDelivered ==
    \A d \in Drafts : status[d] = "sent" \/ "sent" \in told[d] => delivered[d] > 0

\* However often the job is retried or re-run, the copies are bounded by the
\* number of its runs.
CopiesBounded ==
    \A d \in Drafts : delivered[d] <= MaxAttempts + MaxStalls

\* A staged file leaves with one email only, the one that claimed it.
FileTravelsOnce ==
    \A f \in Files : \A d, e \in carried[f] : d = e

\* The recipient never gets a second copy (send.processor.ts, "At most once").
AtMostOnce == \A d \in Drafts : delivered[d] <= 1

\* The user is never told that an email failed or was stopped when it left.
ToldTheTruth ==
    \A d \in Drafts : {"failed", "stopped"} \cap told[d] # {} => delivered[d] = 0

\* Every job that reaches the queue ends: completed, or dead-lettered.
JobEnds ==
    \A d \in Drafts : job[d] = "waiting" ~> job[d] \in {"completed", "dead"}

-----------------------------------------------------------------------------
(***************************************************************************)
(* The pipeline implements OutboundMail as long as nothing fails between a *)
(* copy leaving and the row saying so, and no confirmation fails.          *)
(***************************************************************************)

\* The failures that put a draft whose copy has left back in the queue.
ResendFaults == {"lostAck", "db", "confirm"}

\* No job was ever enqueued for the row, and none will be.
Stranded(d) == status[d] = "queued" /\ job[d] = "absent" /\ d \notin composing

Fate == [d \in Drafts |->
            IF delivered[d] > 0 THEN "delivered"
            ELSE IF status[d] = "none" THEN "none"
            ELSE IF status[d] = "cancelled" THEN "stopped"
            ELSE IF status[d] = "failed" \/ Stranded(d) THEN "abandoned"
            ELSE "held"]

Mail == INSTANCE OutboundMail WITH fate <- Fate, copies <- delivered

\* Every email is delivered at most once, or stopped, or abandoned, and the
\* user is told nothing else: the promise of OutboundMail.
MailSpec == Mail!Spec

=============================================================================
