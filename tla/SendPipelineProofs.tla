------------------------- MODULE SendPipelineProofs -------------------------
(***************************************************************************)
(* What holds of SendPipeline for any number of drafts, files and worker   *)
(* slots and any bounds on retries and stalls.  The first part assumes     *)
(* nothing about the failures; the second one that none of ResendFaults    *)
(* happens, and ends with the refinement of OutboundMail.                  *)
(***************************************************************************)
EXTENDS SendPipeline, TLAPS, FiniteSetTheorems

(***************************************************************************)
(* The inductive invariant, in named parts.                                *)
(***************************************************************************)

\* A slot inside the handler has a draft whose job was enqueued.
SlotsOnJobs ==
    \A w \in Workers : step[w] # "idle" => on[w] \in Drafts /\ job[on[w]] # "absent"

\* What the row says while a slot holds the claim on it.
ClaimedStatus ==
    \A w \in Workers :
        /\ step[w] \in {"load", "provider", "markSent"} => status[on[w]] = "sending"
        /\ step[w] = "confirm" => status[on[w]] = "sent"
        /\ step[w] = "markFailed" => status[on[w]] \in {"sending", "sent"}

\* A draft's row exists before anything is done with it.
ComposingQueued ==
    \A d \in Drafts :
        /\ d \in composing => status[d] = "queued" /\ job[d] = "absent"
        /\ status[d] = "none" => job[d] = "absent"

\* Only a draft whose job was enqueued can be undone.
UndoAfterEnqueue ==
    \A d \in Drafts : d \in {lastAction, undoing} => job[d] # "absent"

ClaimInv == SlotsOnJobs /\ ClaimedStatus /\ ClaimExclusive

RowInv == ComposingQueued /\ UndoAfterEnqueue

\* A copy has left before the handler records it and before anyone is told.
DeliveryInv ==
    /\ SentMeansDelivered
    /\ \A w \in Workers : step[w] \in {"markSent", "confirm"} => delivered[on[w]] > 0

\* A file that travelled belongs to the draft it travelled with, for good.
FileInv ==
    \A f \in Files :
        /\ carried[f] \subseteq {claimedBy[f]}
        /\ claimedBy[f] # NoDraft <=> fileState[f] = "claimed"
        /\ fileState[f] # "claimed" => carried[f] = {}

\* The runs on a draft that may still send their copy.
Running(d) == {w \in Workers : on[w] = d /\ step[w] \in {"claim", "load", "provider"}}

\* The copies that left and those that may.
Copies(d) == delivered[d] + Cardinality(Running(d))

\* The runs a job has begun.
RunsBounded(d) ==
    /\ holder[d] # NoWorker => job[d] = "active"
    /\ job[d] = "absent" => attempts[d] = 0 /\ stalls[d] = 0 /\ Copies(d) = 0
    /\ job[d] \in {"waiting", "active"} => attempts[d] < MaxAttempts /\ stalls[d] <= MaxStalls
    /\ job[d] = "waiting" => Copies(d) <= attempts[d] + stalls[d]
    /\ job[d] = "active" => Copies(d) <= attempts[d] + stalls[d] + 1
    /\ job[d] \in {"completed", "dead"} => Copies(d) <= MaxAttempts + MaxStalls

CopyInv == \A d \in Drafts : IsFiniteSet(Running(d)) /\ RunsBounded(d)

\* Without ResendFaults a draft whose copy left is never put back: it stays
\* claimed until it is sent, and a draft that failed was never delivered.
OnceInv ==
    /\ \A d \in Drafts : delivered[d] > 0 => status[d] \in {"sending", "sent"}
    /\ \A w \in Workers :
        /\ step[w] \in {"load", "provider", "markFailed"} => delivered[on[w]] = 0
        /\ step[w] \in {"markReauth", "report"} => status[on[w]] = "failed"
    /\ AtMostOnce

\* Who was told of a failure has a draft nothing will send.
ToldInv ==
    \A d \in Drafts :
        /\ "failed" \in told[d] => status[d] = "failed" \/ Stranded(d)
        /\ "stopped" \in told[d] => status[d] = "cancelled"

-----------------------------------------------------------------------------
(***************************************************************************)
(* Types, and the slots' drafts.                                           *)
(***************************************************************************)

Base == TypeOK /\ SlotsOnJobs

\* The initial state is well typed and satisfies every part of the invariant.
LEMMA InitHolds ==
    ASSUME Init
    PROVE  Base /\ ClaimInv /\ RowInv /\ DeliveryInv /\ FileInv /\ OnceInv /\ ToldInv
BY DraftsAssumption
   DEF Init, Base, TypeOK, ClaimInv, SlotsOnJobs, ClaimedStatus, ClaimExclusive, Holds, RowInv,
       ComposingQueued, UndoAfterEnqueue, DeliveryInv, SentMeansDelivered, FileInv, OnceInv,
       AtMostOnce, ToldInv, Statuses, FileStates, JobStates, Steps, Errors, Messages

\* Every action of the files, the composer, undo and the account keeps the
\* types and leaves the slots and the enqueued jobs where they are.
LEMMA OutsideKeepsBase ==
    ASSUME Base,
           \/ \E f \in Files : StageFile(f) \/ ExpireFile(f)
           \/ DiscardPending
           \/ \E d \in Drafts : CreateForSend(d) \/ EnqueueSend(d) \/ EnqueueFails(d)
           \/ TakeLastAction \/ CancelIfQueued \/ UndoLost \/ OtherAction
           \/ LoseAccess \/ Reconnect
           \/ UNCHANGED vars
    PROVE  Base'
<1> USE DEF Base, TypeOK, SlotsOnJobs, draftVars, fileVars, jobVars, workerVars, undoVars,
            historyVars, Statuses, FileStates, JobStates, Steps, Errors, Messages, Tell
<1>1. CASE \E f \in Files : StageFile(f) \/ ExpireFile(f)
  BY <1>1 DEF StageFile, ExpireFile
<1>2. CASE DiscardPending
  BY <1>2 DEF DiscardPending
<1>3. ASSUME NEW d \in Drafts, CreateForSend(d)
      PROVE  Base'
  BY <1>3 DEF CreateForSend
<1>4. ASSUME NEW d \in Drafts, EnqueueSend(d)
      PROVE  Base'
  BY <1>4 DEF EnqueueSend
<1>5. ASSUME NEW d \in Drafts, EnqueueFails(d)
      PROVE  Base'
  BY <1>5 DEF EnqueueFails
<1>6. CASE TakeLastAction
  BY <1>6 DEF TakeLastAction
<1>7. CASE CancelIfQueued
  BY <1>7 DEF CancelIfQueued
<1>8. CASE UndoLost \/ OtherAction \/ LoseAccess \/ Reconnect
  BY <1>8 DEF UndoLost, OtherAction, LoseAccess, Reconnect
<1>9. CASE UNCHANGED vars
  BY <1>9 DEF vars
<1> QED
  BY <1>1, <1>2, <1>3, <1>4, <1>5, <1>6, <1>7, <1>8, <1>9

\* BullMQ's moves keep the types, and a job once enqueued never disappears.
LEMMA QueueKeepsBase ==
    ASSUME Base,
           \/ \E w \in Workers, d \in Drafts : TakeJob(w, d)
           \/ \E w \in Workers : Crash(w)
           \/ \E d \in Drafts : StallJob(d)
    PROVE  Base'
<1> USE DEF Base, TypeOK, SlotsOnJobs, draftVars, fileVars, jobVars, workerVars, undoVars,
            historyVars, JobStates, Steps, Errors
<1>1. ASSUME NEW w \in Workers, NEW d \in Drafts, TakeJob(w, d)
      PROVE  Base'
  BY <1>1 DEF TakeJob
<1>2. ASSUME NEW w \in Workers, Crash(w)
      PROVE  Base'
  BY <1>2 DEF Crash, Release
<1>3. ASSUME NEW d \in Drafts, StallJob(d)
      PROVE  Base'
  BY <1>3 DEF StallJob
<1> QED
  BY <1>1, <1>2, <1>3

\* The handler returning or throwing frees the slot and keeps the types of the
\* job; a job that was enqueued stays enqueued.
LEMMA HandlerEnds ==
    ASSUME NEW w \in Workers, TypeOK, step[w] # "idle", SlotsOnJobs,
           \/ Complete(w)
           \/ \E e \in Errors : Throw(w, e)
    PROVE  /\ job' \in [Drafts -> JobStates]
           /\ attempts' \in [Drafts -> Nat]
           /\ stalls' \in [Drafts -> Nat]
           /\ holder' \in [Drafts -> Workers \cup {NoWorker}]
           /\ Release(w)
           /\ \A d \in Drafts : job'[d] = "absent" <=> job[d] = "absent"
<1> USE DEF TypeOK, SlotsOnJobs, JobStates
<1>1. CASE Complete(w)
  BY <1>1 DEF Complete
<1>2. ASSUME NEW e \in Errors, Throw(w, e)
      PROVE  /\ job' \in [Drafts -> JobStates]
             /\ attempts' \in [Drafts -> Nat]
             /\ stalls' \in [Drafts -> Nat]
             /\ holder' \in [Drafts -> Workers \cup {NoWorker}]
             /\ Release(w)
             /\ \A d \in Drafts : job'[d] = "absent" <=> job[d] = "absent"
  BY <1>2 DEF Throw, AttemptsAfter
<1> QED
  BY <1>1, <1>2

\* What a step of the handler leaves alone: the other slots, which jobs are
\* enqueued, and the draft the slot is on until it is free.
LEMMA HandlerFrame ==
    ASSUME Base, NEW w \in Workers, Handle(w)
    PROVE  /\ Base'
           /\ step[w] # "idle"
           /\ \A v \in Workers \ {w} : step'[v] = step[v] /\ on'[v] = on[v] /\ err'[v] = err[v]
           /\ step'[w] # "idle" => on'[w] = on[w]
           /\ \A d \in Drafts : job'[d] = "absent" <=> job[d] = "absent"
           /\ \A d \in Drafts \ {on[w]} :
                 status'[d] = status[d] /\ delivered'[d] = delivered[d] /\ told'[d] = told[d]
           /\ UNCHANGED <<composing, fileVars, undoVars>>
<1> DEFINE Moves ==
        /\ job' \in [Drafts -> JobStates]
        /\ attempts' \in [Drafts -> Nat]
        /\ stalls' \in [Drafts -> Nat]
        /\ holder' \in [Drafts -> Workers \cup {NoWorker}]
        /\ step' \in [Workers -> Steps] /\ on' \in [Workers -> Drafts \cup {NoDraft}]
        /\ err' \in [Workers -> Errors]
        /\ \A v \in Workers \ {w} : step'[v] = step[v] /\ on'[v] = on[v] /\ err'[v] = err[v]
        /\ step'[w] # "idle" => on'[w] = on[w]
        /\ \A d \in Drafts : job'[d] = "absent" <=> job[d] = "absent"
<1> DEFINE Writes ==
        /\ status' \in [Drafts -> Statuses]
        /\ delivered' \in [Drafts -> Nat]
        /\ told' \in [Drafts -> SUBSET Messages]
        /\ carried' \in [Files -> SUBSET Drafts]
        /\ account' \in {"active", "reauth_required"}
        /\ \A d \in Drafts \ {on[w]} :
              status'[d] = status[d] /\ delivered'[d] = delivered[d] /\ told'[d] = told[d]
        /\ UNCHANGED <<composing, fileVars, undoVars>>
<1> USE DEF Base
<1>1. step[w] # "idle" /\ on[w] \in Drafts /\ job[on[w]] # "absent"
  BY DEF SlotsOnJobs, Handle, ClaimForSending, LoadAccount, CallProvider, MarkSent, Confirm,
         MarkFailed, MarkReauthRequired, ReportFailure
<1>2. ASSUME Complete(w) \/ \E e \in Errors : Throw(w, e)
      PROVE  Moves
  <2>1. /\ job' \in [Drafts -> JobStates]
        /\ attempts' \in [Drafts -> Nat]
        /\ stalls' \in [Drafts -> Nat]
        /\ holder' \in [Drafts -> Workers \cup {NoWorker}]
        /\ Release(w)
        /\ \A d \in Drafts : job'[d] = "absent" <=> job[d] = "absent"
    BY <1>1, <1>2, HandlerEnds
  <2> QED
    BY <2>1 DEF Release, TypeOK, Steps, Errors
<1>3. ASSUME NEW s \in Steps, Goto(w, s), UNCHANGED jobVars
      PROVE  Moves
  BY <1>3 DEF Goto, jobVars, TypeOK
<1>4. ASSUME NEW e \in Errors, Catch(w, e), UNCHANGED jobVars
      PROVE  Moves
  BY <1>4 DEF Catch, jobVars, TypeOK, Steps
<1> HIDE DEF Moves
<1> USE <1>1
<1>5. Moves
  <2>1. CASE ClaimForSending(w)
    BY <2>1, <1>2, <1>3 DEF ClaimForSending, Steps, Errors
  <2>2. CASE LoadAccount(w)
    BY <2>2, <1>2, <1>3 DEF LoadAccount, Steps, Errors
  <2>3. CASE CallProvider(w)
    BY <2>3, <1>3, <1>4 DEF CallProvider, Steps, Errors
  <2>4. CASE MarkSent(w)
    BY <2>4, <1>3, <1>4 DEF MarkSent, Steps, Errors
  <2>5. CASE Confirm(w)
    BY <2>5, <1>2, <1>4 DEF Confirm, Errors
  <2>6. CASE MarkFailed(w)
    BY <2>6, <1>2, <1>3 DEF MarkFailed, Steps, Errors
  <2>7. CASE MarkReauthRequired(w)
    BY <2>7, <1>2, <1>3 DEF MarkReauthRequired, Steps, Errors
  <2>8. CASE ReportFailure(w)
    BY <2>8, <1>2 DEF ReportFailure, TypeOK
  <2> QED
    BY <2>1, <2>2, <2>3, <2>4, <2>5, <2>6, <2>7, <2>8 DEF Handle
<1>6. Writes
  <2> USE DEF TypeOK, draftVars, fileVars, undoVars, historyVars, Statuses, Messages
  <2>1. CASE ClaimForSending(w)
    BY <2>1 DEF ClaimForSending
  <2>2. CASE LoadAccount(w)
    BY <2>2 DEF LoadAccount
  <2>3. CASE CallProvider(w)
    BY <2>3 DEF CallProvider, CopyLeaves
  <2>4. CASE MarkSent(w)
    BY <2>4 DEF MarkSent
  <2>5. CASE Confirm(w)
    BY <2>5 DEF Confirm, Tell
  <2>6. CASE MarkFailed(w)
    BY <2>6 DEF MarkFailed, StatusAfter
  <2>7. CASE MarkReauthRequired(w)
    BY <2>7 DEF MarkReauthRequired
  <2>8. CASE ReportFailure(w)
    BY <2>8 DEF ReportFailure, Tell
  <2> QED
    BY <2>1, <2>2, <2>3, <2>4, <2>5, <2>6, <2>7, <2>8 DEF Handle
<1>7. TypeOK'
  BY <1>5, <1>6 DEF Moves, TypeOK, fileVars, undoVars
<1>8. SlotsOnJobs'
  BY <1>5 DEF Moves, SlotsOnJobs
<1> QED
  BY <1>5, <1>6, <1>7, <1>8 DEF Moves

\* Next, by who acts: the handler in a slot, BullMQ, or anyone else.
LEMMA NextByActor ==
    ASSUME [Next]_vars
    PROVE  \/ \E w \in Workers : Handle(w)
           \/ \E w \in Workers, d \in Drafts : TakeJob(w, d)
           \/ \E w \in Workers : Crash(w)
           \/ \E d \in Drafts : StallJob(d)
           \/ \E d \in Drafts : CreateForSend(d) \/ EnqueueSend(d) \/ EnqueueFails(d)
           \/ \E f \in Files : StageFile(f) \/ ExpireFile(f)
           \/ DiscardPending
           \/ TakeLastAction \/ CancelIfQueued \/ UndoLost \/ OtherAction
           \/ LoseAccess \/ Reconnect
           \/ UNCHANGED vars
BY DEF Next

\* Types, the place of every slot and the jobs once enqueued survive any step.
LEMMA BaseStep ==
    ASSUME Base, [Next]_vars
    PROVE  Base'
BY NextByActor, HandlerFrame, QueueKeepsBase, OutsideKeepsBase

\* Every variable keeps its type: a status, a job or a slot never takes a value
\* the code's enums do not have (schema.prisma, DraftStatus).
THEOREM TypeCorrect == Spec => []TypeOK
<1>1. Init => Base
  BY InitHolds
<1>2. Base /\ [Next]_vars => Base'
  BY BaseStep
<1>3. Base => TypeOK
  BY DEF Base
<1> QED
  BY <1>1, <1>2, <1>3, PTL DEF Spec

-----------------------------------------------------------------------------
(***************************************************************************)
(* The claim: whatever the queue re-runs, one slot at a time.              *)
(***************************************************************************)

\* A slot that holds the claim works on a row that says sending or sent.
LEMMA HolderStatus ==
    ASSUME ClaimInv, NEW w \in Workers, Holds(w)
    PROVE  status[on[w]] \in {"sending", "sent"}
BY DEF ClaimInv, ClaimedStatus, Holds

\* The claim survives a step of the handler: a slot gains it only from queued,
\* and a row that is queued has no holder.
LEMMA HandlerKeepsClaim ==
    ASSUME Base, ClaimInv, NEW w \in Workers, Handle(w)
    PROVE  ClaimInv'
<1> DEFINE Same(v) == step'[v] = step[v] /\ on'[v] = on[v]
<1>1. /\ Base'
      /\ step[w] # "idle"
      /\ \A v \in Workers \ {w} : Same(v)
      /\ step'[w] # "idle" => on'[w] = on[w]
      /\ \A d \in Drafts \ {on[w]} : status'[d] = status[d]
  BY HandlerFrame
<1>2. \A v \in Workers \ {w} : Holds(v)' <=> Holds(v)
  BY <1>1 DEF Holds
<1>3. \A v \in Workers \ {w} : Holds(v) => on[v] \in Drafts
  BY DEF Base, SlotsOnJobs, Holds
<1>4. ASSUME NEW v \in Workers \ {w}, Holds(v), on[v] = on[w]
      PROVE  ~Holds(w)
  BY <1>4 DEF ClaimInv, ClaimExclusive
<1> SUFFICES /\ Holds(w)' => \A v \in Workers \ {w} : Holds(v) => on[v] # on[w]
             /\ \A v \in Workers \ {w} : Holds(v) /\ on[v] = on[w] => status'[on[w]] = status[on[w]]
             /\ step'[w] \in {"load", "provider", "markSent"} => status'[on[w]] = "sending"
             /\ step'[w] = "confirm" => status'[on[w]] = "sent"
             /\ step'[w] = "markFailed" => status'[on[w]] \in {"sending", "sent"}
  <2>1. SlotsOnJobs'
    BY <1>1 DEF Base
  <2>2. ClaimedStatus'
    BY <1>1, <1>3 DEF ClaimInv, ClaimedStatus, Holds
  <2>3. ClaimExclusive'
    BY <1>1, <1>2 DEF ClaimInv, ClaimExclusive, Holds
  <2> QED
    BY <2>1, <2>2, <2>3 DEF ClaimInv
<1> USE DEF Base, TypeOK, ClaimInv, ClaimedStatus, Goto, Catch, Complete, Throw, Release, Holds
<1>5. CASE ClaimForSending(w)
  <2>1. step'[w] \in {"load", "idle"}
    BY <1>5 DEF ClaimForSending
  <2>2. step'[w] = "load" => status[on[w]] = "queued" /\ status'[on[w]] = "sending"
    BY <1>5, <1>1 DEF ClaimForSending, CanClaim, SlotsOnJobs
  <2>3. \A v \in Workers \ {w} : Holds(v) /\ on[v] = on[w] => status[on[w]] # "queued"
    BY HolderStatus
  <2>4. status'[on[w]] = status[on[w]] \/ status[on[w]] = "queued"
    BY <1>5 DEF ClaimForSending, CanClaim
  <2> QED
    BY <2>1, <2>2, <2>3, <2>4
<1>6. CASE LoadAccount(w)
  BY <1>6, <1>4 DEF LoadAccount, draftVars
<1>7. CASE CallProvider(w)
  BY <1>7, <1>4 DEF CallProvider, draftVars
<1>8. CASE MarkSent(w)
  BY <1>8, <1>4 DEF MarkSent, SlotsOnJobs
<1>9. CASE Confirm(w)
  BY <1>9, <1>4 DEF Confirm, draftVars
<1>10. CASE MarkFailed(w)
  BY <1>10, <1>4 DEF MarkFailed
<1>11. CASE MarkReauthRequired(w)
  BY <1>11, <1>4 DEF MarkReauthRequired, draftVars
<1>12. CASE ReportFailure(w)
  BY <1>12, <1>4 DEF ReportFailure, draftVars
<1> QED
  BY <1>5, <1>6, <1>7, <1>8, <1>9, <1>10, <1>11, <1>12 DEF Handle

\* The exclusivity of the claim survives any step, together with what a holder's
\* row may say.
LEMMA ClaimStep ==
    ASSUME Base, ClaimInv, [Next]_vars
    PROVE  ClaimInv'
<1>1. Base'
  BY BaseStep
<1> USE DEF Base, TypeOK, ClaimInv, SlotsOnJobs, ClaimedStatus, ClaimExclusive, Holds,
            draftVars, fileVars, jobVars, workerVars
<1>2. ASSUME NEW w \in Workers, Handle(w)
      PROVE  ClaimInv'
  BY <1>2, HandlerKeepsClaim
<1>3. ASSUME NEW w \in Workers, NEW d \in Drafts, TakeJob(w, d)
      PROVE  ClaimInv'
  BY <1>1, <1>3 DEF TakeJob
<1>4. ASSUME NEW w \in Workers, Crash(w)
      PROVE  ClaimInv'
  BY <1>1, <1>4 DEF Crash, Release
<1>5. ASSUME NEW d \in Drafts, StallJob(d)
      PROVE  ClaimInv'
  BY <1>1, <1>5 DEF StallJob
<1>6. ASSUME NEW d \in Drafts, CreateForSend(d)
      PROVE  ClaimInv'
  BY <1>1, <1>6 DEF CreateForSend
<1>7. ASSUME NEW d \in Drafts, EnqueueSend(d) \/ EnqueueFails(d)
      PROVE  ClaimInv'
  BY <1>1, <1>7 DEF EnqueueSend, EnqueueFails
<1>8. CASE CancelIfQueued
  BY <1>1, <1>8 DEF CancelIfQueued, CanCancel
<1>9. CASE \/ \E f \in Files : StageFile(f) \/ ExpireFile(f)
           \/ DiscardPending \/ TakeLastAction \/ UndoLost \/ OtherAction
           \/ LoseAccess \/ Reconnect \/ UNCHANGED vars
  BY <1>1, <1>9 DEF StageFile, ExpireFile, DiscardPending, TakeLastAction, UndoLost,
                    OtherAction, LoseAccess, Reconnect, vars
<1> QED
  BY <1>2, <1>3, <1>4, <1>5, <1>6, <1>7, <1>8, <1>9, NextByActor

\* Two slots never work on the same draft, whatever BullMQ re-runs
\* (DraftRepository.claimForSending).
THEOREM ClaimIsExclusive == Spec => []ClaimExclusive
<1>1. Init => Base /\ ClaimInv
  BY InitHolds
<1>2. Base /\ ClaimInv /\ [Next]_vars => Base' /\ ClaimInv'
  BY BaseStep, ClaimStep
<1>3. ClaimInv => ClaimExclusive
  BY DEF ClaimInv
<1> QED
  BY <1>1, <1>2, <1>3, PTL DEF Spec

\* A step of the handler leaves a cancelled row alone and sends no copy of it:
\* it writes and sends only what it claimed, and the claim is only on a row
\* that is queued.
LEMMA CancelledStays ==
    ASSUME Base, ClaimInv, [Next]_vars, NEW d \in Drafts, status[d] = "cancelled"
    PROVE  status'[d] = "cancelled" /\ delivered'[d] = delivered[d]
<1> USE DEF Base, TypeOK, draftVars, historyVars
<1>1. ASSUME NEW w \in Workers, Handle(w)
      PROVE  status'[d] = "cancelled" /\ delivered'[d] = delivered[d]
  <2>1. CASE on[w] # d
    BY <1>1, <2>1, HandlerFrame
  <2>2. CASE on[w] = d
    <3>1. ~Holds(w)
      BY <2>2, HolderStatus
    <3>2. ClaimForSending(w) \/ MarkReauthRequired(w) \/ ReportFailure(w)
      BY <1>1, <3>1 DEF Handle, Holds, LoadAccount, CallProvider, MarkSent, Confirm, MarkFailed
    <3> QED
      BY <2>2, <3>2 DEF ClaimForSending, CanClaim, MarkReauthRequired, ReportFailure
  <2> QED
    BY <2>1, <2>2
<1>2. CASE \E c \in Drafts : CreateForSend(c) \/ EnqueueSend(c) \/ EnqueueFails(c)
  BY <1>2 DEF CreateForSend, EnqueueSend, EnqueueFails
<1>3. CASE CancelIfQueued
  BY <1>3 DEF CancelIfQueued, CanCancel
<1>4. CASE \/ \E w \in Workers, c \in Drafts : TakeJob(w, c)
           \/ \E w \in Workers : Crash(w)
           \/ \E c \in Drafts : StallJob(c)
  BY <1>4 DEF TakeJob, Crash, StallJob
<1>5. CASE \/ \E f \in Files : StageFile(f) \/ ExpireFile(f)
           \/ DiscardPending \/ TakeLastAction \/ UndoLost \/ OtherAction
           \/ LoseAccess \/ Reconnect \/ UNCHANGED vars
  BY <1>5 DEF StageFile, ExpireFile, DiscardPending, TakeLastAction, UndoLost,
              OtherAction, LoseAccess, Reconnect, vars
<1> QED
  BY <1>1, <1>2, <1>3, <1>4, <1>5, NextByActor

\* What undo stopped is never sent and never comes back
\* (DraftRepository.cancelIfQueued against the unconditional markSent, markFailed).
THEOREM CancelledForGood == Spec => CancelledIsFinal
<1>1. Init => Base /\ ClaimInv
  BY InitHolds
<1>2. Base /\ ClaimInv /\ [Next]_vars => Base' /\ ClaimInv'
  BY BaseStep, ClaimStep
<1>3. Base /\ ClaimInv /\ [Next]_vars
        => [\A d \in Drafts : status[d] = "cancelled" =>
               status'[d] = "cancelled" /\ delivered'[d] = delivered[d]]_vars
  BY CancelledStays
<1> QED
  BY <1>1, <1>2, <1>3, PTL DEF Spec, CancelledIsFinal

-----------------------------------------------------------------------------
(***************************************************************************)
(* What was recorded and said, against what left.                          *)
(***************************************************************************)

\* No copy is taken back.
LEMMA DeliveredGrows ==
    ASSUME Base, [Next]_vars, NEW d \in Drafts
    PROVE  delivered'[d] >= delivered[d]
<1> USE DEF Base, TypeOK, historyVars
<1>1. CASE \E w \in Workers : Handle(w)
  BY <1>1 DEF Handle, ClaimForSending, LoadAccount, CallProvider, CopyLeaves, MarkSent, Confirm,
              MarkFailed, MarkReauthRequired, ReportFailure
<1>2. CASE ~ \E w \in Workers : Handle(w)
  BY <1>2, NextByActor
     DEF TakeJob, Crash, StallJob, CreateForSend, EnqueueSend, EnqueueFails, StageFile, ExpireFile,
         DiscardPending, TakeLastAction, CancelIfQueued, UndoLost, OtherAction, LoseAccess,
         Reconnect, vars
<1> QED
  BY <1>1, <1>2

\* A slot past provider.send, and a row that says sent, keep meaning that a copy
\* left.
LEMMA DeliveryStep ==
    ASSUME Base, ClaimInv, DeliveryInv, [Next]_vars
    PROVE  DeliveryInv'
<1>1. Base' /\ \A d \in Drafts : delivered'[d] >= delivered[d]
  BY BaseStep, DeliveredGrows
<1> USE DEF Base, TypeOK, SlotsOnJobs, DeliveryInv, SentMeansDelivered,
            draftVars, fileVars, jobVars, workerVars, historyVars
<1>2. ASSUME NEW w \in Workers, Handle(w)
      PROVE  DeliveryInv'
  <2>1. /\ step[w] # "idle" /\ on[w] \in Drafts
        /\ \A v \in Workers \ {w} : step'[v] = step[v] /\ on'[v] = on[v]
        /\ step'[w] # "idle" => on'[w] = on[w]
        /\ \A d \in Drafts \ {on[w]} : status'[d] = status[d] /\ told'[d] = told[d]
    BY <1>2, HandlerFrame
  <2>2. /\ step'[w] \in {"markSent", "confirm"} => delivered'[on[w]] > 0
        /\ status'[on[w]] = "sent" => delivered'[on[w]] > 0
        /\ "sent" \in told'[on[w]] => delivered'[on[w]] > 0
    <3> USE <2>1 DEF Goto, Catch, Complete, Throw, Release
    <3>1. CASE ClaimForSending(w)
      BY <1>1, <3>1 DEF ClaimForSending
    <3>2. CASE LoadAccount(w)
      BY <1>1, <3>2 DEF LoadAccount
    <3>3. CASE CallProvider(w)
      BY <1>1, <3>3 DEF CallProvider, CopyLeaves
    <3>4. CASE MarkSent(w)
      BY <1>1, <3>4 DEF MarkSent
    <3>5. CASE Confirm(w)
      BY <1>1, <3>5 DEF Confirm, Tell
    <3>6. CASE MarkFailed(w)
      BY <1>1, <3>6 DEF MarkFailed, StatusAfter
    <3>7. CASE MarkReauthRequired(w)
      BY <1>1, <3>7 DEF MarkReauthRequired
    <3>8. CASE ReportFailure(w)
      BY <1>1, <3>8 DEF ReportFailure, Tell
    <3> QED
      BY <1>2, <3>1, <3>2, <3>3, <3>4, <3>5, <3>6, <3>7, <3>8 DEF Handle
  <2> QED
    BY <1>1, <2>1, <2>2
<1>3. ASSUME NEW w \in Workers, NEW d \in Drafts, TakeJob(w, d)
      PROVE  DeliveryInv'
  BY <1>1, <1>3 DEF TakeJob
<1>4. CASE (\E w \in Workers : Crash(w)) \/ \E d \in Drafts : StallJob(d)
  BY <1>1, <1>4 DEF Crash, Release, StallJob
<1>5. ASSUME NEW d \in Drafts, CreateForSend(d) \/ EnqueueSend(d) \/ EnqueueFails(d)
      PROVE  DeliveryInv'
  BY <1>1, <1>5 DEF CreateForSend, EnqueueSend, EnqueueFails, Tell
<1>6. CASE CancelIfQueued
  BY <1>1, <1>6 DEF CancelIfQueued, Tell
<1>7. CASE \/ \E f \in Files : StageFile(f) \/ ExpireFile(f)
           \/ DiscardPending \/ TakeLastAction \/ UndoLost \/ OtherAction
           \/ LoseAccess \/ Reconnect \/ UNCHANGED vars
  BY <1>1, <1>7 DEF StageFile, ExpireFile, DiscardPending, TakeLastAction, UndoLost,
                    OtherAction, LoseAccess, Reconnect, vars
<1> QED
  BY <1>2, <1>3, <1>4, <1>5, <1>6, <1>7, NextByActor

\* The row says sent, or the user is told so, only of an email that left
\* (send.processor.ts: markSent and the confirmation follow provider.send).
THEOREM SentIsDelivered == Spec => []SentMeansDelivered
<1>1. Init => Base /\ ClaimInv /\ DeliveryInv
  BY InitHolds
<1>2. Base /\ ClaimInv /\ DeliveryInv /\ [Next]_vars => Base' /\ ClaimInv' /\ DeliveryInv'
  BY BaseStep, ClaimStep, DeliveryStep
<1>3. DeliveryInv => SentMeansDelivered
  BY DEF DeliveryInv
<1> QED
  BY <1>1, <1>2, <1>3, PTL DEF Spec

\* A file that has travelled keeps its claim on the draft it travelled with.
LEMMA FileStep ==
    ASSUME Base, FileInv, [Next]_vars
    PROVE  FileInv'
<1>1. Base'
  BY BaseStep
<1> USE DraftsAssumption
    DEF Base, TypeOK, FileStates, FileInv, draftVars, fileVars, jobVars, workerVars, historyVars
<1>2. ASSUME NEW w \in Workers, CallProvider(w)
      PROVE  FileInv'
  <2>1. fileState' = fileState /\ claimedBy' = claimedBy
    BY <1>2 DEF CallProvider
  <2>2. on[w] \in Drafts
    BY <1>2 DEF CallProvider, SlotsOnJobs
  <2>3. CopyLeaves(on[w]) \/ carried' = carried
    BY <1>2 DEF CallProvider
  <2> QED
    BY <2>1, <2>2, <2>3 DEF CopyLeaves
<1>3. ASSUME NEW w \in Workers, Handle(w), ~CallProvider(w)
      PROVE  UNCHANGED <<fileVars, carried>>
  BY <1>3 DEF Handle, ClaimForSending, LoadAccount, MarkSent, Confirm, MarkFailed,
              MarkReauthRequired, ReportFailure
<1>4. ASSUME NEW f \in Files, StageFile(f) \/ ExpireFile(f)
      PROVE  FileInv'
  BY <1>1, <1>4 DEF StageFile, ExpireFile
<1>5. CASE DiscardPending
  BY <1>1, <1>5 DEF DiscardPending
<1>6. ASSUME NEW d \in Drafts, CreateForSend(d)
      PROVE  FileInv'
  BY <1>1, <1>6 DEF CreateForSend, Claimable
<1>7. CASE \/ \E d \in Drafts : EnqueueSend(d) \/ EnqueueFails(d) \/ StallJob(d)
           \/ \E w \in Workers, d \in Drafts : TakeJob(w, d)
           \/ \E w \in Workers : Crash(w)
           \/ TakeLastAction \/ CancelIfQueued \/ UndoLost \/ OtherAction
           \/ LoseAccess \/ Reconnect \/ UNCHANGED vars
  <2>1. UNCHANGED <<fileVars, carried>>
    BY <1>7 DEF EnqueueSend, EnqueueFails, StallJob, TakeJob, Crash, TakeLastAction,
                CancelIfQueued, UndoLost, OtherAction, LoseAccess, Reconnect, vars
  <2> QED
    BY <2>1
<1> QED
  BY <1>2, <1>3, <1>4, <1>5, <1>6, <1>7, NextByActor

\* A file leaves with the one email that claimed it, however often that email
\* is retried and whatever is composed meanwhile (claimForDraft).
THEOREM FilesTravelOnce == Spec => []FileTravelsOnce
<1>1. Init => Base /\ FileInv
  BY InitHolds
<1>2. Base /\ FileInv /\ [Next]_vars => Base' /\ FileInv'
  BY BaseStep, FileStep
<1>3. FileInv => FileTravelsOnce
  BY DEF FileInv, FileTravelsOnce
<1> QED
  BY <1>1, <1>2, <1>3, PTL DEF Spec

-----------------------------------------------------------------------------
(***************************************************************************)
(* The copies of a draft, whatever fails: each run of its job that has     *)
(* begun sends one at most, and a run begins only with the job's first     *)
(* enqueueing, a counted attempt or a counted stall.                       *)
(***************************************************************************)

\* A row that does not exist has no job, no copy and no file.
LEMMA RowStep ==
    ASSUME Base, RowInv, [Next]_vars
    PROVE  RowInv'
<1>1. Base'
  BY BaseStep
<1> USE DraftsAssumption
    DEF Base, TypeOK, RowInv, ComposingQueued, UndoAfterEnqueue,
        draftVars, jobVars, undoVars
<1>2. ASSUME NEW w \in Workers, Handle(w)
      PROVE  RowInv'
  <2>1. /\ \A d \in Drafts : job'[d] = "absent" <=> job[d] = "absent"
        /\ \A d \in Drafts \ {on[w]} : status'[d] = status[d]
        /\ job[on[w]] # "absent" /\ on[w] \in Drafts
        /\ UNCHANGED <<composing, undoVars>>
    BY <1>2, HandlerFrame DEF SlotsOnJobs
  <2>2. status'[on[w]] = "none" => status[on[w]] = "none"
    BY <1>2, <2>1 DEF Handle, ClaimForSending, LoadAccount, CallProvider, MarkSent, Confirm,
                      MarkFailed, StatusAfter, MarkReauthRequired, ReportFailure
  <2> QED
    BY <2>1, <2>2
<1>3. CASE \/ \E w \in Workers, d \in Drafts : TakeJob(w, d)
           \/ \E w \in Workers : Crash(w)
           \/ \E d \in Drafts : StallJob(d)
  BY <1>1, <1>3 DEF TakeJob, Crash, StallJob
<1>4. ASSUME NEW d \in Drafts, CreateForSend(d)
      PROVE  RowInv'
  BY <1>1, <1>4 DEF CreateForSend
<1>5. ASSUME NEW d \in Drafts, EnqueueSend(d)
      PROVE  RowInv'
  BY <1>1, <1>5 DEF EnqueueSend
<1>6. ASSUME NEW d \in Drafts, EnqueueFails(d)
      PROVE  RowInv'
  BY <1>1, <1>6 DEF EnqueueFails
<1>7. CASE CancelIfQueued
  BY <1>1, <1>7 DEF CancelIfQueued
<1>8. CASE TakeLastAction
  BY <1>1, <1>8 DEF TakeLastAction
<1>9. CASE \/ \E f \in Files : StageFile(f) \/ ExpireFile(f)
           \/ DiscardPending \/ UndoLost \/ OtherAction
           \/ LoseAccess \/ Reconnect \/ UNCHANGED vars
  BY <1>1, <1>9 DEF StageFile, ExpireFile, DiscardPending, UndoLost, OtherAction, LoseAccess,
                    Reconnect, vars
<1> QED
  BY <1>2, <1>3, <1>4, <1>5, <1>6, <1>7, <1>8, <1>9, NextByActor

\* At the start nothing runs.
LEMMA CopyInit == Init => CopyInv
<1> SUFFICES ASSUME Init, NEW d \in Drafts PROVE IsFiniteSet(Running(d)) /\ RunsBounded(d)
  BY DEF CopyInv
<1>1. Running(d) = {} /\ delivered[d] = 0
  BY DEF Init, Running
<1>2. IsFiniteSet(Running(d)) /\ Copies(d) = 0
  BY <1>1, FS_EmptySet DEF Copies
<1> QED
  BY <1>2 DEF Init, RunsBounded

\* One slot that moves makes the runs of a draft one more, one less, or as many.
LEMMA RunningMoves ==
    ASSUME NEW d, IsFiniteSet(Running(d)), NEW w \in Workers,
           \A v \in Workers \ {w} : step'[v] = step[v] /\ on'[v] = on[v]
    PROVE  /\ IsFiniteSet(Running(d)')
           /\ Cardinality(Running(d)) \in Nat /\ Cardinality(Running(d)') \in Nat
           /\ Cardinality(Running(d)') = Cardinality(Running(d))
                                         + (IF w \in Running(d)' THEN 1 ELSE 0)
                                         - (IF w \in Running(d) THEN 1 ELSE 0)
<1>1. Running(d)' \ {w} = Running(d) \ {w}
  BY DEF Running
<1>2. Running(d)' = IF w \in Running(d)' THEN (Running(d) \ {w}) \cup {w} ELSE Running(d) \ {w}
  BY <1>1
<1>3. /\ IsFiniteSet(Running(d) \ {w})
      /\ Cardinality(Running(d) \ {w}) = Cardinality(Running(d)) - (IF w \in Running(d) THEN 1 ELSE 0)
  BY FS_RemoveElement, FS_CardinalityType
<1>4. /\ IsFiniteSet((Running(d) \ {w}) \cup {w})
      /\ Cardinality((Running(d) \ {w}) \cup {w}) = Cardinality(Running(d) \ {w}) + 1
  BY <1>3, FS_AddElement
<1>5. IsFiniteSet(Running(d)')
  BY <1>2, <1>3, <1>4
<1>6. Cardinality(Running(d)) \in Nat /\ Cardinality(Running(d)') \in Nat /\ Cardinality(Running(d) \ {w}) \in Nat
  BY <1>3, <1>5, FS_CardinalityType
<1>7. Cardinality(Running(d)') = Cardinality(Running(d) \ {w}) + (IF w \in Running(d)' THEN 1 ELSE 0)
  BY <1>2, <1>3, <1>4, <1>6
<1> QED
  BY <1>3, <1>5, <1>6, <1>7

\* A draft whose job, copies and slots stay as they are.
LEMMA CopySame ==
    ASSUME NEW d \in Drafts, IsFiniteSet(Running(d)), RunsBounded(d),
           job'[d] = job[d], attempts'[d] = attempts[d], stalls'[d] = stalls[d], holder'[d] = holder[d],
           delivered'[d] = delivered[d], Running(d)' = Running(d)
    PROVE  IsFiniteSet(Running(d)') /\ RunsBounded(d)'
BY DEF RunsBounded, Copies

\* A step of the handler sends a copy only by ending what the run may send.
LEMMA HandlerCopies ==
    ASSUME Base, CopyInv, NEW w \in Workers, NEW d \in Drafts, on[w] = d, Handle(w)
    PROVE  /\ \A e \in Drafts : IsFiniteSet(Running(e)')
           /\ \A e \in Drafts \ {d} : Running(e)' = Running(e)
           /\ Copies(d) \in Nat /\ Copies(d)' \in Nat /\ Copies(d)' <= Copies(d)
<1>1. /\ step[w] # "idle"
      /\ \A v \in Workers \ {w} : step'[v] = step[v] /\ on'[v] = on[v]
      /\ step'[w] # "idle" => on'[w] = on[w]
  BY HandlerFrame DEF Base, SlotsOnJobs
<1>2. delivered \in [Drafts -> Nat] /\ delivered' \in [Drafts -> Nat]
  BY HandlerFrame DEF Base, TypeOK
<1>3. ASSUME NEW e \in Drafts PROVE IsFiniteSet(Running(e)')
  BY <1>1, RunningMoves DEF CopyInv
<1>4. ASSUME NEW e \in Drafts \ {d} PROVE Running(e)' = Running(e)
  BY <1>1 DEF Running
<1>5. /\ Cardinality(Running(d)) \in Nat /\ Cardinality(Running(d)') \in Nat
      /\ Cardinality(Running(d)') = Cardinality(Running(d))
                                    + (IF w \in Running(d)' THEN 1 ELSE 0) - (IF w \in Running(d) THEN 1 ELSE 0)
  BY <1>1, RunningMoves DEF CopyInv
<1>6. \/ delivered'[d] = delivered[d] /\ (w \in Running(d)' => w \in Running(d))
      \/ delivered'[d] = delivered[d] + 1 /\ w \in Running(d) /\ w \notin Running(d)'
  <2> USE <1>1 DEF Running, Base, TypeOK, historyVars, Goto, Catch
  <2>1. CASE ClaimForSending(w)
    BY <2>1 DEF ClaimForSending, Complete, Throw, Release
  <2>2. CASE LoadAccount(w)
    BY <2>2 DEF LoadAccount, Throw, Release
  <2>3. CASE CallProvider(w)
    BY <2>3 DEF CallProvider, CopyLeaves
  <2>4. CASE MarkSent(w)
    BY <2>4 DEF MarkSent
  <2>5. CASE Confirm(w)
    BY <2>5 DEF Confirm, Complete, Release
  <2>6. CASE MarkFailed(w)
    BY <2>6 DEF MarkFailed, Throw, Release
  <2>7. CASE MarkReauthRequired(w)
    BY <2>7 DEF MarkReauthRequired, Throw, Release
  <2>8. CASE ReportFailure(w)
    BY <2>8 DEF ReportFailure, Throw, Release
  <2> QED
    BY <2>1, <2>2, <2>3, <2>4, <2>5, <2>6, <2>7, <2>8 DEF Handle
<1>7. Copies(d) \in Nat /\ Copies(d)' \in Nat /\ Copies(d)' <= Copies(d)
  BY <1>1, <1>2, <1>5, <1>6 DEF Copies
<1> QED
  BY <1>3, <1>4, <1>7

\* A handler leaves the job to BullMQ, or its return or error moves it.
LEMMA HandlerJob ==
    ASSUME NEW w \in Workers, Handle(w)
    PROVE  UNCHANGED jobVars \/ Complete(w) \/ \E e : Throw(w, e)
<1>1. CASE ClaimForSending(w)
  BY <1>1 DEF ClaimForSending
<1>2. CASE LoadAccount(w)
  BY <1>2 DEF LoadAccount
<1>3. CASE CallProvider(w)
  BY <1>3 DEF CallProvider
<1>4. CASE MarkSent(w)
  BY <1>4 DEF MarkSent
<1>5. CASE Confirm(w)
  BY <1>5 DEF Confirm
<1>6. CASE MarkFailed(w)
  BY <1>6 DEF MarkFailed
<1>7. CASE MarkReauthRequired(w)
  BY <1>7 DEF MarkReauthRequired
<1>8. CASE ReportFailure(w)
  BY <1>8 DEF ReportFailure
<1> QED
  BY <1>1, <1>2, <1>3, <1>4, <1>5, <1>6, <1>7, <1>8 DEF Handle

LEMMA HandlerKeepsCopies ==
    ASSUME Base, CopyInv, NEW w \in Workers, NEW d \in Drafts, on[w] = d, Handle(w)
    PROVE  CopyInv'
<1>1. job[d] # "absent"
  BY HandlerFrame DEF Base, SlotsOnJobs
<1>2. /\ \A e \in Drafts : IsFiniteSet(Running(e)')
      /\ \A e \in Drafts \ {d} : Running(e)' = Running(e) /\ delivered'[e] = delivered[e]
      /\ Copies(d) \in Nat /\ Copies(d)' \in Nat /\ Copies(d)' <= Copies(d)
  BY HandlerCopies, HandlerFrame
<1>3. /\ job \in [Drafts -> JobStates] /\ attempts \in [Drafts -> Nat] /\ stalls \in [Drafts -> Nat]
      /\ holder \in [Drafts -> Workers \cup {NoWorker}]
  BY DEF Base, TypeOK
<1>4. /\ \A e \in Drafts \ {d} : /\ job'[e] = job[e] /\ attempts'[e] = attempts[e]
                                 /\ stalls'[e] = stalls[e] /\ holder'[e] = holder[e]
      /\ \/ /\ job'[d] = job[d] /\ attempts'[d] = attempts[d]
            /\ stalls'[d] = stalls[d] /\ holder'[d] = holder[d]
         \/ /\ holder[d] = w /\ holder'[d] = NoWorker /\ stalls'[d] = stalls[d]
            /\ \/ job'[d] = "completed" /\ attempts'[d] = attempts[d]
               \/ /\ attempts'[d] = attempts[d] + 1
                  /\ job'[d] = "dead" \/ (job'[d] = "waiting" /\ attempts[d] + 1 < MaxAttempts)
  <2>1. CASE UNCHANGED jobVars
    BY <2>1 DEF jobVars
  <2>2. CASE Complete(w)
    BY <1>1, <1>3, <2>2 DEF Complete
  <2>3. ASSUME NEW e, Throw(w, e)
        PROVE  /\ \A c \in Drafts \ {d} : /\ job'[c] = job[c] /\ attempts'[c] = attempts[c]
                                          /\ stalls'[c] = stalls[c] /\ holder'[c] = holder[c]
               /\ \/ /\ job'[d] = job[d] /\ attempts'[d] = attempts[d]
                     /\ stalls'[d] = stalls[d] /\ holder'[d] = holder[d]
                  \/ /\ holder[d] = w /\ holder'[d] = NoWorker /\ stalls'[d] = stalls[d]
                     /\ \/ job'[d] = "completed" /\ attempts'[d] = attempts[d]
                        \/ /\ attempts'[d] = attempts[d] + 1
                           /\ job'[d] = "dead" \/ (job'[d] = "waiting" /\ attempts[d] + 1 < MaxAttempts)
    BY <1>1, <1>3, <2>3 DEF Throw, AttemptsAfter
  <2> QED
    BY <2>1, <2>2, <2>3, HandlerJob
<1>5. ASSUME NEW e \in Drafts \ {d}
      PROVE  IsFiniteSet(Running(e)') /\ RunsBounded(e)'
  BY <1>2, <1>4, CopySame DEF CopyInv
<1>6. RunsBounded(d)'
  <2>1. RunsBounded(d) /\ attempts[d] \in Nat /\ stalls[d] \in Nat /\ w # NoWorker
    BY <1>1, <1>3, WorkersAssumption DEF CopyInv
  <2> QED
    BY <1>1, <1>2, <1>4, <2>1, BoundsAssumption DEF RunsBounded
<1> QED
  BY <1>2, <1>5, <1>6 DEF CopyInv

\* BullMQ begins a run with a waiting job, and puts one back that is counted.
LEMMA QueueKeepsCopies ==
    ASSUME Base, CopyInv,
           \/ \E w \in Workers, d \in Drafts : TakeJob(w, d)
           \/ \E w \in Workers : Crash(w)
           \/ \E d \in Drafts : StallJob(d)
    PROVE  CopyInv'
<1> USE BoundsAssumption, WorkersAssumption
<1>1. /\ job \in [Drafts -> JobStates] /\ attempts \in [Drafts -> Nat] /\ stalls \in [Drafts -> Nat]
      /\ holder \in [Drafts -> Workers \cup {NoWorker}] /\ delivered \in [Drafts -> Nat]
      /\ step \in [Workers -> Steps] /\ on \in [Workers -> Drafts \cup {NoDraft}]
  BY DEF Base, TypeOK
<1>2. ASSUME NEW w \in Workers, NEW d \in Drafts, TakeJob(w, d)
      PROVE  CopyInv'
  <2>1. /\ \A v \in Workers \ {w} : step'[v] = step[v] /\ on'[v] = on[v]
        /\ step[w] = "idle" /\ step'[w] = "claim" /\ on'[w] = d
    BY <1>1, <1>2 DEF TakeJob
  <2>2. ASSUME NEW e \in Drafts \ {d} PROVE IsFiniteSet(Running(e)') /\ RunsBounded(e)'
    <3>1. Running(e)' = Running(e)
      BY <2>1 DEF Running
    <3>2. /\ job'[e] = job[e] /\ attempts'[e] = attempts[e] /\ stalls'[e] = stalls[e]
          /\ holder'[e] = holder[e] /\ delivered'[e] = delivered[e]
      BY <1>1, <1>2 DEF TakeJob, historyVars
    <3> QED
      BY <3>1, <3>2, CopySame DEF CopyInv
  <2>3. IsFiniteSet(Running(d)') /\ RunsBounded(d)'
    <3>1. w \notin Running(d) /\ w \in Running(d)'
      BY <2>1 DEF Running
    <3>2. /\ IsFiniteSet(Running(d)') /\ Cardinality(Running(d)) \in Nat
          /\ Cardinality(Running(d)') = Cardinality(Running(d)) + 1
      BY <2>1, <3>1, RunningMoves DEF CopyInv
    <3>3. /\ job[d] = "waiting" /\ job'[d] = "active" /\ attempts'[d] = attempts[d] /\ stalls'[d] = stalls[d]
          /\ delivered'[d] = delivered[d]
      BY <1>1, <1>2 DEF TakeJob, historyVars
    <3>4. Copies(d)' = Copies(d) + 1 /\ Copies(d) \in Nat
      BY <1>1, <3>2, <3>3 DEF Copies
    <3>5. attempts[d] \in Nat /\ stalls[d] \in Nat /\ RunsBounded(d)
      BY <1>1 DEF CopyInv
    <3> QED
      BY <3>2, <3>3, <3>4, <3>5 DEF RunsBounded
  <2> QED
    BY <2>2, <2>3 DEF CopyInv
<1>3. ASSUME NEW w \in Workers, Crash(w)
      PROVE  CopyInv'
  <2>1. /\ \A v \in Workers \ {w} : step'[v] = step[v] /\ on'[v] = on[v]
        /\ step'[w] = "idle" /\ UNCHANGED <<job, attempts, stalls, delivered>>
    BY <1>1, <1>3 DEF Crash, Release, historyVars
  <2>2. ASSUME NEW d \in Drafts PROVE IsFiniteSet(Running(d)') /\ RunsBounded(d)'
    <3>1. w \notin Running(d)'
      BY <2>1 DEF Running
    <3>2. /\ IsFiniteSet(Running(d)') /\ Cardinality(Running(d)) \in Nat /\ Cardinality(Running(d)') \in Nat
          /\ Cardinality(Running(d)') <= Cardinality(Running(d))
      BY <2>1, <3>1, RunningMoves DEF CopyInv
    <3>3. Copies(d) \in Nat /\ Copies(d)' \in Nat /\ Copies(d)' <= Copies(d)
      BY <1>1, <2>1, <3>2 DEF Copies
    <3>4. holder'[d] = NoWorker \/ holder'[d] = holder[d]
      BY <1>3 DEF Crash
    <3>5. attempts[d] \in Nat /\ stalls[d] \in Nat /\ RunsBounded(d)
      BY <1>1 DEF CopyInv
    <3> QED
      BY <2>1, <3>2, <3>3, <3>4, <3>5 DEF RunsBounded
  <2> QED
    BY <2>2 DEF CopyInv
<1>4. ASSUME NEW d \in Drafts, StallJob(d)
      PROVE  CopyInv'
  <2>1. UNCHANGED <<step, on, delivered, attempts>>
    BY <1>4 DEF StallJob, workerVars, historyVars
  <2>2. \A e \in Drafts : Running(e)' = Running(e) /\ Copies(e)' = Copies(e)
    BY <2>1 DEF Running, Copies
  <2>3. ASSUME NEW e \in Drafts \ {d} PROVE IsFiniteSet(Running(e)') /\ RunsBounded(e)'
    <3>1. job'[e] = job[e] /\ stalls'[e] = stalls[e] /\ holder'[e] = holder[e]
      BY <1>1, <1>4 DEF StallJob
    <3> QED
      BY <2>1, <2>2, <3>1, CopySame DEF CopyInv
  <2>4. RunsBounded(d)'
    <3>1. /\ job[d] = "active" /\ holder'[d] = NoWorker
          /\ \/ stalls[d] < MaxStalls /\ stalls'[d] = stalls[d] + 1 /\ job'[d] = "waiting"
             \/ stalls'[d] = stalls[d] /\ job'[d] = "dead"
      BY <1>1, <1>4 DEF StallJob
    <3>2. Copies(d) \in Nat
      <4>1. IsFiniteSet(Running(d))
        BY DEF CopyInv
      <4> QED
        BY <1>1, <4>1, FS_CardinalityType DEF Copies
    <3>3. attempts[d] \in Nat /\ stalls[d] \in Nat /\ RunsBounded(d)
      BY <1>1 DEF CopyInv
    <3> QED
      BY <2>1, <2>2, <3>1, <3>2, <3>3 DEF RunsBounded
  <2> QED
    BY <2>2, <2>3, <2>4 DEF CopyInv
<1> QED
  BY <1>2, <1>3, <1>4

LEMMA CopyStep ==
    ASSUME Base, RowInv, CopyInv, [Next]_vars
    PROVE  CopyInv'
<1>1. ASSUME UNCHANGED <<step, on, delivered, attempts, stalls, holder, job>>
      PROVE  CopyInv'
  <2>1. ASSUME NEW d \in Drafts PROVE IsFiniteSet(Running(d)') /\ RunsBounded(d)'
    <3>1. Running(d)' = Running(d)
      BY <1>1 DEF Running
    <3> QED
      BY <1>1, <3>1, CopySame DEF CopyInv
  <2> QED
    BY <2>1 DEF CopyInv
<1>2. ASSUME NEW d \in Drafts, EnqueueSend(d)
      PROVE  CopyInv'
  <2>1. /\ UNCHANGED <<step, on, delivered, attempts, stalls, holder>>
        /\ job[d] = "absent" /\ job'[d] = "waiting" /\ \A e \in Drafts \ {d} : job'[e] = job[e]
    BY <1>2 DEF EnqueueSend, workerVars, historyVars, RowInv, ComposingQueued, Base, TypeOK
  <2>2. \A e \in Drafts : Running(e)' = Running(e)
    BY <2>1 DEF Running
  <2>3. ASSUME NEW e \in Drafts \ {d} PROVE IsFiniteSet(Running(e)') /\ RunsBounded(e)'
    BY <2>1, <2>2, CopySame DEF CopyInv
  <2>4. RunsBounded(d)'
    <3>1. RunsBounded(d) /\ Copies(d)' = Copies(d)
      BY <2>1, <2>2 DEF CopyInv, Copies
    <3> QED
      BY <2>1, <3>1, BoundsAssumption DEF RunsBounded
  <2> QED
    BY <2>2, <2>3, <2>4 DEF CopyInv
<1>3. ASSUME NEW w \in Workers, Handle(w)
      PROVE  CopyInv'
  <2>1. \E d \in Drafts : on[w] = d
    BY <1>3, HandlerFrame DEF Base, SlotsOnJobs
  <2> QED
    BY <1>3, <2>1, HandlerKeepsCopies
<1>4. CASE \/ \E w \in Workers, d \in Drafts : TakeJob(w, d)
           \/ \E w \in Workers : Crash(w)
           \/ \E d \in Drafts : StallJob(d)
  BY <1>4, QueueKeepsCopies
<1>5. CASE \/ \E d \in Drafts : CreateForSend(d) \/ EnqueueFails(d)
           \/ \E f \in Files : StageFile(f) \/ ExpireFile(f)
           \/ DiscardPending
           \/ TakeLastAction \/ CancelIfQueued \/ UndoLost \/ OtherAction
           \/ LoseAccess \/ Reconnect
           \/ UNCHANGED vars
  BY <1>1, <1>5 DEF CreateForSend, EnqueueFails, StageFile, ExpireFile, DiscardPending, TakeLastAction, CancelIfQueued,
                    UndoLost, OtherAction, LoseAccess, Reconnect, vars, jobVars, workerVars, historyVars
<1> QED
  BY <1>2, <1>3, <1>4, <1>5, NextByActor

\* Whatever fails, however often the job is retried, loses its lock or is re-run while a slot still works
\* on it: at most one copy leaves for each attempt and each stall BullMQ allows (SendProcessor.handle).
THEOREM CopiesAreBounded == Spec => []CopiesBounded
<1>1. Base /\ CopyInv => CopiesBounded
  <2> SUFFICES ASSUME Base, CopyInv, NEW d \in Drafts PROVE delivered[d] <= MaxAttempts + MaxStalls
    BY DEF CopiesBounded
  <2>1. /\ delivered[d] \in Nat /\ attempts[d] \in Nat /\ stalls[d] \in Nat /\ job[d] \in JobStates
        /\ IsFiniteSet(Running(d)) /\ RunsBounded(d)
    BY DEF Base, TypeOK, CopyInv
  <2>2. Cardinality(Running(d)) \in Nat
    BY <2>1, FS_CardinalityType
  <2> QED
    BY <2>1, <2>2, BoundsAssumption DEF RunsBounded, Copies, JobStates
<1> QED
  BY <1>1, InitHolds, BaseStep, RowStep, CopyInit, CopyStep, PTL DEF Spec

-----------------------------------------------------------------------------
(***************************************************************************)
(* From here on nothing fails between a copy leaving and the row saying so.*)
(***************************************************************************)

NoResend == Faults \cap ResendFaults = {}

\* One step of the handler, on its own draft: a copy leaves only from provider,
\* where none has left; a draft goes back to the queue only if none has.
LEMMA HandlerOnce ==
    ASSUME NoResend, Base, ClaimInv, OnceInv, NEW w \in Workers, Handle(w)
    PROVE  LET d == on[w] IN
           /\ delivered'[d] > 0 => status'[d] \in {"sending", "sent"}
           /\ delivered'[d] <= 1
           /\ step'[w] \in {"load", "provider", "markFailed"} => delivered'[d] = 0
           /\ step'[w] \in {"markReauth", "report"} => status'[d] = "failed"
           /\ status'[d] # status[d] \/ delivered'[d] # delivered[d]
                 => status[d] = "queued" \/ Holds(w)
<1> DEFINE d == on[w]
<1>1. d \in Drafts /\ step[w] # "idle"
  BY HandlerFrame DEF Base, SlotsOnJobs
<1>2. /\ delivered[d] \in Nat /\ delivered[d] <= 1
      /\ delivered[d] > 0 => status[d] \in {"sending", "sent"}
      /\ step[w] \in {"load", "provider", "markFailed"} => delivered[d] = 0
      /\ step[w] \in {"markReauth", "report"} => status[d] = "failed"
      /\ step[w] \in {"load", "provider", "markSent"} => status[d] = "sending"
  BY <1>1 DEF Base, TypeOK, OnceInv, AtMostOnce, ClaimInv, ClaimedStatus
<1>3. ~Fails("db") /\ ~Fails("lostAck") /\ ~Fails("confirm")
  BY DEF NoResend, ResendFaults, Fails
<1> USE <1>1, <1>2, <1>3
    DEF Base, TypeOK, Holds, Goto, Catch, Complete, Throw, Release, draftVars, historyVars
<1>4. CASE ClaimForSending(w)
  BY <1>4 DEF ClaimForSending, CanClaim
<1>5. CASE LoadAccount(w)
  BY <1>5 DEF LoadAccount
<1>6. CASE CallProvider(w)
  BY <1>6 DEF CallProvider, CopyLeaves
<1>7. CASE MarkSent(w)
  BY <1>7 DEF MarkSent
<1>8. CASE Confirm(w)
  BY <1>8 DEF Confirm
<1>9. CASE MarkFailed(w)
  BY <1>9 DEF MarkFailed, StatusAfter
<1>10. CASE MarkReauthRequired(w)
  BY <1>10 DEF MarkReauthRequired
<1>11. CASE ReportFailure(w)
  BY <1>11 DEF ReportFailure
<1> QED
  BY <1>4, <1>5, <1>6, <1>7, <1>8, <1>9, <1>10, <1>11 DEF Handle

\* Without resends: a draft of which a copy left is never queued again, on any
\* step.
LEMMA OnceStep ==
    ASSUME NoResend, Base, ClaimInv, OnceInv, [Next]_vars
    PROVE  OnceInv'
<1>1. Base' /\ ClaimInv'
  BY BaseStep, ClaimStep
<1>2. ASSUME NEW w \in Workers, Handle(w)
      PROVE  OnceInv'
  <2> DEFINE d == on[w]
  <2>1. /\ d \in Drafts
        /\ \A v \in Workers \ {w} : step'[v] = step[v] /\ on'[v] = on[v]
        /\ step'[w] # "idle" => on'[w] = d
        /\ \A c \in Drafts \ {d} : status'[c] = status[c] /\ delivered'[c] = delivered[c]
    BY <1>2, HandlerFrame DEF Base, SlotsOnJobs
  <2>2. /\ delivered'[d] > 0 => status'[d] \in {"sending", "sent"}
        /\ delivered'[d] <= 1
        /\ step'[w] \in {"load", "provider", "markFailed"} => delivered'[d] = 0
        /\ step'[w] \in {"markReauth", "report"} => status'[d] = "failed"
        /\ status'[d] # status[d] \/ delivered'[d] # delivered[d]
              => status[d] = "queued" \/ Holds(w)
    BY <1>2, HandlerOnce
  <2>3. ASSUME NEW v \in Workers \ {w}, on[v] = d,
               step[v] \in {"load", "provider", "markFailed", "markReauth", "report"}
        PROVE  status'[d] = status[d] /\ delivered'[d] = delivered[d]
    <3>1. status[d] # "queued"
      BY <2>3 DEF ClaimInv, ClaimedStatus, OnceInv
    <3>2. CASE step[v] \in {"load", "provider", "markFailed"}
      BY <2>2, <2>3, <3>1, <3>2 DEF ClaimInv, ClaimExclusive, Holds
    <3>3. CASE step[v] \in {"markReauth", "report"}
      <4>1. status[d] = "failed"
        BY <2>3, <3>3 DEF OnceInv
      <4> QED
        BY <2>2, <4>1, HolderStatus
    <3> QED
      BY <2>3, <3>2, <3>3
  <2>4. \A c \in Drafts : delivered'[c] > 0 => status'[c] \in {"sending", "sent"}
    BY <2>1, <2>2 DEF OnceInv
  <2>5. AtMostOnce'
    BY <2>1, <2>2 DEF OnceInv, AtMostOnce
  <2>6. ASSUME NEW v \in Workers
        PROVE  /\ step'[v] \in {"load", "provider", "markFailed"} => delivered'[on'[v]] = 0
               /\ step'[v] \in {"markReauth", "report"} => status'[on'[v]] = "failed"
    <3>1. CASE v = w
      BY <2>1, <2>2, <3>1
    <3>2. CASE v # w /\ on[v] = d
      BY <2>1, <2>3, <3>2 DEF OnceInv
    <3>3. CASE v # w /\ on[v] # d
      <4>1. step'[v] = step[v] /\ on'[v] = on[v]
        BY <2>1, <3>3
      <4>2. step[v] # "idle" => on[v] \in Drafts \ {d}
        BY <3>3 DEF Base, SlotsOnJobs
      <4>3. step[v] # "idle" => status'[on[v]] = status[on[v]] /\ delivered'[on[v]] = delivered[on[v]]
        BY <2>1, <4>2
      <4> QED
        BY <4>1, <4>3 DEF OnceInv
    <3> QED
      BY <3>1, <3>2, <3>3
  <2> QED
    BY <2>4, <2>5, <2>6 DEF OnceInv
<1> USE DEF Base, TypeOK, SlotsOnJobs, OnceInv, AtMostOnce, draftVars, workerVars, historyVars
<1>3. CASE \/ \E w \in Workers, c \in Drafts : TakeJob(w, c)
           \/ \E w \in Workers : Crash(w)
           \/ \E c \in Drafts : StallJob(c)
  BY <1>1, <1>3 DEF TakeJob, Crash, Release, StallJob
<1>4. CASE \E c \in Drafts : CreateForSend(c) \/ EnqueueSend(c) \/ EnqueueFails(c)
  BY <1>1, <1>4 DEF CreateForSend, EnqueueSend, EnqueueFails
<1>5. CASE CancelIfQueued
  BY <1>1, <1>5 DEF CancelIfQueued, CanCancel
<1>6. CASE \/ \E f \in Files : StageFile(f) \/ ExpireFile(f)
           \/ DiscardPending \/ TakeLastAction \/ UndoLost \/ OtherAction
           \/ LoseAccess \/ Reconnect \/ UNCHANGED vars
  BY <1>1, <1>6 DEF StageFile, ExpireFile, DiscardPending, TakeLastAction, UndoLost,
                    OtherAction, LoseAccess, Reconnect, vars
<1> QED
  BY <1>2, <1>3, <1>4, <1>5, <1>6, NextByActor

\* At most one copy of every email leaves when no failure falls between the
\* provider taking it and the row saying so (send.processor.ts, "At most once").
THEOREM SendsAtMostOnce == NoResend => (Spec => []AtMostOnce)
<1> SUFFICES ASSUME NoResend
             PROVE  Spec => []AtMostOnce
  OBVIOUS
<1>1. Init => Base /\ ClaimInv /\ OnceInv
  BY InitHolds
<1>2. Base /\ ClaimInv /\ OnceInv /\ [Next]_vars => Base' /\ ClaimInv' /\ OnceInv'
  BY BaseStep, ClaimStep, OnceStep
<1>3. OnceInv => AtMostOnce
  BY DEF OnceInv
<1> QED
  BY <1>1, <1>2, <1>3, PTL DEF Spec

\* What a step of the handler writes on a draft that was told of as failed or
\* stopped: nothing, and it says "failed" only of a draft that has failed.
LEMMA ToldStep ==
    ASSUME NoResend, Base, ClaimInv, RowInv, OnceInv, ToldInv, [Next]_vars
    PROVE  ToldInv'
<1> USE DEF Base, TypeOK, Stranded, draftVars, jobVars, historyVars
<1>1. ASSUME NEW w \in Workers, Handle(w)
      PROVE  ToldInv'
  <2> DEFINE d == on[w]
  <2>1. /\ d \in Drafts /\ job[d] # "absent"
        /\ \A c \in Drafts : job'[c] = "absent" <=> job[c] = "absent"
        /\ \A c \in Drafts \ {d} : status'[c] = status[c] /\ told'[c] = told[c]
        /\ UNCHANGED composing
    BY <1>1, HandlerFrame DEF SlotsOnJobs
  <2>2. status'[d] # status[d] => status[d] \in {"queued", "sending", "sent"}
    BY <1>1, HandlerOnce, HolderStatus
  <2>3. \/ told'[d] = told[d]
        \/ told'[d] = told[d] \cup {"sent"}
        \/ /\ told'[d] = told[d] \cup {"failed"}
           /\ status'[d] = status[d]
           /\ status[d] = "failed"
    <3>1. CASE Confirm(w)
      BY <2>1, <3>1 DEF Confirm, Tell
    <3>2. CASE ReportFailure(w)
      BY <2>1, <3>2 DEF ReportFailure, Tell, OnceInv
    <3>3. CASE ~Confirm(w) /\ ~ReportFailure(w)
      BY <1>1, <3>3 DEF Handle, ClaimForSending, LoadAccount, CallProvider, MarkSent, MarkFailed,
                        MarkReauthRequired
    <3> QED
      BY <3>1, <3>2, <3>3
  <2>4. ~Stranded(d)
    BY <2>1
  <2>5. /\ "failed" \in told'[d] => status'[d] = "failed"
        /\ "stopped" \in told'[d] => status'[d] = "cancelled"
    BY <2>1, <2>2, <2>3, <2>4 DEF ToldInv
  <2> QED
    BY <2>1, <2>5 DEF ToldInv
<1>2. CASE \/ \E w \in Workers, c \in Drafts : TakeJob(w, c)
           \/ \E w \in Workers : Crash(w)
           \/ \E c \in Drafts : StallJob(c)
  BY <1>2 DEF ToldInv, TakeJob, Crash, StallJob
<1>3. ASSUME NEW c \in Drafts, CreateForSend(c)
      PROVE  ToldInv'
  BY <1>3 DEF ToldInv, CreateForSend
<1>4. ASSUME NEW c \in Drafts, EnqueueSend(c)
      PROVE  ToldInv'
  BY <1>4 DEF ToldInv, EnqueueSend
<1>5. ASSUME NEW c \in Drafts, EnqueueFails(c)
      PROVE  ToldInv'
  BY <1>5 DEF ToldInv, EnqueueFails, Tell, RowInv, ComposingQueued
<1>6. CASE CancelIfQueued
  BY <1>6 DEF ToldInv, CancelIfQueued, CanCancel, Tell, RowInv, UndoAfterEnqueue
<1>7. CASE \/ \E f \in Files : StageFile(f) \/ ExpireFile(f)
           \/ DiscardPending \/ TakeLastAction \/ UndoLost \/ OtherAction
           \/ LoseAccess \/ Reconnect \/ UNCHANGED vars
  BY <1>7 DEF ToldInv, StageFile, ExpireFile, DiscardPending, TakeLastAction, UndoLost,
              OtherAction, LoseAccess, Reconnect, vars
<1> QED
  BY <1>1, <1>2, <1>3, <1>4, <1>5, <1>6, <1>7, NextByActor

\* Everything the theorems without resends rest on.
Inv == Base /\ ClaimInv /\ RowInv /\ DeliveryInv /\ OnceInv /\ ToldInv

\* The conjunction of the parts is invariant without resends.
LEMMA InvInductive == NoResend => (Spec => []Inv)
<1> SUFFICES ASSUME NoResend
             PROVE  Spec => []Inv
  OBVIOUS
<1>1. Init => Inv
  BY InitHolds DEF Inv
<1>2. Inv /\ [Next]_vars => Inv'
  BY BaseStep, ClaimStep, RowStep, DeliveryStep, OnceStep, ToldStep DEF Inv
<1> QED
  BY <1>1, <1>2, PTL DEF Spec

\* The user is never told that an email failed, or was stopped, when it left.
THEOREM TellsTheTruth == NoResend => (Spec => []ToldTheTruth)
<1>1. Inv => ToldTheTruth
  BY DEF Inv, Base, TypeOK, OnceInv, ToldInv, Stranded, ToldTheTruth
<1> QED
  BY <1>1, InvInductive, PTL

-----------------------------------------------------------------------------
(***************************************************************************)
(* The refinement of OutboundMail.                                         *)
(***************************************************************************)

\* What Fate[d] depends on.
SameRow(d) ==
    /\ status'[d] = status[d]
    /\ delivered'[d] = delivered[d]
    /\ job'[d] = "absent" <=> job[d] = "absent"
    /\ d \in composing' <=> d \in composing

\* The fate of an email depends on its own row, copies, job and composer only.
LEMMA FateFrame ==
    ASSUME NEW D \in SUBSET Drafts, \A d \in Drafts \ D : SameRow(d)
    PROVE  /\ \A d \in Drafts \ D : Fate'[d] = Fate[d]
           /\ D = {} => Fate' = Fate
           /\ \A d \in Drafts : D = {d} => Fate' = [Fate EXCEPT ![d] = Fate'[d]]
<1>1. \A d \in Drafts \ D : Fate'[d] = Fate[d]
  BY DEF SameRow, Fate, Stranded
<1> QED
  BY <1>1 DEF Fate

\* A step that changes no row, no copy and no message is a stutter.
LEMMA Stutters ==
    ASSUME UNCHANGED <<draftVars, delivered, told>>,
           \A d \in Drafts : job'[d] = "absent" <=> job[d] = "absent"
    PROVE  UNCHANGED Mail!vars
BY DEF draftVars, Mail!vars, Fate, Stranded

\* Every step of the handler is a step of OutboundMail on its draft, or a stutter.
LEMMA HandlerRefines ==
    ASSUME NoResend, Inv, Inv', NEW w \in Workers, Handle(w)
    PROVE  Mail!Next \/ UNCHANGED Mail!vars
<1> DEFINE d == on[w]
<1>1. /\ d \in Drafts /\ job[d] # "absent" /\ job'[d] # "absent"
      /\ \A c \in Drafts : job'[c] = "absent" <=> job[c] = "absent"
      /\ \A c \in Drafts \ {d} : SameRow(c)
      /\ UNCHANGED composing
  BY HandlerFrame DEF Inv, Base, SlotsOnJobs, SameRow
<1>2. ~Stranded(d)
  BY <1>1 DEF Stranded
<1>3. Fate' = [Fate EXCEPT ![d] = Fate'[d]]
  BY <1>1, FateFrame
<1>4. ~Fails("db") /\ ~Fails("lostAck") /\ ~Fails("confirm")
  BY DEF NoResend, ResendFaults, Fails
<1>5. /\ step[w] \in {"load", "provider", "markSent"} => status[d] = "sending"
      /\ step[w] = "confirm" => status[d] = "sent"
      /\ step[w] = "markFailed" => status[d] \in {"sending", "sent"}
      /\ step[w] \in {"load", "provider", "markFailed"} => delivered[d] = 0
      /\ step[w] \in {"markSent", "confirm"} => delivered[d] > 0
      /\ step[w] \in {"markReauth", "report"} => status[d] = "failed"
      /\ delivered[d] > 0 => status[d] \in {"sending", "sent"}
      /\ delivered[d] \in Nat
  BY <1>1 DEF Inv, ClaimInv, ClaimedStatus, OnceInv, DeliveryInv, Base, TypeOK
<1>6. CASE ClaimForSending(w)
  <2>1. delivered' = delivered /\ told' = told
    BY <1>6 DEF ClaimForSending, historyVars
  <2>2. status' = status \/ (status[d] = "queued" /\ status'[d] = "sending")
    BY <1>1, <1>4, <1>6 DEF ClaimForSending, CanClaim, Inv, Base, TypeOK
  <2>3. Fate'[d] = Fate[d]
    BY <1>1, <1>5, <2>1, <2>2 DEF Fate, Stranded
  <2> QED
    BY <1>3, <2>1, <2>3 DEF Mail!vars, Fate
<1>7. CASE LoadAccount(w)
  BY <1>1, <1>7, Stutters DEF LoadAccount, historyVars, draftVars
<1>8. CASE CallProvider(w)
  <2>1. /\ status' = status /\ told' = told
        /\ \/ delivered' = delivered
           \/ delivered' = [delivered EXCEPT ![d] = 1] /\ delivered[d] = 0
    BY <1>1, <1>4, <1>5, <1>8 DEF CallProvider, CopyLeaves, draftVars
  <2>2. CASE delivered' = delivered
    BY <1>1, <2>1, <2>2, Stutters DEF draftVars
  <2>3. CASE delivered' # delivered
    <3>1. Fate[d] = "held" /\ Fate'[d] = "delivered"
      BY <1>1, <1>2, <1>5, <1>8, <2>1, <2>3 DEF CallProvider, Fate, Inv, Base, TypeOK
    <3> QED
      BY <1>1, <1>3, <2>1, <2>3, <3>1 DEF Mail!Next, Mail!Deliver, Mail!Become
  <2> QED
    BY <2>2, <2>3
<1>9. CASE MarkSent(w)
  <2>1. delivered' = delivered /\ told' = told /\ status'[d] = "sent"
    BY <1>1, <1>4, <1>9 DEF MarkSent, historyVars, Inv, Base, TypeOK
  <2>2. Fate'[d] = Fate[d]
    BY <1>1, <1>5, <1>9, <2>1 DEF MarkSent, Fate
  <2> QED
    BY <1>3, <2>1, <2>2 DEF Mail!vars, Fate
<1>10. CASE Confirm(w)
  <2>1. /\ UNCHANGED <<draftVars, delivered>>
        /\ told' = told \/ Tell(d, "sent")
    BY <1>4, <1>10 DEF Confirm
  <2>2. Fate' = Fate
    BY <1>1, <2>1, FateFrame DEF SameRow, draftVars
  <2>3. Fate[d] = "delivered"
    BY <1>1, <1>5, <1>10 DEF Confirm, Fate
  <2>4. CASE told' = told
    BY <2>1, <2>2, <2>4 DEF Mail!vars
  <2>5. CASE Tell(d, "sent")
    BY <1>1, <2>1, <2>2, <2>3, <2>5 DEF Tell, Mail!Next, Mail!Report, Mail!Say
  <2> QED
    BY <2>1, <2>4, <2>5
<1>11. CASE MarkFailed(w)
  <2>1. /\ delivered' = delivered /\ told' = told
        /\ status'[d] \in {"queued", "failed"}
    BY <1>1, <1>4, <1>11 DEF MarkFailed, StatusAfter, historyVars, Inv, Base, TypeOK
  <2>2. Fate[d] = "held" /\ Fate'[d] \in {"held", "abandoned"}
    BY <1>1, <1>5, <1>11, <2>1 DEF MarkFailed, Fate, Stranded
  <2>3. CASE Fate'[d] = "held"
    BY <1>3, <2>1, <2>2, <2>3 DEF Mail!vars, Fate
  <2>4. CASE Fate'[d] = "abandoned"
    BY <1>1, <1>3, <2>1, <2>2, <2>4 DEF Mail!Next, Mail!Abandon, Mail!Become
  <2> QED
    BY <2>2, <2>3, <2>4
<1>12. CASE MarkReauthRequired(w)
  BY <1>1, <1>12, Stutters DEF MarkReauthRequired, historyVars, draftVars
<1>13. CASE ReportFailure(w)
  <2>1. /\ UNCHANGED <<draftVars, delivered>>
        /\ told' = told \/ Tell(d, "failed")
    BY <1>4, <1>13 DEF ReportFailure
  <2>2. Fate' = Fate
    BY <1>1, <2>1, FateFrame DEF SameRow, draftVars
  <2>3. Fate[d] = "abandoned"
    BY <1>1, <1>5, <1>13 DEF ReportFailure, Fate
  <2>4. CASE told' = told
    BY <2>1, <2>2, <2>4 DEF Mail!vars
  <2>5. CASE Tell(d, "failed")
    BY <1>1, <2>1, <2>2, <2>3, <2>5 DEF Tell, Mail!Next, Mail!Report, Mail!Say
  <2> QED
    BY <2>1, <2>4, <2>5
<1> QED
  BY <1>6, <1>7, <1>8, <1>9, <1>10, <1>11, <1>12, <1>13 DEF Handle

\* Every step of the pipeline is a step of OutboundMail or a stutter.
LEMMA NextRefines ==
    ASSUME NoResend, Inv, Inv', [Next]_vars
    PROVE  Mail!Next \/ UNCHANGED Mail!vars
<1> USE DEF Inv, Base, TypeOK, draftVars, historyVars
<1>1. ASSUME NEW w \in Workers, Handle(w)
      PROVE  Mail!Next \/ UNCHANGED Mail!vars
  BY <1>1, HandlerRefines
<1>2. CASE \/ \E w \in Workers, d \in Drafts : TakeJob(w, d)
           \/ \E w \in Workers : Crash(w)
           \/ \E d \in Drafts : StallJob(d)
  BY <1>2, Stutters DEF TakeJob, Crash, StallJob
<1>3. ASSUME NEW d \in Drafts, CreateForSend(d)
      PROVE  Mail!Next
  <2>1. /\ status[d] = "none" /\ status' = [status EXCEPT ![d] = "queued"]
        /\ d \in composing' /\ \A c \in Drafts \ {d} : SameRow(c)
        /\ UNCHANGED <<delivered, told>>
    BY <1>3 DEF CreateForSend, jobVars, SameRow
  <2>2. delivered[d] = 0
    BY <2>1 DEF OnceInv
  <2>3. Fate[d] = "none" /\ Fate'[d] = "held"
    BY <2>1, <2>2 DEF Fate, Stranded
  <2>4. Fate' = [Fate EXCEPT ![d] = Fate'[d]]
    BY <2>1, FateFrame
  <2> QED
    BY <2>1, <2>3, <2>4 DEF Mail!Next, Mail!Accept, Mail!Become
<1>4. ASSUME NEW d \in Drafts, EnqueueSend(d)
      PROVE  UNCHANGED Mail!vars
  <2>1. /\ d \in composing /\ job'[d] = "waiting"
        /\ \A c \in Drafts \ {d} : SameRow(c)
        /\ UNCHANGED <<status, delivered, told>>
    BY <1>4 DEF EnqueueSend, SameRow
  <2>2. Fate'[d] = Fate[d]
    BY <2>1 DEF Fate, Stranded
  <2>3. Fate' = [Fate EXCEPT ![d] = Fate'[d]]
    BY <2>1, FateFrame
  <2>4. Fate' = Fate
    BY <2>2, <2>3 DEF Fate
  <2> QED
    BY <2>1, <2>4 DEF Mail!vars
<1>5. ASSUME NEW d \in Drafts, EnqueueFails(d)
      PROVE  Mail!Next
  <2>1. /\ d \in composing /\ d \notin composing'
        /\ status[d] = "queued" /\ job[d] = "absent"
        /\ \A c \in Drafts \ {d} : SameRow(c)
        /\ UNCHANGED <<status, job, delivered>>
        /\ Tell(d, "failed") \/ told' = told
    BY <1>5 DEF EnqueueFails, SameRow, jobVars, RowInv, ComposingQueued
  <2>2. delivered[d] = 0
    BY <2>1 DEF OnceInv
  <2>3. Fate[d] = "held" /\ Fate'[d] = "abandoned"
    BY <2>1, <2>2 DEF Fate, Stranded
  <2>4. Fate' = [Fate EXCEPT ![d] = Fate'[d]]
    BY <2>1, FateFrame
  <2> QED
    BY <2>1, <2>3, <2>4 DEF Tell, Mail!Next, Mail!Abandon, Mail!Become, Mail!Say
<1>6. CASE CancelIfQueued
  <2> DEFINE d == undoing
  <2>1. /\ d \in Drafts /\ job[d] # "absent"
        /\ UNCHANGED <<composing, job, delivered>>
    BY <1>6 DEF CancelIfQueued, jobVars, RowInv, UndoAfterEnqueue
  <2>2. CASE CanCancel(d)
    <3>1. /\ status[d] = "queued" /\ status' = [status EXCEPT ![d] = "cancelled"]
          /\ \A c \in Drafts \ {d} : SameRow(c)
          /\ Tell(d, "stopped")
      BY <1>6, <2>1, <2>2 DEF CancelIfQueued, CanCancel, SameRow
    <3>2. delivered[d] = 0
      BY <2>1, <3>1 DEF OnceInv
    <3>3. Fate[d] = "held" /\ Fate'[d] = "stopped"
      BY <2>1, <3>1, <3>2 DEF Fate, Stranded
    <3>4. Fate' = [Fate EXCEPT ![d] = Fate'[d]]
      BY <2>1, <3>1, FateFrame
    <3> QED
      BY <2>1, <3>1, <3>3, <3>4 DEF Tell, Mail!Next, Mail!Stop, Mail!Become, Mail!Say
  <2>3. CASE ~CanCancel(d)
    <3>1. UNCHANGED <<status, composing, job, delivered>> /\ Tell(d, "gone")
      BY <1>6, <2>1, <2>3 DEF CancelIfQueued
    <3>2. Fate' = Fate
      BY <3>1, FateFrame DEF SameRow
    <3> QED
      BY <2>1, <3>1, <3>2 DEF Tell, Mail!Next, Mail!Report, Mail!Say
  <2> QED
    BY <2>2, <2>3
<1>7. CASE \/ \E f \in Files : StageFile(f) \/ ExpireFile(f)
           \/ DiscardPending \/ TakeLastAction \/ UndoLost \/ OtherAction
           \/ LoseAccess \/ Reconnect \/ UNCHANGED vars
  BY <1>7, Stutters DEF StageFile, ExpireFile, DiscardPending, TakeLastAction, UndoLost,
                        OtherAction, LoseAccess, Reconnect, jobVars, vars
<1> QED
  BY <1>1, <1>2, <1>3, <1>4, <1>5, <1>6, <1>7, NextByActor

\* The drafts table, the queue, its workers and undo implement OutboundMail:
\* one delivery, one outcome, no message that is not so.
THEOREM ImplementsOutboundMail == NoResend => (Spec => MailSpec)
<1> SUFFICES ASSUME NoResend
             PROVE  Spec => MailSpec
  OBVIOUS
<1>1. Init => Mail!Init
  BY DEF Init, Mail!Init, Fate
<1>2. Inv /\ Inv' /\ [Next]_vars => [Mail!Next]_(Mail!vars)
  BY NextRefines
<1> QED
  BY <1>1, <1>2, InvInductive, PTL DEF Spec, MailSpec, Mail!Spec
=============================================================================
