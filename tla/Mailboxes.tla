----------------------------- MODULE Mailboxes -----------------------------
(***************************************************************************)
(* The mailboxes users connect: the row of email_accounts with its sealed  *)
(* tokens, the route a provider's push is delivered by, the watch that     *)
(* makes the provider push, and the renewal, polling, walking and          *)
(* disconnecting that share them without a lock.                           *)
(*                                                                         *)
(* An account is a user and a mailbox.  A consent makes a grant, and the   *)
(* grant stands for the access and the refresh token it came with: which   *)
(* mailbox a token opens is told by its grant.  Requests of the api and    *)
(* jobs of the worker are slots that go through the awaited steps of their *)
(* handlers.  Time is counted in renewal horizons (two days).              *)
(***************************************************************************)
EXTENDS Integers, FiniteSets

CONSTANTS
    Users, Boxes,
    Owned,           \* the sets of accounts that may come to be connected
    Gmail,           \* the boxes that are Gmail's; the others are Outlook's
    NoAccount,
    Slots,           \* requests and jobs in flight at once
    MaxGrants,       \* how many consents are given in a behaviour
    MaxClock,
    Lasts,           \* how long a watch lasts (3 horizons: seven days, less one)
    MaxRevoked,      \* how often access is withdrawn
    MaxTasks,        \* how many requests and jobs are begun
    Disturbances, MaxDisturbed

DisturbanceKinds == {
    "fault",         \* a provider is slow down, unreachable or broken for a moment
    "outage",        \* and stays so for all the attempts of a job
    "limited",       \* the provider asks for less: 429, or 403 with a quota's reason
    "unconfigured",  \* no topic or notification address is set up for pushes
    "retired",       \* Microsoft stops taking a refresh token it has replaced
    "db",            \* the database does not take the record of a watch
    "crash" }        \* the process dies in the middle of a request or a job

ASSUME MailboxesAssumption == Owned \subseteq SUBSET (Users \X Boxes) /\ Gmail \subseteq Boxes /\ NoAccount \notin Boxes \cup (Users \X Boxes)
ASSUME MailboxBoundsAssumption ==
    MaxGrants \in Nat /\ MaxClock \in Nat /\ Lasts \in Nat \ {0}
    /\ MaxRevoked \in Nat /\ MaxTasks \in Nat
ASSUME MailboxDisturbances == Disturbances \subseteq DisturbanceKinds /\ MaxDisturbed \in Nat

Accounts == Users \X Boxes
Box(a) == a[2]
Grants == 1..MaxGrants
None == 0
Pending == NoAccount         \* the id link() uses before there is an account
Times == 0..MaxClock + Lasts

VARIABLES
    owned,       \* the accounts users connect in this behaviour
    clock,
    grant,       \* the consents: which box each opens, and what has become of it
    row,         \* email_accounts
    route,       \* provider_account_routes, by address
    till,        \* until when Gmail pushes what happens in a box
    renewals,    \* renewal jobs in the queue, by the expiry they are keyed on
    dead,        \* those that failed for good, whose ids the queue still knows
    cached,      \* the access tokens the Graph adapters of the two processes hold
    persisting,  \* refreshed tokens on their way to the row, which nobody awaits
    slot,
    revoked,     \* how often access was withdrawn
    begun,       \* how many requests and jobs there were
    disturbed,
    mistaken,    \* history: accounts that were verified with another consent's token
    crossed,     \* history: boxes connected across other work, or by two users
    withdrawn    \* history: boxes a grant of which was withdrawn or retired

tokenVars == <<grant, cached, persisting>>
watchVars == <<route, till, renewals, dead>>
historyVars == <<mistaken, crossed, withdrawn>>
vars == <<owned, clock, tokenVars, row, watchVars, slot, begun, revoked, disturbed, historyVars>>

Row == [status : {"none", "connecting", "active", "reauth_required", "disconnected"},
        gone : BOOLEAN, access : 0..MaxGrants, refresh : 0..MaxGrants, fresh : BOOLEAN,
        cursor : BOOLEAN, subscribed : BOOLEAN]
NoRow == [status |-> "none", gone |-> FALSE, access |-> None, refresh |-> None, fresh |-> FALSE,
          cursor |-> FALSE, subscribed |-> FALSE]
NoRoute == [to |-> NoAccount, expires |-> None]
Tasks == {"none", "link", "disconnect", "renew", "walk"}
Steps == {"idle", "verify", "store", "route", "load", "call", "persist", "record", "excuse",
          "stop", "wipe", "drop", "mark", "unavailable"}
Slot == [step : Steps, task : Tasks, of : Accounts \cup {NoAccount}, access : 0..MaxGrants,
         refresh : 0..MaxGrants, fresh : BOOLEAN, due : Times]
Work(task, a, step) == [step |-> step, task |-> task, of |-> a, access |-> None, refresh |-> None,
                        fresh |-> FALSE, due |-> 0]
Idle == Work("none", NoAccount, "idle")

TypeOK ==
    /\ owned \in Owned
    /\ clock \in 0..MaxClock
    /\ grant \in [Grants -> [opens : Boxes, state : {"good", "rotated", "retired", "revoked"}]
                            \cup {[opens |-> NoAccount, state |-> "none"]}]
    /\ row \in [Accounts -> Row]
    /\ route \in [Boxes -> [to : Accounts \cup {NoAccount}, expires : Times]]
    /\ till \in [Boxes -> Times]
    /\ renewals \subseteq Accounts \X Times /\ dead \subseteq Accounts \X Times
    /\ cached \in [{"api", "worker"} \X (Accounts \cup {Pending}) -> 0..MaxGrants]
    /\ persisting \subseteq Accounts \X Grants
    /\ slot \in [Slots -> Slot]
    /\ begun \in 0..MaxTasks /\ revoked \in 0..MaxRevoked /\ disturbed \in 0..MaxDisturbed
    /\ mistaken \subseteq Accounts /\ crossed \subseteq Boxes /\ withdrawn \subseteq Boxes

Init ==
    /\ owned \in Owned
    /\ clock = 0
    /\ grant = [g \in Grants |-> [opens |-> NoAccount, state |-> "none"]]
    /\ row = [a \in Accounts |-> NoRow]
    /\ route = [b \in Boxes |-> NoRoute]
    /\ till = [b \in Boxes |-> 0]
    /\ renewals = {} /\ dead = {}
    /\ cached = [k \in {"api", "worker"} \X (Accounts \cup {Pending}) |-> None]
    /\ persisting = {}
    /\ slot = [s \in Slots |-> Idle]
    /\ begun = 0 /\ revoked = 0 /\ disturbed = 0
    /\ mistaken = {} /\ crossed = {} /\ withdrawn = {}

At(s, step) == slot[s].step = step
Doing(s, task) == slot[s].task = task
Goto(s, step) == slot' = [slot EXCEPT ![s].step = step]
\* On to a step that makes no use of the tokens.
Leave(s, step) == slot' = [slot EXCEPT ![s] = Work(slot[s].task, slot[s].of, step)]
Finish(s) == slot' = [slot EXCEPT ![s] = Idle]
Disturb(kind) == kind \in Disturbances /\ disturbed < MaxDisturbed /\ disturbed' = disturbed + 1
Begin(s, work) ==
    /\ At(s, "idle") /\ begun < MaxTasks /\ begun' = begun + 1
    /\ slot' = [slot EXCEPT ![s] = work]
Process(s) == IF slot[s].task \in {"link", "disconnect"} THEN "api" ELSE "worker"
OfGmail(s) == Box(slot[s].of) \in Gmail

(***************************************************************************)
(* Time, and what happens at the providers.                                *)
(***************************************************************************)
\* An access token lives for an hour: none outlives the tick, wherever it is held.
Tick ==
    /\ clock < MaxClock /\ clock' = clock + 1
    /\ row' = [a \in Accounts |-> [row[a] EXCEPT !.fresh = FALSE]]
    /\ cached' = [k \in DOMAIN cached |-> None]
    /\ slot' = [s \in Slots |-> [slot[s] EXCEPT !.fresh = FALSE]]
    /\ UNCHANGED <<owned, grant, persisting, watchVars, begun, revoked, disturbed, historyVars>>

\* The owner, or an administrator, takes back what was granted on a mailbox:
\* its tokens are refused from now on, and Gmail stops pushing.
Revoke(b) ==
    /\ revoked < MaxRevoked /\ revoked' = revoked + 1
    /\ \E g \in Grants : grant[g].opens = b /\ grant[g].state # "revoked"
    /\ grant' = [g \in Grants |-> IF grant[g].opens = b THEN [grant[g] EXCEPT !.state = "revoked"] ELSE grant[g]]
    /\ till' = [till EXCEPT ![b] = 0]
    /\ withdrawn' = withdrawn \cup {b}
    /\ UNCHANGED <<owned, clock, cached, persisting, row, route, renewals, dead, slot, begun, disturbed, mistaken, crossed>>

\* Microsoft handed out a new refresh token, and the row keeps the old one.
Retire(g) ==
    /\ grant[g].state = "rotated" /\ Disturb("retired")
    /\ grant' = [grant EXCEPT ![g].state = "retired"]
    /\ withdrawn' = withdrawn \cup {grant[g].opens}
    /\ UNCHANGED <<owned, clock, cached, persisting, row, watchVars, slot, begun, revoked, mistaken, crossed>>

(***************************************************************************)
(* What a call comes to.  Google refuses a live token of a withdrawn grant *)
(* with 401 or 403, and one that has to be refreshed first with 400; a     *)
(* token of Microsoft's may outlive its grant.                             *)
(***************************************************************************)
Answers(g, watching) ==
    (IF grant[g].state # "revoked" THEN {"200"}
     ELSE IF grant[g].opens \in Gmail THEN {"401", "403"} ELSE {"200", "401", "403"})
    \cup {d \in Disturbances : d \in {"fault", "outage", "limited"} \/ (watching /\ d = "unconfigured")}

MapGmailError(answer) ==
    CASE answer \in {"401", "403"}        -> "PROVIDER_UNAUTHORIZED"
      [] answer = "limited"               -> "PROVIDER_RATE_LIMITED"
      [] answer = "unconfigured"          -> "DEPENDENCY_UNAVAILABLE"
      [] answer = "400"                   -> "PROVIDER_ERROR, for good"
      [] answer \in {"fault", "outage"}   -> "PROVIDER_ERROR"

MapGraphError(answer) ==
    CASE answer \in {"400", "401", "403"} -> "PROVIDER_UNAUTHORIZED"
      [] answer = "limited"               -> "PROVIDER_RATE_LIMITED"
      [] answer = "unconfigured"          -> "DEPENDENCY_UNAVAILABLE"
      [] answer \in {"fault", "outage"}   -> "PROVIDER_ERROR"

\* Wrong: "slow down" is read as "you may not".
CodeBlind(s, answer) ==
    IF answer \in {"401", "403", "limited"} THEN "PROVIDER_UNAUTHORIZED"
    ELSE IF OfGmail(s) THEN MapGmailError(answer) ELSE MapGraphError(answer)

Code(s, answer) == IF OfGmail(s) THEN MapGmailError(answer) ELSE MapGraphError(answer)

Provoked(answer) == IF answer \in {"200", "400", "401", "403"} THEN UNCHANGED disturbed ELSE Disturb(answer)

(***************************************************************************)
(* The access token a call is made with.  Graph's adapter keeps one for    *)
(* each account id it was asked for, and looks there first.                *)
(***************************************************************************)
Held(process, id) == cached[<<process, id>>]
AccessToken(s, id) ==
    IF ~OfGmail(s) /\ Held(Process(s), id) # None THEN Held(Process(s), id) ELSE slot[s].access
NeedsRefresh(s, id) ==
    ~slot[s].fresh /\ (OfGmail(s) \/ Held(Process(s), id) = None)
Keep(s, id) == cached' = IF OfGmail(s) THEN cached ELSE [cached EXCEPT ![<<Process(s), id>>] = AccessToken(s, id)]

CanRefresh(s) ==
    /\ At(s, "call") /\ NeedsRefresh(s, slot[s].of) /\ slot[s].refresh # None
    /\ grant[slot[s].refresh].state \in {"good", "rotated"}
Refreshed(s, step) == slot' = [slot EXCEPT ![s].access = slot[s].refresh, ![s].fresh = TRUE, ![s].step = step]

\* Google's client tells of the new token and goes on with the call; only the
\* worker listens.
RefreshGoogleToken(s) ==
    /\ CanRefresh(s) /\ OfGmail(s)
    /\ Refreshed(s, "call")
    /\ persisting' = IF Process(s) = "worker" THEN persisting \cup {<<slot[s].of, slot[s].refresh>>} ELSE persisting
    /\ UNCHANGED <<owned, clock, grant, cached, row, watchVars, begun, revoked, disturbed, historyVars>>

\* Microsoft's answer may hold another refresh token, which is not kept.
RefreshMicrosoftToken(s) ==
    /\ CanRefresh(s) /\ ~OfGmail(s)
    /\ Refreshed(s, IF Process(s) = "worker" THEN "persist" ELSE "call")
    /\ cached' = [cached EXCEPT ![<<Process(s), slot[s].of>>] = slot[s].refresh]
    /\ grant' = [grant EXCEPT ![slot[s].refresh].state = "rotated"]
    /\ UNCHANGED <<owned, clock, persisting, row, watchVars, begun, revoked, disturbed, historyVars>>

\* Wrong: the refreshed token is stored on every mailbox of the user.
PersistedForUser(a, g) ==
    row' = [c \in Accounts |-> IF c[1] = a[1] /\ row[c].status # "none"
                               THEN [row[c] EXCEPT !.access = g, !.fresh = TRUE] ELSE row[c]]

Persisted(a, g) == row' = [row EXCEPT ![a].access = g, ![a].fresh = TRUE]

\* The owner is looked up outside any tenant, which finds nothing where row
\* security is enforced, and a failure is only logged.
PersistRefreshedToken(s) ==
    /\ At(s, "persist")
    /\ Persisted(slot[s].of, slot[s].access) \/ UNCHANGED row
    /\ Goto(s, "call")
    /\ UNCHANGED <<owned, clock, tokenVars, watchVars, begun, revoked, disturbed, historyVars>>

PersistUnawaited(p) ==
    /\ p \in persisting /\ persisting' = persisting \ {p}
    /\ Persisted(p[1], p[2]) \/ UNCHANGED row
    /\ UNCHANGED <<owned, clock, grant, cached, watchVars, slot, begun, revoked, disturbed, historyVars>>

\* The call itself.  Nothing to refresh with, or a refresh token that is not
\* taken any more, is an answer too.
Called(s, id, watching, answer, g) ==
    \/ /\ ~NeedsRefresh(s, id)
       /\ g = AccessToken(s, id) /\ answer \in Answers(g, watching)
    \/ /\ NeedsRefresh(s, id) /\ g = slot[s].access
       /\ \/ slot[s].refresh = None /\ answer = "401"
          \/ /\ slot[s].refresh # None /\ answer = "400"
             /\ grant[slot[s].refresh].state \in {"retired", "revoked"}

(***************************************************************************)
(* Connecting a mailbox: the code is exchanged, the grant is tried, the    *)
(* row and the route are written, and only then the watch is started.      *)
(***************************************************************************)
Granted == {g \in Grants : grant[g].state # "none"}

\* The code the provider sent the browser back with is good for one grant.
ExchangeCode(b, g) ==
    /\ g \notin Granted /\ \A other \in Grants : other < g => other \in Granted
    /\ grant' = [grant EXCEPT ![g] = [opens |-> b, state |-> "good"]]

\* The owner of a mailbox consents, and is sent back for the user who asked.
Callback(s, a, g) ==
    /\ a \in owned /\ ExchangeCode(Box(a), g)
    /\ Begin(s, [Work("link", a, "verify") EXCEPT !.access = g, !.refresh = g, !.fresh = TRUE])
    /\ UNCHANGED <<owned, clock, cached, persisting, row, watchVars, revoked, disturbed, historyVars>>

\* The account is named for the mailbox that answered.
Identified(s, g) == <<slot[s].of[1], grant[g].opens>>

VerifyAccess(s, answer) ==
    LET g == AccessToken(s, Pending)  found == Identified(s, g) IN
    /\ At(s, "verify") /\ answer \in Answers(g, FALSE)
    /\ Keep(s, Pending) /\ Provoked(answer)
    /\ IF answer = "200"
       THEN /\ slot' = [slot EXCEPT ![s].of = found, ![s].step = "store"]
            /\ mistaken' = IF found # slot[s].of THEN mistaken \cup {found} ELSE mistaken
       ELSE Finish(s) /\ UNCHANGED mistaken
    /\ UNCHANGED <<owned, clock, grant, persisting, row, watchVars, begun, revoked, crossed, withdrawn>>

\* The connection overlaps other work on the box, or the box has another user.
Crosses(s) ==
    LET b == Box(slot[s].of) IN
    \/ \E other \in Slots \ {s} : ~At(other, "idle") /\ Box(slot[other].of) = b
    \/ \E p \in persisting : Box(p[1]) = b
    \/ \E u \in Users : <<u, b>> # slot[s].of /\ row[<<u, b>>].status # "none" /\ ~row[<<u, b>>].gone

Store(s) ==
    /\ At(s, "store")
    /\ row' = [row EXCEPT ![slot[s].of] =
                  [@ EXCEPT !.status = "connecting", !.gone = FALSE, !.fresh = TRUE,
                            !.access = slot[s].access, !.refresh = slot[s].refresh]]
    /\ crossed' = IF Crosses(s) THEN crossed \cup {Box(slot[s].of)} ELSE crossed
    /\ Leave(s, "route")
    /\ UNCHANGED <<owned, clock, tokenVars, watchVars, begun, revoked, disturbed, mistaken, withdrawn>>

\* Wrong: the expiry of the watch before is left where it is.
RouteKept(s) ==
    /\ At(s, "route")
    /\ route' = [route EXCEPT ![Box(slot[s].of)].to = slot[s].of]
    /\ Leave(s, "load")
    /\ UNCHANGED <<owned, clock, tokenVars, row, till, renewals, dead, begun, revoked, disturbed, historyVars>>

Route(s) ==
    /\ At(s, "route")
    /\ route' = [route EXCEPT ![Box(slot[s].of)] = [to |-> slot[s].of, expires |-> None]]
    /\ Leave(s, "load")
    /\ UNCHANGED <<owned, clock, tokenVars, row, till, renewals, dead, begun, revoked, disturbed, historyVars>>

\* startWatching reads the row again, whatever has become of it.
LoadForWatch(s) ==
    /\ At(s, "load") /\ Doing(s, "link")
    /\ LET r == row[slot[s].of] IN
       IF r.access = None THEN Leave(s, "excuse")
       ELSE slot' = [slot EXCEPT ![s] = [@ EXCEPT !.step = "call", !.access = r.access,
                                                  !.refresh = r.refresh, !.fresh = r.fresh]]
    /\ UNCHANGED <<owned, clock, tokenVars, row, watchVars, begun, revoked, disturbed, historyVars>>

\* Gmail's watch is one per mailbox, and asking again prolongs it.
GmailWatch(g) == [till EXCEPT ![grant[g].opens] = clock + Lasts]
Watch(s, g) ==
    /\ till' = IF grant[g].opens \in Gmail THEN GmailWatch(g) ELSE till
    /\ slot' = [slot EXCEPT ![s] = [Work(slot[s].task, slot[s].of, "record") EXCEPT !.due = clock + Lasts]]

StartWatching(s, answer, g) ==
    /\ At(s, "call") /\ Doing(s, "link") /\ Called(s, slot[s].of, TRUE, answer, g)
    /\ Provoked(answer) /\ Keep(s, slot[s].of)
    /\ IF answer = "200" THEN Watch(s, g) ELSE Leave(s, "excuse") /\ UNCHANGED till
    /\ UNCHANGED <<owned, clock, grant, persisting, row, route, renewals, dead, begun, revoked, historyVars>>

Expires(a, time) == [b \in Boxes |-> IF route[b].to = a THEN [route[b] EXCEPT !.expires = time] ELSE route[b]]
Subscribed(s) == IF OfGmail(s) THEN row[slot[s].of].subscribed ELSE TRUE

RecordWatch(s) ==
    /\ At(s, "record") /\ Doing(s, "link")
    /\ row' = [row EXCEPT ![slot[s].of] = [@ EXCEPT !.status = "active", !.cursor = TRUE,
                                                    !.subscribed = Subscribed(s)]]
    /\ route' = Expires(slot[s].of, slot[s].due)
    /\ Finish(s)
    /\ UNCHANGED <<owned, clock, tokenVars, till, renewals, dead, begun, revoked, disturbed, historyVars>>

FallBack(s) ==
    /\ At(s, "excuse")
    /\ row' = [row EXCEPT ![slot[s].of].status = "active"]
    /\ Finish(s)
    /\ UNCHANGED <<owned, clock, tokenVars, watchVars, begun, revoked, disturbed, historyVars>>

(***************************************************************************)
(* Disconnecting: the watch is stopped if it can be, the tokens are wiped  *)
(* and the route goes.  Graph's adapter is made for the occasion and given *)
(* no refresh token and no expiry, so it never gets to its call.           *)
(***************************************************************************)
Disconnect(s, a) ==
    /\ row[a].status # "none" /\ ~row[a].gone
    /\ Begin(s, [Work("disconnect", a, "stop") EXCEPT !.access = row[a].access, !.fresh = row[a].fresh])
    /\ UNCHANGED <<owned, clock, tokenVars, row, watchVars, revoked, disturbed, historyVars>>

StopWatch(s) ==
    LET g == slot[s].access IN
    /\ At(s, "stop")
    /\ \/ /\ OfGmail(s) /\ g # None /\ slot[s].fresh /\ grant[g].state # "revoked"
          /\ till' = [till EXCEPT ![grant[g].opens] = 0] /\ UNCHANGED disturbed
       \/ ~(OfGmail(s) /\ g # None /\ slot[s].fresh) /\ UNCHANGED <<till, disturbed>>
       \/ g # None /\ grant[g].state = "revoked" /\ UNCHANGED <<till, disturbed>>
       \/ (\E d \in {"fault", "outage", "limited"} : Disturb(d)) /\ UNCHANGED till
    /\ Leave(s, "wipe")
    /\ UNCHANGED <<owned, clock, tokenVars, row, route, renewals, dead, begun, revoked, historyVars>>

Wipe(s) ==
    /\ At(s, "wipe")
    /\ row' = [row EXCEPT ![slot[s].of] =
                  [@ EXCEPT !.status = "disconnected", !.gone = TRUE, !.access = None, !.refresh = None,
                            !.fresh = FALSE, !.subscribed = FALSE]]
    /\ Leave(s, "drop")
    /\ UNCHANGED <<owned, clock, tokenVars, watchVars, begun, revoked, disturbed, historyVars>>

\* Both a disconnect and a renewal of a mailbox that is lost end like this.
DropRoute(s) ==
    /\ At(s, "drop")
    /\ route' = [b \in Boxes |-> IF route[b].to = slot[s].of THEN NoRoute ELSE route[b]]
    /\ Finish(s)
    /\ UNCHANGED <<owned, clock, tokenVars, row, till, renewals, dead, begun, revoked, disturbed, historyVars>>

(***************************************************************************)
(* The worker's jobs: renewing a watch, and walking a mailbox.             *)
(***************************************************************************)
IsDue(expires) == expires <= clock + 1
FindDue == {b \in Gmail : route[b].to # NoAccount /\ IsDue(route[b].expires)}
FindWithoutWatch == {b \in Gmail : route[b].to # NoAccount /\ route[b].expires = None}
RenewalJobId(b) == <<route[b].to, route[b].expires>>
InHand(j) == \E s \in Slots : Doing(s, "renew") /\ slot[s].of = j[1] /\ slot[s].due = j[2]

\* Each hour: a job the queue already knows is not taken again.
Sweep(b) ==
    /\ b \in FindDue
    /\ LET j == RenewalJobId(b) IN
       /\ j \notin renewals \cup dead /\ ~InHand(j)
       /\ renewals' = renewals \cup {j}
    /\ UNCHANGED <<owned, clock, tokenVars, row, route, till, dead, slot, begun, revoked, disturbed, historyVars>>

TakeRenewal(s, j) ==
    /\ j \in renewals /\ renewals' = renewals \ {j}
    /\ Begin(s, [Work("renew", j[1], "load") EXCEPT !.due = j[2]])
    /\ UNCHANGED <<owned, clock, tokenVars, row, route, till, dead, revoked, disturbed, historyVars>>

\* A push names its mailbox (Gmail) or its subscription (Graph); a mailbox of
\* Gmail's without a watch is polled.
Pushed(a) == Box(a) \in Gmail /\ till[Box(a)] > clock /\ route[Box(a)].to = a
Notified(a) == Box(a) \notin Gmail /\ row[a].subscribed
Polled(a) == Box(a) \in FindWithoutWatch /\ route[Box(a)].to = a
Reaches(a) == Pushed(a) \/ Notified(a) \/ Polled(a)

TakeWalk(s, a) ==
    /\ Reaches(a) /\ Begin(s, Work("walk", a, "load"))
    /\ UNCHANGED <<owned, clock, tokenVars, row, watchVars, revoked, disturbed, historyVars>>

\* A renewal that failed for good keeps its id, unless the id is this hour's.
Dies(s) ==
    /\ Finish(s)
    /\ dead' = IF Doing(s, "renew") /\ slot[s].due # None
               THEN dead \cup {<<slot[s].of, slot[s].due>>} ELSE dead
    /\ UNCHANGED renewals
Retries(s) ==
    /\ Finish(s)
    /\ renewals' = IF Doing(s, "renew") THEN renewals \cup {<<slot[s].of, slot[s].due>>} ELSE renewals
    /\ UNCHANGED dead

\* Loading refuses a mailbox that is gone or was lost; a walk leaves it at that.
Load(s) ==
    LET r == row[slot[s].of] IN
    /\ At(s, "load") /\ slot[s].task \in {"renew", "walk"}
    /\ IF r.status \in {"none", "reauth_required", "disconnected"}
       THEN IF Doing(s, "renew") THEN Leave(s, "drop") /\ UNCHANGED <<renewals, dead>> ELSE Dies(s)
       ELSE IF r.access = None THEN Dies(s)
       ELSE /\ slot' = [slot EXCEPT ![s] = [@ EXCEPT !.step = "call", !.access = r.access,
                                                     !.refresh = r.refresh, !.fresh = r.fresh]]
            /\ UNCHANGED <<renewals, dead>>
    /\ UNCHANGED <<owned, clock, tokenVars, row, route, till, begun, revoked, disturbed, historyVars>>

RenewWatch(s, answer, g) ==
    /\ At(s, "call") /\ Doing(s, "renew") /\ Called(s, slot[s].of, TRUE, answer, g)
    /\ Provoked(answer) /\ Keep(s, slot[s].of)
    /\ IF answer = "200" THEN Watch(s, g) /\ UNCHANGED <<renewals, dead>>
       ELSE /\ UNCHANGED till
            /\ LET code == Code(s, answer) IN
               CASE code = "PROVIDER_UNAUTHORIZED"   -> Leave(s, "mark") /\ UNCHANGED <<renewals, dead>>
                 [] code = "DEPENDENCY_UNAVAILABLE"  -> Leave(s, "unavailable") /\ UNCHANGED <<renewals, dead>>
                 [] code = "PROVIDER_ERROR, for good" \/ answer = "outage" -> Dies(s)
                 [] OTHER                            -> Retries(s)
    /\ UNCHANGED <<owned, clock, grant, persisting, row, route, begun, revoked, historyVars>>

RecordRenewed(s) ==
    /\ At(s, "record") /\ Doing(s, "renew")
    /\ row' = [row EXCEPT ![slot[s].of] = [@ EXCEPT !.status = "active", !.cursor = TRUE]]
    /\ route' = Expires(slot[s].of, slot[s].due)
    /\ Finish(s)
    /\ UNCHANGED <<owned, clock, tokenVars, till, renewals, dead, begun, revoked, disturbed, historyVars>>

\* A write that fails is caught where a mailbox is linked, as a watch that cannot be set up is, and
\* then the write that falls back may fail and be caught as well; a renewal is tried again.
RecordFails(s) ==
    /\ At(s, "record") /\ Disturb("db")
    /\ \/ Doing(s, "link") /\ (Leave(s, "excuse") \/ Finish(s)) /\ UNCHANGED <<renewals, dead>>
       \/ Doing(s, "renew") /\ Retries(s)
    /\ UNCHANGED <<owned, clock, tokenVars, row, route, till, begun, revoked, historyVars>>

RecordUnavailable(s) ==
    /\ At(s, "unavailable")
    /\ route' = Expires(slot[s].of, None)
    /\ Finish(s)
    /\ UNCHANGED <<owned, clock, tokenVars, row, till, renewals, dead, begun, revoked, disturbed, historyVars>>

MarkReauthRequired(s) ==
    /\ At(s, "mark")
    /\ row' = [row EXCEPT ![slot[s].of].status = "reauth_required"]
    /\ IF Doing(s, "renew") THEN Leave(s, "drop") ELSE Finish(s)
    /\ UNCHANGED <<owned, clock, tokenVars, watchVars, begun, revoked, disturbed, historyVars>>

\* A walk that has no position asks for one first, outside of what is caught.
FetchChanges(s, answer, g) ==
    /\ At(s, "call") /\ Doing(s, "walk") /\ Called(s, slot[s].of, FALSE, answer, g)
    /\ Provoked(answer) /\ Keep(s, slot[s].of)
    /\ IF answer # "200" /\ Code(s, answer) = "PROVIDER_UNAUTHORIZED" /\ row[slot[s].of].cursor
       THEN Leave(s, "mark") /\ UNCHANGED row
       ELSE /\ Finish(s)
            /\ row' = IF answer = "200" THEN [row EXCEPT ![slot[s].of].cursor = TRUE] ELSE row
    /\ UNCHANGED <<owned, clock, grant, persisting, watchVars, begun, revoked, historyVars>>

\* A request that dies is not taken up again, a job is.
Crash(s) ==
    /\ ~At(s, "idle") /\ Disturb("crash") /\ Retries(s)
    /\ crossed' = IF Process(s) = "api" THEN crossed \cup {Box(slot[s].of)} ELSE crossed
    /\ UNCHANGED <<owned, clock, tokenVars, row, route, till, begun, revoked, mistaken, withdrawn>>

Linking(s) ==
    \/ \E answer \in {"200", "401", "403"} \cup Disturbances : VerifyAccess(s, answer)
    \/ Store(s) \/ Route(s) \/ LoadForWatch(s) \/ RecordWatch(s) \/ FallBack(s)
Calling(s) ==
    \/ RefreshGoogleToken(s) \/ RefreshMicrosoftToken(s) \/ PersistRefreshedToken(s)
    \/ \E answer \in {"200", "400", "401", "403"} \cup Disturbances, g \in Granted :
          StartWatching(s, answer, g) \/ RenewWatch(s, answer, g) \/ FetchChanges(s, answer, g)
Starting(s) ==
    \/ \E a \in Accounts, g \in Grants : Callback(s, a, g)
    \/ \E a \in Accounts : Disconnect(s, a) \/ TakeWalk(s, a)
    \/ \E j \in renewals : TakeRenewal(s, j)
Next ==
    \/ Tick \/ \E g \in Grants : Retire(g)
    \/ \E b \in Boxes : Revoke(b) \/ Sweep(b)
    \/ \E p \in persisting : PersistUnawaited(p)
    \/ \E s \in Slots :
          \/ Starting(s) \/ Linking(s) \/ Calling(s)
          \/ StopWatch(s) \/ Wipe(s) \/ DropRoute(s) \/ Load(s) \/ RecordRenewed(s)
          \/ RecordFails(s) \/ RecordUnavailable(s) \/ MarkReauthRequired(s) \/ Crash(s)

Spec == Init /\ [][Next]_vars

(***************************************************************************)
(* Properties.                                                             *)
(***************************************************************************)
\* What is stored with a mailbox opens that mailbox: nobody reads, or sends
\* from, another one under its name.  Graph's adapter can mistake one consent
\* for another (see VerifyAccess), and only for Outlook.
OwnMailbox ==
    \A a \in Accounts :
        \/ Box(a) \notin Gmail /\ a \in mistaken
        \/ \A g \in {row[a].access, row[a].refresh} \ {None} : grant[g].opens = Box(a)

\* When nothing is under way for it, a connected Gmail mailbox still has a way
\* in: it is polled, or its watch is known to be due, or Gmail pushes for as
\* long as the route says.  Two users of one mailbox, or a connection made
\* across other work on it, can lose it (see Crosses), and so can a renewal
\* whose job has died.
Quiet(b) == (\A s \in Slots : slot[s].of = NoAccount \/ Box(slot[s].of) # b) /\ \A p \in persisting : Box(p[1]) # b
NeverDeaf ==
    \A a \in Accounts :
        LET b == Box(a)  expires == route[b].expires IN
        /\ b \in Gmail \ crossed /\ Quiet(b)
        /\ row[a].status = "active" /\ ~row[a].gone /\ grant[row[a].refresh].state = "good"
        => /\ route[b].to = a
           /\ expires = None \/ IsDue(expires) \/ till[b] >= expires

\* A user is asked to connect a mailbox again only when access to it was
\* withdrawn, and for Gmail only when it is the grant now stored that was.
AskedWithCause ==
    \A a \in Accounts :
        row[a].status = "reauth_required" /\ ~row[a].gone =>
            /\ Box(a) \in withdrawn \cup crossed \/ a \in mistaken
            /\ Box(a) \in Gmail \ crossed => grant[row[a].refresh].state = "revoked"
=============================================================================
