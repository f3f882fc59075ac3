-------------------------- MODULE MailboxesProofs --------------------------
(***************************************************************************)
(* Mailboxes for any users, boxes, consents and requests in flight: that   *)
(* what is stored with a mailbox opens it, that nobody is asked to connect *)
(* one again without a cause, and that a connected one is never silent.    *)
(***************************************************************************)
EXTENDS Mailboxes, TLAPS

-----------------------------------------------------------------------------
(***************************************************************************)
(* Accounts, slots and rows.                                               *)
(***************************************************************************)
LEMMA AccountIs ==
    ASSUME NEW a \in Accounts
    PROVE  a[1] \in Users /\ Box(a) \in Boxes /\ a = <<a[1], Box(a)>> /\ a # NoAccount
BY MailboxesAssumption DEF Accounts, Box

LEMMA Instants ==
    /\ 0 \in Times /\ None \in Times /\ None = 0 /\ 0 \in 0..MaxGrants
    /\ Grants \subseteq 0..MaxGrants /\ None \notin Grants
    /\ \A g \in 0..MaxGrants : g # None => g \in Grants
    /\ \A t \in 0..MaxClock : t + Lasts \in Times /\ t \in Int
BY MailboxBoundsAssumption DEF Times, Grants, None

\* The steps each task goes through.
StepOf(task, step) ==
    \/ task = "link" /\ step \in {"verify", "store", "route", "load", "call", "record", "excuse"}
    \/ task = "disconnect" /\ step \in {"stop", "wipe", "drop"}
    \/ task = "renew" /\ step \in {"load", "call", "persist", "record", "drop", "mark", "unavailable"}
    \/ task = "walk" /\ step \in {"load", "call", "persist", "mark"}

\* A slot keeps to the steps of its task; a consent that has just been given is
\* the one that is tried and stored.
Fitting(w) ==
    \/ w = Idle
    \/ /\ w.of \in Accounts /\ StepOf(w.task, w.step)
       /\ w.step \in {"verify", "store"} => w.access = w.refresh /\ w.access # None

LEMMA WorkTyped ==
    ASSUME NEW task \in Tasks, NEW a \in Accounts \cup {NoAccount}, NEW step \in Steps
    PROVE  Work(task, a, step) \in Slot
<1>1. 0 \in 0..MaxGrants /\ 0 \in Times /\ None = 0
    BY Instants
<1> QED BY <1>1 DEF Slot, Work

LEMMA IdleIs ==
    /\ Idle \in Slot /\ Idle.step = "idle" /\ Idle.task = "none" /\ Idle.of = NoAccount
    /\ Idle.access = None /\ Idle.refresh = None /\ Fitting(Idle)
<1>1. "none" \in Tasks /\ "idle" \in Steps /\ NoAccount \in Accounts \cup {NoAccount}
    BY DEF Tasks, Steps
<1>2. Idle \in Slot
    BY <1>1, WorkTyped DEF Idle
<1>3. /\ Idle.step = "idle" /\ Idle.task = "none" /\ Idle.of = NoAccount
      /\ Idle.access = None /\ Idle.refresh = None
    BY DEF Idle, Work
<1> QED BY <1>2, <1>3 DEF Fitting

\* A slot that has something to do.
LEMMA Busy ==
    ASSUME NEW w \in Slot, Fitting(w)
    PROVE  /\ (w.step # "idle") <=> (w # Idle)
           /\ w.step # "idle" => w.of \in Accounts /\ StepOf(w.task, w.step)
           /\ w.step \in {"verify", "store"} => w.access = w.refresh /\ w.access # None
           /\ w.task # "none" <=> w.step # "idle"
           /\ w.of = NoAccount <=> w.step = "idle"
BY IdleIs, AccountIs DEF Fitting, StepOf

SlotsFit == slot \in [Slots -> Slot] /\ \A s \in Slots : Fitting(slot[s])

\* What one slot becomes, and the others stay.
LEMMA Moved ==
    ASSUME SlotsFit, NEW s \in Slots, NEW w \in Slot, Fitting(w), slot' = [slot EXCEPT ![s] = w]
    PROVE  SlotsFit' /\ slot'[s] = w /\ \A r \in Slots : r # s => slot'[r] = slot[r]
<1>1. slot' \in [Slots -> Slot] /\ slot'[s] = w /\ \A r \in Slots : r # s => slot'[r] = slot[r]
    BY DEF SlotsFit
<1> QED BY <1>1 DEF SlotsFit

Others(s) == \A r \in Slots : r # s => slot'[r] = slot[r]

LEMMA GotoIs ==
    ASSUME SlotsFit, NEW s \in Slots, ~At(s, "idle"), NEW step, StepOf(slot[s].task, step),
           step \notin {"verify", "store"}, Goto(s, step)
    PROVE  /\ SlotsFit' /\ Others(s)
           /\ slot'[s].step = step /\ slot'[s].task = slot[s].task /\ slot'[s].of = slot[s].of
           /\ slot'[s].access = slot[s].access /\ slot'[s].refresh = slot[s].refresh
           /\ slot'[s].due = slot[s].due
<1> DEFINE w == [slot[s] EXCEPT !.step = step]
<1>1. slot[s] \in Slot /\ slot[s].of \in Accounts
    BY Busy DEF SlotsFit, At
<1>2. step \in Steps
    BY DEF StepOf, Steps
<1>3. /\ w \in Slot
      /\ w.step = step /\ w.task = slot[s].task /\ w.of = slot[s].of
      /\ w.access = slot[s].access /\ w.refresh = slot[s].refresh /\ w.due = slot[s].due
    BY <1>1, <1>2 DEF Slot
<1>4. slot' = [slot EXCEPT ![s] = w]
    BY DEF Goto, SlotsFit
<1> HIDE DEF w
<1>5. Fitting(w)
    BY <1>1, <1>3 DEF Fitting
<1> QED BY <1>3, <1>4, <1>5, Moved DEF Others

LEMMA LeaveIs ==
    ASSUME SlotsFit, NEW s \in Slots, ~At(s, "idle"), NEW step, StepOf(slot[s].task, step),
           step \notin {"verify", "store"}, Leave(s, step)
    PROVE  /\ SlotsFit' /\ Others(s)
           /\ slot'[s].step = step /\ slot'[s].task = slot[s].task /\ slot'[s].of = slot[s].of
           /\ slot'[s].access = None /\ slot'[s].refresh = None
<1> DEFINE w == Work(slot[s].task, slot[s].of, step)
<1>1. slot[s] \in Slot /\ slot[s].of \in Accounts
    BY Busy DEF SlotsFit, At
<1>2. step \in Steps /\ slot[s].task \in Tasks
    BY <1>1 DEF StepOf, Steps, Slot
<1>3. w \in Slot
    BY <1>1, <1>2, WorkTyped
<1>6. /\ w.step = step /\ w.task = slot[s].task /\ w.of = slot[s].of
      /\ w.access = None /\ w.refresh = None
    BY DEF Work
<1>4. slot' = [slot EXCEPT ![s] = w]
    BY DEF Leave
<1> HIDE DEF w
<1>5. Fitting(w)
    BY <1>1, <1>6 DEF Fitting
<1> QED BY <1>3, <1>4, <1>5, <1>6, Moved DEF Others

LEMMA FinishIs ==
    ASSUME SlotsFit, NEW s \in Slots, Finish(s)
    PROVE  SlotsFit' /\ Others(s) /\ slot'[s] = Idle
BY IdleIs, Moved DEF Finish, Others

LEMMA RefreshedIs ==
    ASSUME SlotsFit, NEW s \in Slots, ~At(s, "idle"), NEW step, StepOf(slot[s].task, step),
           step \notin {"verify", "store"}, Refreshed(s, step)
    PROVE  /\ SlotsFit' /\ Others(s)
           /\ slot'[s].step = step /\ slot'[s].task = slot[s].task /\ slot'[s].of = slot[s].of
           /\ slot'[s].access = slot[s].refresh /\ slot'[s].refresh = slot[s].refresh
           /\ slot'[s].due = slot[s].due
<1> DEFINE w == slot'[s]
<1>1. slot[s] \in Slot /\ slot[s].of \in Accounts /\ slot \in [Slots -> Slot]
    BY Busy DEF SlotsFit, At
<1>2. step \in Steps
    BY DEF StepOf, Steps
<1>3. /\ w \in Slot
      /\ w.step = step /\ w.task = slot[s].task /\ w.of = slot[s].of
      /\ w.access = slot[s].refresh /\ w.refresh = slot[s].refresh /\ w.due = slot[s].due
    BY <1>1, <1>2 DEF Slot, Refreshed
<1>4. slot' = [slot EXCEPT ![s] = w]
    BY <1>1 DEF Refreshed
<1> HIDE DEF w
<1>5. Fitting(w)
    BY <1>1, <1>3 DEF Fitting
<1> QED BY <1>3, <1>4, <1>5, Moved DEF Others

\* A handler that has loaded the row.
Loaded(s, r) ==
    slot' = [slot EXCEPT ![s] = [@ EXCEPT !.step = "call", !.access = r.access,
                                          !.refresh = r.refresh, !.fresh = r.fresh]]

LEMMA LoadedIs ==
    ASSUME SlotsFit, NEW s \in Slots, ~At(s, "idle"), NEW r \in Row, StepOf(slot[s].task, "call"), Loaded(s, r)
    PROVE  /\ SlotsFit' /\ Others(s)
           /\ slot'[s].step = "call" /\ slot'[s].task = slot[s].task /\ slot'[s].of = slot[s].of
           /\ slot'[s].access = r.access /\ slot'[s].refresh = r.refresh /\ slot'[s].due = slot[s].due
<1> DEFINE w == slot'[s]
<1>1. slot[s] \in Slot /\ slot[s].of \in Accounts /\ slot \in [Slots -> Slot]
    BY Busy DEF SlotsFit, At
<1>2. "call" \in Steps
    BY DEF Steps
<1>3. /\ w \in Slot
      /\ w.step = "call" /\ w.task = slot[s].task /\ w.of = slot[s].of
      /\ w.access = r.access /\ w.refresh = r.refresh /\ w.due = slot[s].due
    BY <1>1, <1>2 DEF Slot, Loaded, Row
<1>4. slot' = [slot EXCEPT ![s] = w]
    BY <1>1 DEF Loaded
<1> HIDE DEF w
<1>5. Fitting(w)
    BY <1>1, <1>3 DEF Fitting
<1> QED BY <1>3, <1>4, <1>5, Moved DEF Others

-----------------------------------------------------------------------------
(***************************************************************************)
(* Which mailbox a token opens.                                            *)
(***************************************************************************)
\* A token of an account opens its box; Graph's adapter can give an account of
\* Outlook's the token of another one, in which case it was mistaken for it.
Owns(G, M, a, g) ==
    g # None =>
        /\ g \in Grants /\ G[g].state # "none"
        /\ G[g].opens = Box(a) \/ (a \in M /\ Box(a) \notin Gmail /\ G[g].opens \notin Gmail)

RowsOwn(G, M, R) == \A a \in Accounts : Owns(G, M, a, R[a].access) /\ Owns(G, M, a, R[a].refresh)

\* What a handler holds; what was just granted opens the box it was asked for.
SlotOwns(G, M, w) ==
    w.step # "idle" =>
        /\ Owns(G, M, w.of, w.access) /\ Owns(G, M, w.of, w.refresh)
        /\ w.step = "verify" => G[w.access].opens = Box(w.of)
SlotsOwn(G, M, S) == \A s \in Slots : SlotOwns(G, M, S[s])

PairsOwn(G, M, P) == \A p \in P : Owns(G, M, p[1], p[2])

\* A cached token is one of Outlook's, and that of the account it is cached for.
Caches == {"api", "worker"} \X (Accounts \cup {Pending})
Foreign(G, g) == g # None => g \in Grants /\ G[g].state # "none" /\ G[g].opens \notin Gmail
CachesOwn(G, M, C) ==
    \A k \in Caches : Foreign(G, C[k]) /\ (k[2] # Pending => Owns(G, M, k[2], C[k]))

Own ==
    /\ RowsOwn(grant, mistaken, row) /\ SlotsOwn(grant, mistaken, slot)
    /\ PairsOwn(grant, mistaken, persisting) /\ CachesOwn(grant, mistaken, cached)

Base == TypeOK /\ SlotsFit /\ Own

\* What a consent opens is settled once.
Settled(G, H) == \A g \in Grants : G[g].state # "none" => H[g].state # "none" /\ H[g].opens = G[g].opens

LEMMA OwnGrows ==
    ASSUME SlotsFit, Own, Settled(grant, grant'), mistaken \subseteq mistaken'
    PROVE  /\ RowsOwn(grant', mistaken', row) /\ SlotsOwn(grant', mistaken', slot)
           /\ PairsOwn(grant', mistaken', persisting) /\ CachesOwn(grant', mistaken', cached)
<1>1. \A a, g : Owns(grant, mistaken, a, g) => Owns(grant', mistaken', a, g)
    BY DEF Owns, Settled
<1>2. \A g : Foreign(grant, g) => Foreign(grant', g)
    BY DEF Foreign, Settled
<1>3. \A s \in Slots : SlotOwns(grant, mistaken, slot[s]) => SlotOwns(grant', mistaken', slot[s])
    <2> SUFFICES ASSUME NEW s \in Slots, SlotOwns(grant, mistaken, slot[s]), slot[s].step # "idle"
                 PROVE  SlotOwns(grant', mistaken', slot[s])
        BY DEF SlotOwns
    <2>1. slot[s].step = "verify" => slot[s].access # None
        BY Busy DEF SlotsFit
    <2>2. slot[s].step = "verify" => grant'[slot[s].access].opens = Box(slot[s].of)
        BY <2>1 DEF SlotOwns, Owns, Settled
    <2> QED BY <1>1, <2>2 DEF SlotOwns
<1>4. RowsOwn(grant', mistaken', row)
    BY <1>1 DEF Own, RowsOwn
<1>5. SlotsOwn(grant', mistaken', slot)
    BY <1>3 DEF Own, SlotsOwn
<1>6. PairsOwn(grant', mistaken', persisting)
    BY <1>1 DEF Own, PairsOwn
<1>7. CachesOwn(grant', mistaken', cached)
    BY <1>1, <1>2 DEF Own, CachesOwn
<1> QED BY <1>4, <1>5, <1>6, <1>7

\* A step that gives no new consent.
LEMMA OwnStays ==
    ASSUME Own, UNCHANGED <<grant, mistaken>>
    PROVE  /\ RowsOwn(grant', mistaken', row) /\ SlotsOwn(grant', mistaken', slot)
           /\ PairsOwn(grant', mistaken', persisting) /\ CachesOwn(grant', mistaken', cached)
BY DEF Own

LEMMA SlotsOwnNext ==
    ASSUME NEW G, NEW M, SlotsOwn(G, M, slot), NEW s \in Slots, Others(s), SlotOwns(G, M, slot'[s])
    PROVE  SlotsOwn(G, M, slot')
BY DEF SlotsOwn, Others

LEMMA RowsOwnNext ==
    ASSUME NEW G, NEW M, RowsOwn(G, M, row),
           \A a \in Accounts : row'[a].access = row[a].access /\ row'[a].refresh = row[a].refresh
    PROVE  RowsOwn(G, M, row')
BY DEF RowsOwn

LEMMA NothingOwned == ASSUME NEW G, NEW M, NEW a PROVE Owns(G, M, a, None)
BY DEF Owns

\* A handler that lets go of the tokens.
LEMMA EmptyOwns ==
    ASSUME NEW G, NEW M, NEW w, w.access = None, w.refresh = None, w.step # "verify"
    PROVE  SlotOwns(G, M, w)
BY NothingOwned DEF SlotOwns

\* A handler that goes on with them.
LEMMA SameOwns ==
    ASSUME NEW G, NEW M, NEW v, NEW w, SlotOwns(G, M, v), v.step # "idle", w.of = v.of, w.step # "verify",
           w.access \in {v.access, v.refresh}, w.refresh = v.refresh
    PROVE  SlotOwns(G, M, w)
BY DEF SlotOwns

-----------------------------------------------------------------------------
(***************************************************************************)
(* Every step keeps the types, the steps and the tokens.                   *)
(***************************************************************************)
LEMMA BaseInit == Init => Base
<1> SUFFICES ASSUME Init PROVE Base
    OBVIOUS
<1>1. 0 \in 0..MaxClock /\ 0 \in 0..MaxTasks /\ 0 \in 0..MaxRevoked /\ 0 \in 0..MaxDisturbed
    BY MailboxBoundsAssumption, MailboxDisturbances
<1>2. NoRow \in Row /\ NoRow.access = None /\ NoRow.refresh = None
    BY Instants DEF NoRow, Row
<1>3. TypeOK
    BY <1>1, <1>2, Instants, IdleIs DEF Init, TypeOK, NoRoute
<1>4. SlotsFit
    BY IdleIs DEF Init, SlotsFit
<1>5. RowsOwn(grant, mistaken, row)
    BY <1>2, NothingOwned DEF Init, RowsOwn
<1>6. SlotsOwn(grant, mistaken, slot)
    BY IdleIs DEF Init, SlotsOwn, SlotOwns
<1>7. CachesOwn(grant, mistaken, cached)
    BY NothingOwned DEF Init, CachesOwn, Caches, Foreign
<1> QED BY <1>3, <1>4, <1>5, <1>6, <1>7 DEF Base, Own, PairsOwn, Init

LEMMA TickBase == ASSUME Base, Tick PROVE Base'
<1>1. TypeOK /\ SlotsFit /\ Own
    BY DEF Base
<1>2. row' \in [Accounts -> Row] /\ \A a \in Accounts : row'[a].access = row[a].access /\ row'[a].refresh = row[a].refresh
    BY <1>1 DEF Tick, TypeOK, Row
<1>3. clock' \in 0..MaxClock
    BY <1>1, MailboxBoundsAssumption DEF Tick, TypeOK
<1>4. cached' \in [Caches -> 0..MaxGrants] /\ \A k \in Caches : cached'[k] = None
    BY <1>1, Instants DEF Tick, TypeOK, Caches
<1>5. slot' \in [Slots -> Slot]
      /\ \A s \in Slots : /\ slot'[s].step = slot[s].step /\ slot'[s].task = slot[s].task /\ slot'[s].of = slot[s].of
                          /\ slot'[s].access = slot[s].access /\ slot'[s].refresh = slot[s].refresh
                          /\ (slot[s] = Idle => slot'[s] = Idle)
    <2>1. \A s \in Slots : slot[s] \in Slot /\ slot'[s] = [slot[s] EXCEPT !.fresh = FALSE]
        BY <1>1 DEF Tick, TypeOK
    <2>2. [Idle EXCEPT !.fresh = FALSE] = Idle
        <3>1. Idle.fresh = FALSE
            BY DEF Idle, Work
        <3>2. \A w \in Slot : w.fresh = FALSE => [w EXCEPT !.fresh = FALSE] = w
            BY DEF Slot
        <3> QED BY <3>1, <3>2, IdleIs
    <2>3. \A w \in Slot : [w EXCEPT !.fresh = FALSE] \in Slot
        BY DEF Slot
    <2>4. slot' \in [Slots -> Slot]
        BY <2>1, <2>3 DEF Tick
    <2>5. \A s \in Slots : /\ slot'[s].step = slot[s].step /\ slot'[s].task = slot[s].task /\ slot'[s].of = slot[s].of
                           /\ slot'[s].access = slot[s].access /\ slot'[s].refresh = slot[s].refresh
        BY <2>1 DEF Slot
    <2> QED BY <2>1, <2>2, <2>4, <2>5
<1>6. UNCHANGED <<owned, grant, persisting, route, till, renewals, dead, begun, revoked, disturbed, mistaken, crossed, withdrawn>>
    BY DEF Tick, watchVars, historyVars
<1>7. TypeOK'
    BY <1>1, <1>2, <1>3, <1>4, <1>5, <1>6 DEF TypeOK, Caches
<1>8. SlotsFit'
    BY <1>1, <1>5 DEF SlotsFit, Fitting
<1>9. RowsOwn(grant', mistaken', row')
    BY <1>1, <1>2, <1>6, OwnStays, RowsOwnNext
<1>10. SlotsOwn(grant', mistaken', slot')
    BY <1>1, <1>5, <1>6, OwnStays DEF SlotsOwn, SlotOwns
<1>11. CachesOwn(grant', mistaken', cached')
    BY <1>4, NothingOwned DEF CachesOwn, Foreign
<1> QED BY <1>1, <1>6, <1>7, <1>8, <1>9, <1>10, <1>11 DEF Base, Own

LEMMA RevokeBase == ASSUME Base, NEW b \in Boxes, Revoke(b) PROVE Base'
<1>1. TypeOK /\ SlotsFit /\ Own
    BY DEF Base
<1>2. UNCHANGED <<owned, clock, cached, persisting, row, route, renewals, dead, slot, begun, disturbed, mistaken, crossed>>
    BY DEF Revoke
<1>3. revoked' \in 0..MaxRevoked
    BY <1>1, MailboxBoundsAssumption DEF Revoke, TypeOK
<1>4. \A g \in Grants : grant'[g] = IF grant[g].opens = b THEN [grant[g] EXCEPT !.state = "revoked"] ELSE grant[g]
    BY DEF Revoke
<1>5. \A g \in Grants : grant[g].opens = b => grant[g] \in [opens : Boxes, state : {"good", "rotated", "retired", "revoked"}]
    BY <1>1, MailboxesAssumption DEF TypeOK
<1>6. \A g \in Grants : grant[g].opens = b =>
         /\ grant'[g] \in [opens : Boxes, state : {"good", "rotated", "retired", "revoked"}]
         /\ grant'[g].opens = b /\ grant'[g].state = "revoked"
    BY <1>4, <1>5
<1>7. grant' \in [Grants -> [opens : Boxes, state : {"good", "rotated", "retired", "revoked"}]
                            \cup {[opens |-> NoAccount, state |-> "none"]}]
    BY <1>1, <1>4, <1>6 DEF TypeOK, Revoke
<1>8. till' \in [Boxes -> Times] /\ withdrawn' \subseteq Boxes
    BY <1>1, Instants DEF Revoke, TypeOK
<1>9. TypeOK'
    BY <1>1, <1>2, <1>3, <1>7, <1>8 DEF TypeOK
<1>10. Settled(grant, grant')
    BY <1>4, <1>6 DEF Settled
<1>11. Own'
    BY <1>1, <1>2, <1>10, OwnGrows DEF Own
<1> QED BY <1>1, <1>2, <1>9, <1>11 DEF Base, SlotsFit

LEMMA RetireBase == ASSUME Base, NEW g \in Grants, Retire(g) PROVE Base'
<1>1. TypeOK /\ SlotsFit /\ Own
    BY DEF Base
<1>2. UNCHANGED <<owned, clock, cached, persisting, row, route, till, renewals, dead, slot, begun, revoked, mistaken, crossed>>
    BY DEF Retire, watchVars
<1>3. disturbed' \in 0..MaxDisturbed
    BY <1>1, MailboxDisturbances DEF Retire, Disturb, TypeOK
<1>4. grant[g] \in [opens : Boxes, state : {"good", "rotated", "retired", "revoked"}]
    BY <1>1 DEF TypeOK, Retire
<1>5. grant' = [grant EXCEPT ![g] = [grant[g] EXCEPT !.state = "retired"]]
    BY <1>1 DEF Retire, TypeOK
<1>6. /\ [grant[g] EXCEPT !.state = "retired"] \in [opens : Boxes, state : {"good", "rotated", "retired", "revoked"}]
      /\ [grant[g] EXCEPT !.state = "retired"].opens = grant[g].opens
      /\ [grant[g] EXCEPT !.state = "retired"].state = "retired"
    BY <1>4
<1>7. grant' \in [Grants -> [opens : Boxes, state : {"good", "rotated", "retired", "revoked"}]
                            \cup {[opens |-> NoAccount, state |-> "none"]}]
    BY <1>1, <1>5, <1>6 DEF TypeOK
<1>8. withdrawn' \subseteq Boxes
    BY <1>1, <1>4 DEF Retire, TypeOK
<1>9. TypeOK'
    BY <1>1, <1>2, <1>3, <1>7, <1>8 DEF TypeOK
<1>10. Settled(grant, grant')
    BY <1>1, <1>5, <1>6 DEF Settled, TypeOK
<1>11. Own'
    BY <1>1, <1>2, <1>10, OwnGrows DEF Own
<1> QED BY <1>1, <1>2, <1>9, <1>11 DEF Base, SlotsFit

LEMMA PersistedIs ==
    ASSUME NEW G, NEW M, row \in [Accounts -> Row], RowsOwn(G, M, row), NEW a \in Accounts, NEW g \in 0..MaxGrants,
           Owns(G, M, a, g), Persisted(a, g) \/ UNCHANGED row
    PROVE  /\ row' \in [Accounts -> Row] /\ RowsOwn(G, M, row')
           /\ \A c \in Accounts : /\ row'[c].status = row[c].status /\ row'[c].gone = row[c].gone
                                  /\ row'[c].refresh = row[c].refresh
                                  /\ row'[c].access = row[c].access \/ (c = a /\ row'[c].access = g)
<1>1. /\ row' \in [Accounts -> Row]
      /\ \A c \in Accounts : /\ row'[c].status = row[c].status /\ row'[c].gone = row[c].gone
                             /\ row'[c].refresh = row[c].refresh
                             /\ row'[c].access = row[c].access \/ (c = a /\ row'[c].access = g)
    BY DEF Persisted, Row
<1>2. \A c \in Accounts : Owns(G, M, c, row'[c].access) /\ Owns(G, M, c, row'[c].refresh)
    BY <1>1 DEF RowsOwn
<1> QED BY <1>1, <1>2 DEF RowsOwn

LEMMA PersistUnawaitedBase == ASSUME Base, NEW p \in persisting, PersistUnawaited(p) PROVE Base'
<1>1. TypeOK /\ SlotsFit /\ Own
    BY DEF Base
<1>2. UNCHANGED <<owned, clock, grant, cached, route, till, renewals, dead, slot, begun, revoked, disturbed, mistaken, crossed, withdrawn>>
    BY DEF PersistUnawaited, watchVars, historyVars
<1>3. persisting' \subseteq Accounts \X Grants /\ p[1] \in Accounts /\ p[2] \in 0..MaxGrants
    BY <1>1, Instants DEF PersistUnawaited, TypeOK
<1>4. Owns(grant, mistaken, p[1], p[2]) /\ RowsOwn(grant, mistaken, row)
    BY <1>1 DEF Own, PairsOwn
<1>5. row' \in [Accounts -> Row] /\ RowsOwn(grant, mistaken, row')
    BY <1>1, <1>3, <1>4, PersistedIs DEF PersistUnawaited, TypeOK
<1>6. TypeOK'
    BY <1>1, <1>2, <1>3, <1>5 DEF TypeOK
<1>7. PairsOwn(grant', mistaken', persisting')
    BY <1>1, <1>2 DEF PersistUnawaited, PairsOwn, Own
<1> QED BY <1>1, <1>2, <1>5, <1>6, <1>7 DEF Base, SlotsFit, Own

\* A handler in the middle of its work.
LEMMA AtWork ==
    ASSUME Base, NEW s \in Slots, ~At(s, "idle")
    PROVE  /\ slot[s] \in Slot /\ slot[s].of \in Accounts /\ Box(slot[s].of) \in Boxes
           /\ StepOf(slot[s].task, slot[s].step)
           /\ slot[s].access \in 0..MaxGrants /\ slot[s].refresh \in 0..MaxGrants /\ slot[s].due \in Times
           /\ Owns(grant, mistaken, slot[s].of, slot[s].access) /\ Owns(grant, mistaken, slot[s].of, slot[s].refresh)
           /\ SlotOwns(grant, mistaken, slot[s])
           /\ Process(s) \in {"api", "worker"}
           /\ row[slot[s].of] \in Row
<1>1. slot[s] \in Slot /\ Fitting(slot[s]) /\ slot[s].step # "idle"
    BY DEF Base, SlotsFit, At
<1>2. slot[s].of \in Accounts /\ StepOf(slot[s].task, slot[s].step)
    BY <1>1, Busy
<1>3. slot[s].access \in 0..MaxGrants /\ slot[s].refresh \in 0..MaxGrants /\ slot[s].due \in Times
    BY <1>1 DEF Slot
<1>4. SlotOwns(grant, mistaken, slot[s])
    BY DEF Base, Own, SlotsOwn
<1>5. Owns(grant, mistaken, slot[s].of, slot[s].access) /\ Owns(grant, mistaken, slot[s].of, slot[s].refresh)
    BY <1>1, <1>4 DEF SlotOwns
<1>6. row[slot[s].of] \in Row
    BY <1>2 DEF Base, TypeOK
<1> QED BY <1>1, <1>2, <1>3, <1>4, <1>5, <1>6, AccountIs DEF Process

LEMMA PersistRefreshedBase == ASSUME Base, NEW s \in Slots, PersistRefreshedToken(s) PROVE Base'
<1>1. TypeOK /\ SlotsFit /\ Own
    BY DEF Base
<1>2. UNCHANGED <<owned, clock, grant, cached, persisting, route, till, renewals, dead, begun, revoked, disturbed, mistaken, crossed, withdrawn>>
    BY DEF PersistRefreshedToken, tokenVars, watchVars, historyVars
<1>3. ~At(s, "idle") /\ StepOf(slot[s].task, "persist")
    BY AtWork DEF PersistRefreshedToken, At
<1>4. StepOf(slot[s].task, "call") /\ "call" \notin {"verify", "store"}
    BY <1>3 DEF StepOf
<1>5. /\ SlotsFit' /\ Others(s)
      /\ slot'[s].step = "call" /\ slot'[s].of = slot[s].of
      /\ slot'[s].access = slot[s].access /\ slot'[s].refresh = slot[s].refresh
    BY <1>1, <1>3, <1>4, GotoIs DEF PersistRefreshedToken
<1>6. row' \in [Accounts -> Row] /\ RowsOwn(grant, mistaken, row')
    BY <1>1, <1>3, AtWork, PersistedIs DEF PersistRefreshedToken, TypeOK, Own
<1>7. TypeOK'
    BY <1>1, <1>2, <1>5, <1>6 DEF TypeOK, SlotsFit
<1>8. SlotOwns(grant, mistaken, slot'[s])
    BY <1>3, <1>5, AtWork, SameOwns DEF At
<1>9. SlotsOwn(grant, mistaken, slot')
    BY <1>1, <1>5, <1>8, SlotsOwnNext DEF Own
<1> QED BY <1>1, <1>2, <1>5, <1>6, <1>7, <1>9 DEF Base, Own

LEMMA RefreshGoogleBase == ASSUME Base, NEW s \in Slots, RefreshGoogleToken(s) PROVE Base'
<1>1. TypeOK /\ SlotsFit /\ Own
    BY DEF Base
<1>2. UNCHANGED <<owned, clock, grant, cached, row, route, till, renewals, dead, begun, revoked, disturbed, mistaken, crossed, withdrawn>>
    BY DEF RefreshGoogleToken, watchVars, historyVars
<1>3. ~At(s, "idle") /\ slot[s].step = "call" /\ slot[s].refresh # None
    BY DEF RefreshGoogleToken, CanRefresh, At
<1>4. StepOf(slot[s].task, "call") /\ "call" \notin {"verify", "store"}
    BY <1>3, AtWork
<1>5. /\ SlotsFit' /\ Others(s)
      /\ slot'[s].step = "call" /\ slot'[s].of = slot[s].of
      /\ slot'[s].access = slot[s].refresh /\ slot'[s].refresh = slot[s].refresh
    BY <1>1, <1>3, <1>4, RefreshedIs DEF RefreshGoogleToken
<1>6. slot[s].refresh \in Grants /\ slot[s].of \in Accounts /\ Owns(grant, mistaken, slot[s].of, slot[s].refresh)
    BY <1>3, AtWork, Instants
<1>7. persisting' \subseteq persisting \cup {<<slot[s].of, slot[s].refresh>>}
    BY DEF RefreshGoogleToken
<1>8. TypeOK'
    BY <1>1, <1>2, <1>5, <1>6, <1>7 DEF TypeOK, SlotsFit
<1>9. PairsOwn(grant, mistaken, persisting')
    BY <1>1, <1>6, <1>7 DEF Own, PairsOwn
<1>10. SlotOwns(grant, mistaken, slot'[s])
    BY <1>3, <1>5, AtWork, SameOwns DEF At
<1>11. SlotsOwn(grant, mistaken, slot')
    BY <1>1, <1>5, <1>10, SlotsOwnNext DEF Own
<1> QED BY <1>1, <1>2, <1>5, <1>8, <1>9, <1>11 DEF Base, Own

LEMMA RefreshMicrosoftBase == ASSUME Base, NEW s \in Slots, RefreshMicrosoftToken(s) PROVE Base'
<1>1. TypeOK /\ SlotsFit /\ Own
    BY DEF Base
<1>2. UNCHANGED <<owned, clock, persisting, row, route, till, renewals, dead, begun, revoked, disturbed, mistaken, crossed, withdrawn>>
    BY DEF RefreshMicrosoftToken, watchVars, historyVars
<1>3. ~At(s, "idle") /\ slot[s].step = "call" /\ slot[s].refresh # None /\ Box(slot[s].of) \notin Gmail
    BY DEF RefreshMicrosoftToken, CanRefresh, At, OfGmail
<1> DEFINE g == slot[s].refresh
           step == IF Process(s) = "worker" THEN "persist" ELSE "call"
<1>4. StepOf(slot[s].task, step) /\ step \in {"persist", "call"}
    BY <1>3, AtWork DEF StepOf, Process
<1>5. /\ SlotsFit' /\ Others(s)
      /\ slot'[s].step = step /\ slot'[s].of = slot[s].of
      /\ slot'[s].access = slot[s].refresh /\ slot'[s].refresh = slot[s].refresh
    BY <1>1, <1>3, <1>4, RefreshedIs DEF RefreshMicrosoftToken
<1>6. g \in Grants /\ slot[s].of \in Accounts /\ Owns(grant, mistaken, slot[s].of, g) /\ Process(s) \in {"api", "worker"}
    BY <1>3, AtWork, Instants
<1>7. grant[g].state \in {"good", "rotated"}
    BY DEF RefreshMicrosoftToken, CanRefresh
<1>8. grant[g] \in [opens : Boxes, state : {"good", "rotated", "retired", "revoked"}]
    BY <1>1, <1>6, <1>7 DEF TypeOK
<1> DEFINE h == [grant[g] EXCEPT !.state = "rotated"]
<1>9. grant' = [grant EXCEPT ![g] = h]
    BY <1>1 DEF RefreshMicrosoftToken, TypeOK
<1>10. h \in [opens : Boxes, state : {"good", "rotated", "retired", "revoked"}] /\ h.opens = grant[g].opens /\ h.state = "rotated"
    BY <1>8
<1> HIDE DEF h
<1>11. grant' \in [Grants -> [opens : Boxes, state : {"good", "rotated", "retired", "revoked"}]
                            \cup {[opens |-> NoAccount, state |-> "none"]}]
    BY <1>1, <1>9, <1>10 DEF TypeOK
<1>12. Settled(grant, grant')
    BY <1>1, <1>6, <1>9, <1>10 DEF Settled, TypeOK
<1>13. /\ RowsOwn(grant', mistaken', row) /\ SlotsOwn(grant', mistaken', slot)
       /\ PairsOwn(grant', mistaken', persisting) /\ CachesOwn(grant', mistaken', cached)
    BY <1>1, <1>2, <1>12, OwnGrows
<1>14. <<Process(s), slot[s].of>> \in Caches
    BY <1>6 DEF Caches
<1>15. cached' = [cached EXCEPT ![<<Process(s), slot[s].of>>] = g] /\ cached \in [Caches -> 0..MaxGrants]
    BY <1>1 DEF RefreshMicrosoftToken, TypeOK, Caches
<1>16. cached' \in [Caches -> 0..MaxGrants]
    BY <1>6, <1>14, <1>15, Instants
<1>17. TypeOK'
    BY <1>1, <1>2, <1>5, <1>11, <1>16 DEF TypeOK, SlotsFit, Caches
<1>18. Owns(grant', mistaken', slot[s].of, g) /\ Foreign(grant', g)
    BY <1>2, <1>3, <1>6, <1>12 DEF Owns, Settled, Foreign
<1>19. CachesOwn(grant', mistaken', cached')
    BY <1>13, <1>14, <1>15, <1>18 DEF CachesOwn
<1>20. SlotOwns(grant', mistaken', slot'[s])
    BY <1>4, <1>5, <1>18 DEF SlotOwns
<1>21. SlotsOwn(grant', mistaken', slot')
    BY <1>5, <1>13, <1>20, SlotsOwnNext
<1> QED BY <1>1, <1>2, <1>5, <1>13, <1>17, <1>19, <1>21 DEF Base, Own

LEMMA CallbackBase == ASSUME Base, NEW s \in Slots, NEW a \in Accounts, NEW g \in Grants, Callback(s, a, g) PROVE Base'
<1>1. TypeOK /\ SlotsFit /\ Own
    BY DEF Base
<1>2. UNCHANGED <<owned, clock, cached, persisting, row, route, till, renewals, dead, revoked, disturbed, mistaken, crossed, withdrawn>>
    BY DEF Callback, watchVars, historyVars
<1> DEFINE w == [Work("link", a, "verify") EXCEPT !.access = g, !.refresh = g, !.fresh = TRUE]
           h == [opens |-> Box(a), state |-> "good"]
<1>3. grant' = [grant EXCEPT ![g] = h] /\ grant[g].state = "none"
    BY DEF Callback, ExchangeCode, Granted
<1>4. h \in [opens : Boxes, state : {"good", "rotated", "retired", "revoked"}] /\ h.opens = Box(a) /\ h.state = "good"
    BY AccountIs
<1>5. w \in Slot /\ w.step = "verify" /\ w.task = "link" /\ w.of = a /\ w.access = g /\ w.refresh = g
    <2>1. Work("link", a, "verify") \in Slot
        <3>1. "link" \in Tasks /\ "verify" \in Steps
            BY DEF Tasks, Steps
        <3> QED BY <3>1, WorkTyped
    <2>2. PICK v \in Slot : v = Work("link", a, "verify")
        BY <2>1
    <2>3. v.step = "verify" /\ v.task = "link" /\ v.of = a
        BY <2>2 DEF Work
    <2>4. g \in 0..MaxGrants
        BY Instants
    <2> QED BY <2>2, <2>3, <2>4 DEF Slot
<1>6. slot' = [slot EXCEPT ![s] = w] /\ begun < MaxTasks /\ begun' = begun + 1
    BY DEF Callback, Begin
<1> HIDE DEF w, h
<1>7. Fitting(w)
    BY <1>5, Instants DEF Fitting, StepOf
<1>8. SlotsFit' /\ Others(s) /\ slot'[s] = w
    BY <1>1, <1>5, <1>6, <1>7, Moved DEF Others
<1>9. grant' \in [Grants -> [opens : Boxes, state : {"good", "rotated", "retired", "revoked"}]
                            \cup {[opens |-> NoAccount, state |-> "none"]}]
      /\ grant'[g] = h
    BY <1>1, <1>3, <1>4 DEF TypeOK
<1>10. Settled(grant, grant')
    BY <1>1, <1>3, <1>4 DEF Settled, TypeOK
<1>11. begun' \in 0..MaxTasks
    BY <1>1, <1>6, MailboxBoundsAssumption DEF TypeOK
<1>12. TypeOK'
    BY <1>1, <1>2, <1>8, <1>9, <1>11 DEF TypeOK, SlotsFit
<1>13. /\ RowsOwn(grant', mistaken', row) /\ SlotsOwn(grant', mistaken', slot)
       /\ PairsOwn(grant', mistaken', persisting) /\ CachesOwn(grant', mistaken', cached)
    BY <1>1, <1>2, <1>10, OwnGrows
<1>14. SlotOwns(grant', mistaken', slot'[s])
    BY <1>4, <1>5, <1>8, <1>9 DEF SlotOwns, Owns
<1>15. SlotsOwn(grant', mistaken', slot')
    BY <1>8, <1>13, <1>14, SlotsOwnNext
<1> QED BY <1>2, <1>8, <1>12, <1>13, <1>15 DEF Base, Own

\* The token a call is made with.
LEMMA AccessIs ==
    ASSUME Base, NEW s \in Slots, ~At(s, "idle"), NEW id \in Accounts \cup {Pending}
    PROVE  /\ <<Process(s), id>> \in Caches
           /\ AccessToken(s, id) \in 0..MaxGrants
           /\ OfGmail(s) => AccessToken(s, id) = slot[s].access
           /\ ~OfGmail(s) => Foreign(grant, AccessToken(s, id))
           /\ id = slot[s].of => Owns(grant, mistaken, id, AccessToken(s, id))
<1>1. <<Process(s), id>> \in Caches
    BY AtWork DEF Caches
<1>2. cached[<<Process(s), id>>] \in 0..MaxGrants
    BY <1>1 DEF Base, TypeOK, Caches
<1>3. /\ Foreign(grant, cached[<<Process(s), id>>])
      /\ id # Pending => Owns(grant, mistaken, id, cached[<<Process(s), id>>])
    <2>1. \A k \in Caches : Foreign(grant, cached[k]) /\ (k[2] # Pending => Owns(grant, mistaken, k[2], cached[k]))
        BY DEF Base, Own, CachesOwn
    <2> QED BY <1>1, <2>1
<1>4. ~OfGmail(s) => Foreign(grant, slot[s].access)
    BY AtWork DEF OfGmail, Owns, Foreign
<1>5. /\ slot[s].access \in 0..MaxGrants /\ slot[s].of # NoAccount
      /\ Owns(grant, mistaken, slot[s].of, slot[s].access)
    BY AtWork, AccountIs
<1> QED BY <1>1, <1>2, <1>3, <1>4, <1>5 DEF AccessToken, Held, Pending

LEMMA KeepBase ==
    ASSUME Base, NEW s \in Slots, ~At(s, "idle"), NEW id \in {slot[s].of, Pending}, Keep(s, id),
           grant' = grant, mistaken \subseteq mistaken'
    PROVE  cached' \in [Caches -> 0..MaxGrants] /\ CachesOwn(grant, mistaken', cached')
<1> DEFINE k == <<Process(s), id>>  g == AccessToken(s, id)
<1>1. TypeOK /\ SlotsFit /\ Own /\ Settled(grant, grant')
    BY DEF Base, Settled
<1>2. CachesOwn(grant, mistaken', cached) /\ cached \in [Caches -> 0..MaxGrants]
    BY <1>1, OwnGrows DEF TypeOK, Caches
<1>3. slot[s].of \in Accounts
    BY AtWork
<1>4. k \in Caches /\ g \in 0..MaxGrants /\ (~OfGmail(s) => Foreign(grant, g))
      /\ (id = slot[s].of => Owns(grant, mistaken, id, g))
    BY <1>3, AccessIs
<1>5. cached' = cached \/ (~OfGmail(s) /\ cached' = [cached EXCEPT ![k] = g])
    BY DEF Keep
<1>6. id = slot[s].of => Owns(grant, mistaken', id, g)
    BY <1>4 DEF Owns
<1>7. k[2] = id
    OBVIOUS
<1> HIDE DEF k, g
<1>8. CASE cached' = cached
    BY <1>2, <1>8
<1>9. CASE ~OfGmail(s) /\ cached' = [cached EXCEPT ![k] = g]
    <2>1. cached' \in [Caches -> 0..MaxGrants]
        BY <1>2, <1>4, <1>9
    <2>2. \A j \in Caches : cached'[j] = IF j = k THEN g ELSE cached[j]
        BY <1>2, <1>9
    <2>3. Foreign(grant, g) /\ (k[2] # Pending => Owns(grant, mistaken', k[2], g))
        BY <1>4, <1>6, <1>7, <1>9
    <2> QED BY <1>2, <2>1, <2>2, <2>3 DEF CachesOwn
<1> QED BY <1>5, <1>8, <1>9

LEMMA VerifyBase == ASSUME Base, NEW s \in Slots, NEW answer, VerifyAccess(s, answer) PROVE Base'
<1> DEFINE g == AccessToken(s, Pending)
           found == Identified(s, g)
<1>1. TypeOK /\ SlotsFit /\ Own
    BY DEF Base
<1>2. UNCHANGED <<owned, clock, grant, persisting, row, route, till, renewals, dead, begun, revoked, crossed, withdrawn>>
    BY DEF VerifyAccess, watchVars
<1>3. ~At(s, "idle") /\ slot[s].step = "verify"
    BY DEF VerifyAccess, At
<1>4. disturbed' \in 0..MaxDisturbed
    BY <1>1, MailboxDisturbances DEF VerifyAccess, Provoked, Disturb, TypeOK
<1>5. /\ slot[s] \in Slot /\ slot[s].of \in Accounts /\ slot[s].task = "link"
      /\ slot[s].access = slot[s].refresh /\ slot[s].access \in Grants /\ grant[slot[s].access].opens = Box(slot[s].of)
      /\ Owns(grant, mistaken, slot[s].of, slot[s].access)
    <2>1. slot[s].access = slot[s].refresh /\ slot[s].access # None
        BY <1>1, <1>3, Busy DEF SlotsFit
    <2>2. slot[s].task = "link"
        BY <1>3, AtWork DEF StepOf
    <2>3. slot[s].access \in Grants /\ grant[slot[s].access].opens = Box(slot[s].of)
        BY <1>3, <2>1, AtWork, Instants DEF SlotOwns
    <2> QED BY <1>3, <2>1, <2>2, <2>3, AtWork
<1>6. g \in 0..MaxGrants /\ (OfGmail(s) => g = slot[s].access) /\ (~OfGmail(s) => Foreign(grant, g) /\ g # None)
    <2>1. g \in 0..MaxGrants /\ (OfGmail(s) => g = slot[s].access) /\ (~OfGmail(s) => Foreign(grant, g))
        BY <1>3, AccessIs
    <2>2. g # None
        BY <1>5, Instants DEF AccessToken
    <2> QED BY <2>1, <2>2
<1> HIDE DEF g
<1>7. Box(found) = grant[g].opens /\ found[1] = slot[s].of[1]
    BY DEF Identified, Box
<1>8. found \in Accounts /\ (OfGmail(s) => found = slot[s].of)
      /\ (~OfGmail(s) => Box(found) \notin Gmail /\ Box(slot[s].of) \notin Gmail)
    <2>1. slot[s].of[1] \in Users /\ slot[s].of = <<slot[s].of[1], Box(slot[s].of)>>
        BY <1>5, AccountIs
    <2>2. g \in Grants /\ grant[g].state # "none"
        BY <1>5, <1>6, Instants DEF Foreign, Owns
    <2>3. grant[g].opens \in Boxes
        BY <1>1, <2>2 DEF TypeOK
    <2>4. found \in Accounts
        BY <2>1, <2>3 DEF Accounts, Identified
    <2>5. OfGmail(s) => found = slot[s].of
        BY <1>5, <1>6, <2>1 DEF Identified
    <2> QED BY <1>6, <1>7, <2>4, <2>5 DEF Foreign, OfGmail
<1> HIDE DEF found
<1>9. mistaken \subseteq mistaken' /\ mistaken' \subseteq Accounts
    BY <1>1, <1>8 DEF VerifyAccess, TypeOK, g, found
<1>10. cached' \in [Caches -> 0..MaxGrants] /\ CachesOwn(grant, mistaken', cached')
    <2>1. Keep(s, Pending)
        BY DEF VerifyAccess
    <2> QED BY <1>2, <1>3, <1>9, <2>1, KeepBase
<1>11. Settled(grant, grant')
    BY <1>2 DEF Settled
<1>12. /\ RowsOwn(grant', mistaken', row) /\ SlotsOwn(grant', mistaken', slot)
       /\ PairsOwn(grant', mistaken', persisting)
    BY <1>1, <1>9, <1>11, OwnGrows
<1>13. SlotsFit' /\ SlotsOwn(grant', mistaken', slot')
  <2>1. CASE Finish(s)
    <3>1. SlotsFit' /\ Others(s) /\ slot'[s] = Idle
        BY <1>1, <2>1, FinishIs
    <3>2. SlotOwns(grant', mistaken', slot'[s])
        BY <3>1, IdleIs, EmptyOwns
    <3> QED BY <1>12, <3>1, <3>2, SlotsOwnNext
  <2>2. CASE /\ slot' = [slot EXCEPT ![s].of = found, ![s].step = "store"]
             /\ mistaken' = IF found # slot[s].of THEN mistaken \cup {found} ELSE mistaken
    <3> DEFINE w == slot'[s]
    <3>1. "store" \in Steps
        BY DEF Steps
    <3>2. /\ w \in Slot /\ w.of = found /\ w.step = "store" /\ w.task = slot[s].task
          /\ w.access = slot[s].access /\ w.refresh = slot[s].refresh
        BY <1>1, <1>5, <1>8, <2>2, <3>1 DEF Slot, TypeOK
    <3>3. slot' = [slot EXCEPT ![s] = w]
        BY <1>1, <2>2 DEF TypeOK
    <3> HIDE DEF w
    <3>4. Fitting(w)
        BY <1>5, <1>8, <3>2, Instants DEF Fitting, StepOf
    <3>5. SlotsFit' /\ Others(s) /\ slot'[s] = w
        BY <1>1, <3>2, <3>3, <3>4, Moved DEF Others
    <3>6. Owns(grant', mistaken', found, slot[s].access)
        BY <1>2, <1>5, <1>8, <2>2 DEF Owns
    <3>7. SlotOwns(grant', mistaken', slot'[s])
        BY <1>5, <3>2, <3>5, <3>6 DEF SlotOwns
    <3> QED BY <1>12, <3>5, <3>7, SlotsOwnNext
  <2> QED BY <2>1, <2>2 DEF VerifyAccess, g, found
<1>14. TypeOK'
    BY <1>1, <1>2, <1>4, <1>9, <1>10, <1>13 DEF TypeOK, SlotsFit, Caches
<1> QED BY <1>2, <1>10, <1>12, <1>13, <1>14 DEF Base, Own

\* A step of a handler that changes no consent.
Rest ==
    /\ route \in [Boxes -> [to : Accounts \cup {NoAccount}, expires : Times]]
    /\ till \in [Boxes -> Times]
    /\ renewals \subseteq Accounts \X Times /\ dead \subseteq Accounts \X Times
    /\ begun \in 0..MaxTasks /\ revoked \in 0..MaxRevoked /\ disturbed \in 0..MaxDisturbed
    /\ crossed \subseteq Boxes /\ withdrawn \subseteq Boxes

LEMMA WorkBase ==
    ASSUME Base, NEW s \in Slots, UNCHANGED <<owned, clock, grant, persisting, mistaken>>, Rest',
           SlotsFit', Others(s), SlotOwns(grant, mistaken, slot'[s]),
           UNCHANGED row \/ (row' \in [Accounts -> Row] /\ RowsOwn(grant, mistaken, row')),
           UNCHANGED cached \/ (cached' \in [Caches -> 0..MaxGrants] /\ CachesOwn(grant, mistaken, cached'))
    PROVE  Base'
<1>1. TypeOK /\ Own
    BY DEF Base
<1>2. row' \in [Accounts -> Row] /\ RowsOwn(grant, mistaken, row')
    BY <1>1 DEF TypeOK, Own
<1>3. cached' \in [Caches -> 0..MaxGrants] /\ CachesOwn(grant, mistaken, cached')
    BY <1>1 DEF TypeOK, Own, Caches
<1>4. SlotsOwn(grant, mistaken, slot')
    BY <1>1, SlotsOwnNext DEF Own
<1>5. TypeOK'
    BY <1>1, <1>2, <1>3 DEF TypeOK, Rest, SlotsFit, Caches
<1>6. Own'
    BY <1>1, <1>2, <1>3, <1>4 DEF Own
<1> QED BY <1>5, <1>6 DEF Base

LEMMA RestIs == ASSUME Base PROVE Rest
BY DEF Base, TypeOK, Rest

\* A handler that goes on without its tokens, or ends.
LEMMA LeaveBase ==
    ASSUME Base, NEW s \in Slots, ~At(s, "idle"), NEW step, StepOf(slot[s].task, step), step \notin {"verify", "store"},
           Leave(s, step)
    PROVE  SlotsFit' /\ Others(s) /\ SlotOwns(grant, mistaken, slot'[s])
<1>1. SlotsFit' /\ Others(s) /\ slot'[s].step = step /\ slot'[s].access = None /\ slot'[s].refresh = None
    BY LeaveIs DEF Base
<1> QED BY <1>1, EmptyOwns

LEMMA FinishBase ==
    ASSUME Base, NEW s \in Slots, Finish(s)
    PROVE  SlotsFit' /\ Others(s) /\ SlotOwns(grant, mistaken, slot'[s])
<1>1. SlotsFit' /\ Others(s) /\ slot'[s] = Idle
    BY FinishIs DEF Base
<1> QED BY <1>1, IdleIs, EmptyOwns

LEMMA LoadedBase ==
    ASSUME Base, NEW s \in Slots, ~At(s, "idle"), StepOf(slot[s].task, "call"), Loaded(s, row[slot[s].of])
    PROVE  SlotsFit' /\ Others(s) /\ SlotOwns(grant, mistaken, slot'[s])
<1> DEFINE r == row[slot[s].of]
<1>1. r \in Row /\ slot[s].of \in Accounts
    BY AtWork
<1>2. Owns(grant, mistaken, slot[s].of, r.access) /\ Owns(grant, mistaken, slot[s].of, r.refresh)
    BY <1>1 DEF Base, Own, RowsOwn
<1> HIDE DEF r
<1>3. /\ SlotsFit' /\ Others(s) /\ slot'[s].step = "call" /\ slot'[s].of = slot[s].of
      /\ slot'[s].access = r.access /\ slot'[s].refresh = r.refresh
    BY <1>1, LoadedIs DEF Base, r
<1> QED BY <1>2, <1>3 DEF SlotOwns

\* A task that begins without a token.
LEMMA BeganBase ==
    ASSUME Base, NEW s \in Slots, NEW w \in Slot, Fitting(w), SlotOwns(grant, mistaken, w), Begin(s, w)
    PROVE  SlotsFit' /\ Others(s) /\ slot'[s] = w /\ SlotOwns(grant, mistaken, slot'[s]) /\ begun' \in 0..MaxTasks
<1>1. SlotsFit' /\ Others(s) /\ slot'[s] = w
    BY Moved DEF Base, Begin, Others
<1>2. begun' \in 0..MaxTasks
    BY MailboxBoundsAssumption DEF Begin, Base, TypeOK
<1> QED BY <1>1, <1>2

\* A row that is written.
LEMMA RowPut ==
    ASSUME Base, NEW a \in Accounts, NEW r \in Row, row' = [row EXCEPT ![a] = r],
           Owns(grant, mistaken, a, r.access), Owns(grant, mistaken, a, r.refresh)
    PROVE  /\ row' \in [Accounts -> Row] /\ RowsOwn(grant, mistaken, row')
           /\ row'[a] = r /\ \A c \in Accounts : c # a => row'[c] = row[c]
<1>1. row \in [Accounts -> Row] /\ RowsOwn(grant, mistaken, row)
    BY DEF Base, TypeOK, Own
<1>2. row' \in [Accounts -> Row] /\ row'[a] = r /\ \A c \in Accounts : c # a => row'[c] = row[c]
    BY <1>1
<1> QED BY <1>1, <1>2 DEF RowsOwn

LEMMA StoreBase == ASSUME Base, NEW s \in Slots, Store(s) PROVE Base'
<1> DEFINE a == slot[s].of
           r == [row[a] EXCEPT !.status = "connecting", !.gone = FALSE, !.fresh = TRUE,
                               !.access = slot[s].access, !.refresh = slot[s].refresh]
<1>1. ~At(s, "idle") /\ slot[s].step = "store" /\ Leave(s, "route")
    BY DEF Store, At
<1>2. a \in Accounts /\ StepOf(slot[s].task, "route") /\ row[a] \in Row /\ Box(a) \in Boxes
      /\ slot[s].access \in 0..MaxGrants /\ slot[s].refresh \in 0..MaxGrants
      /\ Owns(grant, mistaken, a, slot[s].access) /\ Owns(grant, mistaken, a, slot[s].refresh)
    BY <1>1, AtWork DEF StepOf
<1>3. r \in Row /\ r.access = slot[s].access /\ r.refresh = slot[s].refresh
    BY <1>2 DEF Row
<1>4. row' = [row EXCEPT ![a] = r]
    BY <1>2 DEF Store, Base, TypeOK
<1> HIDE DEF a, r
<1>5. row' \in [Accounts -> Row] /\ RowsOwn(grant, mistaken, row')
    BY <1>2, <1>3, <1>4, RowPut
<1>6. SlotsFit' /\ Others(s) /\ SlotOwns(grant, mistaken, slot'[s])
    BY <1>1, <1>2, LeaveBase
<1>7. UNCHANGED <<owned, clock, grant, cached, persisting, route, till, renewals, dead, begun, revoked, disturbed, mistaken, withdrawn>>
    BY DEF Store, tokenVars, watchVars
<1>8. crossed' \subseteq Boxes
    BY <1>2, RestIs DEF Store, Rest, a
<1>9. Rest'
    BY <1>7, <1>8, RestIs DEF Rest
<1> QED BY <1>5, <1>6, <1>7, <1>9, WorkBase

LEMMA RouteBase == ASSUME Base, NEW s \in Slots, Route(s) PROVE Base'
<1>1. ~At(s, "idle") /\ slot[s].step = "route" /\ Leave(s, "load")
    BY DEF Route, At
<1>2. slot[s].of \in Accounts /\ StepOf(slot[s].task, "load")
    BY <1>1, AtWork DEF StepOf
<1>3. SlotsFit' /\ Others(s) /\ SlotOwns(grant, mistaken, slot'[s])
    BY <1>1, <1>2, LeaveBase
<1>4. UNCHANGED <<owned, clock, grant, cached, persisting, row, till, renewals, dead, begun, revoked, disturbed, mistaken, crossed, withdrawn>>
    BY DEF Route, tokenVars, historyVars
<1>5. route' \in [Boxes -> [to : Accounts \cup {NoAccount}, expires : Times]]
    BY <1>2, RestIs, Instants DEF Route, Rest
<1>6. Rest'
    BY <1>4, <1>5, RestIs DEF Rest
<1> QED BY <1>3, <1>4, <1>6, WorkBase

LEMMA LoadForWatchBase == ASSUME Base, NEW s \in Slots, LoadForWatch(s) PROVE Base'
<1>1. ~At(s, "idle") /\ slot[s].task = "link"
    BY DEF LoadForWatch, At, Doing
<1>2. StepOf(slot[s].task, "excuse") /\ StepOf(slot[s].task, "call")
    BY <1>1 DEF StepOf
<1>3. Leave(s, "excuse") \/ Loaded(s, row[slot[s].of])
    BY DEF LoadForWatch, Loaded
<1>4. SlotsFit' /\ Others(s) /\ SlotOwns(grant, mistaken, slot'[s])
    BY <1>1, <1>2, <1>3, LeaveBase, LoadedBase
<1>5. UNCHANGED <<owned, clock, grant, cached, persisting, row, route, till, renewals, dead, begun, revoked, disturbed, mistaken, crossed, withdrawn>>
    BY DEF LoadForWatch, tokenVars, watchVars, historyVars
<1>6. Rest'
    BY <1>5, RestIs DEF Rest
<1> QED BY <1>4, <1>5, <1>6, WorkBase

\* A watch that was set up: the handler goes on to record how long it lasts.
LEMMA WatchIs ==
    ASSUME Base, NEW s \in Slots, ~At(s, "idle"), StepOf(slot[s].task, "record"), NEW g, Watch(s, g)
    PROVE  /\ SlotsFit' /\ Others(s) /\ SlotOwns(grant, mistaken, slot'[s])
           /\ slot'[s].step = "record" /\ slot'[s].task = slot[s].task /\ slot'[s].of = slot[s].of
           /\ slot'[s].due = clock + Lasts
           /\ slot'[s].access = None /\ slot'[s].refresh = None
           /\ till' \in [Boxes -> Times]
<1> DEFINE v == Work(slot[s].task, slot[s].of, "record")
           w == [v EXCEPT !.due = clock + Lasts]
<1>1. slot[s].of \in Accounts /\ slot[s].task \in Tasks /\ "record" \in Steps
    BY AtWork DEF Slot, Steps
<1>2. clock + Lasts \in Times
    BY Instants DEF Base, TypeOK
<1>3. v \in Slot
    BY <1>1, WorkTyped
<1>4. v.step = "record" /\ v.task = slot[s].task /\ v.of = slot[s].of /\ v.access = None /\ v.refresh = None
    BY DEF Work
<1>5. slot' = [slot EXCEPT ![s] = w]
    BY DEF Watch
<1> HIDE DEF v
<1>6. /\ w \in Slot /\ w.step = "record" /\ w.task = slot[s].task /\ w.of = slot[s].of
      /\ w.access = None /\ w.refresh = None /\ w.due = clock + Lasts
    BY <1>2, <1>3, <1>4 DEF Slot
<1> HIDE DEF w
<1>7. Fitting(w)
    BY <1>1, <1>6 DEF Fitting
<1>8. SlotsFit' /\ Others(s) /\ slot'[s] = w
    BY <1>5, <1>6, <1>7, Moved DEF Base, Others
<1>9. SlotOwns(grant, mistaken, slot'[s])
    BY <1>6, <1>8, EmptyOwns
<1>10. till' \in [Boxes -> Times]
    BY <1>2, RestIs DEF Watch, GmailWatch, Rest
<1> QED BY <1>6, <1>8, <1>9, <1>10

LEMMA ProvokedIs == ASSUME Base, NEW answer, Provoked(answer) PROVE disturbed' \in 0..MaxDisturbed
BY MailboxDisturbances DEF Provoked, Disturb, Base, TypeOK

LEMMA KeepOf ==
    ASSUME Base, NEW s \in Slots, ~At(s, "idle"), Keep(s, slot[s].of), UNCHANGED <<grant, mistaken>>
    PROVE  cached' \in [Caches -> 0..MaxGrants] /\ CachesOwn(grant, mistaken, cached')
BY KeepBase

LEMMA StartWatchingBase == ASSUME Base, NEW s \in Slots, NEW answer, NEW g, StartWatching(s, answer, g) PROVE Base'
<1>1. ~At(s, "idle") /\ slot[s].task = "link" /\ Keep(s, slot[s].of) /\ Provoked(answer)
    BY DEF StartWatching, At, Doing
<1>2. StepOf(slot[s].task, "excuse") /\ StepOf(slot[s].task, "record")
    BY <1>1 DEF StepOf
<1>3. UNCHANGED <<owned, clock, grant, persisting, row, route, renewals, dead, begun, revoked, mistaken, crossed, withdrawn>>
    BY DEF StartWatching, historyVars
<1>4. cached' \in [Caches -> 0..MaxGrants] /\ CachesOwn(grant, mistaken, cached')
    BY <1>1, <1>3, KeepOf
<1>5. SlotsFit' /\ Others(s) /\ SlotOwns(grant, mistaken, slot'[s]) /\ till' \in [Boxes -> Times]
    <2>1. CASE Watch(s, g)
        BY <1>1, <1>2, <2>1, WatchIs
    <2>2. CASE Leave(s, "excuse") /\ UNCHANGED till
        BY <1>1, <1>2, <2>2, LeaveBase, RestIs DEF Rest
    <2> QED BY <2>1, <2>2 DEF StartWatching
<1>6. Rest'
    BY <1>1, <1>3, <1>5, RestIs, ProvokedIs DEF Rest
<1> QED BY <1>3, <1>4, <1>5, <1>6, WorkBase

LEMMA ExpiresTyped ==
    ASSUME Base, NEW a \in Accounts, NEW time \in Times
    PROVE  Expires(a, time) \in [Boxes -> [to : Accounts \cup {NoAccount}, expires : Times]]
BY RestIs DEF Expires, Rest

LEMMA RecordWatchBase == ASSUME Base, NEW s \in Slots, RecordWatch(s) PROVE Base'
<1> DEFINE a == slot[s].of
           r == [row[a] EXCEPT !.status = "active", !.cursor = TRUE, !.subscribed = Subscribed(s)]
<1>1. ~At(s, "idle") /\ Finish(s)
    BY DEF RecordWatch, At
<1>2. a \in Accounts /\ row[a] \in Row /\ slot[s].due \in Times
    BY <1>1, AtWork
<1>3. r \in Row /\ r.access = row[a].access /\ r.refresh = row[a].refresh
    BY <1>2 DEF Row, Subscribed
<1>4. row' = [row EXCEPT ![a] = r]
    BY <1>2 DEF RecordWatch, Base, TypeOK
<1>5. Owns(grant, mistaken, a, row[a].access) /\ Owns(grant, mistaken, a, row[a].refresh)
    BY <1>2 DEF Base, Own, RowsOwn
<1>6. UNCHANGED <<owned, clock, grant, cached, persisting, till, renewals, dead, begun, revoked, disturbed, mistaken, crossed, withdrawn>>
    BY DEF RecordWatch, tokenVars, historyVars
<1>7. route' \in [Boxes -> [to : Accounts \cup {NoAccount}, expires : Times]]
    BY <1>2, ExpiresTyped DEF RecordWatch
<1> HIDE DEF a, r
<1>8. row' \in [Accounts -> Row] /\ RowsOwn(grant, mistaken, row')
    BY <1>2, <1>3, <1>4, <1>5, RowPut
<1>9. SlotsFit' /\ Others(s) /\ SlotOwns(grant, mistaken, slot'[s])
    BY <1>1, FinishBase
<1>10. Rest'
    BY <1>6, <1>7, RestIs DEF Rest
<1> QED BY <1>6, <1>8, <1>9, <1>10, WorkBase

LEMMA FallBackBase == ASSUME Base, NEW s \in Slots, FallBack(s) PROVE Base'
<1> DEFINE a == slot[s].of
           r == [row[a] EXCEPT !.status = "active"]
<1>1. ~At(s, "idle") /\ Finish(s)
    BY DEF FallBack, At
<1>2. a \in Accounts /\ row[a] \in Row
    BY <1>1, AtWork
<1>3. r \in Row /\ r.access = row[a].access /\ r.refresh = row[a].refresh
    BY <1>2 DEF Row
<1>4. row' = [row EXCEPT ![a] = r]
    BY <1>2 DEF FallBack, Base, TypeOK
<1>5. Owns(grant, mistaken, a, row[a].access) /\ Owns(grant, mistaken, a, row[a].refresh)
    BY <1>2 DEF Base, Own, RowsOwn
<1>6. UNCHANGED <<owned, clock, grant, cached, persisting, route, till, renewals, dead, begun, revoked, disturbed, mistaken, crossed, withdrawn>>
    BY DEF FallBack, tokenVars, watchVars, historyVars
<1> HIDE DEF a, r
<1>7. row' \in [Accounts -> Row] /\ RowsOwn(grant, mistaken, row')
    BY <1>2, <1>3, <1>4, <1>5, RowPut
<1>8. SlotsFit' /\ Others(s) /\ SlotOwns(grant, mistaken, slot'[s])
    BY <1>1, FinishBase
<1>9. Rest'
    BY <1>6, RestIs DEF Rest
<1> QED BY <1>6, <1>7, <1>8, <1>9, WorkBase

LEMMA DisconnectBase == ASSUME Base, NEW s \in Slots, NEW a \in Accounts, Disconnect(s, a) PROVE Base'
<1> DEFINE v == Work("disconnect", a, "stop")
           w == [v EXCEPT !.access = row[a].access, !.fresh = row[a].fresh]
<1>1. row[a] \in Row /\ Owns(grant, mistaken, a, row[a].access)
    BY DEF Base, TypeOK, Own, RowsOwn
<1>2. v \in Slot
    <2>1. "disconnect" \in Tasks /\ "stop" \in Steps
        BY DEF Tasks, Steps
    <2> QED BY <2>1, WorkTyped
<1>3. v.step = "stop" /\ v.task = "disconnect" /\ v.of = a /\ v.refresh = None
    BY DEF Work
<1>4. Begin(s, w)
    BY DEF Disconnect
<1> HIDE DEF v
<1>5. /\ w \in Slot /\ w.step = "stop" /\ w.task = "disconnect" /\ w.of = a
      /\ w.access = row[a].access /\ w.refresh = None
    BY <1>1, <1>2, <1>3 DEF Slot, Row
<1> HIDE DEF w
<1>6. Fitting(w)
    BY <1>5 DEF Fitting, StepOf
<1>7. SlotOwns(grant, mistaken, w)
    BY <1>1, <1>5, NothingOwned DEF SlotOwns
<1>8. SlotsFit' /\ Others(s) /\ SlotOwns(grant, mistaken, slot'[s]) /\ begun' \in 0..MaxTasks
    BY <1>4, <1>5, <1>6, <1>7, BeganBase
<1>9. UNCHANGED <<owned, clock, grant, cached, persisting, row, route, till, renewals, dead, revoked, disturbed, mistaken, crossed, withdrawn>>
    BY DEF Disconnect, tokenVars, watchVars, historyVars
<1>10. Rest'
    BY <1>8, <1>9, RestIs DEF Rest
<1> QED BY <1>8, <1>9, <1>10, WorkBase

LEMMA StopWatchBase == ASSUME Base, NEW s \in Slots, StopWatch(s) PROVE Base'
<1>1. ~At(s, "idle") /\ slot[s].step = "stop" /\ Leave(s, "wipe")
    BY DEF StopWatch, At
<1>2. StepOf(slot[s].task, "wipe")
    BY <1>1, AtWork DEF StepOf
<1>3. SlotsFit' /\ Others(s) /\ SlotOwns(grant, mistaken, slot'[s])
    BY <1>1, <1>2, LeaveBase
<1>4. UNCHANGED <<owned, clock, grant, cached, persisting, row, route, renewals, dead, begun, revoked, mistaken, crossed, withdrawn>>
    BY DEF StopWatch, tokenVars, historyVars
<1>5. till' \in [Boxes -> Times]
    BY RestIs, Instants DEF StopWatch, Rest
<1>6. disturbed' \in 0..MaxDisturbed
    BY RestIs, MailboxDisturbances DEF StopWatch, Disturb, Rest
<1>7. Rest'
    BY <1>4, <1>5, <1>6, RestIs DEF Rest
<1> QED BY <1>3, <1>4, <1>7, WorkBase

LEMMA WipeBase == ASSUME Base, NEW s \in Slots, Wipe(s) PROVE Base'
<1> DEFINE a == slot[s].of
           r == [row[a] EXCEPT !.status = "disconnected", !.gone = TRUE, !.access = None, !.refresh = None,
                               !.fresh = FALSE, !.subscribed = FALSE]
<1>1. ~At(s, "idle") /\ slot[s].step = "wipe" /\ Leave(s, "drop")
    BY DEF Wipe, At
<1>2. a \in Accounts /\ row[a] \in Row /\ StepOf(slot[s].task, "drop")
    BY <1>1, AtWork DEF StepOf
<1>3. r \in Row /\ r.access = None /\ r.refresh = None
    BY <1>2, Instants DEF Row
<1>4. row' = [row EXCEPT ![a] = r]
    BY <1>2 DEF Wipe, Base, TypeOK
<1>5. UNCHANGED <<owned, clock, grant, cached, persisting, route, till, renewals, dead, begun, revoked, disturbed, mistaken, crossed, withdrawn>>
    BY DEF Wipe, tokenVars, watchVars, historyVars
<1> HIDE DEF a, r
<1>9. Owns(grant, mistaken, a, r.access) /\ Owns(grant, mistaken, a, r.refresh)
    BY <1>3, NothingOwned
<1>6. row' \in [Accounts -> Row] /\ RowsOwn(grant, mistaken, row')
    BY <1>2, <1>3, <1>4, <1>9, RowPut
<1>7. SlotsFit' /\ Others(s) /\ SlotOwns(grant, mistaken, slot'[s])
    BY <1>1, <1>2, LeaveBase DEF a
<1>8. Rest'
    BY <1>5, RestIs DEF Rest
<1> QED BY <1>5, <1>6, <1>7, <1>8, WorkBase

LEMMA DropRouteBase == ASSUME Base, NEW s \in Slots, DropRoute(s) PROVE Base'
<1>1. Finish(s) /\ SlotsFit' /\ Others(s) /\ SlotOwns(grant, mistaken, slot'[s])
    BY FinishBase DEF DropRoute
<1>2. UNCHANGED <<owned, clock, grant, cached, persisting, row, till, renewals, dead, begun, revoked, disturbed, mistaken, crossed, withdrawn>>
    BY DEF DropRoute, tokenVars, historyVars
<1>3. route' \in [Boxes -> [to : Accounts \cup {NoAccount}, expires : Times]]
    BY RestIs, Instants DEF DropRoute, NoRoute, Rest
<1>4. Rest'
    BY <1>2, <1>3, RestIs DEF Rest
<1> QED BY <1>1, <1>2, <1>4, WorkBase

LEMMA SweepBase == ASSUME Base, NEW b \in Boxes, Sweep(b) PROVE Base'
<1>1. UNCHANGED <<owned, clock, grant, cached, persisting, row, route, till, dead, slot, begun, revoked, disturbed, mistaken, crossed, withdrawn>>
    BY DEF Sweep, tokenVars, historyVars
<1>2. RenewalJobId(b) \in Accounts \X Times
    BY RestIs DEF Sweep, FindDue, RenewalJobId, Rest
<1>3. renewals' \subseteq Accounts \X Times
    BY <1>2, RestIs DEF Sweep, Rest
<1> QED BY <1>1, <1>3 DEF Base, TypeOK, SlotsFit, Own

\* What a job's end leaves in the queue.
LEMMA DiesBase ==
    ASSUME Base, NEW s \in Slots, ~At(s, "idle"), Dies(s)
    PROVE  /\ SlotsFit' /\ Others(s) /\ SlotOwns(grant, mistaken, slot'[s])
           /\ renewals' \subseteq Accounts \X Times /\ dead' \subseteq Accounts \X Times
<1>1. Finish(s) /\ slot[s].of \in Accounts /\ slot[s].due \in Times
    BY AtWork DEF Dies
<1>2. renewals' \subseteq Accounts \X Times /\ dead' \subseteq Accounts \X Times
    BY <1>1, RestIs DEF Dies, Rest
<1> QED BY <1>1, <1>2, FinishBase

LEMMA RetriesBase ==
    ASSUME Base, NEW s \in Slots, ~At(s, "idle"), Retries(s)
    PROVE  /\ SlotsFit' /\ Others(s) /\ SlotOwns(grant, mistaken, slot'[s])
           /\ renewals' \subseteq Accounts \X Times /\ dead' \subseteq Accounts \X Times
<1>1. Finish(s) /\ slot[s].of \in Accounts /\ slot[s].due \in Times
    BY AtWork DEF Retries
<1>2. renewals' \subseteq Accounts \X Times /\ dead' \subseteq Accounts \X Times
    BY <1>1, RestIs DEF Retries, Rest
<1> QED BY <1>1, <1>2, FinishBase

LEMMA TakeRenewalBase == ASSUME Base, NEW s \in Slots, NEW j \in renewals, TakeRenewal(s, j) PROVE Base'
<1> DEFINE v == Work("renew", j[1], "load")
           w == [v EXCEPT !.due = j[2]]
<1>1. j[1] \in Accounts /\ j[2] \in Times
    BY RestIs DEF Rest
<1>2. v \in Slot
    <2>1. "renew" \in Tasks /\ "load" \in Steps
        BY DEF Tasks, Steps
    <2> QED BY <1>1, <2>1, WorkTyped
<1>3. v.step = "load" /\ v.task = "renew" /\ v.of = j[1] /\ v.access = None /\ v.refresh = None
    BY DEF Work
<1>4. Begin(s, w)
    BY DEF TakeRenewal
<1> HIDE DEF v
<1>5. w \in Slot /\ w.step = "load" /\ w.task = "renew" /\ w.of = j[1] /\ w.access = None /\ w.refresh = None
    BY <1>1, <1>2, <1>3 DEF Slot
<1> HIDE DEF w
<1>6. Fitting(w)
    BY <1>1, <1>5 DEF Fitting, StepOf
<1>7. SlotOwns(grant, mistaken, w)
    BY <1>5, EmptyOwns
<1>8. SlotsFit' /\ Others(s) /\ SlotOwns(grant, mistaken, slot'[s]) /\ begun' \in 0..MaxTasks
    BY <1>4, <1>5, <1>6, <1>7, BeganBase
<1>9. UNCHANGED <<owned, clock, grant, cached, persisting, row, route, till, dead, revoked, disturbed, mistaken, crossed, withdrawn>>
    BY DEF TakeRenewal, tokenVars, historyVars
<1>10. Rest'
    BY <1>8, <1>9, RestIs DEF Rest, TakeRenewal
<1> QED BY <1>8, <1>9, <1>10, WorkBase

LEMMA TakeWalkBase == ASSUME Base, NEW s \in Slots, NEW a \in Accounts, TakeWalk(s, a) PROVE Base'
<1> DEFINE w == Work("walk", a, "load")
<1>1. w \in Slot
    <2>1. "walk" \in Tasks /\ "load" \in Steps
        BY DEF Tasks, Steps
    <2> QED BY <2>1, WorkTyped
<1>2. w.step = "load" /\ w.task = "walk" /\ w.of = a /\ w.access = None /\ w.refresh = None
    BY DEF Work
<1>3. Begin(s, w)
    BY DEF TakeWalk
<1> HIDE DEF w
<1>4. Fitting(w)
    BY <1>2 DEF Fitting, StepOf
<1>5. SlotOwns(grant, mistaken, w)
    BY <1>2, EmptyOwns
<1>6. SlotsFit' /\ Others(s) /\ SlotOwns(grant, mistaken, slot'[s]) /\ begun' \in 0..MaxTasks
    BY <1>1, <1>3, <1>4, <1>5, BeganBase
<1>7. UNCHANGED <<owned, clock, grant, cached, persisting, row, route, till, renewals, dead, revoked, disturbed, mistaken, crossed, withdrawn>>
    BY DEF TakeWalk, tokenVars, watchVars, historyVars
<1>8. Rest'
    BY <1>6, <1>7, RestIs DEF Rest
<1> QED BY <1>6, <1>7, <1>8, WorkBase

LEMMA LoadBase == ASSUME Base, NEW s \in Slots, Load(s) PROVE Base'
<1>1. ~At(s, "idle") /\ slot[s].task \in {"renew", "walk"}
    BY DEF Load, At
<1>2. UNCHANGED <<owned, clock, grant, cached, persisting, row, route, till, begun, revoked, disturbed, mistaken, crossed, withdrawn>>
    BY DEF Load, tokenVars, historyVars
<1>3. \/ slot[s].task = "renew" /\ Leave(s, "drop") /\ UNCHANGED <<renewals, dead>>
      \/ Dies(s)
      \/ Loaded(s, row[slot[s].of]) /\ UNCHANGED <<renewals, dead>>
    BY DEF Load, Loaded, Doing
<1>4. StepOf(slot[s].task, "call") /\ (slot[s].task = "renew" => StepOf(slot[s].task, "drop"))
    BY <1>1 DEF StepOf
<1>5. renewals \subseteq Accounts \X Times /\ dead \subseteq Accounts \X Times
    BY RestIs DEF Rest
<1>6. /\ SlotsFit' /\ Others(s) /\ SlotOwns(grant, mistaken, slot'[s])
      /\ renewals' \subseteq Accounts \X Times /\ dead' \subseteq Accounts \X Times
    BY <1>1, <1>3, <1>4, <1>5, LeaveBase, DiesBase, LoadedBase
<1>7. Rest'
    BY <1>2, <1>6, RestIs DEF Rest
<1> QED BY <1>2, <1>6, <1>7, WorkBase

LEMMA RenewWatchBase == ASSUME Base, NEW s \in Slots, NEW answer, NEW g, RenewWatch(s, answer, g) PROVE Base'
<1>1. ~At(s, "idle") /\ slot[s].task = "renew" /\ Keep(s, slot[s].of) /\ Provoked(answer)
    BY DEF RenewWatch, At, Doing
<1>2. StepOf(slot[s].task, "record") /\ StepOf(slot[s].task, "mark") /\ StepOf(slot[s].task, "unavailable")
    BY <1>1 DEF StepOf
<1>3. UNCHANGED <<owned, clock, grant, persisting, row, route, begun, revoked, mistaken, crossed, withdrawn>>
    BY DEF RenewWatch, historyVars
<1>4. cached' \in [Caches -> 0..MaxGrants] /\ CachesOwn(grant, mistaken, cached')
    BY <1>1, <1>3, KeepOf
<1>5. \/ Watch(s, g) /\ UNCHANGED <<renewals, dead>>
      \/ /\ UNCHANGED till
         /\ \/ Leave(s, "mark") /\ UNCHANGED <<renewals, dead>>
            \/ Leave(s, "unavailable") /\ UNCHANGED <<renewals, dead>>
            \/ Dies(s) \/ Retries(s)
    BY DEF RenewWatch
<1>6. Rest
    BY RestIs
<1>7. /\ SlotsFit' /\ Others(s) /\ SlotOwns(grant, mistaken, slot'[s]) /\ till' \in [Boxes -> Times]
      /\ renewals' \subseteq Accounts \X Times /\ dead' \subseteq Accounts \X Times
    <2>1. CASE Watch(s, g) /\ UNCHANGED <<renewals, dead>>
        BY <1>1, <1>2, <1>6, <2>1, WatchIs DEF Rest
    <2>2. CASE UNCHANGED till /\ (Leave(s, "mark") \/ Leave(s, "unavailable")) /\ UNCHANGED <<renewals, dead>>
        BY <1>1, <1>2, <1>6, <2>2, LeaveBase DEF Rest
    <2>3. CASE UNCHANGED till /\ (Dies(s) \/ Retries(s))
        BY <1>1, <1>6, <2>3, DiesBase, RetriesBase DEF Rest
    <2> QED BY <1>5, <2>1, <2>2, <2>3
<1>8. Rest'
    BY <1>1, <1>3, <1>6, <1>7, ProvokedIs DEF Rest
<1> QED BY <1>3, <1>4, <1>7, <1>8, WorkBase

LEMMA RecordRenewedBase == ASSUME Base, NEW s \in Slots, RecordRenewed(s) PROVE Base'
<1> DEFINE a == slot[s].of
           r == [row[a] EXCEPT !.status = "active", !.cursor = TRUE]
<1>1. ~At(s, "idle") /\ Finish(s)
    BY DEF RecordRenewed, At
<1>2. a \in Accounts /\ row[a] \in Row /\ slot[s].due \in Times
    BY <1>1, AtWork
<1>3. r \in Row /\ r.access = row[a].access /\ r.refresh = row[a].refresh
    BY <1>2 DEF Row
<1>4. row' = [row EXCEPT ![a] = r]
    BY <1>2 DEF RecordRenewed, Base, TypeOK
<1>5. Owns(grant, mistaken, a, row[a].access) /\ Owns(grant, mistaken, a, row[a].refresh)
    BY <1>2 DEF Base, Own, RowsOwn
<1>6. UNCHANGED <<owned, clock, grant, cached, persisting, till, renewals, dead, begun, revoked, disturbed, mistaken, crossed, withdrawn>>
    BY DEF RecordRenewed, tokenVars, historyVars
<1>7. route' \in [Boxes -> [to : Accounts \cup {NoAccount}, expires : Times]]
    BY <1>2, ExpiresTyped DEF RecordRenewed
<1> HIDE DEF a, r
<1>8. row' \in [Accounts -> Row] /\ RowsOwn(grant, mistaken, row')
    BY <1>2, <1>3, <1>4, <1>5, RowPut
<1>9. SlotsFit' /\ Others(s) /\ SlotOwns(grant, mistaken, slot'[s])
    BY <1>1, FinishBase
<1>10. Rest'
    BY <1>6, <1>7, RestIs DEF Rest
<1> QED BY <1>6, <1>8, <1>9, <1>10, WorkBase

LEMMA RecordUnavailableBase == ASSUME Base, NEW s \in Slots, RecordUnavailable(s) PROVE Base'
<1>1. ~At(s, "idle") /\ Finish(s)
    BY DEF RecordUnavailable, At
<1>2. UNCHANGED <<owned, clock, grant, cached, persisting, row, till, renewals, dead, begun, revoked, disturbed, mistaken, crossed, withdrawn>>
    BY DEF RecordUnavailable, tokenVars, historyVars
<1>3. route' \in [Boxes -> [to : Accounts \cup {NoAccount}, expires : Times]]
    BY <1>1, AtWork, ExpiresTyped, Instants DEF RecordUnavailable
<1>4. SlotsFit' /\ Others(s) /\ SlotOwns(grant, mistaken, slot'[s])
    BY <1>1, FinishBase
<1>5. Rest'
    BY <1>2, <1>3, RestIs DEF Rest
<1> QED BY <1>2, <1>4, <1>5, WorkBase

LEMMA MarkBase == ASSUME Base, NEW s \in Slots, MarkReauthRequired(s) PROVE Base'
<1> DEFINE a == slot[s].of
           r == [row[a] EXCEPT !.status = "reauth_required"]
<1>1. ~At(s, "idle")
    BY DEF MarkReauthRequired, At
<1>2. a \in Accounts /\ row[a] \in Row
    BY <1>1, AtWork
<1>3. r \in Row /\ r.access = row[a].access /\ r.refresh = row[a].refresh
    BY <1>2 DEF Row
<1>4. row' = [row EXCEPT ![a] = r]
    BY <1>2 DEF MarkReauthRequired, Base, TypeOK
<1>5. Owns(grant, mistaken, a, row[a].access) /\ Owns(grant, mistaken, a, row[a].refresh)
    BY <1>2 DEF Base, Own, RowsOwn
<1>6. UNCHANGED <<owned, clock, grant, cached, persisting, route, till, renewals, dead, begun, revoked, disturbed, mistaken, crossed, withdrawn>>
    BY DEF MarkReauthRequired, tokenVars, watchVars, historyVars
<1> HIDE DEF a, r
<1>7. row' \in [Accounts -> Row] /\ RowsOwn(grant, mistaken, row')
    BY <1>2, <1>3, <1>4, <1>5, RowPut
<1>8. (slot[s].task = "renew" /\ Leave(s, "drop")) \/ Finish(s)
    BY DEF MarkReauthRequired, Doing
<1>9. slot[s].task = "renew" => StepOf(slot[s].task, "drop")
    BY DEF StepOf
<1>10. SlotsFit' /\ Others(s) /\ SlotOwns(grant, mistaken, slot'[s])
    BY <1>1, <1>8, <1>9, FinishBase, LeaveBase
<1>11. Rest'
    BY <1>6, RestIs DEF Rest
<1> QED BY <1>6, <1>7, <1>10, <1>11, WorkBase

LEMMA FetchBase == ASSUME Base, NEW s \in Slots, NEW answer, NEW g, FetchChanges(s, answer, g) PROVE Base'
<1> DEFINE a == slot[s].of
           r == [row[a] EXCEPT !.cursor = TRUE]
<1>1. ~At(s, "idle") /\ slot[s].task = "walk" /\ Keep(s, slot[s].of) /\ Provoked(answer)
    BY DEF FetchChanges, At, Doing
<1>2. a \in Accounts /\ row[a] \in Row
    BY <1>1, AtWork
<1>3. r \in Row /\ r.access = row[a].access /\ r.refresh = row[a].refresh
    BY <1>2 DEF Row
<1>4. UNCHANGED row \/ row' = [row EXCEPT ![a] = r]
    BY <1>2 DEF FetchChanges, Base, TypeOK
<1>5. Owns(grant, mistaken, a, row[a].access) /\ Owns(grant, mistaken, a, row[a].refresh)
    BY <1>2 DEF Base, Own, RowsOwn
<1>6. UNCHANGED <<owned, clock, grant, persisting, route, till, renewals, dead, begun, revoked, mistaken, crossed, withdrawn>>
    BY DEF FetchChanges, watchVars, historyVars
<1>7. cached' \in [Caches -> 0..MaxGrants] /\ CachesOwn(grant, mistaken, cached')
    BY <1>1, <1>6, KeepOf
<1> HIDE DEF a, r
<1>8. UNCHANGED row \/ (row' \in [Accounts -> Row] /\ RowsOwn(grant, mistaken, row'))
    BY <1>2, <1>3, <1>4, <1>5, RowPut
<1>9. Leave(s, "mark") \/ Finish(s)
    BY DEF FetchChanges
<1>10. SlotsFit' /\ Others(s) /\ SlotOwns(grant, mistaken, slot'[s])
    <2>1. StepOf(slot[s].task, "mark")
        BY <1>1 DEF StepOf
    <2> QED BY <1>1, <1>9, <2>1, FinishBase, LeaveBase
<1>11. Rest'
    BY <1>1, <1>6, RestIs, ProvokedIs DEF Rest
<1> QED BY <1>6, <1>7, <1>8, <1>10, <1>11, WorkBase

LEMMA CrashBase == ASSUME Base, NEW s \in Slots, Crash(s) PROVE Base'
<1>1. ~At(s, "idle") /\ Retries(s)
    BY DEF Crash
<1>2. UNCHANGED <<owned, clock, grant, cached, persisting, row, route, till, begun, revoked, mistaken, withdrawn>>
    BY DEF Crash, tokenVars
<1>3. disturbed' \in 0..MaxDisturbed
    BY RestIs, MailboxDisturbances DEF Crash, Disturb, Rest
<1>4. crossed' \subseteq Boxes
    BY <1>1, AtWork, RestIs DEF Crash, Rest
<1>5. /\ SlotsFit' /\ Others(s) /\ SlotOwns(grant, mistaken, slot'[s])
      /\ renewals' \subseteq Accounts \X Times /\ dead' \subseteq Accounts \X Times
    BY <1>1, RetriesBase
<1>6. Rest'
    BY <1>2, <1>3, <1>4, <1>5, RestIs DEF Rest
<1> QED BY <1>2, <1>5, <1>6, WorkBase

LEMMA RecordFailsBase == ASSUME Base, NEW s \in Slots, RecordFails(s) PROVE Base'
<1>1. ~At(s, "idle") /\ (Doing(s, "link") \/ Doing(s, "renew"))
    BY DEF RecordFails, At
<1>2. UNCHANGED <<owned, clock, grant, cached, persisting, row, route, till, begun, revoked, mistaken, crossed, withdrawn>>
    BY DEF RecordFails, tokenVars, historyVars
<1>3. disturbed' \in 0..MaxDisturbed
    BY RestIs, MailboxDisturbances DEF RecordFails, Disturb, Rest
<1>4. /\ SlotsFit' /\ Others(s) /\ SlotOwns(grant, mistaken, slot'[s])
      /\ renewals' \subseteq Accounts \X Times /\ dead' \subseteq Accounts \X Times
    <2>1. CASE Doing(s, "link") /\ Leave(s, "excuse") /\ UNCHANGED <<renewals, dead>>
        <3>1. StepOf(slot[s].task, "excuse")
            BY <2>1 DEF Doing, StepOf
        <3> QED BY <1>1, <2>1, <3>1, LeaveBase, RestIs DEF Rest
    <2>2. CASE Finish(s) /\ UNCHANGED <<renewals, dead>>
        BY <2>2, FinishBase, RestIs DEF Rest
    <2>3. CASE Retries(s)
        BY <1>1, <2>3, RetriesBase
    <2> QED BY <2>1, <2>2, <2>3 DEF RecordFails
<1>5. Rest'
    BY <1>2, <1>3, <1>4, RestIs DEF Rest
<1> QED BY <1>2, <1>4, <1>5, WorkBase

LEMMA BaseNext == Base /\ [Next]_vars => Base'
<1> SUFFICES ASSUME Base, [Next]_vars PROVE Base'
    OBVIOUS
<1>1. CASE UNCHANGED vars
    BY <1>1 DEF vars, tokenVars, watchVars, historyVars, Base, TypeOK, SlotsFit, Own
<1>2. CASE \/ Tick \/ \E g \in Grants : Retire(g)
           \/ \E b \in Boxes : Revoke(b) \/ Sweep(b)
           \/ \E p \in persisting : PersistUnawaited(p)
    BY <1>2, TickBase, RetireBase, RevokeBase, SweepBase, PersistUnawaitedBase
<1>3. ASSUME NEW s \in Slots, Starting(s) PROVE Base'
    BY <1>3, CallbackBase, DisconnectBase, TakeWalkBase, TakeRenewalBase DEF Starting
<1>4. ASSUME NEW s \in Slots, Linking(s) PROVE Base'
    BY <1>4, VerifyBase, StoreBase, RouteBase, LoadForWatchBase, RecordWatchBase, FallBackBase DEF Linking
<1>5. ASSUME NEW s \in Slots, Calling(s) PROVE Base'
    BY <1>5, RefreshGoogleBase, RefreshMicrosoftBase, PersistRefreshedBase, StartWatchingBase, RenewWatchBase, FetchBase
       DEF Calling
<1>6. ASSUME NEW s \in Slots,
             \/ StopWatch(s) \/ Wipe(s) \/ DropRoute(s) \/ Load(s) \/ RecordRenewed(s)
             \/ RecordFails(s) \/ RecordUnavailable(s) \/ MarkReauthRequired(s) \/ Crash(s)
      PROVE  Base'
    BY <1>6, StopWatchBase, WipeBase, DropRouteBase, LoadBase, RecordRenewedBase, RecordFailsBase, RecordUnavailableBase,
       MarkBase, CrashBase
<1> QED BY <1>1, <1>2, <1>3, <1>4, <1>5, <1>6 DEF Next

\* Every variable of Mailboxes keeps its type: what is queued is about an account, and what is
\* identified is one.
THEOREM TypesHold == Spec => []TypeOK
<1>1. Base => TypeOK
    BY DEF Base
<1> QED BY <1>1, BaseInit, BaseNext, PTL DEF Spec

\* For any users, boxes, consents and requests in flight, with every refresh whose write nobody awaits:
\* the tokens stored with a mailbox open it, but for those of Outlook's that were verified with another
\* consent's token (GraphProvider.accessToken, persistRefreshedToken).
THEOREM TokensOpenTheirMailbox == Spec => []OwnMailbox
<1>1. Base => OwnMailbox
    <2> SUFFICES ASSUME Base, NEW a \in Accounts, ~(Box(a) \notin Gmail /\ a \in mistaken),
                        NEW g \in {row[a].access, row[a].refresh} \ {None}
                 PROVE  grant[g].opens = Box(a)
        BY DEF OwnMailbox
    <2>1. Owns(grant, mistaken, a, g)
        BY DEF Base, Own, RowsOwn
    <2> QED BY <2>1 DEF Owns
<1> QED BY <1>1, BaseInit, BaseNext, PTL DEF Spec

-----------------------------------------------------------------------------
(***************************************************************************)
(* What is stored with a mailbox, what is under way for it, and who is to  *)
(* blame when it is given up.                                              *)
(***************************************************************************)
Present(a) == row[a].status # "none" /\ ~row[a].gone

\* A token that is refused opens a box access to which was withdrawn.
Withdrawn == \A g \in Grants : grant[g].state \in {"retired", "revoked"} => grant[g].opens \in withdrawn

\* A handler that works on a row there is.
Settling(w) ==
    \/ w.task = "disconnect"
    \/ w.step \in {"route", "call", "persist", "record", "excuse", "mark", "unavailable"}
    \/ w.task = "link" /\ w.step = "load"
Known ==
    /\ \A a \in Accounts : row[a].status = "disconnected" => row[a].gone
    /\ \A s \in Slots : Settling(slot[s]) => row[slot[s].of].status # "none"
    /\ \A p \in persisting : row[p[1]].status # "none"

\* Whoever uses a token of a mailbox that was connected across no other work uses the one stored with it.
SameToken(a) ==
    Present(a) /\ Box(a) \notin crossed =>
        /\ row[a].access = row[a].refresh /\ row[a].refresh # None
        /\ \A s \in Slots : slot[s].of = a /\ slot[s].step \in {"call", "persist"}
                                => slot[s].access = row[a].refresh /\ slot[s].refresh = row[a].refresh
        /\ \A p \in persisting : p[1] = a => p[2] = row[a].refresh

\* A handler that changes the route or the watch of its mailbox for its user.
Holds(w) == w.task = "disconnect" \/ (w.task = "link" /\ w.step \notin {"verify", "store"})
Alone(a, c) ==
    a # c /\ Box(a) = Box(c) /\ Box(a) \notin crossed /\ Present(a) =>
        ~Present(c) /\ \A s \in Slots : slot[s].of = c => ~Holds(slot[s])

\* A mailbox that may be given up.
Blamed(a) ==
    \/ row[a].gone \/ Box(a) \in crossed
    \/ /\ Box(a) \in withdrawn \/ a \in mistaken
       /\ Box(a) \in Gmail => row[a].refresh # None /\ grant[row[a].refresh].state = "revoked"
Refused ==
    /\ \A a \in Accounts : row[a].status = "reauth_required" => Blamed(a)
    /\ \A s \in Slots, a \in Accounts : slot[s].of = a /\ slot[s].step = "mark" => Blamed(a)
    /\ \A s \in Slots, a \in Accounts : slot[s].of = a /\ slot[s].step = "drop" => Blamed(a) \/ row[a].status = "none"

Standing ==
    /\ Withdrawn /\ Known /\ Refused
    /\ \A a \in Accounts : SameToken(a) /\ \A c \in Accounts : Alone(a, c)

LEMMA StandingInit == Init => Standing
<1> SUFFICES ASSUME Init PROVE Standing
    OBVIOUS
<1>1. \A a \in Accounts : row[a].status = "none" /\ ~Present(a)
    BY DEF Init, NoRow, Present
<1>2. \A s \in Slots : slot[s].step = "idle" /\ slot[s].task = "none"
    BY IdleIs DEF Init
<1>3. Withdrawn /\ persisting = {}
    BY DEF Init, Withdrawn
<1>4. Known
    BY <1>1, <1>2, <1>3 DEF Known, Settling
<1>5. Refused
    BY <1>1, <1>2 DEF Refused
<1> QED BY <1>1, <1>3, <1>4, <1>5 DEF Standing, SameToken, Alone

\* A slot that a step leaves as it is, but for the hour of its token.
Alike(r) ==
    /\ slot'[r].step = slot[r].step /\ slot'[r].task = slot[r].task /\ slot'[r].of = slot[r].of
    /\ slot'[r].access = slot[r].access /\ slot'[r].refresh = slot[r].refresh /\ slot'[r].due = slot[r].due

LEMMA OthersAlike == ASSUME NEW s \in Slots, Others(s) PROVE \A r \in Slots : r = s \/ Alike(r)
BY DEF Others, Alike

\* No row comes, and no refresh token changes but with a row that goes.
Steady ==
    /\ \A a \in Accounts :
          /\ row[a].status # "none" => row'[a].status # "none"
          /\ row'[a].status = "disconnected" => row'[a].gone
          /\ \/ row'[a].gone
             \/ /\ ~row[a].gone /\ row'[a].refresh = row[a].refresh
                /\ row'[a].status = "none" <=> row[a].status = "none"
    /\ crossed \subseteq crossed' /\ withdrawn \subseteq withdrawn' /\ mistaken \subseteq mistaken'

LEMMA SteadyPresent ==
    ASSUME Steady, NEW a \in Accounts
    PROVE  Present(a)' => Present(a) /\ row'[a].refresh = row[a].refresh
BY DEF Steady, Present

LEMMA KnownNext ==
    ASSUME Known, Steady, Base,
           \A p \in persisting' : p \in persisting \/ (p[1] \in Accounts /\ row[p[1]].status # "none"),
           \A r \in Slots : \/ Alike(r)
                            \/ Settling(slot'[r]) => slot'[r].of \in Accounts /\ row[slot'[r].of].status # "none"
    PROVE  Known'
<1>1. \A a \in Accounts : row'[a].status = "disconnected" => row'[a].gone
    BY DEF Steady, Known
<1>2. \A p \in persisting' : row'[p[1]].status # "none"
    <2>1. \A p \in persisting : p[1] \in Accounts
        BY DEF Base, TypeOK
    <2> QED BY <2>1 DEF Steady, Known
<1>3. \A r \in Slots : Settling(slot'[r]) => slot'[r].of \in Accounts /\ row[slot'[r].of].status # "none"
    <2> SUFFICES ASSUME NEW r \in Slots, Alike(r), Settling(slot'[r])
                 PROVE  slot'[r].of \in Accounts /\ row[slot'[r].of].status # "none"
        OBVIOUS
    <2>1. Settling(slot[r]) /\ slot'[r].of = slot[r].of
        BY DEF Alike, Settling
    <2>2. slot[r].step # "idle"
        BY <2>1, IdleIs, Busy DEF Settling, Base, SlotsFit
    <2> QED BY <2>1, <2>2, AtWork DEF Known, At
<1>4. \A r \in Slots : Settling(slot'[r]) => row'[slot'[r].of].status # "none"
    BY <1>3 DEF Steady
<1> QED BY <1>1, <1>2, <1>4 DEF Known, Settling

LEMMA SameNext ==
    ASSUME NEW a \in Accounts, SameToken(a), Steady,
           Present(a) /\ ~row'[a].gone /\ Box(a) \notin crossed =>
               /\ row'[a].access = row[a].access \/ row'[a].access = row[a].refresh
               /\ \A p \in persisting' : p[1] = a => p \in persisting \/ p[2] = row[a].refresh
               /\ \A r \in Slots : \/ Alike(r)
                                   \/ slot'[r].of = a /\ slot'[r].step \in {"call", "persist"} =>
                                        slot'[r].access = row[a].refresh /\ slot'[r].refresh = row[a].refresh
    PROVE  SameToken(a)'
<1> SUFFICES ASSUME Present(a)', Box(a) \notin crossed'
             PROVE  /\ row'[a].access = row'[a].refresh /\ row'[a].refresh # None
                    /\ \A s \in Slots : slot'[s].of = a /\ slot'[s].step \in {"call", "persist"}
                                => slot'[s].access = row'[a].refresh /\ slot'[s].refresh = row'[a].refresh
                    /\ \A p \in persisting' : p[1] = a => p[2] = row'[a].refresh
    BY DEF SameToken
<1>1. Present(a) /\ ~row'[a].gone /\ Box(a) \notin crossed /\ row'[a].refresh = row[a].refresh
    BY SteadyPresent DEF Steady, Present
<1>2. /\ row[a].access = row[a].refresh /\ row[a].refresh # None
      /\ \A s \in Slots : slot[s].of = a /\ slot[s].step \in {"call", "persist"}
                                => slot[s].access = row[a].refresh /\ slot[s].refresh = row[a].refresh
      /\ \A p \in persisting : p[1] = a => p[2] = row[a].refresh
    BY <1>1 DEF SameToken
<1>3. \A s \in Slots : slot'[s].of = a /\ slot'[s].step \in {"call", "persist"}
                                => slot'[s].access = row[a].refresh /\ slot'[s].refresh = row[a].refresh
    BY <1>1, <1>2 DEF Alike
<1> QED BY <1>1, <1>2, <1>3

LEMMA AloneNext ==
    ASSUME NEW a \in Accounts, NEW c \in Accounts, Alone(a, c), Steady,
           \A r \in Slots : \/ Alike(r)
                            \/ Holds(slot'[r]) => \/ Holds(slot[r]) /\ slot'[r].of = slot[r].of
                                                  \/ slot'[r].of = c => Present(c)
    PROVE  Alone(a, c)'
<1> SUFFICES ASSUME a # c, Box(a) = Box(c), Box(a) \notin crossed', Present(a)'
             PROVE  ~Present(c)' /\ \A s \in Slots : slot'[s].of = c => ~Holds(slot'[s])
    BY DEF Alone, Holds
<1>1. Present(a) /\ Box(a) \notin crossed /\ (Present(c)' => Present(c))
    BY SteadyPresent DEF Steady
<1>2. ~Present(c) /\ \A s \in Slots : slot[s].of = c => ~Holds(slot[s])
    BY <1>1 DEF Alone
<1>3. \A r \in Slots : Alike(r) => (Holds(slot'[r]) <=> Holds(slot[r])) /\ slot'[r].of = slot[r].of
    BY DEF Alike, Holds
<1> QED BY <1>1, <1>2, <1>3

\* Who is revoked stays so.
Remembered == \A g \in Grants : grant[g].state = "revoked" => grant'[g].state = "revoked"

LEMMA BlamedStays == ASSUME Steady, Remembered, Base, NEW a \in Accounts, Blamed(a) PROVE Blamed(a)'
<1>1. row[a].refresh # None => row[a].refresh \in Grants
    BY Instants DEF Base, TypeOK, Row
<1> QED BY <1>1 DEF Blamed, Steady, Remembered

LEMMA RefusedNext ==
    ASSUME Refused, Steady, Remembered, Base,
           \A a \in Accounts : row'[a].status = "reauth_required" => row[a].status = "reauth_required" \/ Blamed(a),
           \A r \in Slots : \/ Alike(r)
                            \/ /\ slot'[r].step = "mark" => slot'[r].of \in Accounts /\ Blamed(slot'[r].of)
                               /\ slot'[r].step = "drop" =>
                                      /\ slot'[r].of \in Accounts
                                      /\ Blamed(slot'[r].of) \/ row[slot'[r].of].status = "none" \/ row'[slot'[r].of].gone
    PROVE  Refused'
<1>1. \A a \in Accounts : row'[a].status = "reauth_required" => Blamed(a)'
    BY BlamedStays DEF Refused
<1>2. ASSUME NEW s \in Slots, NEW a \in Accounts, slot'[s].of = a, slot'[s].step = "mark" PROVE Blamed(a)'
    BY <1>2, BlamedStays DEF Refused, Alike
<1>3. ASSUME NEW s \in Slots, NEW a \in Accounts, slot'[s].of = a, slot'[s].step = "drop"
      PROVE  Blamed(a)' \/ row'[a].status = "none"
    <2>1. row'[a].gone => Blamed(a)'
        BY DEF Blamed
    <2>2. Blamed(a) \/ row[a].status = "none" \/ row'[a].gone
        BY <1>3 DEF Refused, Alike
    <2>3. row[a].status = "none" => row'[a].gone \/ row'[a].status = "none"
        BY DEF Steady
    <2> QED BY <2>1, <2>2, <2>3, BlamedStays
<1> QED BY <1>1, <1>2, <1>3 DEF Refused

-----------------------------------------------------------------------------
(***************************************************************************)
(* The steps that write no row, or nothing of it that counts.              *)
(***************************************************************************)
\* The rows are as they were, but for hours and positions.
RowsAs ==
    /\ \A a \in Accounts : /\ row'[a].gone = row[a].gone /\ row'[a].refresh = row[a].refresh
                           /\ row'[a].status = row[a].status /\ row'[a].access = row[a].access
    /\ crossed \subseteq crossed' /\ withdrawn \subseteq withdrawn' /\ mistaken \subseteq mistaken'

\* What a step may leave a slot with.
Fair(w) ==
    /\ Settling(w) => w.of \in Accounts /\ row[w.of].status # "none"
    /\ w.step \in {"call", "persist"} =>
           /\ w.of \in Accounts
           /\ Present(w.of) /\ Box(w.of) \notin crossed => w.access = row[w.of].refresh /\ w.refresh = row[w.of].refresh
    /\ w.step = "mark" => w.of \in Accounts /\ Blamed(w.of)
    /\ w.step = "drop" => w.of \in Accounts /\ (Blamed(w.of) \/ row[w.of].status = "none" \/ row'[w.of].gone)

\* Who takes hold of a mailbox finds it connected.
Taken(v, w) == Holds(w) => (Holds(v) /\ w.of = v.of) \/ (w.of \in Accounts /\ Present(w.of))

\* The rows go on, and what is written into one is its own.
RowsKept ==
    /\ Steady
    /\ \A a \in Accounts :
          /\ row'[a].status = "reauth_required" => row[a].status = "reauth_required" \/ Blamed(a)
          /\ Present(a) /\ ~row'[a].gone /\ Box(a) \notin crossed => row'[a].access \in {row[a].access, row[a].refresh}

LEMMA StandingKept ==
    ASSUME Base, Standing, RowsKept, Withdrawn', Remembered,
           \A p \in persisting' :
               \/ p \in persisting
               \/ /\ p[1] \in Accounts /\ row[p[1]].status # "none"
                  /\ Present(p[1]) /\ Box(p[1]) \notin crossed => p[2] = row[p[1]].refresh,
           \A r \in Slots : Alike(r) \/ (Fair(slot'[r]) /\ Taken(slot[r], slot'[r]))
    PROVE  Standing'
<1>1. Steady
    BY DEF RowsKept
<1>2. Known'
    BY <1>1, KnownNext DEF Standing, Fair
<1>3. Refused'
    BY <1>1, RefusedNext DEF Standing, Fair, RowsKept
<1>4. ASSUME NEW a \in Accounts PROVE SameToken(a)'
    BY <1>1, SameNext DEF Standing, Fair, RowsKept
<1>5. ASSUME NEW a \in Accounts, NEW c \in Accounts PROVE Alone(a, c)'
    BY <1>1, AloneNext DEF Standing, Taken
<1> QED BY <1>2, <1>3, <1>4, <1>5 DEF Standing

LEMMA RowsAsKept == ASSUME Standing, RowsAs PROVE RowsKept
BY DEF Standing, Known, RowsAs, RowsKept, Steady

LEMMA StandingNext ==
    ASSUME Base, Standing, RowsAs, Withdrawn', Remembered,
           \A p \in persisting' :
               \/ p \in persisting
               \/ /\ p[1] \in Accounts /\ row[p[1]].status # "none"
                  /\ Present(p[1]) /\ Box(p[1]) \notin crossed => p[2] = row[p[1]].refresh,
           \A r \in Slots : Alike(r) \/ (Fair(slot'[r]) /\ Taken(slot[r], slot'[r]))
    PROVE  Standing'
BY RowsAsKept, StandingKept

\* The grants are as they were.
LEMMA GrantStays ==
    ASSUME Standing, UNCHANGED <<grant, withdrawn>>
    PROVE  Withdrawn' /\ Remembered
BY DEF Standing, Withdrawn, Remembered

LEMMA Nothing ==
    ASSUME NEW v, NEW w, w = Idle \/ (w.task = "walk" /\ w.step = "load") \/ (w.task = "renew" /\ w.step = "load")
                         \/ (w.task = "link" /\ w.step \in {"verify", "store"})
    PROVE  Fair(w) /\ Taken(v, w)
BY IdleIs DEF Fair, Taken, Settling, Holds

LEMMA GlobalStanding ==
    ASSUME Base, Standing,
           \/ Tick \/ \E b \in Boxes : Revoke(b) \/ Sweep(b)
           \/ \E g \in Grants : Retire(g)
    PROVE  Standing'
<1>1. TypeOK /\ SlotsFit
    BY DEF Base
<1>2. CASE Tick
    <2>1. UNCHANGED <<grant, persisting, mistaken, crossed, withdrawn>>
        BY <1>2 DEF Tick, historyVars
    <2>2. RowsAs
        BY <1>1, <1>2, <2>1 DEF Tick, TypeOK, Row, RowsAs
    <2>3. \A r \in Slots : Alike(r)
        BY <1>1, <1>2 DEF Tick, TypeOK, Slot, Alike
    <2> QED BY <2>1, <2>2, <2>3, GrantStays, StandingNext
<1>3. ASSUME NEW b \in Boxes, Sweep(b) PROVE Standing'
    <2>1. UNCHANGED <<grant, persisting, mistaken, crossed, withdrawn, row, slot>>
        BY <1>3 DEF Sweep, historyVars, tokenVars
    <2>2. RowsAs /\ \A r \in Slots : Alike(r)
        BY <2>1 DEF RowsAs, Alike
    <2> QED BY <2>1, <2>2, GrantStays, StandingNext
<1>4. ASSUME NEW b \in Boxes, Revoke(b) PROVE Standing'
    <2>1. UNCHANGED <<persisting, mistaken, crossed, row, slot>> /\ withdrawn' = withdrawn \cup {b}
        BY <1>4 DEF Revoke
    <2>2. RowsAs /\ \A r \in Slots : Alike(r)
        BY <2>1 DEF RowsAs, Alike
    <2>3. \A g \in Grants : grant'[g] = IF grant[g].opens = b THEN [grant[g] EXCEPT !.state = "revoked"] ELSE grant[g]
        BY <1>4 DEF Revoke
    <2>4. \A g \in Grants : grant[g].opens = b => grant'[g].opens = b /\ grant'[g].state = "revoked"
        <3>1. \A g \in Grants : grant[g].opens = b => grant[g] \in [opens : Boxes, state : {"good", "rotated", "retired", "revoked"}]
            BY <1>1, MailboxesAssumption DEF TypeOK
        <3> QED BY <2>3, <3>1
    <2>5. Remembered
        BY <2>3, <2>4 DEF Remembered
    <2>6. Withdrawn'
        BY <2>1, <2>3, <2>4 DEF Standing, Withdrawn
    <2> QED BY <2>1, <2>2, <2>5, <2>6, StandingNext
<1>5. ASSUME NEW g \in Grants, Retire(g) PROVE Standing'
    <2>1. UNCHANGED <<persisting, mistaken, crossed, row, slot>> /\ withdrawn' = withdrawn \cup {grant[g].opens}
        BY <1>5 DEF Retire
    <2>2. RowsAs /\ \A r \in Slots : Alike(r)
        BY <2>1 DEF RowsAs, Alike
    <2>3. grant[g] \in [opens : Boxes, state : {"good", "rotated", "retired", "revoked"}] /\ grant[g].state = "rotated"
        BY <1>1, <1>5 DEF TypeOK, Retire
    <2>4. \A h \in Grants : \/ grant'[h] = grant[h]
                            \/ h = g /\ grant'[h].opens = grant[g].opens /\ grant'[h].state = "retired"
        BY <1>1, <1>5, <2>3 DEF Retire, TypeOK
    <2>5. Remembered
        BY <2>3, <2>4 DEF Remembered
    <2>6. Withdrawn'
        BY <2>1, <2>4 DEF Standing, Withdrawn
    <2> QED BY <2>1, <2>2, <2>5, <2>6, StandingNext
<1> QED BY <1>2, <1>3, <1>4, <1>5

\* A handler that goes on with a row that is known, and with the token that is stored.
LEMMA Onward ==
    ASSUME Base, Standing, NEW s \in Slots, ~At(s, "idle"), Settling(slot[s])
    PROVE  slot[s].of \in Accounts /\ row[slot[s].of].status # "none"
BY AtWork DEF Standing, Known

LEMMA InHandIs ==
    ASSUME Base, Standing, NEW s \in Slots, slot[s].step \in {"call", "persist"}
    PROVE  /\ ~At(s, "idle") /\ slot[s].of \in Accounts /\ row[slot[s].of].status # "none"
           /\ Present(slot[s].of) /\ Box(slot[s].of) \notin crossed =>
                  /\ slot[s].access = row[slot[s].of].refresh /\ slot[s].refresh = row[slot[s].of].refresh
                  /\ slot[s].refresh # None
<1>1. ~At(s, "idle") /\ Settling(slot[s])
    BY DEF At, Settling
<1>2. slot[s].of \in Accounts /\ row[slot[s].of].status # "none"
    BY <1>1, Onward
<1>3. SameToken(slot[s].of)
    <2>1. \A a \in Accounts : SameToken(a)
        BY DEF Standing
    <2> QED BY <1>2, <2>1
<1> QED BY <1>1, <1>2, <1>3 DEF SameToken

LEMMA MoveStanding ==
    ASSUME Base, Standing, RowsAs, Withdrawn', Remembered, UNCHANGED persisting,
           NEW s \in Slots, Others(s), Fair(slot'[s]), Taken(slot[s], slot'[s])
    PROVE  Standing'
<1>1. \A r \in Slots : Alike(r) \/ (Fair(slot'[r]) /\ Taken(slot[r], slot'[r]))
    BY OthersAlike
<1> QED BY <1>1, StandingNext

\* A handler goes on holding what it held.
LEMMA StillTaken ==
    ASSUME NEW v, NEW w, w.of = v.of, w.task = v.task, v.step \in {"verify", "store"} => w.step \in {"verify", "store"}
    PROVE  Taken(v, w)
BY DEF Taken, Holds

LEMMA RefreshGoogleStanding ==
    ASSUME Base, Standing, NEW s \in Slots, RefreshGoogleToken(s) PROVE Standing'
<1>1. UNCHANGED <<grant, row, mistaken, crossed, withdrawn>>
    BY DEF RefreshGoogleToken, historyVars
<1>2. slot[s].step = "call" /\ Refreshed(s, "call") /\ persisting' \subseteq persisting \cup {<<slot[s].of, slot[s].refresh>>}
    BY DEF RefreshGoogleToken, CanRefresh, At
<1>3. ~At(s, "idle") /\ StepOf(slot[s].task, "call") /\ "call" \notin {"verify", "store"}
    BY <1>2, AtWork DEF At
<1>4. /\ slot[s].of \in Accounts /\ row[slot[s].of].status # "none"
      /\ Present(slot[s].of) /\ Box(slot[s].of) \notin crossed => slot[s].refresh = row[slot[s].of].refresh
    BY <1>2, InHandIs
<1>5. /\ Others(s) /\ slot'[s].step = "call" /\ slot'[s].task = slot[s].task /\ slot'[s].of = slot[s].of
      /\ slot'[s].access = slot[s].refresh /\ slot'[s].refresh = slot[s].refresh
    BY <1>2, <1>3, RefreshedIs DEF Base
<1>6. Fair(slot'[s]) /\ Taken(slot[s], slot'[s])
    BY <1>2, <1>4, <1>5, StillTaken DEF Fair
<1>7. \A r \in Slots : Alike(r) \/ (Fair(slot'[r]) /\ Taken(slot[r], slot'[r]))
    BY <1>5, <1>6, OthersAlike
<1>8. RowsAs
    BY <1>1 DEF RowsAs
<1>9. \A p \in persisting' :
          \/ p \in persisting
          \/ /\ p[1] \in Accounts /\ row[p[1]].status # "none"
             /\ Present(p[1]) /\ Box(p[1]) \notin crossed => p[2] = row[p[1]].refresh
    BY <1>2, <1>4
<1> QED BY <1>1, <1>7, <1>8, <1>9, GrantStays, StandingNext

LEMMA RefreshMicrosoftStanding ==
    ASSUME Base, Standing, NEW s \in Slots, RefreshMicrosoftToken(s) PROVE Standing'
<1> DEFINE step == IF Process(s) = "worker" THEN "persist" ELSE "call"
           g == slot[s].refresh
<1>1. UNCHANGED <<persisting, row, mistaken, crossed, withdrawn>>
    BY DEF RefreshMicrosoftToken, historyVars
<1>2. slot[s].step = "call" /\ Refreshed(s, step) /\ step \in {"call", "persist"}
    BY DEF RefreshMicrosoftToken, CanRefresh, At
<1>3. ~At(s, "idle") /\ StepOf(slot[s].task, step)
    BY <1>2, AtWork DEF At, StepOf, Process
<1> HIDE DEF step
<1>4. /\ slot[s].of \in Accounts /\ row[slot[s].of].status # "none"
      /\ Present(slot[s].of) /\ Box(slot[s].of) \notin crossed => slot[s].refresh = row[slot[s].of].refresh
    BY <1>2, InHandIs
<1>5. /\ Others(s) /\ slot'[s].step = step /\ slot'[s].task = slot[s].task /\ slot'[s].of = slot[s].of
      /\ slot'[s].access = slot[s].refresh /\ slot'[s].refresh = slot[s].refresh
    BY <1>2, <1>3, RefreshedIs DEF Base
<1>6. Fair(slot'[s]) /\ Taken(slot[s], slot'[s])
    BY <1>2, <1>4, <1>5, StillTaken DEF Fair
<1>7. RowsAs
    BY <1>1 DEF RowsAs
<1>8. g \in Grants /\ grant[g].state \in {"good", "rotated"} /\ grant' = [grant EXCEPT ![g].state = "rotated"]
    BY <1>3, AtWork, Instants DEF RefreshMicrosoftToken, CanRefresh
<1>9. \A h \in Grants : grant'[h] = grant[h] \/ (h = g /\ grant'[h].state = "rotated")
    <2>1. grant[g] \in [opens : Boxes, state : {"good", "rotated", "retired", "revoked"}]
        BY <1>8 DEF Base, TypeOK
    <2> QED BY <1>8, <2>1 DEF Base, TypeOK
<1>10. Withdrawn' /\ Remembered
    BY <1>1, <1>8, <1>9 DEF Standing, Withdrawn, Remembered
<1> QED BY <1>1, <1>5, <1>6, <1>7, <1>10, MoveStanding

LEMMA CallbackStanding ==
    ASSUME Base, Standing, NEW s \in Slots, NEW a \in Accounts, NEW g \in Grants, Callback(s, a, g) PROVE Standing'
<1> DEFINE v == Work("link", a, "verify")
           w == [v EXCEPT !.access = g, !.refresh = g, !.fresh = TRUE]
<1>1. UNCHANGED <<persisting, row, mistaken, crossed, withdrawn>>
    BY DEF Callback, historyVars
<1>2. grant[g].state = "none" /\ grant' = [grant EXCEPT ![g] = [opens |-> Box(a), state |-> "good"]]
    BY DEF Callback, ExchangeCode, Granted
<1>3. \A h \in Grants : grant'[h] = grant[h] \/ (h = g /\ grant'[h].state = "good")
    BY <1>2 DEF Base, TypeOK
<1>4. Withdrawn' /\ Remembered
    BY <1>1, <1>2, <1>3 DEF Standing, Withdrawn, Remembered
<1>5. v \in Slot /\ v.task = "link" /\ v.step = "verify"
    <2>1. "link" \in Tasks /\ "verify" \in Steps
        BY DEF Tasks, Steps
    <2> QED BY <2>1, WorkTyped DEF Work
<1>6. slot' = [slot EXCEPT ![s] = w]
    BY DEF Callback, Begin
<1> HIDE DEF v
<1>7. w.task = "link" /\ w.step = "verify"
    BY <1>5 DEF Slot
<1> HIDE DEF w
<1>8. Others(s) /\ slot'[s] = w
    BY <1>6 DEF Base, SlotsFit, Others
<1>9. Fair(slot'[s]) /\ Taken(slot[s], slot'[s])
    BY <1>7, <1>8, Nothing
<1>10. RowsAs
    BY <1>1 DEF RowsAs
<1> QED BY <1>1, <1>4, <1>8, <1>9, <1>10, MoveStanding

LEMMA VerifyStanding ==
    ASSUME Base, Standing, NEW s \in Slots, NEW answer, VerifyAccess(s, answer) PROVE Standing'
<1> DEFINE found == Identified(s, AccessToken(s, Pending))
<1>1. UNCHANGED <<grant, persisting, row, crossed, withdrawn>> /\ mistaken \subseteq mistaken'
    BY DEF VerifyAccess
<1>2. slot[s] \in Slot /\ slot[s].step = "verify" /\ slot[s].task = "link"
    <2>1. slot[s].step = "verify" /\ ~At(s, "idle")
        BY DEF VerifyAccess, At
    <2> QED BY <2>1, AtWork DEF StepOf
<1>3. slot' = [slot EXCEPT ![s].of = found, ![s].step = "store"] \/ Finish(s)
    BY DEF VerifyAccess
<1> HIDE DEF found
<1>4. Others(s) /\ (slot'[s] = Idle \/ (slot'[s].task = "link" /\ slot'[s].step = "store"))
    BY <1>2, <1>3 DEF Base, SlotsFit, Slot, Others, Finish
<1>5. Fair(slot'[s]) /\ Taken(slot[s], slot'[s])
    BY <1>4, Nothing
<1>6. RowsAs
    BY <1>1 DEF RowsAs
<1> QED BY <1>1, <1>4, <1>5, <1>6, GrantStays, MoveStanding

\* What only moves a handler.
LEMMA OnlyMoves ==
    ASSUME Base, Standing, NEW s \in Slots, UNCHANGED <<grant, persisting, row, mistaken, withdrawn>>,
           crossed \subseteq crossed', Others(s), Fair(slot'[s]), Taken(slot[s], slot'[s])
    PROVE  Standing'
<1>1. RowsAs
    BY DEF RowsAs
<1> QED BY <1>1, GrantStays, MoveStanding

\* A handler that works on with a row, and asks for nothing.
LEMMA LeaveFair ==
    ASSUME Base, Standing, NEW s \in Slots, Settling(slot[s]), NEW step, StepOf(slot[s].task, step), Leave(s, step),
           step \notin {"verify", "store", "call", "persist", "mark", "drop"},
           slot[s].step \notin {"verify", "store"}
    PROVE  Others(s) /\ Fair(slot'[s]) /\ Taken(slot[s], slot'[s])
<1>1. ~At(s, "idle")
    BY IdleIs, Busy DEF Settling, Base, SlotsFit, At
<1>2. slot[s].of \in Accounts /\ row[slot[s].of].status # "none"
    BY <1>1, Onward
<1>3. Others(s) /\ slot'[s].step = step /\ slot'[s].task = slot[s].task /\ slot'[s].of = slot[s].of
    BY <1>1, LeaveIs DEF Base
<1>4. Taken(slot[s], slot'[s])
    BY <1>3, StillTaken
<1> QED BY <1>2, <1>3, <1>4 DEF Fair

LEMMA FinishFair ==
    ASSUME Base, NEW s \in Slots, Finish(s)
    PROVE  Others(s) /\ Fair(slot'[s]) /\ Taken(slot[s], slot'[s])
<1>1. Others(s) /\ slot'[s] = Idle
    BY FinishIs DEF Base
<1> QED BY <1>1, Nothing

LEMMA LoadedFair ==
    ASSUME Base, Standing, NEW s \in Slots, At(s, "load"), StepOf(slot[s].task, "call"), Loaded(s, row[slot[s].of]),
           row[slot[s].of].status # "none"
    PROVE  Others(s) /\ Fair(slot'[s]) /\ Taken(slot[s], slot'[s])
<1>1. ~At(s, "idle") /\ slot[s].step = "load"
    BY DEF At
<1>2. slot[s].of \in Accounts /\ row[slot[s].of] \in Row
    BY <1>1, AtWork
<1>3. /\ Others(s) /\ slot'[s].step = "call" /\ slot'[s].task = slot[s].task /\ slot'[s].of = slot[s].of
      /\ slot'[s].access = row[slot[s].of].access /\ slot'[s].refresh = row[slot[s].of].refresh
    BY <1>1, <1>2, LoadedIs DEF Base
<1>4. Taken(slot[s], slot'[s])
    BY <1>1, <1>3, StillTaken
<1>5. SameToken(slot[s].of)
    <2>1. \A a \in Accounts : SameToken(a)
        BY DEF Standing
    <2> QED BY <1>2, <2>1
<1>6. Present(slot[s].of) /\ Box(slot[s].of) \notin crossed => row[slot[s].of].access = row[slot[s].of].refresh
    BY <1>5 DEF SameToken
<1> QED BY <1>2, <1>3, <1>4, <1>6 DEF Fair

LEMMA RouteStanding == ASSUME Base, Standing, NEW s \in Slots, Route(s) PROVE Standing'
<1>1. slot[s].step = "route" /\ Leave(s, "load") /\ UNCHANGED <<grant, persisting, row, mistaken, withdrawn, crossed>>
    BY DEF Route, At, tokenVars, historyVars
<1>2. ~At(s, "idle")
    BY <1>1 DEF At
<1>3. Settling(slot[s]) /\ StepOf(slot[s].task, "load")
    BY <1>1, <1>2, AtWork DEF Settling, StepOf
<1>4. Others(s) /\ Fair(slot'[s]) /\ Taken(slot[s], slot'[s])
    BY <1>1, <1>3, LeaveFair
<1> QED BY <1>1, <1>4, OnlyMoves

LEMMA LoadForWatchStanding == ASSUME Base, Standing, NEW s \in Slots, LoadForWatch(s) PROVE Standing'
<1>1. At(s, "load") /\ slot[s].task = "link" /\ UNCHANGED <<grant, persisting, row, mistaken, withdrawn, crossed>>
    BY DEF LoadForWatch, Doing, tokenVars, historyVars
<1>2. Settling(slot[s]) /\ StepOf(slot[s].task, "excuse") /\ StepOf(slot[s].task, "call") /\ slot[s].step = "load"
      /\ ~At(s, "idle")
    BY <1>1 DEF Settling, StepOf, At
<1>3. row[slot[s].of].status # "none"
    BY <1>2, Onward
<1>4. CASE Leave(s, "excuse")
    <2>1. Others(s) /\ Fair(slot'[s]) /\ Taken(slot[s], slot'[s])
        BY <1>2, <1>4, LeaveFair
    <2> QED BY <1>1, <2>1, OnlyMoves
<1>5. CASE Loaded(s, row[slot[s].of])
    <2>1. Others(s) /\ Fair(slot'[s]) /\ Taken(slot[s], slot'[s])
        BY <1>1, <1>2, <1>3, <1>5, LoadedFair
    <2> QED BY <1>1, <2>1, OnlyMoves
<1> QED BY <1>4, <1>5 DEF LoadForWatch, Loaded

\* Once a watch is set up, it is recorded.
LEMMA WatchFair ==
    ASSUME Base, Standing, NEW s \in Slots, slot[s].step = "call", StepOf(slot[s].task, "record"), NEW g, Watch(s, g)
    PROVE  Others(s) /\ Fair(slot'[s]) /\ Taken(slot[s], slot'[s])
<1>1. slot[s].of \in Accounts /\ row[slot[s].of].status # "none" /\ ~At(s, "idle")
    BY InHandIs
<1>2. Others(s) /\ slot'[s].step = "record" /\ slot'[s].task = slot[s].task /\ slot'[s].of = slot[s].of
    BY <1>1, WatchIs
<1>3. Taken(slot[s], slot'[s])
    BY <1>2, StillTaken
<1> QED BY <1>1, <1>2, <1>3 DEF Fair

LEMMA StartWatchingStanding ==
    ASSUME Base, Standing, NEW s \in Slots, NEW answer, NEW g, StartWatching(s, answer, g) PROVE Standing'
<1>1. slot[s].step = "call" /\ slot[s].task = "link" /\ UNCHANGED <<grant, persisting, row, mistaken, withdrawn, crossed>>
    BY DEF StartWatching, At, Doing, historyVars
<1>2. Settling(slot[s]) /\ StepOf(slot[s].task, "excuse") /\ StepOf(slot[s].task, "record")
    BY <1>1 DEF Settling, StepOf
<1>3. Others(s) /\ Fair(slot'[s]) /\ Taken(slot[s], slot'[s])
    <2>1. CASE Watch(s, g)
        BY <1>1, <1>2, <2>1, WatchFair
    <2>2. CASE Leave(s, "excuse")
        BY <1>1, <1>2, <2>2, LeaveFair
    <2> QED BY <2>1, <2>2 DEF StartWatching
<1> QED BY <1>1, <1>3, OnlyMoves

LEMMA StopWatchStanding == ASSUME Base, Standing, NEW s \in Slots, StopWatch(s) PROVE Standing'
<1>1. slot[s].step = "stop" /\ Leave(s, "wipe") /\ UNCHANGED <<grant, persisting, row, mistaken, withdrawn, crossed>>
    BY DEF StopWatch, At, tokenVars, historyVars
<1>2. ~At(s, "idle")
    BY <1>1 DEF At
<1>3. Settling(slot[s]) /\ StepOf(slot[s].task, "wipe")
    BY <1>1, <1>2, AtWork DEF Settling, StepOf
<1>4. Others(s) /\ Fair(slot'[s]) /\ Taken(slot[s], slot'[s])
    BY <1>1, <1>3, LeaveFair
<1> QED BY <1>1, <1>4, OnlyMoves

LEMMA DropRouteStanding == ASSUME Base, Standing, NEW s \in Slots, DropRoute(s) PROVE Standing'
<1>1. Finish(s) /\ UNCHANGED <<grant, persisting, row, mistaken, withdrawn, crossed>>
    BY DEF DropRoute, tokenVars, historyVars
<1>2. Others(s) /\ Fair(slot'[s]) /\ Taken(slot[s], slot'[s])
    BY <1>1, FinishFair
<1> QED BY <1>1, <1>2, OnlyMoves

LEMMA RecordUnavailableStanding == ASSUME Base, Standing, NEW s \in Slots, RecordUnavailable(s) PROVE Standing'
<1>1. Finish(s) /\ UNCHANGED <<grant, persisting, row, mistaken, withdrawn, crossed>>
    BY DEF RecordUnavailable, tokenVars, historyVars
<1>2. Others(s) /\ Fair(slot'[s]) /\ Taken(slot[s], slot'[s])
    BY <1>1, FinishFair
<1> QED BY <1>1, <1>2, OnlyMoves

LEMMA CrashStanding == ASSUME Base, Standing, NEW s \in Slots, Crash(s) PROVE Standing'
<1>1. Finish(s) /\ UNCHANGED <<grant, persisting, row, mistaken, withdrawn>> /\ crossed \subseteq crossed'
    BY DEF Crash, Retries, tokenVars
<1>2. Others(s) /\ Fair(slot'[s]) /\ Taken(slot[s], slot'[s])
    BY <1>1, FinishFair
<1> QED BY <1>1, <1>2, OnlyMoves

LEMMA RecordFailsStanding == ASSUME Base, Standing, NEW s \in Slots, RecordFails(s) PROVE Standing'
<1>1. slot[s].step = "record" /\ UNCHANGED <<grant, persisting, row, mistaken, withdrawn, crossed>>
    BY DEF RecordFails, At, tokenVars, historyVars
<1>2. Others(s) /\ Fair(slot'[s]) /\ Taken(slot[s], slot'[s])
    <2>1. CASE Doing(s, "link") /\ Leave(s, "excuse")
        <3>1. Settling(slot[s]) /\ StepOf(slot[s].task, "excuse")
            BY <1>1, <2>1 DEF Doing, Settling, StepOf
        <3> QED BY <1>1, <2>1, <3>1, LeaveFair
    <2>2. CASE Finish(s)
        BY <2>2, FinishFair
    <2> QED BY <2>1, <2>2 DEF RecordFails, Retries
<1> QED BY <1>1, <1>2, OnlyMoves

LEMMA DisconnectStanding == ASSUME Base, Standing, NEW s \in Slots, NEW a \in Accounts, Disconnect(s, a) PROVE Standing'
<1> DEFINE v == Work("disconnect", a, "stop")
           w == [v EXCEPT !.access = row[a].access, !.fresh = row[a].fresh]
<1>1. UNCHANGED <<grant, persisting, row, mistaken, withdrawn, crossed>> /\ Present(a)
    BY DEF Disconnect, tokenVars, historyVars, Present
<1>2. v \in Slot /\ v.step = "stop" /\ v.task = "disconnect" /\ v.of = a
    <2>1. "disconnect" \in Tasks /\ "stop" \in Steps
        BY DEF Tasks, Steps
    <2> QED BY <2>1, WorkTyped DEF Work
<1>3. slot' = [slot EXCEPT ![s] = w]
    BY DEF Disconnect, Begin
<1> HIDE DEF v
<1>4. w.step = "stop" /\ w.task = "disconnect" /\ w.of = a
    BY <1>2 DEF Slot
<1> HIDE DEF w
<1>5. Others(s) /\ slot'[s] = w
    BY <1>3 DEF Base, SlotsFit, Others
<1>6. Fair(slot'[s]) /\ Taken(slot[s], slot'[s])
    BY <1>1, <1>4, <1>5 DEF Fair, Taken, Present
<1> QED BY <1>1, <1>5, <1>6, OnlyMoves

LEMMA TakeRenewalStanding ==
    ASSUME Base, Standing, NEW s \in Slots, NEW j \in renewals, TakeRenewal(s, j) PROVE Standing'
<1> DEFINE v == Work("renew", j[1], "load")
           w == [v EXCEPT !.due = j[2]]
<1>1. UNCHANGED <<grant, persisting, row, mistaken, withdrawn, crossed>> /\ j[1] \in Accounts
    BY RestIs DEF TakeRenewal, tokenVars, historyVars, Rest
<1>2. v \in Slot /\ v.step = "load" /\ v.task = "renew"
    <2>1. "renew" \in Tasks /\ "load" \in Steps
        BY DEF Tasks, Steps
    <2> QED BY <1>1, <2>1, WorkTyped DEF Work
<1>3. slot' = [slot EXCEPT ![s] = w]
    BY DEF TakeRenewal, Begin
<1> HIDE DEF v
<1>4. w.step = "load" /\ w.task = "renew"
    BY <1>2 DEF Slot
<1> HIDE DEF w
<1>5. Others(s) /\ slot'[s] = w
    BY <1>3 DEF Base, SlotsFit, Others
<1>6. Fair(slot'[s]) /\ Taken(slot[s], slot'[s])
    BY <1>4, <1>5, Nothing
<1> QED BY <1>1, <1>5, <1>6, OnlyMoves

LEMMA TakeWalkStanding == ASSUME Base, Standing, NEW s \in Slots, NEW a \in Accounts, TakeWalk(s, a) PROVE Standing'
<1> DEFINE w == Work("walk", a, "load")
<1>1. UNCHANGED <<grant, persisting, row, mistaken, withdrawn, crossed>>
    BY DEF TakeWalk, tokenVars, historyVars
<1>2. w.step = "load" /\ w.task = "walk"
    BY DEF Work
<1>3. slot' = [slot EXCEPT ![s] = w]
    BY DEF TakeWalk, Begin
<1> HIDE DEF w
<1>4. Others(s) /\ slot'[s] = w
    BY <1>3 DEF Base, SlotsFit, Others
<1>5. Fair(slot'[s]) /\ Taken(slot[s], slot'[s])
    BY <1>2, <1>4, Nothing
<1> QED BY <1>1, <1>4, <1>5, OnlyMoves

LEMMA LoadStanding == ASSUME Base, Standing, NEW s \in Slots, Load(s) PROVE Standing'
<1> DEFINE a == slot[s].of
<1>1. At(s, "load") /\ slot[s].step = "load" /\ ~At(s, "idle") /\ slot[s].task \in {"renew", "walk"}
      /\ UNCHANGED <<grant, persisting, row, mistaken, withdrawn, crossed>>
    BY DEF Load, At, tokenVars, historyVars
<1>2. a \in Accounts
    BY <1>1, AtWork
<1>3. CASE row[a].status \in {"none", "reauth_required", "disconnected"} /\ slot[s].task = "renew" /\ Leave(s, "drop")
    <2>1. Blamed(a) \/ row[a].status = "none"
        BY <1>2, <1>3 DEF Standing, Known, Refused, Blamed
    <2>2. StepOf(slot[s].task, "drop")
        BY <1>3 DEF StepOf
    <2>3. Others(s) /\ slot'[s].step = "drop" /\ slot'[s].task = slot[s].task /\ slot'[s].of = a
        BY <1>1, <1>3, <2>2, LeaveIs DEF Base
    <2>4. Fair(slot'[s]) /\ Taken(slot[s], slot'[s])
        BY <1>2, <1>3, <2>1, <2>3 DEF Fair, Settling, Taken, Holds
    <2> QED BY <1>1, <2>3, <2>4, OnlyMoves
<1>4. CASE Dies(s)
    <2>1. Others(s) /\ Fair(slot'[s]) /\ Taken(slot[s], slot'[s])
        BY <1>4, FinishFair DEF Dies
    <2> QED BY <1>1, <2>1, OnlyMoves
<1>5. CASE row[a].status \notin {"none", "reauth_required", "disconnected"} /\ Loaded(s, row[a])
    <2>1. StepOf(slot[s].task, "call")
        BY <1>1 DEF StepOf
    <2>2. Others(s) /\ Fair(slot'[s]) /\ Taken(slot[s], slot'[s])
        BY <1>1, <1>5, <2>1, LoadedFair
    <2> QED BY <1>1, <2>2, OnlyMoves
<1> QED BY <1>3, <1>4, <1>5 DEF Load, Loaded, Doing

-----------------------------------------------------------------------------
(***************************************************************************)
(* The steps that write a row.                                             *)
(***************************************************************************)
LEMMA RowWritten ==
    ASSUME Standing, NEW a \in Accounts, row[a].status # "none", \A c \in Accounts : c # a => row'[c] = row[c],
           row'[a].gone = row[a].gone, row'[a].refresh = row[a].refresh, row'[a].access = row[a].access,
           row'[a].status # "none", row'[a].status # "disconnected" \/ row[a].status = "disconnected",
           row'[a].status = "reauth_required" => row[a].status = "reauth_required" \/ Blamed(a),
           UNCHANGED <<crossed, withdrawn, mistaken>>
    PROVE  RowsKept
<1>1. Known
    BY DEF Standing
<1>2. Steady
    BY <1>1 DEF Known, Steady
<1> QED BY <1>2 DEF RowsKept

\* What only moves a handler and writes rows.
LEMMA MovesAndWrites ==
    ASSUME Base, Standing, NEW s \in Slots, UNCHANGED <<grant, persisting, withdrawn>>,
           RowsKept, Others(s), Fair(slot'[s]), Taken(slot[s], slot'[s])
    PROVE  Standing'
<1>1. \A r \in Slots : Alike(r) \/ (Fair(slot'[r]) /\ Taken(slot[r], slot'[r]))
    BY OthersAlike
<1> QED BY <1>1, GrantStays, StandingKept

LEMMA PersistRefreshedStanding ==
    ASSUME Base, Standing, NEW s \in Slots, PersistRefreshedToken(s) PROVE Standing' /\ Steady
<1> DEFINE a == slot[s].of
           g == slot[s].access
<1>1. /\ slot[s].step = "persist" /\ Goto(s, "call") /\ ~At(s, "idle")
      /\ UNCHANGED <<grant, persisting, mistaken, crossed, withdrawn>> /\ (Persisted(a, g) \/ UNCHANGED row)
    BY DEF PersistRefreshedToken, At, tokenVars, historyVars
<1>2. /\ a \in Accounts /\ row[a].status # "none"
      /\ Present(a) /\ Box(a) \notin crossed => g = row[a].refresh /\ slot[s].refresh = row[a].refresh
    BY <1>1, InHandIs
<1>3. g \in 0..MaxGrants /\ Owns(grant, mistaken, a, g) /\ StepOf(slot[s].task, "call")
    BY <1>1, AtWork DEF StepOf
<1> HIDE DEF a, g
<1>4. row \in [Accounts -> Row] /\ RowsOwn(grant, mistaken, row) /\ SlotsFit
    BY DEF Base, TypeOK, Own
<1>5. \A c \in Accounts : /\ row'[c].status = row[c].status /\ row'[c].gone = row[c].gone
                          /\ row'[c].refresh = row[c].refresh
                          /\ row'[c].access = row[c].access \/ (c = a /\ row'[c].access = g)
    BY <1>1, <1>2, <1>3, <1>4, PersistedIs
<1>6. RowsKept
    <2>1. Steady
        BY <1>1, <1>5 DEF Standing, Known, Steady
    <2> QED BY <1>2, <1>5, <2>1 DEF RowsKept
<1>7. /\ Others(s) /\ slot'[s].step = "call" /\ slot'[s].task = slot[s].task /\ slot'[s].of = a
      /\ slot'[s].access = g /\ slot'[s].refresh = slot[s].refresh
    BY <1>1, <1>3, <1>4, GotoIs DEF a, g
<1>8. Taken(slot[s], slot'[s])
    BY <1>1, <1>7, StillTaken DEF a
<1>9. Fair(slot'[s])
    BY <1>2, <1>7 DEF Fair
<1> QED BY <1>1, <1>6, <1>7, <1>8, <1>9, MovesAndWrites DEF RowsKept

LEMMA PersistUnawaitedStanding ==
    ASSUME Base, Standing, NEW p \in persisting, PersistUnawaited(p) PROVE Standing' /\ Steady
<1>1. /\ UNCHANGED <<grant, slot, mistaken, crossed, withdrawn>> /\ (Persisted(p[1], p[2]) \/ UNCHANGED row)
      /\ persisting' \subseteq persisting
    BY DEF PersistUnawaited, historyVars
<1>2. p[1] \in Accounts /\ p[2] \in 0..MaxGrants /\ Owns(grant, mistaken, p[1], p[2])
    BY Instants DEF Base, TypeOK, Own, PairsOwn
<1>3. SameToken(p[1])
    <2>1. \A a \in Accounts : SameToken(a)
        BY DEF Standing
    <2> QED BY <1>2, <2>1
<1>4. Present(p[1]) /\ Box(p[1]) \notin crossed => p[2] = row[p[1]].refresh
    BY <1>3 DEF SameToken
<1>5. row \in [Accounts -> Row] /\ RowsOwn(grant, mistaken, row)
    BY DEF Base, TypeOK, Own
<1>6. \A c \in Accounts : /\ row'[c].status = row[c].status /\ row'[c].gone = row[c].gone
                          /\ row'[c].refresh = row[c].refresh
                          /\ row'[c].access = row[c].access \/ (c = p[1] /\ row'[c].access = p[2])
    BY <1>1, <1>2, <1>5, PersistedIs
<1>7. RowsKept
    <2>1. Steady
        BY <1>1, <1>6 DEF Standing, Known, Steady
    <2> QED BY <1>2, <1>4, <1>6, <2>1 DEF RowsKept
<1>8. \A r \in Slots : Alike(r)
    BY <1>1 DEF Alike
<1> QED BY <1>1, <1>7, <1>8, GrantStays, StandingKept DEF RowsKept

LEMMA RecordWatchStanding == ASSUME Base, Standing, NEW s \in Slots, RecordWatch(s) \/ RecordRenewed(s) PROVE Standing' /\ Steady
<1> DEFINE a == slot[s].of
<1>1. /\ slot[s].step = "record" /\ ~At(s, "idle") /\ Finish(s)
      /\ UNCHANGED <<grant, persisting, mistaken, crossed, withdrawn>>
    BY DEF RecordWatch, RecordRenewed, At, tokenVars, historyVars
<1>2. a \in Accounts /\ row[a].status # "none"
    BY <1>1, Onward DEF Settling
<1>3. row \in [Accounts -> Row] /\ row[a] \in Row
    BY <1>2 DEF Base, TypeOK
<1>4. /\ row'[a].status = "active" /\ row'[a].gone = row[a].gone
      /\ row'[a].refresh = row[a].refresh /\ row'[a].access = row[a].access
      /\ \A c \in Accounts : c # a => row'[c] = row[c]
    <2>1. CASE RecordWatch(s)
        <3>1. row' = [row EXCEPT ![a] = [@ EXCEPT !.status = "active", !.cursor = TRUE, !.subscribed = Subscribed(s)]]
            BY <2>1 DEF RecordWatch
        <3> QED BY <1>2, <1>3, <3>1 DEF Row
    <2>2. CASE RecordRenewed(s)
        <3>1. row' = [row EXCEPT ![a] = [@ EXCEPT !.status = "active", !.cursor = TRUE]]
            BY <2>2 DEF RecordRenewed
        <3> QED BY <1>2, <1>3, <3>1 DEF Row
    <2> QED BY <2>1, <2>2
<1>5. RowsKept
    BY <1>1, <1>2, <1>4, RowWritten
<1> QED BY <1>1, <1>5, FinishFair, MovesAndWrites DEF RowsKept

LEMMA FallBackStanding == ASSUME Base, Standing, NEW s \in Slots, FallBack(s) PROVE Standing' /\ Steady
<1> DEFINE a == slot[s].of
<1>1. /\ slot[s].step = "excuse" /\ ~At(s, "idle") /\ Finish(s)
      /\ UNCHANGED <<grant, persisting, mistaken, crossed, withdrawn>>
    BY DEF FallBack, At, tokenVars, historyVars
<1>2. a \in Accounts /\ row[a].status # "none"
    BY <1>1, Onward DEF Settling
<1>3. row \in [Accounts -> Row] /\ row[a] \in Row
    BY <1>2 DEF Base, TypeOK
<1>4. /\ row'[a].status = "active" /\ row'[a].gone = row[a].gone
      /\ row'[a].refresh = row[a].refresh /\ row'[a].access = row[a].access
      /\ \A c \in Accounts : c # a => row'[c] = row[c]
    BY <1>2, <1>3 DEF FallBack, Row
<1>5. RowsKept
    BY <1>1, <1>2, <1>4, RowWritten
<1> QED BY <1>1, <1>5, FinishFair, MovesAndWrites DEF RowsKept

LEMMA WipeStanding == ASSUME Base, Standing, NEW s \in Slots, Wipe(s) PROVE Standing' /\ Steady
<1> DEFINE a == slot[s].of
<1>1. /\ slot[s].step = "wipe" /\ ~At(s, "idle") /\ Leave(s, "drop")
      /\ UNCHANGED <<grant, persisting, mistaken, crossed, withdrawn>>
    BY DEF Wipe, At, tokenVars, historyVars
<1>2. a \in Accounts /\ slot[s].task = "disconnect" /\ StepOf(slot[s].task, "drop")
    BY <1>1, AtWork DEF StepOf
<1>3. row[a].status # "none"
    BY <1>1, <1>2, Onward DEF Settling
<1>4. row \in [Accounts -> Row] /\ row[a] \in Row
    BY <1>2 DEF Base, TypeOK
<1>5. /\ row'[a].status = "disconnected" /\ row'[a].gone /\ \A c \in Accounts : c # a => row'[c] = row[c]
      /\ row'[a].access = None
    BY <1>2, <1>4 DEF Wipe, Row
<1>6. Steady
    BY <1>1, <1>3, <1>5 DEF Standing, Known, Steady
<1>7. RowsKept
    BY <1>5, <1>6 DEF RowsKept
<1>8. Others(s) /\ slot'[s].step = "drop" /\ slot'[s].task = slot[s].task /\ slot'[s].of = a
    BY <1>1, <1>2, LeaveIs DEF Base
<1>9. Taken(slot[s], slot'[s])
    BY <1>1, <1>8, StillTaken
<1>10. Fair(slot'[s])
    BY <1>2, <1>3, <1>5, <1>8 DEF Fair
<1> QED BY <1>1, <1>7, <1>8, <1>9, <1>10, MovesAndWrites DEF RowsKept

LEMMA MarkStanding == ASSUME Base, Standing, NEW s \in Slots, MarkReauthRequired(s) PROVE Standing' /\ Steady
<1> DEFINE a == slot[s].of
<1>1. /\ slot[s].step = "mark" /\ ~At(s, "idle")
      /\ UNCHANGED <<grant, persisting, mistaken, crossed, withdrawn>>
    BY DEF MarkReauthRequired, At, tokenVars, historyVars
<1>2. a \in Accounts /\ row[a].status # "none" /\ Blamed(a)
    BY <1>1, Onward DEF Settling, Standing, Refused
<1>3. row \in [Accounts -> Row] /\ row[a] \in Row
    BY <1>2 DEF Base, TypeOK
<1>4. /\ row'[a].status = "reauth_required" /\ row'[a].gone = row[a].gone
      /\ row'[a].refresh = row[a].refresh /\ row'[a].access = row[a].access
      /\ \A c \in Accounts : c # a => row'[c] = row[c]
    BY <1>2, <1>3 DEF MarkReauthRequired, Row
<1>5. RowsKept
    BY <1>1, <1>2, <1>4, RowWritten
<1>6. Others(s) /\ Fair(slot'[s]) /\ Taken(slot[s], slot'[s])
    <2>1. CASE Finish(s)
        BY <2>1, FinishFair
    <2>2. CASE slot[s].task = "renew" /\ Leave(s, "drop")
        <3>1. StepOf(slot[s].task, "drop")
            BY <2>2 DEF StepOf
        <3>2. Others(s) /\ slot'[s].step = "drop" /\ slot'[s].task = "renew" /\ slot'[s].of = a
            BY <1>1, <2>2, <3>1, LeaveIs DEF Base
        <3>3. Fair(slot'[s])
            BY <1>2, <3>2 DEF Fair
        <3>4. Taken(slot[s], slot'[s])
            BY <3>2 DEF Taken, Holds
        <3> QED BY <3>2, <3>3, <3>4
    <2> QED BY <2>1, <2>2 DEF MarkReauthRequired, Doing
<1> QED BY <1>1, <1>5, <1>6, MovesAndWrites DEF RowsKept

\* What an answer says of the grant the call was made with.
LEMMA AnswerIs ==
    ASSUME NEW s \in Slots, NEW id, NEW watching, NEW answer, NEW g, Called(s, id, watching, answer, g)
    PROVE  /\ answer \in {"200", "400", "401", "403", "fault", "outage", "limited", "unconfigured"}
           /\ answer \in {"401", "403"} => \/ g = AccessToken(s, id) /\ grant[g].state = "revoked"
                                           \/ slot[s].refresh = None
           /\ answer = "400" => slot[s].refresh # None /\ grant[slot[s].refresh].state \in {"retired", "revoked"}
<1>1. CASE g = AccessToken(s, id) /\ answer \in Answers(g, watching)
    BY <1>1 DEF Answers
<1>2. CASE slot[s].refresh = None /\ answer = "401"
    BY <1>2
<1>3. CASE slot[s].refresh # None /\ answer = "400" /\ grant[slot[s].refresh].state \in {"retired", "revoked"}
    BY <1>3
<1> QED BY <1>1, <1>2, <1>3 DEF Called

\* What is read as "unauthorized": for Gmail the refusal of a live token, for Outlook that of a refresh too.
LEMMA UnauthorizedIs ==
    ASSUME NEW s \in Slots,
           NEW answer \in {"400", "401", "403", "fault", "outage", "limited", "unconfigured"},
           Code(s, answer) = "PROVIDER_UNAUTHORIZED"
    PROVE  answer \in {"401", "403"} \/ (answer = "400" /\ ~OfGmail(s))
BY DEF Code, MapGmailError, MapGraphError

LEMMA CauseIs ==
    ASSUME Base, Standing, NEW s \in Slots, slot[s].step = "call", NEW watching, NEW answer, NEW g,
           Called(s, slot[s].of, watching, answer, g), answer # "200", Code(s, answer) = "PROVIDER_UNAUTHORIZED"
    PROVE  Blamed(slot[s].of)
<1> DEFINE a == slot[s].of
           k == row[a].refresh
<1>1. ~At(s, "idle") /\ a \in Accounts /\ row[a].status # "none"
    BY InHandIs
<1>2. SUFFICES ASSUME Present(a), Box(a) \notin crossed
               PROVE  /\ Box(a) \in withdrawn \/ a \in mistaken
                      /\ Box(a) \in Gmail => k # None /\ grant[k].state = "revoked"
    BY <1>1 DEF Blamed, Present
<1>3. slot[s].access = k /\ slot[s].refresh = k /\ k # None /\ k \in Grants /\ Owns(grant, mistaken, a, k)
    BY <1>1, <1>2, InHandIs, AtWork DEF Owns
<1>4. \/ answer \in {"401", "403"} /\ g = AccessToken(s, a) /\ grant[g].state = "revoked"
      \/ answer = "400" /\ ~OfGmail(s) /\ grant[k].state \in {"retired", "revoked"}
    BY <1>3, AnswerIs, UnauthorizedIs
<1>5. \A h \in Grants : Owns(grant, mistaken, a, h) /\ grant[h].state \in {"retired", "revoked"}
                            => Box(a) \in withdrawn \/ a \in mistaken
    BY Instants DEF Owns, Standing, Withdrawn
<1>6. CASE answer = "400" /\ ~OfGmail(s) /\ grant[k].state \in {"retired", "revoked"}
    BY <1>3, <1>5, <1>6 DEF OfGmail
<1>7. CASE answer \in {"401", "403"} /\ g = AccessToken(s, a) /\ grant[g].state = "revoked"
    <2>1. /\ Owns(grant, mistaken, a, g) /\ g \in 0..MaxGrants
          /\ OfGmail(s) => g = slot[s].access
        BY <1>1, <1>7, AccessIs
    <2>2. g # None
        BY <1>3, <1>7 DEF AccessToken
    <2>3. g \in Grants
        BY <2>1, <2>2 DEF Owns
    <2> QED BY <1>3, <1>5, <1>7, <2>1, <2>3 DEF OfGmail
<1> QED BY <1>4, <1>6, <1>7

\* A handler that gives a mailbox up.
LEMMA MarkFair ==
    ASSUME Base, Standing, NEW s \in Slots, slot[s].step = "call", StepOf(slot[s].task, "mark"), Leave(s, "mark"),
           Blamed(slot[s].of)
    PROVE  Others(s) /\ Fair(slot'[s]) /\ Taken(slot[s], slot'[s])
<1>1. slot[s].of \in Accounts /\ row[slot[s].of].status # "none" /\ ~At(s, "idle")
    BY InHandIs
<1>2. Others(s) /\ slot'[s].step = "mark" /\ slot'[s].task = slot[s].task /\ slot'[s].of = slot[s].of
    BY <1>1, LeaveIs DEF Base
<1>3. Taken(slot[s], slot'[s])
    BY <1>2, StillTaken
<1> QED BY <1>1, <1>2, <1>3 DEF Fair

LEMMA RenewWatchStanding ==
    ASSUME Base, Standing, NEW s \in Slots, NEW answer, NEW g, RenewWatch(s, answer, g) PROVE Standing'
<1>1. /\ slot[s].step = "call" /\ slot[s].task = "renew" /\ Called(s, slot[s].of, TRUE, answer, g)
      /\ UNCHANGED <<grant, persisting, row, mistaken, withdrawn, crossed>>
    BY DEF RenewWatch, At, Doing, historyVars
<1>2. /\ StepOf(slot[s].task, "record") /\ StepOf(slot[s].task, "mark") /\ StepOf(slot[s].task, "unavailable")
      /\ Settling(slot[s])
    BY <1>1 DEF StepOf, Settling
<1>3. \/ Watch(s, g)
      \/ Leave(s, "mark") /\ answer # "200" /\ Code(s, answer) = "PROVIDER_UNAUTHORIZED"
      \/ Leave(s, "unavailable")
      \/ Finish(s)
    BY DEF RenewWatch, Dies, Retries
<1>4. Others(s) /\ Fair(slot'[s]) /\ Taken(slot[s], slot'[s])
    <2>1. CASE Watch(s, g)
        BY <1>1, <1>2, <2>1, WatchFair
    <2>2. CASE Leave(s, "mark") /\ answer # "200" /\ Code(s, answer) = "PROVIDER_UNAUTHORIZED"
        <3>1. Blamed(slot[s].of)
            BY <1>1, <2>2, CauseIs
        <3> QED BY <1>1, <1>2, <2>2, <3>1, MarkFair
    <2>3. CASE Leave(s, "unavailable")
        BY <1>1, <1>2, <2>3, LeaveFair
    <2>4. CASE Finish(s)
        BY <2>4, FinishFair
    <2> QED BY <1>3, <2>1, <2>2, <2>3, <2>4
<1> QED BY <1>1, <1>4, OnlyMoves

LEMMA FetchStanding ==
    ASSUME Base, Standing, NEW s \in Slots, NEW answer, NEW g, FetchChanges(s, answer, g) PROVE Standing' /\ Steady
<1> DEFINE a == slot[s].of
<1>1. /\ slot[s].step = "call" /\ slot[s].task = "walk" /\ Called(s, slot[s].of, FALSE, answer, g)
      /\ UNCHANGED <<grant, persisting, mistaken, withdrawn, crossed>>
    BY DEF FetchChanges, At, Doing, historyVars
<1>2. a \in Accounts /\ row[a].status # "none"
    BY <1>1, InHandIs
<1>3. StepOf(slot[s].task, "mark")
    BY <1>1 DEF StepOf
<1>4. row \in [Accounts -> Row] /\ row[a] \in Row
    BY <1>2 DEF Base, TypeOK
<1>5. UNCHANGED row \/ row' = [row EXCEPT ![a].cursor = TRUE]
    BY DEF FetchChanges
<1>6. /\ row'[a].status = row[a].status /\ row'[a].gone = row[a].gone
      /\ row'[a].refresh = row[a].refresh /\ row'[a].access = row[a].access
      /\ \A c \in Accounts : c # a => row'[c] = row[c]
    BY <1>2, <1>4, <1>5 DEF Row
<1>7. RowsKept
    BY <1>1, <1>2, <1>6, RowWritten
<1>8. Others(s) /\ Fair(slot'[s]) /\ Taken(slot[s], slot'[s])
    <2>1. CASE Leave(s, "mark") /\ answer # "200" /\ Code(s, answer) = "PROVIDER_UNAUTHORIZED"
        <3>1. Blamed(slot[s].of)
            BY <1>1, <2>1, CauseIs
        <3> QED BY <1>1, <1>3, <2>1, <3>1, MarkFair
    <2>2. CASE Finish(s)
        BY <2>2, FinishFair
    <2> QED BY <2>1, <2>2 DEF FetchChanges
<1> QED BY <1>1, <1>7, <1>8, MovesAndWrites DEF RowsKept

\* A connection that crosses nothing finds no one else at its box.
LEMMA StoreIs ==
    ASSUME Base, NEW s \in Slots, Store(s)
    PROVE  LET a == slot[s].of  b == Box(a) IN
           /\ a \in Accounts /\ slot[s].step = "store"
           /\ row'[a].status = "connecting" /\ ~row'[a].gone
           /\ row'[a].access = row'[a].refresh /\ row'[a].refresh # None
           /\ row'[a].refresh = slot[s].refresh
           /\ \A c \in Accounts : c # a => row'[c] = row[c]
           /\ Others(s) /\ slot'[s].step = "route" /\ slot'[s].task = "link" /\ slot'[s].of = a
           /\ crossed \subseteq crossed'
           /\ b \notin crossed' => /\ \A r \in Slots : r # s /\ slot[r].step # "idle" => Box(slot[r].of) # b
                                   /\ \A p \in persisting : Box(p[1]) # b
                                   /\ \A c \in Accounts : c # a /\ Box(c) = b => ~Present(c)
           /\ UNCHANGED <<grant, persisting, mistaken, withdrawn, route, till>>
<1> DEFINE a == slot[s].of
           b == Box(a)
<1>1. slot[s].step = "store" /\ ~At(s, "idle") /\ Leave(s, "route")
    BY DEF Store, At
<1>2. /\ a \in Accounts /\ slot[s].task = "link" /\ StepOf(slot[s].task, "route")
      /\ slot[s].access = slot[s].refresh /\ slot[s].access # None
    <2>1. slot[s] \in Slot /\ Fitting(slot[s])
        BY DEF Base, SlotsFit
    <2> QED BY <1>1, <2>1, AtWork, Busy DEF StepOf
<1>3. row \in [Accounts -> Row] /\ row[a] \in Row
    BY <1>2 DEF Base, TypeOK
<1>4. /\ row'[a].status = "connecting" /\ ~row'[a].gone
      /\ row'[a].access = slot[s].access /\ row'[a].refresh = slot[s].refresh
      /\ \A c \in Accounts : c # a => row'[c] = row[c]
    BY <1>2, <1>3 DEF Store, Row
<1>5. Others(s) /\ slot'[s].step = "route" /\ slot'[s].task = "link" /\ slot'[s].of = a
    BY <1>1, <1>2, LeaveIs DEF Base
<1>6. crossed \subseteq crossed' /\ (b \notin crossed' => ~Crosses(s))
    BY DEF Store
<1>7. ~Crosses(s) => /\ \A r \in Slots : r # s /\ slot[r].step # "idle" => Box(slot[r].of) # b
                     /\ \A p \in persisting : Box(p[1]) # b
                     /\ \A c \in Accounts : c # a /\ Box(c) = b => ~Present(c)
    <2>1. \A c \in Accounts : Box(c) = b => c[1] \in Users /\ c = <<c[1], b>>
        BY AccountIs
    <2> QED BY <2>1 DEF Crosses, At, Present
<1>8. UNCHANGED <<grant, persisting, mistaken, withdrawn, route, till>>
    BY DEF Store, tokenVars, watchVars
<1> QED BY <1>1, <1>2, <1>4, <1>5, <1>6, <1>7, <1>8

LEMMA StoreStanding == ASSUME Base, Standing, NEW s \in Slots, Store(s) PROVE Standing'
<1> DEFINE a == slot[s].of
           b == Box(a)
<1>1. /\ a \in Accounts /\ slot[s].step = "store"
      /\ row'[a].status = "connecting" /\ ~row'[a].gone
      /\ row'[a].access = row'[a].refresh /\ row'[a].refresh # None
      /\ \A c \in Accounts : c # a => row'[c] = row[c]
      /\ Others(s) /\ slot'[s].step = "route" /\ slot'[s].task = "link" /\ slot'[s].of = a
      /\ crossed \subseteq crossed'
      /\ UNCHANGED <<grant, persisting, mistaken, withdrawn>>
    BY StoreIs
<1>2. b \notin crossed' => /\ \A r \in Slots : r # s /\ slot[r].step # "idle" => Box(slot[r].of) # b
                           /\ \A p \in persisting : Box(p[1]) # b
                           /\ \A c \in Accounts : c # a /\ Box(c) = b => ~Present(c)
    BY StoreIs
<1>3. /\ \A r \in Slots : slot[r].step # "idle" => slot[r].of \in Accounts
      /\ \A r \in Slots : slot[r].step = "idle" => slot[r].task = "none" /\ slot[r].of = NoAccount
      /\ \A p \in persisting : p[1] \in Accounts
    BY AtWork, Busy DEF Base, TypeOK, SlotsFit, At
<1> HIDE DEF a, b
<1>4. Withdrawn'
    BY <1>1, GrantStays
<1>5. Known'
    <2>1. \A c \in Accounts : row'[c].status = "disconnected" => row'[c].gone
        BY <1>1 DEF Standing, Known
    <2>2. \A c \in Accounts : row[c].status # "none" => row'[c].status # "none"
        BY <1>1
    <2>3. ASSUME NEW r \in Slots, Settling(slot'[r]) PROVE row'[slot'[r].of].status # "none"
        <3>1. CASE r = s
            BY <1>1, <3>1
        <3>2. CASE r # s
            <4>1. slot'[r] = slot[r] /\ Settling(slot[r])
                BY <1>1, <2>3, <3>2 DEF Others
            <4>2. slot[r].of \in Accounts /\ row[slot[r].of].status # "none"
                BY <1>3, <4>1 DEF Settling, Standing, Known
            <4> QED BY <2>2, <4>1, <4>2
        <3> QED BY <3>1, <3>2
    <2>4. \A p \in persisting' : row'[p[1]].status # "none"
        BY <1>1, <1>3, <2>2 DEF Standing, Known
    <2> QED BY <2>1, <2>3, <2>4 DEF Known
<1>6. \A c \in Accounts : c # a /\ Blamed(c) => Blamed(c)'
    BY <1>1 DEF Blamed
<1>7. Refused'
    <2>1. ASSUME NEW c \in Accounts, row'[c].status = "reauth_required" PROVE Blamed(c)'
        BY <1>1, <1>6, <2>1 DEF Standing, Refused
    <2>2. ASSUME NEW r \in Slots, NEW c \in Accounts, slot'[r].of = c, slot'[r].step \in {"mark", "drop"}
          PROVE  r # s /\ slot[r] = slot'[r] /\ (c = a => Blamed(c)')
        <3>1. r # s /\ slot[r] = slot'[r]
            BY <1>1, <2>2 DEF Others
        <3>2. c = a => b \in crossed'
            BY <1>2, <2>2, <3>1 DEF b
        <3> QED BY <3>1, <3>2 DEF Blamed, b
    <2>3. ASSUME NEW r \in Slots, NEW c \in Accounts, slot'[r].of = c, slot'[r].step = "mark" PROVE Blamed(c)'
        BY <1>6, <2>2, <2>3 DEF Standing, Refused
    <2>4. ASSUME NEW r \in Slots, NEW c \in Accounts, slot'[r].of = c, slot'[r].step = "drop"
          PROVE  Blamed(c)' \/ row'[c].status = "none"
        BY <1>1, <1>6, <2>2, <2>4 DEF Standing, Refused
    <2> QED BY <2>1, <2>3, <2>4 DEF Refused
<1>8. ASSUME NEW c \in Accounts PROVE SameToken(c)'
    <2>1. CASE c = a
        <3>1. b \notin crossed' => /\ \A r \in Slots : slot'[r].of = a => slot'[r].step \notin {"call", "persist"}
                                   /\ \A p \in persisting' : p[1] # a
            BY <1>1, <1>2 DEF Others, b
        <3> QED BY <1>1, <2>1, <3>1 DEF SameToken, b
    <2>2. CASE c # a
        <3>1. row'[c] = row[c] /\ SameToken(c)
            BY <1>1, <2>2 DEF Standing
        <3>2. \A r \in Slots : slot'[r].of = c => slot'[r] = slot[r]
            BY <1>1, <2>2 DEF Others
        <3> QED BY <1>1, <3>1, <3>2 DEF SameToken, Present
    <2> QED BY <2>1, <2>2
<1>9. ASSUME NEW c \in Accounts, NEW d \in Accounts PROVE Alone(c, d)'
    <2> SUFFICES ASSUME c # d, Box(c) = Box(d), Box(c) \notin crossed', Present(c)'
                 PROVE  ~Present(d)' /\ \A r \in Slots : slot'[r].of = d => ~Holds(slot'[r])
        BY DEF Alone, Holds
    <2>1. CASE Box(c) = b
        <3>1. \A e \in Accounts : e # a /\ Box(e) = b => ~Present(e) /\ ~Present(e)'
            BY <1>1, <1>2, <2>1 DEF Present
        <3>2. c = a /\ d # a /\ Box(d) = b
            BY <2>1, <3>1
        <3>3. ASSUME NEW r \in Slots, slot'[r].of = d PROVE ~Holds(slot'[r])
            <4>1. r # s /\ slot'[r] = slot[r]
                BY <1>1, <3>2, <3>3 DEF Others
            <4>2. slot[r].step = "idle"
                BY <1>2, <2>1, <3>2, <3>3, <4>1
            <4> QED BY <1>3, <3>3, <4>1, <4>2, AccountIs
        <3> QED BY <3>1, <3>2, <3>3
    <2>2. CASE Box(c) # b
        <3>1. c # a /\ d # a
            BY <2>2 DEF b
        <3>2. row'[c] = row[c] /\ row'[d] = row[d] /\ Alone(c, d) /\ Present(c)
            BY <1>1, <3>1 DEF Standing, Present
        <3>3. \A r \in Slots : slot'[r].of = d => slot'[r] = slot[r]
            BY <1>1, <3>1 DEF Others
        <3>4. ~Present(d) /\ \A r \in Slots : slot[r].of = d => ~Holds(slot[r])
            BY <1>1, <3>2 DEF Alone
        <3> QED BY <3>2, <3>3, <3>4 DEF Present
    <2> QED BY <2>1, <2>2
<1> QED BY <1>4, <1>5, <1>7, <1>8, <1>9 DEF Standing

LEMMA StandingStep == Base /\ Standing /\ [Next]_vars => Standing'
<1> SUFFICES ASSUME Base, Standing, [Next]_vars PROVE Standing'
    OBVIOUS
<1>1. CASE UNCHANGED vars
    <2>1. UNCHANGED <<grant, persisting, row, slot, crossed, withdrawn, mistaken>>
        BY <1>1 DEF vars, tokenVars, historyVars
    <2>2. RowsAs /\ \A r \in Slots : Alike(r)
        BY <2>1 DEF RowsAs, Alike
    <2> QED BY <2>1, <2>2, GrantStays, StandingNext
<1>2. CASE \/ Tick \/ \E g \in Grants : Retire(g)
           \/ \E b \in Boxes : Revoke(b) \/ Sweep(b)
           \/ \E p \in persisting : PersistUnawaited(p)
    BY <1>2, GlobalStanding, PersistUnawaitedStanding
<1>3. ASSUME NEW s \in Slots, Starting(s) PROVE Standing'
    BY <1>3, CallbackStanding, DisconnectStanding, TakeWalkStanding, TakeRenewalStanding DEF Starting
<1>4. ASSUME NEW s \in Slots, Linking(s) PROVE Standing'
    BY <1>4, VerifyStanding, StoreStanding, RouteStanding, LoadForWatchStanding, RecordWatchStanding, FallBackStanding
       DEF Linking
<1>5. ASSUME NEW s \in Slots, Calling(s) PROVE Standing'
    BY <1>5, RefreshGoogleStanding, RefreshMicrosoftStanding, PersistRefreshedStanding, StartWatchingStanding,
       RenewWatchStanding, FetchStanding
       DEF Calling
<1>6. ASSUME NEW s \in Slots,
             \/ StopWatch(s) \/ Wipe(s) \/ DropRoute(s) \/ Load(s) \/ RecordRenewed(s)
             \/ RecordFails(s) \/ RecordUnavailable(s) \/ MarkReauthRequired(s) \/ Crash(s)
      PROVE  Standing'
    BY <1>6, StopWatchStanding, WipeStanding, DropRouteStanding, LoadStanding, RecordWatchStanding,
       RecordFailsStanding, RecordUnavailableStanding, MarkStanding, CrashStanding
<1> QED BY <1>1, <1>2, <1>3, <1>4, <1>5, <1>6 DEF Next

\* For any users, boxes, consents and requests in flight: a user is asked to connect a mailbox again only
\* when access to it was withdrawn, and for Gmail only when the grant now stored is the one that was
\* (AccountService.markReauthRequired and the jobs that call it).
THEOREM AskedOnlyWithCause == Spec => []AskedWithCause
<1>1. Standing => AskedWithCause
    BY DEF Standing, Refused, Blamed, AskedWithCause
<1> QED BY <1>1, BaseInit, BaseNext, StandingInit, StandingStep, PTL DEF Spec

-----------------------------------------------------------------------------
(***************************************************************************)
(* A connected Gmail mailbox is never silent.                              *)
(***************************************************************************)
\* A mailbox of Gmail's that is connected for its user alone with a grant that stands.
Good(a) == Present(a) /\ Box(a) \in Gmail \ crossed /\ grant[row[a].refresh].state = "good"

\* It is about to be disconnected, or about to be given its route.
Leaving(a) == \E r \in Slots : slot[r].of = a /\ slot[r].step = "wipe"
Routing(a) == \E r \in Slots : slot[r].of = a /\ slot[r].step = "route"
Covered(a) ==
    LET b == Box(a)  expires == route[b].expires IN
    route[b].to = a /\ (expires = None \/ IsDue(expires) \/ till[b] >= expires)
Awaited(a) == \A r \in Slots : slot[r].of = a /\ slot[r].step = "record" => till[Box(a)] >= slot[r].due

Watched(a) == Good(a) /\ ~Leaving(a) => (Routing(a) \/ Covered(a)) /\ Awaited(a)
Routed == \A b \in Boxes : route[b].to # NoAccount => Box(route[b].to) = b
TillBound == \A b \in Boxes : till[b] <= clock + Lasts
Heard == Routed /\ TillBound /\ \A a \in Accounts : Watched(a)

LEMMA HeardInit == Init => Heard
<1> SUFFICES ASSUME Init PROVE Heard
    OBVIOUS
<1>1. \A a \in Accounts : ~Good(a)
    BY DEF Init, NoRow, Good, Present
<1>2. Routed /\ TillBound
    BY MailboxBoundsAssumption DEF Init, NoRoute, Routed, TillBound
<1> QED BY <1>1, <1>2 DEF Heard, Watched

LEMMA TimesAre ==
    ASSUME NEW c \in 0..MaxClock, NEW r \in [Boxes -> [to : Accounts \cup {NoAccount}, expires : Times]],
           NEW t \in [Boxes -> Times], NEW w \in [Slots -> Slot]
    PROVE  /\ c \in Int
           /\ \A b \in Boxes : r[b].expires \in Int /\ t[b] \in Int
           /\ \A s \in Slots : w[s].due \in Int
<1>1. Times \subseteq Int /\ c \in Int
    BY MailboxBoundsAssumption DEF Times
<1>2. \A s \in Slots : w[s].due \in Times
    BY DEF Slot
<1>3. \A b \in Boxes : r[b].expires \in Times /\ t[b] \in Times
    OBVIOUS
<1> QED BY <1>1, <1>2, <1>3

LEMMA Clocked ==
    ASSUME Base, Base'
    PROVE  /\ clock \in Int /\ clock' \in Int
           /\ \A b \in Boxes : /\ route[b].expires \in Int /\ till[b] \in Int
                               /\ route'[b].expires \in Int /\ till'[b] \in Int
           /\ \A s \in Slots : slot[s].due \in Int /\ slot'[s].due \in Int
BY TimesAre DEF Base, TypeOK

LEMMA WatchedStays ==
    ASSUME Base, Base', NEW a \in Accounts, Watched(a), clock <= clock',
           Good(a)' =>
               /\ Good(a)
               /\ (route'[Box(a)] = route[Box(a)] \/ route[Box(a)].to # a) /\ till'[Box(a)] >= till[Box(a)]
               /\ \A r \in Slots :
                     \/ Alike(r)
                     \/ /\ slot[r].of = a => slot[r].step \notin {"wipe", "route"}
                        /\ slot'[r].of = a /\ slot'[r].step = "record" => till'[Box(a)] >= slot'[r].due
    PROVE  Watched(a)'
<1> SUFFICES ASSUME Good(a)', ~Leaving(a)' PROVE (Routing(a)' \/ Covered(a)') /\ Awaited(a)'
    BY DEF Watched
<1>1. /\ Good(a) /\ (route'[Box(a)] = route[Box(a)] \/ route[Box(a)].to # a) /\ till'[Box(a)] >= till[Box(a)]
      /\ \A r \in Slots :
            \/ Alike(r)
            \/ /\ slot[r].of = a => slot[r].step \notin {"wipe", "route"}
               /\ slot'[r].of = a /\ slot'[r].step = "record" => till'[Box(a)] >= slot'[r].due
    OBVIOUS
<1>2. ~Leaving(a) /\ (Routing(a) => Routing(a)')
    BY <1>1 DEF Leaving, Routing, Alike
<1>3. (Routing(a) \/ Covered(a)) /\ Awaited(a)
    BY <1>1, <1>2 DEF Watched
<1>4. Box(a) \in Boxes
    BY AccountIs
<1>5. /\ clock \in Int /\ clock' \in Int /\ route[Box(a)].expires \in Int
      /\ till[Box(a)] \in Int /\ till'[Box(a)] \in Int
      /\ \A r \in Slots : slot[r].due \in Int /\ slot'[r].due \in Int
    BY <1>4, Clocked
<1>6. Covered(a) => Covered(a)'
    BY <1>1, <1>5 DEF Covered, IsDue
<1>7. Awaited(a)'
    BY <1>1, <1>3, <1>5 DEF Awaited, Alike
<1> QED BY <1>2, <1>3, <1>6, <1>7

\* No mailbox comes to be good.
NoneComes == \A a \in Accounts : Good(a)' => Good(a)

LEMMA NoneComesIs ==
    ASSUME Base, Standing, Steady,
           \A g \in Grants : grant[g].state # "none" /\ grant'[g].state = "good" => grant[g].state = "good"
    PROVE  NoneComes
<1> SUFFICES ASSUME NEW a \in Accounts, Good(a)' PROVE Good(a)
    BY DEF NoneComes
<1>1. Present(a) /\ row'[a].refresh = row[a].refresh /\ Box(a) \in Gmail \ crossed
    BY SteadyPresent DEF Good, Steady
<1>2. row[a].refresh # None
    BY <1>1 DEF Standing, SameToken
<1>3. row[a].refresh \in Grants /\ grant[row[a].refresh].state # "none"
    BY <1>2 DEF Base, Own, RowsOwn, Owns
<1> QED BY <1>1, <1>3 DEF Good

LEMMA NoRowNoneComes ==
    ASSUME Base, Standing, UNCHANGED <<row, grant, withdrawn>>, crossed \subseteq crossed', mistaken \subseteq mistaken'
    PROVE  NoneComes
<1>1. RowsAs
    BY DEF RowsAs
<1>2. Steady
    BY <1>1, RowsAsKept DEF RowsKept
<1> QED BY <1>2, NoneComesIs

\* A step that writes no route and sets up no watch.
LEMMA HeardQuietly ==
    ASSUME Base, Base', Heard, UNCHANGED <<route, till>>, clock' \in {clock, clock + 1}, NoneComes,
           \A r \in Slots : Alike(r) \/ (slot[r].step \notin {"wipe", "route"} /\ slot'[r].step # "record")
    PROVE  Heard'
<1>1. /\ clock \in Int /\ clock <= clock'
      /\ \A b \in Boxes : till[b] \in Int
    BY Clocked
<1>2. Routed' /\ TillBound'
    BY <1>1, MailboxBoundsAssumption DEF Heard, Routed, TillBound
<1>3. ASSUME NEW a \in Accounts PROVE Watched(a)'
    <2>1. Box(a) \in Boxes /\ Watched(a)
        BY AccountIs DEF Heard
    <2>2. till'[Box(a)] >= till[Box(a)]
        BY <1>1, <2>1
    <2> QED BY <1>1, <2>1, <2>2, WatchedStays DEF NoneComes
<1> QED BY <1>2, <1>3 DEF Heard

LEMMA HeardMoving ==
    ASSUME Base, Base', Heard, NEW s \in Slots, Others(s), UNCHANGED <<route, till, clock>>, NoneComes,
           slot[s].step \notin {"wipe", "route"}, slot'[s].step # "record"
    PROVE  Heard'
<1>1. \A r \in Slots : Alike(r) \/ (slot[r].step \notin {"wipe", "route"} /\ slot'[r].step # "record")
    BY OthersAlike
<1> QED BY <1>1, HeardQuietly

\* Where the moves of a slot take it.
LEMMA StepsAre ==
    ASSUME SlotsFit, NEW s \in Slots
    PROVE  /\ Finish(s) => Others(s) /\ slot'[s].step = "idle"
           /\ \A step : \/ Leave(s, step) \/ Goto(s, step) \/ Refreshed(s, step)
                            => Others(s) /\ slot'[s].step = step /\ slot'[s].of = slot[s].of
           /\ \A r : Loaded(s, r) => Others(s) /\ slot'[s].step = "call"
           /\ \A w : Begin(s, w) => Others(s) /\ slot[s].step = "idle" /\ slot'[s] = w
<1>1. slot \in [Slots -> Slot] /\ slot[s] \in Slot
    BY DEF SlotsFit
<1>2. Finish(s) => Others(s) /\ slot'[s].step = "idle"
    BY FinishIs, IdleIs
<1>3. ASSUME NEW step, Leave(s, step) PROVE Others(s) /\ slot'[s].step = step /\ slot'[s].of = slot[s].of
    BY <1>1, <1>3 DEF Leave, Work, Others
<1>4. ASSUME NEW step, Goto(s, step) PROVE Others(s) /\ slot'[s].step = step /\ slot'[s].of = slot[s].of
    BY <1>1, <1>4 DEF Goto, Slot, Others
<1>5. ASSUME NEW step, Refreshed(s, step) PROVE Others(s) /\ slot'[s].step = step /\ slot'[s].of = slot[s].of
    BY <1>1, <1>5 DEF Refreshed, Slot, Others
<1>6. ASSUME NEW r, Loaded(s, r) PROVE Others(s) /\ slot'[s].step = "call"
    BY <1>1, <1>6 DEF Loaded, Slot, Others
<1>7. ASSUME NEW w, Begin(s, w) PROVE Others(s) /\ slot[s].step = "idle" /\ slot'[s] = w
    BY <1>1, <1>7 DEF Begin, At, Others
<1> QED BY <1>2, <1>3, <1>4, <1>5, <1>6, <1>7

\* A step that moves a handler and writes nothing.
LEMMA HeardByMove ==
    ASSUME Base, Base', Standing, Heard, NEW s \in Slots, Others(s), UNCHANGED <<route, till, clock, row, grant, withdrawn>>,
           crossed \subseteq crossed', mistaken \subseteq mistaken',
           slot[s].step \notin {"wipe", "route"}, slot'[s].step # "record"
    PROVE  Heard'
BY NoRowNoneComes, HeardMoving

\* A step that moves a handler and writes rows.
LEMMA HeardByWrite ==
    ASSUME Base, Base', Standing, Heard, NEW s \in Slots, Others(s), UNCHANGED <<route, till, clock, grant>>, Steady,
           slot[s].step \notin {"wipe", "route"}, slot'[s].step # "record"
    PROVE  Heard'
BY NoneComesIs, HeardMoving

LEMMA MovesHeard ==
    ASSUME Base, Base', Standing, Heard, NEW s \in Slots,
           \/ \E answer \in {"200", "401", "403"} \cup Disturbances : VerifyAccess(s, answer)
           \/ LoadForWatch(s) \/ Load(s) \/ RefreshGoogleToken(s)
           \/ \E a \in Accounts : Disconnect(s, a) \/ TakeWalk(s, a)
           \/ \E j \in renewals : TakeRenewal(s, j)
    PROVE  Heard'
<1>1. SlotsFit /\ slot \in [Slots -> Slot] /\ slot[s] \in Slot
    BY DEF Base, SlotsFit
<1>2. ASSUME NEW answer, VerifyAccess(s, answer) PROVE Heard'
    <2>1. /\ slot[s].step = "verify" /\ UNCHANGED <<route, till, clock, row, grant, withdrawn, crossed>>
          /\ mistaken \subseteq mistaken'
        BY <1>2 DEF VerifyAccess, At, watchVars
    <2>2. Finish(s) \/ \E found : slot' = [slot EXCEPT ![s].of = found, ![s].step = "store"]
        BY <1>2 DEF VerifyAccess
    <2>3. Others(s) /\ slot'[s].step # "record"
        <3>1. CASE Finish(s)
            BY <1>1, <3>1, StepsAre
        <3>2. ASSUME NEW found, slot' = [slot EXCEPT ![s].of = found, ![s].step = "store"]
              PROVE  Others(s) /\ slot'[s].step # "record"
            BY <1>1, <3>2 DEF Others, Slot
        <3> QED BY <2>2, <3>1, <3>2
    <2> QED BY <2>1, <2>3, HeardByMove
<1>3. CASE LoadForWatch(s)
    <2>1. /\ slot[s].step = "load"
          /\ UNCHANGED <<route, till, clock, row, grant, withdrawn, crossed, mistaken>>
          /\ Leave(s, "excuse") \/ Loaded(s, row[slot[s].of])
        BY <1>3 DEF LoadForWatch, Loaded, At, tokenVars, watchVars, historyVars
    <2>2. Others(s) /\ slot'[s].step # "record"
        BY <1>1, <2>1, StepsAre
    <2> QED BY <2>1, <2>2, HeardByMove
<1>4. CASE Load(s)
    <2>1. /\ slot[s].step = "load"
          /\ UNCHANGED <<route, till, clock, row, grant, withdrawn, crossed, mistaken>>
          /\ Leave(s, "drop") \/ Finish(s) \/ Loaded(s, row[slot[s].of])
        BY <1>4 DEF Load, Dies, Loaded, At, tokenVars, historyVars
    <2>2. Others(s) /\ slot'[s].step # "record"
        BY <1>1, <2>1, StepsAre
    <2> QED BY <2>1, <2>2, HeardByMove
<1>5. CASE RefreshGoogleToken(s)
    <2>1. /\ slot[s].step = "call" /\ Refreshed(s, "call")
          /\ UNCHANGED <<route, till, clock, row, grant, withdrawn, crossed, mistaken>>
        BY <1>5 DEF RefreshGoogleToken, CanRefresh, At, watchVars, historyVars
    <2>2. Others(s) /\ slot'[s].step # "record"
        BY <1>1, <2>1, StepsAre
    <2> QED BY <2>1, <2>2, HeardByMove
<1>6. ASSUME NEW a \in Accounts, Disconnect(s, a) \/ TakeWalk(s, a) PROVE Heard'
    <2>1. UNCHANGED <<route, till, clock, row, grant, withdrawn, crossed, mistaken>>
        BY <1>6 DEF Disconnect, TakeWalk, tokenVars, watchVars, historyVars
    <2>2. \E w : Begin(s, w) /\ w.step # "record"
        <3>1. CASE Disconnect(s, a)
            <4> DEFINE w == [Work("disconnect", a, "stop") EXCEPT !.access = row[a].access, !.fresh = row[a].fresh]
            <4>1. Begin(s, w)
                BY <3>1 DEF Disconnect
            <4>2. w.step = "stop"
                BY DEF Work
            <4> QED BY <4>1, <4>2
        <3>2. CASE TakeWalk(s, a)
            BY <3>2 DEF TakeWalk, Work
        <3> QED BY <1>6, <3>1, <3>2
    <2>3. Others(s) /\ slot[s].step = "idle" /\ slot'[s].step # "record"
        BY <1>1, <2>2, StepsAre
    <2> QED BY <2>1, <2>3, HeardByMove
<1>7. ASSUME NEW j \in renewals, TakeRenewal(s, j) PROVE Heard'
    <2>1. UNCHANGED <<route, till, clock, row, grant, withdrawn, crossed, mistaken>>
        BY <1>7 DEF TakeRenewal, tokenVars, historyVars
    <2>2. \E w : Begin(s, w) /\ w.step # "record"
        <3> DEFINE w == [Work("renew", j[1], "load") EXCEPT !.due = j[2]]
        <3>1. Begin(s, w)
            BY <1>7 DEF TakeRenewal
        <3>2. w.step = "load"
            BY DEF Work
        <3> QED BY <3>1, <3>2
    <2>3. Others(s) /\ slot[s].step = "idle" /\ slot'[s].step # "record"
        BY <1>1, <2>2, StepsAre
    <2> QED BY <2>1, <2>3, HeardByMove
<1> QED BY <1>2, <1>3, <1>4, <1>5, <1>6, <1>7

LEMMA CallbackHeard ==
    ASSUME Base, Base', Standing, Heard, NEW s \in Slots, NEW a \in Accounts, NEW g \in Grants, Callback(s, a, g) PROVE Heard'
<1> DEFINE w == [Work("link", a, "verify") EXCEPT !.access = g, !.refresh = g, !.fresh = TRUE]
<1>1. UNCHANGED <<route, till, clock, row, withdrawn, crossed, mistaken>>
    BY DEF Callback, watchVars, historyVars
<1>2. \A h \in Grants : grant[h].state # "none" => grant'[h] = grant[h]
    BY DEF Callback, ExchangeCode, Granted, Base, TypeOK
<1>3. Begin(s, w)
    BY DEF Callback
<1>4. w.step = "verify"
    BY DEF Work
<1> HIDE DEF w
<1>5. Others(s) /\ slot[s].step = "idle" /\ slot'[s].step = "verify"
    BY <1>3, <1>4, StepsAre DEF Base
<1>6. RowsAs
    BY <1>1 DEF RowsAs
<1>7. Steady
    BY <1>6, RowsAsKept DEF RowsKept
<1>8. NoneComes
    BY <1>2, <1>7, NoneComesIs
<1> QED BY <1>1, <1>5, <1>8, HeardMoving

LEMMA RefreshMicrosoftHeard ==
    ASSUME Base, Base', Standing, Heard, NEW s \in Slots, RefreshMicrosoftToken(s) PROVE Heard'
<1> DEFINE g == slot[s].refresh
<1>1. UNCHANGED <<route, till, clock, row, withdrawn, crossed, mistaken>>
    BY DEF RefreshMicrosoftToken, watchVars, historyVars
<1>2. /\ slot[s].step = "call" /\ \E step \in {"persist", "call"} : Refreshed(s, step)
      /\ grant' = [grant EXCEPT ![g].state = "rotated"]
    BY DEF RefreshMicrosoftToken, CanRefresh, At
<1>3. Others(s) /\ slot'[s].step # "record"
    BY <1>2, StepsAre DEF Base
<1>4. \A h \in Grants : grant'[h].state = "good" => grant'[h] = grant[h]
    <2>1. ASSUME NEW h \in Grants, h = g, grant'[h].state = "good" PROVE grant'[h] = grant[h]
        <3>1. grant[h] \in [opens : Boxes, state : {"good", "rotated", "retired", "revoked"}]
                           \cup {[opens |-> NoAccount, state |-> "none"]}
            BY DEF Base, TypeOK
        <3>2. grant'[h] = [grant[h] EXCEPT !.state = "rotated"]
            BY <1>2, <2>1 DEF Base, TypeOK
        <3>3. grant'[h].state = "rotated"
            BY <3>1, <3>2
        <3> QED BY <2>1, <3>3
    <2>2. \A h \in Grants : h # g => grant'[h] = grant[h]
        BY <1>2 DEF Base, TypeOK
    <2> QED BY <2>1, <2>2
<1>5. RowsAs
    BY <1>1 DEF RowsAs
<1>6. Steady
    BY <1>5, RowsAsKept DEF RowsKept
<1>7. NoneComes
    BY <1>4, <1>6, NoneComesIs
<1> QED BY <1>1, <1>2, <1>3, <1>7, HeardMoving

LEMMA WritesHeard ==
    ASSUME Base, Base', Standing, Heard, NEW s \in Slots,
           PersistRefreshedToken(s) \/ FallBack(s) \/ MarkReauthRequired(s)
           \/ \E answer, g : FetchChanges(s, answer, g)
    PROVE  Heard'
<1>1. SlotsFit
    BY DEF Base
<1>2. CASE PersistRefreshedToken(s)
    <2>1. slot[s].step = "persist" /\ Goto(s, "call") /\ UNCHANGED <<route, till, clock, grant>>
        BY <1>2 DEF PersistRefreshedToken, At, tokenVars, watchVars
    <2> QED BY <1>1, <1>2, <2>1, StepsAre, PersistRefreshedStanding, HeardByWrite
<1>3. CASE FallBack(s)
    <2>1. slot[s].step = "excuse" /\ Finish(s) /\ UNCHANGED <<route, till, clock, grant>>
        BY <1>3 DEF FallBack, At, tokenVars, watchVars
    <2> QED BY <1>1, <1>3, <2>1, StepsAre, FallBackStanding, HeardByWrite
<1>4. CASE MarkReauthRequired(s)
    <2>1. /\ slot[s].step = "mark" /\ (Leave(s, "drop") \/ Finish(s))
          /\ UNCHANGED <<route, till, clock, grant>>
        BY <1>4 DEF MarkReauthRequired, At, tokenVars, watchVars
    <2>2. Others(s) /\ slot'[s].step # "record"
        BY <1>1, <2>1, StepsAre
    <2> QED BY <1>4, <2>1, <2>2, MarkStanding, HeardByWrite
<1>5. ASSUME NEW answer, NEW g, FetchChanges(s, answer, g) PROVE Heard'
    <2>1. /\ slot[s].step = "call" /\ (Leave(s, "mark") \/ Finish(s))
          /\ UNCHANGED <<route, till, clock, grant>>
        BY <1>5 DEF FetchChanges, At, watchVars
    <2>2. Others(s) /\ slot'[s].step # "record"
        BY <1>1, <2>1, StepsAre
    <2> QED BY <1>5, <2>1, <2>2, FetchStanding, HeardByWrite
<1> QED BY <1>2, <1>3, <1>4, <1>5

LEMMA GlobalHeard ==
    ASSUME Base, Base', Standing, Heard,
           \/ Tick \/ \E b \in Boxes : Sweep(b)
           \/ \E g \in Grants : Retire(g)
           \/ \E p \in persisting : PersistUnawaited(p)
    PROVE  Heard'
<1>1. CASE Tick
    <2>1. UNCHANGED <<grant, mistaken, crossed, withdrawn, route, till>> /\ clock' = clock + 1
        BY <1>1 DEF Tick, historyVars, watchVars
    <2>2. RowsAs
        BY <1>1, <2>1 DEF Tick, Base, TypeOK, Row, RowsAs
    <2>3. \A r \in Slots : Alike(r)
        BY <1>1 DEF Tick, Base, TypeOK, Slot, Alike
    <2>4. NoneComes
        BY <2>1, <2>2, RowsAsKept, NoneComesIs DEF RowsKept
    <2> QED BY <2>1, <2>3, <2>4, HeardQuietly
<1>2. ASSUME NEW b \in Boxes, Sweep(b) PROVE Heard'
    <2>1. UNCHANGED <<grant, row, slot, clock, route, till, withdrawn, crossed, mistaken>>
        BY <1>2 DEF Sweep, historyVars, tokenVars
    <2>2. \A r \in Slots : Alike(r)
        BY <2>1 DEF Alike
    <2> QED BY <2>1, <2>2, NoRowNoneComes, HeardQuietly
<1>3. ASSUME NEW g \in Grants, Retire(g) PROVE Heard'
    <2>1. UNCHANGED <<row, slot, clock, route, till, crossed, mistaken>> /\ withdrawn \subseteq withdrawn'
        BY <1>3 DEF Retire, watchVars
    <2>2. RowsAs /\ \A r \in Slots : Alike(r)
        BY <2>1 DEF RowsAs, Alike
    <2>3. \A h \in Grants : grant'[h].state = "good" => grant[h].state = "good"
        <3>1. grant[g] \in [opens : Boxes, state : {"good", "rotated", "retired", "revoked"}]
            BY <1>3 DEF Retire, Base, TypeOK
        <3>2. \A h \in Grants : grant'[h] = grant[h] \/ grant'[h].state = "retired"
            BY <1>3, <3>1 DEF Retire, Base, TypeOK
        <3> QED BY <3>2
    <2>4. NoneComes
        BY <2>2, <2>3, RowsAsKept, NoneComesIs DEF RowsKept
    <2> QED BY <2>1, <2>2, <2>4, HeardQuietly
<1>4. ASSUME NEW p \in persisting, PersistUnawaited(p) PROVE Heard'
    <2>1. UNCHANGED <<grant, slot, clock, route, till>>
        BY <1>4 DEF PersistUnawaited, watchVars
    <2>2. \A r \in Slots : Alike(r)
        BY <2>1 DEF Alike
    <2> QED BY <1>4, <2>1, <2>2, PersistUnawaitedStanding, NoneComesIs, HeardQuietly
<1> QED BY <1>1, <1>2, <1>3, <1>4

\* The grant a good mailbox stands on opens it.
LEMMA GoodOpens ==
    ASSUME Base, Standing, NEW a \in Accounts, Good(a)
    PROVE  row[a].refresh \in Grants /\ grant[row[a].refresh].opens = Box(a)
<1>1. row[a].refresh # None
    BY DEF Good, Standing, SameToken
<1> QED BY <1>1 DEF Good, Base, Own, RowsOwn, Owns

LEMMA RevokeHeard == ASSUME Base, Base', Standing, Heard, NEW b \in Boxes, Revoke(b) PROVE Heard'
<1>1. UNCHANGED <<row, slot, clock, route, crossed, mistaken>> /\ withdrawn \subseteq withdrawn' /\ till' = [till EXCEPT ![b] = 0]
    BY DEF Revoke
<1>2. RowsAs /\ \A r \in Slots : Alike(r)
    BY <1>1 DEF RowsAs, Alike
<1>3. \A h \in Grants : grant'[h].state = "good" => grant'[h] = grant[h] /\ grant[h].opens # b
    <2>1. ASSUME NEW h \in Grants, grant[h].opens = b PROVE grant'[h].state = "revoked"
        <3>1. grant[h] \in [opens : Boxes, state : {"good", "rotated", "retired", "revoked"}]
            BY <2>1, MailboxesAssumption DEF Base, TypeOK
        <3> QED BY <2>1, <3>1 DEF Revoke
    <2>2. \A h \in Grants : grant[h].opens # b => grant'[h] = grant[h]
        BY DEF Revoke
    <2> QED BY <2>1, <2>2
<1>4. NoneComes
    BY <1>2, <1>3, RowsAsKept, NoneComesIs DEF RowsKept
<1>5. /\ clock \in Int /\ clock <= clock' /\ clock >= 0
      /\ \A c \in Boxes : till[c] \in Int /\ till'[c] = IF c = b THEN 0 ELSE till[c]
    BY <1>1, Clocked DEF Base, TypeOK
<1>6. Routed' /\ TillBound'
    BY <1>1, <1>5, MailboxBoundsAssumption DEF Heard, Routed, TillBound
<1>7. ASSUME NEW a \in Accounts PROVE Watched(a)'
    <2>1. Box(a) \in Boxes /\ Watched(a)
        BY AccountIs DEF Heard
    <2>2. Good(a)' => Good(a) /\ Box(a) # b
        <3> SUFFICES ASSUME Good(a)' PROVE Good(a) /\ Box(a) # b
            OBVIOUS
        <3>1. Good(a) /\ row[a].refresh \in Grants /\ grant[row[a].refresh].opens = Box(a)
            BY <1>4, GoodOpens DEF NoneComes
        <3> QED BY <1>1, <1>3, <3>1 DEF Good
    <2> QED BY <1>1, <1>2, <1>5, <2>1, <2>2, WatchedStays
<1> QED BY <1>6, <1>7 DEF Heard

\* Who holds a mailbox is the one it is good for.
LEMMA HeldByOne ==
    ASSUME Base, Standing, NEW a \in Accounts, Good(a), NEW s \in Slots, Holds(slot[s]), slot[s].of \in Accounts,
           slot[s].of # a
    PROVE  Box(slot[s].of) # Box(a)
BY DEF Standing, Alone, Good

LEMMA StopWatchHeard == ASSUME Base, Base', Standing, Heard, NEW s \in Slots, StopWatch(s) PROVE Heard'
<1> DEFINE c == slot[s].of
<1>1. /\ slot[s].step = "stop" /\ ~At(s, "idle") /\ Leave(s, "wipe")
      /\ UNCHANGED <<row, grant, clock, route, crossed, mistaken, withdrawn>>
    BY DEF StopWatch, At, tokenVars, historyVars
<1>2. c \in Accounts /\ Box(c) \in Boxes /\ slot[s].task = "disconnect" /\ Owns(grant, mistaken, c, slot[s].access)
    BY <1>1, AtWork DEF StepOf
<1>3. Others(s) /\ slot'[s].step = "wipe" /\ slot'[s].of = c
    BY <1>1, StepsAre DEF Base
<1>4. NoneComes
    BY <1>1, NoRowNoneComes
<1>5. till' = till \/ till' = [till EXCEPT ![Box(c)] = 0]
    <2>1. \/ till' = till
          \/ OfGmail(s) /\ slot[s].access # None /\ till' = [till EXCEPT ![grant[slot[s].access].opens] = 0]
        BY DEF StopWatch
    <2>2. OfGmail(s) /\ slot[s].access # None => grant[slot[s].access].opens = Box(c)
        BY <1>2 DEF Owns, OfGmail
    <2> QED BY <2>1, <2>2
<1>6. /\ clock \in Int /\ clock <= clock' /\ clock >= 0
      /\ \A b \in Boxes : till[b] \in Int /\ (till'[b] = till[b] \/ (b = Box(c) /\ till'[b] = 0))
    BY <1>1, <1>5, Clocked DEF Base, TypeOK
<1>7. Routed' /\ TillBound'
    BY <1>1, <1>6, MailboxBoundsAssumption DEF Heard, Routed, TillBound
<1>8. ASSUME NEW a \in Accounts PROVE Watched(a)'
    <2>1. CASE a = c
        BY <1>3, <2>1 DEF Watched, Leaving
    <2>2. CASE a # c
        <3>1. Box(a) \in Boxes /\ Watched(a)
            BY AccountIs DEF Heard
        <3>2. Good(a) => Box(c) # Box(a)
            BY <1>2, <2>2, HeldByOne DEF Holds
        <3>3. \A r \in Slots : Alike(r) \/ (r = s /\ slot[r].of # a /\ slot'[r].of # a)
            BY <1>3, <2>2, OthersAlike
        <3> QED BY <1>1, <1>4, <1>6, <3>1, <3>2, <3>3, WatchedStays DEF NoneComes
    <2> QED BY <2>1, <2>2
<1> QED BY <1>7, <1>8 DEF Heard

LEMMA WipeHeard == ASSUME Base, Base', Standing, Heard, NEW s \in Slots, Wipe(s) PROVE Heard'
<1> DEFINE c == slot[s].of
<1>1. /\ slot[s].step = "wipe" /\ ~At(s, "idle") /\ Leave(s, "drop")
      /\ UNCHANGED <<grant, clock, route, till>>
    BY DEF Wipe, At, tokenVars, watchVars
<1>2. c \in Accounts
    BY <1>1, AtWork
<1>3. row'[c].gone
    BY <1>2 DEF Wipe, Base, TypeOK, Row
<1>4. Others(s) /\ slot'[s].of = c
    BY <1>1, StepsAre DEF Base
<1>5. NoneComes
    BY <1>1, WipeStanding, NoneComesIs
<1>6. /\ clock \in Int /\ \A b \in Boxes : till[b] \in Int
    BY Clocked
<1>7. Routed' /\ TillBound'
    BY <1>1 DEF Heard, Routed, TillBound
<1>8. ASSUME NEW a \in Accounts PROVE Watched(a)'
    <2>1. CASE a = c
        BY <1>3, <2>1 DEF Watched, Good, Present
    <2>2. CASE a # c
        <3>1. Box(a) \in Boxes /\ Watched(a)
            BY AccountIs DEF Heard
        <3>2. \A r \in Slots : Alike(r) \/ (r = s /\ slot[r].of # a /\ slot'[r].of # a)
            BY <1>4, <2>2, OthersAlike
        <3> QED BY <1>1, <1>5, <1>6, <3>1, <3>2, WatchedStays DEF NoneComes
    <2> QED BY <2>1, <2>2
<1> QED BY <1>7, <1>8 DEF Heard

LEMMA StoreHeard == ASSUME Base, Base', Standing, Heard, NEW s \in Slots, Store(s) PROVE Heard'
<1> DEFINE c == slot[s].of
<1>1. /\ c \in Accounts /\ slot[s].step = "store"
      /\ \A a \in Accounts : a # c => row'[a] = row[a]
      /\ Others(s) /\ slot'[s].step = "route" /\ slot'[s].of = c
      /\ crossed \subseteq crossed' /\ UNCHANGED <<grant, route, till>>
      /\ Box(c) \notin crossed' => \A r \in Slots : r # s /\ slot[r].step # "idle" => Box(slot[r].of) # Box(c)
    BY StoreIs
<1>2. UNCHANGED clock
    BY DEF Store
<1>3. /\ clock \in Int /\ \A b \in Boxes : till[b] \in Int
    BY Clocked
<1>4. Routed' /\ TillBound'
    BY <1>1, <1>2 DEF Heard, Routed, TillBound
<1>5. ASSUME NEW a \in Accounts PROVE Watched(a)'
    <2>1. CASE a = c
        <3> SUFFICES ASSUME Good(a)' PROVE Routing(a)' /\ Awaited(a)'
            BY DEF Watched
        <3>1. Routing(a)'
            BY <1>1, <2>1 DEF Routing
        <3>2. Box(c) \notin crossed'
            BY <2>1 DEF Good
        <3>3. \A r \in Slots : slot'[r].of = a => slot'[r].step # "record"
            BY <1>1, <2>1, <3>2 DEF Others
        <3> QED BY <3>1, <3>3 DEF Awaited
    <2>2. CASE a # c
        <3>1. Box(a) \in Boxes /\ Watched(a)
            BY AccountIs DEF Heard
        <3>2. Good(a)' => Good(a)
            BY <1>1, <2>2 DEF Good, Present
        <3>3. \A r \in Slots : Alike(r) \/ (r = s /\ slot[r].of # a /\ slot'[r].of # a)
            BY <1>1, <2>2, OthersAlike
        <3> QED BY <1>1, <1>2, <1>3, <3>1, <3>2, <3>3, WatchedStays
    <2> QED BY <2>1, <2>2
<1> QED BY <1>4, <1>5 DEF Heard

LEMMA RouteHeard == ASSUME Base, Base', Standing, Heard, NEW s \in Slots, Route(s) PROVE Heard'
<1> DEFINE c == slot[s].of
<1>1. /\ slot[s].step = "route" /\ ~At(s, "idle") /\ Leave(s, "load")
      /\ UNCHANGED <<row, grant, clock, till, crossed, mistaken, withdrawn>>
    BY DEF Route, At, tokenVars, historyVars
<1>2. c \in Accounts /\ Box(c) \in Boxes /\ slot[s].task = "link"
    BY <1>1, AtWork DEF StepOf
<1>3. Others(s) /\ slot'[s].step = "load" /\ slot'[s].of = c
    BY <1>1, StepsAre DEF Base
<1>4. NoneComes
    BY <1>1, NoRowNoneComes
<1>5. /\ route'[Box(c)].to = c /\ route'[Box(c)].expires = None
      /\ \A b \in Boxes : b # Box(c) => route'[b] = route[b]
    BY <1>2 DEF Route, Base, TypeOK
<1>6. /\ clock \in Int /\ \A b \in Boxes : till[b] \in Int
    BY Clocked
<1>7. Routed' /\ TillBound'
    BY <1>1, <1>5 DEF Heard, Routed, TillBound
<1>8. ASSUME NEW a \in Accounts PROVE Watched(a)'
    <2>1. CASE a = c
        <3> SUFFICES ASSUME Good(a)', ~Leaving(a)' PROVE Covered(a)' /\ Awaited(a)'
            BY DEF Watched
        <3>1. Good(a) /\ ~Leaving(a)
            BY <1>1, <1>3, <1>4 DEF NoneComes, Leaving, Others
        <3>2. Awaited(a)
            BY <3>1 DEF Heard, Watched
        <3>3. Awaited(a)'
            BY <1>1, <1>3, <3>2 DEF Awaited, Others
        <3>4. Covered(a)'
            BY <1>5, <2>1 DEF Covered
        <3> QED BY <3>3, <3>4
    <2>2. CASE a # c
        <3>1. Box(a) \in Boxes /\ Watched(a)
            BY AccountIs DEF Heard
        <3>2. Good(a) => Box(c) # Box(a)
            BY <1>1, <1>2, <2>2, HeldByOne DEF Holds
        <3>3. \A r \in Slots : Alike(r) \/ (r = s /\ slot[r].of # a /\ slot'[r].of # a)
            BY <1>3, <2>2, OthersAlike
        <3> QED BY <1>1, <1>4, <1>5, <1>6, <3>1, <3>2, <3>3, WatchedStays DEF NoneComes
    <2> QED BY <2>1, <2>2
<1> QED BY <1>7, <1>8 DEF Heard

LEMMA DropRouteHeard == ASSUME Base, Base', Standing, Heard, NEW s \in Slots, DropRoute(s) PROVE Heard'
<1> DEFINE c == slot[s].of
<1>1. /\ slot[s].step = "drop" /\ ~At(s, "idle") /\ Finish(s)
      /\ UNCHANGED <<row, grant, clock, till, crossed, mistaken, withdrawn>>
    BY DEF DropRoute, At, tokenVars, historyVars
<1>2. c \in Accounts
    BY <1>1, AtWork
<1>3. Others(s) /\ slot'[s].of = NoAccount
    BY <1>1, FinishIs, IdleIs DEF Base
<1>4. NoneComes
    BY <1>1, NoRowNoneComes
<1>5. \A b \in Boxes : route'[b] = IF route[b].to = c THEN NoRoute ELSE route[b]
    BY DEF DropRoute
<1>6. /\ clock \in Int /\ \A b \in Boxes : till[b] \in Int
    BY Clocked
<1>7. Routed' /\ TillBound'
    BY <1>1, <1>5 DEF Heard, Routed, TillBound, NoRoute
<1>8. ASSUME NEW a \in Accounts PROVE Watched(a)'
    <2>1. CASE a = c
        <3>1. Blamed(c) \/ row[c].status = "none"
            BY <1>1, <1>2 DEF Standing, Refused
        <3>2. ~Good(c)
            BY <3>1 DEF Blamed, Good, Present
        <3> QED BY <1>4, <2>1, <3>2 DEF Watched, NoneComes
    <2>2. CASE a # c
        <3>1. Box(a) \in Boxes /\ Watched(a)
            BY AccountIs DEF Heard
        <3>2. route'[Box(a)] = route[Box(a)] \/ route[Box(a)].to # a
            BY <1>5, <2>2, <3>1
        <3>3. \A r \in Slots : Alike(r) \/ (r = s /\ slot[r].of # a /\ slot'[r].of # a)
            BY <1>3, <2>2, OthersAlike, AccountIs
        <3> QED BY <1>1, <1>4, <1>6, <3>1, <3>2, <3>3, WatchedStays DEF NoneComes
    <2> QED BY <2>1, <2>2
<1> QED BY <1>7, <1>8 DEF Heard

\* A watch, or that there is none, is recorded with the route: what is recorded has been set up.
LEMMA ExpiresHeard ==
    ASSUME Base, Base', Standing, Heard, NEW s \in Slots, NEW time, route' = Expires(slot[s].of, time), Finish(s),
           UNCHANGED <<till, clock, grant>>, Steady,
           \/ slot[s].step = "unavailable" /\ time = None
           \/ slot[s].step = "record" /\ time = slot[s].due
    PROVE  Heard'
<1> DEFINE c == slot[s].of
<1>1. ~At(s, "idle") /\ slot[s].step \notin {"wipe", "route"}
    BY DEF At
<1>2. c \in Accounts
    BY <1>1, AtWork
<1>3. Others(s) /\ slot'[s].of = NoAccount
    BY FinishIs, IdleIs DEF Base
<1>4. NoneComes
    BY NoneComesIs
<1>5. \A b \in Boxes : /\ route[b].to # c => route'[b] = route[b]
                       /\ route[b].to = c => route'[b].to = c /\ route'[b].expires = time
    BY DEF Expires, Base, TypeOK
<1>6. /\ clock \in Int /\ \A b \in Boxes : till[b] \in Int
    BY Clocked
<1>7. Routed' /\ TillBound'
    BY <1>5 DEF Heard, Routed, TillBound
<1>8. ASSUME NEW a \in Accounts PROVE Watched(a)'
    <2>1. Box(a) \in Boxes /\ Watched(a)
        BY AccountIs DEF Heard
    <2>2. CASE a = c
        <3> SUFFICES ASSUME Good(a)', ~Leaving(a)' PROVE (Routing(a)' \/ Covered(a)') /\ Awaited(a)'
            BY DEF Watched
        <3>1. Good(a) /\ ~Leaving(a) /\ (Routing(a) => Routing(a)')
            BY <1>1, <1>3, <1>4 DEF NoneComes, Leaving, Routing, Others
        <3>2. (Routing(a) \/ Covered(a)) /\ Awaited(a)
            BY <2>1, <3>1 DEF Watched
        <3>3. Awaited(a)'
            BY <1>2, <1>3, <2>2, <3>2, AccountIs DEF Awaited, Others
        <3>4. time = None \/ till[Box(a)] >= time
            BY <2>2, <3>2 DEF Awaited
        <3>5. Covered(a) => Covered(a)'
            BY <1>5, <2>1, <2>2, <3>4 DEF Covered
        <3> QED BY <3>1, <3>2, <3>3, <3>5
    <2>3. CASE a # c
        <3>1. route'[Box(a)] = route[Box(a)] \/ route[Box(a)].to # a
            BY <1>5, <2>1, <2>3
        <3>2. \A r \in Slots : Alike(r) \/ (r = s /\ slot[r].of # a /\ slot'[r].of # a)
            BY <1>3, <2>3, OthersAlike, AccountIs
        <3> QED BY <1>4, <1>6, <2>1, <3>1, <3>2, WatchedStays DEF NoneComes
    <2> QED BY <2>2, <2>3
<1> QED BY <1>7, <1>8 DEF Heard

LEMMA RecordHeard ==
    ASSUME Base, Base', Standing, Heard, NEW s \in Slots, RecordWatch(s) \/ RecordRenewed(s) \/ RecordUnavailable(s)
    PROVE  Heard'
<1>1. CASE RecordWatch(s) \/ RecordRenewed(s)
    <2>1. /\ slot[s].step = "record" /\ Finish(s) /\ UNCHANGED <<till, clock, grant>>
          /\ route' = Expires(slot[s].of, slot[s].due)
        BY <1>1 DEF RecordWatch, RecordRenewed, At, tokenVars
    <2> QED BY <1>1, <2>1, RecordWatchStanding, ExpiresHeard
<1>2. CASE RecordUnavailable(s)
    <2>1. /\ slot[s].step = "unavailable" /\ Finish(s) /\ UNCHANGED <<till, clock, grant, row, crossed, withdrawn, mistaken>>
          /\ route' = Expires(slot[s].of, None)
        BY <1>2 DEF RecordUnavailable, At, tokenVars, historyVars
    <2>2. RowsAs
        BY <2>1 DEF RowsAs
    <2>3. Steady
        BY <2>2, RowsAsKept DEF RowsKept
    <2> QED BY <2>1, <2>3, ExpiresHeard
<1> QED BY <1>1, <1>2

\* A watch that is set up is one of the handler's own mailbox, and lasts as long as any.
LEMMA WatchHeard ==
    ASSUME Base, Base', Standing, Heard, NEW s \in Slots, slot[s].step = "call", StepOf(slot[s].task, "record"),
           NEW g, Called(s, slot[s].of, TRUE, "200", g), Watch(s, g),
           UNCHANGED <<clock, row, grant, route, mistaken, crossed, withdrawn>>
    PROVE  Heard'
<1> DEFINE c == slot[s].of
<1>1. ~At(s, "idle") /\ c \in Accounts
    BY AtWork DEF At
<1>2. /\ Others(s) /\ slot'[s].step = "record" /\ slot'[s].of = c /\ slot'[s].due = clock + Lasts
    BY <1>1, WatchIs
<1>3. NoneComes
    BY NoRowNoneComes
<1>4. clock \in Int /\ clock + Lasts \in Int /\ \A b \in Boxes : till[b] \in Int
    BY Clocked, MailboxBoundsAssumption
<1>5. \A b \in Boxes : \/ till'[b] = till[b] /\ (b \notin Gmail \/ grant[g].opens # b)
                       \/ till'[b] = clock + Lasts
    BY DEF Watch, GmailWatch, Base, TypeOK
<1>6. \A b \in Boxes : till[b] <= till'[b] /\ till'[b] <= clock + Lasts
    BY <1>4, <1>5 DEF Heard, TillBound
<1>7. Routed' /\ TillBound'
    BY <1>6 DEF Heard, Routed, TillBound
<1>8. Good(c) => till'[Box(c)] = clock + Lasts
    <2> SUFFICES ASSUME Good(c) PROVE till'[Box(c)] = clock + Lasts
        OBVIOUS
    <2>1. Present(c) /\ Box(c) \notin crossed /\ Box(c) \in Gmail /\ Box(c) \in Boxes
        BY <1>1, AccountIs DEF Good
    <2>2. slot[s].access = row[c].refresh
        BY <2>1, InHandIs
    <2>3. g = AccessToken(s, c)
        BY DEF Called
    <2>4. g = slot[s].access
        BY <1>1, <2>1, <2>3, AccessIs DEF OfGmail
    <2>5. grant[g].opens = Box(c)
        BY <1>1, <2>2, <2>4, GoodOpens
    <2> QED BY <1>5, <2>1, <2>5
<1>9. ASSUME NEW a \in Accounts PROVE Watched(a)'
    <2>1. Box(a) \in Boxes /\ Watched(a)
        BY AccountIs DEF Heard
    <2>2. till'[Box(a)] >= till[Box(a)]
        BY <1>4, <1>5, <1>6, <2>1
    <2>3. Good(a) => \A r \in Slots :
              \/ Alike(r)
              \/ /\ slot[r].of = a => slot[r].step \notin {"wipe", "route"}
                 /\ slot'[r].of = a /\ slot'[r].step = "record" => till'[Box(a)] >= slot'[r].due
        BY <1>2, <1>4, <1>8, OthersAlike
    <2> QED BY <1>3, <1>4, <2>1, <2>2, <2>3, WatchedStays DEF NoneComes
<1> QED BY <1>7, <1>9 DEF Heard

LEMMA CallsHeard ==
    ASSUME Base, Base', Standing, Heard, NEW s \in Slots, NEW answer, NEW g,
           StartWatching(s, answer, g) \/ RenewWatch(s, answer, g)
    PROVE  Heard'
<1>1. /\ slot[s].step = "call" /\ slot[s].task \in {"link", "renew"} /\ Called(s, slot[s].of, TRUE, answer, g)
      /\ UNCHANGED <<clock, row, grant, route, mistaken, crossed, withdrawn>>
    BY DEF StartWatching, RenewWatch, At, Doing, historyVars
<1>2. CASE answer = "200"
    <2>1. Watch(s, g) /\ StepOf(slot[s].task, "record")
        BY <1>1, <1>2 DEF StartWatching, RenewWatch, StepOf
    <2> QED BY <1>1, <1>2, <2>1, WatchHeard
<1>3. CASE answer # "200"
    <2>1. UNCHANGED till /\ (Finish(s) \/ \E step \in {"excuse", "mark", "unavailable"} : Leave(s, step))
        <3>1. CASE StartWatching(s, answer, g)
            BY <1>3, <3>1 DEF StartWatching
        <3>2. CASE RenewWatch(s, answer, g)
            BY <1>3, <3>2 DEF RenewWatch, Dies, Retries
        <3> QED BY <3>1, <3>2
    <2>2. Others(s) /\ slot'[s].step # "record"
        BY <2>1, StepsAre DEF Base
    <2> QED BY <1>1, <2>1, <2>2, HeardByMove
<1> QED BY <1>2, <1>3

LEMMA CrashHeard == ASSUME Base, Base', Standing, Heard, NEW s \in Slots, Crash(s) PROVE Heard'
<1> DEFINE c == slot[s].of
<1>1. /\ ~At(s, "idle") /\ Finish(s) /\ UNCHANGED <<row, grant, clock, route, till, mistaken, withdrawn>>
      /\ crossed \subseteq crossed' /\ (Process(s) = "api" => Box(c) \in crossed')
    BY DEF Crash, Retries, tokenVars
<1>2. c \in Accounts /\ (slot[s].step \in {"wipe", "route"} => Box(c) \in crossed')
    BY <1>1, AtWork DEF StepOf, Process
<1>3. Others(s) /\ slot'[s].of = NoAccount
    BY <1>1, FinishIs, IdleIs DEF Base
<1>4. NoneComes
    BY <1>1, NoRowNoneComes
<1>5. /\ clock \in Int /\ \A b \in Boxes : till[b] \in Int
    BY Clocked
<1>6. Routed' /\ TillBound'
    BY <1>1 DEF Heard, Routed, TillBound
<1>7. ASSUME NEW a \in Accounts PROVE Watched(a)'
    <2>1. Box(a) \in Boxes /\ Watched(a)
        BY AccountIs DEF Heard
    <2>2. Good(a)' => \A r \in Slots :
              \/ Alike(r)
              \/ /\ slot[r].of = a => slot[r].step \notin {"wipe", "route"}
                 /\ slot'[r].of # a
        BY <1>2, <1>3, OthersAlike, AccountIs DEF Good
    <2> QED BY <1>1, <1>4, <1>5, <2>1, <2>2, WatchedStays DEF NoneComes
<1> QED BY <1>6, <1>7 DEF Heard

LEMMA RecordFailsHeard == ASSUME Base, Base', Standing, Heard, NEW s \in Slots, RecordFails(s) PROVE Heard'
<1>1. /\ slot[s].step = "record" /\ (Leave(s, "excuse") \/ Finish(s))
      /\ UNCHANGED <<row, grant, clock, route, till, mistaken, crossed, withdrawn>>
    BY DEF RecordFails, Retries, At, tokenVars, historyVars
<1>2. Others(s) /\ slot'[s].step # "record"
    BY <1>1, StepsAre DEF Base
<1> QED BY <1>1, <1>2, HeardByMove

LEMMA HeardStep == Base /\ Base' /\ Standing /\ Heard /\ [Next]_vars => Heard'
<1> SUFFICES ASSUME Base, Base', Standing, Heard, [Next]_vars PROVE Heard'
    OBVIOUS
<1>1. CASE UNCHANGED vars
    <2>1. UNCHANGED <<clock, route, till, grant, row, slot, crossed, withdrawn, mistaken>>
        BY <1>1 DEF vars, tokenVars, watchVars, historyVars
    <2>2. \A r \in Slots : Alike(r)
        BY <2>1 DEF Alike
    <2> QED BY <2>1, <2>2, NoRowNoneComes, HeardQuietly
<1>2. CASE \/ Tick \/ \E g \in Grants : Retire(g)
           \/ \E b \in Boxes : Revoke(b) \/ Sweep(b)
           \/ \E p \in persisting : PersistUnawaited(p)
    BY <1>2, GlobalHeard, RevokeHeard
<1>3. ASSUME NEW s \in Slots, Starting(s) PROVE Heard'
    BY <1>3, CallbackHeard, MovesHeard DEF Starting
<1>4. ASSUME NEW s \in Slots, Linking(s) PROVE Heard'
    BY <1>4, MovesHeard, StoreHeard, RouteHeard, RecordHeard, WritesHeard DEF Linking
<1>5. ASSUME NEW s \in Slots, Calling(s) PROVE Heard'
    BY <1>5, MovesHeard, RefreshMicrosoftHeard, WritesHeard, CallsHeard DEF Calling
<1>6. ASSUME NEW s \in Slots,
             \/ StopWatch(s) \/ Wipe(s) \/ DropRoute(s) \/ Load(s) \/ RecordRenewed(s)
             \/ RecordFails(s) \/ RecordUnavailable(s) \/ MarkReauthRequired(s) \/ Crash(s)
      PROVE  Heard'
    BY <1>6, StopWatchHeard, WipeHeard, DropRouteHeard, MovesHeard, RecordHeard, RecordFailsHeard, WritesHeard, CrashHeard
<1> QED BY <1>1, <1>2, <1>3, <1>4, <1>5, <1>6 DEF Next

\* For any users, boxes, consents and requests in flight: when nothing is under way for it, a Gmail mailbox
\* that is connected for its user alone and whose grant stands has its route, and is polled, or its watch
\* is due, or Gmail pushes for as long as the route says (AccountLinkingService.link, SyncProcessor.renew, sweepPolling).
THEOREM NeverLeftDeaf == Spec => []NeverDeaf
<1>1. Heard => NeverDeaf
    <2> SUFFICES ASSUME Heard, NEW a \in Accounts,
                        Box(a) \in Gmail \ crossed, Quiet(Box(a)), row[a].status = "active", ~row[a].gone,
                        grant[row[a].refresh].state = "good"
                 PROVE  Covered(a)
        BY DEF NeverDeaf, Covered
    <2>1. Good(a) /\ Watched(a)
        BY DEF Good, Present, Heard
    <2>2. ~Leaving(a) /\ ~Routing(a)
        BY AccountIs DEF Quiet, Leaving, Routing
    <2> QED BY <2>1, <2>2 DEF Watched
<1>2. Base /\ Standing /\ Heard /\ [Next]_vars => (Base /\ Standing /\ Heard)'
    BY BaseNext, StandingStep, HeardStep
<1> QED BY <1>1, <1>2, BaseInit, StandingInit, HeardInit, PTL DEF Spec
=============================================================================
