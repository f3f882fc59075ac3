------------------------------ MODULE Calendar ------------------------------
(***************************************************************************)
(* Times of day as one user means them: the times chosen for digests, and  *)
(* the moments messages are snoozed to.  Both are kept in the user's own   *)
(* time zone, whose clocks are put forward or back, while the sweeps that  *)
(* act on them run on the server's clock.                                  *)
(*                                                                         *)
(* An instant is a number of units since the epoch, and so is what a clock *)
(* on the user's wall reads: the day and the time of day are its quotient  *)
(* and its remainder by the length of a day.                               *)
(***************************************************************************)
EXTENDS Integers

CONSTANTS
    Day,             \* units in a day
    Week, Month,     \* days in a week, and those "next month" stands for (30)
    SweepEvery,      \* units between two sweeps
    MaxClock,
    Zones,           \* time zones, with the one change of clocks a behaviour sees
    Choices,         \* the sets of times a user may choose for digests
    Requests,        \* what users say when they snooze a message
    Hours,           \* the times "morning", "afternoon", "evening" and nothing stand for
    Shortest, Longest,  \* of the snoozes that are honoured
    Disturbances, MaxDisturbed

DisturbanceKinds == {
    "missed",        \* the worker is down when a sweep is due
    "again",         \* a sweep that failed half way is run once more
    "delayed",       \* digests wait in the queue while time goes on
    "chosen" }       \* the user chooses other times

ASSUME CalendarAssumption ==
    Day \in Nat \ {0} /\ Week \in Nat \ {0} /\ Month \in Nat /\ SweepEvery \in Nat \ {0} /\ MaxClock \in Nat
ASSUME ZonesAssumption ==  \* by a day at most, and for longer than that when it is forward
    \A z \in Zones : /\ z.known \in BOOLEAN /\ z.standard \in Int /\ z.from \in Int /\ z.to \in Int
                    /\ z.gain \in -Day..Day /\ z.gain <= z.to - z.from
ASSUME SnoozeAssumption == Shortest \in Nat \ {0} /\ Longest \in Nat
ASSUME RequestsAssumption ==
    \A r \in Requests :
        \/ r.kind = "delay" /\ r.count \in Nat
        \/ r.kind = "clock" /\ r.time \in 0..Day - 1
        \/ /\ r.kind = "named" /\ r.name \in {"today", "tomorrow", "next week", "next month", "weekday"}
           /\ r.day \in 0..Week - 1 /\ r.next \in BOOLEAN /\ r.time \in Int /\ Hours[r.part] \in 0..Day - 1
ASSUME CalendarDisturbances == Disturbances \subseteq DisturbanceKinds /\ MaxDisturbed \in Nat

Never == 0

VARIABLES
    zone,         \* users.timezone
    times,        \* user_preferences.digestTimes
    clock,
    swept,        \* the sweep of this slot has run, or was missed
    waiting,      \* since when mail is held back for the user, if any is
    texted,       \* the user has a row of conversation_states: written by their first message
    lastDigest,   \* its lastDigestAt
    jobs,         \* digest jobs in the queue, by the instant they were enqueued
    enqueued,     \* a job was enqueued under this slot's id
    late,         \* the queue is not keeping up
    told,         \* history: when a digest was last sent
    missed,       \* history: when a sweep was last missed
    chosen,       \* history: when times were last chosen
    disturbed

digestVars == <<waiting, texted, lastDigest, jobs, enqueued>>
historyVars == <<told, missed, chosen, disturbed>>
vars == <<zone, times, clock, swept, digestVars, late, historyVars>>

(***************************************************************************)
(* Clocks.                                                                 *)
(***************************************************************************)
OffsetAt(z, at) == z.standard + (IF z.from <= at /\ at < z.to THEN z.gain ELSE 0)
WallClock(z, at) == at + OffsetAt(z, at)
DayOf(reading) == reading \div Day
LocalTime(reading) == reading % Day
Weekday(reading) == DayOf(reading) % Week

\* The instant at which the clock reads this: a guess corrected twice.
InstantOf(z, reading) ==
    LET first == OffsetAt(z, reading)
        second == OffsetAt(z, reading - first) IN
    IF second = first THEN reading - first ELSE reading - second

(***************************************************************************)
(* "Until Monday": the instant a snooze ends, or none when what was said   *)
(* cannot be honoured and the user is asked again.                         *)
(***************************************************************************)
Bounded(at, now) == {t \in {at} : Shortest <= t - now /\ t - now <= Longest}

Relative(r, now) == IF r.kind = "delay" THEN Bounded(now + r.count, now) ELSE {}

\* Wrong: "until Monday", said on a Monday, ends at once.
DaysUntilToday(r, weekday) ==
    CASE r.name = "today"    -> 0
      [] r.name = "tomorrow" -> 1
      [] r.name = "next week" -> Week
      [] r.name = "next month" -> Month
      [] r.name = "weekday"  -> (r.day - weekday) % Week

DaysUntil(r, weekday) ==
    CASE r.name = "today"    -> 0
      [] r.name = "tomorrow" -> 1
      [] r.name = "next week" -> Week
      [] r.name = "next month" -> Month
      [] r.name = "weekday"  ->
            LET ahead == IF r.day = weekday THEN Week ELSE (r.day - weekday) % Week IN
            IF r.next /\ ahead < Week THEN ahead + Week ELSE ahead

TimeSaid(r) == IF r.time \in 0..Day - 1 THEN r.time ELSE Hours[r.part]

Named(r, z, now) ==
    IF r.kind # "named" THEN {}
    ELSE LET local == WallClock(z, now) IN
         Bounded(InstantOf(z, (DayOf(local) + DaysUntil(r, Weekday(local))) * Day + TimeSaid(r)), now)

ClockOnly(r, z, now) ==
    IF r.kind # "clock" THEN {}
    ELSE LET today == InstantOf(z, DayOf(WallClock(z, now)) * Day + r.time) IN
         Bounded(IF today > now THEN today
                 ELSE InstantOf(z, (DayOf(WallClock(z, now)) + 1) * Day + r.time), now)

ParseSnoozeTime(r, z, now) ==
    Relative(r, now) \cup (IF z.known THEN Named(r, z, now) \cup ClockOnly(r, z, now) ELSE {})

(***************************************************************************)
(* Digests: whether a chosen time has passed since the last one.           *)
(***************************************************************************)
IsSameLocalDay(z, a, b) == DayOf(WallClock(z, a)) = DayOf(WallClock(z, b))

\* Wrong: yesterday's digest counts for today.
DueByTimeAlone(now) ==
    /\ zone.known
    /\ \E time \in times :
          /\ LocalTime(WallClock(zone, now)) >= time
          /\ ~(lastDigest # Never /\ LocalTime(WallClock(zone, lastDigest)) >= time)

\* Wrong: the last digest is forgotten, and the backlog alone decides.
DueByBacklog(now) ==
    zone.known /\ \E time \in times : LocalTime(WallClock(zone, now)) >= time

IsDigestDue(now) ==
    /\ zone.known
    /\ \E time \in times :
          /\ LocalTime(WallClock(zone, now)) >= time
          /\ ~(lastDigest # Never /\ IsSameLocalDay(zone, lastDigest, now)
               /\ LocalTime(WallClock(zone, lastDigest)) >= time)

\* Times that cannot be read are refused.
Accepted(choice) == choice \subseteq 0..Day - 1

Disturb(kind) == kind \in Disturbances /\ disturbed < MaxDisturbed /\ disturbed' = disturbed + 1

Init ==
    /\ zone \in Zones /\ times \in {choice \in Choices : Accepted(choice)}
    /\ clock = Day /\ swept = FALSE /\ waiting = Never /\ texted = FALSE /\ lastDigest = Never
    /\ jobs = {} /\ enqueued = FALSE /\ late = FALSE
    /\ told = Never /\ missed = Never /\ chosen = Never /\ disturbed = 0

\* The scheduler's slots are multiples of the interval, on the server's clock.
NewSlot(at) == at % SweepEvery = 0
SweepDue == NewSlot(clock) /\ ~swept

Tick ==
    /\ clock < MaxClock /\ ~SweepDue /\ (jobs = {} \/ late)
    /\ clock' = clock + 1
    /\ swept' = (swept /\ ~NewSlot(clock')) /\ enqueued' = (enqueued /\ ~NewSlot(clock'))
    /\ UNCHANGED <<zone, times, waiting, texted, lastDigest, jobs, late, historyVars>>

Delay ==
    /\ jobs # {} /\ ~late /\ Disturb("delayed") /\ late' = TRUE
    /\ UNCHANGED <<zone, times, clock, swept, digestVars, told, missed, chosen>>

Miss ==
    /\ SweepDue /\ Disturb("missed")
    /\ swept' = TRUE /\ missed' = clock
    /\ UNCHANGED <<zone, times, clock, digestVars, late, told, chosen>>

\* Mail is held back for the user.
Defer ==
    /\ waiting = Never /\ waiting' = clock
    /\ UNCHANGED <<zone, times, clock, swept, texted, lastDigest, jobs, enqueued, late, historyVars>>

\* recordDigestSent updates the row there is, if any.
RecordDigestSent(row) == told' = clock /\ lastDigest' = IF row THEN clock ELSE lastDigest

\* As much as fits is shown; outside the window the user is only told that
\* mail is waiting.
Digest(row) == waiting' \in {Never, waiting} /\ RecordDigestSent(row)

\* The user writes: the window opens, and a digest of what is waiting is asked
\* for, unless one was in the last hour or the queue refuses it.
Write ==
    /\ waiting # Never \/ ~texted
    /\ texted' = TRUE
    /\ \/ waiting # Never /\ Digest(TRUE)
       \/ UNCHANGED <<waiting, lastDigest, told>>
    /\ UNCHANGED <<zone, times, clock, swept, jobs, enqueued, late, missed, chosen, disturbed>>

\* The user deals with the mail elsewhere.
DealWith ==
    /\ waiting # Never /\ waiting' = Never
    /\ UNCHANGED <<zone, times, clock, swept, texted, lastDigest, jobs, enqueued, late, historyVars>>

\* Stored as a set.
Update(choice) ==
    /\ choice # times /\ Accepted(choice) /\ Disturb("chosen")
    /\ times' = choice /\ chosen' = clock
    /\ UNCHANGED <<zone, clock, swept, digestVars, late, told, missed>>

DigestCandidate == waiting # Never

\* The id of the job names the slot: the queue takes it once.
SweepDigests ==
    /\ \/ SweepDue /\ UNCHANGED disturbed
       \/ swept /\ Disturb("again")
    /\ swept' = TRUE
    /\ IF DigestCandidate /\ IsDigestDue(clock) /\ ~enqueued
       THEN jobs' = jobs \cup {clock} /\ enqueued' = TRUE
       ELSE UNCHANGED <<jobs, enqueued>>
    /\ UNCHANGED <<zone, times, clock, waiting, texted, lastDigest, late, told, missed, chosen>>

SendDigest(j) ==
    /\ j \in jobs /\ jobs' = jobs \ {j}
    /\ late' = (late /\ jobs' # {})
    /\ IF waiting = Never THEN UNCHANGED <<waiting, lastDigest, told>> ELSE Digest(texted)
    /\ UNCHANGED <<zone, times, clock, swept, texted, enqueued, missed, chosen, disturbed>>

Next ==
    \/ Tick \/ Delay \/ Miss \/ Defer \/ Write \/ DealWith
    \/ \E choice \in Choices : Update(choice)
    \/ SweepDigests \/ \E j \in jobs : SendDigest(j)

Spec == Init /\ [][Next]_vars

TypeOK ==
    /\ zone \in Zones /\ times \in Choices
    /\ clock \in Nat /\ swept \in BOOLEAN /\ waiting \in Nat
    /\ texted \in BOOLEAN /\ lastDigest \in Nat /\ told \in Nat
    /\ jobs \subseteq Nat /\ enqueued \in BOOLEAN /\ late \in BOOLEAN
    /\ missed \in Nat /\ chosen \in Nat /\ disturbed \in 0..MaxDisturbed

(***************************************************************************)
(* Properties.  They are told in instants: when the user's clock reads a   *)
(* time is found by looking at it, not by computing back.                  *)
(***************************************************************************)
Reading(u) == LocalTime(WallClock(zone, u))
Earlier(u) == {v \in u - Day..u - 1 : IsSameLocalDay(zone, v, u)}
\* When a clock first reads a time, or has been put past it, each day.
FirstReadings(time) ==
    {u \in 1..clock : Reading(u) >= time /\ \A v \in Earlier(u) : Reading(v) < time}

\* When it comes to a time: twice, when the clock is put back over it.
Comings(time) ==
    {u \in -Day..clock : Reading(u) >= time /\ (IsSameLocalDay(zone, u - 1, u) => Reading(u - 1) < time)}

\* When the last digest was sent; before the first, two days ago will do.
DigestBefore(j) == IF told = Never THEN j - 2 * Day ELSE told

NextSweep(u) == IF u % SweepEvery = 0 THEN u ELSE u + SweepEvery - (u % SweepEvery)
\* The day is over by the next sweep, or the clock has been put back before
\* the time by then: the first is how a digest chosen for shortly before
\* midnight is never sent.
SlipsAway(time, u) == ~IsSameLocalDay(zone, u, NextSweep(u)) \/ Reading(NextSweep(u)) < time

\* Mail that is waiting when a chosen time comes is sent, or told of, by the
\* sweep after it, wherever the user is and however the clocks change.
TimesServed ==
    zone.known /\ jobs = {} /\ ~SweepDue /\ waiting # Never =>
        \A time \in times : \A u \in FirstReadings(time) :
            waiting < u /\ chosen < u /\ missed < u /\ NextSweep(u) <= clock =>
                told >= u \/ SlipsAway(time, u)

\* A scheduled digest has a time of its own, which came since the one before
\* (for the first, in the last two days) and before it was asked for: mail that comes a minute after a digest waits for the next time.
\* (One whose job was enqueued before the last digest was sent may follow it.
\* A user who has not written since their number was verified has no row to
\* record a digest in, and is told of waiting mail at every sweep.)
DigestHasItsTime ==
    [][ \A j \in jobs : jobs' = jobs \ {j} /\ told' # told =>
            \/ j <= told \/ chosen > told \/ lastDigest < told
            \/ \E time \in times : \E u \in Comings(time) : DigestBefore(j) < u /\ u <= j ]_vars

\* The instants at which the clock reads this: none in the hour it skips, two
\* in the hour it is put back by.
ReadAt(reading) ==
    {u \in {reading - zone.standard, reading - zone.standard - zone.gain} : WallClock(zone, u) = reading}
OneReading(u) == ReadAt(WallClock(zone, u)) = {u}
\* The clock reads what was said when the message comes back; when it skips
\* that reading, it is out by as much as it is put forward.
ReadsLike(at, reading) ==
    IF ReadAt(reading) # {} THEN WallClock(zone, at) = reading
    ELSE WallClock(zone, at) \in {reading - zone.gain, reading + zone.gain}

\* An answer depends on the zone and the clock alone, so that it is enough to
\* ask at each of them once, whatever became of digests.
AtRest == waiting = Never /\ lastDigest = Never /\ disturbed = 0

\* A snoozed message comes back when the user said, on the user's own clock: a
\* time of day the next time it is read, a weekday on the first such day after
\* today.
SnoozeAsMeant == AtRest =>
    \A r \in Requests : \A at \in ParseSnoozeTime(r, zone, clock) :
        LET today == DayOf(WallClock(zone, clock)) IN
        /\ at > clock
        /\ r.kind = "clock" =>
              /\ \E day \in {today, today + 1} : ReadsLike(at, day * Day + r.time)
              /\ \A u \in clock + 1..at - 1 : OneReading(u) => Reading(u) # r.time
        /\ r.kind = "named" =>
              \E ahead \in IF r.name = "next month" THEN {Month} ELSE 0..2 * Week :
                  /\ ReadsLike(at, (today + ahead) * Day + TimeSaid(r))
                  /\ r.name = "weekday" => ahead > 0 /\ (today + ahead) % Week = r.day
                  /\ r.name = "weekday" /\ ~r.next => ahead <= Week
=============================================================================
