--------------------------- MODULE CalendarProofs ---------------------------
(***************************************************************************)
(* Calendar for days and weeks of any length, any zone whose clocks change *)
(* by a day at most, any times, any requests and any interval between      *)
(* sweeps: when a digest is sent, that none is missing, and when a snooze  *)
(* ends.                                                                   *)
(***************************************************************************)
EXTENDS Calendar, TLAPS

-----------------------------------------------------------------------------
(***************************************************************************)
(* Days and times of day.                                                  *)
(***************************************************************************)
\* A quotient and a remainder are known by what they make up.
LEMMA Division ==
    ASSUME NEW n \in Nat \ {0}, NEW q \in Int, NEW r \in 0..n - 1
    PROVE  (n * q + r) \div n = q /\ (n * q + r) % n = r
OBVIOUS

\* A reading is its day and its time of day.
LEMMA Clockwork ==
    ASSUME NEW x \in Int
    PROVE  /\ DayOf(x) \in Int /\ LocalTime(x) \in 0..Day - 1
           /\ x = Day * DayOf(x) + LocalTime(x)
BY CalendarAssumption DEF DayOf, LocalTime

\* A day's readings lie together, and differ as their times of day do.
LEMMA SameDay ==
    ASSUME NEW x \in Int, NEW y \in Int, DayOf(x) = DayOf(y)
    PROVE  LocalTime(y) - LocalTime(x) = y - x /\ y - x < Day
<1>1. /\ x = Day * DayOf(x) + LocalTime(x) /\ y = Day * DayOf(x) + LocalTime(y)
      /\ LocalTime(x) \in 0..Day - 1 /\ LocalTime(y) \in 0..Day - 1 /\ DayOf(x) \in Int
  BY Clockwork
<1> DEFINE start == Day * DayOf(x)
<1>2. start \in Int
  BY <1>1, CalendarAssumption
<1> HIDE DEF start
<1>3. x = start + LocalTime(x) /\ y = start + LocalTime(y)
  BY <1>1 DEF start
<1>4. LocalTime(x) \in 0..Day - 1 /\ LocalTime(y) \in 0..Day - 1
  BY <1>1
<1> QED
  BY <1>2, <1>3, <1>4, CalendarAssumption

\* A reading's day has every time of day.
LEMMA DayAround ==
    ASSUME NEW x \in Int, NEW t \in 0..Day - 1
    PROVE  DayOf(x - LocalTime(x) + t) = DayOf(x) /\ LocalTime(x - LocalTime(x) + t) = t
<1>1. DayOf(x) \in Int /\ x = Day * DayOf(x) + LocalTime(x) /\ LocalTime(x) \in Int
  BY Clockwork
<1>2. Day * DayOf(x) \in Int /\ x - LocalTime(x) + t = Day * DayOf(x) + t
  BY <1>1, CalendarAssumption
<1>3. (Day * DayOf(x) + t) \div Day = DayOf(x) /\ (Day * DayOf(x) + t) % Day = t
  BY <1>1, CalendarAssumption, Division
<1> QED
  BY <1>2, <1>3 DEF DayOf, LocalTime

\* The reading before it is on the same day, unless the day begins.
LEMMA ReadingBefore ==
    ASSUME NEW x \in Int
    PROVE  DayOf(x - 1) = DayOf(x) <=> LocalTime(x) > 0
<1>1. LocalTime(x) \in 0..Day - 1 /\ LocalTime(x - 1) \in 0..Day - 1
  BY Clockwork
<1>2. CASE LocalTime(x) > 0
  <2>1. LocalTime(x) - 1 \in 0..Day - 1 /\ x - LocalTime(x) + (LocalTime(x) - 1) = x - 1
    BY <1>1, <1>2, CalendarAssumption
  <2> QED
    BY <1>2, <2>1, DayAround
<1>3. CASE ~(LocalTime(x) > 0)
  <2>1. ASSUME DayOf(x - 1) = DayOf(x) PROVE FALSE
    <3>1. LocalTime(x) - LocalTime(x - 1) = x - (x - 1)
      BY <2>1, SameDay
    <3> QED
      BY <1>1, <1>3, <3>1, CalendarAssumption
  <2> QED
    BY <1>3, <2>1
<1> QED
  BY <1>2, <1>3

\* A reading between two of a day is of that day.
LEMMA DayBetween ==
    ASSUME NEW x \in Int, NEW y \in Int, x - LocalTime(x) <= y, y <= x
    PROVE  DayOf(y) = DayOf(x) /\ LocalTime(y) = LocalTime(x) - (x - y)
<1>1. LocalTime(x) \in 0..Day - 1
  BY Clockwork
<1> DEFINE t == LocalTime(x) - (x - y)
<1>2. t \in 0..Day - 1 /\ x - LocalTime(x) + t = y
  BY <1>1, CalendarAssumption
<1> HIDE DEF t
<1> QED
  BY <1>2, DayAround DEF t

\* The next sweep is in a slot of its own, or under way.
LEMMA NextSweepIsNext ==
    ASSUME NEW u \in Int
    PROVE  NextSweep(u) \in Int /\ u <= NextSweep(u) /\ NewSlot(NextSweep(u))
<1> DEFINE q == u \div SweepEvery
           r == u % SweepEvery
<1>1. q \in Int /\ r \in 0..SweepEvery - 1 /\ u = SweepEvery * q + r
  BY CalendarAssumption
<1> HIDE DEF q, r
<1>2. (SweepEvery * (q + 1) + 0) % SweepEvery = 0 /\ 0 \in 0..SweepEvery - 1
  BY <1>1, CalendarAssumption, Division
<1>3. CASE r = 0
  BY <1>1, <1>3 DEF NextSweep, NewSlot, r
<1>4. CASE r # 0
  <2>1. NextSweep(u) = u + SweepEvery - r
    BY <1>4 DEF NextSweep, r
  <2>2. SweepEvery * q \in Int /\ SweepEvery * (q + 1) = SweepEvery * q + SweepEvery
    BY <1>1, CalendarAssumption
  <2>3. NextSweep(u) = SweepEvery * (q + 1) + 0
    BY <1>1, <2>1, <2>2, CalendarAssumption
  <2> QED
    BY <1>1, <1>2, <2>1, <2>2, <2>3, CalendarAssumption DEF NewSlot
<1> QED
  BY <1>3, <1>4

-----------------------------------------------------------------------------
(***************************************************************************)
(* The user's clock.                                                       *)
(***************************************************************************)
ZoneOk == zone \in Zones

\* What the clock shows is the instant moved by the offset of the moment.
LEMMA ZoneFacts ==
    ASSUME ZoneOk
    PROVE  /\ zone.standard \in Int /\ zone.from \in Int /\ zone.to \in Int
           /\ zone.gain \in Int /\ -Day <= zone.gain /\ zone.gain <= Day
           /\ \A u \in Int : OffsetAt(zone, u) \in Int /\ WallClock(zone, u) \in Int
                             /\ WallClock(zone, u) = u + OffsetAt(zone, u)
           /\ \A u \in Int : Reading(u) = LocalTime(WallClock(zone, u)) /\ Reading(u) \in 0..Day - 1
<1>1. /\ zone.standard \in Int /\ zone.from \in Int /\ zone.to \in Int
      /\ zone.gain \in Int /\ -Day <= zone.gain /\ zone.gain <= Day
  BY ZonesAssumption, CalendarAssumption DEF ZoneOk
<1>2. \A u \in Int : OffsetAt(zone, u) \in Int
  BY <1>1 DEF OffsetAt
<1>3. \A u \in Int : WallClock(zone, u) \in Int /\ WallClock(zone, u) = u + OffsetAt(zone, u)
  BY <1>2 DEF WallClock
<1> QED
  BY <1>1, <1>2, <1>3, Clockwork DEF Reading

\* A time's first reading of a day.
FirstRead(time, u) == Reading(u) >= time /\ \A v \in Earlier(u) : Reading(v) < time

\* Before a time's first reading, no instant of that day has come to it.
LEMMA NothingEarlier ==
    ASSUME ZoneOk, NEW time \in 0..Day - 1, NEW l \in Int, NEW u \in Int, l < u, FirstRead(time, u),
           IsSameLocalDay(zone, l, u)
    PROVE  Reading(l) < time
<1> SUFFICES ASSUME Reading(l) >= time PROVE FALSE
  BY ZoneFacts
<1> DEFINE W(x) == WallClock(zone, x)
           off(x) == OffsetAt(zone, x)
<1>0. /\ zone.standard \in Int /\ zone.from \in Int /\ zone.to \in Int
      /\ zone.gain \in Int /\ -Day <= zone.gain /\ zone.gain <= Day
      /\ \A x \in Int : off(x) \in Int /\ W(x) \in Int /\ W(x) = x + off(x)
      /\ \A x \in Int : Reading(x) = LocalTime(W(x)) /\ Reading(x) \in 0..Day - 1
  BY ZoneFacts
<1>1. \A v \in Int : u - Day <= v /\ v < u /\ DayOf(W(v)) = DayOf(W(u)) => Reading(v) < time
  BY CalendarAssumption DEF FirstRead, Earlier, IsSameLocalDay
<1>2. DayOf(W(l)) = DayOf(W(u)) /\ l < u - Day
  <2>1. DayOf(W(l)) = DayOf(W(u))
    BY DEF IsSameLocalDay
  <2> QED
    BY <1>0, <1>1, <2>1, CalendarAssumption
<1>3. W(u) - W(l) < Day /\ Reading(u) - Reading(l) = W(u) - W(l)
  BY <1>0, <1>2, SameDay
<1>4. \E c \in Int : /\ l < c /\ c <= u
                     /\ \A x \in Int : l <= x /\ x < c => off(x) = off(l)
                     /\ \A x \in Int : c <= x /\ x <= u => off(x) = off(u)
  <2>1. off(l) > off(u)
    BY <1>0, <1>2, <1>3, CalendarAssumption
  <2>2. \A x \in Int : off(x) = IF zone.from <= x /\ x < zone.to THEN zone.standard + zone.gain ELSE zone.standard
    BY <1>0 DEF OffsetAt
  <2> HIDE DEF off, W
  <2>a. /\ off(l) = IF zone.from <= l /\ l < zone.to THEN zone.standard + zone.gain ELSE zone.standard
        /\ off(u) = IF zone.from <= u /\ u < zone.to THEN zone.standard + zone.gain ELSE zone.standard
        /\ zone.gain \in Int /\ zone.standard \in Int /\ zone.from \in Int /\ zone.to \in Int
    BY <1>0, <2>2
  <2>3. CASE zone.gain > 0
    <3>1. l < zone.to /\ zone.to <= u /\ zone.from <= l
      BY <2>1, <2>3, <2>a
    <3>2. \A x \in Int : l <= x /\ x < zone.to => off(x) = off(l)
      BY <2>2, <2>a, <3>1
    <3>3. \A x \in Int : zone.to <= x /\ x <= u => off(x) = off(u)
      BY <2>2, <2>a, <3>1
    <3>4. l < zone.to /\ zone.to <= u /\ zone.to \in Int
      BY <2>a, <3>1
    <3> QED
      BY <3>2, <3>3, <3>4
  <2>4. CASE ~(zone.gain > 0)
    <3>1. l < zone.from /\ zone.from <= u /\ u < zone.to
      BY <2>1, <2>4, <2>a
    <3>2. \A x \in Int : l <= x /\ x < zone.from => off(x) = off(l)
      BY <2>2, <2>a, <3>1
    <3>3. \A x \in Int : zone.from <= x /\ x <= u => off(x) = off(u)
      BY <2>2, <2>a, <3>1
    <3>4. l < zone.from /\ zone.from <= u /\ zone.from \in Int
      BY <2>a, <3>1
    <3> QED
      BY <3>2, <3>3, <3>4
  <2> QED
    BY <2>3, <2>4
<1>5. PICK c \in Int : /\ l < c /\ c <= u
                       /\ \A x \in Int : l <= x /\ x < c => off(x) = off(l)
                       /\ \A x \in Int : c <= x /\ x <= u => off(x) = off(u)
  BY <1>4
<1> DEFINE g == off(l) - off(u)
<1>6. g \in Int /\ 0 < g /\ g <= Day /\ u - l = W(u) - W(l) + g
  <2>1. off(l) \in {zone.standard, zone.standard + zone.gain} /\ off(u) \in {zone.standard, zone.standard + zone.gain}
    BY <1>0 DEF OffsetAt
  <2> QED
    BY <1>0, <1>2, <1>3, <2>1, CalendarAssumption
<1> HIDE DEF W, off, g
<1>7. CASE u = c
  <2>1. u - g \in Int /\ l <= u - g /\ u - g < c /\ u - Day <= u - g
    BY <1>2, <1>6, <1>7, CalendarAssumption
  <2>2. W(u - g) = W(u)
    <3>1. W(u - g) = u - g + off(l)
      BY <1>0, <1>5, <2>1
    <3> QED
      BY <1>0, <3>1 DEF g
  <2>3. Reading(u - g) = Reading(u)
    BY <1>0, <2>1, <2>2
  <2> QED
    BY <1>0, <1>1, <1>6, <2>1, <2>2, <2>3 DEF FirstRead
<1>8. CASE u # c
  <2>1. u - 1 \in Int /\ W(u - 1) = W(u) - 1
    BY <1>0, <1>5, <1>8
  <2>2. Reading(u) >= time
    BY DEF FirstRead
  <2>3. W(u) <= W(l)
    <3>1. CASE DayOf(W(u) - 1) = DayOf(W(u))
      <4>1. Reading(u - 1) < time
        BY <1>1, <2>1, <3>1, CalendarAssumption
      <4>2. Reading(u) - Reading(u - 1) = 1
        BY <1>0, <2>1, <3>1, SameDay
      <4> QED
        BY <1>0, <1>3, <2>1, <2>2, <4>1, <4>2
    <3>2. CASE DayOf(W(u) - 1) # DayOf(W(u))
      <4>1. Reading(u) = 0
        BY <1>0, <3>2, ReadingBefore
      <4> QED
        BY <1>0, <1>3, <4>1
    <3> QED
      BY <3>1, <3>2
  <2> QED
    BY <1>0, <1>2, <1>6, <2>3, CalendarAssumption
<1> QED
  BY <1>7, <1>8

\* The clock comes to a time, forwards or by being put past it.
Comes(time, u) == Reading(u) >= time /\ (IsSameLocalDay(zone, u - 1, u) => Reading(u - 1) < time)

\* From l to j the clock has come to the time, or has been past it on one day.
Since(time, l, j) ==
    \/ \E u \in Int : l < u /\ u <= j /\ Comes(time, u)
    \/ IsSameLocalDay(zone, l, j) /\ Reading(l) >= time

\* While the clocks do not change.
LEMMA SinceUnchanged ==
    ASSUME ZoneOk, NEW time \in 0..Day - 1, NEW l \in Int, NEW j \in Int, l <= j, Reading(j) >= time,
           \A x \in Int : l <= x /\ x <= j => OffsetAt(zone, x) = OffsetAt(zone, j)
    PROVE  Since(time, l, j)
<1> DEFINE W(x) == WallClock(zone, x)
<1>0. /\ \A x \in Int : W(x) \in Int /\ W(x) = x + OffsetAt(zone, x) /\ OffsetAt(zone, x) \in Int
      /\ \A x \in Int : Reading(x) = LocalTime(W(x)) /\ Reading(x) \in 0..Day - 1
  BY ZoneFacts
<1>1. \A x \in Int : l <= x /\ x <= j => W(x) = W(j) - (j - x)
  BY <1>0
<1>2. \A x, y : IsSameLocalDay(zone, x, y) <=> DayOf(W(x)) = DayOf(W(y))
  BY DEF IsSameLocalDay
<1> HIDE DEF W
<1> DEFINE u == j - Reading(j) + time
<1>3. u \in Int /\ u <= j
  BY <1>0, CalendarAssumption
<1>4. CASE l < u
  <2>1. W(u) \in Int /\ W(u) = W(j) - Reading(j) + time
    BY <1>0, <1>1, <1>3, <1>4
  <2>2. Reading(u) = time
    BY <1>0, <1>3, <2>1, DayAround
  <2>3. W(u - 1) = W(u) - 1 /\ u - 1 \in Int
    BY <1>0, <1>1, <1>3, <1>4, <2>1
  <2>4. ASSUME DayOf(W(u - 1)) = DayOf(W(u)) PROVE Reading(u - 1) < time
    <3>1. Reading(u) - Reading(u - 1) = W(u) - W(u - 1)
      BY <1>0, <1>3, <2>1, <2>3, <2>4, SameDay
    <3>2. Reading(u - 1) \in Int /\ Reading(u) \in Int
      BY <1>0, <1>3, <2>3
    <3> QED
      BY <2>1, <2>2, <2>3, <3>1, <3>2
  <2>5. Comes(time, u)
    BY <1>2, <2>2, <2>4 DEF Comes
  <2> QED
    BY <1>3, <1>4, <2>5 DEF Since
<1>5. CASE ~(l < u)
  <2>1. W(l) \in Int /\ W(j) \in Int /\ W(l) = W(j) - (j - l) /\ Reading(j) \in Int
    BY <1>0, <1>1
  <2>2. W(j) - LocalTime(W(j)) <= W(l) /\ W(l) <= W(j)
    BY <1>0, <1>3, <1>5, <2>1
  <2>3. DayOf(W(l)) = DayOf(W(j)) /\ LocalTime(W(l)) = LocalTime(W(j)) - (W(j) - W(l))
    BY <2>1, <2>2, DayBetween
  <2>4. Reading(l) >= time
    BY <1>0, <1>5, <2>1, <2>3
  <2> QED
    BY <1>2, <2>3, <2>4 DEF Since
<1> QED
  BY <1>4, <1>5

\* Over a change of clocks.
LEMMA SinceOver ==
    ASSUME ZoneOk, NEW time \in 0..Day - 1, NEW l \in Int, NEW j \in Int, NEW c \in Int, l < c, c <= j,
           Since(time, c, j), Reading(c - 1) >= time => Since(time, l, c - 1)
    PROVE  Since(time, l, j)
<1>0. \A x \in Int : Reading(x) \in Int
  BY ZoneFacts, CalendarAssumption
<1>1. CASE \E u \in Int : c < u /\ u <= j /\ Comes(time, u)
  BY <1>1 DEF Since
<1>2. CASE Comes(time, c)
  BY <1>2 DEF Since
<1>3. CASE IsSameLocalDay(zone, c, j) /\ Reading(c) >= time /\ ~Comes(time, c)
  <2>1. IsSameLocalDay(zone, c - 1, c) /\ Reading(c - 1) >= time
    BY <1>0, <1>3 DEF Comes
  <2>2. CASE \E u \in Int : l < u /\ u <= c - 1 /\ Comes(time, u)
    BY <2>2 DEF Since
  <2>3. CASE IsSameLocalDay(zone, l, c - 1) /\ Reading(l) >= time
    BY <1>3, <2>1, <2>3 DEF Since, IsSameLocalDay
  <2> QED
    BY <2>1, <2>2, <2>3 DEF Since
<1> QED
  BY <1>1, <1>2, <1>3 DEF Since

\* Whatever changes there are.
LEMMA SinceThen ==
    ASSUME ZoneOk, NEW time \in 0..Day - 1, NEW l \in Int, NEW j \in Int, l <= j, Reading(j) >= time
    PROVE  Since(time, l, j)
<1>0. /\ zone.standard \in Int /\ zone.from \in Int /\ zone.to \in Int /\ zone.gain \in Int
      /\ \A x \in Int : OffsetAt(zone, x) = zone.standard + (IF zone.from <= x /\ x < zone.to THEN zone.gain ELSE 0)
  BY ZoneFacts DEF OffsetAt
<1>1. ASSUME NEW a \in Int, NEW b \in Int, a <= b, b < zone.to, Reading(b) >= time
      PROVE  Since(time, a, b)
  <2>1. CASE a < zone.from /\ zone.from <= b
    <3>1. Since(time, zone.from, b)
      <4>1. \A x \in Int : zone.from <= x /\ x <= b => OffsetAt(zone, x) = OffsetAt(zone, b)
        BY <1>0, <1>1, <2>1
      <4> QED
        BY <1>0, <1>1, <2>1, <4>1, SinceUnchanged
    <3>2. Reading(zone.from - 1) >= time => Since(time, a, zone.from - 1)
      <4>1. \A x \in Int : a <= x /\ x <= zone.from - 1 => OffsetAt(zone, x) = OffsetAt(zone, zone.from - 1)
        BY <1>0, <1>1, <2>1
      <4>2. zone.from - 1 \in Int /\ a <= zone.from - 1
        BY <1>0, <2>1
      <4> QED
        BY <4>1, <4>2, SinceUnchanged
    <3> QED
      BY <1>0, <2>1, <3>1, <3>2, SinceOver
  <2>2. CASE ~(a < zone.from /\ zone.from <= b)
    <3>1. \A x \in Int : a <= x /\ x <= b => OffsetAt(zone, x) = OffsetAt(zone, b)
      BY <1>0, <1>1, <2>2
    <3> QED
      BY <1>1, <3>1, SinceUnchanged
  <2> QED
    BY <2>1, <2>2
<1>2. CASE j < zone.to
  BY <1>1, <1>2
<1>3. CASE zone.to <= l
  <2>1. \A x \in Int : l <= x /\ x <= j => OffsetAt(zone, x) = OffsetAt(zone, j)
    BY <1>0, <1>3
  <2> QED
    BY <2>1, SinceUnchanged
<1>4. CASE l < zone.to /\ zone.to <= j
  <2>1. Since(time, zone.to, j)
    <3>1. \A x \in Int : zone.to <= x /\ x <= j => OffsetAt(zone, x) = OffsetAt(zone, j)
      BY <1>0, <1>4
    <3> QED
      BY <1>0, <1>4, <3>1, SinceUnchanged
  <2>2. Reading(zone.to - 1) >= time => Since(time, l, zone.to - 1)
    <3>1. zone.to - 1 \in Int /\ l <= zone.to - 1 /\ zone.to - 1 < zone.to
      BY <1>0, <1>4
    <3> QED
      BY <1>1, <3>1
  <2> QED
    BY <1>0, <1>4, <2>1, <2>2, SinceOver
<1> QED
  BY <1>0, <1>2, <1>3, <1>4

\* Two days on the clock reads another day, whatever was changed.
LEMMA TwoDaysOn ==
    ASSUME ZoneOk, NEW j \in Int
    PROVE  ~IsSameLocalDay(zone, j - 2 * Day, j)
<1> SUFFICES ASSUME IsSameLocalDay(zone, j - 2 * Day, j) PROVE FALSE
  OBVIOUS
<1> DEFINE b == j - 2 * Day
<1>1. /\ b \in Int /\ WallClock(zone, b) \in Int /\ WallClock(zone, j) \in Int
      /\ WallClock(zone, b) = b + OffsetAt(zone, b) /\ WallClock(zone, j) = j + OffsetAt(zone, j)
  BY ZoneFacts, CalendarAssumption
<1>2. WallClock(zone, j) - WallClock(zone, b) < Day
  BY <1>1, SameDay DEF IsSameLocalDay
<1>3. /\ OffsetAt(zone, b) \in {zone.standard, zone.standard + zone.gain}
      /\ OffsetAt(zone, j) \in {zone.standard, zone.standard + zone.gain}
      /\ zone.standard \in Int /\ zone.gain \in Int /\ -Day <= zone.gain /\ zone.gain <= Day
  BY ZoneFacts DEF OffsetAt
<1> QED
  BY <1>1, <1>2, <1>3, CalendarAssumption

-----------------------------------------------------------------------------
(***************************************************************************)
(* What the state is.                                                      *)
(***************************************************************************)
Base ==
    /\ TypeOK
    /\ times \subseteq 0..Day - 1 /\ clock >= Day
    /\ lastDigest <= told /\ told <= clock
    /\ enqueued => swept

\* It is so when the user's number has just been verified.
LEMMA BaseInit == Init => Base
<1> SUFFICES ASSUME Init PROVE Base
  OBVIOUS
<1>1. times \in Choices /\ times \subseteq 0..Day - 1
  BY DEF Init, Accepted
<1>2. clock = Day /\ clock \in Nat /\ disturbed \in 0..MaxDisturbed
  BY CalendarAssumption, CalendarDisturbances DEF Init
<1>3. /\ zone \in Zones /\ jobs = {} /\ waiting = 0 /\ told = 0 /\ lastDigest = 0 /\ chosen = 0 /\ missed = 0
      /\ swept = FALSE /\ texted = FALSE /\ enqueued = FALSE /\ late = FALSE
  BY DEF Init, Never
<1>4. zone \in Zones /\ times \in Choices /\ jobs \subseteq Nat /\ disturbed \in 0..MaxDisturbed
  BY <1>1, <1>2, <1>3
<1>5. TypeOK
  BY <1>2, <1>3, <1>4 DEF TypeOK
<1> QED
  BY <1>1, <1>2, <1>3, <1>5, CalendarAssumption DEF Base

\* Every step leaves it so.
LEMMA BaseStep ==
    ASSUME Base, [Next]_vars
    PROVE  Base'
<1> USE CalendarAssumption, CalendarDisturbances DEF Base, TypeOK, digestVars, historyVars, Never
<1>1. CASE Tick
  BY <1>1 DEF Tick, NewSlot
<1>2. CASE Delay
  BY <1>2 DEF Delay, Disturb
<1>3. CASE Miss
  BY <1>3 DEF Miss, Disturb
<1>4. CASE Defer \/ DealWith
  <2>1. waiting' \in {Never, clock}
    BY <1>4 DEF Defer, DealWith
  <2>2. UNCHANGED <<zone, times, clock, swept, texted, lastDigest, jobs, enqueued, late, told, missed, chosen, disturbed>>
    BY <1>4 DEF Defer, DealWith
  <2> QED
    BY <2>1, <2>2
<1>5. CASE Write
  BY <1>5 DEF Write, Digest, RecordDigestSent
<1>6. ASSUME NEW choice \in Choices, Update(choice) PROVE Base'
  BY <1>6 DEF Update, Accepted, Disturb
<1>7. CASE SweepDigests
  <2>1. disturbed' \in 0..MaxDisturbed
    BY <1>7 DEF SweepDigests, Disturb
  <2>2. swept' = TRUE /\ jobs' \subseteq jobs \cup {clock} /\ enqueued' \in BOOLEAN
    BY <1>7 DEF SweepDigests
  <2>3. UNCHANGED <<zone, times, clock, waiting, texted, lastDigest, late, told, missed, chosen>>
    BY <1>7 DEF SweepDigests
  <2> QED
    BY <2>1, <2>2, <2>3
<1>8. ASSUME NEW j \in jobs, SendDigest(j) PROVE Base'
  <2>1. late' \in BOOLEAN /\ jobs' \subseteq Nat
    BY <1>8 DEF SendDigest
  <2>2. /\ waiting' \in Nat /\ lastDigest' \in Nat /\ told' \in Nat
        /\ lastDigest' <= told' /\ told' <= clock
    BY <1>8 DEF SendDigest, Digest, RecordDigestSent
  <2> QED
    BY <1>8, <2>1, <2>2 DEF SendDigest
<1>9. CASE UNCHANGED vars
  BY <1>9 DEF vars
<1> QED
  BY <1>1, <1>2, <1>3, <1>4, <1>5, <1>6, <1>7, <1>8, <1>9 DEF Next

\* Every variable keeps its type, in any zone and whatever is chosen.
THEOREM CalendarTypes == Spec => []TypeOK
<1>1. Base => TypeOK
  BY DEF Base
<1> QED
  BY <1>1, BaseInit, BaseStep, PTL DEF Spec

-----------------------------------------------------------------------------
(***************************************************************************)
(* Why a digest was asked for.                                             *)
(***************************************************************************)
\* A chosen time had come by the instant of a job, and was not behind the last digest.
HadCome(j) ==
    \E time \in times :
        /\ Reading(j) >= time
        /\ ~(lastDigest # Never /\ IsSameLocalDay(zone, lastDigest, j) /\ Reading(lastDigest) >= time)

\* It is as it was, unless a digest was sent or other times chosen.
Reasoned ==
    \A j \in jobs : j >= Day /\ j <= clock /\ (told < j /\ chosen < j => HadCome(j))

\* A job queued by a sweep has its reason, and keeps it while nothing is sent or chosen.
LEMMA ReasonedStep ==
    ASSUME Base, Reasoned, [Next]_vars
    PROVE  Reasoned'
<1> USE DEF Base, TypeOK, digestVars, historyVars
<1>1. ASSUME jobs' \subseteq jobs, zone' = zone, clock' >= clock,
             \/ UNCHANGED <<times, chosen>>
             \/ chosen' = clock,
             \/ UNCHANGED <<told, lastDigest>>
             \/ told' = clock
      PROVE  Reasoned'
  <2> SUFFICES ASSUME NEW j \in jobs'
               PROVE  j >= Day /\ j <= clock' /\ (told' < j /\ chosen' < j => HadCome(j)')
    BY DEF Reasoned
  <2>1. j \in jobs /\ j \in Nat /\ j <= clock /\ j >= Day /\ (told < j /\ chosen < j => HadCome(j))
    BY <1>1 DEF Reasoned
  <2>2. j <= clock'
    BY <1>1, <2>1, BaseStep, CalendarAssumption
  <2>3. ASSUME told' < j, chosen' < j PROVE HadCome(j)'
    <3>1. UNCHANGED <<times, chosen, told, lastDigest>>
      BY <1>1, <2>1, <2>3
    <3> QED
      BY <1>1, <2>1, <2>3, <3>1 DEF HadCome, Reading
  <2> QED
    BY <2>1, <2>2, <2>3
<1>2. CASE Tick
  BY <1>1, <1>2 DEF Tick
<1>3. CASE Delay \/ Miss \/ Defer \/ DealWith
  BY <1>1, <1>3 DEF Delay, Miss, Defer, DealWith
<1>4. CASE Write
  BY <1>1, <1>4 DEF Write, Digest, RecordDigestSent
<1>5. ASSUME NEW choice \in Choices, Update(choice) PROVE Reasoned'
  BY <1>1, <1>5 DEF Update
<1>6. CASE SweepDigests
  <2>1. CASE jobs' = jobs
    BY <1>1, <1>6, <2>1 DEF SweepDigests
  <2>2. CASE jobs' = jobs \cup {clock} /\ IsDigestDue(clock)
    <3>1. HadCome(clock)
      BY <2>2 DEF IsDigestDue, HadCome, Reading
    <3>2. \A j \in jobs' : HadCome(j)' <=> HadCome(j)
      BY <1>6 DEF SweepDigests, HadCome, Reading
    <3> QED
      BY <1>6, <2>2, <3>1, <3>2 DEF SweepDigests, Reasoned
  <2> QED
    BY <1>6, <2>1, <2>2 DEF SweepDigests
<1>7. ASSUME NEW j \in jobs, SendDigest(j) PROVE Reasoned'
  BY <1>1, <1>7 DEF SendDigest, Digest, RecordDigestSent
<1>8. CASE UNCHANGED vars
  BY <1>1, <1>8 DEF vars
<1> QED
  BY <1>2, <1>3, <1>4, <1>5, <1>6, <1>7, <1>8 DEF Next

\* Between two digests of the schedule the user's clock comes to a time they
\* chose, in any zone, however often a sweep is run and however late its jobs
\* are (isDigestDue, SweepService.sweepDigests).
THEOREM DigestsHaveTheirTime == Spec => DigestHasItsTime
<1>1. Init => Base /\ Reasoned
  BY BaseInit DEF Init, Reasoned
<1>2. Base /\ Reasoned /\ [Next]_vars => Base' /\ Reasoned'
  BY BaseStep, ReasonedStep
<1>3. ASSUME Base, Reasoned, [Next]_vars, NEW j \in jobs, jobs' = jobs \ {j}, told' # told,
             j > told, chosen <= told, lastDigest >= told
      PROVE  \E time \in times : \E u \in Comings(time) : DigestBefore(j) < u /\ u <= j
  <2>1. /\ j \in Nat /\ told \in Nat /\ chosen \in Nat /\ clock \in Nat /\ lastDigest = told /\ ZoneOk
        /\ j >= Day /\ j <= clock /\ HadCome(j)
        /\ Day \in Nat /\ Day > 0 /\ times \subseteq 0..Day - 1
    BY <1>3, CalendarAssumption DEF Base, TypeOK, Reasoned, ZoneOk
  <2>2. PICK time \in times :
            /\ Reading(j) >= time
            /\ ~(lastDigest # Never /\ IsSameLocalDay(zone, lastDigest, j) /\ Reading(lastDigest) >= time)
    BY <2>1 DEF HadCome
  <2>3. ASSUME NEW u \in Int, -Day <= u, u <= j, Comes(time, u) PROVE u \in Comings(time)
    BY <2>1, <2>3 DEF Comings, Comes
  <2>4. CASE told # Never
    <3>1. PICK u \in Int : told < u /\ u <= j /\ Comes(time, u)
      BY <1>3, <2>1, <2>2, <2>4, SinceThen DEF Since
    <3>2. u \in Comings(time)
      BY <2>1, <2>3, <3>1
    <3> QED
      BY <2>4, <3>1, <3>2 DEF DigestBefore
  <2>5. CASE told = Never
    <3>1. j - 2 * Day \in Int /\ j - 2 * Day <= j /\ -Day <= j - 2 * Day
      BY <2>1
    <3>2. PICK u \in Int : j - 2 * Day < u /\ u <= j /\ Comes(time, u)
      BY <2>1, <2>2, <3>1, SinceThen, TwoDaysOn DEF Since
    <3>3. u \in Comings(time)
      BY <2>1, <2>3, <3>1, <3>2
    <3> QED
      BY <2>5, <3>2, <3>3 DEF DigestBefore
  <2> QED
    BY <2>4, <2>5
<1>4. Base /\ Reasoned /\ [Next]_vars =>
        [\A j \in jobs : jobs' = jobs \ {j} /\ told' # told =>
            \/ j <= told \/ chosen > told \/ lastDigest < told
            \/ \E time \in times : \E u \in Comings(time) : DigestBefore(j) < u /\ u <= j]_vars
  <2> SUFFICES ASSUME Base, Reasoned, [Next]_vars, NEW j \in jobs, jobs' = jobs \ {j}, told' # told,
                      ~(j <= told \/ chosen > told \/ lastDigest < told)
               PROVE  \E time \in times : \E u \in Comings(time) : DigestBefore(j) < u /\ u <= j
    OBVIOUS
  <2>1. j > told /\ chosen <= told /\ lastDigest >= told
    BY DEF Base, TypeOK
  <2> QED
    BY <1>3, <2>1
<1> QED
  BY <1>1, <1>2, <1>4, PTL DEF Spec, DigestHasItsTime

-----------------------------------------------------------------------------
(***************************************************************************)
(* What waits when a chosen time comes is served.                          *)
(***************************************************************************)
\* The sweep that follows an instant is over.
Over(u) == NextSweep(u) < clock \/ (NextSweep(u) = clock /\ swept)

\* It served what waited since before, or queued a digest that will.
Served(time, u) ==
    FirstRead(time, u) /\ waiting < u /\ chosen < u /\ missed < u /\ Over(u)
        => told >= u \/ SlipsAway(time, u) \/ \E j \in jobs : j >= u

AllServed ==
    zone.known /\ waiting # Never => \A time \in times : \A u \in 1..clock : Served(time, u)

\* The sweep that serves a time queues a digest, unless the last one was as late.
LEMMA AllServedStep ==
    ASSUME Base, AllServed, [Next]_vars
    PROVE  AllServed'
<1> USE DEF Base, TypeOK, digestVars, historyVars
<1>0. ZoneOk /\ (1..clock)' \subseteq Int /\ Base' /\ clock \in Nat /\ clock >= 1
  BY BaseStep, CalendarAssumption DEF ZoneOk
<1>1. ASSUME UNCHANGED <<zone, times, clock, swept, waiting, jobs, told, missed, chosen>>
      PROVE  AllServed'
  BY <1>1 DEF AllServed, Served, FirstRead, Earlier, Reading, Over, SlipsAway
<1>2. ASSUME UNCHANGED <<zone, clock>>, waiting' = Never \/ waiting' = clock \/ told' = clock
                                        \/ missed' = clock \/ chosen' = clock
      PROVE  AllServed'
  BY <1>0, <1>2 DEF AllServed, Served
<1>3. CASE Tick
  <2> SUFFICES ASSUME zone'.known, waiting' # Never, NEW time \in times', NEW u \in (1..clock)', 
                      (FirstRead(time, u) /\ waiting < u /\ chosen < u /\ missed < u /\ Over(u))'
               PROVE  (told >= u \/ SlipsAway(time, u) \/ \E j \in jobs : j >= u)'
    BY DEF AllServed, Served
  <2>1. /\ UNCHANGED <<zone, times, waiting, jobs, told, missed, chosen>> /\ clock' = clock + 1
        /\ ~SweepDue /\ (swept' => swept /\ ~NewSlot(clock'))
    BY <1>3 DEF Tick
  <2>2. /\ NextSweep(u) \in Int /\ u <= NextSweep(u) /\ NewSlot(NextSweep(u)) /\ u \in Int
    BY <1>0, NextSweepIsNext
  <2>3. NextSweep(u) < clock' \/ (NextSweep(u) = clock' /\ swept')
    BY <2>1 DEF Over, NextSweep
  <2>4. NextSweep(u) <= clock
    BY <1>0, <2>1, <2>2, <2>3
  <2>5. Over(u) /\ u \in 1..clock
    BY <1>0, <2>1, <2>2, <2>4 DEF Over, SweepDue
  <2>6. FirstRead(time, u)
    BY <2>1 DEF FirstRead, Earlier, Reading
  <2>7. told >= u \/ SlipsAway(time, u) \/ \E j \in jobs : j >= u
    BY <2>1, <2>5, <2>6 DEF AllServed, Served
  <2> QED
    BY <2>1, <2>7 DEF SlipsAway, Reading, NextSweep
<1>4. CASE Delay
  BY <1>1, <1>4 DEF Delay
<1>5. CASE Miss
  BY <1>2, <1>5 DEF Miss
<1>6. CASE Defer \/ DealWith
  BY <1>2, <1>6 DEF Defer, DealWith
<1>7. CASE Write
  <2>1. CASE Digest(TRUE)
    BY <1>2, <1>7, <2>1 DEF Write, Digest, RecordDigestSent
  <2>2. CASE UNCHANGED <<waiting, lastDigest, told>>
    BY <1>1, <1>7, <2>2 DEF Write
  <2> QED
    BY <1>7, <2>1, <2>2 DEF Write
<1>8. ASSUME NEW choice \in Choices, Update(choice) PROVE AllServed'
  BY <1>2, <1>8 DEF Update
<1>9. CASE SweepDigests
  <2>1. /\ UNCHANGED <<zone, times, clock, waiting, lastDigest, told, missed, chosen>>
        /\ swept' = TRUE /\ (SweepDue \/ swept) /\ jobs \subseteq jobs'
    BY <1>9 DEF SweepDigests
  <2> SUFFICES ASSUME zone.known, waiting # Never, NEW time \in times, NEW u \in 1..clock,
                      FirstRead(time, u), waiting < u, chosen < u, missed < u, Over(u)',
                      ~(told >= u), ~SlipsAway(time, u)
               PROVE  \E j \in jobs' : j >= u
    BY <2>1 DEF AllServed, Served, FirstRead, Earlier, Reading, SlipsAway
  <2>2. CASE Over(u)
    BY <2>1, <2>2 DEF AllServed, Served
  <2>3. CASE ~Over(u)
    <3>1. u \in Int /\ u <= clock /\ NextSweep(u) = clock /\ ~swept
      BY <1>0, <2>1, <2>3 DEF Over, NextSweep
    <3>2. IsSameLocalDay(zone, u, clock) /\ Reading(clock) >= time
      <4>1. Reading(clock) \in Int /\ time \in Int
        BY <1>0, ZoneFacts, CalendarAssumption
      <4> QED
        BY <3>1, <4>1 DEF SlipsAway
    <3>3. ~(lastDigest # Never /\ IsSameLocalDay(zone, lastDigest, clock) /\ Reading(lastDigest) >= time)
      <4> SUFFICES ASSUME IsSameLocalDay(zone, lastDigest, clock), Reading(lastDigest) >= time PROVE FALSE
        OBVIOUS
      <4>1. IsSameLocalDay(zone, lastDigest, u)
        BY <3>2 DEF IsSameLocalDay
      <4>2. lastDigest \in Int /\ lastDigest < u
        BY <3>1
      <4>3. Reading(lastDigest) < time
        BY <1>0, <3>1, <4>1, <4>2, NothingEarlier
      <4>4. Reading(lastDigest) \in Int /\ time \in Int
        BY <1>0, <4>2, ZoneFacts, CalendarAssumption
      <4> QED
        BY <4>3, <4>4
    <3>4. DigestCandidate /\ IsDigestDue(clock) /\ ~enqueued
      BY <3>1, <3>2, <3>3 DEF DigestCandidate, IsDigestDue, Reading
    <3>5. clock \in jobs'
      BY <1>9, <3>4 DEF SweepDigests
    <3> QED
      BY <1>0, <3>1, <3>5
  <2> QED
    BY <2>2, <2>3
<1>10. ASSUME NEW j \in jobs, SendDigest(j) PROVE AllServed'
  <2>1. CASE waiting = Never
    BY <1>2, <1>10, <2>1 DEF SendDigest
  <2>2. CASE waiting # Never
    BY <1>2, <1>10, <2>2 DEF SendDigest, Digest, RecordDigestSent
  <2> QED
    BY <2>1, <2>2
<1>11. CASE UNCHANGED vars
  BY <1>1, <1>11 DEF vars
<1> QED
  BY <1>3, <1>4, <1>5, <1>6, <1>7, <1>8, <1>9, <1>10, <1>11 DEF Next

\* Mail that waits when a chosen time comes is sent or told of by the next
\* sweep that runs, in any zone and however its clocks change, but at the end
\* of a day or where the clock is put back before the sweep (SlipsAway).
THEOREM ChosenTimesAreServed == Spec => []TimesServed
<1>1. Init => Base /\ AllServed
  BY BaseInit DEF Init, AllServed
<1>2. Base /\ AllServed /\ [Next]_vars => Base' /\ AllServed'
  BY BaseStep, AllServedStep
<1>3. Base /\ AllServed => TimesServed
  <2> SUFFICES ASSUME Base, AllServed, zone.known, jobs = {}, ~SweepDue, waiting # Never,
                      NEW time \in times, NEW u \in FirstReadings(time),
                      waiting < u, chosen < u, missed < u, NextSweep(u) <= clock
               PROVE  told >= u \/ SlipsAway(time, u)
    BY DEF TimesServed
  <2>1. u \in 1..clock /\ FirstRead(time, u) /\ u \in Int
    BY DEF FirstReadings, FirstRead
  <2>2. Over(u)
    BY <2>1, NextSweepIsNext DEF Over, SweepDue, Base, TypeOK
  <2> QED
    BY <2>1, <2>2 DEF AllServed, Served
<1> QED
  BY <1>1, <1>2, <1>3, PTL DEF Spec

-----------------------------------------------------------------------------
(***************************************************************************)
(* When a snooze ends.                                                     *)
(***************************************************************************)
Offsets == {zone.standard, zone.standard + zone.gain}

\* The zone's offsets, and its change of clocks.
LEMMA OffsetsFacts ==
    ASSUME ZoneOk
    PROVE  /\ zone.standard \in Int /\ zone.gain \in -Day..Day /\ zone.from \in Int /\ zone.to \in Int
           /\ zone.gain <= zone.to - zone.from
           /\ \A u \in Int : /\ OffsetAt(zone, u) \in Offsets
                             /\ WallClock(zone, u) \in Int /\ WallClock(zone, u) = u + OffsetAt(zone, u)
<1>1. /\ zone.standard \in Int /\ zone.gain \in -Day..Day /\ zone.from \in Int /\ zone.to \in Int
      /\ zone.gain <= zone.to - zone.from
  BY ZonesAssumption DEF ZoneOk
<1>2. \A u \in Int : OffsetAt(zone, u) \in Offsets
  BY <1>1 DEF OffsetAt, Offsets
<1> QED
  BY <1>1, <1>2, ZoneFacts

\* The guess corrected twice is one of the two instants that may read this.
LEMMA InstantIs ==
    ASSUME ZoneOk, NEW x \in Int
    PROVE  /\ InstantOf(zone, x) \in Int
           /\ \E o \in Offsets : o \in Int /\ InstantOf(zone, x) = x - o
<1>1. /\ OffsetAt(zone, x) \in Offsets /\ \A o \in Offsets : o \in Int
  BY OffsetsFacts DEF Offsets
<1>2. OffsetAt(zone, x - OffsetAt(zone, x)) \in Offsets
  BY <1>1, OffsetsFacts
<1> QED
  BY <1>1, <1>2 DEF InstantOf

\* It reads what was asked for, or is out by what the clock was put forward.
LEMMA InstantReads ==
    ASSUME ZoneOk, NEW x \in Int
    PROVE  ReadsLike(InstantOf(zone, x), x)
<1> DEFINE s == zone.standard
           t == zone.standard + zone.gain
           off(u) == OffsetAt(zone, u)
<1>1. /\ s \in Int /\ t \in Int /\ zone.gain \in Int /\ t = s + zone.gain
      /\ off(x) \in {s, t} /\ off(x - s) \in {s, t} /\ off(x - t) \in {s, t}
      /\ WallClock(zone, x - s) = x - s + off(x - s) /\ WallClock(zone, x - t) = x - t + off(x - t)
  BY OffsetsFacts DEF Offsets
<1>2. ReadAt(x) = {u \in {x - s, x - t} : WallClock(zone, u) = x}
  BY <1>1 DEF ReadAt
<1>3. InstantOf(zone, x) = IF off(x - off(x)) = off(x) THEN x - off(x) ELSE x - off(x - off(x))
  BY DEF InstantOf
<1> HIDE DEF s, t, off
<1>4. CASE off(x - s) = s /\ InstantOf(zone, x) = x - s
  <2>1. x - s \in ReadAt(x) /\ WallClock(zone, x - s) = x
    BY <1>1, <1>2, <1>4
  <2> QED
    BY <1>4, <2>1 DEF ReadsLike
<1>5. CASE off(x - t) = t /\ InstantOf(zone, x) = x - t
  <2>1. x - t \in ReadAt(x) /\ WallClock(zone, x - t) = x
    BY <1>1, <1>2, <1>5
  <2> QED
    BY <1>5, <2>1 DEF ReadsLike
<1>6. CASE off(x - s) = t /\ off(x - t) = s /\ s # t
  <2>1. ReadAt(x) = {}
    BY <1>1, <1>2, <1>6
  <2>2. InstantOf(zone, x) \in {x - s, x - t}
    BY <1>1, <1>3
  <2>3. WallClock(zone, InstantOf(zone, x)) \in {x - zone.gain, x + zone.gain}
    BY <1>1, <1>6, <2>2
  <2> QED
    BY <2>1, <2>3 DEF ReadsLike
<1> QED
  BY <1>1, <1>3, <1>4, <1>5, <1>6

\* A reading that comes once comes when it is looked for.
LEMMA OnceIsFound ==
    ASSUME ZoneOk, NEW u \in Int, OneReading(u)
    PROVE  InstantOf(zone, WallClock(zone, u)) = u
<1> DEFINE x == WallClock(zone, u)
<1>1. x \in Int /\ ReadAt(x) = {u}
  BY OffsetsFacts DEF OneReading
<1>2. InstantOf(zone, x) \in {x - zone.standard, x - zone.standard - zone.gain}
  BY <1>1, InstantIs, OffsetsFacts DEF Offsets
<1>3. WallClock(zone, InstantOf(zone, x)) = x
  BY <1>1, InstantReads DEF ReadsLike
<1> QED
  BY <1>1, <1>2, <1>3 DEF ReadAt

\* A reading of an earlier one comes twice: the clock has been put back.
LEMMA TwiceWhenBack ==
    ASSUME ZoneOk, NEW n \in Int, NEW u \in Int, n < u, WallClock(zone, u) < WallClock(zone, n)
    PROVE  ~OneReading(u)
<1> DEFINE x == WallClock(zone, u)
           g == OffsetAt(zone, n) - OffsetAt(zone, u)
<1>1. /\ zone.standard \in Int /\ zone.gain \in Int /\ zone.from \in Int /\ zone.to \in Int
      /\ zone.gain <= zone.to - zone.from
      /\ OffsetAt(zone, n) \in Int /\ OffsetAt(zone, u) \in Int /\ x = u + OffsetAt(zone, u)
      /\ g > 0 /\ g \in {zone.gain, 0 - zone.gain} /\ u - g < n
      /\ {OffsetAt(zone, n), OffsetAt(zone, u)} = Offsets
  BY OffsetsFacts DEF Offsets
<1>2. OffsetAt(zone, u - g) = OffsetAt(zone, n)
  BY <1>1 DEF OffsetAt
<1>3. u - g \in Int /\ WallClock(zone, u - g) = x
  BY <1>1, <1>2, OffsetsFacts
<1>4. u - g \in ReadAt(x)
  BY <1>1, <1>3 DEF ReadAt, Offsets
<1> QED
  BY <1>1, <1>4 DEF OneReading

\* Readings of the same time on different days are a day apart, or come in turn.
LEMMA DaysInTurn ==
    ASSUME ZoneOk, NEW d \in Int, NEW e \in Int, d < e, NEW t \in Int
    PROVE  InstantOf(zone, d * Day + t) <= InstantOf(zone, e * Day + t)
<1>1. /\ d * Day \in Int /\ e * Day \in Int /\ e * Day - d * Day >= Day
  <2>1. e - d \in Nat /\ e - d >= 1 /\ e * Day - d * Day = (e - d) * Day
    BY CalendarAssumption
  <2>2. \A k \in Nat : k >= 1 => k * Day >= Day
    BY CalendarAssumption
  <2> QED
    BY <2>1, <2>2, CalendarAssumption
<1> DEFINE x == d * Day + t
           y == e * Day + t
<1>2. x \in Int /\ y \in Int /\ y - x >= Day
  BY <1>1, CalendarAssumption
<1> HIDE DEF x, y
<1>3. /\ \E o \in Offsets : o \in Int /\ InstantOf(zone, x) = x - o
      /\ \E o \in Offsets : o \in Int /\ InstantOf(zone, y) = y - o
  BY <1>2, InstantIs
<1>4. \A o, p \in Offsets : o \in Int /\ p \in Int => o - p <= Day
  BY OffsetsFacts, CalendarAssumption DEF Offsets
<1>5. InstantOf(zone, x) <= InstantOf(zone, y)
  BY <1>2, <1>3, <1>4, CalendarAssumption
<1> QED
  BY <1>5 DEF x, y

\* What a request holds.
LEMMA RequestFacts ==
    ASSUME NEW r \in Requests
    PROVE  /\ r.kind = "delay" => r.count \in Nat
           /\ r.kind = "clock" => r.time \in 0..Day - 1
           /\ r.kind = "named" => /\ r.name \in {"today", "tomorrow", "next week", "next month", "weekday"}
                                  /\ r.day \in 0..Week - 1 /\ r.next \in BOOLEAN
                                  /\ r.time \in Int /\ Hours[r.part] \in 0..Day - 1
<1>1. \/ r.kind = "delay" /\ r.count \in Nat
      \/ r.kind = "clock" /\ r.time \in 0..Day - 1
      \/ /\ r.kind = "named" /\ r.name \in {"today", "tomorrow", "next week", "next month", "weekday"}
         /\ r.day \in 0..Week - 1 /\ r.next \in BOOLEAN /\ r.time \in Int /\ Hours[r.part] \in 0..Day - 1
  BY RequestsAssumption
<1>2. "delay" # "clock" /\ "delay" # "named" /\ "clock" # "named"
  OBVIOUS
<1> QED
  BY <1>1, <1>2

\* The days from one weekday to the next of another.
Near(day, weekday) == IF day = weekday THEN Week ELSE (day - weekday) % Week

\* It is a week at most, and never none.
LEMMA NearFacts ==
    ASSUME NEW day \in 0..Week - 1, NEW w \in 0..Week - 1
    PROVE  Near(day, w) \in 1..Week /\ (Near(day, w) = day - w \/ Near(day, w) = day - w + Week)
<1>0. Week \in Nat /\ Week > 0 /\ day \in Int /\ w \in Int
  BY CalendarAssumption
<1>1. CASE day = w
  BY <1>0, <1>1 DEF Near
<1>2. CASE day > w
  <2>1. day - w \in 0..Week - 1
    BY <1>0, <1>2
  <2>2. (Week * 0 + (day - w)) % Week = day - w
    BY <1>0, <2>1, Division
  <2> QED
    BY <1>0, <1>2, <2>1, <2>2 DEF Near
<1>3. CASE day < w
  <2>1. day - w + Week \in 0..Week - 1
    BY <1>0, <1>3
  <2>2. (Week * (-1) + (day - w + Week)) % Week = day - w + Week
    BY <1>0, <2>1, Division
  <2>3. Week * (-1) + (day - w + Week) = day - w
    BY <1>0
  <2> QED
    BY <1>0, <1>3, <2>1, <2>2, <2>3 DEF Near
<1> QED
  BY <1>0, <1>1, <1>2, <1>3

\* They lead to that weekday, as do as many weeks more.
LEMMA NearLeads ==
    ASSUME NEW today \in Int, NEW day \in 0..Week - 1, NEW k \in {0, 1}
    PROVE  (today + (Near(day, today % Week) + k * Week)) % Week = day
<1> DEFINE q == today \div Week
           w == today % Week
           near == Near(day, w)
<1>1. q \in Int /\ w \in 0..Week - 1 /\ today = Week * q + w /\ Week \in Nat /\ Week > 0 /\ day \in Int
  BY CalendarAssumption
<1> HIDE DEF q, w
<1>2. near = day - w \/ near = day - w + Week
  BY <1>1, NearFacts
<1> HIDE DEF near
<1>3. \A i \in Int : (Week * (q + i) + day) % Week = day
  BY <1>1, Division
<1>4. /\ Week * (q + 0) = Week * q /\ Week * (q + 1) = Week * q + Week /\ Week * (q + 2) = Week * q + 2 * Week
      /\ Week * q \in Int
  BY <1>1
<1>5. \E i \in {0, 1, 2} : today + (near + k * Week) = Week * (q + i) + day
  BY <1>1, <1>2, <1>4
<1>6. (today + (near + k * Week)) % Week = day
  BY <1>3, <1>5
<1> QED
  BY <1>6 DEF near, w

\* What was said names a day within two weeks, and the weekday that was said.
LEMMA DayNamed ==
    ASSUME NEW r \in Requests, r.kind = "named", NEW today \in Int
    PROVE  LET ahead == DaysUntil(r, today % Week) IN
           /\ ahead \in IF r.name = "next month" THEN {Month} ELSE 0..2 * Week
           /\ ahead \in Nat
           /\ r.name = "weekday" => ahead > 0 /\ (today + ahead) % Week = r.day
           /\ r.name = "weekday" /\ ~r.next => ahead <= Week
<1>1. r.name \in {"today", "tomorrow", "next week", "next month", "weekday"} /\ r.day \in 0..Week - 1 /\ r.next \in BOOLEAN
  BY RequestFacts
<1>2. Week \in Nat /\ Week > 0 /\ Month \in Nat /\ today % Week \in 0..Week - 1
  BY CalendarAssumption
<1> DEFINE ahead == DaysUntil(r, today % Week)
           near == Near(r.day, today % Week)
<1>3. CASE r.name \notin {"weekday", "next month"}
  <2>1. ahead = 0 \/ ahead = 1 \/ ahead = Week
    BY <1>1, <1>3 DEF DaysUntil
  <2> HIDE DEF ahead
  <2>2. ahead \in 0..2 * Week /\ ahead \in Nat
    BY <1>2, <2>1
  <2> QED
    BY <1>3, <2>2 DEF ahead
<1>4. CASE r.name = "next month"
  <2>1. ahead = Month
    BY <1>4 DEF DaysUntil
  <2> QED
    BY <1>2, <1>4, <2>1
<1>5. CASE r.name = "weekday"
  <2>1. ahead = IF r.next /\ near < Week THEN near + Week ELSE near
    BY <1>5 DEF DaysUntil, Near
  <2>2. near \in 1..Week
    BY <1>1, <1>2, NearFacts
  <2>3. (today + (near + 0 * Week)) % Week = r.day /\ (today + (near + 1 * Week)) % Week = r.day
    BY <1>1, NearLeads
  <2> HIDE DEF near, ahead
  <2>4. near + 0 * Week = near /\ near + 1 * Week = near + Week
    BY <1>2, <2>2
  <2>5. (today + near) % Week = r.day /\ (today + (near + Week)) % Week = r.day
    BY <2>3, <2>4
  <2>6. CASE r.next /\ near < Week
    <3>1. ahead = near + Week
      BY <2>1, <2>6
    <3>2. ahead \in 0..2 * Week /\ ahead \in Nat /\ ahead > 0
      BY <1>2, <2>2, <3>1, <2>6
    <3> QED
      BY <1>5, <2>5, <2>6, <3>1, <3>2 DEF ahead
  <2>7. CASE ~(r.next /\ near < Week)
    <3>1. ahead = near
      BY <2>1, <2>7
    <3>2. ahead \in 0..2 * Week /\ ahead \in Nat /\ ahead > 0 /\ ahead <= Week
      BY <1>2, <2>2, <3>1
    <3> QED
      BY <1>5, <2>5, <3>1, <3>2 DEF ahead
  <2> QED
    BY <2>6, <2>7
<1> QED
  BY <1>3, <1>5, <1>4

\* No reading that comes once is passed over on the way to the next of its time.
LEMMA NonePassedOver ==
    ASSUME ZoneOk, NEW n \in Int, NEW t \in 0..Day - 1, NEW d \in Int,
           d = DayOf(WallClock(zone, n)) \/ (d = DayOf(WallClock(zone, n)) + 1 /\ InstantOf(zone, (d - 1) * Day + t) <= n),
           NEW u \in Int, n < u, u < InstantOf(zone, d * Day + t), OneReading(u)
    PROVE  Reading(u) # t
<1> SUFFICES ASSUME Reading(u) = t PROVE FALSE
  OBVIOUS
<1> DEFINE e == DayOf(WallClock(zone, u))
           today == DayOf(WallClock(zone, n))
<1>1. /\ e \in Int /\ WallClock(zone, u) = Day * e + t
      /\ today \in Int /\ WallClock(zone, n) = Day * today + Reading(n) /\ Reading(n) \in 0..Day - 1
      /\ WallClock(zone, u) \in Int /\ WallClock(zone, n) \in Int
  BY Clockwork, ZoneFacts DEF Reading
<1>2. InstantOf(zone, e * Day + t) = u
  <2>1. Day * e = e * Day
    BY <1>1, CalendarAssumption
  <2> QED
    BY <1>1, <2>1, OnceIsFound
<1>3. e >= today
  <2> SUFFICES ASSUME e + 1 <= today PROVE FALSE
    BY <1>1
  <2>1. Day * (e + 1) = Day * e + Day /\ Day * (e + 1) <= Day * today /\ Day * e \in Int /\ Day * today \in Int
    BY <1>1, CalendarAssumption
  <2>2. WallClock(zone, u) < WallClock(zone, n)
    BY <1>1, <2>1, CalendarAssumption
  <2> QED
    BY <2>2, TwiceWhenBack
<1> HIDE DEF e, today
<1>4. e < d
  <2> SUFFICES ASSUME ~(e < d) PROVE FALSE
    OBVIOUS
  <2>1. e = d \/ d < e
    BY <1>1
  <2>2. CASE d < e
    <3>1. InstantOf(zone, d * Day + t) <= InstantOf(zone, e * Day + t)
      BY <1>1, <2>2, DaysInTurn
    <3> QED
      BY <1>2, <3>1, InstantIs, CalendarAssumption
  <2> QED
    BY <1>2, <2>1, <2>2
<1>5. d = today + 1 /\ e = d - 1 /\ InstantOf(zone, (d - 1) * Day + t) <= n
  BY <1>1, <1>3, <1>4 DEF today
<1> QED
  BY <1>2, <1>5

\* A snoozed message comes back when the user said, whatever the zone, the
\* clock and the request: a time of day the next time it is read, a weekday on
\* the first such day after today (parseSnoozeTime).
THEOREM SnoozesEndAsMeant == Spec => []SnoozeAsMeant
<1>1. Base => SnoozeAsMeant
  <2> SUFFICES ASSUME Base, NEW r \in Requests, NEW at \in ParseSnoozeTime(r, zone, clock)
               PROVE  LET today == DayOf(WallClock(zone, clock)) IN
                      /\ at > clock
                      /\ r.kind = "clock" =>
                            /\ \E day \in {today, today + 1} : ReadsLike(at, day * Day + r.time)
                            /\ \A u \in clock + 1..at - 1 : OneReading(u) => Reading(u) # r.time
                      /\ r.kind = "named" =>
                            \E ahead \in IF r.name = "next month" THEN {Month} ELSE 0..2 * Week :
                                /\ ReadsLike(at, (today + ahead) * Day + TimeSaid(r))
                                /\ r.name = "weekday" => ahead > 0 /\ (today + ahead) % Week = r.day
                                /\ r.name = "weekday" /\ ~r.next => ahead <= Week
    BY DEF SnoozeAsMeant
  <2> DEFINE today == DayOf(WallClock(zone, clock))
  <2>1. /\ ZoneOk /\ clock \in Int /\ WallClock(zone, clock) \in Int /\ today \in Int
        /\ Shortest \in Nat /\ Shortest > 0 /\ Longest \in Nat /\ Day \in Int
    BY CalendarAssumption, SnoozeAssumption, ZoneFacts, Clockwork DEF Base, TypeOK, ZoneOk
  <2>2. ASSUME NEW t \in Int, at \in Bounded(t, clock) PROVE at = t /\ at > clock
    BY <2>1, <2>2 DEF Bounded
  <2>3. CASE at \in Relative(r, clock)
    <3>1. r.kind = "delay"
      BY <2>3 DEF Relative
    <3>2. clock + r.count \in Int
      <4>1. r.count \in Nat
        BY <3>1, RequestFacts
      <4>2. \A n \in Nat : clock + n \in Int
        BY <2>1
      <4> QED
        BY <4>1, <4>2
    <3> QED
      BY <2>2, <2>3, <3>1, <3>2 DEF Relative
  <2>4. CASE at \in Named(r, zone, clock)
    <3> DEFINE ahead == DaysUntil(r, today % Week)
               x == (today + ahead) * Day + TimeSaid(r)
    <3>1. /\ r.kind = "named"
          /\ ahead \in IF r.name = "next month" THEN {Month} ELSE 0..2 * Week
          /\ ahead \in Nat
          /\ r.name = "weekday" => ahead > 0 /\ (today + ahead) % Week = r.day
          /\ r.name = "weekday" /\ ~r.next => ahead <= Week
      BY <2>1, <2>4, DayNamed DEF Named
    <3>2. TimeSaid(r) \in Int
      <4>1. r.time \in Int /\ Hours[r.part] \in 0..Day - 1
        BY <3>1, RequestFacts
      <4>2. 0..Day - 1 \subseteq Int
        OBVIOUS
      <4> QED
        BY <4>1, <4>2 DEF TimeSaid
    <3>3. x \in Int /\ at \in Bounded(InstantOf(zone, x), clock)
      <4> HIDE DEF ahead
      <4>0. ahead \in Nat
        BY ONLY <3>1
      <4>1. ahead \in Int
        BY ONLY <4>0
      <4>2. x \in Int
        BY <2>1, <3>2, <4>1
      <4> QED
        BY <2>4, <4>2 DEF Named, Weekday, ahead
    <3> HIDE DEF ahead
    <3>4. at = InstantOf(zone, x) /\ at > clock /\ ReadsLike(at, x)
      BY <2>1, <2>2, <3>3, InstantIs, InstantReads
    <3> QED
      BY <3>1, <3>4
  <2>5. CASE at \in ClockOnly(r, zone, clock)
    <3> DEFINE first == InstantOf(zone, today * Day + r.time)
               next == InstantOf(zone, (today + 1) * Day + r.time)
    <3>1. r.kind = "clock" /\ r.time \in 0..Day - 1
      BY <2>5, RequestFacts DEF ClockOnly
    <3>2. /\ today * Day + r.time \in Int /\ first \in Int /\ ReadsLike(first, today * Day + r.time)
          /\ (today + 1) * Day + r.time \in Int /\ next \in Int /\ ReadsLike(next, (today + 1) * Day + r.time)
      BY <2>1, <3>1, InstantIs, InstantReads
    <3>3. at \in Bounded(IF first > clock THEN first ELSE next, clock)
      BY <2>5 DEF ClockOnly
    <3>4. CASE first > clock
      <4>1. at = first /\ at > clock
        BY <2>2, <3>2, <3>3, <3>4
      <4>2. ASSUME NEW u \in clock + 1..at - 1, OneReading(u) PROVE Reading(u) # r.time
        <5>1. u \in Int /\ clock < u /\ u < first
          BY <2>1, <3>2, <4>1
        <5> QED
          BY <2>1, <3>1, <4>2, <5>1, NonePassedOver
      <4> QED
        BY <3>1, <3>2, <4>1, <4>2
    <3>5. CASE ~(first > clock)
      <4>1. at = next /\ at > clock
        BY <2>2, <3>2, <3>3, <3>5
      <4>2. first <= clock /\ (today + 1) - 1 = today /\ today + 1 \in Int
        BY <2>1, <3>2, <3>5
      <4>3. ASSUME NEW u \in clock + 1..at - 1, OneReading(u) PROVE Reading(u) # r.time
        <5>1. u \in Int /\ clock < u /\ u < next
          BY <2>1, <3>2, <4>1
        <5>2. InstantOf(zone, (today + 1 - 1) * Day + r.time) <= clock
          BY <4>2
        <5> QED
          BY <2>1, <3>1, <4>2, <4>3, <5>1, <5>2, NonePassedOver
      <4> QED
        BY <3>1, <3>2, <4>1, <4>3
    <3> QED
      BY <3>4, <3>5
  <2> QED
    BY <2>3, <2>4, <2>5 DEF ParseSnoozeTime
<1> QED
  BY <1>1, BaseInit, BaseStep, PTL DEF Spec
=============================================================================
