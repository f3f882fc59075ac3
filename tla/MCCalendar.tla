----------------------------- MODULE MCCalendar -----------------------------
(* Calendar on small instances: days of eight units, and clocks that are  *)
(* put forward, put back or left alone, east and west of Greenwich.        *)
EXTENDS Calendar

Fixed(standard) == [known |-> TRUE, standard |-> standard, gain |-> 0, from |-> 0, to |-> 0]
PutForward(standard) == [known |-> TRUE, standard |-> standard, gain |-> 2, from |-> 2 * Day + 1, to |-> 20 * Day]
PutBack(standard) == [known |-> TRUE, standard |-> standard, gain |-> 2, from |-> -20 * Day, to |-> 2 * Day + 1]
SomeZones == {PutForward(2), PutForward(-3), PutBack(2), PutBack(-3), [Fixed(0) EXCEPT !.known = FALSE]}

SomeChoices == {{3, 6}, {7}, {8}}
SomeHours == [morning |-> 2, afternoon |-> 4, evening |-> 6, none |-> 2]
Dates(names, days, nexts, parts, hours) ==
    [kind : {"named"}, name : names, day : days, next : nexts, part : parts, time : hours]
SomeRequests ==
    {[kind |-> "delay", count |-> n] : n \in {0, 1, 60}}
    \cup [kind : {"clock"}, time : 0..Day - 1]
    \cup Dates({"today", "tomorrow", "next week", "next month"}, {0}, {FALSE}, {"none"}, {-1})
    \cup Dates({"weekday"}, 0..Week - 1, BOOLEAN, {"evening"}, {-1})
    \cup Dates({"tomorrow", "weekday"}, {1}, {FALSE}, {"none"}, 0..Day - 1)
=============================================================================
