---------------------------- MODULE Confirmation ----------------------------
(***************************************************************************)
(* What the chat promises about mail that needs a tap: a question is open  *)
(* until it is answered, replaced or withdrawn, a tap takes the question   *)
(* that is open, and only what was taken can be sent, once.                *)
(***************************************************************************)
CONSTANTS Asks, NoAsk   \* NoAsk is not in Asks

VARIABLES
    open,    \* the question the next tap answers
    asked,   \* every question put so far
    taken,   \* confirmed, and not yet turned into a mail
    sent     \* turned into a mail

vars == <<open, asked, taken, sent>>

Init == open = NoAsk /\ asked = {} /\ taken = {} /\ sent = {}

\* A new question takes the place of the one that was open.
Ask(a) ==
    /\ a \notin asked
    /\ open' = a
    /\ asked' = asked \cup {a}
    /\ UNCHANGED <<taken, sent>>

Confirm ==
    /\ open # NoAsk
    /\ taken' = taken \cup {open}
    /\ open' = NoAsk
    /\ UNCHANGED <<asked, sent>>

\* Declined, or confirmed by a tap meant for another email.
Withdraw ==
    /\ open # NoAsk
    /\ open' = NoAsk
    /\ UNCHANGED <<asked, taken, sent>>

Send(a) ==
    /\ a \in taken
    /\ taken' = taken \ {a}
    /\ sent' = sent \cup {a}
    /\ UNCHANGED <<open, asked>>

\* A confirmed question whose mail could not be written: it is not put again.
Lose(a) ==
    /\ a \in taken
    /\ taken' = taken \ {a}
    /\ UNCHANGED <<open, asked, sent>>

Next == Confirm \/ Withdraw \/ \E a \in Asks : Ask(a) \/ Send(a) \/ Lose(a)

Spec == Init /\ [][Next]_vars
=============================================================================
