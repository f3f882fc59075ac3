---------------------------- MODULE OutboundMail ----------------------------
(***************************************************************************)
(* What the outgoing side promises the user about each email, with the     *)
(* queue, the workers and the drafts table abstracted away: an email is    *)
(* held, and from there it is delivered once, stopped, or abandoned - and  *)
(* the user hears nothing that is not so.                                  *)
(***************************************************************************)
EXTENDS Integers

CONSTANT Drafts

VARIABLES
    fate,     \* what became of the email
    copies,   \* how many copies the recipient has
    told      \* what the user was told about it

vars == <<fate, copies, told>>

Init ==
    /\ fate = [d \in Drafts |-> "none"]
    /\ copies = [d \in Drafts |-> 0]
    /\ told = [d \in Drafts |-> {}]

Say(d, message) == told' = [told EXCEPT ![d] = @ \cup {message}]

Become(d, from, to) == fate[d] = from /\ fate' = [fate EXCEPT ![d] = to]

Accept(d) == Become(d, "none", "held") /\ UNCHANGED <<copies, told>>

Deliver(d) ==
    /\ Become(d, "held", "delivered")
    /\ copies' = [copies EXCEPT ![d] = 1]
    /\ UNCHANGED told

Stop(d) == Become(d, "held", "stopped") /\ Say(d, "stopped") /\ UNCHANGED copies

\* Nothing will send it any more; the user may be told in the same step.
Abandon(d) ==
    /\ Become(d, "held", "abandoned")
    /\ Say(d, "failed") \/ UNCHANGED told
    /\ UNCHANGED copies

\* Later messages: a confirmation, a report, or the refusal of an undo.
Report(d) ==
    /\ \/ fate[d] = "delivered" /\ Say(d, "sent")
       \/ fate[d] = "abandoned" /\ Say(d, "failed")
       \/ Say(d, "gone")
    /\ UNCHANGED <<fate, copies>>

Next == \E d \in Drafts : Accept(d) \/ Deliver(d) \/ Stop(d) \/ Abandon(d) \/ Report(d)

Spec == Init /\ [][Next]_vars

=============================================================================
