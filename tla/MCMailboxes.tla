---------------------------- MODULE MCMailboxes ----------------------------
(* Mailboxes on small instances: a user who connects a Gmail mailbox, or   *)
(* two of Outlook's.  Slots and Outlook boxes are interchangeable.         *)
EXTENDS Mailboxes, TLC

OneGmailOrTwoOutlook == {Users \X Gmail, Users \X (Boxes \ Gmail)}
MailboxSymmetry == Permutations(Slots) \cup Permutations(Boxes \ Gmail)
=============================================================================
