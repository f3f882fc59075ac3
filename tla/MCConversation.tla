--------------------------- MODULE MCConversation ---------------------------
(* Small instances of Conversation for TLC: emails are interchangeable.  The *)
(* operations a command asks for are MailOperations'.                        *)
EXTENDS Conversation, MailOperations, TLC

Symmetry == Permutations(Emails)

\* A folder that a message can be moved to, and one below a folder that is not offered.
Folders == {"receipts", "lost"}
PathsOfFolders ==
    "receipts" :> <<"receipts">> @@ "lost" :> <<"deleted items", "lost">>
    @@ "INBOX" :> <<"inbox">> @@ "TRASH" :> <<"trash">> @@ "SPAM" :> <<"spam">>
    @@ "UNREAD" :> <<"unread">> @@ "STARRED" :> <<"starred">>
    @@ "inbox" :> <<"inbox">> @@ "archive" :> <<"archive">>
    @@ "deleteditems" :> <<"deleted items">> @@ "junkemail" :> <<"junk email">>

\* Where the conversation has an email, and where MailOperations has the message.
Whereabouts(m) == IF InTrash(m) THEN "trash" ELSE IF InInbox(m) THEN "inbox" ELSE "archived"
Places == {"inbox", "archived", "trash"}
FollowedFrom == {p \in Places : \A m \in Mail : Whereabouts(m) = p => Follows(m)}
MendedFrom == {p \in Places : \A m \in Mail : Whereabouts(m) = p => Mends(m)}
RestoredFrom == {p \in Places : \A m \in Mail : Whereabouts(m) = p => Restores(m)}

\* Wherever the conversation has left an email, the row that lists and digests are made from goes
\* on saying where the message is, whatever command or undo comes next and is written into it
\* (MailboxActionService.apply and its mirror), but for the three commands that Misjudged names.
MirrorFollows == \A e \in Emails : place[e] # "gone" => place[e] \in FollowedFrom

\* Wherever the conversation has left an email, a command whose write to the row is lost (the error
\* is caught, or the worker dies and the queue runs the command again) leaves a row that the same
\* command, or its undo, puts right, unless Outlook has moved the message; then nothing does
\* (MailboxActionService.mirror: "the next sync will reconcile").
LostWriteMends == \A e \in Emails : place[e] # "gone" => place[e] \in MendedFrom

\* Wherever the conversation has left an email, "undo" puts it back as it was before the command
\* (UndoService and inverseOf), or does nothing to it, but for what Restores says.
UndoRestores == \A e \in Emails : place[e] # "gone" => place[e] \in RestoredFrom
=============================================================================
