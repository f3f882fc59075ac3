---------------------------- MODULE MailOperations ----------------------------
(***************************************************************************)
(* What a command does to one message: where the provider puts it, what    *)
(* our own row says of it afterwards, and what "undo" does about it.       *)
(*                                                                         *)
(* A Gmail message is the set of its labels, and there is no folder.  An   *)
(* Outlook message is in one folder, has categories, and its read mark and *)
(* its flag are written here as the labels Gmail has for them.  An Outlook *)
(* message that is moved has another id afterwards; a Gmail message keeps  *)
(* its own.  Names are written in lower case, as they are compared.        *)
(***************************************************************************)
EXTENDS Naturals, FiniteSets, Sequences

CONSTANTS
    Filings,         \* the user's own labels, categories and folders
    PathOf,          \* the names from the top of the tree of folders to each
    Ids,             \* ids of messages
    MaxFolderDepth   \* levels of folders below the top that are looked at (4 in the code)

SystemLabels == {"INBOX", "TRASH", "SPAM", "UNREAD", "STARRED"}
SystemFolders == {"inbox", "archive", "deleteditems", "junkemail"}

ASSUME FilingsAssumption ==
    /\ IsFiniteSet(Filings) /\ Filings \cap (SystemLabels \cup SystemFolders) = {}
    /\ MaxFolderDepth \in Nat /\ Ids \subseteq Nat
    /\ \A f \in Filings \cup SystemLabels \cup SystemFolders : PathOf[f] # <<>>

Boxes == {"gmail", "graph"}

\* The message as the provider has it, and as the row of email_messages has it.
Mail == [box : {"gmail"}, labels : SUBSET (SystemLabels \cup Filings), folder : {"all"}, id : Ids]
   \cup [box : {"graph"}, labels : SUBSET ({"UNREAD", "STARRED"} \cup Filings),
         folder : SystemFolders \cup Filings, id : Ids]
Row == [archived : BOOLEAN, deleted : BOOLEAN, spam : BOOLEAN, unread : BOOLEAN, starred : BOOLEAN,
        id : Ids]

InTrash(m) == IF m.box = "gmail" THEN "TRASH" \in m.labels ELSE m.folder = "deleteditems"
InSpam(m) == IF m.box = "gmail" THEN "SPAM" \in m.labels ELSE m.folder = "junkemail"
InInbox(m) ==
    /\ ~InTrash(m) /\ ~InSpam(m)
    /\ IF m.box = "gmail" THEN "INBOX" \in m.labels ELSE m.folder = "inbox"

\* What lists, digests and the choice of "this email" look for.
Offered(row) == ~row.archived /\ ~row.deleted /\ ~row.spam

\* The row of a message that has just been found.
Stored(m) == [archived |-> FALSE, deleted |-> FALSE, spam |-> FALSE,
              unread |-> "UNREAD" \in m.labels, starred |-> "STARRED" \in m.labels, id |-> m.id]

(***************************************************************************)
(* The operations, and the providers that carry them out.                  *)
(***************************************************************************)
Simple == [kind : {"archive", "unarchive", "delete", "restore"}]
Switches == [kind : {"markRead", "star", "spam"}, on : BOOLEAN]
Moves == [kind : {"move"}, to : Filings \cup SystemLabels \cup SystemFolders]
Labelling == [kind : {"label"}, add : SUBSET Filings, remove : SUBSET Filings]
Operations == Simple \cup Switches \cup Moves \cup Labelling

Relabel(m, add, remove) == [m EXCEPT !.labels = (@ \cup add) \ remove]
Move(m, folder) == [m EXCEPT !.folder = folder, !.id = @ + 1]
Mark(m, label, on) == IF on THEN Relabel(m, {label}, {}) ELSE Relabel(m, {}, {label})

\* Wrong: what is moved stays in the inbox as well.
GmailMutateKeeping(m, op) ==
    CASE op.kind = "archive"   -> Relabel(m, {}, {"INBOX"})
      [] op.kind = "unarchive" -> Relabel(m, {"INBOX"}, {})
      [] op.kind = "delete"    -> Relabel(m, {"TRASH"}, {})
      [] op.kind = "restore"   -> Relabel(m, {}, {"TRASH"})
      [] op.kind = "markRead"  -> Mark(m, "UNREAD", ~op.on)
      [] op.kind = "star"      -> Mark(m, "STARRED", op.on)
      [] op.kind = "spam"      -> Relabel(m, {IF op.on THEN "SPAM" ELSE "INBOX"},
                                             {IF op.on THEN "INBOX" ELSE "SPAM"})
      [] op.kind = "move"      -> Relabel(m, {op.to}, {})
      [] op.kind = "label"     -> Relabel(m, op.add, op.remove)

GmailMutate(m, op) ==
    CASE op.kind = "archive"   -> Relabel(m, {}, {"INBOX"})
      [] op.kind = "unarchive" -> Relabel(m, {"INBOX"}, {})
      [] op.kind = "delete"    -> Relabel(m, {"TRASH"}, {})
      [] op.kind = "restore"   -> Relabel(m, {}, {"TRASH"})
      [] op.kind = "markRead"  -> Mark(m, "UNREAD", ~op.on)
      [] op.kind = "star"      -> Mark(m, "STARRED", op.on)
      [] op.kind = "spam"      -> Relabel(m, {IF op.on THEN "SPAM" ELSE "INBOX"},
                                             {IF op.on THEN "INBOX" ELSE "SPAM"})
      [] op.kind = "move"      -> Relabel(m, {op.to}, {"INBOX"})
      [] op.kind = "label"     -> Relabel(m, op.add, op.remove)

GraphMutate(m, op) ==
    CASE op.kind = "archive"   -> Move(m, "archive")
      [] op.kind \in {"unarchive", "restore"} -> Move(m, "inbox")
      [] op.kind = "delete"    -> Move(m, "deleteditems")
      [] op.kind = "markRead"  -> Mark(m, "UNREAD", ~op.on)
      [] op.kind = "star"      -> Mark(m, "STARRED", op.on)
      [] op.kind = "spam"      -> Move(m, IF op.on THEN "junkemail" ELSE "inbox")
      [] op.kind = "move"      -> Move(m, op.to)
      [] op.kind = "label"     -> Relabel(m, op.add, op.remove)

Mutate(m, op) == IF m.box = "gmail" THEN GmailMutate(m, op) ELSE GraphMutate(m, op)

LocalEffect(row, op) ==
    CASE op.kind \in {"archive", "move"} -> [row EXCEPT !.archived = TRUE]
      [] op.kind = "unarchive" -> [row EXCEPT !.archived = FALSE]
      [] op.kind = "delete"    -> [row EXCEPT !.deleted = TRUE]
      [] op.kind = "restore"   -> [row EXCEPT !.deleted = FALSE, !.archived = FALSE]
      [] op.kind = "markRead"  -> [row EXCEPT !.unread = ~op.on]
      [] op.kind = "star"      -> [row EXCEPT !.starred = op.on]
      [] op.kind = "spam"      -> [row EXCEPT !.spam = op.on]
      [] op.kind = "label"     -> row

(***************************************************************************)
(* Folders and labels are named by the user and looked up in the mailbox.  *)
(***************************************************************************)
UnmovableNames == {"deleted items", "junk email"}

Listed(box) ==
    IF box = "gmail" THEN (Filings \cup SystemLabels) \ {"TRASH", "SPAM"}
    ELSE {f \in Filings \cup SystemFolders :
             /\ Len(PathOf[f]) <= MaxFolderDepth + 1
             /\ \A i \in DOMAIN PathOf[f] : PathOf[f][i] \notin UnmovableNames}

LastSegment(f) == PathOf[f][Len(PathOf[f])]

OnlyOne(matches) == IF Cardinality(matches) = 1 THEN matches ELSE {}

\* The folders a message may be moved to by name: one, or none, or whichever is listed first of
\* those that have all of the name.
Matched(box, said) ==
    LET exact == {f \in Listed(box) : PathOf[f] = said} IN
    IF exact # {} THEN exact
    ELSE OnlyOne({f \in Listed(box) : said = <<LastSegment(f)>>})

\* A label that is to be put on is made if there is none of the name; one that is to come off
\* must be there.
KnownAfter(known, row, op) == IF op.kind = "label" /\ ~row.deleted THEN known \cup op.add ELSE known
NoSuchLabel(known, op) == op.kind = "label" /\ ~(op.remove \subseteq known)

\* What a command asks for; the other operations are only ever an undo, or a snooze that ends.
Commands(box) ==
    {op \in Simple : op.kind \in {"archive", "delete"}} \cup Switches
    \cup {op \in Moves : op.to \in Listed(box)}
    \cup {op \in Labelling : \E f \in Filings : {op.add, op.remove} = {{f}, {}}}

(***************************************************************************)
(* MailboxActionService: the provider first, later the row.  A message that *)
(* is in the trash, and one that is not found under its id, are refused,   *)
(* and so is a label that is to come off and is not known.                 *)
(***************************************************************************)
Refused(known, m, row, op) ==
    \/ row.deleted /\ op.kind \notin {"delete", "restore"}
    \/ row.id # m.id
    \/ NoSuchLabel(known, op)

MailAfter(known, m, row, op) == IF Refused(known, m, row, op) THEN m ELSE Mutate(m, op)

\* Wrong: a command that changes nothing at the provider does not write the row.
RowAfterChange(known, m, row, op) ==
    IF Refused(known, m, row, op) \/ Mutate(m, op) = m THEN row ELSE LocalEffect(row, op)

\* The row once it has been written.
RowAfter(known, m, row, op) == IF Refused(known, m, row, op) THEN row ELSE LocalEffect(row, op)

\* The write is best effort: an error is caught, the command is a success all the same, and a
\* worker that dies before it leaves the row as it was.
RowsAfter(known, m, row, op) == {RowAfter(known, m, row, op), row}

(***************************************************************************)
(* UndoService.                                                            *)
(***************************************************************************)
\* Wrong: spam is taken back with a move to the inbox, which leaves the mark on.
InverseOfLoosely(op) ==
    CASE op.kind = "archive"   -> [kind |-> "unarchive"]
      [] op.kind = "unarchive" -> [kind |-> "archive"]
      [] op.kind = "delete"    -> [kind |-> "restore"]
      [] op.kind = "restore"   -> [kind |-> "delete"]
      [] op.kind \in {"markRead", "star"} -> [op EXCEPT !.on = ~@]
      [] op.kind \in {"spam", "move"} -> [kind |-> "unarchive"]
      [] op.kind = "label"     -> [op EXCEPT !.add = op.remove, !.remove = op.add]

InverseOf(op) ==
    CASE op.kind = "archive"   -> [kind |-> "unarchive"]
      [] op.kind = "unarchive" -> [kind |-> "archive"]
      [] op.kind = "delete"    -> [kind |-> "restore"]
      [] op.kind = "restore"   -> [kind |-> "delete"]
      [] op.kind \in {"markRead", "star", "spam"} -> [op EXCEPT !.on = ~@]
      [] op.kind = "move"      -> [kind |-> "unarchive"]
      [] op.kind = "label"     -> [op EXCEPT !.add = op.remove, !.remove = op.add]

\* The message and its row after a command, of which the row kept something or nothing, and the
\* undo that follows it.
MailUndone(known, m, row, kept, op) ==
    MailAfter(KnownAfter(known, row, op), MailAfter(known, m, row, op), kept, InverseOf(op))
RowUndone(known, m, row, kept, op) ==
    RowAfter(KnownAfter(known, row, op), MailAfter(known, m, row, op), kept, InverseOf(op))

(***************************************************************************)
(* What is asked of one message, whatever the command, and wherever it is. *)
(***************************************************************************)
\* What the row says is where the message is.
Mirrors(m, row) ==
    /\ row.deleted = InTrash(m)
    /\ ~row.deleted => row.spam = InSpam(m)
    /\ row.unread = ("UNREAD" \in m.labels) /\ row.starred = ("STARRED" \in m.labels)
    /\ Offered(row) = InInbox(m)

\* Three commands the row does not follow: what was archived and is said not to be spam is in
\* the inbox, and archived in the row; what is moved or archived out of Outlook's junk folder is
\* spam in the row; what is moved to the inbox, or on Gmail to "starred" or "unread", is
\* archived in the row, and nothing else.
Misjudged(m, row, op) ==
    \/ op.kind = "spam" /\ ~op.on /\ row.archived
    \/ op.kind \in {"archive", "move"} /\ m.box = "graph" /\ InSpam(m)
    \/ op.kind = "move" /\ op.to \in {"INBOX", "inbox", "STARRED", "UNREAD"}

\* The row goes on saying where the message is, as long as it is written: it starts so for a
\* message found in the inbox, and a command, and an undo of a command on a message in the inbox,
\* keep it so, whatever is refused.
Follows(m) ==
    /\ InInbox(m) => Mirrors(m, Stored(m))
    /\ \A row \in Row : Mirrors(m, row) =>
          \A known \in SUBSET Filings, op \in Commands(m.box) : ~Misjudged(m, row, op) =>
             LET kept == RowAfter(known, m, row, op) IN
             /\ Mirrors(MailAfter(known, m, row, op), kept)
             /\ Offered(row) =>
                   Mirrors(MailUndone(known, m, row, kept, op), RowUndone(known, m, row, kept, op))

\* A row that was not written is behind, and no sync will look at it again.  The same command, said
\* again or run again by the queue, puts it right, and so does an undo, if the provider still has
\* the message under the id in the row; if not, no operation ever reaches it.
Mends(m) ==
    \A row \in Row : Mirrors(m, row) =>
       \A known \in SUBSET Filings, op \in Commands(m.box) : ~Misjudged(m, row, op) =>
          LET done == MailAfter(known, m, row, op)
              later == KnownAfter(known, row, op) IN
          IF done.id = m.id
          THEN /\ Mirrors(MailAfter(later, done, row, op), RowAfter(later, done, row, op))
               /\ Offered(row) =>
                     Mirrors(MailUndone(known, m, row, row, op), RowUndone(known, m, row, row, op))
          ELSE \A other \in Operations : Refused(later, done, row, other)

\* An undo puts a message of the inbox back where it was and as it was, whatever the row has kept
\* of the command.  There are two exceptions: the label of a Gmail move stays on, and Outlook does
\* not find what it has moved, so nothing happens.  A command that changed nothing must not be
\* undone, and is.
Restores(m) ==
    \A row \in Row : Mirrors(m, row) /\ Offered(row) =>
       \A known \in SUBSET Filings, op \in Commands(m.box) :
          \A kept \in RowsAfter(known, m, row, op) :
             LET done == MailAfter(known, m, row, op)
                 undone == MailUndone(known, m, row, kept, op) IN
             ~Misjudged(m, row, op) /\ done # m =>
                IF done.id # m.id THEN undone = done
                ELSE undone = IF op.kind = "move" THEN Relabel(m, {op.to}, {}) ELSE m

\* A message is moved to a folder whose name is what the user said, or ends in it and is the only
\* one that does; and never to the trash or the spam, which are asked about first
\* (FolderService.move, listFolders), as long as Outlook's folders have their English names.
MovedWhereSaid ==
    \A box \in Boxes, said \in Seq(STRING) : \A f \in Matched(box, said) :
       /\ f \notin {"TRASH", "SPAM"}
       /\ PathOf["deleteditems"] = <<"deleted items">> /\ PathOf["junkemail"] = <<"junk email">> =>
             f \notin {"deleteditems", "junkemail"}
       /\ \/ PathOf[f] = said
          \/ /\ said = <<LastSegment(f)>>
             /\ \A g \in Listed(box) : LastSegment(g) = LastSegment(f) => g = f
=============================================================================
