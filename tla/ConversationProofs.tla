-------------------------- MODULE ConversationProofs --------------------------
(***************************************************************************)
(* Conversation, for any number of messages, of handlers side by side and  *)
(* of failures of every kind: what leaves was confirmed, an undo is not    *)
(* repeated beyond those handled together, the files held stay near their  *)
(* limit, silence is for files alone, and with one handler at a time the   *)
(* pending question is what Confirmation says.                             *)
(*                                                                         *)
(* And MailOperations, for every message, every command and every tree of  *)
(* folders: the row follows the message, an undo restores it, and a move   *)
(* goes where the user said.  What a conversation does to mail rests on    *)
(* these, so they come first.                                              *)
(***************************************************************************)
EXTENDS MCConversation, FiniteSetTheorems, TLAPS

-----------------------------------------------------------------------------
(***************************************************************************)
(* Each operation by itself.                                               *)
(***************************************************************************)
Archive == [kind |-> "archive"]
Unarchive == [kind |-> "unarchive"]
Delete == [kind |-> "delete"]
Restore == [kind |-> "restore"]
Switch(kind, on) == [kind |-> kind, on |-> on]
MoveTo(to) == [kind |-> "move", to |-> to]
Label(add, remove) == [kind |-> "label", add |-> add, remove |-> remove]

\* What Gmail does.
LEMMA GmailSteps ==
    ASSUME NEW m
    PROVE  /\ GmailMutate(m, Archive) = Relabel(m, {}, {"INBOX"})
           /\ GmailMutate(m, Unarchive) = Relabel(m, {"INBOX"}, {})
           /\ GmailMutate(m, Delete) = Relabel(m, {"TRASH"}, {})
           /\ GmailMutate(m, Restore) = Relabel(m, {}, {"TRASH"})
           /\ \A on \in BOOLEAN : GmailMutate(m, Switch("markRead", on)) = Mark(m, "UNREAD", ~on)
           /\ \A on \in BOOLEAN : GmailMutate(m, Switch("star", on)) = Mark(m, "STARRED", on)
           /\ GmailMutate(m, Switch("spam", TRUE)) = Relabel(m, {"SPAM"}, {"INBOX"})
           /\ GmailMutate(m, Switch("spam", FALSE)) = Relabel(m, {"INBOX"}, {"SPAM"})
           /\ \A to : GmailMutate(m, MoveTo(to)) = Relabel(m, {to}, {"INBOX"})
           /\ \A add, remove : GmailMutate(m, Label(add, remove)) = Relabel(m, add, remove)
BY DEF GmailMutate, Archive, Unarchive, Delete, Restore, Switch, MoveTo, Label

\* What Outlook does.
LEMMA GraphSteps ==
    ASSUME NEW m
    PROVE  /\ GraphMutate(m, Archive) = Move(m, "archive")
           /\ GraphMutate(m, Unarchive) = Move(m, "inbox")
           /\ GraphMutate(m, Delete) = Move(m, "deleteditems")
           /\ GraphMutate(m, Restore) = Move(m, "inbox")
           /\ \A on \in BOOLEAN : GraphMutate(m, Switch("markRead", on)) = Mark(m, "UNREAD", ~on)
           /\ \A on \in BOOLEAN : GraphMutate(m, Switch("star", on)) = Mark(m, "STARRED", on)
           /\ GraphMutate(m, Switch("spam", TRUE)) = Move(m, "junkemail")
           /\ GraphMutate(m, Switch("spam", FALSE)) = Move(m, "inbox")
           /\ \A to : GraphMutate(m, MoveTo(to)) = Move(m, to)
           /\ \A add, remove : GraphMutate(m, Label(add, remove)) = Relabel(m, add, remove)
BY DEF GraphMutate, Archive, Unarchive, Delete, Restore, Switch, MoveTo, Label

\* A row, field by field, and what it says afterwards.
Fields(archived, deleted, spam, unread, starred, id) ==
    [archived |-> archived, deleted |-> deleted, spam |-> spam, unread |-> unread, starred |-> starred,
     id |-> id]

LEMMA RowSteps ==
    ASSUME NEW row \in Row
    PROVE  /\ LocalEffect(row, Archive) = Fields(TRUE, row.deleted, row.spam, row.unread, row.starred, row.id)
           /\ LocalEffect(row, Unarchive) = Fields(FALSE, row.deleted, row.spam, row.unread, row.starred, row.id)
           /\ LocalEffect(row, Delete) = Fields(row.archived, TRUE, row.spam, row.unread, row.starred, row.id)
           /\ LocalEffect(row, Restore) = Fields(FALSE, FALSE, row.spam, row.unread, row.starred, row.id)
           /\ \A on \in BOOLEAN : LocalEffect(row, Switch("markRead", on)) =
                         Fields(row.archived, row.deleted, row.spam, ~on, row.starred, row.id)
           /\ \A on \in BOOLEAN : LocalEffect(row, Switch("star", on)) =
                         Fields(row.archived, row.deleted, row.spam, row.unread, on, row.id)
           /\ \A on \in BOOLEAN : LocalEffect(row, Switch("spam", on)) =
                         Fields(row.archived, row.deleted, on, row.unread, row.starred, row.id)
           /\ \A to : LocalEffect(row, MoveTo(to)) =
                         Fields(TRUE, row.deleted, row.spam, row.unread, row.starred, row.id)
           /\ \A add, remove : LocalEffect(row, Label(add, remove)) = row
BY DEF LocalEffect, Archive, Unarchive, Delete, Restore, Switch, MoveTo, Label, Row, Fields

\* What takes it back.
LEMMA InverseSteps ==
    /\ InverseOf(Archive) = Unarchive
    /\ InverseOf(Delete) = Restore
    /\ \A kind \in {"markRead", "star", "spam"}, on \in BOOLEAN : InverseOf(Switch(kind, on)) = Switch(kind, ~on)
    /\ \A to : InverseOf(MoveTo(to)) = Unarchive
    /\ \A add, remove : InverseOf(Label(add, remove)) = Label(remove, add)
BY DEF InverseOf, Archive, Unarchive, Delete, Restore, Switch, MoveTo, Label

\* The operations a command asks for, by kind.
LEMMA CommandKinds ==
    ASSUME NEW box, NEW op \in Commands(box)
    PROVE  \/ op = Archive \/ op = Delete
           \/ \E kind \in {"markRead", "star", "spam"}, on \in BOOLEAN : op = Switch(kind, on)
           \/ \E to \in Listed(box) : op = MoveTo(to)
           \/ \E f \in Filings : op = Label({f}, {}) \/ op = Label({}, {f})
<1>1. CASE op \in Simple /\ op.kind \in {"archive", "delete"}
    BY <1>1 DEF Simple, Archive, Delete
<1>2. CASE op \in Switches
    BY <1>2 DEF Switches, Switch
<1>3. CASE op \in Moves /\ op.to \in Listed(box)
    BY <1>3 DEF Moves, MoveTo
<1>4. CASE op \in Labelling /\ \E f \in Filings : {op.add, op.remove} = {{f}, {}}
    <2>1. PICK f \in Filings : {op.add, op.remove} = {{f}, {}}
        BY <1>4
    <2>2. (op.add = {f} /\ op.remove = {}) \/ (op.add = {} /\ op.remove = {f})
        BY <2>1
    <2>3. op = [kind |-> "label", add |-> op.add, remove |-> op.remove]
        BY <1>4 DEF Labelling
    <2> QED BY <2>2, <2>3 DEF Label
<1> QED BY <1>1, <1>2, <1>3, <1>4 DEF Commands

-----------------------------------------------------------------------------
(***************************************************************************)
(* An undo restores.                                                       *)
(***************************************************************************)

\* A row that offers a message says nothing else of it, and the message is in the inbox.
LEMMA OfferedRow ==
    ASSUME NEW m \in Mail, NEW row \in Row, Mirrors(m, row), Offered(row)
    PROVE  /\ row.archived = FALSE /\ row.deleted = FALSE /\ row.spam = FALSE
           /\ InInbox(m)
BY DEF Row, Offered, Mirrors

\* A message is a record, whichever provider has it.
LEMMA MailShape ==
    ASSUME NEW m \in Mail
    PROVE  /\ m = [box |-> m.box, labels |-> m.labels, folder |-> m.folder, id |-> m.id]
           /\ m.box \in Boxes /\ m.id \in Nat
BY FilingsAssumption DEF Mail, Boxes

\* Labels that are changed leave the rest of the message as it is.
With(m, labels) == [box |-> m.box, labels |-> labels, folder |-> m.folder, id |-> m.id]

LEMMA RelabelShape ==
    ASSUME NEW m \in Mail
    PROVE  /\ With(m, m.labels) = m
           /\ \A A, B : Relabel(m, A, B) = With(m, (m.labels \cup A) \ B)
           /\ \A L, C, D : Relabel(With(m, L), C, D) = With(m, (L \cup C) \ D)
           /\ \A L : With(m, L).id = m.id
<1>1. m = With(m, m.labels)
    BY MailShape DEF With
<1>2. ASSUME NEW L, NEW C, NEW D PROVE Relabel(With(m, L), C, D) = With(m, (L \cup C) \ D)
    BY DEF Relabel, With
<1>3. ASSUME NEW A, NEW B PROVE Relabel(m, A, B) = With(m, (m.labels \cup A) \ B)
    BY <1>1, <1>2
<1>4. ASSUME NEW L PROVE With(m, L).id = m.id
    BY DEF With
<1> QED BY <1>1, <1>2, <1>3, <1>4

\* Changing labels twice.
LEMMA RelabelTwice ==
    ASSUME NEW m \in Mail, NEW A, NEW B, NEW C, NEW D
    PROVE  Relabel(Relabel(m, A, B), C, D) = With(m, (((m.labels \cup A) \ B) \cup C) \ D)
<1>1. Relabel(m, A, B) = With(m, (m.labels \cup A) \ B)
    BY RelabelShape
<1> DEFINE L == (m.labels \cup A) \ B
<1>2. Relabel(With(m, L), C, D) = With(m, (L \cup C) \ D)
    BY RelabelShape
<1> QED BY <1>1, <1>2

\* A label that was not on and is put on comes off again, and the other way round.
LEMMA OnAndOff ==
    ASSUME NEW m \in Mail, NEW f
    PROVE  /\ f \notin m.labels => Relabel(Relabel(m, {f}, {}), {}, {f}) = m
           /\ f \in m.labels => Relabel(Relabel(m, {}, {f}), {f}, {}) = m
           /\ f \in m.labels => Relabel(m, {f}, {}) = m
           /\ f \notin m.labels => Relabel(m, {}, {f}) = m
<1>0. With(m, m.labels) = m
    BY RelabelShape
<1>1. ASSUME f \notin m.labels PROVE Relabel(Relabel(m, {f}, {}), {}, {f}) = m
    <2>1. (((m.labels \cup {f}) \ {}) \cup {}) \ {f} = m.labels
        BY <1>1
    <2>2. Relabel(Relabel(m, {f}, {}), {}, {f}) = With(m, (((m.labels \cup {f}) \ {}) \cup {}) \ {f})
        BY RelabelTwice
    <2> QED BY <2>1, <2>2, <1>0
<1>2. ASSUME f \in m.labels PROVE Relabel(Relabel(m, {}, {f}), {f}, {}) = m
    <2>1. (((m.labels \cup {}) \ {f}) \cup {f}) \ {} = m.labels
        BY <1>2
    <2>2. Relabel(Relabel(m, {}, {f}), {f}, {}) = With(m, (((m.labels \cup {}) \ {f}) \cup {f}) \ {})
        BY RelabelTwice
    <2> QED BY <2>1, <2>2, <1>0
<1>3. ASSUME f \in m.labels PROVE Relabel(m, {f}, {}) = m
    <2>1. (m.labels \cup {f}) \ {} = m.labels
        BY <1>3
    <2>2. Relabel(m, {f}, {}) = With(m, (m.labels \cup {f}) \ {})
        BY RelabelShape
    <2> QED BY <2>1, <2>2, <1>0
<1>4. ASSUME f \notin m.labels PROVE Relabel(m, {}, {f}) = m
    <2>1. (m.labels \cup {}) \ {f} = m.labels
        BY <1>4
    <2>2. Relabel(m, {}, {f}) = With(m, (m.labels \cup {}) \ {f})
        BY RelabelShape
    <2> QED BY <2>1, <2>2, <1>0
<1> QED BY <1>1, <1>2, <1>3, <1>4

\* So do the marks.
LEMMA MarkAndBack ==
    ASSUME NEW m \in Mail, NEW label, NEW on \in BOOLEAN, Mark(m, label, on) # m
    PROVE  Mark(Mark(m, label, on), label, ~on) = m
BY OnAndOff DEF Mark

\* The row keeps its id, and only a delete marks it deleted.
LEMMA EffectShape ==
    ASSUME NEW row \in Row, NEW box, NEW op \in Commands(box)
    PROVE  /\ LocalEffect(row, op) \in Row
           /\ LocalEffect(row, op).id = row.id
           /\ op # Delete => LocalEffect(row, op).deleted = row.deleted
<1>2. /\ row.archived \in BOOLEAN /\ row.deleted \in BOOLEAN /\ row.spam \in BOOLEAN
      /\ row.unread \in BOOLEAN /\ row.starred \in BOOLEAN
    BY DEF Row
<1>3. CASE op = Archive
    <2>1. LocalEffect(row, op) = Fields(TRUE, row.deleted, row.spam, row.unread, row.starred, row.id)
        BY <1>3, RowSteps DEF Fields
    <2> QED BY <2>1, <1>2 DEF Fields, Row
<1>4. CASE op = Delete
    <2>1. LocalEffect(row, op) = Fields(row.archived, TRUE, row.spam, row.unread, row.starred, row.id)
        BY <1>4, RowSteps DEF Fields
    <2> QED BY <2>1, <1>2, <1>4 DEF Fields, Row
<1>5. ASSUME NEW kind \in {"markRead", "star", "spam"}, NEW on \in BOOLEAN, op = Switch(kind, on)
      PROVE  /\ LocalEffect(row, op) \in Row
             /\ LocalEffect(row, op).id = row.id /\ LocalEffect(row, op).deleted = row.deleted
    <2>1. CASE kind = "markRead"
        <3>1. LocalEffect(row, op) = Fields(row.archived, row.deleted, row.spam, ~on, row.starred, row.id)
            BY <1>5, <2>1, RowSteps DEF Fields
        <3> QED BY <3>1, <1>2 DEF Fields, Row
    <2>2. CASE kind = "star"
        <3>1. LocalEffect(row, op) = Fields(row.archived, row.deleted, row.spam, row.unread, on, row.id)
            BY <1>5, <2>2, RowSteps DEF Fields
        <3> QED BY <3>1, <1>2 DEF Fields, Row
    <2>3. CASE kind = "spam"
        <3>1. LocalEffect(row, op) = Fields(row.archived, row.deleted, on, row.unread, row.starred, row.id)
            BY <1>5, <2>3, RowSteps DEF Fields
        <3> QED BY <3>1, <1>2 DEF Fields, Row
    <2> QED BY <2>1, <2>2, <2>3
<1>6. ASSUME NEW to, op = MoveTo(to)
      PROVE  /\ LocalEffect(row, op) \in Row
             /\ LocalEffect(row, op).id = row.id /\ LocalEffect(row, op).deleted = row.deleted
    <2>1. LocalEffect(row, op) = Fields(TRUE, row.deleted, row.spam, row.unread, row.starred, row.id)
        BY <1>6, RowSteps DEF Fields
    <2> QED BY <2>1, <1>2 DEF Fields, Row
<1>7. ASSUME NEW f, op = Label({f}, {}) \/ op = Label({}, {f})
      PROVE  LocalEffect(row, op) = row
    BY <1>7, RowSteps DEF Fields
<1> QED BY <1>3, <1>4, <1>5, <1>6, <1>7, CommandKinds

\* The undo of a command never asks for a label that is not known.
LEMMA InverseKnown ==
    ASSUME NEW row, row.deleted = FALSE, NEW known, NEW box, NEW op \in Commands(box)
    PROVE  ~NoSuchLabel(KnownAfter(known, row, op), InverseOf(op))
<1>1. CASE op = Archive \/ op = Delete \/ \E to \in Listed(box) : op = MoveTo(to)
    BY <1>1, InverseSteps DEF NoSuchLabel, Unarchive, Restore
<1>2. CASE \E kind \in {"markRead", "star", "spam"}, on \in BOOLEAN : op = Switch(kind, on)
    <2>1. PICK kind \in {"markRead", "star", "spam"}, on \in BOOLEAN : op = Switch(kind, on)
        BY <1>2
    <2>2. InverseOf(op) = Switch(kind, ~on)
        BY <2>1, InverseSteps
    <2> QED BY <2>2 DEF NoSuchLabel, Switch
<1>3. ASSUME NEW f, op = Label({f}, {})
      PROVE  ~NoSuchLabel(KnownAfter(known, row, op), InverseOf(op))
    <2>1. InverseOf(op) = Label({}, {f})
        BY <1>3, InverseSteps
    <2>2. InverseOf(op).remove = {f}
        BY <2>1 DEF Label
    <2>3. op.kind = "label" /\ op.add = {f}
        BY <1>3 DEF Label
    <2>4. KnownAfter(known, row, op) = known \cup {f}
        BY <2>3 DEF KnownAfter
    <2> QED BY <2>2, <2>4 DEF NoSuchLabel
<1>4. ASSUME NEW f, op = Label({}, {f})
      PROVE  ~NoSuchLabel(KnownAfter(known, row, op), InverseOf(op))
    <2>1. InverseOf(op) = Label({f}, {})
        BY <1>4, InverseSteps
    <2>2. InverseOf(op).remove = {}
        BY <2>1 DEF Label
    <2> QED BY <2>2 DEF NoSuchLabel
<1> QED BY <1>1, <1>2, <1>3, <1>4, CommandKinds

\* Written or not, the row keeps its id, and says deleted only after a delete.
LEMMA KeptShape ==
    ASSUME NEW m \in Mail, NEW row \in Row, row.deleted = FALSE, NEW known,
           NEW op \in Commands(m.box), NEW kept \in RowsAfter(known, m, row, op)
    PROVE  /\ kept.id = row.id
           /\ kept.deleted => InverseOf(op).kind = "restore"
<1>1. kept = row \/ kept = LocalEffect(row, op)
    BY DEF RowsAfter, RowAfter
<1>2. CASE op = Delete
    <2>1. InverseOf(op).kind = "restore"
        BY <1>2, InverseSteps DEF Restore
    <2> QED BY <1>1, <2>1, EffectShape
<1>3. CASE op # Delete
    BY <1>1, <1>3, EffectShape
<1> QED BY <1>2, <1>3

\* What was carried out on a message that is still found under its id is undone by the inverse,
\* whatever the row has kept of it.
LEMMA UndoGoesThrough ==
    ASSUME NEW m \in Mail, NEW row \in Row, Mirrors(m, row), Offered(row),
           NEW known \in SUBSET Filings, NEW op \in Commands(m.box),
           NEW kept \in RowsAfter(known, m, row, op),
           ~Refused(known, m, row, op), Mutate(m, op).id = m.id
    PROVE  /\ MailUndone(known, m, row, kept, op) = Mutate(Mutate(m, op), InverseOf(op))
           /\ RowUndone(known, m, row, kept, op) = LocalEffect(kept, InverseOf(op))
<1>1. row.deleted = FALSE /\ row.id = m.id
    BY OfferedRow DEF Refused
<1>2. MailAfter(known, m, row, op) = Mutate(m, op)
    BY DEF MailAfter
<1>6. kept.id = row.id /\ (kept.deleted => InverseOf(op).kind = "restore")
    BY <1>1, KeptShape
<1>3. kept.id = m.id /\ (kept.deleted => InverseOf(op).kind = "restore")
    BY <1>1, <1>6
<1>4. ~NoSuchLabel(KnownAfter(known, row, op), InverseOf(op))
    BY <1>1, InverseKnown
<1>5. ~Refused(KnownAfter(known, row, op), Mutate(m, op), kept, InverseOf(op))
    BY <1>3, <1>4 DEF Refused
<1> QED BY <1>2, <1>5 DEF MailUndone, RowUndone, MailAfter, RowAfter

\* A message that is no longer found under its id stays as the command left it.
LEMMA UndoMisses ==
    ASSUME NEW m \in Mail, NEW row \in Row, Mirrors(m, row), Offered(row),
           NEW known \in SUBSET Filings, NEW op \in Commands(m.box),
           NEW kept \in RowsAfter(known, m, row, op),
           ~Refused(known, m, row, op), Mutate(m, op).id # m.id
    PROVE  /\ MailUndone(known, m, row, kept, op) = Mutate(m, op)
           /\ RowUndone(known, m, row, kept, op) = kept
<1>4. row.deleted = FALSE /\ row.id = m.id
    BY OfferedRow DEF Refused
<1>5. kept.id = row.id /\ (kept.deleted => InverseOf(op).kind = "restore")
    BY <1>4, KeptShape
<1>1. kept.id = m.id
    BY <1>4, <1>5
<1>2. MailAfter(known, m, row, op) = Mutate(m, op)
    BY DEF MailAfter
<1>3. Refused(KnownAfter(known, row, op), Mutate(m, op), kept, InverseOf(op))
    BY <1>1 DEF Refused
<1> QED BY <1>2, <1>3 DEF MailUndone, RowUndone, MailAfter, RowAfter

\* A message stays with its provider.
LEMMA BoxStays ==
    ASSUME NEW m \in Mail, NEW op \in Commands(m.box)
    PROVE  GmailMutate(m, op).box = m.box /\ GraphMutate(m, op).box = m.box
<1>1. m = [box |-> m.box, labels |-> m.labels, folder |-> m.folder, id |-> m.id]
    BY MailShape
<1>2. /\ \A A, B : Relabel(m, A, B).box = m.box
      /\ \A to : Move(m, to).box = m.box
    BY <1>1 DEF Relabel, Move
<1>3. \A label : \A on \in BOOLEAN : Mark(m, label, on).box = m.box
    BY <1>2 DEF Mark
<1>4. op.kind \in {"archive", "delete", "markRead", "star", "spam", "move", "label"}
    BY DEF Commands, Simple, Switches, Moves, Labelling
<1>5. op.kind \in {"markRead", "star", "spam"} => op.on \in BOOLEAN
    BY DEF Commands, Simple, Switches, Moves, Labelling
<1> QED BY <1>2, <1>3, <1>4, <1>5 DEF GmailMutate, GraphMutate

\* What Gmail does to a message of the inbox, it takes back.
LEMMA GmailRestores ==
    ASSUME NEW m \in Mail, m.box = "gmail", InInbox(m), NEW row, row.archived = FALSE,
           NEW op \in Commands("gmail"), ~Misjudged(m, row, op), GmailMutate(m, op) # m
    PROVE  /\ GmailMutate(m, op).id = m.id
           /\ GmailMutate(GmailMutate(m, op), InverseOf(op)) =
                  IF op.kind = "move" THEN Relabel(m, {op.to}, {}) ELSE m
<1>1. "INBOX" \in m.labels /\ "TRASH" \notin m.labels /\ "SPAM" \notin m.labels
    BY DEF InInbox, InTrash, InSpam
<1>2. \A A, B : Relabel(m, A, B).id = m.id
    BY RelabelShape DEF With
<1>3. CASE op = Archive
    <2>1. op.kind = "archive" /\ InverseOf(op) = Unarchive
        BY <1>3, InverseSteps DEF Archive
    <2>2. GmailMutate(m, op) = Relabel(m, {}, {"INBOX"})
        BY <1>3, GmailSteps
    <2>3. GmailMutate(GmailMutate(m, op), InverseOf(op)) = Relabel(Relabel(m, {}, {"INBOX"}), {"INBOX"}, {})
        BY <2>1, <2>2, GmailSteps
    <2>4. Relabel(Relabel(m, {}, {"INBOX"}), {"INBOX"}, {}) = m
        BY <1>1, OnAndOff
    <2> QED BY <1>2, <2>1, <2>2, <2>3, <2>4
<1>4. CASE op = Delete
    <2>1. op.kind = "delete" /\ InverseOf(op) = Restore
        BY <1>4, InverseSteps DEF Delete
    <2>2. GmailMutate(m, op) = Relabel(m, {"TRASH"}, {})
        BY <1>4, GmailSteps
    <2>3. GmailMutate(GmailMutate(m, op), InverseOf(op)) = Relabel(Relabel(m, {"TRASH"}, {}), {}, {"TRASH"})
        BY <2>1, <2>2, GmailSteps
    <2>4. Relabel(Relabel(m, {"TRASH"}, {}), {}, {"TRASH"}) = m
        BY <1>1, OnAndOff
    <2> QED BY <1>2, <2>1, <2>2, <2>3, <2>4
<1>5. ASSUME NEW kind \in {"markRead", "star", "spam"}, NEW on \in BOOLEAN, op = Switch(kind, on)
      PROVE  /\ GmailMutate(m, op).id = m.id /\ op.kind # "move"
             /\ GmailMutate(GmailMutate(m, op), InverseOf(op)) = m
    <2>1. op.kind # "move"
        BY <1>5 DEF Switch
    <2>6. InverseOf(op) = Switch(kind, ~on)
        BY <1>5, InverseSteps
    <2>2. CASE kind = "markRead"
        <3>1. GmailMutate(m, op) = Mark(m, "UNREAD", ~on)
            BY <1>5, <2>2, GmailSteps
        <3>2. GmailMutate(GmailMutate(m, op), InverseOf(op)) = Mark(Mark(m, "UNREAD", ~on), "UNREAD", ~~on)
            BY <2>6, <2>2, <3>1, GmailSteps
        <3>3. Mark(m, "UNREAD", ~on).id = m.id
            BY <1>2 DEF Mark
        <3> QED BY <2>1, <3>1, <3>2, <3>3, MarkAndBack
    <2>3. CASE kind = "star"
        <3>1. GmailMutate(m, op) = Mark(m, "STARRED", on)
            BY <1>5, <2>3, GmailSteps
        <3>2. GmailMutate(GmailMutate(m, op), InverseOf(op)) = Mark(Mark(m, "STARRED", on), "STARRED", ~on)
            BY <2>6, <2>3, <3>1, GmailSteps
        <3>3. Mark(m, "STARRED", on).id = m.id
            BY <1>2 DEF Mark
        <3> QED BY <2>1, <3>1, <3>2, <3>3, MarkAndBack
    <2>4. CASE kind = "spam" /\ on
        <3>1. GmailMutate(m, op) = Relabel(m, {"SPAM"}, {"INBOX"})
            BY <1>5, <2>4, GmailSteps
        <3>2. GmailMutate(GmailMutate(m, op), InverseOf(op)) =
                  Relabel(Relabel(m, {"SPAM"}, {"INBOX"}), {"INBOX"}, {"SPAM"})
            BY <2>6, <2>4, <3>1, GmailSteps
        <3>3. (((m.labels \cup {"SPAM"}) \ {"INBOX"}) \cup {"INBOX"}) \ {"SPAM"} = m.labels
            BY <1>1
        <3>4. Relabel(Relabel(m, {"SPAM"}, {"INBOX"}), {"INBOX"}, {"SPAM"}) =
                  With(m, (((m.labels \cup {"SPAM"}) \ {"INBOX"}) \cup {"INBOX"}) \ {"SPAM"})
            BY RelabelTwice
        <3>5. With(m, m.labels) = m /\ Relabel(m, {"SPAM"}, {"INBOX"}).id = m.id
            BY RelabelShape, <1>2
        <3> QED BY <2>1, <3>1, <3>2, <3>3, <3>4, <3>5
    <2>5. CASE kind = "spam" /\ ~on
        <3>1. GmailMutate(m, op) = Relabel(m, {"INBOX"}, {"SPAM"})
            BY <1>5, <2>5, GmailSteps
        <3>2. (m.labels \cup {"INBOX"}) \ {"SPAM"} = m.labels
            BY <1>1
        <3>3. Relabel(m, {"INBOX"}, {"SPAM"}) = With(m, (m.labels \cup {"INBOX"}) \ {"SPAM"})
            BY RelabelShape
        <3> QED BY <3>1, <3>2, <3>3, RelabelShape
    <2> QED BY <2>2, <2>3, <2>4, <2>5
<1>6. ASSUME NEW to \in Listed("gmail"), op = MoveTo(to)
      PROVE  /\ GmailMutate(m, op).id = m.id /\ op.kind = "move" /\ op.to = to
             /\ GmailMutate(GmailMutate(m, op), InverseOf(op)) = Relabel(m, {to}, {})
    <2>1. op.kind = "move" /\ op.to = to /\ InverseOf(op) = Unarchive
        BY <1>6, InverseSteps DEF MoveTo
    <2>2. to # "INBOX"
        BY <2>1 DEF Misjudged
    <2>3. GmailMutate(m, op) = Relabel(m, {to}, {"INBOX"})
        BY <1>6, GmailSteps
    <2>4. GmailMutate(GmailMutate(m, op), InverseOf(op)) = Relabel(Relabel(m, {to}, {"INBOX"}), {"INBOX"}, {})
        BY <2>1, <2>3, GmailSteps
    <2>5. (((m.labels \cup {to}) \ {"INBOX"}) \cup {"INBOX"}) \ {} = (m.labels \cup {to}) \ {}
        BY <1>1
    <2>6. /\ Relabel(Relabel(m, {to}, {"INBOX"}), {"INBOX"}, {}) =
                 With(m, (((m.labels \cup {to}) \ {"INBOX"}) \cup {"INBOX"}) \ {})
          /\ Relabel(m, {to}, {}) = With(m, (m.labels \cup {to}) \ {})
        BY RelabelTwice, RelabelShape
    <2> QED BY <1>2, <2>1, <2>3, <2>4, <2>5, <2>6
<1>7. ASSUME NEW f \in Filings, op = Label({f}, {})
      PROVE  /\ GmailMutate(m, op).id = m.id /\ op.kind = "label"
             /\ GmailMutate(GmailMutate(m, op), InverseOf(op)) = m
    <2>1. op.kind = "label"
        BY <1>7 DEF Label
    <2>6. InverseOf(op) = Label({}, {f})
        BY <1>7, InverseSteps
    <2>7. \A n : /\ GmailMutate(n, Label({f}, {})) = Relabel(n, {f}, {})
                 /\ GmailMutate(n, Label({}, {f})) = Relabel(n, {}, {f})
        BY DEF GmailMutate, Label
    <2>2. GmailMutate(m, op) = Relabel(m, {f}, {})
        BY <1>7, <2>7
    <2>3. GmailMutate(GmailMutate(m, op), InverseOf(op)) = Relabel(Relabel(m, {f}, {}), {}, {f})
        BY <2>6, <2>2, <2>7
    <2>4. f \notin m.labels
        BY <2>2, OnAndOff
    <2>5. Relabel(Relabel(m, {f}, {}), {}, {f}) = m
        BY <2>4, OnAndOff
    <2> QED BY <1>2, <2>1, <2>2, <2>3, <2>5
<1>8. ASSUME NEW f \in Filings, op = Label({}, {f})
      PROVE  /\ GmailMutate(m, op).id = m.id /\ op.kind = "label"
             /\ GmailMutate(GmailMutate(m, op), InverseOf(op)) = m
    <2>1. op.kind = "label"
        BY <1>8 DEF Label
    <2>6. InverseOf(op) = Label({f}, {})
        BY <1>8, InverseSteps
    <2>7. \A n : /\ GmailMutate(n, Label({f}, {})) = Relabel(n, {f}, {})
                 /\ GmailMutate(n, Label({}, {f})) = Relabel(n, {}, {f})
        BY DEF GmailMutate, Label
    <2>2. GmailMutate(m, op) = Relabel(m, {}, {f})
        BY <1>8, <2>7
    <2>3. GmailMutate(GmailMutate(m, op), InverseOf(op)) = Relabel(Relabel(m, {}, {f}), {f}, {})
        BY <2>6, <2>2, <2>7
    <2>4. f \in m.labels
        BY <2>2, OnAndOff
    <2>5. Relabel(Relabel(m, {}, {f}), {f}, {}) = m
        BY <2>4, OnAndOff
    <2> QED BY <1>2, <2>1, <2>2, <2>3, <2>5
<1>9. CASE \E kind \in {"markRead", "star", "spam"}, on \in BOOLEAN : op = Switch(kind, on)
    BY <1>5, <1>9
<1>10. CASE \E to \in Listed("gmail") : op = MoveTo(to)
    BY <1>6, <1>10
<1>11. CASE \E f \in Filings : op = Label({f}, {}) \/ op = Label({}, {f})
    BY <1>7, <1>8, <1>11
<1>12. \/ op = Archive \/ op = Delete
       \/ \E kind \in {"markRead", "star", "spam"}, on \in BOOLEAN : op = Switch(kind, on)
       \/ \E to \in Listed("gmail") : op = MoveTo(to)
       \/ \E f \in Filings : op = Label({f}, {}) \/ op = Label({}, {f})
    BY CommandKinds
<1> QED BY <1>3, <1>4, <1>9, <1>10, <1>11, <1>12
\* What Outlook does to a message of the inbox it takes back, unless it has moved the message.
LEMMA GraphRestores ==
    ASSUME NEW m \in Mail, NEW op \in Commands("graph"), GraphMutate(m, op) # m, GraphMutate(m, op).id = m.id
    PROVE  /\ op.kind # "move"
           /\ GraphMutate(GraphMutate(m, op), InverseOf(op)) = m
<1>1. \A to : Move(m, to).id # m.id
    <2>1. m = [box |-> m.box, labels |-> m.labels, folder |-> m.folder, id |-> m.id] /\ m.id \in Nat
        BY MailShape
    <2> QED BY <2>1 DEF Move
<1>2. op # Archive /\ op # Delete /\ \A to : op # MoveTo(to)
    BY <1>1, GraphSteps
<1>3. ASSUME NEW kind \in {"markRead", "star", "spam"}, NEW on \in BOOLEAN, op = Switch(kind, on)
      PROVE  /\ op.kind # "move" /\ GraphMutate(GraphMutate(m, op), InverseOf(op)) = m
    <2>1. op.kind # "move"
        BY <1>3 DEF Switch
    <2>2. InverseOf(op) = Switch(kind, ~on)
        BY <1>3, InverseSteps
    <2>3. CASE kind = "markRead"
        <3>1. GraphMutate(m, op) = Mark(m, "UNREAD", ~on)
            BY <1>3, <2>3, GraphSteps
        <3>2. GraphMutate(GraphMutate(m, op), InverseOf(op)) = Mark(Mark(m, "UNREAD", ~on), "UNREAD", ~~on)
            BY <2>2, <2>3, <3>1, GraphSteps
        <3> QED BY <2>1, <3>1, <3>2, MarkAndBack
    <2>4. CASE kind = "star"
        <3>1. GraphMutate(m, op) = Mark(m, "STARRED", on)
            BY <1>3, <2>4, GraphSteps
        <3>2. GraphMutate(GraphMutate(m, op), InverseOf(op)) = Mark(Mark(m, "STARRED", on), "STARRED", ~on)
            BY <2>2, <2>4, <3>1, GraphSteps
        <3> QED BY <2>1, <3>1, <3>2, MarkAndBack
    <2>5. CASE kind = "spam"
        <3>1. GraphMutate(m, op) = Move(m, "junkemail") \/ GraphMutate(m, op) = Move(m, "inbox")
            BY <1>3, <2>5, GraphSteps
        <3> QED BY <3>1, <1>1
    <2> QED BY <2>3, <2>4, <2>5
<1>4. ASSUME NEW f \in Filings, op = Label({f}, {}) \/ op = Label({}, {f})
      PROVE  /\ op.kind # "move" /\ GraphMutate(GraphMutate(m, op), InverseOf(op)) = m
    <2>1. op.kind # "move"
        BY <1>4 DEF Label
    <2>2. \A n : /\ GraphMutate(n, Label({f}, {})) = Relabel(n, {f}, {})
                 /\ GraphMutate(n, Label({}, {f})) = Relabel(n, {}, {f})
        BY DEF GraphMutate, Label
    <2>3. CASE op = Label({f}, {})
        <3>1. InverseOf(op) = Label({}, {f})
            BY <2>3, InverseSteps
        <3>2. f \notin m.labels
            BY <2>2, <2>3, OnAndOff
        <3>3. Relabel(Relabel(m, {f}, {}), {}, {f}) = m
            BY <3>2, OnAndOff
        <3> QED BY <2>1, <2>2, <2>3, <3>1, <3>3
    <2>4. CASE op = Label({}, {f})
        <3>1. InverseOf(op) = Label({f}, {})
            BY <2>4, InverseSteps
        <3>2. f \in m.labels
            BY <2>2, <2>4, OnAndOff
        <3>3. Relabel(Relabel(m, {}, {f}), {f}, {}) = m
            BY <3>2, OnAndOff
        <3> QED BY <2>1, <2>2, <2>4, <3>1, <3>3
    <2> QED BY <1>4, <2>3, <2>4
<1>5. CASE \E kind \in {"markRead", "star", "spam"}, on \in BOOLEAN : op = Switch(kind, on)
    BY <1>3, <1>5
<1>6. CASE \E f \in Filings : op = Label({f}, {}) \/ op = Label({}, {f})
    BY <1>4, <1>6
<1>7. \/ op = Archive \/ op = Delete
      \/ \E kind \in {"markRead", "star", "spam"}, on \in BOOLEAN : op = Switch(kind, on)
      \/ \E to \in Listed("graph") : op = MoveTo(to)
      \/ \E f \in Filings : op = Label({f}, {}) \/ op = Label({}, {f})
    BY CommandKinds
<1> QED BY <1>2, <1>5, <1>6, <1>7

\* The undo of a command that changed something, whatever the row has kept of it.
LEMMA UndoneIsRestored ==
    ASSUME NEW m \in Mail, NEW row \in Row, Mirrors(m, row), Offered(row),
           NEW known \in SUBSET Filings, NEW op \in Commands(m.box),
           NEW kept \in RowsAfter(known, m, row, op),
           ~Misjudged(m, row, op), MailAfter(known, m, row, op) # m
    PROVE  IF MailAfter(known, m, row, op).id # m.id
           THEN MailUndone(known, m, row, kept, op) = MailAfter(known, m, row, op)
           ELSE MailUndone(known, m, row, kept, op) = IF op.kind = "move" THEN Relabel(m, {op.to}, {}) ELSE m
<1>1. ~Refused(known, m, row, op) /\ MailAfter(known, m, row, op) = Mutate(m, op)
    BY DEF MailAfter
<1>2. CASE Mutate(m, op).id # m.id
    <2>1. MailUndone(known, m, row, kept, op) = Mutate(m, op)
        BY <1>1, <1>2, UndoMisses
    <2> QED BY <1>1, <1>2, <2>1
<1>3. CASE Mutate(m, op).id = m.id
    <2>1. MailUndone(known, m, row, kept, op) = Mutate(Mutate(m, op), InverseOf(op))
        BY <1>1, <1>3, UndoGoesThrough
    <2>2. CASE m.box = "gmail"
        <3>1. row.archived = FALSE /\ InInbox(m)
            BY OfferedRow
        <3>2. Mutate(m, op) = GmailMutate(m, op) /\ op \in Commands("gmail")
            BY <2>2 DEF Mutate
        <3>3. GmailMutate(m, op) # m
            BY <1>1, <3>2
        <3>4. GmailMutate(GmailMutate(m, op), InverseOf(op)) =
                  IF op.kind = "move" THEN Relabel(m, {op.to}, {}) ELSE m
            BY <2>2, <3>1, <3>2, <3>3, GmailRestores
        <3>5. Mutate(Mutate(m, op), InverseOf(op)) = GmailMutate(GmailMutate(m, op), InverseOf(op))
            <4>1. GmailMutate(m, op).box = "gmail"
                BY <2>2, BoxStays
            <4> QED BY <4>1, <3>2 DEF Mutate
        <3> QED BY <1>1, <1>3, <2>1, <3>4, <3>5
    <2>3. CASE m.box = "graph"
        <3>1. Mutate(m, op) = GraphMutate(m, op) /\ op \in Commands("graph")
            BY <2>3 DEF Mutate
        <3>2. GraphMutate(m, op) # m /\ GraphMutate(m, op).id = m.id
            BY <1>1, <1>3, <3>1
        <3>3. op.kind # "move" /\ GraphMutate(GraphMutate(m, op), InverseOf(op)) = m
            BY <3>1, <3>2, GraphRestores
        <3>4. Mutate(Mutate(m, op), InverseOf(op)) = GraphMutate(GraphMutate(m, op), InverseOf(op))
            <4>1. GraphMutate(m, op).box = "graph"
                BY <2>3, BoxStays
            <4> QED BY <4>1, <3>1 DEF Mutate
        <3> QED BY <1>1, <1>3, <2>1, <3>3, <3>4
    <2> QED BY <2>2, <2>3, MailShape DEF Boxes
<1> QED BY <1>2, <1>3

\* An undo puts every message of the inbox back where it was and as it was, with the exceptions
\* Restores names, whatever the user's folders and labels are and whether or not the row was
\* written (UndoService.undo, inverseOf).
THEOREM UndoRestoresMail == \A m \in Mail : Restores(m)
<1> SUFFICES ASSUME NEW m \in Mail, NEW row \in Row, Mirrors(m, row) /\ Offered(row)
             PROVE  \A known \in SUBSET Filings, op \in Commands(m.box) :
                       \A kept \in RowsAfter(known, m, row, op) :
                          ~Misjudged(m, row, op) /\ MailAfter(known, m, row, op) # m =>
                             IF MailAfter(known, m, row, op).id # m.id
                             THEN MailUndone(known, m, row, kept, op) = MailAfter(known, m, row, op)
                             ELSE MailUndone(known, m, row, kept, op) =
                                      IF op.kind = "move" THEN Relabel(m, {op.to}, {}) ELSE m
    BY DEF Restores
<1> QED BY UndoneIsRestored

-----------------------------------------------------------------------------
(***************************************************************************)
(* A move goes where the user said.                                        *)
(***************************************************************************)
LEMMA ListedFinite ==
    ASSUME NEW box, NEW S \in SUBSET Listed(box)
    PROVE  IsFiniteSet(S)
<1>1. IsFiniteSet(SystemLabels) /\ IsFiniteSet(SystemFolders)
    <2>1. IsFiniteSet({}) /\ IsFiniteSet({"INBOX"}) /\ IsFiniteSet({"inbox"})
        BY FS_EmptySet, FS_Singleton
    <2>2. IsFiniteSet(({"INBOX"} \cup {"TRASH"}) \cup ({"SPAM"} \cup ({"UNREAD"} \cup {"STARRED"})))
        BY FS_Singleton, FS_Union
    <2>3. IsFiniteSet(({"inbox"} \cup {"archive"}) \cup ({"deleteditems"} \cup {"junkemail"}))
        BY FS_Singleton, FS_Union
    <2>4. /\ SystemLabels = ({"INBOX"} \cup {"TRASH"}) \cup ({"SPAM"} \cup ({"UNREAD"} \cup {"STARRED"}))
          /\ SystemFolders = ({"inbox"} \cup {"archive"}) \cup ({"deleteditems"} \cup {"junkemail"})
        BY DEF SystemLabels, SystemFolders
    <2> QED BY <2>2, <2>3, <2>4
<1>2. IsFiniteSet(Filings)
    BY FilingsAssumption
<1>3. IsFiniteSet(Filings \cup SystemLabels) /\ IsFiniteSet(Filings \cup SystemFolders)
    BY <1>1, <1>2, FS_Union
<1>4. S \subseteq Filings \cup SystemLabels \/ S \subseteq Filings \cup SystemFolders
    BY DEF Listed
<1> QED BY <1>3, <1>4, FS_Subset

\* A message is moved to a folder whose name is what the user said, or ends in it and is the only
\* one that does, and never to the trash or the spam (FolderService.move, listFolders).
THEOREM MoveFindsTheFolder == MovedWhereSaid
<1> SUFFICES ASSUME NEW box \in Boxes, NEW said \in Seq(STRING), NEW f \in Matched(box, said)
             PROVE  /\ f \notin {"TRASH", "SPAM"}
                    /\ PathOf["deleteditems"] = <<"deleted items">> /\ PathOf["junkemail"] = <<"junk email">> =>
                          f \notin {"deleteditems", "junkemail"}
                    /\ \/ PathOf[f] = said
                       \/ /\ said = <<LastSegment(f)>>
                          /\ \A g \in Listed(box) : LastSegment(g) = LastSegment(f) => g = f
    BY DEF MovedWhereSaid
<1> DEFINE exact == {g \in Listed(box) : PathOf[g] = said}
           ending == {g \in Listed(box) : said = <<LastSegment(g)>>}
<1>1. f \in Listed(box)
    BY DEF Matched, OnlyOne
<1>2. f \notin {"TRASH", "SPAM"}
    BY <1>1, FilingsAssumption DEF Listed, SystemLabels, SystemFolders
<1>3. ASSUME PathOf["deleteditems"] = <<"deleted items">>, PathOf["junkemail"] = <<"junk email">>
      PROVE  f \notin {"deleteditems", "junkemail"}
    <2>1. CASE box = "gmail"
        BY <1>1, <2>1, FilingsAssumption DEF Listed, SystemLabels, SystemFolders
    <2>2. CASE box = "graph"
        <3>1. \A i \in DOMAIN PathOf[f] : PathOf[f][i] \notin UnmovableNames
            BY <1>1, <2>2 DEF Listed
        <3>2. \A name : 1 \in DOMAIN <<name>> /\ <<name>>[1] = name
            OBVIOUS
        <3>3. ASSUME f = "deleteditems" PROVE FALSE
            <4>1. PathOf[f] = <<"deleted items">>
                BY <1>3, <3>3
            <4>2. 1 \in DOMAIN PathOf[f] /\ PathOf[f][1] = "deleted items"
                BY <4>1, <3>2
            <4> QED BY <3>1, <4>2 DEF UnmovableNames
        <3>4. ASSUME f = "junkemail" PROVE FALSE
            <4>1. PathOf[f] = <<"junk email">>
                BY <1>3, <3>4
            <4>2. 1 \in DOMAIN PathOf[f] /\ PathOf[f][1] = "junk email"
                BY <4>1, <3>2
            <4> QED BY <3>1, <4>2 DEF UnmovableNames
        <3> QED BY <3>3, <3>4
    <2> QED BY <2>1, <2>2 DEF Boxes
<1>4. CASE exact # {}
    BY <1>4, <1>2, <1>3 DEF Matched
<1>5. CASE exact = {}
    <2>1. f \in ending /\ Cardinality(ending) = 1
        BY <1>5 DEF Matched, OnlyOne
    <2>2. IsFiniteSet(ending)
        BY ListedFinite
    <2>3. PICK x : ending = {x}
        BY <2>1, <2>2, FS_Singleton
    <2>4. \A g \in Listed(box) : LastSegment(g) = LastSegment(f) => g = f
        BY <2>1, <2>3
    <2> QED BY <1>2, <1>3, <2>1, <2>4
<1> QED BY <1>4, <1>5

-----------------------------------------------------------------------------
(***************************************************************************)
(* The row follows the message.                                            *)
(***************************************************************************)
\* A row's fields.
LEMMA RowShape ==
    ASSUME NEW row \in Row
    PROVE  /\ row.archived \in BOOLEAN /\ row.deleted \in BOOLEAN /\ row.spam \in BOOLEAN
           /\ row.unread \in BOOLEAN /\ row.starred \in BOOLEAN
BY DEF Row

\* What Mirrors says, each part by itself.
LEMMA MirrorsParts ==
    ASSUME NEW m, NEW row \in Row
    PROVE  Mirrors(m, row) <=>
               /\ row.deleted = TRUE <=> InTrash(m)
               /\ row.deleted = FALSE => (row.spam = TRUE <=> InSpam(m))
               /\ row.unread = TRUE <=> "UNREAD" \in m.labels
               /\ row.starred = TRUE <=> "STARRED" \in m.labels
               /\ (row.archived = FALSE /\ row.deleted = FALSE /\ row.spam = FALSE) <=> InInbox(m)
<1>0. /\ row.archived \in BOOLEAN /\ row.deleted \in BOOLEAN /\ row.spam \in BOOLEAN
      /\ row.unread \in BOOLEAN /\ row.starred \in BOOLEAN
    BY RowShape
<1>1. (row.deleted = InTrash(m)) <=> (row.deleted = TRUE <=> InTrash(m))
    BY <1>0 DEF InTrash
<1>2. (~row.deleted => row.spam = InSpam(m)) <=> (row.deleted = FALSE => (row.spam = TRUE <=> InSpam(m)))
    BY <1>0 DEF InSpam
<1>3. (row.unread = ("UNREAD" \in m.labels)) <=> (row.unread = TRUE <=> "UNREAD" \in m.labels)
    BY <1>0
<1>4. (row.starred = ("STARRED" \in m.labels)) <=> (row.starred = TRUE <=> "STARRED" \in m.labels)
    BY <1>0
<1>5. (Offered(row) = InInbox(m)) <=>
          ((row.archived = FALSE /\ row.deleted = FALSE /\ row.spam = FALSE) <=> InInbox(m))
    BY <1>0 DEF Offered, InInbox
<1> QED BY <1>1, <1>2, <1>3, <1>4, <1>5 DEF Mirrors

\* Where a message is, for each provider.
LEMMA WhereGmail ==
    ASSUME NEW m, m.box = "gmail"
    PROVE  /\ InTrash(m) <=> "TRASH" \in m.labels
           /\ InSpam(m) <=> "SPAM" \in m.labels
           /\ InInbox(m) <=> "TRASH" \notin m.labels /\ "SPAM" \notin m.labels /\ "INBOX" \in m.labels
BY DEF InTrash, InSpam, InInbox

LEMMA WhereGraph ==
    ASSUME NEW m, m.box = "graph"
    PROVE  /\ InTrash(m) <=> m.folder = "deleteditems"
           /\ InSpam(m) <=> m.folder = "junkemail"
           /\ InInbox(m) <=> m.folder = "inbox"
BY DEF InTrash, InSpam, InInbox

\* Whatever Gmail carries out, the row follows; taking out of the trash asks more.
LEMMA GmailKeeps ==
    ASSUME NEW m, With(m, m.labels) = m, m.box = "gmail", NEW row \in Row, Mirrors(m, row)
    PROVE  /\ row.deleted = FALSE => Mirrors(GmailMutate(m, Archive), LocalEffect(row, Archive))
           /\ row.deleted = FALSE => Mirrors(GmailMutate(m, Unarchive), LocalEffect(row, Unarchive))
           /\ Mirrors(GmailMutate(m, Delete), LocalEffect(row, Delete))
           /\ "INBOX" \in m.labels /\ "SPAM" \notin m.labels /\ row.spam = FALSE =>
                  Mirrors(GmailMutate(m, Restore), LocalEffect(row, Restore))
           /\ Mirrors(GmailMutate(m, Switch("markRead", TRUE)), LocalEffect(row, Switch("markRead", TRUE)))
           /\ Mirrors(GmailMutate(m, Switch("markRead", FALSE)), LocalEffect(row, Switch("markRead", FALSE)))
           /\ Mirrors(GmailMutate(m, Switch("star", TRUE)), LocalEffect(row, Switch("star", TRUE)))
           /\ Mirrors(GmailMutate(m, Switch("star", FALSE)), LocalEffect(row, Switch("star", FALSE)))
           /\ row.deleted = FALSE => Mirrors(GmailMutate(m, Switch("spam", TRUE)), LocalEffect(row, Switch("spam", TRUE)))
           /\ row.deleted = FALSE /\ row.archived = FALSE =>
                  Mirrors(GmailMutate(m, Switch("spam", FALSE)), LocalEffect(row, Switch("spam", FALSE)))
           /\ \A to : to \notin SystemLabels /\ row.deleted = FALSE =>
                  Mirrors(GmailMutate(m, MoveTo(to)), LocalEffect(row, MoveTo(to)))
           /\ \A f \in Filings : Mirrors(GmailMutate(m, Label({f}, {})), LocalEffect(row, Label({f}, {})))
           /\ \A f \in Filings : Mirrors(GmailMutate(m, Label({}, {f})), LocalEffect(row, Label({}, {f})))
<1>row. /\ row.archived \in BOOLEAN /\ row.deleted \in BOOLEAN /\ row.spam \in BOOLEAN
        /\ row.unread \in BOOLEAN /\ row.starred \in BOOLEAN
    BY RowShape
<1>own. Filings \cap SystemLabels = {}
    BY FilingsAssumption
<1>says. /\ row.deleted = TRUE <=> InTrash(m)
         /\ row.deleted = FALSE => (row.spam = TRUE <=> InSpam(m))
         /\ row.unread = TRUE <=> "UNREAD" \in m.labels
         /\ row.starred = TRUE <=> "STARRED" \in m.labels
         /\ (row.archived = FALSE /\ row.deleted = FALSE /\ row.spam = FALSE) <=> InInbox(m)
    BY MirrorsParts
<1>1. ASSUME row.deleted = FALSE PROVE Mirrors(GmailMutate(m, Archive), LocalEffect(row, Archive))
  <2> DEFINE n == Relabel(m, {}, {"INBOX"})
             r == Fields(TRUE, row.deleted, row.spam, row.unread, row.starred, row.id)
  <2>1. GmailMutate(m, Archive) = n
      BY GmailSteps
  <2>2. LocalEffect(row, Archive) = r
      BY RowSteps
  <2>3. n.box = "gmail" /\ n.labels = (m.labels \cup {}) \ {"INBOX"}
      BY DEF Relabel, With
  <2>4. r \in Row
      BY <1>row DEF Row, Fields
  <2>5. /\ r.archived = TRUE /\ r.deleted = row.deleted /\ r.spam = row.spam
              /\ r.unread = row.unread /\ r.starred = row.starred
      BY DEF Fields
  <2> HIDE DEF n, r
  <2>6. "INBOX" \notin n.labels /\ \A x \in {"TRASH", "SPAM", "UNREAD", "STARRED"} : x \in n.labels <=> x \in m.labels
      BY <1>1, <2>3
  <2>7. Mirrors(n, r)
      BY <1>1, <2>3, <2>4, <2>5, <2>6, MirrorsParts, WhereGmail
  <2> QED BY <2>1, <2>2, <2>7
<1>2. ASSUME row.deleted = FALSE PROVE Mirrors(GmailMutate(m, Unarchive), LocalEffect(row, Unarchive))
  <2> DEFINE n == Relabel(m, {"INBOX"}, {})
             r == Fields(FALSE, row.deleted, row.spam, row.unread, row.starred, row.id)
  <2>1. GmailMutate(m, Unarchive) = n
      BY GmailSteps
  <2>2. LocalEffect(row, Unarchive) = r
      BY RowSteps
  <2>3. n.box = "gmail" /\ n.labels = (m.labels \cup {"INBOX"}) \ {}
      BY DEF Relabel, With
  <2>4. r \in Row
      BY <1>row DEF Row, Fields
  <2>5. /\ r.archived = FALSE /\ ~(r.archived = TRUE) /\ r.deleted = row.deleted /\ r.spam = row.spam
              /\ r.unread = row.unread /\ r.starred = row.starred
      BY DEF Fields
  <2> HIDE DEF n, r
  <2>6. "INBOX" \in n.labels /\ \A x \in {"TRASH", "SPAM", "UNREAD", "STARRED"} : x \in n.labels <=> x \in m.labels
      BY <1>2, <2>3
  <2>7. /\ r.deleted = TRUE <=> InTrash(n)
        /\ r.deleted = FALSE => (r.spam = TRUE <=> InSpam(n))
      BY <1>2, <2>3, <2>4, <2>5, <2>6, <1>row, <1>says, WhereGmail
  <2>8. r.unread = TRUE <=> "UNREAD" \in n.labels
      BY <1>2, <2>3, <2>4, <2>5, <2>6, <1>row, <1>says, WhereGmail
  <2>9. r.starred = TRUE <=> "STARRED" \in n.labels
      BY <1>2, <2>3, <2>4, <2>5, <2>6, <1>row, <1>says, WhereGmail
  <2>10. (r.archived = FALSE /\ r.deleted = FALSE /\ r.spam = FALSE) <=> InInbox(n)
      BY <1>2, <2>3, <2>4, <2>5, <2>6, <1>row, <1>says, WhereGmail
  <2>11. Mirrors(n, r)
      BY <2>4, <2>7, <2>8, <2>9, <2>10, MirrorsParts
  <2> QED BY <2>1, <2>2, <2>11
<1>3. Mirrors(GmailMutate(m, Delete), LocalEffect(row, Delete))
  <2> DEFINE n == Relabel(m, {"TRASH"}, {})
             r == Fields(row.archived, TRUE, row.spam, row.unread, row.starred, row.id)
  <2>1. GmailMutate(m, Delete) = n
      BY GmailSteps
  <2>2. LocalEffect(row, Delete) = r
      BY RowSteps
  <2>3. n.box = "gmail" /\ n.labels = (m.labels \cup {"TRASH"}) \ {}
      BY DEF Relabel, With
  <2>4. r \in Row
      BY <1>row DEF Row, Fields
  <2>5. /\ r.archived = row.archived /\ r.deleted = TRUE /\ r.spam = row.spam
              /\ r.unread = row.unread /\ r.starred = row.starred
      BY DEF Fields
  <2> HIDE DEF n, r
  <2>6. "TRASH" \in n.labels /\ \A x \in {"INBOX", "SPAM", "UNREAD", "STARRED"} : x \in n.labels <=> x \in m.labels
      BY <2>3
  <2>7. Mirrors(n, r)
      BY <2>3, <2>4, <2>5, <2>6, MirrorsParts, WhereGmail
  <2> QED BY <2>1, <2>2, <2>7
<1>4. ASSUME "INBOX" \in m.labels, "SPAM" \notin m.labels, row.spam = FALSE PROVE Mirrors(GmailMutate(m, Restore), LocalEffect(row, Restore))
  <2> DEFINE n == Relabel(m, {}, {"TRASH"})
             r == Fields(FALSE, FALSE, row.spam, row.unread, row.starred, row.id)
  <2>1. GmailMutate(m, Restore) = n
      BY GmailSteps
  <2>2. LocalEffect(row, Restore) = r
      BY RowSteps
  <2>3. n.box = "gmail" /\ n.labels = (m.labels \cup {}) \ {"TRASH"}
      BY DEF Relabel, With
  <2>4. r \in Row
      BY <1>row DEF Row, Fields
  <2>5. /\ r.archived = FALSE /\ ~(r.archived = TRUE) /\ r.deleted = FALSE /\ ~(r.deleted = TRUE) /\ r.spam = row.spam
              /\ r.unread = row.unread /\ r.starred = row.starred
      BY DEF Fields
  <2> HIDE DEF n, r
  <2>6. "TRASH" \notin n.labels /\ \A x \in {"INBOX", "SPAM", "UNREAD", "STARRED"} : x \in n.labels <=> x \in m.labels
      BY <1>4, <2>3
  <2>7. /\ r.deleted = TRUE <=> InTrash(n)
        /\ r.deleted = FALSE => (r.spam = TRUE <=> InSpam(n))
      BY <1>4, <2>3, <2>4, <2>5, <2>6, <1>row, <1>says, WhereGmail
  <2>8. r.unread = TRUE <=> "UNREAD" \in n.labels
      BY <1>4, <2>3, <2>4, <2>5, <2>6, <1>row, <1>says, WhereGmail
  <2>9. r.starred = TRUE <=> "STARRED" \in n.labels
      BY <1>4, <2>3, <2>4, <2>5, <2>6, <1>row, <1>says, WhereGmail
  <2>10. (r.archived = FALSE /\ r.deleted = FALSE /\ r.spam = FALSE) <=> InInbox(n)
      BY <1>4, <2>3, <2>4, <2>5, <2>6, <1>row, <1>says, WhereGmail
  <2>11. Mirrors(n, r)
      BY <2>4, <2>7, <2>8, <2>9, <2>10, MirrorsParts
  <2> QED BY <2>1, <2>2, <2>11
<1>5. Mirrors(GmailMutate(m, Switch("markRead", TRUE)), LocalEffect(row, Switch("markRead", TRUE)))
  <2> DEFINE n == Relabel(m, {}, {"UNREAD"})
             r == Fields(row.archived, row.deleted, row.spam, FALSE, row.starred, row.id)
  <2>1. GmailMutate(m, Switch("markRead", TRUE)) = n
      BY GmailSteps DEF Mark
  <2>2. LocalEffect(row, Switch("markRead", TRUE)) = r
      BY RowSteps
  <2>3. n.box = "gmail" /\ n.labels = (m.labels \cup {}) \ {"UNREAD"}
      BY DEF Relabel, With
  <2>4. r \in Row
      BY <1>row DEF Row, Fields
  <2>5. /\ r.archived = row.archived /\ r.deleted = row.deleted /\ r.spam = row.spam
              /\ r.unread = FALSE /\ ~(r.unread = TRUE) /\ r.starred = row.starred
      BY DEF Fields
  <2> HIDE DEF n, r
  <2>6. "UNREAD" \notin n.labels /\ \A x \in {"INBOX", "TRASH", "SPAM", "STARRED"} : x \in n.labels <=> x \in m.labels
      BY <2>3
  <2>7. /\ r.deleted = TRUE <=> InTrash(n)
        /\ r.deleted = FALSE => (r.spam = TRUE <=> InSpam(n))
      BY <2>3, <2>4, <2>5, <2>6, <1>row, <1>says, WhereGmail
  <2>8. r.unread = TRUE <=> "UNREAD" \in n.labels
      BY <2>3, <2>4, <2>5, <2>6, <1>row, <1>says, WhereGmail
  <2>9. r.starred = TRUE <=> "STARRED" \in n.labels
      BY <2>3, <2>4, <2>5, <2>6, <1>row, <1>says, WhereGmail
  <2>10. (r.archived = FALSE /\ r.deleted = FALSE /\ r.spam = FALSE) <=> InInbox(n)
      BY <2>3, <2>4, <2>5, <2>6, <1>row, <1>says, WhereGmail
  <2>11. Mirrors(n, r)
      BY <2>4, <2>7, <2>8, <2>9, <2>10, MirrorsParts
  <2> QED BY <2>1, <2>2, <2>11
<1>6. Mirrors(GmailMutate(m, Switch("markRead", FALSE)), LocalEffect(row, Switch("markRead", FALSE)))
  <2> DEFINE n == Relabel(m, {"UNREAD"}, {})
             r == Fields(row.archived, row.deleted, row.spam, TRUE, row.starred, row.id)
  <2>1. GmailMutate(m, Switch("markRead", FALSE)) = n
      BY GmailSteps DEF Mark
  <2>2. LocalEffect(row, Switch("markRead", FALSE)) = r
      BY RowSteps
  <2>3. n.box = "gmail" /\ n.labels = (m.labels \cup {"UNREAD"}) \ {}
      BY DEF Relabel, With
  <2>4. r \in Row
      BY <1>row DEF Row, Fields
  <2>5. /\ r.archived = row.archived /\ r.deleted = row.deleted /\ r.spam = row.spam
              /\ r.unread = TRUE /\ r.starred = row.starred
      BY DEF Fields
  <2> HIDE DEF n, r
  <2>6. "UNREAD" \in n.labels /\ \A x \in {"INBOX", "TRASH", "SPAM", "STARRED"} : x \in n.labels <=> x \in m.labels
      BY <2>3
  <2>7. Mirrors(n, r)
      BY <2>3, <2>4, <2>5, <2>6, MirrorsParts, WhereGmail
  <2> QED BY <2>1, <2>2, <2>7
<1>7. Mirrors(GmailMutate(m, Switch("star", TRUE)), LocalEffect(row, Switch("star", TRUE)))
  <2> DEFINE n == Relabel(m, {"STARRED"}, {})
             r == Fields(row.archived, row.deleted, row.spam, row.unread, TRUE, row.id)
  <2>1. GmailMutate(m, Switch("star", TRUE)) = n
      BY GmailSteps DEF Mark
  <2>2. LocalEffect(row, Switch("star", TRUE)) = r
      BY RowSteps
  <2>3. n.box = "gmail" /\ n.labels = (m.labels \cup {"STARRED"}) \ {}
      BY DEF Relabel, With
  <2>4. r \in Row
      BY <1>row DEF Row, Fields
  <2>5. /\ r.archived = row.archived /\ r.deleted = row.deleted /\ r.spam = row.spam
              /\ r.unread = row.unread /\ r.starred = TRUE
      BY DEF Fields
  <2> HIDE DEF n, r
  <2>6. "STARRED" \in n.labels /\ \A x \in {"INBOX", "TRASH", "SPAM", "UNREAD"} : x \in n.labels <=> x \in m.labels
      BY <2>3
  <2>7. Mirrors(n, r)
      BY <2>3, <2>4, <2>5, <2>6, MirrorsParts, WhereGmail
  <2> QED BY <2>1, <2>2, <2>7
<1>8. Mirrors(GmailMutate(m, Switch("star", FALSE)), LocalEffect(row, Switch("star", FALSE)))
  <2> DEFINE n == Relabel(m, {}, {"STARRED"})
             r == Fields(row.archived, row.deleted, row.spam, row.unread, FALSE, row.id)
  <2>1. GmailMutate(m, Switch("star", FALSE)) = n
      BY GmailSteps DEF Mark
  <2>2. LocalEffect(row, Switch("star", FALSE)) = r
      BY RowSteps
  <2>3. n.box = "gmail" /\ n.labels = (m.labels \cup {}) \ {"STARRED"}
      BY DEF Relabel, With
  <2>4. r \in Row
      BY <1>row DEF Row, Fields
  <2>5. /\ r.archived = row.archived /\ r.deleted = row.deleted /\ r.spam = row.spam
              /\ r.unread = row.unread /\ r.starred = FALSE /\ ~(r.starred = TRUE)
      BY DEF Fields
  <2> HIDE DEF n, r
  <2>6. "STARRED" \notin n.labels /\ \A x \in {"INBOX", "TRASH", "SPAM", "UNREAD"} : x \in n.labels <=> x \in m.labels
      BY <2>3
  <2>7. /\ r.deleted = TRUE <=> InTrash(n)
        /\ r.deleted = FALSE => (r.spam = TRUE <=> InSpam(n))
      BY <2>3, <2>4, <2>5, <2>6, <1>row, <1>says, WhereGmail
  <2>8. r.unread = TRUE <=> "UNREAD" \in n.labels
      BY <2>3, <2>4, <2>5, <2>6, <1>row, <1>says, WhereGmail
  <2>9. r.starred = TRUE <=> "STARRED" \in n.labels
      BY <2>3, <2>4, <2>5, <2>6, <1>row, <1>says, WhereGmail
  <2>10. (r.archived = FALSE /\ r.deleted = FALSE /\ r.spam = FALSE) <=> InInbox(n)
      BY <2>3, <2>4, <2>5, <2>6, <1>row, <1>says, WhereGmail
  <2>11. Mirrors(n, r)
      BY <2>4, <2>7, <2>8, <2>9, <2>10, MirrorsParts
  <2> QED BY <2>1, <2>2, <2>11
<1>9. ASSUME row.deleted = FALSE PROVE Mirrors(GmailMutate(m, Switch("spam", TRUE)), LocalEffect(row, Switch("spam", TRUE)))
  <2> DEFINE n == Relabel(m, {"SPAM"}, {"INBOX"})
             r == Fields(row.archived, row.deleted, TRUE, row.unread, row.starred, row.id)
  <2>1. GmailMutate(m, Switch("spam", TRUE)) = n
      BY GmailSteps
  <2>2. LocalEffect(row, Switch("spam", TRUE)) = r
      BY RowSteps
  <2>3. n.box = "gmail" /\ n.labels = (m.labels \cup {"SPAM"}) \ {"INBOX"}
      BY DEF Relabel, With
  <2>4. r \in Row
      BY <1>row DEF Row, Fields
  <2>5. /\ r.archived = row.archived /\ r.deleted = row.deleted /\ r.spam = TRUE
              /\ r.unread = row.unread /\ r.starred = row.starred
      BY DEF Fields
  <2> HIDE DEF n, r
  <2>6. "SPAM" \in n.labels /\ "INBOX" \notin n.labels /\ \A x \in {"TRASH", "UNREAD", "STARRED"} : x \in n.labels <=> x \in m.labels
      BY <1>9, <2>3
  <2>7. Mirrors(n, r)
      BY <1>9, <2>3, <2>4, <2>5, <2>6, MirrorsParts, WhereGmail
  <2> QED BY <2>1, <2>2, <2>7
<1>10. ASSUME row.deleted = FALSE, row.archived = FALSE PROVE Mirrors(GmailMutate(m, Switch("spam", FALSE)), LocalEffect(row, Switch("spam", FALSE)))
  <2> DEFINE n == Relabel(m, {"INBOX"}, {"SPAM"})
             r == Fields(row.archived, row.deleted, FALSE, row.unread, row.starred, row.id)
  <2>1. GmailMutate(m, Switch("spam", FALSE)) = n
      BY GmailSteps
  <2>2. LocalEffect(row, Switch("spam", FALSE)) = r
      BY RowSteps
  <2>3. n.box = "gmail" /\ n.labels = (m.labels \cup {"INBOX"}) \ {"SPAM"}
      BY DEF Relabel, With
  <2>4. r \in Row
      BY <1>row DEF Row, Fields
  <2>5. /\ r.archived = row.archived /\ r.deleted = row.deleted /\ r.spam = FALSE /\ ~(r.spam = TRUE)
              /\ r.unread = row.unread /\ r.starred = row.starred
      BY DEF Fields
  <2> HIDE DEF n, r
  <2>6. "INBOX" \in n.labels /\ "SPAM" \notin n.labels /\ \A x \in {"TRASH", "UNREAD", "STARRED"} : x \in n.labels <=> x \in m.labels
      BY <1>10, <2>3
  <2>7. /\ r.deleted = TRUE <=> InTrash(n)
        /\ r.deleted = FALSE => (r.spam = TRUE <=> InSpam(n))
      BY <1>10, <2>3, <2>4, <2>5, <2>6, <1>row, <1>says, WhereGmail
  <2>8. r.unread = TRUE <=> "UNREAD" \in n.labels
      BY <1>10, <2>3, <2>4, <2>5, <2>6, <1>row, <1>says, WhereGmail
  <2>9. r.starred = TRUE <=> "STARRED" \in n.labels
      BY <1>10, <2>3, <2>4, <2>5, <2>6, <1>row, <1>says, WhereGmail
  <2>10. (r.archived = FALSE /\ r.deleted = FALSE /\ r.spam = FALSE) <=> InInbox(n)
      BY <1>10, <2>3, <2>4, <2>5, <2>6, <1>row, <1>says, WhereGmail
  <2>11. Mirrors(n, r)
      BY <2>4, <2>7, <2>8, <2>9, <2>10, MirrorsParts
  <2> QED BY <2>1, <2>2, <2>11
<1>11. ASSUME NEW to, to \notin SystemLabels, row.deleted = FALSE PROVE Mirrors(GmailMutate(m, MoveTo(to)), LocalEffect(row, MoveTo(to)))
  <2> DEFINE n == Relabel(m, {to}, {"INBOX"})
             r == Fields(TRUE, row.deleted, row.spam, row.unread, row.starred, row.id)
  <2>1. GmailMutate(m, MoveTo(to)) = n
      BY GmailSteps
  <2>2. LocalEffect(row, MoveTo(to)) = r
      BY RowSteps
  <2>3. n.box = "gmail" /\ n.labels = (m.labels \cup {to}) \ {"INBOX"}
      BY DEF Relabel, With
  <2>4. r \in Row
      BY <1>row DEF Row, Fields
  <2>5. /\ r.archived = TRUE /\ r.deleted = row.deleted /\ r.spam = row.spam
              /\ r.unread = row.unread /\ r.starred = row.starred
      BY DEF Fields
  <2> HIDE DEF n, r
  <2>6. "INBOX" \notin n.labels /\ \A x \in {"TRASH", "SPAM", "UNREAD", "STARRED"} : x \in n.labels <=> x \in m.labels
      BY <1>11, <2>3 DEF SystemLabels
  <2>7. Mirrors(n, r)
      BY <1>11, <2>3, <2>4, <2>5, <2>6, MirrorsParts, WhereGmail
  <2> QED BY <2>1, <2>2, <2>7
<1>12. ASSUME NEW f \in Filings PROVE Mirrors(GmailMutate(m, Label({f}, {})), LocalEffect(row, Label({f}, {})))
  <2> DEFINE n == Relabel(m, {f}, {})
             r == row
  <2>1. GmailMutate(m, Label({f}, {})) = n
      BY DEF GmailMutate, Label
  <2>2. LocalEffect(row, Label({f}, {})) = r
      BY RowSteps DEF LocalEffect, Label
  <2>3. n.box = "gmail" /\ n.labels = (m.labels \cup {f}) \ {}
      BY DEF Relabel, With
  <2> HIDE DEF n
  <2>6. \A x \in {"INBOX", "TRASH", "SPAM", "UNREAD", "STARRED"} : x \in n.labels <=> x \in m.labels
      BY <1>12, <2>3, <1>own DEF SystemLabels
  <2>7. Mirrors(n, r)
      BY <1>12, <2>3, <2>6, MirrorsParts, WhereGmail
  <2> QED BY <2>1, <2>2, <2>7
<1>13. ASSUME NEW f \in Filings PROVE Mirrors(GmailMutate(m, Label({}, {f})), LocalEffect(row, Label({}, {f})))
  <2> DEFINE n == Relabel(m, {}, {f})
             r == row
  <2>1. GmailMutate(m, Label({}, {f})) = n
      BY DEF GmailMutate, Label
  <2>2. LocalEffect(row, Label({}, {f})) = r
      BY RowSteps DEF LocalEffect, Label
  <2>3. n.box = "gmail" /\ n.labels = (m.labels \cup {}) \ {f}
      BY DEF Relabel, With
  <2> HIDE DEF n
  <2>6. \A x \in {"INBOX", "TRASH", "SPAM", "UNREAD", "STARRED"} : x \in n.labels <=> x \in m.labels
      BY <1>13, <2>3, <1>own DEF SystemLabels
  <2>7. Mirrors(n, r)
      BY <1>13, <2>3, <2>6, MirrorsParts, WhereGmail
  <2> QED BY <2>1, <2>2, <2>7
<1> QED BY <1>1, <1>2, <1>3, <1>4, <1>5, <1>6, <1>7, <1>8, <1>9, <1>10, <1>11, <1>12, <1>13

\* Whatever Outlook carries out, the row follows, but for what Misjudged names.
LEMMA GraphKeeps ==
    ASSUME NEW m, With(m, m.labels) = m, m.box = "graph", NEW row \in Row, Mirrors(m, row)
    PROVE  /\ row.deleted = FALSE /\ ~InSpam(m) => Mirrors(GraphMutate(m, Archive), LocalEffect(row, Archive))
           /\ Mirrors(GraphMutate(m, Delete), LocalEffect(row, Delete))
           /\ Mirrors(GraphMutate(m, Switch("markRead", TRUE)), LocalEffect(row, Switch("markRead", TRUE)))
           /\ Mirrors(GraphMutate(m, Switch("markRead", FALSE)), LocalEffect(row, Switch("markRead", FALSE)))
           /\ Mirrors(GraphMutate(m, Switch("star", TRUE)), LocalEffect(row, Switch("star", TRUE)))
           /\ Mirrors(GraphMutate(m, Switch("star", FALSE)), LocalEffect(row, Switch("star", FALSE)))
           /\ row.deleted = FALSE => Mirrors(GraphMutate(m, Switch("spam", TRUE)), LocalEffect(row, Switch("spam", TRUE)))
           /\ row.deleted = FALSE /\ row.archived = FALSE =>
                  Mirrors(GraphMutate(m, Switch("spam", FALSE)), LocalEffect(row, Switch("spam", FALSE)))
           /\ \A to : to \notin {"inbox", "deleteditems", "junkemail"} /\ row.deleted = FALSE /\ ~InSpam(m) =>
                  Mirrors(GraphMutate(m, MoveTo(to)), LocalEffect(row, MoveTo(to)))
           /\ \A f \in Filings : Mirrors(GraphMutate(m, Label({f}, {})), LocalEffect(row, Label({f}, {})))
           /\ \A f \in Filings : Mirrors(GraphMutate(m, Label({}, {f})), LocalEffect(row, Label({}, {f})))
<1>row. /\ row.archived \in BOOLEAN /\ row.deleted \in BOOLEAN /\ row.spam \in BOOLEAN
        /\ row.unread \in BOOLEAN /\ row.starred \in BOOLEAN
    BY RowShape
<1>own. Filings \cap SystemLabels = {}
    BY FilingsAssumption
<1>says. /\ row.deleted = TRUE <=> InTrash(m)
         /\ row.deleted = FALSE => (row.spam = TRUE <=> InSpam(m))
         /\ row.unread = TRUE <=> "UNREAD" \in m.labels
         /\ row.starred = TRUE <=> "STARRED" \in m.labels
         /\ (row.archived = FALSE /\ row.deleted = FALSE /\ row.spam = FALSE) <=> InInbox(m)
    BY MirrorsParts
<1>1. ASSUME row.deleted = FALSE, ~InSpam(m) PROVE Mirrors(GraphMutate(m, Archive), LocalEffect(row, Archive))
  <2> DEFINE n == Move(m, "archive")
             r == Fields(TRUE, row.deleted, row.spam, row.unread, row.starred, row.id)
  <2>1. GraphMutate(m, Archive) = n
      BY GraphSteps
  <2>2. LocalEffect(row, Archive) = r
      BY RowSteps
  <2>3. n.box = "graph" /\ n.labels = m.labels /\ n.folder = "archive"
      BY DEF Move, With
  <2>4. r \in Row
      BY <1>row DEF Row, Fields
  <2>5. /\ r.archived = TRUE /\ r.deleted = row.deleted /\ r.spam = row.spam
              /\ r.unread = row.unread /\ r.starred = row.starred
      BY DEF Fields
  <2> HIDE DEF n, r
  <2>7. Mirrors(n, r)
      BY <1>1, <2>3, <2>4, <2>5, MirrorsParts, WhereGraph
  <2> QED BY <2>1, <2>2, <2>7
<1>2. Mirrors(GraphMutate(m, Delete), LocalEffect(row, Delete))
  <2> DEFINE n == Move(m, "deleteditems")
             r == Fields(row.archived, TRUE, row.spam, row.unread, row.starred, row.id)
  <2>1. GraphMutate(m, Delete) = n
      BY GraphSteps
  <2>2. LocalEffect(row, Delete) = r
      BY RowSteps
  <2>3. n.box = "graph" /\ n.labels = m.labels /\ n.folder = "deleteditems"
      BY DEF Move, With
  <2>4. r \in Row
      BY <1>row DEF Row, Fields
  <2>5. /\ r.archived = row.archived /\ r.deleted = TRUE /\ r.spam = row.spam
              /\ r.unread = row.unread /\ r.starred = row.starred
      BY DEF Fields
  <2> HIDE DEF n, r
  <2>7. Mirrors(n, r)
      BY <2>3, <2>4, <2>5, MirrorsParts, WhereGraph
  <2> QED BY <2>1, <2>2, <2>7
<1>3. Mirrors(GraphMutate(m, Switch("markRead", TRUE)), LocalEffect(row, Switch("markRead", TRUE)))
  <2> DEFINE n == Relabel(m, {}, {"UNREAD"})
             r == Fields(row.archived, row.deleted, row.spam, FALSE, row.starred, row.id)
  <2>1. GraphMutate(m, Switch("markRead", TRUE)) = n
      BY GraphSteps DEF Mark
  <2>2. LocalEffect(row, Switch("markRead", TRUE)) = r
      BY RowSteps
  <2>3. n.box = "graph" /\ n.labels = (m.labels \cup {}) \ {"UNREAD"} /\ n.folder = m.folder
      BY DEF Relabel, With
  <2>4. r \in Row
      BY <1>row DEF Row, Fields
  <2>5. /\ r.archived = row.archived /\ r.deleted = row.deleted /\ r.spam = row.spam
              /\ r.unread = FALSE /\ ~(r.unread = TRUE) /\ r.starred = row.starred
      BY DEF Fields
  <2> HIDE DEF n, r
  <2>6. "UNREAD" \notin n.labels /\ \A x \in {"INBOX", "TRASH", "SPAM", "STARRED"} : x \in n.labels <=> x \in m.labels
      BY <2>3
  <2>7. /\ r.deleted = TRUE <=> InTrash(n)
        /\ r.deleted = FALSE => (r.spam = TRUE <=> InSpam(n))
      BY <2>3, <2>4, <2>5, <2>6, <1>row, <1>says, WhereGraph
  <2>8. r.unread = TRUE <=> "UNREAD" \in n.labels
      BY <2>3, <2>4, <2>5, <2>6, <1>row, <1>says, WhereGraph
  <2>9. r.starred = TRUE <=> "STARRED" \in n.labels
      BY <2>3, <2>4, <2>5, <2>6, <1>row, <1>says, WhereGraph
  <2>10. (r.archived = FALSE /\ r.deleted = FALSE /\ r.spam = FALSE) <=> InInbox(n)
      BY <2>3, <2>4, <2>5, <2>6, <1>row, <1>says, WhereGraph
  <2>11. Mirrors(n, r)
      BY <2>4, <2>7, <2>8, <2>9, <2>10, MirrorsParts
  <2> QED BY <2>1, <2>2, <2>11
<1>4. Mirrors(GraphMutate(m, Switch("markRead", FALSE)), LocalEffect(row, Switch("markRead", FALSE)))
  <2> DEFINE n == Relabel(m, {"UNREAD"}, {})
             r == Fields(row.archived, row.deleted, row.spam, TRUE, row.starred, row.id)
  <2>1. GraphMutate(m, Switch("markRead", FALSE)) = n
      BY GraphSteps DEF Mark
  <2>2. LocalEffect(row, Switch("markRead", FALSE)) = r
      BY RowSteps
  <2>3. n.box = "graph" /\ n.labels = (m.labels \cup {"UNREAD"}) \ {} /\ n.folder = m.folder
      BY DEF Relabel, With
  <2>4. r \in Row
      BY <1>row DEF Row, Fields
  <2>5. /\ r.archived = row.archived /\ r.deleted = row.deleted /\ r.spam = row.spam
              /\ r.unread = TRUE /\ r.starred = row.starred
      BY DEF Fields
  <2> HIDE DEF n, r
  <2>6. "UNREAD" \in n.labels /\ \A x \in {"INBOX", "TRASH", "SPAM", "STARRED"} : x \in n.labels <=> x \in m.labels
      BY <2>3
  <2>7. Mirrors(n, r)
      BY <2>3, <2>4, <2>5, <2>6, MirrorsParts, WhereGraph
  <2> QED BY <2>1, <2>2, <2>7
<1>5. Mirrors(GraphMutate(m, Switch("star", TRUE)), LocalEffect(row, Switch("star", TRUE)))
  <2> DEFINE n == Relabel(m, {"STARRED"}, {})
             r == Fields(row.archived, row.deleted, row.spam, row.unread, TRUE, row.id)
  <2>1. GraphMutate(m, Switch("star", TRUE)) = n
      BY GraphSteps DEF Mark
  <2>2. LocalEffect(row, Switch("star", TRUE)) = r
      BY RowSteps
  <2>3. n.box = "graph" /\ n.labels = (m.labels \cup {"STARRED"}) \ {} /\ n.folder = m.folder
      BY DEF Relabel, With
  <2>4. r \in Row
      BY <1>row DEF Row, Fields
  <2>5. /\ r.archived = row.archived /\ r.deleted = row.deleted /\ r.spam = row.spam
              /\ r.unread = row.unread /\ r.starred = TRUE
      BY DEF Fields
  <2> HIDE DEF n, r
  <2>6. "STARRED" \in n.labels /\ \A x \in {"INBOX", "TRASH", "SPAM", "UNREAD"} : x \in n.labels <=> x \in m.labels
      BY <2>3
  <2>7. Mirrors(n, r)
      BY <2>3, <2>4, <2>5, <2>6, MirrorsParts, WhereGraph
  <2> QED BY <2>1, <2>2, <2>7
<1>6. Mirrors(GraphMutate(m, Switch("star", FALSE)), LocalEffect(row, Switch("star", FALSE)))
  <2> DEFINE n == Relabel(m, {}, {"STARRED"})
             r == Fields(row.archived, row.deleted, row.spam, row.unread, FALSE, row.id)
  <2>1. GraphMutate(m, Switch("star", FALSE)) = n
      BY GraphSteps DEF Mark
  <2>2. LocalEffect(row, Switch("star", FALSE)) = r
      BY RowSteps
  <2>3. n.box = "graph" /\ n.labels = (m.labels \cup {}) \ {"STARRED"} /\ n.folder = m.folder
      BY DEF Relabel, With
  <2>4. r \in Row
      BY <1>row DEF Row, Fields
  <2>5. /\ r.archived = row.archived /\ r.deleted = row.deleted /\ r.spam = row.spam
              /\ r.unread = row.unread /\ r.starred = FALSE /\ ~(r.starred = TRUE)
      BY DEF Fields
  <2> HIDE DEF n, r
  <2>6. "STARRED" \notin n.labels /\ \A x \in {"INBOX", "TRASH", "SPAM", "UNREAD"} : x \in n.labels <=> x \in m.labels
      BY <2>3
  <2>7. /\ r.deleted = TRUE <=> InTrash(n)
        /\ r.deleted = FALSE => (r.spam = TRUE <=> InSpam(n))
      BY <2>3, <2>4, <2>5, <2>6, <1>row, <1>says, WhereGraph
  <2>8. r.unread = TRUE <=> "UNREAD" \in n.labels
      BY <2>3, <2>4, <2>5, <2>6, <1>row, <1>says, WhereGraph
  <2>9. r.starred = TRUE <=> "STARRED" \in n.labels
      BY <2>3, <2>4, <2>5, <2>6, <1>row, <1>says, WhereGraph
  <2>10. (r.archived = FALSE /\ r.deleted = FALSE /\ r.spam = FALSE) <=> InInbox(n)
      BY <2>3, <2>4, <2>5, <2>6, <1>row, <1>says, WhereGraph
  <2>11. Mirrors(n, r)
      BY <2>4, <2>7, <2>8, <2>9, <2>10, MirrorsParts
  <2> QED BY <2>1, <2>2, <2>11
<1>7. ASSUME row.deleted = FALSE PROVE Mirrors(GraphMutate(m, Switch("spam", TRUE)), LocalEffect(row, Switch("spam", TRUE)))
  <2> DEFINE n == Move(m, "junkemail")
             r == Fields(row.archived, row.deleted, TRUE, row.unread, row.starred, row.id)
  <2>1. GraphMutate(m, Switch("spam", TRUE)) = n
      BY GraphSteps
  <2>2. LocalEffect(row, Switch("spam", TRUE)) = r
      BY RowSteps
  <2>3. n.box = "graph" /\ n.labels = m.labels /\ n.folder = "junkemail"
      BY DEF Move, With
  <2>4. r \in Row
      BY <1>row DEF Row, Fields
  <2>5. /\ r.archived = row.archived /\ r.deleted = row.deleted /\ r.spam = TRUE
              /\ r.unread = row.unread /\ r.starred = row.starred
      BY DEF Fields
  <2> HIDE DEF n, r
  <2>7. Mirrors(n, r)
      BY <1>7, <2>3, <2>4, <2>5, MirrorsParts, WhereGraph
  <2> QED BY <2>1, <2>2, <2>7
<1>8. ASSUME row.deleted = FALSE, row.archived = FALSE PROVE Mirrors(GraphMutate(m, Switch("spam", FALSE)), LocalEffect(row, Switch("spam", FALSE)))
  <2> DEFINE n == Move(m, "inbox")
             r == Fields(row.archived, row.deleted, FALSE, row.unread, row.starred, row.id)
  <2>1. GraphMutate(m, Switch("spam", FALSE)) = n
      BY GraphSteps
  <2>2. LocalEffect(row, Switch("spam", FALSE)) = r
      BY RowSteps
  <2>3. n.box = "graph" /\ n.labels = m.labels /\ n.folder = "inbox"
      BY DEF Move, With
  <2>4. r \in Row
      BY <1>row DEF Row, Fields
  <2>5. /\ r.archived = row.archived /\ r.deleted = row.deleted /\ r.spam = FALSE /\ ~(r.spam = TRUE)
              /\ r.unread = row.unread /\ r.starred = row.starred
      BY DEF Fields
  <2> HIDE DEF n, r
  <2>7. /\ r.deleted = TRUE <=> InTrash(n)
        /\ r.deleted = FALSE => (r.spam = TRUE <=> InSpam(n))
      BY <1>8, <2>3, <2>4, <2>5, <1>row, <1>says, WhereGraph
  <2>8. r.unread = TRUE <=> "UNREAD" \in n.labels
      BY <1>8, <2>3, <2>4, <2>5, <1>row, <1>says, WhereGraph
  <2>9. r.starred = TRUE <=> "STARRED" \in n.labels
      BY <1>8, <2>3, <2>4, <2>5, <1>row, <1>says, WhereGraph
  <2>10. (r.archived = FALSE /\ r.deleted = FALSE /\ r.spam = FALSE) <=> InInbox(n)
      BY <1>8, <2>3, <2>4, <2>5, <1>row, <1>says, WhereGraph
  <2>11. Mirrors(n, r)
      BY <2>4, <2>7, <2>8, <2>9, <2>10, MirrorsParts
  <2> QED BY <2>1, <2>2, <2>11
<1>9. ASSUME NEW to, to \notin {"inbox", "deleteditems", "junkemail"}, row.deleted = FALSE, ~InSpam(m) PROVE Mirrors(GraphMutate(m, MoveTo(to)), LocalEffect(row, MoveTo(to)))
  <2> DEFINE n == Move(m, to)
             r == Fields(TRUE, row.deleted, row.spam, row.unread, row.starred, row.id)
  <2>1. GraphMutate(m, MoveTo(to)) = n
      BY GraphSteps
  <2>2. LocalEffect(row, MoveTo(to)) = r
      BY RowSteps
  <2>3. n.box = "graph" /\ n.labels = m.labels /\ n.folder = to
      BY DEF Move, With
  <2>4. r \in Row
      BY <1>row DEF Row, Fields
  <2>5. /\ r.archived = TRUE /\ r.deleted = row.deleted /\ r.spam = row.spam
              /\ r.unread = row.unread /\ r.starred = row.starred
      BY DEF Fields
  <2> HIDE DEF n, r
  <2>7. Mirrors(n, r)
      BY <1>9, <2>3, <2>4, <2>5, MirrorsParts, WhereGraph
  <2> QED BY <2>1, <2>2, <2>7
<1>10. ASSUME NEW f \in Filings PROVE Mirrors(GraphMutate(m, Label({f}, {})), LocalEffect(row, Label({f}, {})))
  <2> DEFINE n == Relabel(m, {f}, {})
             r == row
  <2>1. GraphMutate(m, Label({f}, {})) = n
      BY DEF GraphMutate, Label
  <2>2. LocalEffect(row, Label({f}, {})) = r
      BY RowSteps DEF LocalEffect, Label
  <2>3. n.box = "graph" /\ n.labels = (m.labels \cup {f}) \ {} /\ n.folder = m.folder
      BY DEF Relabel, With
  <2> HIDE DEF n
  <2>6. \A x \in {"INBOX", "TRASH", "SPAM", "UNREAD", "STARRED"} : x \in n.labels <=> x \in m.labels
      BY <1>10, <2>3, <1>own DEF SystemLabels
  <2>7. Mirrors(n, r)
      BY <1>10, <2>3, <2>6, MirrorsParts, WhereGraph
  <2> QED BY <2>1, <2>2, <2>7
<1>11. ASSUME NEW f \in Filings PROVE Mirrors(GraphMutate(m, Label({}, {f})), LocalEffect(row, Label({}, {f})))
  <2> DEFINE n == Relabel(m, {}, {f})
             r == row
  <2>1. GraphMutate(m, Label({}, {f})) = n
      BY DEF GraphMutate, Label
  <2>2. LocalEffect(row, Label({}, {f})) = r
      BY RowSteps DEF LocalEffect, Label
  <2>3. n.box = "graph" /\ n.labels = (m.labels \cup {}) \ {f} /\ n.folder = m.folder
      BY DEF Relabel, With
  <2> HIDE DEF n
  <2>6. \A x \in {"INBOX", "TRASH", "SPAM", "UNREAD", "STARRED"} : x \in n.labels <=> x \in m.labels
      BY <1>11, <2>3, <1>own DEF SystemLabels
  <2>7. Mirrors(n, r)
      BY <1>11, <2>3, <2>6, MirrorsParts, WhereGraph
  <2> QED BY <2>1, <2>2, <2>7
<1> QED BY <1>1, <1>2, <1>3, <1>4, <1>5, <1>6, <1>7, <1>8, <1>9, <1>10, <1>11

\* The one name of a folder at the top is not among the names its path avoids.
LEMMA NameAlone ==
    ASSUME NEW name, NEW path, path = <<name>>, NEW Names, \A i \in DOMAIN path : path[i] \notin Names
    PROVE  name \notin Names
OBVIOUS

\* A message that Outlook has moved has another id.
LEMMA MovedAway == ASSUME NEW m \in Mail PROVE \A to : Move(m, to).id # m.id
<1>1. m = [box |-> m.box, labels |-> m.labels, folder |-> m.folder, id |-> m.id] /\ m.id \in Nat
    BY MailShape
<1> QED BY <1>1 DEF Move

\* So what Outlook has under its old id afterwards was not moved.
LEMMA StayedUnderItsId ==
    ASSUME NEW m \in Mail, NEW op, GraphMutate(m, op).id = m.id
    PROVE  /\ op # Archive /\ op # Delete /\ \A to : op # MoveTo(to)
           /\ op # Switch("spam", TRUE) /\ op # Switch("spam", FALSE)
<1>1. \A to : Move(m, to).id # m.id
    BY MovedAway
<1>2. op # Archive /\ op # Delete /\ \A to : op # MoveTo(to)
    BY <1>1, GraphSteps
<1>3. op # Switch("spam", TRUE) /\ op # Switch("spam", FALSE)
    <2>1. CASE op = Switch("spam", TRUE)
        BY <1>1, <2>1, GraphSteps
    <2>2. CASE op = Switch("spam", FALSE)
        BY <1>1, <2>2, GraphSteps
    <2> QED BY <2>1, <2>2
<1> QED BY <1>2, <1>3

\* A command about labels puts one on or takes one off.
LEMMA LabelCommand ==
    ASSUME NEW box, NEW op \in Commands(box), op.kind = "label"
    PROVE  \E f \in Filings : op = Label({f}, {}) \/ op = Label({}, {f})
<1>1. CASE op = Archive \/ op = Delete
    BY <1>1 DEF Archive, Delete
<1>2. ASSUME NEW kind \in {"markRead", "star", "spam"}, NEW on \in BOOLEAN, op = Switch(kind, on) PROVE FALSE
    BY <1>2 DEF Switch
<1>3. ASSUME NEW to, op = MoveTo(to) PROVE FALSE
    BY <1>3 DEF MoveTo
<1> QED BY <1>1, <1>2, <1>3, CommandKinds

\* A message keeps its shape whatever labels are put on.
LEMMA StaysAMessage ==
    ASSUME NEW m \in Mail, NEW op \in Commands(m.box), Mutate(m, op).id = m.id
    PROVE  /\ With(Mutate(m, op), Mutate(m, op).labels) = Mutate(m, op)
           /\ Mutate(m, op).box = m.box
<1>1. m = [box |-> m.box, labels |-> m.labels, folder |-> m.folder, id |-> m.id] /\ m.box \in Boxes
      /\ m.id \in Nat
    BY MailShape
<1> DEFINE Whole(n) == With(n, n.labels) = n
<1>2. ASSUME NEW A, NEW B PROVE Whole(Relabel(m, A, B))
    <2>1. Relabel(m, A, B) = With(m, (m.labels \cup A) \ B)
        BY RelabelShape
    <2> QED BY <2>1 DEF With
<1>7. \A to : Move(m, to).id # m.id
    BY <1>1 DEF Move
<1> HIDE DEF Whole
<1>3. \A label : \A on \in BOOLEAN : Whole(Mark(m, label, on))
    BY <1>2 DEF Mark
<1>4. op.kind \in {"archive", "delete", "markRead", "star", "spam", "move", "label"}
      /\ (op.kind \in {"markRead", "star", "spam"} => op.on \in BOOLEAN)
    BY DEF Commands, Simple, Switches, Moves, Labelling
<1>5. /\ Whole(GmailMutate(m, op))
      /\ GraphMutate(m, op).id = m.id => Whole(GraphMutate(m, op))
    BY <1>2, <1>3, <1>4, <1>7 DEF GmailMutate, GraphMutate
<1>6. Mutate(m, op).box = m.box
    BY BoxStays DEF Mutate
<1> QED BY <1>5, <1>6 DEF Mutate, Whole

\* A command on Gmail that is carried out.
LEMMA GmailFollows ==
    ASSUME NEW m \in Mail, m.box = "gmail", NEW row \in Row, Mirrors(m, row), row.deleted = FALSE,
           NEW op \in Commands("gmail"), ~Misjudged(m, row, op)
    PROVE  Mirrors(GmailMutate(m, op), LocalEffect(row, op))
<1>1. With(m, m.labels) = m
    BY RelabelShape
<1>2. CASE op = Archive \/ op = Delete
    BY <1>1, <1>2, GmailKeeps
<1>3. ASSUME NEW kind \in {"markRead", "star", "spam"}, NEW on \in BOOLEAN, op = Switch(kind, on)
      PROVE  Mirrors(GmailMutate(m, op), LocalEffect(row, op))
    <2>1. CASE kind = "spam" /\ ~on
        <3>1. op.kind = "spam" /\ ~op.on
            BY <1>3, <2>1 DEF Switch
        <3>2. row.archived = FALSE
            BY <3>1, RowShape DEF Misjudged
        <3> QED BY <1>1, <1>3, <2>1, <3>2, GmailKeeps
    <2>2. CASE kind = "spam" /\ on
        BY <1>1, <1>3, <2>2, GmailKeeps
    <2>3. CASE kind = "markRead"
        BY <1>1, <1>3, <2>3, GmailKeeps
    <2>4. CASE kind = "star"
        BY <1>1, <1>3, <2>4, GmailKeeps
    <2> QED BY <2>1, <2>2, <2>3, <2>4
<1>4. ASSUME NEW to \in Listed("gmail"), op = MoveTo(to)
      PROVE  Mirrors(GmailMutate(m, op), LocalEffect(row, op))
    <2>1. op.kind = "move" /\ op.to = to
        BY <1>4 DEF MoveTo
    <2>2. to \notin {"INBOX", "STARRED", "UNREAD"}
        BY <2>1 DEF Misjudged
    <2>3. to \notin SystemLabels
        BY <2>2 DEF Listed, SystemLabels
    <2> QED BY <1>1, <1>4, <2>3, GmailKeeps
<1>5. ASSUME NEW f \in Filings, op = Label({f}, {}) \/ op = Label({}, {f})
      PROVE  Mirrors(GmailMutate(m, op), LocalEffect(row, op))
    BY <1>1, <1>5, GmailKeeps
<1> QED BY <1>2, <1>3, <1>4, <1>5, CommandKinds

\* The same on Outlook, whose own folders are not offered under their English names.
LEMMA GraphFollows ==
    ASSUME PathOf["deleteditems"] = <<"deleted items">>, PathOf["junkemail"] = <<"junk email">>,
           NEW m \in Mail, m.box = "graph", NEW row \in Row, Mirrors(m, row), row.deleted = FALSE,
           NEW op \in Commands("graph"), ~Misjudged(m, row, op)
    PROVE  Mirrors(GraphMutate(m, op), LocalEffect(row, op))
<1>1. With(m, m.labels) = m
    BY RelabelShape
<1>2. CASE op = Archive
    <2>1. ~InSpam(m)
        BY <1>2 DEF Misjudged, Archive
    <2> QED BY <1>1, <1>2, <2>1, GraphKeeps
<1>3. CASE op = Delete
    BY <1>1, <1>3, GraphKeeps
<1>4. ASSUME NEW kind \in {"markRead", "star", "spam"}, NEW on \in BOOLEAN, op = Switch(kind, on)
      PROVE  Mirrors(GraphMutate(m, op), LocalEffect(row, op))
    <2>1. CASE kind = "spam" /\ ~on
        <3>1. op.kind = "spam" /\ ~op.on
            BY <1>4, <2>1 DEF Switch
        <3>2. row.archived = FALSE
            BY <3>1, RowShape DEF Misjudged
        <3> QED BY <1>1, <1>4, <2>1, <3>2, GraphKeeps
    <2>2. CASE kind = "spam" /\ on
        BY <1>1, <1>4, <2>2, GraphKeeps
    <2>3. CASE kind = "markRead"
        BY <1>1, <1>4, <2>3, GraphKeeps
    <2>4. CASE kind = "star"
        BY <1>1, <1>4, <2>4, GraphKeeps
    <2> QED BY <2>1, <2>2, <2>3, <2>4
<1>5. ASSUME NEW to \in Listed("graph"), op = MoveTo(to)
      PROVE  Mirrors(GraphMutate(m, op), LocalEffect(row, op))
    <2>1. op.kind = "move" /\ op.to = to
        BY <1>5 DEF MoveTo
    <2>2. to # "inbox" /\ ~InSpam(m)
        BY <2>1 DEF Misjudged
    <2>3. to # "deleteditems" /\ to # "junkemail"
        <3>1. \A i \in DOMAIN PathOf[to] : PathOf[to][i] \notin UnmovableNames
            BY DEF Listed
        <3>2. "deleted items" \in UnmovableNames /\ "junk email" \in UnmovableNames
            BY DEF UnmovableNames
        <3>3. \A name : PathOf[to] = <<name>> => name \notin UnmovableNames
            BY <3>1, NameAlone
        <3> QED BY <3>2, <3>3
    <2> QED BY <1>1, <1>5, <2>2, <2>3, GraphKeeps
<1>6. ASSUME NEW f \in Filings, op = Label({f}, {}) \/ op = Label({}, {f})
      PROVE  Mirrors(GraphMutate(m, op), LocalEffect(row, op))
    BY <1>1, <1>6, GraphKeeps
<1> QED BY <1>2, <1>3, <1>4, <1>5, <1>6, CommandKinds

\* Either provider.
LEMMA MutateFollows ==
    ASSUME PathOf["deleteditems"] = <<"deleted items">>, PathOf["junkemail"] = <<"junk email">>,
           NEW m \in Mail, NEW row \in Row, Mirrors(m, row), row.deleted = FALSE,
           NEW op \in Commands(m.box), ~Misjudged(m, row, op)
    PROVE  Mirrors(Mutate(m, op), LocalEffect(row, op))
<1>1. m.box = "gmail" \/ m.box = "graph"
    BY MailShape DEF Boxes
<1> QED BY <1>1, GmailFollows, GraphFollows DEF Mutate

\* A command that is carried out, where the message is one that is offered and is still found
\* under its id, is followed by the row, and so is its undo.
LEMMA UndoFollows ==
    ASSUME PathOf["deleteditems"] = <<"deleted items">>, PathOf["junkemail"] = <<"junk email">>,
           NEW m \in Mail, NEW row \in Row, Mirrors(m, row), Offered(row),
           NEW op \in Commands(m.box), ~Misjudged(m, row, op), Mutate(m, op).id = m.id
    PROVE  Mirrors(Mutate(Mutate(m, op), InverseOf(op)), LocalEffect(LocalEffect(row, op), InverseOf(op)))
<1> DEFINE n == Mutate(m, op)
           r == LocalEffect(row, op)
<1>1. row.archived = FALSE /\ row.deleted = FALSE /\ row.spam = FALSE /\ InInbox(m)
    BY OfferedRow
<1>2. Mirrors(n, r) /\ r \in Row
    BY <1>1, MutateFollows, EffectShape
<1>3. With(n, n.labels) = n /\ n.box = m.box /\ n.id = m.id
    BY StaysAMessage
<1>4. m.box = "gmail" \/ m.box = "graph"
    BY MailShape DEF Boxes
<1>5. /\ op # Delete => r.deleted = FALSE
    BY <1>1, EffectShape
<1>6. n.box = "gmail" => \A o : Mutate(n, o) = GmailMutate(n, o)
    BY DEF Mutate
<1>7. n.box = "graph" => \A o : Mutate(n, o) = GraphMutate(n, o)
    BY DEF Mutate
<1>8. n.box = "graph" => op # Archive /\ op # Delete /\ (\A to : op # MoveTo(to))
                         /\ (\A on \in BOOLEAN : op # Switch("spam", on))
    <2>1. ASSUME n.box = "graph" PROVE GraphMutate(m, op).id = m.id
        BY <2>1, <1>3 DEF Mutate
    <2>2. ASSUME NEW on \in BOOLEAN, op = Switch("spam", on) PROVE op = Switch("spam", TRUE) \/ op = Switch("spam", FALSE)
        BY <2>2
    <2> HIDE DEF n
    <2> QED BY <2>1, <2>2, StayedUnderItsId
<1>9. CASE op = Archive
    <2>1. n.box = "gmail" /\ InverseOf(op) = Unarchive /\ r.deleted = FALSE
        BY <1>3, <1>4, <1>5, <1>8, <1>9, InverseSteps DEF Archive, Delete
    <2> HIDE DEF n, r
    <2>2. Mirrors(Mutate(n, InverseOf(op)), LocalEffect(r, InverseOf(op)))
        BY <1>2, <1>3, <1>6, <2>1, GmailKeeps
    <2> QED BY <2>2 DEF n, r
<1>10. CASE op = Delete
    <2>1. n.box = "gmail" /\ InverseOf(op) = Restore
        BY <1>3, <1>4, <1>8, <1>10, InverseSteps
    <2>2. n = Relabel(m, {"TRASH"}, {})
        BY <1>3, <1>10, <2>1, GmailSteps DEF Mutate
    <2>3. "INBOX" \in n.labels /\ "SPAM" \notin n.labels
        <3>1. "INBOX" \in m.labels /\ "SPAM" \notin m.labels
            BY <1>1, <1>3, <2>1, WhereGmail
        <3>2. With(m, m.labels) = m
            BY RelabelShape
        <3>3. Relabel(m, {"TRASH"}, {}).labels = (m.labels \cup {"TRASH"}) \ {}
            BY <3>2 DEF Relabel, With
        <3>4. n.labels = (m.labels \cup {"TRASH"}) \ {}
            BY <2>2, <3>3
        <3> QED BY <3>1, <3>4
    <2>4. r.spam = FALSE
        <3>1. r = Fields(row.archived, TRUE, row.spam, row.unread, row.starred, row.id)
            BY <1>10, RowSteps
        <3>2. Fields(row.archived, TRUE, row.spam, row.unread, row.starred, row.id).spam = row.spam
            BY DEF Fields
        <3> QED BY <3>1, <3>2, <1>1
    <2> HIDE DEF n, r
    <2>5. Mirrors(Mutate(n, InverseOf(op)), LocalEffect(r, InverseOf(op)))
        BY <1>2, <1>3, <1>6, <2>1, <2>3, <2>4, GmailKeeps
    <2> QED BY <2>5 DEF n, r
<1>11. ASSUME NEW kind \in {"markRead", "star", "spam"}, NEW on \in BOOLEAN, op = Switch(kind, on)
       PROVE  Mirrors(Mutate(n, InverseOf(op)), LocalEffect(r, InverseOf(op)))
    <2>1. InverseOf(op) = Switch(kind, ~on) /\ r.deleted = FALSE
        BY <1>5, <1>11, InverseSteps DEF Switch, Delete
    <2>2. r.archived = FALSE
        <3>1. CASE kind = "spam"
            <4>1. r = Fields(row.archived, row.deleted, on, row.unread, row.starred, row.id)
                BY <1>11, <3>1, RowSteps
            <4>2. Fields(row.archived, row.deleted, on, row.unread, row.starred, row.id).archived = row.archived
                BY DEF Fields
            <4> QED BY <1>1, <4>1, <4>2
        <3>2. CASE kind = "star"
            <4>1. r = Fields(row.archived, row.deleted, row.spam, row.unread, on, row.id)
                BY <1>11, <3>2, RowSteps
            <4>2. Fields(row.archived, row.deleted, row.spam, row.unread, on, row.id).archived = row.archived
                BY DEF Fields
            <4> QED BY <1>1, <4>1, <4>2
        <3>3. CASE kind = "markRead"
            <4>1. r = Fields(row.archived, row.deleted, row.spam, ~on, row.starred, row.id)
                BY <1>11, <3>3, RowSteps
            <4>2. Fields(row.archived, row.deleted, row.spam, ~on, row.starred, row.id).archived = row.archived
                BY DEF Fields
            <4> QED BY <1>1, <4>1, <4>2
        <3> QED BY <3>1, <3>2, <3>3
    <2>3. n.box = "graph" => kind # "spam"
        BY <1>8, <1>11
    <2> HIDE DEF n, r
    <2>4. CASE n.box = "gmail"
        <3>1. on = TRUE \/ on = FALSE
            OBVIOUS
        <3>2. CASE kind = "markRead"
            BY <1>2, <1>3, <1>6, <2>1, <2>4, <3>1, <3>2, GmailKeeps
        <3>3. CASE kind = "star"
            BY <1>2, <1>3, <1>6, <2>1, <2>4, <3>1, <3>3, GmailKeeps
        <3>4. CASE kind = "spam"
            BY <1>2, <1>3, <1>6, <2>1, <2>2, <2>4, <3>1, <3>4, GmailKeeps
        <3> QED BY <3>2, <3>3, <3>4
    <2>5. CASE n.box = "graph"
        <3>1. on = TRUE \/ on = FALSE
            OBVIOUS
        <3>2. CASE kind = "markRead"
            BY <1>2, <1>3, <1>7, <2>1, <2>5, <3>1, <3>2, GraphKeeps
        <3>3. CASE kind = "star"
            BY <1>2, <1>3, <1>7, <2>1, <2>5, <3>1, <3>3, GraphKeeps
        <3> QED BY <2>3, <2>5, <3>2, <3>3
    <2> QED BY <1>3, <1>4, <2>4, <2>5
<1>12. ASSUME NEW to \in Listed(m.box), op = MoveTo(to)
       PROVE  Mirrors(Mutate(n, InverseOf(op)), LocalEffect(r, InverseOf(op)))
    <2>1. n.box = "gmail" /\ InverseOf(op) = Unarchive /\ r.deleted = FALSE
        BY <1>3, <1>4, <1>5, <1>8, <1>12, InverseSteps DEF MoveTo, Delete
    <2> HIDE DEF n, r
    <2> QED BY <1>2, <1>3, <1>6, <2>1, GmailKeeps
<1>13. ASSUME NEW f \in Filings, op = Label({f}, {}) \/ op = Label({}, {f})
       PROVE  Mirrors(Mutate(n, InverseOf(op)), LocalEffect(r, InverseOf(op)))
    <2>1. InverseOf(op) = Label({f}, {}) \/ InverseOf(op) = Label({}, {f})
        BY <1>13, InverseSteps
    <2> HIDE DEF n, r
    <2>2. CASE n.box = "gmail"
        BY <1>2, <1>3, <1>6, <2>1, <2>2, GmailKeeps
    <2>3. CASE n.box = "graph"
        BY <1>2, <1>3, <1>7, <2>1, <2>3, GraphKeeps
    <2> QED BY <1>3, <1>4, <2>2, <2>3
<1> QED BY <1>9, <1>10, <1>11, <1>12, <1>13, CommandKinds

\* Whether something is a member of a set is a Boolean.
LEMMA MembershipIsBoolean == ASSUME NEW x, NEW S PROVE (x \in S) \in BOOLEAN
OBVIOUS

\* What is stored of a message that has just been found is a row.
LEMMA StoredRow == ASSUME NEW m \in Mail PROVE Stored(m) \in Row
<1>1. m.id \in Ids
    BY DEF Mail
<1>2. ASSUME NEW unread \in BOOLEAN, NEW starred \in BOOLEAN, NEW id \in Ids
      PROVE  [archived |-> FALSE, deleted |-> FALSE, spam |-> FALSE, unread |-> unread, starred |-> starred,
              id |-> id] \in Row
    BY DEF Row
<1>3. ("UNREAD" \in m.labels) \in BOOLEAN
    BY MembershipIsBoolean
<1>4. ("STARRED" \in m.labels) \in BOOLEAN
    BY MembershipIsBoolean
<1> QED BY <1>1, <1>2, <1>3, <1>4 DEF Stored

\* A command, or its refusal, is followed by the row.
LEMMA CommandFollows ==
    ASSUME PathOf["deleteditems"] = <<"deleted items">>, PathOf["junkemail"] = <<"junk email">>,
           NEW m \in Mail, NEW row \in Row, Mirrors(m, row), NEW known \in SUBSET Filings,
           NEW op \in Commands(m.box), ~Misjudged(m, row, op)
    PROVE  Mirrors(MailAfter(known, m, row, op), RowAfter(known, m, row, op))
<1>1. CASE Refused(known, m, row, op)
    BY <1>1 DEF MailAfter, RowAfter
<1>2. CASE ~Refused(known, m, row, op)
    <2>1. MailAfter(known, m, row, op) = Mutate(m, op) /\ RowAfter(known, m, row, op) = LocalEffect(row, op)
        BY <1>2 DEF MailAfter, RowAfter
    <2>2. CASE row.deleted = FALSE
        BY <2>1, <2>2, MutateFollows
    <2>3. CASE row.deleted = TRUE
        <3>1. op = Delete
            <4>1. op.kind \in {"delete", "restore"}
                BY <1>2, <2>3 DEF Refused
            <4>2. op.kind # "restore"
                BY DEF Commands, Simple, Switches, Moves, Labelling
            <4> QED BY <4>1, <4>2 DEF Delete, Commands, Simple, Switches, Moves, Labelling
        <3>2. With(m, m.labels) = m /\ (m.box = "gmail" \/ m.box = "graph")
            BY MailShape, RelabelShape DEF Boxes
        <3>3. CASE m.box = "gmail"
            BY <2>1, <3>1, <3>2, <3>3, GmailKeeps DEF Mutate
        <3>4. CASE m.box = "graph"
            BY <2>1, <3>1, <3>2, <3>4, GraphKeeps DEF Mutate
        <3> QED BY <3>2, <3>3, <3>4
    <2> QED BY <2>2, <2>3, RowShape
<1> QED BY <1>1, <1>2

\* So is the undo of either, where the command was written into the row.
LEMMA UndoneFollows ==
    ASSUME PathOf["deleteditems"] = <<"deleted items">>, PathOf["junkemail"] = <<"junk email">>,
           NEW m \in Mail, NEW row \in Row, Mirrors(m, row), NEW known \in SUBSET Filings,
           NEW op \in Commands(m.box), ~Misjudged(m, row, op), Offered(row),
           NEW kept, kept = RowAfter(known, m, row, op)
    PROVE  Mirrors(MailUndone(known, m, row, kept, op), RowUndone(known, m, row, kept, op))
<1>1. row.deleted = FALSE
    BY OfferedRow
<1>5. kept \in RowsAfter(known, m, row, op)
    BY DEF RowsAfter
<1>6. ~Refused(known, m, row, op) => kept = LocalEffect(row, op)
    BY DEF RowAfter
<1>2. CASE ~Refused(known, m, row, op) /\ Mutate(m, op).id # m.id
    <2>1. Mirrors(Mutate(m, op), LocalEffect(row, op))
        BY <1>1, MutateFollows
    <2> QED BY <1>2, <1>5, <1>6, <2>1, UndoMisses
<1>3. CASE ~Refused(known, m, row, op) /\ Mutate(m, op).id = m.id
    <2>1. Mirrors(Mutate(Mutate(m, op), InverseOf(op)), LocalEffect(LocalEffect(row, op), InverseOf(op)))
        BY <1>3, UndoFollows
    <2> QED BY <1>3, <1>5, <1>6, <2>1, UndoGoesThrough
<1>4. CASE Refused(known, m, row, op)
    <2> DEFINE later == KnownAfter(known, row, op)
    <2>1. /\ MailUndone(known, m, row, kept, op) = MailAfter(later, m, row, InverseOf(op))
          /\ RowUndone(known, m, row, kept, op) = RowAfter(later, m, row, InverseOf(op))
        BY <1>4 DEF MailUndone, RowUndone, MailAfter, RowAfter
    <2>2. CASE Refused(later, m, row, InverseOf(op))
        BY <2>1, <2>2 DEF MailAfter, RowAfter
    <2>3. CASE ~Refused(later, m, row, InverseOf(op))
        <3>1. /\ MailUndone(known, m, row, kept, op) = Mutate(m, InverseOf(op))
              /\ RowUndone(known, m, row, kept, op) = LocalEffect(row, InverseOf(op))
            BY <2>1, <2>3 DEF MailAfter, RowAfter
        <3>2. row.id = m.id
            BY <2>3 DEF Refused
        <3>3. op.kind = "label"
            BY <1>1, <1>4, <3>2 DEF Refused, NoSuchLabel
        <3>4. PICK f \in Filings : op = Label({f}, {}) \/ op = Label({}, {f})
            BY <3>3, LabelCommand
        <3>5. InverseOf(op) = Label({f}, {}) \/ InverseOf(op) = Label({}, {f})
            BY <3>4, InverseSteps
        <3>6. With(m, m.labels) = m /\ (m.box = "gmail" \/ m.box = "graph")
            BY MailShape, RelabelShape DEF Boxes
        <3>7. CASE m.box = "gmail"
            BY <3>1, <3>5, <3>6, <3>7, GmailKeeps DEF Mutate
        <3>8. CASE m.box = "graph"
            BY <3>1, <3>5, <3>6, <3>8, GraphKeeps DEF Mutate
        <3> QED BY <3>6, <3>7, <3>8
    <2> QED BY <2>2, <2>3
<1> QED BY <1>2, <1>3, <1>4

\* Wherever a message is, its row follows it after a command, an undo, or a refusal of either, as
\* long as each is written into it, but for what Misjudged names, and as long as Outlook's folders
\* have their English names (MailboxActionService.apply, applyLocalEffect, UndoService.undo).
THEOREM RowFollowsMail ==
    ASSUME PathOf["deleteditems"] = <<"deleted items">>, PathOf["junkemail"] = <<"junk email">>
    PROVE  \A m \in Mail : Follows(m)
<1>1. ASSUME NEW m \in Mail, InInbox(m) PROVE Mirrors(m, Stored(m))
    <2> DEFINE r == Stored(m)
    <2>1. /\ r.archived = FALSE /\ r.deleted = FALSE /\ r.spam = FALSE
          /\ r.unread = TRUE <=> "UNREAD" \in m.labels
          /\ r.starred = TRUE <=> "STARRED" \in m.labels
        BY DEF Stored
    <2>2. r \in Row
        BY StoredRow
    <2>3. ~InTrash(m) /\ ~InSpam(m)
        BY <1>1 DEF InInbox
    <2> HIDE DEF r
    <2>4. /\ r.deleted = TRUE <=> InTrash(m)
          /\ r.deleted = FALSE => (r.spam = TRUE <=> InSpam(m))
          /\ (r.archived = FALSE /\ r.deleted = FALSE /\ r.spam = FALSE) <=> InInbox(m)
        BY <1>1, <2>1, <2>3
    <2>5. Mirrors(m, r)
        BY <2>1, <2>2, <2>4, MirrorsParts
    <2> QED BY <2>5 DEF r
<1> QED BY <1>1, CommandFollows, UndoneFollows DEF Follows

\* A command that leaves the message under its id puts labels on and takes labels off.
LEMMA RelabelsInPlace ==
    ASSUME NEW m \in Mail, NEW op \in Commands(m.box), Mutate(m, op).id = m.id
    PROVE  \E A, B : \A n : n.box = m.box => Mutate(n, op) = Relabel(n, A, B)
<1>1. m.box = "gmail" \/ m.box = "graph"
    BY MailShape DEF Boxes
<1>2. /\ m.box = "gmail" => \A n : n.box = m.box => Mutate(n, op) = GmailMutate(n, op)
      /\ m.box = "graph" => \A n : n.box = m.box => Mutate(n, op) = GraphMutate(n, op)
    BY DEF Mutate
<1>3. m.box = "graph" => op # Archive /\ op # Delete /\ (\A to : op # MoveTo(to))
                         /\ (\A on \in BOOLEAN : op # Switch("spam", on))
    <2>1. ASSUME m.box = "graph" PROVE GraphMutate(m, op).id = m.id
        BY <2>1 DEF Mutate
    <2>2. ASSUME NEW on \in BOOLEAN, op = Switch("spam", on) PROVE op = Switch("spam", TRUE) \/ op = Switch("spam", FALSE)
        BY <2>2
    <2> QED BY <2>1, <2>2, StayedUnderItsId
<1>4. CASE op = Archive
    <2>1. \A n : GmailMutate(n, op) = Relabel(n, {}, {"INBOX"})
        BY <1>4, GmailSteps
    <2> QED BY <1>1, <1>2, <1>3, <1>4, <2>1
<1>5. CASE op = Delete
    <2>1. \A n : GmailMutate(n, op) = Relabel(n, {"TRASH"}, {})
        BY <1>5, GmailSteps
    <2> QED BY <1>1, <1>2, <1>3, <1>5, <2>1
<1>6. ASSUME NEW kind \in {"markRead", "star", "spam"}, NEW on \in BOOLEAN, op = Switch(kind, on)
      PROVE  \E A, B : \A n : n.box = m.box => Mutate(n, op) = Relabel(n, A, B)
    <2>1. \A n, label : /\ Mark(n, label, TRUE) = Relabel(n, {label}, {})
                        /\ Mark(n, label, FALSE) = Relabel(n, {}, {label})
        BY DEF Mark
    <2>5. on = TRUE \/ on = FALSE
        OBVIOUS
    <2>2. CASE kind = "markRead"
        <3>1. \A n : /\ GmailMutate(n, op) = Mark(n, "UNREAD", ~on)
                     /\ GraphMutate(n, op) = Mark(n, "UNREAD", ~on)
            BY <1>6, <2>2, GmailSteps, GraphSteps
        <3>2. CASE on = TRUE
            <4>1. \A n : Mark(n, "UNREAD", ~on) = Relabel(n, {}, {"UNREAD"})
                BY <2>1, <3>2
            <4> QED BY <1>1, <1>2, <3>1, <4>1
        <3>3. CASE on = FALSE
            <4>1. \A n : Mark(n, "UNREAD", ~on) = Relabel(n, {"UNREAD"}, {})
                BY <2>1, <3>3
            <4> QED BY <1>1, <1>2, <3>1, <4>1
        <3> QED BY <2>5, <3>2, <3>3
    <2>3. CASE kind = "star"
        <3>1. \A n : /\ GmailMutate(n, op) = Mark(n, "STARRED", on)
                     /\ GraphMutate(n, op) = Mark(n, "STARRED", on)
            BY <1>6, <2>3, GmailSteps, GraphSteps
        <3>2. CASE on = TRUE
            <4>1. \A n : Mark(n, "STARRED", on) = Relabel(n, {"STARRED"}, {})
                BY <2>1, <3>2
            <4> QED BY <1>1, <1>2, <3>1, <4>1
        <3>3. CASE on = FALSE
            <4>1. \A n : Mark(n, "STARRED", on) = Relabel(n, {}, {"STARRED"})
                BY <2>1, <3>3
            <4> QED BY <1>1, <1>2, <3>1, <4>1
        <3> QED BY <2>5, <3>2, <3>3
    <2>4. CASE kind = "spam"
        <3>1. m.box = "gmail"
            BY <1>1, <1>3, <1>6, <2>4
        <3>2. CASE on = TRUE
            <4>1. \A n : GmailMutate(n, op) = Relabel(n, {"SPAM"}, {"INBOX"})
                BY <1>6, <2>4, <3>2, GmailSteps
            <4> QED BY <1>2, <3>1, <4>1
        <3>3. CASE on = FALSE
            <4>1. \A n : GmailMutate(n, op) = Relabel(n, {"INBOX"}, {"SPAM"})
                BY <1>6, <2>4, <3>3, GmailSteps
            <4> QED BY <1>2, <3>1, <4>1
        <3> QED BY <3>2, <3>3
    <2> QED BY <2>2, <2>3, <2>4
<1>7. ASSUME NEW to \in Listed(m.box), op = MoveTo(to)
      PROVE  \E A, B : \A n : n.box = m.box => Mutate(n, op) = Relabel(n, A, B)
    <2>1. \A n : GmailMutate(n, op) = Relabel(n, {to}, {"INBOX"})
        BY <1>7, GmailSteps
    <2> QED BY <1>1, <1>2, <1>3, <1>7, <2>1
<1>8. ASSUME NEW f \in Filings, op = Label({f}, {}) \/ op = Label({}, {f})
      PROVE  \E A, B : \A n : n.box = m.box => Mutate(n, op) = Relabel(n, A, B)
    <2>1. \A n : /\ GmailMutate(n, Label({f}, {})) = Relabel(n, {f}, {})
                 /\ GmailMutate(n, Label({}, {f})) = Relabel(n, {}, {f})
                 /\ GraphMutate(n, Label({f}, {})) = Relabel(n, {f}, {})
                 /\ GraphMutate(n, Label({}, {f})) = Relabel(n, {}, {f})
        BY DEF GmailMutate, GraphMutate, Label
    <2> QED BY <1>1, <1>2, <1>8, <2>1
<1> QED BY <1>4, <1>5, <1>6, <1>7, <1>8, CommandKinds

\* So the second time it changes nothing.
LEMMA OnceIsEnough ==
    ASSUME NEW m \in Mail, NEW op \in Commands(m.box), Mutate(m, op).id = m.id
    PROVE  Mutate(Mutate(m, op), op) = Mutate(m, op)
<1>1. PICK A, B : \A n : n.box = m.box => Mutate(n, op) = Relabel(n, A, B)
    BY RelabelsInPlace
<1>2. Mutate(m, op).box = m.box
    BY StaysAMessage
<1>3. Mutate(Mutate(m, op), op) = Relabel(Relabel(m, A, B), A, B)
    BY <1>1, <1>2
<1>4. Relabel(Relabel(m, A, B), A, B) = With(m, (((m.labels \cup A) \ B) \cup A) \ B)
    BY RelabelTwice
<1>5. (((m.labels \cup A) \ B) \cup A) \ B = (m.labels \cup A) \ B
    OBVIOUS
<1>6. Relabel(m, A, B) = With(m, (m.labels \cup A) \ B)
    BY RelabelShape
<1> QED BY <1>1, <1>3, <1>4, <1>5, <1>6

\* What an undo writes covers what its command wrote, so it does not matter whether it did.
LEMMA UndoOfEither ==
    ASSUME NEW row \in Row, NEW box, NEW op \in Commands(box)
    PROVE  LocalEffect(LocalEffect(row, op), InverseOf(op)) = LocalEffect(row, InverseOf(op))
<1> DEFINE r == LocalEffect(row, op)
<1>1. r \in Row
    BY EffectShape
<1>2. CASE op = Archive \/ \E to \in Listed(box) : op = MoveTo(to)
    <2>1. InverseOf(op) = Unarchive
        BY <1>2, InverseSteps
    <2>2. r = Fields(TRUE, row.deleted, row.spam, row.unread, row.starred, row.id)
        <3>1. CASE op = Archive
            BY <3>1, RowSteps
        <3>2. ASSUME NEW to, op = MoveTo(to)
              PROVE  r = Fields(TRUE, row.deleted, row.spam, row.unread, row.starred, row.id)
            BY <3>2, RowSteps DEF Fields
        <3> QED BY <1>2, <3>1, <3>2
    <2> HIDE DEF r
    <2>3. LocalEffect(r, Unarchive) = Fields(FALSE, r.deleted, r.spam, r.unread, r.starred, r.id)
        BY <1>1, RowSteps
    <2>4. r.deleted = row.deleted /\ r.spam = row.spam /\ r.unread = row.unread /\ r.starred = row.starred /\ r.id = row.id
        BY <2>2 DEF Fields
    <2>5. LocalEffect(row, Unarchive) = Fields(FALSE, row.deleted, row.spam, row.unread, row.starred, row.id)
        BY RowSteps
    <2>6. LocalEffect(r, InverseOf(op)) = LocalEffect(row, InverseOf(op))
        BY <2>1, <2>3, <2>4, <2>5
    <2> QED BY <2>6 DEF r
<1>3. CASE op = Delete
    <2>1. InverseOf(op) = Restore
        BY <1>3, InverseSteps
    <2>2. r = Fields(row.archived, TRUE, row.spam, row.unread, row.starred, row.id)
        BY <1>3, RowSteps
    <2> HIDE DEF r
    <2>3. LocalEffect(r, Restore) = Fields(FALSE, FALSE, r.spam, r.unread, r.starred, r.id)
        BY <1>1, RowSteps
    <2>4. r.spam = row.spam /\ r.unread = row.unread /\ r.starred = row.starred /\ r.id = row.id
        BY <2>2 DEF Fields
    <2>5. LocalEffect(row, Restore) = Fields(FALSE, FALSE, row.spam, row.unread, row.starred, row.id)
        BY RowSteps
    <2>6. LocalEffect(r, InverseOf(op)) = LocalEffect(row, InverseOf(op))
        BY <2>1, <2>3, <2>4, <2>5
    <2> QED BY <2>6 DEF r
<1>4. ASSUME NEW kind \in {"markRead", "star", "spam"}, NEW on \in BOOLEAN, op = Switch(kind, on)
      PROVE  LocalEffect(r, InverseOf(op)) = LocalEffect(row, InverseOf(op))
    <2>1. InverseOf(op) = Switch(kind, ~on)
        BY <1>4, InverseSteps
    <2>2. CASE kind = "markRead"
        <3>1. r = Fields(row.archived, row.deleted, row.spam, ~on, row.starred, row.id)
            BY <1>4, <2>2, RowSteps
        <3> HIDE DEF r
        <3>2. LocalEffect(r, Switch("markRead", ~on)) = Fields(r.archived, r.deleted, r.spam, ~~on, r.starred, r.id)
            BY <1>1, <2>1, RowSteps
        <3>3. LocalEffect(row, Switch("markRead", ~on)) =
                  Fields(row.archived, row.deleted, row.spam, ~~on, row.starred, row.id)
            BY <2>1, RowSteps
        <3>4. /\ r.archived = row.archived /\ r.deleted = row.deleted /\ r.spam = row.spam
              /\ r.starred = row.starred /\ r.id = row.id
            BY <3>1 DEF Fields
        <3> QED BY <2>1, <2>2, <3>2, <3>3, <3>4
    <2>3. CASE kind = "star"
        <3>1. r = Fields(row.archived, row.deleted, row.spam, row.unread, on, row.id)
            BY <1>4, <2>3, RowSteps
        <3> HIDE DEF r
        <3>2. LocalEffect(r, Switch("star", ~on)) = Fields(r.archived, r.deleted, r.spam, r.unread, ~on, r.id)
            BY <1>1, <2>1, RowSteps
        <3>3. LocalEffect(row, Switch("star", ~on)) =
                  Fields(row.archived, row.deleted, row.spam, row.unread, ~on, row.id)
            BY <2>1, RowSteps
        <3>4. /\ r.archived = row.archived /\ r.deleted = row.deleted /\ r.spam = row.spam
              /\ r.unread = row.unread /\ r.id = row.id
            BY <3>1 DEF Fields
        <3> QED BY <2>1, <2>3, <3>2, <3>3, <3>4
    <2>4. CASE kind = "spam"
        <3>1. r = Fields(row.archived, row.deleted, on, row.unread, row.starred, row.id)
            BY <1>4, <2>4, RowSteps
        <3> HIDE DEF r
        <3>2. LocalEffect(r, Switch("spam", ~on)) = Fields(r.archived, r.deleted, ~on, r.unread, r.starred, r.id)
            BY <1>1, <2>1, RowSteps
        <3>3. LocalEffect(row, Switch("spam", ~on)) =
                  Fields(row.archived, row.deleted, ~on, row.unread, row.starred, row.id)
            BY <2>1, RowSteps
        <3>4. /\ r.archived = row.archived /\ r.deleted = row.deleted /\ r.unread = row.unread
              /\ r.starred = row.starred /\ r.id = row.id
            BY <3>1 DEF Fields
        <3> QED BY <2>1, <2>4, <3>2, <3>3, <3>4
    <2> QED BY <2>2, <2>3, <2>4
<1>5. ASSUME NEW f, op = Label({f}, {}) \/ op = Label({}, {f})
      PROVE  LocalEffect(r, InverseOf(op)) = LocalEffect(row, InverseOf(op))
    <2>1. r = row
        BY <1>5, RowSteps DEF Fields
    <2> QED BY <2>1
<1> QED BY <1>2, <1>3, <1>4, <1>5, CommandKinds

\* The same command again, where the row was not written the first time, and the message is still
\* found under its id.
LEMMA AgainFollows ==
    ASSUME PathOf["deleteditems"] = <<"deleted items">>, PathOf["junkemail"] = <<"junk email">>,
           NEW m \in Mail, NEW row \in Row, Mirrors(m, row), NEW known \in SUBSET Filings,
           NEW op \in Commands(m.box), ~Misjudged(m, row, op),
           NEW done, done = MailAfter(known, m, row, op), done.id = m.id,
           NEW later, later = KnownAfter(known, row, op)
    PROVE  Mirrors(MailAfter(later, done, row, op), RowAfter(later, done, row, op))
<1>1. known \subseteq later /\ later \in SUBSET Filings
    <2>1. op.kind = "label" => op.add \in SUBSET Filings
        BY DEF Commands, Simple, Switches, Moves, Labelling
    <2> QED BY <2>1 DEF KnownAfter
<1>2. CASE Refused(known, m, row, op)
    <2>1. done = m
        BY <1>2 DEF MailAfter
    <2> QED BY <1>1, <2>1, CommandFollows
<1>3. CASE ~Refused(known, m, row, op)
    <2>1. done = Mutate(m, op)
        BY <1>3 DEF MailAfter
    <2>2. ~Refused(later, done, row, op)
        BY <1>1, <1>3 DEF Refused, NoSuchLabel
    <2>3. Mutate(done, op) = done
        BY <2>1, OnceIsEnough
    <2>4. MailAfter(later, done, row, op) = done /\ RowAfter(later, done, row, op) = LocalEffect(row, op)
        BY <2>2, <2>3 DEF MailAfter, RowAfter
    <2>5. MailAfter(known, m, row, op) = done /\ RowAfter(known, m, row, op) = LocalEffect(row, op)
        BY <1>3 DEF RowAfter
    <2>6. Mirrors(MailAfter(known, m, row, op), RowAfter(known, m, row, op))
        BY CommandFollows
    <2> QED BY <2>4, <2>5, <2>6
<1> QED BY <1>2, <1>3

\* And the undo of a command that was not written.
LEMMA UnwrittenUndone ==
    ASSUME PathOf["deleteditems"] = <<"deleted items">>, PathOf["junkemail"] = <<"junk email">>,
           NEW m \in Mail, NEW row \in Row, Mirrors(m, row), NEW known \in SUBSET Filings,
           NEW op \in Commands(m.box), ~Misjudged(m, row, op), Offered(row),
           MailAfter(known, m, row, op).id = m.id
    PROVE  Mirrors(MailUndone(known, m, row, row, op), RowUndone(known, m, row, row, op))
<1>1. CASE Refused(known, m, row, op)
    <2>1. row = RowAfter(known, m, row, op)
        BY <1>1 DEF RowAfter
    <2> QED BY <2>1, UndoneFollows
<1>2. CASE ~Refused(known, m, row, op)
    <2>1. Mutate(m, op).id = m.id
        BY <1>2 DEF MailAfter
    <2>2. row \in RowsAfter(known, m, row, op)
        BY DEF RowsAfter
    <2>3. /\ MailUndone(known, m, row, row, op) = Mutate(Mutate(m, op), InverseOf(op))
          /\ RowUndone(known, m, row, row, op) = LocalEffect(row, InverseOf(op))
        BY <1>2, <2>1, <2>2, UndoGoesThrough
    <2>4. LocalEffect(LocalEffect(row, op), InverseOf(op)) = LocalEffect(row, InverseOf(op))
        BY UndoOfEither
    <2>5. Mirrors(Mutate(Mutate(m, op), InverseOf(op)), LocalEffect(LocalEffect(row, op), InverseOf(op)))
        BY <2>1, UndoFollows
    <2> QED BY <2>3, <2>4, <2>5
<1> QED BY <1>1, <1>2

\* A command whose write to the row is lost leaves a row that the same command puts right, and that
\* its undo puts right, as long as the message is found under its id; a message that Outlook has
\* moved is out of reach of every operation on that row (MailboxActionService.mirror, which leaves
\* it to "the next sync").
THEOREM LostWritesMend ==
    ASSUME PathOf["deleteditems"] = <<"deleted items">>, PathOf["junkemail"] = <<"junk email">>
    PROVE  \A m \in Mail : Mends(m)
<1>1. ASSUME NEW m \in Mail, NEW row \in Row, Mirrors(m, row), NEW known \in SUBSET Filings,
             NEW op \in Commands(m.box), ~Misjudged(m, row, op),
             MailAfter(known, m, row, op).id = m.id
      PROVE  Mirrors(MailAfter(KnownAfter(known, row, op), MailAfter(known, m, row, op), row, op),
                     RowAfter(KnownAfter(known, row, op), MailAfter(known, m, row, op), row, op))
    BY <1>1, AgainFollows
<1>2. ASSUME NEW m \in Mail, NEW row \in Row, Mirrors(m, row), NEW known \in SUBSET Filings,
             NEW op \in Commands(m.box), ~Misjudged(m, row, op),
             MailAfter(known, m, row, op).id = m.id, Offered(row)
      PROVE  Mirrors(MailUndone(known, m, row, row, op), RowUndone(known, m, row, row, op))
    BY <1>2, UnwrittenUndone
<1>3. ASSUME NEW m \in Mail, NEW row \in Row, Mirrors(m, row), NEW known \in SUBSET Filings,
             NEW op \in Commands(m.box), ~Misjudged(m, row, op),
             MailAfter(known, m, row, op).id # m.id, NEW other \in Operations
      PROVE  Refused(KnownAfter(known, row, op), MailAfter(known, m, row, op), row, other)
    <2>1. ~Refused(known, m, row, op)
        BY <1>3 DEF MailAfter
    <2> QED BY <1>3, <2>1 DEF Refused
<1>4. ASSUME NEW m \in Mail, NEW row \in Row, Mirrors(m, row)
      PROVE  \A known \in SUBSET Filings, op \in Commands(m.box) : ~Misjudged(m, row, op) =>
                IF MailAfter(known, m, row, op).id = m.id
                THEN /\ Mirrors(MailAfter(KnownAfter(known, row, op), MailAfter(known, m, row, op), row, op),
                                RowAfter(KnownAfter(known, row, op), MailAfter(known, m, row, op), row, op))
                     /\ Offered(row) =>
                           Mirrors(MailUndone(known, m, row, row, op), RowUndone(known, m, row, row, op))
                ELSE \A other \in Operations :
                        Refused(KnownAfter(known, row, op), MailAfter(known, m, row, op), row, other)
    BY <1>1, <1>2, <1>3, <1>4
<1> QED BY <1>4 DEF Mends

-----------------------------------------------------------------------------
(***************************************************************************)
(* What a handler holds at each of its steps.                              *)
(***************************************************************************)
\* What the user can have sent.
Said(w) ==
    \/ w = Silence
    \/ /\ w.kind = "tap" /\ w.verb \in TapVerbs /\ w.about \in Targets
       /\ w.about = COMPOSE => w.verb \in {"send", "edit", "cancel"}
    \/ w.kind \in {"text", "voice"} /\ w.verb \in TypedVerbs
    \/ w.kind = "file" /\ w.verb \in TypedVerbs \cup {"none"}

\* Words that are about one email, or about none.
Obeyed(w) == w.kind \in {"text", "voice", "file"} /\ w.verb \in TypedVerbs \ {"search"}

\* What may be sent without a confirmation, and what a tap may send.
Dictated(w) == w.verb \in {"reply", "yes"}
Confirmed(ask, w) == ask \in Asks /\ w.kind = "tap" /\ w.verb = "send" /\ ask.about = w.about

Suits(q, w, run) ==
    /\ q.step = "idle" => q = Idle
    /\ q.step # "idle" => w # Silence
    /\ q.step = "listen" => w.kind = "voice"
    /\ q.step \in {"measure", "stage"} => w.kind = "file"
    /\ q.step = "resolve" => Obeyed(w)
    /\ q.step = "subject" => w.kind = "tap" /\ w.about \in Emails
    /\ q.step = "focus" => q.on \in Emails /\ (Obeyed(w) \/ (w.kind = "tap" /\ w.about = q.on))
    /\ q.step = "ask" => w.kind # "tap" /\ w.verb \in {"forward", "compose"} /\ (w.verb = "forward" => q.on \in Emails)
    /\ q.step = "draft" => w.verb = "draft" /\ q.on \in Emails
    /\ q.step \in {"take", "clear"} => w.kind = "tap"
    /\ q.step = "clear" => q.ask \in Asks
    /\ q.step \in {"compose", "enqueue"} =>
          (q.ask = NoAsk /\ Dictated(w) /\ q.on \in Emails) \/ Confirmed(q.ask, w)
    /\ q.step = "act" => q.on \in Emails
    /\ q.step = "remember" => q.action \in Actions /\ q.action.run = run
    /\ q.step \in {"undoClear", "reverse"} => q.action \in Actions
    /\ q.step = "answer" => /\ q.say # "none"
                            /\ q.say = "echo" => w.kind = "voice" /\ q.ask = NoAsk
                            /\ q.say = "card" => q.ask \in Asks
    /\ q.ask # NoAsk => q.step \in {"clear", "compose", "enqueue", "remember", "answer"}

Fit(m) ==
    /\ Said(message[m])
    /\ Suits(here[m], message[m], Run(m))
    /\ job[m] = "active" <=> here[m].step # "idle"
    /\ job[m] # "absent" => message[m] # Silence
    /\ job[m] \in {"absent", "waiting", "active"} => tries[m] < MaxAttempts

Fits == \A m \in Messages : Fit(m)

Base == TypeOK /\ Fits

\* The variables no handler keeps to itself.
Shared ==
    /\ active \in Emails \cup {NoEmail}
    /\ expires \in 0..MaxClock + 1
    /\ slot \in Asks \cup {NoAsk}
    /\ last \in Actions \cup {NoAction}
    /\ place \in [Emails -> {"inbox", "archived", "trash", "gone"}]
    /\ file \in [Messages -> {"none", "held", "carried", "expired"}]
    /\ drafts \in [Runs -> [words : Asks \cup {NoAsk}, state : DraftStates]]
    /\ put \subseteq Asks /\ cards \subseteq Asks
    /\ heard \in [Messages -> SUBSET Answers]
    /\ reversed \in [Runs -> Nat]
    /\ disturbed \in 0..MaxDisturbed

LEMMA Bounds ==
    /\ MaxMessages \in Nat /\ Concurrency \in Nat \ {0} /\ MaxHeld \in Nat
    /\ MaxAttempts \in Nat \ {0} /\ MaxClock \in Nat /\ MaxDisturbed \in Nat
    /\ COMPOSE \notin Emails /\ NoEmail \notin Emails /\ NoEmail # COMPOSE
BY BoundsAssumption, DisturbancesAssumption, NamesAssumption

LEMMA SharedTyped == Base => Shared
BY DEF Base, TypeOK, Shared

LEMMA AskIsNone == NoAsk \notin Asks /\ NoAction \notin Actions /\ NoAction.run \notin Runs
<1>1. NoAsk.kind = "none" /\ NoAction.verb = "none" /\ NoAction.run = <<0, 0>>
    BY DEF NoAsk, NoAction
<1>2. <<0, 0>> \notin Runs
    BY DEF Runs, Messages
<1> QED BY <1>1, <1>2 DEF Asks, Actions

LEMMA IdleSuits ==
    /\ Idle \in Local /\ Idle.step = "idle" /\ Idle.ask = NoAsk
    /\ \A w, run : Suits(Idle, w, run)
<1>1. Idle \in Local
    BY DEF Idle, Local, Steps, Answers, Targets
<1>2. Idle.step = "idle" /\ Idle.ask = NoAsk
    BY DEF Idle
<1> QED BY <1>1, <1>2 DEF Suits

\* The run under way is one.
LEMMA RunIsOne ==
    ASSUME Base, NEW m \in Messages, job[m] \in {"waiting", "active"}
    PROVE  Run(m) \in Runs /\ Run(m)[1] = m /\ Run(m)[2] \in 1..MaxAttempts + 1
<1>1. tries[m] \in Nat /\ tries[m] < MaxAttempts
    BY Bounds DEF Base, TypeOK, Fits, Fit
<1>2. tries[m] + 1 + (IF m \in crashed THEN 1 ELSE 0) \in 1..MaxAttempts + 1
    BY <1>1, Bounds
<1> QED BY <1>2 DEF Run, Runs

\* A handler goes on with what it is at; jobs stay as they are.
LEMMA HandlerBase ==
    ASSUME Base, NEW m \in Messages, NEW q \in Local, here' = [here EXCEPT ![m] = q],
           here[m].step # "idle", q.step # "idle", Suits(q, message[m], Run(m)),
           UNCHANGED <<worldVars, jobVars>>, Shared'
    PROVE  Base'
<1>1. here \in [Messages -> Local] /\ Fits
    BY DEF Base, TypeOK
<1>2. TypeOK'
    BY <1>1 DEF Base, TypeOK, Shared, worldVars, jobVars
<1>3. ASSUME NEW n \in Messages PROVE Fit(n)'
  <2>1. UNCHANGED <<message, job, tries, crashed>>
    BY DEF worldVars, jobVars
  <2>2. Run(n)' = Run(n)
    BY <2>1 DEF Run
  <2>3. Fit(n) /\ Fit(m)
    BY <1>1 DEF Fits
  <2>4. CASE n = m
    BY <1>1, <2>1, <2>2, <2>3, <2>4 DEF Fit
  <2>5. CASE n # m
    BY <1>1, <2>1, <2>2, <2>3, <2>5 DEF Fit
  <2> QED BY <2>4, <2>5
<1> QED BY <1>2, <1>3 DEF Base, Fits

\* A handler ends, and its job is done with or waits for another run.
LEMMA LeaveBase ==
    ASSUME Base, NEW m \in Messages, NEW state \in {"waiting", "completed", "dead"}, Leave(m, state),
           job[m] = "active", UNCHANGED worldVars, Shared',
           \/ tries' = tries /\ crashed' \in {crashed, crashed \cup {m}}
           \/ /\ tries' = [tries EXCEPT ![m] = @ + 1] /\ crashed' = crashed
              /\ state = "waiting" => tries[m] + 1 < MaxAttempts
    PROVE  Base'
<1>1. here \in [Messages -> Local] /\ job \in [Messages -> JobStates] /\ tries \in [Messages -> 0..MaxAttempts]
      /\ crashed \subseteq Messages /\ Fits /\ UNCHANGED <<clock, message>>
    BY DEF Base, TypeOK, worldVars
<1>2. tries[m] \in Nat /\ tries[m] < MaxAttempts
    BY <1>1, Bounds DEF Fits, Fit
<1>3. here' \in [Messages -> Local] /\ job' \in [Messages -> JobStates]
    BY <1>1, IdleSuits DEF Leave, JobStates
<1>4. tries' \in [Messages -> 0..MaxAttempts]
    BY <1>1, <1>2, Bounds
<1>5. TypeOK'
    BY <1>1, <1>3, <1>4 DEF Base, TypeOK, Shared
<1>6. ASSUME NEW n \in Messages PROVE Fit(n)'
  <2>1. Fit(n)
    BY <1>1 DEF Fits
  <2>2. CASE n = m
    <3>1. here'[n] = Idle /\ job'[n] = state
        BY <1>1, <2>2 DEF Leave
    <3>2. state = "waiting" => tries'[n] < MaxAttempts
        BY <1>1, <1>2, <2>2
    <3>3. message[n] # Silence
        BY <2>1, <2>2 DEF Fit
    <3>4. Suits(here[n], message[n], Run(n))'
        BY <3>1, IdleSuits
    <3> QED BY <1>1, <2>1, <3>1, <3>2, <3>3, <3>4, IdleSuits DEF Fit
  <2>3. CASE n # m
    <3>1. here'[n] = here[n] /\ job'[n] = job[n] /\ tries'[n] = tries[n] /\ (n \in crashed' <=> n \in crashed)
        BY <1>1, <2>3 DEF Leave
    <3>2. Run(n)' = Run(n)
        BY <3>1 DEF Run
    <3> QED BY <1>1, <2>1, <3>1, <3>2 DEF Fit
  <2> QED BY <2>2, <2>3
<1> QED BY <1>5, <1>6 DEF Base, Fits

LEMMA BaseInit == Init => Base
<1> SUFFICES ASSUME Init PROVE Base
    OBVIOUS
<1>1. Silence \in Message
    BY Bounds DEF Silence, Message, Kinds
<1>2. NoDraft \in [words : Asks \cup {NoAsk}, state : DraftStates]
    BY DEF NoDraft, DraftStates
<1>3. TypeOK
    BY <1>1, <1>2, Bounds, IdleSuits DEF Init, TypeOK, JobStates
<1>4. Fits
    BY Bounds, IdleSuits DEF Init, Fits, Fit, Said
<1> QED BY <1>3, <1>4 DEF Base

-----------------------------------------------------------------------------
(***************************************************************************)
(* The user, the clock, the jobs.                                          *)
(***************************************************************************)
LEMMA ReceiveBase == ASSUME Base, NEW m \in Messages, Receive(m) PROVE Base'
<1>1. PICK said \in Sayable : message' = [message EXCEPT ![m] = said]
    BY DEF Receive
<1>2. message \in [Messages -> Message] /\ clock \in 0..MaxClock /\ cards \subseteq Asks /\ Fits
      /\ message[m] = Silence /\ UNCHANGED <<clock, tries, crashed, here>> /\ here[m] \in Local
      /\ job \in [Messages -> JobStates]
    BY DEF Base, TypeOK, Receive
<1>3. said \in Message /\ Said(said) /\ said # Silence
  <2>1. CASE said.kind # "tap"
    <3>1. said \in [kind : {"text"}, verb : Typed, about : Emails \cup {NoEmail}, card : {NoAsk}, at : {clock}]
          \/ said \in [kind : {"voice"}, verb : Voiced, about : {NoEmail}, card : {NoAsk}, at : {clock}]
          \/ said \in [kind : {"file"}, verb : Captions, about : {NoEmail}, card : {NoAsk}, at : {clock}]
        BY <2>1 DEF Sayable
    <3> QED BY <1>2, <3>1, VerbsAssumption DEF Message, Kinds, Said, Silence, Targets
  <2>2. CASE said \in [kind : {"tap"}, verb : Tapped \ {"send", "edit", "cancel"}, about : Emails,
                       card : {NoAsk}, at : {clock}]
    BY <1>2, <2>2, VerbsAssumption, Bounds DEF Message, Kinds, Said, Silence, Targets
  <2>3. CASE \E c \in cards : said \in [kind : {"tap"}, verb : Tapped \cap {"send", "edit", "cancel"},
                                        about : {c.about}, card : {c}, at : {clock}]
    <3>1. PICK c \in cards : said \in [kind : {"tap"}, verb : Tapped \cap {"send", "edit", "cancel"},
                                       about : {c.about}, card : {c}, at : {clock}]
        BY <2>3
    <3>2. c \in Asks /\ c.about \in Targets
        BY <1>2 DEF Asks
    <3> QED BY <1>2, <3>1, <3>2, VerbsAssumption DEF Message, Kinds, Said, Silence
  <2> QED BY <2>1, <2>2, <2>3 DEF Sayable
<1>4. PICK state \in {"waiting", "lost"} : job' = [job EXCEPT ![m] = state]
    BY DEF Receive
<1>5. job[m] = "absent" /\ here[m].step = "idle"
    BY <1>2 DEF Fits, Fit, Suits
<1>6. disturbed' \in 0..MaxDisturbed
    BY Bounds DEF Receive, Disturb, Undisturbed, Base, TypeOK
<1>7. message' \in [Messages -> Message] /\ job' \in [Messages -> JobStates]
    BY <1>1, <1>2, <1>3, <1>4 DEF JobStates
<1>8. TypeOK'
    BY <1>6, <1>7 DEF Base, TypeOK, Receive, convVars, mailVars, historyVars
<1>9. ASSUME NEW n \in Messages PROVE Fit(n)'
  <2>1. Fit(n) /\ Run(n)' = Run(n)
    BY <1>2 DEF Fits, Run
  <2>2. CASE n = m
    <3>1. message'[n] = said /\ job'[n] = state /\ here'[n] = here[n]
        BY <1>1, <1>2, <1>4, <2>2
    <3>2. tries[n] < MaxAttempts
        BY <1>2, <2>1, <2>2 DEF Fit
    <3>3. here[n] = Idle
        BY <1>5, <2>1, <2>2 DEF Fit, Suits
    <3> QED BY <1>2, <1>3, <3>1, <3>2, <3>3, IdleSuits DEF Fit
  <2>3. CASE n # m
    BY <1>1, <1>2, <1>4, <2>1, <2>3 DEF Fit
  <2> QED BY <2>2, <2>3
<1> QED BY <1>8, <1>9 DEF Base, Fits

LEMMA DisturbTyped == ASSUME Base, NEW kind, Disturb(kind) \/ Undisturbed PROVE disturbed' \in 0..MaxDisturbed
BY Bounds DEF Base, TypeOK, Disturb, Undisturbed

\* Nothing of a handler's changes.
LEMMA QuietBase ==
    ASSUME Base, UNCHANGED <<message, jobVars, here>>, clock' \in 0..MaxClock, Shared'
    PROVE  Base'
<1>1. TypeOK'
    BY DEF Base, TypeOK, Shared, jobVars
<1>2. ASSUME NEW n \in Messages PROVE Fit(n)'
  <2>1. Run(n)' = Run(n) /\ Fit(n)
    BY DEF Run, jobVars, Base, Fits
  <2> QED BY <2>1 DEF Fit, jobVars
<1> QED BY <1>1, <1>2 DEF Base, Fits

LEMMA WorldBase ==
    ASSUME Base, Tick \/ (\E e \in Emails : Purge(e)) \/ (\E r \in Runs : Depart(r))
                 \/ \E m \in Messages : ExpireFile(m)
    PROVE  Base'
<1>1. CASE Tick
  <2>1. Shared'
    BY <1>1, SharedTyped DEF Tick, Shared, convVars, mailVars, historyVars
  <2>2. clock' \in 0..MaxClock
    BY <1>1, Bounds DEF Tick, Base, TypeOK
  <2> QED BY <1>1, <2>1, <2>2, QuietBase DEF Tick
<1>2. ASSUME NEW e \in Emails, Purge(e) PROVE Base'
  <2>1. Shared'
    BY <1>2, SharedTyped, DisturbTyped DEF Purge, Shared, convVars, historyVars
  <2>2. clock' \in 0..MaxClock
    BY <1>2 DEF Purge, Base, TypeOK, worldVars
  <2> QED BY <1>2, <2>1, <2>2, QuietBase DEF Purge, worldVars
<1>3. ASSUME NEW r \in Runs, Depart(r) PROVE Base'
  <2>1. Shared'
    BY <1>3, SharedTyped DEF Depart, Shared, convVars, historyVars, DraftStates
  <2>2. clock' \in 0..MaxClock
    BY <1>3 DEF Depart, Base, TypeOK, worldVars
  <2> QED BY <1>3, <2>1, <2>2, QuietBase DEF Depart, worldVars
<1>4. ASSUME NEW m \in Messages, ExpireFile(m) PROVE Base'
  <2>1. Shared'
    BY <1>4, SharedTyped DEF ExpireFile, Shared, convVars, historyVars
  <2>2. clock' \in 0..MaxClock
    BY <1>4 DEF ExpireFile, Base, TypeOK, worldVars
  <2> QED BY <1>4, <2>1, <2>2, QuietBase DEF ExpireFile, worldVars
<1> QED BY <1>1, <1>2, <1>3, <1>4

LEMMA TakeBase == ASSUME Base, NEW m \in Messages, TakeJob(m) PROVE Base'
<1>1. here \in [Messages -> Local] /\ job \in [Messages -> JobStates] /\ Fits
      /\ job[m] = "waiting" /\ UNCHANGED <<worldVars, tries, crashed>>
    BY DEF Base, TypeOK, TakeJob
<1>2. here[m] = Idle
    BY <1>1 DEF Fits, Fit, Suits
<1> DEFINE q == [Idle EXCEPT !.step = "touch"]
<1>3. q \in Local /\ q.step = "touch" /\ q.ask = NoAsk
    BY IdleSuits DEF Local, Steps
<1>4. here' = [here EXCEPT ![m] = q] /\ job' = [job EXCEPT ![m] = "active"]
    BY <1>1, <1>2 DEF TakeJob, Goto
<1> HIDE DEF q
<1>5. Shared'
    BY SharedTyped DEF TakeJob, Shared, convVars, mailVars, historyVars
<1>6. TypeOK'
    BY <1>1, <1>3, <1>4, <1>5 DEF Base, TypeOK, Shared, worldVars, JobStates
<1>7. ASSUME NEW n \in Messages PROVE Fit(n)'
  <2>1. Run(n)' = Run(n) /\ Fit(n) /\ message'[n] = message[n] /\ tries'[n] = tries[n]
    BY <1>1 DEF Run, Fits, worldVars
  <2>2. CASE n = m
    <3>1. here'[n] = q /\ job'[n] = "active"
        BY <1>1, <1>4, <2>2
    <3>2. message[n] # Silence /\ tries[n] < MaxAttempts /\ Said(message[n])
        BY <1>1, <2>1, <2>2 DEF Fit
    <3>3. Suits(q, message[n], Run(n))
        BY <1>3, <3>2 DEF Suits
    <3> QED BY <1>3, <2>1, <3>1, <3>2, <3>3 DEF Fit
  <2>3. CASE n # m
    <3>1. here'[n] = here[n] /\ job'[n] = job[n]
        BY <1>1, <1>4, <2>3
    <3> QED BY <2>1, <3>1 DEF Fit
  <2> QED BY <2>2, <2>3
<1> QED BY <1>6, <1>7 DEF Base, Fits

-----------------------------------------------------------------------------
(***************************************************************************)
(* How a handler ends.                                                     *)
(***************************************************************************)
LEMMA AtStep == ASSUME Base, NEW m \in Messages, here[m].step # "idle"
                PROVE  /\ job[m] = "active" /\ here[m] \in Local /\ message[m] \in Message
                       /\ Said(message[m]) /\ Suits(here[m], message[m], Run(m)) /\ message[m] # Silence
                       /\ Run(m) \in Runs /\ Run(m)[1] = m
<1>1. Fit(m) /\ here[m] \in Local /\ message[m] \in Message
    BY DEF Base, TypeOK, Fits
<1>2. job[m] = "active"
    BY <1>1 DEF Fit
<1> QED BY <1>1, <1>2, RunIsOne DEF Fit, Suits

LEMMA CompleteBase ==
    ASSUME Base, NEW m \in Messages, here[m].step # "idle", Complete(m), UNCHANGED worldVars, Shared'
    PROVE  Base'
<1>1. Leave(m, "completed") /\ UNCHANGED <<tries, crashed>> /\ job[m] = "active"
    BY AtStep DEF Complete
<1> QED BY <1>1, LeaveBase

LEMMA ThrowBase ==
    ASSUME Base, NEW m \in Messages, here[m].step # "idle", NEW retryable \in BOOLEAN, Throw(m, retryable),
           UNCHANGED worldVars, Shared'
    PROVE  Base'
<1>1. PICK state : state = IF retryable /\ tries[m] + 1 < MaxAttempts THEN "waiting" ELSE "dead"
    OBVIOUS
<1>2. Leave(m, state) /\ tries' = [tries EXCEPT ![m] = @ + 1] /\ crashed' = crashed /\ job[m] = "active"
    BY <1>1, AtStep DEF Throw
<1>3. state \in {"waiting", "dead"} /\ (state = "waiting" => tries[m] + 1 < MaxAttempts)
    BY <1>1
<1> QED BY <1>2, <1>3, LeaveBase

LEMMA CrashBase == ASSUME Base, NEW m \in Messages, Crash(m) PROVE Base'
<1>1. PICK state : state = IF m \in crashed THEN "dead" ELSE "waiting"
    OBVIOUS
<1>2. Leave(m, state) /\ UNCHANGED <<worldVars, tries>> /\ crashed' = crashed \cup {m} /\ job[m] = "active"
    BY <1>1 DEF Crash
<1>3. state \in {"waiting", "dead"}
    BY <1>1
<1>4. Shared'
    BY SharedTyped, DisturbTyped DEF Crash, Shared, convVars, mailVars, historyVars
<1> QED BY <1>2, <1>3, <1>4, LeaveBase

LEMMA StepFailsBase == ASSUME Base, NEW m \in Messages, StepFails(m) PROVE Base'
<1>1. here[m].step # "idle" /\ Throw(m, TRUE) /\ UNCHANGED worldVars
    BY DEF StepFails, OutsideAttempt
<1>2. Shared'
    BY SharedTyped, DisturbTyped DEF StepFails, Shared, convVars, mailVars, historyVars
<1> QED BY <1>1, <1>2, ThrowBase

-----------------------------------------------------------------------------
(***************************************************************************)
(* How a handler goes on.                                                  *)
(***************************************************************************)
LEMMA StepFields ==
    ASSUME NEW q \in Local, NEW s \in Steps
    PROVE  LET p == [q EXCEPT !.step = s] IN
           p \in Local /\ p.step = s /\ p.on = q.on /\ p.ask = q.ask /\ p.action = q.action /\ p.say = q.say
BY DEF Local

LEMMA GotoBase ==
    ASSUME Base, NEW m \in Messages, here[m].step # "idle", NEW s \in Steps \ {"idle"}, Goto(m, s),
           Suits([here[m] EXCEPT !.step = s], message[m], Run(m)), UNCHANGED <<worldVars, jobVars>>, Shared'
    PROVE  Base'
<1> DEFINE q == [here[m] EXCEPT !.step = s]
<1>1. here[m] \in Local /\ here \in [Messages -> Local]
    BY DEF Base, TypeOK
<1>2. q \in Local /\ q.step = s
    BY <1>1, StepFields
<1>3. here' = [here EXCEPT ![m] = q]
    BY <1>1 DEF Goto
<1>4. Suits(q, message[m], Run(m))
    OBVIOUS
<1> HIDE DEF q
<1> QED BY <1>2, <1>3, <1>4, HandlerBase

LEMMA SayBase ==
    ASSUME Base, NEW m \in Messages, here[m].step # "idle", NEW words \in Answers \ {"none", "echo", "card"},
           Say(m, words), UNCHANGED <<worldVars, jobVars>>, Shared'
    PROVE  Base'
<1> DEFINE q == [here[m] EXCEPT !.step = "answer", !.say = words]
<1>1. here[m] \in Local /\ here \in [Messages -> Local]
    BY DEF Base, TypeOK
<1>2. q \in Local /\ q.step = "answer" /\ q.say = words
    BY <1>1 DEF Local, Steps
<1>3. here' = [here EXCEPT ![m] = q]
    BY <1>1 DEF Say
<1>4. message[m] # Silence
    BY AtStep
<1> HIDE DEF q
<1>5. Suits(q, message[m], Run(m))
    BY <1>2, <1>4 DEF Suits
<1> QED BY <1>2, <1>3, <1>5, HandlerBase

\* Which step a command starts with.
LEMMA CommandSuits ==
    ASSUME Base, NEW m \in Messages, here[m].step # "idle", here[m].ask = NoAsk,
           message[m].kind = "file" => message[m].verb # "none"
    PROVE  /\ CommandStep(m) \in {"take", "subject", "query", "resolve"}
           /\ Suits([here[m] EXCEPT !.step = CommandStep(m)], message[m], Run(m))
<1> DEFINE s == CommandStep(m)
           q == [here[m] EXCEPT !.step = s]
<1>1. here[m] \in Local /\ message[m] # Silence /\ Said(message[m])
    BY AtStep
<1>2. s \in {"take", "subject", "query", "resolve"}
    BY DEF CommandStep
<1>3. q.step = s /\ q.ask = NoAsk
    BY <1>1, <1>2, StepFields DEF Steps
<1>4. s = "take" => message[m].kind = "tap"
    BY DEF CommandStep
<1>5. s = "subject" => message[m].kind = "tap" /\ message[m].about \in Emails
  <2>1. s = "subject" => message[m].kind = "tap" /\ message[m].about # COMPOSE
    BY DEF CommandStep
  <2>2. message[m].kind = "tap" => message[m].about \in Targets
    BY <1>1 DEF Said
  <2> QED BY <2>1, <2>2 DEF Targets
<1>6. s = "resolve" => Obeyed(message[m])
    BY <1>1 DEF CommandStep, Said, Obeyed
<1> HIDE DEF s, q
<1>7. Suits(q, message[m], Run(m))
    BY <1>1, <1>2, <1>3, <1>4, <1>5, <1>6 DEF Suits
<1> QED BY <1>2, <1>7 DEF s, q

\* And with what a handler begins that knows which email is meant.
LEMMA BeginBase ==
    ASSUME Base, NEW m \in Messages, here[m].step # "idle", here[m].ask = NoAsk, NEW e, Begin(m, e),
           \/ e \in Emails /\ (Obeyed(message[m]) \/ (message[m].kind = "tap" /\ message[m].about = e))
           \/ e = NoEmail /\ Obeyed(message[m]) /\ message[m].verb \in Untargeted,
           UNCHANGED <<worldVars, jobVars>>, Shared'
    PROVE  Base'
<1> DEFINE s == VerbStep(m)
           said == IF s = "answer" THEN VerbAnswer(m) ELSE here[m].say
           q == [here[m] EXCEPT !.step = s, !.on = e, !.say = said]
           w == message[m]
<1>1. here[m] \in Local /\ here \in [Messages -> Local] /\ w # Silence /\ Said(w)
    BY AtStep DEF Base, TypeOK
<1>2. Obeyed(w) \/ (w.kind = "tap" /\ w.verb \in TapVerbs)
    BY <1>1 DEF Said, Obeyed
<1>3. CASE Obeyed(w)
  <2>1. w.kind # "tap" /\ w.verb \in TypedVerbs \ {"search"} /\ s = PlanStep(w.verb)
    BY <1>3 DEF Obeyed, VerbStep
  <2>2. s \in {"compose", "ask", "act", "answer", "draft", "undo", "drop", "read"}
    BY <2>1 DEF PlanStep, TypedVerbs
  <2>3. /\ s = "compose" => w.verb = "reply" /\ e \in Emails
        /\ s = "ask" => w.verb \in {"forward", "compose"} /\ (w.verb = "forward" => e \in Emails)
        /\ s = "draft" => w.verb = "draft" /\ e \in Emails
        /\ s = "act" => e \in Emails
    BY <2>1 DEF PlanStep, TypedVerbs, Untargeted
  <2>4. s = "answer" => said \in {"cancelled", "done"}
    BY DEF VerbAnswer
  <2>5. e \in Targets \cup {NoEmail} /\ said \in Answers
    BY <1>1, <2>4 DEF Targets, Local, Answers
  <2> HIDE DEF s, said
  <2>6. q \in Local /\ q.step = s /\ q.on = e /\ q.say = said /\ q.ask = NoAsk
    BY <1>1, <2>2, <2>5 DEF Local, Steps
  <2>7. Suits(q, w, Run(m))
    <3> HIDE DEF q, w
    <3> QED BY <1>1, <2>1, <2>2, <2>3, <2>4, <2>6 DEF Suits, Dictated
  <2>8. here' = [here EXCEPT ![m] = q]
    BY <1>1 DEF Begin, s, said
  <2>9. q.step # "idle"
    BY <2>2, <2>6
  <2> HIDE DEF q
  <2> QED BY <2>6, <2>7, <2>8, <2>9, HandlerBase
<1>4. CASE w.kind = "tap" /\ w.verb \in TapVerbs /\ ~Obeyed(w)
  <2>1. s = TapStep(w.verb) /\ e \in Emails
    BY <1>4 DEF VerbStep
  <2>2. s \in {"take", "compose", "act", "withdraw", "undo", "answer"}
    BY <1>4, <2>1 DEF TapStep
  <2>3. s = "compose" => w.verb = "yes"
    BY <1>4, <2>1 DEF TapStep
  <2>4. s = "answer" => said \in {"cancelled", "done"}
    BY DEF VerbAnswer
  <2>5. e \in Targets \cup {NoEmail} /\ said \in Answers
    BY <1>1, <2>1, <2>4 DEF Targets, Local, Answers
  <2> HIDE DEF s, said
  <2>6. q \in Local /\ q.step = s /\ q.on = e /\ q.say = said /\ q.ask = NoAsk
    BY <1>1, <2>2, <2>5 DEF Local, Steps
  <2>7. Suits(q, w, Run(m))
    <3> HIDE DEF q, w
    <3> QED BY <1>1, <1>4, <2>1, <2>2, <2>3, <2>4, <2>6 DEF Suits, Dictated
  <2>8. here' = [here EXCEPT ![m] = q]
    BY <1>1 DEF Begin, s, said
  <2>9. q.step # "idle"
    BY <2>2, <2>6
  <2> HIDE DEF q
  <2> QED BY <2>6, <2>7, <2>8, <2>9, HandlerBase
<1> QED BY <1>2, <1>3, <1>4

-----------------------------------------------------------------------------
(***************************************************************************)
(* The steps of a handler.                                                 *)
(***************************************************************************)
\* Those that only answer.
LEMMA SaysBase ==
    ASSUME Base, NEW m \in Messages,
           \/ AttemptFails(m) \/ AnswerQuery(m) \/ Read(m) \/ ComposeFails(m) \/ ActFails(m)
           \/ Withdraw(m) \/ Drop(m) \/ Remember(m)
    PROVE  Base'
<1>1. here[m].step # "idle" /\ UNCHANGED <<worldVars, jobVars>>
    BY DEF AttemptFails, InsideAttempt, AnswerQuery, Read, ComposeFails, ActFails, Withdraw, Drop, Remember, At
<1>2. \E words \in {"error", "done", "cancelled", "sending"} : Say(m, words)
    BY DEF AttemptFails, AnswerQuery, Read, ComposeFails, ActFails, Withdraw, Drop, Remember
<1>3. Shared'
  <2>1. CASE AttemptFails(m) \/ AnswerQuery(m) \/ Read(m) \/ ComposeFails(m) \/ ActFails(m)
    <3>1. disturbed' \in 0..MaxDisturbed
      <4>1. CASE AttemptFails(m)
        BY <4>1, DisturbTyped DEF AttemptFails
      <4>2. CASE AnswerQuery(m) \/ Read(m) \/ ComposeFails(m) \/ ActFails(m)
        BY <4>2, SharedTyped DEF AnswerQuery, Read, ComposeFails, ActFails, Shared
      <4> QED BY <2>1, <4>1, <4>2
    <3>2. UNCHANGED <<convVars, mailVars, historyVars>>
        BY <2>1 DEF AttemptFails, AnswerQuery, Read, ComposeFails, ActFails
    <3> QED BY <3>1, <3>2, SharedTyped DEF Shared, convVars, mailVars, historyVars
  <2>2. CASE Withdraw(m)
    BY <2>2, SharedTyped DEF Withdraw, Shared, mailVars, historyVars
  <2>3. CASE Drop(m)
    BY <2>3, SharedTyped DEF Drop, Shared, convVars, historyVars
  <2>4. CASE Remember(m)
    <3>1. here[m].action \in Actions
        BY <1>1, <2>4, AtStep DEF Remember, At, Suits
    <3>2. last' \in Actions \cup {NoAction}
        BY <2>4, <3>1, SharedTyped DEF Remember, Shared
    <3>3. disturbed' \in 0..MaxDisturbed
        BY <2>4, DisturbTyped DEF Remember
    <3> QED BY <2>4, <3>2, <3>3, SharedTyped DEF Remember, Shared, mailVars, historyVars
  <2> QED BY <2>1, <2>2, <2>3, <2>4
<1> QED BY <1>1, <1>2, <1>3, SayBase DEF Answers

\* How many emails there are and which of them are shown does not matter here.
LEMMA ResolutionTyped == ASSUME Base, NEW m \in Messages PROVE Resolution(m) \in Emails \cup {NoEmail}
<1>1. Cardinality(Recent) = 1 => (CHOOSE e \in Recent : TRUE) \in Emails
  <2>1. Cardinality({}) = 0
    BY FS_EmptySet
  <2> QED BY <2>1 DEF Recent
<1> QED BY <1>1 DEF Resolution, Quoted, Base, TypeOK

LEMMA TouchBase == ASSUME Base, NEW m \in Messages, Touch(m) PROVE Base'
<1> DEFINE s == CASE message[m].kind = "voice" -> "listen"
                  [] message[m].kind = "file"  -> "measure"
                  [] OTHER                     -> CommandStep(m)
<1>1. here[m].step = "touch" /\ Goto(m, s) /\ UNCHANGED <<worldVars, jobVars>> /\ expires' = message[m].at + 1
    BY DEF Touch, At
<1>2. here[m] \in Local /\ message[m] # Silence /\ message[m] \in Message /\ here[m].ask = NoAsk
    BY <1>1, AtStep DEF Suits
<1>3. Shared'
  <2>1. expires' \in 0..MaxClock + 1
    BY <1>1, <1>2, Bounds DEF Message
  <2> QED BY <2>1, SharedTyped DEF Touch, Shared, mailVars, historyVars
<1>4. CASE message[m].kind = "voice" \/ message[m].kind = "file"
  <2>1. (s = "listen" /\ message[m].kind = "voice") \/ (s = "measure" /\ message[m].kind = "file")
    BY <1>4
  <2> DEFINE q == [here[m] EXCEPT !.step = s]
  <2>2. s \in Steps /\ s # "idle"
    BY <2>1 DEF Steps
  <2> HIDE DEF s
  <2>3. q.step = s /\ q.ask = NoAsk
    BY <1>2, <2>2, StepFields
  <2> HIDE DEF q
  <2>4. Suits(q, message[m], Run(m))
    BY <1>2, <2>1, <2>3 DEF Suits
  <2> QED BY <1>1, <1>3, <2>2, <2>4, GotoBase DEF q
<1>5. CASE message[m].kind # "voice" /\ message[m].kind # "file"
  <2>1. s = CommandStep(m)
    BY <1>5
  <2>2. /\ CommandStep(m) \in {"take", "subject", "query", "resolve"}
        /\ Suits([here[m] EXCEPT !.step = CommandStep(m)], message[m], Run(m))
    BY <1>1, <1>2, <1>5, CommandSuits
  <2>3. CommandStep(m) \in Steps \ {"idle"} /\ Goto(m, CommandStep(m))
    BY <1>1, <2>1, <2>2 DEF Steps
  <2> QED BY <1>1, <1>3, <2>2, <2>3, GotoBase
<1> QED BY <1>4, <1>5

LEMMA ListenBase == ASSUME Base, NEW m \in Messages, Listen(m) PROVE Base'
<1> DEFINE q == [here[m] EXCEPT !.step = "answer", !.say = "echo"]
<1>1. here[m].step = "listen" /\ here' = [here EXCEPT ![m] = q] /\ UNCHANGED <<worldVars, jobVars>>
    BY DEF Listen, At, Say, Base, TypeOK
<1>2. here[m] \in Local /\ message[m] # Silence /\ message[m].kind = "voice" /\ here[m].ask = NoAsk
    BY <1>1, AtStep DEF Suits
<1>3. q \in Local /\ q.step = "answer" /\ q.say = "echo" /\ q.ask = NoAsk
    BY <1>2 DEF Local, Steps, Answers
<1> HIDE DEF q
<1>4. Suits(q, message[m], Run(m))
    BY <1>2, <1>3 DEF Suits
<1>5. Shared'
    BY SharedTyped DEF Listen, Shared, convVars, mailVars, historyVars
<1> QED BY <1>1, <1>3, <1>4, <1>5, HandlerBase

LEMMA MeasureBase == ASSUME Base, NEW m \in Messages, Measure(m) PROVE Base'
<1>1. here[m].step = "measure" /\ UNCHANGED <<worldVars, jobVars>> /\ (Say(m, "refused") \/ Goto(m, "stage"))
    BY DEF Measure, At
<1>2. here[m] \in Local /\ message[m] # Silence /\ message[m].kind = "file" /\ here[m].ask = NoAsk
    BY <1>1, AtStep DEF Suits
<1>3. Shared'
    BY SharedTyped DEF Measure, Shared, convVars, mailVars, historyVars
<1>4. CASE Say(m, "refused")
    BY <1>1, <1>3, <1>4, SayBase DEF Answers
<1>5. CASE Goto(m, "stage")
  <2> DEFINE q == [here[m] EXCEPT !.step = "stage"]
  <2>1. q.step = "stage" /\ q.ask = NoAsk
    BY <1>2
  <2> HIDE DEF q
  <2>2. Suits(q, message[m], Run(m))
    BY <1>2, <2>1 DEF Suits
  <2> QED BY <1>1, <1>3, <1>5, <2>2, GotoBase DEF q, Steps
<1> QED BY <1>1, <1>4, <1>5

LEMMA StageBase == ASSUME Base, NEW m \in Messages, Stage(m) PROVE Base'
<1>1. here[m].step = "stage" /\ UNCHANGED worldVars
    BY DEF Stage, At
<1>2. here[m] \in Local /\ message[m] # Silence /\ message[m].kind = "file" /\ here[m].ask = NoAsk
    BY <1>1, AtStep DEF Suits
<1>3. Shared'
    BY SharedTyped DEF Stage, Shared, convVars, historyVars
<1>4. CASE file[m] # "none"
    BY <1>1, <1>3, <1>4, CompleteBase DEF Stage
<1>5. CASE file[m] = "none" /\ message[m].verb = "none"
    BY <1>1, <1>3, <1>5, SayBase DEF Stage, Answers
<1>6. CASE file[m] = "none" /\ message[m].verb # "none"
  <2>1. /\ CommandStep(m) \in {"take", "subject", "query", "resolve"}
        /\ Suits([here[m] EXCEPT !.step = CommandStep(m)], message[m], Run(m))
    BY <1>1, <1>2, <1>6, CommandSuits
  <2>2. Goto(m, CommandStep(m)) /\ UNCHANGED jobVars
    BY <1>6 DEF Stage
  <2> QED BY <1>1, <1>3, <2>1, <2>2, GotoBase DEF Steps
<1> QED BY <1>4, <1>5, <1>6

\* Going on to the email that is meant.
LEMMA ToFocusBase ==
    ASSUME Base, NEW m \in Messages, here[m].step # "idle", here[m].ask = NoAsk, NEW e \in Emails,
           here' = [here EXCEPT ![m].step = "focus", ![m].on = e],
           Obeyed(message[m]) \/ (message[m].kind = "tap" /\ message[m].about = e),
           UNCHANGED <<worldVars, jobVars>>, Shared'
    PROVE  Base'
<1> DEFINE q == [here[m] EXCEPT !.step = "focus", !.on = e]
<1>1. here[m] \in Local /\ message[m] # Silence /\ here \in [Messages -> Local]
    BY AtStep DEF Base, TypeOK
<1>2. q \in Local /\ q.step = "focus" /\ q.on = e /\ q.ask = NoAsk /\ here' = [here EXCEPT ![m] = q]
    BY <1>1 DEF Local, Steps, Targets
<1> HIDE DEF q
<1>3. Suits(q, message[m], Run(m))
    BY <1>1, <1>2 DEF Suits
<1> QED BY <1>2, <1>3, HandlerBase

LEMMA ResolveBase == ASSUME Base, NEW m \in Messages, Resolve(m) PROVE Base'
<1>1. here[m].step = "resolve" /\ UNCHANGED <<worldVars, jobVars, convVars, mailVars, historyVars>>
    BY DEF Resolve, At
<1>2. Obeyed(message[m]) /\ here[m].ask = NoAsk
    BY <1>1, AtStep DEF Suits
<1>3. disturbed' \in 0..MaxDisturbed
  <2>1. Undisturbed \/ Disturb("service")
    BY DEF Resolve
  <2> QED BY <2>1, DisturbTyped
<1>4. Shared'
    BY <1>1, <1>3, SharedTyped DEF Shared, convVars, mailVars, historyVars
<1> DEFINE e == Resolution(m)
<1>5. e \in Emails \cup {NoEmail}
    BY ResolutionTyped
<1>6. \/ e # NoEmail /\ here' = [here EXCEPT ![m].step = "focus", ![m].on = e]
      \/ e = NoEmail /\ message[m].verb \in Untargeted /\ Begin(m, e)
      \/ Say(m, "which") \/ Say(m, "error")
    BY DEF Resolve
<1> HIDE DEF e
<1>7. CASE e # NoEmail /\ here' = [here EXCEPT ![m].step = "focus", ![m].on = e]
    BY <1>1, <1>2, <1>4, <1>5, <1>7, ToFocusBase
<1>8. CASE e = NoEmail /\ message[m].verb \in Untargeted /\ Begin(m, e)
    BY <1>1, <1>2, <1>4, <1>8, BeginBase
<1>9. CASE Say(m, "which") \/ Say(m, "error")
    BY <1>1, <1>4, <1>9, SayBase DEF Answers
<1> QED BY <1>6, <1>7, <1>8, <1>9

LEMMA FindSubjectBase == ASSUME Base, NEW m \in Messages, FindSubject(m) PROVE Base'
<1>1. here[m].step = "subject" /\ UNCHANGED <<worldVars, jobVars>>
    BY DEF FindSubject, At
<1>2. message[m].kind = "tap" /\ message[m].about \in Emails /\ here[m].ask = NoAsk
    BY <1>1, AtStep DEF Suits
<1>3. Shared'
    BY SharedTyped DEF FindSubject, Shared, convVars, mailVars, historyVars
<1>4. CASE Say(m, "gone")
    BY <1>1, <1>3, <1>4, SayBase DEF Answers
<1>5. CASE here' = [here EXCEPT ![m].step = "focus", ![m].on = message[m].about]
    BY <1>1, <1>2, <1>3, <1>5, ToFocusBase
<1> QED BY <1>4, <1>5 DEF FindSubject

LEMMA FocusBase == ASSUME Base, NEW m \in Messages, Focus(m) PROVE Base'
<1>1. here[m].step = "focus" /\ UNCHANGED <<worldVars, jobVars>> /\ Begin(m, here[m].on)
    BY DEF Focus, At
<1>2. /\ here[m].on \in Emails /\ here[m].ask = NoAsk /\ message[m] \in Message
      /\ Obeyed(message[m]) \/ (message[m].kind = "tap" /\ message[m].about = here[m].on)
    BY <1>1, AtStep DEF Suits
<1>3. expires' \in 0..MaxClock + 1
    BY <1>2, Bounds DEF Focus, Message
<1>4. Shared'
    BY <1>2, <1>3, SharedTyped DEF Focus, Shared, mailVars, historyVars
<1> QED BY <1>1, <1>2, <1>4, BeginBase

LEMMA QuestionTyped ==
    ASSUME Base, NEW m \in Messages, here[m].step \in {"ask", "draft"}
    PROVE  Question(m) \in Asks /\ Question(m).run = Run(m)
<1>1. Run(m) \in Runs /\ Suits(here[m], message[m], Run(m))
    BY AtStep
<1>2. Question(m).kind \in {"reply", "forward", "compose"} /\ Question(m).about \in Targets
    BY <1>1 DEF Question, Suits, Targets
<1> QED BY <1>1, <1>2 DEF Question, Asks

LEMMA AsksBase == ASSUME Base, NEW m \in Messages, Ask(m) \/ Draft(m) PROVE Base'
<1> DEFINE ask == Question(m)
           q == [here[m] EXCEPT !.step = "answer", !.ask = ask, !.say = "card"]
<1>1. here[m].step \in {"ask", "draft"} /\ UNCHANGED <<worldVars, jobVars>> /\ here' = [here EXCEPT ![m] = q]
    BY DEF Ask, Draft, At, ShowCard, Base, TypeOK
<1>2. here[m] \in Local /\ message[m] # Silence /\ ask \in Asks
    BY <1>1, AtStep, QuestionTyped
<1>3. Shared'
  <2>1. put' = put \cup {ask} /\ slot' = ask
    BY DEF Ask, Draft, SetPending
  <2> HIDE DEF ask
  <2> QED BY <1>2, <2>1, SharedTyped DEF Ask, Draft, Shared, mailVars
<1> HIDE DEF ask
<1>4. q \in Local /\ q.step = "answer" /\ q.say = "card" /\ q.ask = ask
    BY <1>2 DEF Local, Steps, Answers
<1> HIDE DEF q
<1>5. Suits(q, message[m], Run(m))
    BY <1>2, <1>4 DEF Suits
<1> QED BY <1>1, <1>3, <1>4, <1>5, HandlerBase

LEMMA TakesBase == ASSUME Base, NEW m \in Messages, Take(m) PROVE Base'
<1>1. here[m].step = "take" /\ UNCHANGED <<worldVars, jobVars>>
    BY DEF Take, At
<1>2. here[m] \in Local /\ message[m] # Silence /\ message[m].kind = "tap" /\ here \in [Messages -> Local]
    BY <1>1, AtStep DEF Suits, Base, TypeOK
<1>3. Shared'
    BY SharedTyped DEF Take, Shared, convVars, mailVars, historyVars
<1>4. CASE TookNothing(m)
  <2>1. Say(m, "expired") \/ Say(m, "cancelled")
    BY <1>4 DEF TookNothing
  <2> QED BY <1>1, <1>3, <2>1, SayBase DEF Answers
<1>5. CASE slot # NoAsk /\ here' = [here EXCEPT ![m].step = "clear", ![m].ask = slot]
  <2> DEFINE q == [here[m] EXCEPT !.step = "clear", !.ask = slot]
  <2>1. slot \in Asks
    BY <1>5 DEF Base, TypeOK
  <2>2. q \in Local /\ q.step = "clear" /\ q.ask = slot /\ here' = [here EXCEPT ![m] = q]
    BY <1>2, <1>5, <2>1 DEF Local, Steps
  <2> HIDE DEF q
  <2>3. Suits(q, message[m], Run(m))
    BY <1>2, <2>1, <2>2 DEF Suits
  <2> QED BY <1>1, <1>3, <2>2, <2>3, HandlerBase
<1> QED BY <1>4, <1>5 DEF Take

LEMMA ClearBase == ASSUME Base, NEW m \in Messages, Clear(m) PROVE Base'
<1>1. here[m].step = "clear" /\ UNCHANGED <<worldVars, jobVars>>
    BY DEF Clear, At
<1>2. here[m] \in Local /\ message[m] # Silence /\ message[m].kind = "tap" /\ here[m].ask \in Asks
    BY <1>1, AtStep DEF Suits
<1>3. Shared'
    BY SharedTyped DEF Clear, Shared, mailVars, historyVars
<1>4. CASE TookNothing(m)
  <2>1. Say(m, "expired") \/ Say(m, "cancelled")
    BY <1>4 DEF TookNothing
  <2> QED BY <1>1, <1>3, <2>1, SayBase DEF Answers
<1>5. CASE message[m].verb = "send" /\ here[m].ask.about = message[m].about /\ Goto(m, "compose")
  <2> DEFINE q == [here[m] EXCEPT !.step = "compose"]
  <2>1. q.step = "compose" /\ q.ask = here[m].ask
    BY <1>2
  <2> HIDE DEF q
  <2>2. Suits(q, message[m], Run(m))
    BY <1>2, <1>5, <2>1 DEF Suits, Confirmed
  <2> QED BY <1>1, <1>3, <1>5, <2>2, GotoBase DEF q, Steps
<1> QED BY <1>4, <1>5 DEF Clear

LEMMA ComposeBase == ASSUME Base, NEW m \in Messages, Compose(m) PROVE Base'
<1>1. here[m].step = "compose" /\ UNCHANGED <<worldVars, jobVars>> /\ Goto(m, "enqueue")
    BY DEF Compose, At
<1>2. here[m] \in Local /\ Suits(here[m], message[m], Run(m)) /\ message[m] # Silence /\ Run(m) \in Runs
    BY <1>1, AtStep
<1>3. here[m].ask \in Asks \cup {NoAsk} /\ ((here[m].ask = NoAsk /\ Dictated(message[m]) /\ here[m].on \in Emails) \/ Confirmed(here[m].ask, message[m]))
    BY <1>1, <1>2 DEF Suits, Local
<1>4. Shared'
  <2>1. drafts' \in [Runs -> [words : Asks \cup {NoAsk}, state : DraftStates]]
    BY <1>2, <1>3, SharedTyped DEF Compose, Shared, DraftStates
  <2>2. file' \in [Messages -> {"none", "held", "carried", "expired"}]
    BY SharedTyped DEF Compose, Shared
  <2> QED BY <2>1, <2>2, SharedTyped DEF Compose, Shared, convVars, historyVars
<1> DEFINE q == [here[m] EXCEPT !.step = "enqueue"]
<1>5. q.step = "enqueue" /\ q.ask = here[m].ask /\ q.on = here[m].on
    BY <1>2
<1> HIDE DEF q
<1>6. Suits(q, message[m], Run(m))
    BY <1>2, <1>3, <1>5 DEF Suits
<1> QED BY <1>1, <1>4, <1>6, GotoBase DEF q, Steps

\* Going on to write down what was done.
LEMMA ToRememberBase ==
    ASSUME Base, NEW m \in Messages, here[m].step # "idle", NEW action \in Actions, action.run = Run(m),
           here' = [here EXCEPT ![m].step = "remember", ![m].action = action],
           UNCHANGED <<worldVars, jobVars>>, Shared'
    PROVE  Base'
<1> DEFINE q == [here[m] EXCEPT !.step = "remember", !.action = action]
<1>1. here[m] \in Local /\ message[m] # Silence /\ here \in [Messages -> Local]
    BY AtStep DEF Base, TypeOK
<1>2. q \in Local /\ q.step = "remember" /\ q.action = action /\ here' = [here EXCEPT ![m] = q]
    BY <1>1 DEF Local, Steps
<1> HIDE DEF q
<1>3. Suits(q, message[m], Run(m))
    BY <1>1, <1>2 DEF Suits
<1> QED BY <1>2, <1>3, HandlerBase

LEMMA DoneTyped ==
    ASSUME Base, NEW m \in Messages, here[m].step # "idle", NEW verb \in {"archive", "delete", "send"},
           NEW target \in Targets
    PROVE  Done(m, verb, target) \in Actions /\ Done(m, verb, target).run = Run(m)
BY AtStep DEF Done, Actions, Base, TypeOK

LEMMA EnqueueBase == ASSUME Base, NEW m \in Messages, Enqueue(m) PROVE Base'
<1>1. here[m].step = "enqueue" /\ UNCHANGED <<worldVars, jobVars>>
    BY DEF Enqueue, At
<1>2. Suits(here[m], message[m], Run(m)) /\ Run(m) \in Runs
    BY <1>1, AtStep
<1>3. Shared'
  <2>1. drafts' \in [Runs -> [words : Asks \cup {NoAsk}, state : DraftStates]]
    BY <1>2, SharedTyped DEF Enqueue, Shared, DraftStates
  <2> QED BY <2>1, SharedTyped DEF Enqueue, Shared, convVars, historyVars
<1>4. CASE Say(m, "sending")
    BY <1>1, <1>3, <1>4, SayBase DEF Answers
<1>5. CASE ~Say(m, "sending")
  <2> DEFINE action == Done(m, "send", RecordedAbout(m))
  <2>1. here' = [here EXCEPT ![m].step = "remember", ![m].action = action]
    BY <1>5 DEF Enqueue
  <2>2. RecordedAbout(m) \in Targets
    BY <1>1, <1>2, AskIsNone DEF RecordedAbout, Targets, Suits, Confirmed
  <2>3. action \in Actions /\ action.run = Run(m)
    BY <1>1, <2>2, DoneTyped
  <2> HIDE DEF action
  <2> QED BY <1>1, <1>3, <2>1, <2>3, ToRememberBase
<1> QED BY <1>4, <1>5

LEMMA ActBase == ASSUME Base, NEW m \in Messages, Act(m) PROVE Base'
<1> DEFINE action == Done(m, Operation(m), here[m].on)
<1>1. here[m].step = "act" /\ UNCHANGED <<worldVars, jobVars>>
      /\ here' = [here EXCEPT ![m].step = "remember", ![m].action = action]
    BY DEF Act, At
<1>2. here[m].on \in Emails
    BY <1>1, AtStep DEF Suits
<1>3. Operation(m) \in {"archive", "delete"} /\ here[m].on \in Targets
    BY <1>2 DEF Operation, Targets
<1>4. action \in Actions /\ action.run = Run(m)
    BY <1>1, <1>3, DoneTyped
<1>5. Shared'
  <2>1. place' \in [Emails -> {"inbox", "archived", "trash", "gone"}]
    BY SharedTyped DEF Act, Shared
  <2> QED BY <2>1, SharedTyped DEF Act, Shared, convVars, historyVars
<1> HIDE DEF action
<1> QED BY <1>1, <1>4, <1>5, ToRememberBase

LEMMA UndoBase == ASSUME Base, NEW m \in Messages, Undo(m) PROVE Base'
<1>1. here[m].step = "undo" /\ UNCHANGED <<worldVars, jobVars>>
    BY DEF Undo, At
<1>2. here[m] \in Local /\ message[m] # Silence /\ here[m].ask = NoAsk /\ here \in [Messages -> Local]
    BY <1>1, AtStep DEF Suits, Base, TypeOK
<1>3. Shared'
    BY SharedTyped DEF Undo, Shared, convVars, mailVars, historyVars
<1>4. CASE Say(m, "nothing")
    BY <1>1, <1>3, <1>4, SayBase DEF Answers
<1>5. CASE last # NoAction /\ here' = [here EXCEPT ![m].step = "undoClear", ![m].action = last]
  <2> DEFINE q == [here[m] EXCEPT !.step = "undoClear", !.action = last]
  <2>1. last \in Actions
    BY <1>5 DEF Base, TypeOK
  <2>2. q \in Local /\ q.step = "undoClear" /\ q.action = last /\ q.ask = NoAsk /\ here' = [here EXCEPT ![m] = q]
    BY <1>2, <1>5, <2>1 DEF Local, Steps
  <2> HIDE DEF q
  <2>3. Suits(q, message[m], Run(m))
    BY <1>2, <2>1, <2>2 DEF Suits
  <2> QED BY <1>1, <1>3, <2>2, <2>3, HandlerBase
<1> QED BY <1>4, <1>5 DEF Undo

LEMMA UndoClearBase == ASSUME Base, NEW m \in Messages, UndoClear(m) PROVE Base'
<1>1. here[m].step = "undoClear" /\ UNCHANGED <<worldVars, jobVars>>
    BY DEF UndoClear, At
<1>2. here[m] \in Local /\ message[m] # Silence /\ here[m].ask = NoAsk /\ here[m].action \in Actions
    BY <1>1, AtStep DEF Suits
<1>3. Shared'
    BY SharedTyped DEF UndoClear, Shared, mailVars, historyVars
<1>4. CASE Say(m, "late")
    BY <1>1, <1>3, <1>4, SayBase DEF Answers
<1>5. CASE Goto(m, "reverse")
  <2> DEFINE q == [here[m] EXCEPT !.step = "reverse"]
  <2>1. q.step = "reverse" /\ q.action = here[m].action /\ q.ask = NoAsk
    BY <1>2
  <2> HIDE DEF q
  <2>2. Suits(q, message[m], Run(m))
    BY <1>2, <2>1 DEF Suits
  <2> QED BY <1>1, <1>3, <1>5, <2>2, GotoBase DEF q, Steps
<1> QED BY <1>4, <1>5 DEF UndoClear

LEMMA ReverseBase == ASSUME Base, NEW m \in Messages, Stop(m) \/ PutBack(m) PROVE Base'
<1>1. here[m].step = "reverse" /\ UNCHANGED <<worldVars, jobVars>>
    BY DEF Stop, PutBack, At
<1>2. here[m].action.run \in Runs
    BY <1>1, AtStep DEF Suits, Actions
<1>3. \E words \in {"done", "already", "error"} : Say(m, words)
    BY DEF Stop, PutBack
<1>4. Shared'
  <2>1. reversed' \in [Runs -> Nat]
    BY <1>2, SharedTyped DEF Stop, PutBack, Shared
  <2>2. drafts' \in [Runs -> [words : Asks \cup {NoAsk}, state : DraftStates]]
    BY <1>2, SharedTyped DEF Stop, PutBack, Shared, DraftStates
  <2>3. place' \in [Emails -> {"inbox", "archived", "trash", "gone"}]
    BY SharedTyped DEF Stop, PutBack, Shared
  <2> QED BY <2>1, <2>2, <2>3, SharedTyped DEF Stop, PutBack, Shared, convVars
<1> QED BY <1>1, <1>3, <1>4, SayBase DEF Answers

LEMMA SeenTyped ==
    ASSUME Base, NEW m \in Messages, here[m].step = "answer", Seen(m) \/ UNCHANGED <<cards, heard>>
    PROVE  cards' \subseteq Asks /\ heard' \in [Messages -> SUBSET Answers]
<1>1. here[m] \in Local /\ (here[m].say = "card" => here[m].ask \in Asks)
    BY AtStep DEF Suits
<1>2. here[m].say \in Answers
    BY <1>1 DEF Local
<1> QED BY <1>1, <1>2, SharedTyped DEF Seen, Shared

LEMMA AnswerBase == ASSUME Base, NEW m \in Messages, Answer(m) PROVE Base'
<1>1. here[m].step = "answer" /\ UNCHANGED worldVars
    BY DEF Answer, At
<1>2. Shared'
    BY <1>1, SeenTyped, SharedTyped DEF Answer, Shared, convVars, mailVars
<1>3. CASE here[m].say = "echo"
  <2>1. here[m].ask = NoAsk /\ message[m].kind = "voice"
    BY <1>1, <1>3, AtStep DEF Suits
  <2>2. /\ CommandStep(m) \in {"take", "subject", "query", "resolve"}
        /\ Suits([here[m] EXCEPT !.step = CommandStep(m)], message[m], Run(m))
    BY <1>1, <2>1, CommandSuits
  <2>3. Goto(m, CommandStep(m)) /\ UNCHANGED jobVars
    BY <1>3 DEF Answer
  <2> QED BY <1>1, <1>2, <2>2, <2>3, GotoBase DEF Steps
<1>4. CASE here[m].say # "echo"
    BY <1>1, <1>2, <1>4, CompleteBase DEF Answer
<1> QED BY <1>3, <1>4

LEMMA AnswerFailsBase == ASSUME Base, NEW m \in Messages, AnswerFails(m) \/ AnswerDangles(m) PROVE Base'
<1>1. here[m].step = "answer" /\ UNCHANGED worldVars
    BY DEF AnswerFails, AnswerDangles, At
<1>2. \E retryable \in BOOLEAN : Throw(m, retryable)
    BY DEF AnswerFails, AnswerDangles
<1>3. disturbed' \in 0..MaxDisturbed
  <2>1. Disturb("whatsapp") \/ Disturb("record") \/ Undisturbed
    BY DEF AnswerFails, AnswerDangles
  <2> QED BY <2>1, DisturbTyped
<1>4. cards' \subseteq Asks /\ heard' \in [Messages -> SUBSET Answers]
    BY <1>1, SeenTyped DEF AnswerFails, AnswerDangles
<1>5. Shared'
    BY <1>3, <1>4, SharedTyped DEF AnswerFails, AnswerDangles, Shared, convVars, mailVars
<1> QED BY <1>1, <1>2, <1>5, ThrowBase

LEMMA HandleBase == ASSUME Base, NEW m \in Messages, Handle(m) PROVE Base'
BY TouchBase, ListenBase, MeasureBase, StageBase, SaysBase, ResolveBase, FindSubjectBase, FocusBase,
   AsksBase, TakesBase, ClearBase, ComposeBase, EnqueueBase, ActBase, UndoBase, UndoClearBase,
   ReverseBase, AnswerBase, AnswerFailsBase DEF Handle

LEMMA BaseNext == Base /\ [Next]_vars => Base'
<1> SUFFICES ASSUME Base, [Next]_vars PROVE Base'
    OBVIOUS
<1>1. CASE UNCHANGED vars
  <2>1. Shared' /\ clock' \in 0..MaxClock
    BY <1>1, SharedTyped DEF Shared, Base, TypeOK, vars, worldVars, convVars, mailVars, historyVars
  <2> QED BY <1>1, <2>1, QuietBase DEF vars, worldVars
<1>2. CASE Next
  <2>1. ASSUME NEW m \in Messages, StepFails(m) \/ AttemptFails(m) \/ AnswerFails(m) \/ Handle(m) PROVE Base'
    BY <2>1, StepFailsBase, SaysBase, AnswerFailsBase, HandleBase
  <2>2. ASSUME NEW m \in Messages, Receive(m) \/ ExpireFile(m) \/ TakeJob(m) \/ Crash(m) PROVE Base'
    BY <2>2, ReceiveBase, WorldBase, TakeBase, CrashBase
  <2> QED BY <1>2, <2>1, <2>2, WorldBase DEF Next
<1> QED BY <1>1, <1>2

LEMMA BaseHolds == Spec => []Base
BY BaseInit, BaseNext, PTL DEF Spec

\* A conversation's variables keep their types: what a handler holds is what its step needs, and the
\* row of the conversation refers to an email, a question or an action of the instance or to none.
THEOREM TypesHold == Spec => []TypeOK
<1>1. Base => TypeOK
    BY DEF Base
<1> QED BY <1>1, BaseHolds, PTL

-----------------------------------------------------------------------------
(***************************************************************************)
(* A step is one message's, or is nobody's.                                *)
(***************************************************************************)
Own(m) == Receive(m) \/ TakeJob(m) \/ Crash(m) \/ StepFails(m) \/ AttemptFails(m) \/ AnswerFails(m) \/ Handle(m)

Beside == Tick \/ (\E e \in Emails : Purge(e)) \/ (\E r \in Runs : Depart(r)) \/ \E m \in Messages : ExpireFile(m)

\* The handler goes on, or it ends and its job with it or for now.
Going(m) == here[m].step # "idle" /\ UNCHANGED <<message, jobVars>> /\ here' = [here EXCEPT ![m] = here'[m]]

Ending(m) ==
    /\ here[m].step # "idle" /\ UNCHANGED message /\ here' = [here EXCEPT ![m] = Idle]
    /\ \/ /\ job' = [job EXCEPT ![m] = "completed"] /\ UNCHANGED <<tries, crashed>>
          /\ (here[m].step = "answer" /\ here[m].say # "echo" /\ Seen(m)) \/ (here[m].step = "stage" /\ file[m] # "none")
       \/ /\ \E state \in {"waiting", "dead"} : job' = [job EXCEPT ![m] = state]
          /\ tries' = [tries EXCEPT ![m] = @ + 1] /\ UNCHANGED crashed
       \/ /\ m \notin crashed /\ crashed' = crashed \cup {m} /\ job' = [job EXCEPT ![m] = "waiting"]
          /\ UNCHANGED tries
       \/ job' = [job EXCEPT ![m] = "dead"] /\ UNCHANGED <<tries, crashed>>

LEMMA NextCases == [Next]_vars => UNCHANGED vars \/ Beside \/ \E m \in Messages : Own(m)
BY DEF Next, Beside, Own

LEMMA BesideStill == Beside => UNCHANGED <<message, jobVars, here, convVars, historyVars>>
BY DEF Beside, Tick, Purge, Depart, ExpireFile, worldVars

LEMMA OwnIs ==
    ASSUME Base, Base', NEW m \in Messages, Own(m)
    PROVE  Receive(m) \/ TakeJob(m) \/ Going(m) \/ Ending(m)
<1>1. here \in [Messages -> Local]
    BY DEF Base, TypeOK
<1>2. CASE Crash(m)
  <2>1. here[m].step # "idle"
    BY <1>2 DEF Crash, Base, Fits, Fit
  <2>2. Leave(m, IF m \in crashed THEN "dead" ELSE "waiting") /\ crashed' = crashed \cup {m} /\ UNCHANGED <<message, tries>>
    BY <1>2 DEF Crash, worldVars
  <2>3. CASE m \in crashed
    <3>1. crashed' = crashed
        BY <2>2, <2>3
    <3> QED BY <2>1, <2>2, <2>3, <3>1 DEF Leave, Ending
  <2>4. CASE m \notin crashed
    BY <2>1, <2>2, <2>4 DEF Leave, Ending
  <2> QED BY <2>3, <2>4
<1>3. ASSUME here[m].step # "idle", UNCHANGED message, NEW retryable, Throw(m, retryable) PROVE Ending(m)
    BY <1>3 DEF Throw, Leave, Ending
<1>4. CASE StepFails(m) \/ AnswerFails(m) \/ AnswerDangles(m)
    BY <1>3, <1>4 DEF StepFails, OutsideAttempt, AnswerFails, AnswerDangles, At, worldVars
<1>5. CASE Stage(m)
  <2>1. CASE file[m] # "none"
    BY <1>5, <2>1 DEF Stage, Complete, Leave, Ending, At, worldVars
  <2>2. CASE file[m] = "none"
    BY <1>1, <1>5, <2>2 DEF Stage, Say, Goto, Going, At, worldVars
  <2> QED BY <2>1, <2>2
<1>6. CASE Answer(m)
  <2>1. CASE here[m].say = "echo"
    BY <1>1, <1>6, <2>1 DEF Answer, Goto, Going, At, worldVars
  <2>2. CASE here[m].say # "echo"
    BY <1>6, <2>2 DEF Answer, Complete, Leave, Ending, At, worldVars
  <2> QED BY <2>1, <2>2
<1>7. CASE AttemptFails(m) \/ Touch(m) \/ Listen(m) \/ Measure(m) \/ AnswerQuery(m) \/ Read(m)
    BY <1>1, <1>7 DEF AttemptFails, InsideAttempt, Touch, Listen, Measure, AnswerQuery, Read, At, Going, Say, Goto, worldVars
<1>8. CASE Resolve(m) \/ FindSubject(m) \/ Focus(m) \/ Ask(m) \/ Draft(m) \/ Take(m) \/ Clear(m) \/ Withdraw(m)
    BY <1>1, <1>8 DEF Resolve, FindSubject, Focus, Ask, Draft, Take, Clear, Withdraw, TookNothing, ShowCard, Begin,
                      At, Going, Say, Goto, worldVars
<1>9. CASE Compose(m) \/ ComposeFails(m) \/ Enqueue(m) \/ Act(m) \/ ActFails(m) \/ Remember(m)
    BY <1>1, <1>9 DEF Compose, ComposeFails, Enqueue, Act, ActFails, Remember, At, Going, Say, Goto, worldVars
<1>10. CASE Undo(m) \/ UndoClear(m) \/ Stop(m) \/ PutBack(m) \/ Drop(m)
    BY <1>1, <1>10 DEF Undo, UndoClear, Stop, PutBack, Drop, At, Going, Say, Goto, worldVars
<1> QED BY <1>2, <1>4, <1>5, <1>6, <1>7, <1>8, <1>9, <1>10 DEF Own, Handle

\* What one handler does, no other notices in what it keeps.
LEMMA OthersStill ==
    ASSUME Base, Base', NEW m \in Messages, Own(m), NEW n \in Messages, n # m
    PROVE  /\ here'[n] = here[n] /\ job'[n] = job[n] /\ tries'[n] = tries[n] /\ message'[n] = message[n]
           /\ n \in crashed' <=> n \in crashed
           /\ Run(n)' = Run(n)
<1>1. /\ here \in [Messages -> Local] /\ job \in [Messages -> JobStates] /\ message \in [Messages -> Message]
      /\ tries \in [Messages -> 0..MaxAttempts]
    BY DEF Base, TypeOK
<1>2. here'[n] = here[n] /\ job'[n] = job[n] /\ tries'[n] = tries[n] /\ message'[n] = message[n]
      /\ (n \in crashed' <=> n \in crashed)
  <2>1. CASE Receive(m)
    BY <1>1, <2>1 DEF Receive
  <2>2. CASE TakeJob(m)
    BY <1>1, <2>2 DEF TakeJob, Goto, worldVars
  <2>3. CASE Going(m)
    BY <1>1, <2>3 DEF Going, jobVars
  <2>4. CASE Ending(m)
    BY <1>1, <2>4 DEF Ending
  <2> QED BY <2>1, <2>2, <2>3, <2>4, OwnIs
<1> QED BY <1>2 DEF Run

\* A run is followed by the next one, or by none.
LEMMA RunMoves ==
    ASSUME Base, Base', NEW m \in Messages, Own(m)
    PROVE  /\ Run(m)[1] = m /\ Run(m)'[1] = m /\ Run(m)[2] \in Nat /\ Run(m)'[2] \in Nat
           /\ Receive(m) \/ TakeJob(m) \/ Going(m) => Run(m)' = Run(m)
           /\ Ending(m) => Run(m)'[2] = Run(m)[2] + 1 \/ (Run(m)' = Run(m) /\ job'[m] \in {"completed", "dead"})
<1>1. tries[m] \in Nat /\ tries'[m] \in Nat /\ tries \in [Messages -> 0..MaxAttempts] /\ job \in [Messages -> JobStates]
    BY Bounds DEF Base, TypeOK
<1>2. Run(m)[1] = m /\ Run(m)'[1] = m /\ Run(m)[2] \in Nat /\ Run(m)'[2] \in Nat
    BY <1>1 DEF Run
<1>3. Receive(m) \/ TakeJob(m) \/ Going(m) => Run(m)' = Run(m)
    BY DEF Receive, TakeJob, Going, jobVars, Run
<1>4. ASSUME Ending(m)
      PROVE  Run(m)'[2] = Run(m)[2] + 1 \/ (Run(m)' = Run(m) /\ job'[m] \in {"completed", "dead"})
  <2>1. CASE UNCHANGED <<tries, crashed>> /\ \E state \in {"completed", "dead"} : job' = [job EXCEPT ![m] = state]
    <3>1. Run(m)' = Run(m)
        BY <2>1 DEF Run
    <3>2. job'[m] \in {"completed", "dead"}
        BY <1>1, <2>1
    <3> QED BY <3>1, <3>2
  <2>2. CASE tries' = [tries EXCEPT ![m] = @ + 1] /\ UNCHANGED crashed
    <3>1. tries'[m] = tries[m] + 1
        BY <1>1, <2>2
    <3> QED BY <1>1, <2>2, <3>1 DEF Run
  <2>3. CASE m \notin crashed /\ crashed' = crashed \cup {m} /\ UNCHANGED tries
    <3>1. m \in crashed'
        BY <2>3
    <3> QED BY <1>1, <2>3, <3>1 DEF Run
  <2> QED BY <1>4, <2>1, <2>2, <2>3 DEF Ending
<1> QED BY <1>2, <1>3, <1>4

\* Runs of different messages are different runs.
LEMMA RunsApart == ASSUME NEW m, NEW n, m # n PROVE Run(m) # Run(n)
BY DEF Run

LEMMA RunParts == ASSUME NEW r \in Runs PROVE r = <<r[1], r[2]>> /\ r[1] \in Messages /\ r[2] \in Nat
BY Bounds DEF Runs

\* The steps a handler comes to from more than one other, and where it comes to each of the rest from.
Common == {"idle", "answer", "focus", "take", "subject", "query", "resolve", "ask", "act",
           "draft", "undo", "drop", "read", "withdraw"}

LEMMA VerbSteps ==
    ASSUME Base, NEW m \in Messages, here[m].step \in {"resolve", "focus"}
    PROVE  VerbStep(m) \in Common \cup {"compose"} /\ here[m].ask = NoAsk
<1>1. Said(message[m]) /\ message[m] # Silence /\ (Obeyed(message[m]) \/ message[m].kind = "tap")
      /\ here[m].ask = NoAsk
    BY AtStep DEF Suits
<1>2. CASE message[m].kind = "tap"
    BY <1>1, <1>2 DEF VerbStep, TapStep, Common
<1>3. CASE message[m].kind # "tap"
    BY <1>1, <1>3 DEF VerbStep, PlanStep, Obeyed, TypedVerbs, Common
<1> QED BY <1>2, <1>3

LEMMA Enters ==
    ASSUME Base, Base', NEW m \in Messages, Own(m)
    PROVE  \/ here'[m] = here[m] /\ Receive(m)
           \/ here'[m].step \in Common
           \/ here'[m].step = "compose" /\ (Clear(m) \/ here'[m].ask = NoAsk)
           \/ here'[m].step = "touch" /\ TakeJob(m)
           \/ here'[m].step \in {"listen", "measure"} /\ Touch(m)
           \/ here'[m].step = "stage" /\ Measure(m)
           \/ here'[m].step = "clear" /\ Take(m)
           \/ here'[m].step = "enqueue" /\ Compose(m)
           \/ here'[m].step = "remember" /\ (Enqueue(m) \/ Act(m))
           \/ here'[m].step = "undoClear" /\ Undo(m)
           \/ here'[m].step = "reverse" /\ UndoClear(m)
<1>1. here \in [Messages -> Local] /\ here[m] \in Local
    BY DEF Base, TypeOK
<1>2. ASSUME NEW words, Say(m, words) PROVE here'[m].step = "answer"
    BY <1>1, <1>2 DEF Say, Local
<1>3. ASSUME NEW s, Goto(m, s) PROVE here'[m].step = s
    BY <1>1, <1>3 DEF Goto, Local
<1>4. CommandStep(m) \in {"take", "subject", "query", "resolve"}
    BY DEF CommandStep
<1>5. ASSUME NEW e, Begin(m, e) PROVE here'[m].step = VerbStep(m) /\ here'[m].ask = here[m].ask
    BY <1>1, <1>5 DEF Begin, Local
<1>6. CASE Ending(m)
    BY <1>1, <1>6, IdleSuits DEF Ending, Common
<1>7. CASE Receive(m) \/ TakeJob(m)
    BY <1>3, <1>7 DEF Receive, TakeJob
<1>8. CASE AttemptFails(m) \/ Listen(m) \/ AnswerQuery(m) \/ Read(m) \/ ComposeFails(m) \/ ActFails(m)
           \/ Withdraw(m) \/ Drop(m) \/ Remember(m) \/ Stop(m) \/ PutBack(m)
    BY <1>2, <1>8 DEF AttemptFails, Listen, AnswerQuery, Read, ComposeFails, ActFails, Withdraw, Drop, Remember,
                      Stop, PutBack, Common
<1>9. CASE Touch(m)
    BY <1>3, <1>4, <1>9 DEF Touch, Common
<1>10. CASE Measure(m)
    BY <1>2, <1>3, <1>10 DEF Measure, Common
<1>11. CASE Resolve(m)
  <2>1. CASE \E e \in {Resolution(m)} : here' = [here EXCEPT ![m].step = "focus", ![m].on = e]
    BY <1>1, <2>1 DEF Local, Common
  <2>2. CASE \E e \in {Resolution(m)} : Begin(m, e)
    BY <1>5, <1>11, <2>2, VerbSteps DEF Resolve, At
  <2>3. CASE Say(m, "which") \/ Say(m, "error")
    BY <1>2, <2>3 DEF Common
  <2> QED BY <1>11, <2>1, <2>2, <2>3 DEF Resolve
<1>12. CASE FindSubject(m) \/ Focus(m)
  <2>1. CASE here' = [here EXCEPT ![m].step = "focus", ![m].on = message[m].about]
    BY <1>1, <2>1 DEF Local, Common
  <2>2. CASE Say(m, "gone")
    BY <1>2, <2>2 DEF Common
  <2>3. CASE Focus(m)
    BY <1>5, <2>3, VerbSteps DEF Focus, At
  <2> QED BY <1>12, <2>1, <2>2, <2>3 DEF FindSubject
<1>13. CASE Ask(m) \/ Draft(m)
    BY <1>1, <1>13 DEF Ask, Draft, ShowCard, Local, Common
<1>14. CASE Take(m) \/ Clear(m)
    BY <1>1, <1>2, <1>3, <1>14 DEF Take, Clear, TookNothing, Local, Common
<1>15. CASE Compose(m) \/ Act(m)
    BY <1>1, <1>3, <1>15 DEF Compose, Act, Local
<1>16. CASE Enqueue(m)
    BY <1>1, <1>2, <1>16 DEF Enqueue, Local, Common
<1>17. CASE Undo(m) \/ UndoClear(m)
    BY <1>1, <1>2, <1>3, <1>17 DEF Undo, UndoClear, Local, Common
<1>18. CASE Stage(m) \/ Answer(m)
  <2>1. Goto(m, CommandStep(m)) \/ Say(m, "held") \/ Complete(m)
    BY <1>18 DEF Stage, Answer
  <2>2. CASE Complete(m)
    BY <1>1, <2>2, IdleSuits DEF Complete, Leave, Common
  <2> QED BY <1>2, <1>3, <1>4, <2>1, <2>2 DEF Common
<1>19. CASE Crash(m) \/ StepFails(m) \/ AnswerFails(m) \/ AnswerDangles(m)
    BY <1>1, <1>19, IdleSuits DEF Crash, StepFails, AnswerFails, AnswerDangles, Throw, Leave, Common
<1> QED BY <1>7, <1>8, <1>9, <1>10, <1>11, <1>12, <1>13, <1>14, <1>15, <1>16, <1>17, <1>18, <1>19 DEF Own, Handle

\* What becomes of a draft.
LEMMA DraftMoves ==
    ASSUME Base, [Next]_vars, NEW r \in Runs
    PROVE  \/ drafts'[r] = drafts[r]
           \/ Written(r) /\ Written(r)' /\ drafts'[r].words = drafts[r].words
           \/ \E m \in Messages : Compose(m) /\ r = Run(m) /\ drafts'[r] = [words |-> here[m].ask, state |-> "unqueued"]
           \/ \E m \in Messages : Enqueue(m) /\ r = Run(m) /\ drafts'[r].words = drafts[r].words
<1>1. drafts \in [Runs -> [words : Asks \cup {NoAsk}, state : DraftStates]]
    BY DEF Base, TypeOK
<1>2. CASE UNCHANGED vars \/ Beside
  <2>1. CASE drafts' = drafts
    BY <2>1
  <2>2. CASE \E s \in Runs : Depart(s)
    <3>1. PICK s \in Runs : Depart(s)
        BY <2>2
    <3>2. drafts[s].state = "queued" /\ drafts' = [drafts EXCEPT ![s].state = "gone"]
        BY <3>1 DEF Depart
    <3> QED BY <1>1, <3>2 DEF Written
  <2> QED BY <1>2, <2>1, <2>2 DEF vars, mailVars, Beside, Tick, Purge, ExpireFile
<1>3. ASSUME NEW m \in Messages, Own(m)
      PROVE  \/ drafts'[r] = drafts[r]
             \/ Written(r) /\ Written(r)' /\ drafts'[r].words = drafts[r].words
             \/ Compose(m) /\ r = Run(m) /\ drafts'[r] = [words |-> here[m].ask, state |-> "unqueued"]
             \/ Enqueue(m) /\ r = Run(m) /\ drafts'[r].words = drafts[r].words
  <2>1. CASE drafts' = drafts
    BY <2>1
  <2>2. CASE Compose(m)
    BY <1>1, <2>2 DEF Compose
  <2>3. CASE Enqueue(m)
    <3>1. drafts' = [drafts EXCEPT ![Run(m)].state = "queued"]
        BY <2>3 DEF Enqueue
    <3> QED BY <1>1, <2>3, <3>1
  <2>4. CASE Stop(m)
    <3>1. drafts' = drafts \/ (drafts[here[m].action.run].state \in {"unqueued", "queued"}
                               /\ drafts' = [drafts EXCEPT ![here[m].action.run].state = "cancelled"])
        BY <2>4 DEF Stop
    <3> QED BY <1>1, <3>1 DEF Written
  <2>5. drafts' = drafts \/ Compose(m) \/ Enqueue(m) \/ Stop(m)
    <3>1. CASE Receive(m) \/ TakeJob(m) \/ Crash(m) \/ StepFails(m) \/ AttemptFails(m) \/ AnswerFails(m)
        BY <3>1 DEF Receive, TakeJob, Crash, StepFails, AttemptFails, AnswerFails, mailVars
    <3>2. CASE Handle(m)
        BY <3>2 DEF Handle, Touch, Listen, Measure, Stage, AnswerQuery, Read, Resolve, FindSubject, Focus, Ask, Draft,
                    Take, Clear, Withdraw, ComposeFails, Act, ActFails, Remember, Undo, UndoClear, PutBack,
                    Drop, Answer, AnswerDangles, mailVars
    <3> QED BY <1>3, <3>1, <3>2 DEF Own
  <2> QED BY <2>1, <2>2, <2>3, <2>4, <2>5
<1> QED BY <1>2, <1>3, NextCases

-----------------------------------------------------------------------------
(***************************************************************************)
(* What leaves was confirmed.                                              *)
(***************************************************************************)
\* A draft is there when its job is sent to the queue.
Kept == \A m \in Messages : At(m, "enqueue") => Written(Run(m))

Rightful == NothingUnconfirmed /\ Kept

LEMMA RightfulInit == Init => Rightful
<1> SUFFICES ASSUME Init PROVE Rightful
    OBVIOUS
<1>1. \A r \in Runs : ~Written(r)
    BY DEF Init, NoDraft, Written
<1>2. \A m \in Messages : ~At(m, "enqueue")
    BY IdleSuits DEF Init, At
<1> QED BY <1>1, <1>2 DEF Rightful, NothingUnconfirmed, Kept

LEMMA MessageStays ==
    ASSUME Base, Base', [Next]_vars, NEW n \in Messages, message[n] # Silence
    PROVE  message'[n] = message[n]
<1>1. CASE UNCHANGED vars \/ Beside
    BY <1>1, BesideStill DEF vars, worldVars
<1>2. ASSUME NEW m \in Messages, Own(m) PROVE message'[n] = message[n]
  <2>1. CASE n # m
    BY <1>2, <2>1, OthersStill
  <2>2. CASE n = m
    BY <1>2, <2>2, OwnIs DEF Receive, TakeJob, Going, Ending, worldVars
  <2> QED BY <2>1, <2>2
<1> QED BY <1>1, <1>2, NextCases

LEMMA RightfulNext == Base /\ Base' /\ Rightful /\ [Next]_vars => Rightful'
<1> SUFFICES ASSUME Base, Base', Rightful, [Next]_vars PROVE Rightful'
    OBVIOUS
<1>1. ASSUME NEW r \in Runs, Written(r), drafts'[r].words = drafts[r].words
      PROVE  LET m == message'[r[1]] IN
             IF drafts'[r].words = NoAsk THEN m.verb \in {"reply", "yes"}
             ELSE m.kind = "tap" /\ m.verb = "send" /\ m.about = drafts'[r].words.about
  <2>1. IF drafts[r].words = NoAsk THEN message[r[1]].verb \in {"reply", "yes"}
        ELSE message[r[1]].kind = "tap" /\ message[r[1]].verb = "send" /\ message[r[1]].about = drafts[r].words.about
    BY <1>1 DEF Rightful, NothingUnconfirmed
  <2>2. message[r[1]] # Silence
    BY <2>1 DEF Silence
  <2>3. message'[r[1]] = message[r[1]]
    BY <2>2, RunParts, MessageStays
  <2> QED BY <1>1, <2>1, <2>3
<1>2. ASSUME NEW r \in Runs, Written(r)'
      PROVE  LET m == message'[r[1]] IN
             IF drafts'[r].words = NoAsk THEN m.verb \in {"reply", "yes"}
             ELSE m.kind = "tap" /\ m.verb = "send" /\ m.about = drafts'[r].words.about
  <2>1. CASE drafts'[r] = drafts[r]
    BY <1>1, <1>2, <2>1 DEF Written
  <2>2. CASE Written(r) /\ drafts'[r].words = drafts[r].words
    BY <1>1, <2>2
  <2>3. ASSUME NEW m \in Messages, Compose(m), r = Run(m), drafts'[r] = [words |-> here[m].ask, state |-> "unqueued"]
        PROVE  LET w == message'[r[1]] IN
               IF drafts'[r].words = NoAsk THEN w.verb \in {"reply", "yes"}
               ELSE w.kind = "tap" /\ w.verb = "send" /\ w.about = drafts'[r].words.about
    <3>1. here[m].step = "compose" /\ UNCHANGED message
        BY <2>3 DEF Compose, At, worldVars
    <3>2. (here[m].ask = NoAsk /\ Dictated(message[m])) \/ Confirmed(here[m].ask, message[m])
        BY <3>1, AtStep DEF Suits
    <3>3. r[1] = m /\ message'[r[1]] = message[m] /\ drafts'[r].words = here[m].ask
        BY <2>3, <3>1 DEF Run
    <3> QED BY <3>2, <3>3, AskIsNone DEF Dictated, Confirmed
  <2>4. ASSUME NEW m \in Messages, Enqueue(m), r = Run(m), drafts'[r].words = drafts[r].words PROVE Written(r)
    BY <2>4 DEF Rightful, Kept, Enqueue
  <2> QED BY <1>1, <2>1, <2>2, <2>3, <2>4, DraftMoves
<1>3. ASSUME NEW r \in Runs, Written(r) PROVE Written(r)'
  <2>1. CASE \E m \in Messages : Enqueue(m) /\ r = Run(m)
    BY <2>1, SharedTyped DEF Enqueue, Written, Shared
  <2>2. CASE drafts'[r] = drafts[r]
    BY <1>3, <2>2 DEF Written
  <2>3. CASE \E ask : drafts'[r] = [words |-> ask, state |-> "unqueued"]
    BY <2>3 DEF Written
  <2> QED BY <2>1, <2>2, <2>3, DraftMoves
<1>4. ASSUME NEW n \in Messages, At(n, "enqueue")' PROVE Written(Run(n))'
  <2>1. CASE here'[n] = here[n] /\ Run(n)' = Run(n)
    <3>1. At(n, "enqueue") /\ here[n].step # "idle"
        BY <1>4, <2>1 DEF At
    <3>2. Run(n) \in Runs /\ Written(Run(n))
        BY <3>1, AtStep DEF Rightful, Kept
    <3>3. PICK r \in Runs : r = Run(n)
        BY <3>2
    <3>4. Written(r)'
        BY <1>3, <3>2, <3>3
    <3> QED BY <2>1, <3>3, <3>4 DEF Written
  <2>2. CASE UNCHANGED vars \/ Beside
    BY <2>1, <2>2, BesideStill DEF vars, Run, jobVars
  <2>3. ASSUME NEW m \in Messages, Own(m) PROVE Written(Run(n))'
    <3>1. CASE n # m
        BY <2>1, <2>3, <3>1, OthersStill
    <3>2. CASE n = m
      <4>1. (here'[m] = here[m] /\ Receive(m)) \/ Compose(m)
        BY <1>4, <2>3, <3>2, Enters DEF At, Common
      <4>2. CASE Receive(m)
        BY <2>1, <2>3, <3>2, <4>2 DEF Receive, Run
      <4>3. CASE Compose(m)
        <5>1. Run(m) \in Runs /\ Run(m)' = Run(m)
            BY <4>3, AtStep DEF Compose, At, Run, jobVars
        <5>2. drafts'[Run(m)].state = "unqueued"
            BY <4>3, <5>1, SharedTyped DEF Compose, Shared
        <5> QED BY <3>2, <5>1, <5>2 DEF Written
      <4> QED BY <4>1, <4>2, <4>3
    <3> QED BY <3>1, <3>2
  <2> QED BY <2>2, <2>3, NextCases
<1> QED BY <1>2, <1>4 DEF Rightful, NothingUnconfirmed, Kept

\* Words that a model wrote, and an address the user typed, leave only by a tap on a confirmation of
\* the same email, in whatever order messages, retries and crashes come.
THEOREM ConfirmedBeforeSent == Spec => []NothingUnconfirmed
<1>1. Base /\ Rightful /\ [Next]_vars => (Base /\ Rightful)'
    BY BaseNext, RightfulNext
<1>2. Init => Base /\ Rightful
    BY BaseInit, RightfulInit
<1>3. Rightful => NothingUnconfirmed
    BY DEF Rightful
<1> QED BY <1>1, <1>2, <1>3, PTL DEF Spec

-----------------------------------------------------------------------------
(***************************************************************************)
(* How many handlers there are, and how many files they hold.              *)
(***************************************************************************)
RunningBounded == Cardinality(Running) <= Concurrency

LEMMA MessagesFinite == \A S : S \subseteq Messages => IsFiniteSet(S) /\ Cardinality(S) \in Nat
<1>1. IsFiniteSet(Messages)
    BY Bounds, FS_Interval DEF Messages
<1> QED BY <1>1, FS_Subset, FS_CardinalityType

LEMMA NotMore ==
    ASSUME NEW S, NEW T, S \subseteq T, T \subseteq Messages
    PROVE  Cardinality(S) <= Cardinality(T) /\ Cardinality(S) \in Nat /\ Cardinality(T) \in Nat
BY MessagesFinite, FS_Subset

\* One more is at most one more.
LEMMA OneMore ==
    ASSUME NEW S, S \subseteq Messages, NEW m \in Messages
    PROVE  /\ Cardinality(S \cup {m}) <= Cardinality(S) + 1
           /\ Cardinality(S) \in Nat /\ Cardinality(S \cup {m}) \in Nat
<1>1. IsFiniteSet(S) /\ Cardinality(S) \in Nat /\ Cardinality(S \cup {m}) \in Nat
    BY MessagesFinite
<1>2. CASE m \in S
  <2>1. S \cup {m} = S
    BY <1>2
  <2> QED BY <1>1, <2>1
<1>3. CASE m \notin S
  <2>1. Cardinality(S \cup {m}) = Cardinality(S) + 1
    BY <1>1, <1>3, FS_AddElement
  <2> QED BY <1>1, <2>1
<1> QED BY <1>2, <1>3

LEMMA TogetherAtMost ==
    ASSUME NEW S, NEW T, S \subseteq Messages, T \subseteq Messages
    PROVE  /\ Cardinality(S \cup T) <= Cardinality(S) + Cardinality(T)
           /\ Cardinality(S) \in Nat /\ Cardinality(T) \in Nat /\ Cardinality(S \cup T) \in Nat
<1>1. /\ IsFiniteSet(S) /\ IsFiniteSet(T)
      /\ Cardinality(S) \in Nat /\ Cardinality(T) \in Nat /\ Cardinality(S \cup T) \in Nat
      /\ Cardinality(S \cap T) \in Nat
    BY MessagesFinite
<1>2. Cardinality(S \cup T) = Cardinality(S) + Cardinality(T) - Cardinality(S \cap T)
    BY <1>1, FS_Union
<1> QED BY <1>1, <1>2

LEMMA NoneAtFirst == Init => Running = {} /\ Held = {} /\ \A m \in Messages : here[m].step = "idle"
BY IdleSuits DEF Init, Running, Held

\* Who becomes a handler is taken by a free one.
LEMMA RunningMoves ==
    ASSUME Base, Base', [Next]_vars
    PROVE  Running' \subseteq Running \/ \E m \in Messages : Running' \subseteq Running \cup {m} /\ TakeJob(m)
<1>1. CASE UNCHANGED vars \/ Beside
    BY <1>1, BesideStill DEF vars, jobVars, Running
<1>2. ASSUME NEW m \in Messages, Own(m), ~TakeJob(m) PROVE Running' \subseteq Running
  <2>1. job \in [Messages -> JobStates]
    BY DEF Base, TypeOK
  <2>2. job'[m] = "active" => job[m] = "active"
    BY <1>2, <2>1, OwnIs DEF Receive, Going, Ending, jobVars
  <2> QED BY <1>2, <2>2, OthersStill DEF Running
<1>3. ASSUME NEW m \in Messages, TakeJob(m) PROVE Running' \subseteq Running \cup {m}
    BY <1>3, OthersStill DEF Running, Own
<1> QED BY <1>1, <1>2, <1>3, NextCases

LEMMA RunningInit == Init => RunningBounded
BY NoneAtFirst, FS_EmptySet, Bounds DEF RunningBounded

LEMMA RunningNext == Base /\ Base' /\ RunningBounded /\ [Next]_vars => RunningBounded'
<1> SUFFICES ASSUME Base, Base', RunningBounded, [Next]_vars PROVE RunningBounded'
    OBVIOUS
<1>1. Running \subseteq Messages /\ Running' \subseteq Messages
    BY DEF Running
<1>2. CASE Running' \subseteq Running
    BY <1>1, <1>2, NotMore, Bounds DEF RunningBounded
<1>3. ASSUME NEW m \in Messages, Running' \subseteq Running \cup {m}, TakeJob(m) PROVE RunningBounded'
  <2>1. Cardinality(Running) < Concurrency
    BY <1>3 DEF TakeJob
  <2>2. Cardinality(Running \cup {m}) <= Cardinality(Running) + 1
        /\ Cardinality(Running) \in Nat /\ Cardinality(Running \cup {m}) \in Nat
    BY <1>1, OneMore
  <2>3. Cardinality(Running') <= Cardinality(Running \cup {m}) /\ Cardinality(Running') \in Nat
    BY <1>1, <1>3, NotMore
  <2>4. Cardinality(Running') <= Concurrency
    BY <2>1, <2>2, <2>3, Bounds
  <2> QED BY <2>4 DEF RunningBounded
<1> QED BY <1>2, <1>3, RunningMoves

\* Who has measured and is about to stage a file.
Staging == {m \in Messages : At(m, "stage")}

HeldTogether == Cardinality(Held \cup Staging) <= MaxHeld + Concurrency - 1

LEMMA HeldMoves ==
    ASSUME Base, Base', [Next]_vars
    PROVE  \/ (Held \cup Staging)' \subseteq Held \cup Staging
           \/ \E m \in Messages : Measure(m) /\ Held' = Held /\ Goto(m, "stage")
<1>1. file \in [Messages -> {"none", "held", "carried", "expired"}] /\ here \in [Messages -> Local]
    BY DEF Base, TypeOK
<1>2. CASE UNCHANGED vars \/ Beside
  <2>1. Staging' = Staging
    BY <1>2, BesideStill DEF vars, Staging, At
  <2>2. Held' \subseteq Held
    BY <1>1, <1>2 DEF vars, mailVars, Beside, Tick, Purge, Depart, ExpireFile, Held
  <2> QED BY <2>1, <2>2
<1>3. ASSUME NEW m \in Messages, Own(m), ~Measure(m) PROVE (Held \cup Staging)' \subseteq Held \cup Staging
  <2>1. Staging' \subseteq Staging
    <3>1. At(m, "stage")' => At(m, "stage")
        BY <1>3, Enters DEF At, Common
    <3> QED BY <1>3, <3>1, OthersStill DEF Staging, At
  <2>2. CASE Stage(m)
    <3>1. m \in Staging
        BY <2>2 DEF Stage, Staging
    <3>2. Held' \subseteq Held \cup {m}
        BY <1>1, <2>2 DEF Stage, Held
    <3> QED BY <2>1, <3>1, <3>2
  <2>3. CASE Compose(m) \/ Drop(m)
    <3>1. Held' \subseteq Held
        BY <2>3 DEF Compose, Drop, Held
    <3> QED BY <2>1, <3>1
  <2>4. CASE file' = file
    BY <2>1, <2>4 DEF Held
  <2>5. file' = file \/ Stage(m) \/ Compose(m) \/ Drop(m)
    <3>1. CASE Receive(m) \/ TakeJob(m) \/ Crash(m) \/ StepFails(m) \/ AttemptFails(m) \/ AnswerFails(m)
        BY <3>1 DEF Receive, TakeJob, Crash, StepFails, AttemptFails, AnswerFails, mailVars
    <3>2. CASE Handle(m)
        BY <3>2 DEF Handle, Touch, Listen, Measure, AnswerQuery, Read, Resolve, FindSubject, Focus, Ask, Draft,
                    Take, Clear, Withdraw, ComposeFails, Enqueue, Act, ActFails, Remember, Undo, UndoClear,
                    Stop, PutBack, Answer, AnswerDangles, mailVars
    <3> QED BY <1>3, <3>1, <3>2 DEF Own
  <2> QED BY <2>2, <2>3, <2>4, <2>5
<1>4. ASSUME NEW m \in Messages, Measure(m)
      PROVE  (Held \cup Staging)' \subseteq Held \cup Staging \/ (Held' = Held /\ Goto(m, "stage"))
  <2>1. Held' = Held
    BY <1>4 DEF Measure, mailVars, Held
  <2>2. CASE Say(m, "refused")
    <3>1. here'[m].step = "answer"
        BY <1>1, <2>2 DEF Say, Local
    <3>2. Staging' \subseteq Staging
        BY <1>4, <3>1, OthersStill DEF Staging, At, Own, Handle
    <3> QED BY <2>1, <3>2
  <2> QED BY <1>4, <2>1, <2>2 DEF Measure
<1> QED BY <1>2, <1>3, <1>4, NextCases

LEMMA HeldInit == Init => HeldTogether
<1> SUFFICES ASSUME Init PROVE HeldTogether
    OBVIOUS
<1>1. Held \cup Staging = {}
    BY NoneAtFirst DEF Staging, At
<1> QED BY <1>1, FS_EmptySet, Bounds DEF HeldTogether

LEMMA HeldNext == Base /\ Base' /\ RunningBounded' /\ HeldTogether /\ [Next]_vars => HeldTogether'
<1> SUFFICES ASSUME Base, Base', RunningBounded', HeldTogether, [Next]_vars PROVE HeldTogether'
    OBVIOUS
<1>1. Held \subseteq Messages /\ Held' \subseteq Messages /\ Staging \subseteq Messages /\ Staging' \subseteq Messages
      /\ Running' \subseteq Messages
    BY DEF Held, Staging, Running
<1>2. CASE (Held \cup Staging)' \subseteq Held \cup Staging
  <2>1. /\ Cardinality((Held \cup Staging)') <= Cardinality(Held \cup Staging)
        /\ Cardinality((Held \cup Staging)') \in Nat /\ Cardinality(Held \cup Staging) \in Nat
    BY <1>1, <1>2, NotMore
  <2> QED BY <2>1, Bounds DEF HeldTogether
<1>3. ASSUME NEW m \in Messages, Measure(m), Held' = Held, Goto(m, "stage") PROVE HeldTogether'
  <2>1. Cardinality(Held) < MaxHeld
    <3>1. here'[m].step = "stage"
        BY <1>3 DEF Goto, Base, TypeOK, Local
    <3>2. ~Say(m, "refused")
        BY <3>1 DEF Say, Base, TypeOK, Local
    <3>3. Cardinality(Held) \in Nat
        BY <1>1, NotMore
    <3> QED BY <1>3, <3>2, <3>3, Bounds DEF Measure
  <2>2. Staging' \subseteq Running'
    BY DEF Staging, Running, At, Base, Fits, Fit
  <2>3. Cardinality(Staging') <= Cardinality(Running') /\ Cardinality(Running') \in Nat /\ Cardinality(Staging') \in Nat
    BY <1>1, <2>2, NotMore
  <2>4. Cardinality(Held' \cup Staging') <= Cardinality(Held') + Cardinality(Staging')
        /\ Cardinality(Held') \in Nat /\ Cardinality(Held' \cup Staging') \in Nat
    BY <1>1, TogetherAtMost
  <2>5. Cardinality(Running') <= Concurrency
    BY DEF RunningBounded
  <2>6. Cardinality(Held' \cup Staging') <= MaxHeld + Concurrency - 1
    BY <1>3, <2>1, <2>3, <2>4, <2>5, Bounds
  <2> QED BY <2>6 DEF HeldTogether
<1> QED BY <1>2, <1>3, HeldMoves

\* The limit on waiting files is read before a file is stored: files sent together exceed it by no
\* more than there are other handlers (AttachmentStagingService.stage).
THEOREM FilesNearTheLimit == Spec => []HeldBounded
<1>1. Init => Base /\ RunningBounded /\ HeldTogether
    BY BaseInit, RunningInit, HeldInit
<1>2. Base /\ RunningBounded /\ HeldTogether /\ [Next]_vars => (Base /\ RunningBounded /\ HeldTogether)'
    BY BaseNext, RunningNext, HeldNext
<1>3. Base /\ RunningBounded /\ HeldTogether => HeldBounded
  <2> SUFFICES ASSUME HeldTogether PROVE HeldBounded
    OBVIOUS
  <2>1. Held \subseteq Held \cup Staging /\ Held \cup Staging \subseteq Messages
    BY DEF Held, Staging
  <2>2. Cardinality(Held) <= Cardinality(Held \cup Staging) /\ Cardinality(Held) \in Nat
        /\ Cardinality(Held \cup Staging) \in Nat
    BY <2>1, NotMore
  <2> QED BY <2>2, Bounds DEF HeldTogether, HeldBounded
<1> QED BY <1>1, <1>2, <1>3, PTL DEF Spec

-----------------------------------------------------------------------------
(***************************************************************************)
(* What is over, and how often it is taken back.                           *)
(***************************************************************************)
\* A run that did what it was to do and is answering, or that is over.
Past(r) ==
    \/ r[2] < Run(r[1])[2]
    \/ /\ r[2] = Run(r[1])[2]
       /\ job[r[1]] \in {"completed", "dead"} \/ (At(r[1], "answer") /\ here[r[1]].say # "echo")

\* A run that is under way and not at its answer is not over.
LEMMA NotPast ==
    ASSUME Base, NEW m \in Messages, here[m].step \notin {"idle", "answer"}
    PROVE  ~Past(Run(m))
<1>1. job[m] = "active" /\ Run(m)[1] = m /\ Run(m)[2] \in Nat
    BY AtStep, RunIsOne, Bounds
<1> QED BY <1>1 DEF Past, At

LEMMA PastStays ==
    ASSUME Base, Base', [Next]_vars, NEW r \in Runs, Past(r)
    PROVE  Past(r)'
<1>1. r[1] \in Messages /\ r[2] \in Nat
    BY RunParts
<1>2. CASE UNCHANGED vars \/ Beside
    BY <1>2, BesideStill DEF vars, Past, Run, At, jobVars
<1>3. ASSUME NEW m \in Messages, Own(m) PROVE Past(r)'
  <2>1. CASE r[1] # m
    <3>1. /\ here'[r[1]] = here[r[1]] /\ job'[r[1]] = job[r[1]] /\ Run(r[1])' = Run(r[1])
        BY <1>1, <1>3, <2>1, OthersStill
    <3> QED BY <3>1 DEF Past, At
  <2>2. CASE r[1] = m
    <3>1. Run(m)[2] \in Nat /\ Run(m)'[2] \in Nat
        BY <1>3, RunMoves
    <3>2. Run(m)'[2] >= Run(m)[2]
        BY <1>3, <3>1, OwnIs, RunMoves
    <3>3. CASE r[2] < Run(m)[2]
        BY <1>1, <2>2, <3>1, <3>2, <3>3 DEF Past
    <3>4. CASE r[2] = Run(m)[2] /\ (job[m] \in {"completed", "dead"} \/ (At(m, "answer") /\ here[m].say # "echo"))
      <4>1. CASE Ending(m)
        <5>1. Run(m)'[2] = Run(m)[2] + 1 \/ (Run(m)'[2] = Run(m)[2] /\ job'[m] \in {"completed", "dead"})
            BY <1>3, <4>1, RunMoves
        <5>2. r[2] < Run(m)'[2] \/ (r[2] = Run(m)'[2] /\ job'[m] \in {"completed", "dead"})
            BY <1>1, <3>1, <3>4, <5>1
        <5> QED BY <2>2, <5>2 DEF Past
      <4>2. ~Receive(m) /\ ~TakeJob(m)
        BY <3>4 DEF Receive, TakeJob, Base, Fits, Fit, At
      <4>3. ~Going(m)
        <5>1. CASE job[m] \in {"completed", "dead"}
            BY <5>1, AtStep DEF Going
        <5>2. CASE At(m, "answer") /\ here[m].say # "echo"
          <6>1. Crash(m) \/ AnswerFails(m) \/ Answer(m) \/ AnswerDangles(m)
            BY <1>3, <5>2 DEF Own, Handle, At, Receive, TakeJob, StepFails, OutsideAttempt, AttemptFails, InsideAttempt,
               Touch, Listen, Measure, Stage, AnswerQuery, Read, Resolve, FindSubject, Focus, Ask, Draft,
               Take, Clear, Withdraw, Compose, ComposeFails, Enqueue, Act, ActFails, Remember, Undo, UndoClear,
               Stop, PutBack, Drop, Base, Fits, Fit
          <6>2. \E state \in {"waiting", "completed", "dead"} : job' = [job EXCEPT ![m] = state]
            BY <5>2, <6>1 DEF Crash, AnswerFails, Answer, AnswerDangles, Throw, Complete, Leave
          <6>3. job[m] = "active" /\ job \in [Messages -> JobStates]
            BY <5>2, AtStep DEF At, Base, TypeOK
          <6> QED BY <6>2, <6>3 DEF Going, jobVars
        <5> QED BY <3>4, <5>1, <5>2
      <4> QED BY <1>3, <4>1, <4>2, <4>3, OwnIs
    <3> QED BY <2>2, <3>3, <3>4 DEF Past
  <2> QED BY <2>1, <2>2
<1> QED BY <1>2, <1>3, NextCases

\* Who has read the record of a run and not yet taken it back, and who is about to.
Holders(r) == {m \in Messages : here[m].step \in {"undoClear", "reverse"} /\ here[m].action.run = r}
Reversing(r) == {m \in Messages : here[m].step = "reverse" /\ here[m].action.run = r}

TakenBack(r) ==
    /\ Holders(r) # {} => Past(r)
    /\ reversed[r] > 0 \/ Reversing(r) # {} => Past(r) /\ last.run # r
    /\ reversed[r] + Cardinality(Holders(r)) <= Concurrency

UndoneInTurn == (last # NoAction => Past(last.run)) /\ \A r \in Runs : TakenBack(r)

LEMMA LastMoves ==
    ASSUME Base, [Next]_vars
    PROVE  \/ last' = last
           \/ last' = NoAction
           \/ \E m \in Messages : Remember(m) /\ last' = here[m].action
<1>1. CASE UNCHANGED vars \/ Beside
    BY <1>1, BesideStill DEF vars, convVars
<1>2. ASSUME NEW m \in Messages, Own(m) PROVE last' = last \/ last' = NoAction \/ (Remember(m) /\ last' = here[m].action)
  <2>1. CASE Receive(m) \/ TakeJob(m) \/ Crash(m) \/ StepFails(m) \/ AttemptFails(m) \/ AnswerFails(m)
    BY <2>1 DEF Receive, TakeJob, Crash, StepFails, AttemptFails, AnswerFails, convVars
  <2>2. CASE Handle(m)
    BY <2>2 DEF Handle, Touch, Listen, Measure, Stage, AnswerQuery, Read, Resolve, FindSubject, Focus, Ask, Draft,
                Take, Clear, Withdraw, Compose, ComposeFails, Enqueue, Act, ActFails, Remember, Undo, UndoClear,
                Stop, PutBack, Drop, Answer, AnswerDangles, convVars
  <2> QED BY <1>2, <2>1, <2>2 DEF Own
<1> QED BY <1>1, <1>2, NextCases

LEMMA ReversedMoves ==
    ASSUME Base, [Next]_vars, NEW r \in Runs
    PROVE  \/ reversed'[r] = reversed[r]
           \/ \E m \in Messages : /\ Stop(m) \/ PutBack(m)
                                  /\ here[m].action.run = r /\ reversed'[r] = reversed[r] + 1
<1>1. CASE UNCHANGED vars \/ Beside
    BY <1>1, BesideStill DEF vars, historyVars
<1>2. ASSUME NEW m \in Messages, Own(m)
      PROVE  \/ reversed'[r] = reversed[r]
             \/ (Stop(m) \/ PutBack(m)) /\ here[m].action.run = r /\ reversed'[r] = reversed[r] + 1
  <2>1. CASE Receive(m) \/ TakeJob(m) \/ Crash(m) \/ StepFails(m) \/ AttemptFails(m) \/ AnswerFails(m)
    BY <2>1 DEF Receive, TakeJob, Crash, StepFails, AttemptFails, AnswerFails, historyVars
  <2>2. CASE Handle(m) /\ ~Stop(m) /\ ~PutBack(m)
    BY <2>2 DEF Handle, Touch, Listen, Measure, Stage, AnswerQuery, Read, Resolve, FindSubject, Focus, Ask, Draft,
                Take, Clear, Withdraw, Compose, ComposeFails, Enqueue, Act, ActFails, Remember, Undo, UndoClear,
                Drop, Answer, AnswerDangles, historyVars
  <2>3. CASE Stop(m) \/ PutBack(m)
    <3>1. reversed \in [Runs -> Nat]
        BY DEF Base, TypeOK
    <3>2. reversed' = reversed \/ reversed' = [reversed EXCEPT ![here[m].action.run] = @ + 1]
        BY <2>3 DEF Stop, PutBack
    <3> QED BY <2>3, <3>1, <3>2
  <2> QED BY <1>2, <2>1, <2>2, <2>3 DEF Own
<1> QED BY <1>1, <1>2, NextCases

\* Only who reads the record comes to hold it.
LEMMA HoldersMoves ==
    ASSUME Base, Base', [Next]_vars, NEW r \in Runs
    PROVE  /\ \/ Holders(r)' \subseteq Holders(r)
              \/ \E m \in Messages : Undo(m) /\ last # NoAction /\ last.run = r
           /\ \/ Reversing(r)' \subseteq Reversing(r)
              \/ \E m \in Messages : UndoClear(m) /\ here[m].action.run = r
<1>1. here \in [Messages -> Local]
    BY DEF Base, TypeOK
<1>2. CASE UNCHANGED vars \/ Beside
    BY <1>2, BesideStill DEF vars, Holders, Reversing
<1>3. ASSUME NEW m \in Messages, Own(m)
      PROVE  /\ Holders(r)' \subseteq Holders(r) \/ (Undo(m) /\ last # NoAction /\ last.run = r)
             /\ Reversing(r)' \subseteq Reversing(r) \/ (UndoClear(m) /\ here[m].action.run = r)
  <2>1. \A n \in Messages : n # m => here'[n] = here[n]
    BY <1>3, OthersStill
  <2>2. CASE here'[m].step \notin {"undoClear", "reverse"}
    BY <2>1, <2>2 DEF Holders, Reversing
  <2>3. CASE here'[m] = here[m]
    BY <2>1, <2>3 DEF Holders, Reversing
  <2>4. CASE Undo(m) /\ here'[m].step = "undoClear"
    <3>1. last # NoAction /\ here'[m].action = last
        BY <1>1, <2>4 DEF Undo, Say, Local
    <3> QED BY <2>1, <2>4, <3>1 DEF Holders, Reversing
  <2>5. CASE UndoClear(m) /\ here'[m].step = "reverse"
    <3>1. here[m].step = "undoClear" /\ here'[m].action = here[m].action
        BY <1>1, <2>5 DEF UndoClear, Goto, Say, At, Local
    <3> QED BY <2>1, <2>5, <3>1 DEF Holders, Reversing
  <2> QED BY <1>3, <2>2, <2>3, <2>4, <2>5, Enters DEF Common
<1> QED BY <1>2, <1>3, NextCases

LEMMA UndoneInit == Init => UndoneInTurn
<1> SUFFICES ASSUME Init PROVE UndoneInTurn
    OBVIOUS
<1>1. \A r \in Runs : Holders(r) = {} /\ Reversing(r) = {} /\ reversed[r] = 0 /\ last = NoAction
    BY NoneAtFirst DEF Holders, Reversing, Init
<1>2. Cardinality({}) = 0
    BY FS_EmptySet
<1>3. last = NoAction
    BY DEF Init
<1> QED BY <1>1, <1>2, <1>3, Bounds DEF UndoneInTurn, TakenBack

LEMMA UndoneNext == Base /\ Base' /\ RunningBounded' /\ UndoneInTurn /\ [Next]_vars => UndoneInTurn'
<1> SUFFICES ASSUME Base, Base', RunningBounded', UndoneInTurn, [Next]_vars PROVE UndoneInTurn'
    OBVIOUS
<1>1. /\ reversed \in [Runs -> Nat] /\ reversed' \in [Runs -> Nat]
      /\ last \in Actions \cup {NoAction} /\ last' \in Actions \cup {NoAction}
    BY DEF Base, TypeOK
<1>2. ASSUME NEW m \in Messages, Remember(m)
      PROVE  /\ Run(m) \in Runs /\ ~Past(Run(m)) /\ Past(Run(m))' /\ here[m].action.run = Run(m)
  <2>1. here[m].step = "remember" /\ here \in [Messages -> Local]
    BY <1>2 DEF Remember, At, Base, TypeOK
  <2>2. here'[m].step = "answer" /\ here'[m].say \in {"sending", "done"} /\ UNCHANGED jobVars
    BY <1>2, <2>1 DEF Remember, Say, Local
  <2>3. Run(m) \in Runs /\ Run(m)[1] = m /\ here[m].action.run = Run(m)
    BY <2>1, AtStep DEF Suits
  <2>4. Run(m)' = Run(m)
    BY <2>2 DEF Run, jobVars
  <2>5. ~Past(Run(m))
    BY <2>1, NotPast
  <2> QED BY <2>2, <2>3, <2>4, <2>5 DEF Past, At
<1>3. ASSUME last' # NoAction, NEW r \in Runs, r = last'.run PROVE Past(r)'
  <2>1. CASE last' = last
    <3>1. Past(r)
        BY <1>3, <2>1 DEF UndoneInTurn
    <3> QED BY <3>1, PastStays
  <2>2. ASSUME NEW m \in Messages, Remember(m), last' = here[m].action PROVE Past(r)'
    <3>1. r = Run(m) /\ Past(Run(m))' /\ Run(m)' = Run(m)
        BY <1>2, <1>3, <2>2 DEF Remember, Run, jobVars
    <3> QED BY <3>1 DEF Past
  <2> QED BY <1>3, <2>1, <2>2, LastMoves
<1>4. ASSUME NEW r \in Runs PROVE TakenBack(r)'
  <2>1. TakenBack(r)
    BY DEF UndoneInTurn
  <2>2. /\ Holders(r) \subseteq Messages /\ Holders(r)' \subseteq Messages /\ Running' \subseteq Messages
        /\ Cardinality(Holders(r)) \in Nat /\ Cardinality(Holders(r)') \in Nat /\ reversed[r] \in Nat /\ reversed'[r] \in Nat
    BY <1>1, MessagesFinite DEF Holders, Running
  <2>3. Holders(r)' # {} => Past(r)'
    BY <2>1, HoldersMoves, PastStays DEF TakenBack, UndoneInTurn
  <2>4. ASSUME NEW m \in Messages, Stop(m) \/ PutBack(m), here[m].action.run = r
        PROVE  m \in Reversing(r) /\ m \in Holders(r) /\ m \notin Holders(r)'
    <3>1. here[m].step = "reverse" /\ here'[m].step = "answer"
        BY <2>4 DEF Stop, PutBack, At, Say, Base, TypeOK, Local
    <3> QED BY <2>4, <3>1 DEF Reversing, Holders
  <2>5. reversed'[r] > 0 \/ Reversing(r)' # {} => Past(r)' /\ last'.run # r
    <3> SUFFICES ASSUME reversed'[r] > 0 \/ Reversing(r)' # {} PROVE Past(r)' /\ last'.run # r
        OBVIOUS
    <3>1. CASE reversed[r] > 0 \/ Reversing(r) # {}
      <4>1. Past(r) /\ last.run # r
        BY <2>1, <3>1 DEF TakenBack
      <4>2. ASSUME NEW m \in Messages, Remember(m), last' = here[m].action PROVE last'.run # r
        BY <1>2, <4>1, <4>2
      <4> QED BY <4>1, <4>2, LastMoves, PastStays, AskIsNone
    <3>2. CASE reversed[r] = 0 /\ Reversing(r) = {}
      <4>1. reversed'[r] = reversed[r]
        BY <2>4, <3>2, ReversedMoves
      <4>2. PICK m \in Messages : UndoClear(m) /\ here[m].action.run = r
        BY <3>2, <4>1, HoldersMoves
      <4>3. Holders(r) # {} /\ last' = NoAction
        BY <4>2 DEF UndoClear, At, Holders
      <4> QED BY <2>1, <4>3, PastStays, AskIsNone DEF TakenBack
    <3> QED BY <2>2, <3>1, <3>2
  <2>6. reversed'[r] + Cardinality(Holders(r)') <= Concurrency
    <3>1. CASE Holders(r)' \subseteq Holders(r) /\ reversed'[r] = reversed[r]
      <4>1. Cardinality(Holders(r)') <= Cardinality(Holders(r))
        BY <2>2, <3>1, NotMore
      <4> QED BY <2>1, <2>2, <3>1, <4>1, Bounds DEF TakenBack
    <3>2. ASSUME NEW m \in Messages, Stop(m) \/ PutBack(m), here[m].action.run = r, reversed'[r] = reversed[r] + 1,
                 Holders(r)' \subseteq Holders(r)
          PROVE  reversed'[r] + Cardinality(Holders(r)') <= Concurrency
      <4>1. m \in Holders(r) /\ m \notin Holders(r)'
        BY <2>4, <3>2
      <4>2. Holders(r)' \subseteq Holders(r) \ {m} /\ IsFiniteSet(Holders(r)) /\ Holders(r) \ {m} \subseteq Messages
        BY <2>2, <3>2, <4>1, MessagesFinite
      <4>3. Cardinality(Holders(r) \ {m}) = Cardinality(Holders(r)) - 1
        BY <4>1, <4>2, FS_RemoveElement
      <4>4. Cardinality(Holders(r)') <= Cardinality(Holders(r) \ {m})
        BY <4>2, NotMore
      <4> QED BY <2>1, <2>2, <3>2, <4>3, <4>4, Bounds DEF TakenBack
    <3>3. ASSUME NEW m \in Messages, Undo(m), last # NoAction, last.run = r
          PROVE  reversed'[r] + Cardinality(Holders(r)') <= Concurrency
      <4>1. reversed[r] = 0
        BY <2>1, <2>2, <3>3 DEF TakenBack
      <4>2. reversed' = reversed
        BY <3>3 DEF Undo, historyVars
      <4>3. Holders(r)' \subseteq Running'
        BY DEF Holders, Running, Base, Fits, Fit
      <4>4. Cardinality(Holders(r)') <= Cardinality(Running') /\ Cardinality(Running') \in Nat
        BY <2>2, <4>3, NotMore
      <4> QED BY <2>2, <4>1, <4>2, <4>4, Bounds DEF RunningBounded
    <3> QED BY <3>1, <3>2, <3>3, ReversedMoves, HoldersMoves
  <2> QED BY <2>3, <2>5, <2>6 DEF TakenBack
<1>5. (last # NoAction => Past(last.run))'
  <2>1. last' # NoAction => \E r \in Runs : r = last'.run
    BY <1>1 DEF Actions
  <2> QED BY <1>3, <2>1 DEF Past
<1> QED BY <1>4, <1>5 DEF UndoneInTurn

\* What a run did is taken back no more often than there are handlers side by side: an undo that
\* comes after the record was cleared finds nothing (takeLastAction, UndoService.undo).
THEOREM UndoneAtMostTogether == Spec => []UndoneByFew
<1>1. Init => Base /\ RunningBounded /\ UndoneInTurn
    BY BaseInit, RunningInit, UndoneInit
<1>2. Base /\ RunningBounded /\ UndoneInTurn /\ [Next]_vars => (Base /\ RunningBounded /\ UndoneInTurn)'
    BY BaseNext, RunningNext, UndoneNext
<1>3. Base /\ RunningBounded /\ UndoneInTurn => UndoneByFew
  <2> SUFFICES ASSUME Base, UndoneInTurn, NEW r \in Runs PROVE reversed[r] <= Concurrency
    BY DEF UndoneByFew
  <2>1. Cardinality(Holders(r)) \in Nat /\ reversed[r] \in Nat
    BY MessagesFinite DEF Holders, Base, TypeOK
  <2> QED BY <2>1, Bounds DEF UndoneInTurn, TakenBack
<1> QED BY <1>1, <1>2, <1>3, PTL DEF Spec

-----------------------------------------------------------------------------
(***************************************************************************)
(* Who gets no answer.                                                     *)
(***************************************************************************)
Late(m) == tries[m] > 0 \/ m \in crashed

\* Until its own handler stages it a message has no file, unless an earlier run staged one.
Accounted(m) ==
    /\ here[m].step \in {"touch", "measure", "stage"} \/ job[m] \in {"absent", "lost", "waiting"} =>
          file[m] = "none" \/ Late(m)
    /\ job[m] = "completed" /\ heard[m] \subseteq {"echo"} => message[m].kind = "file" /\ Late(m)

AllAccounted == \A m \in Messages : Accounted(m)

LEMMA NoFileStays ==
    ASSUME Base, [Next]_vars, NEW n \in Messages, file[n] = "none"
    PROVE  file'[n] = "none" \/ Stage(n)
<1>1. file \in [Messages -> {"none", "held", "carried", "expired"}]
    BY DEF Base, TypeOK
<1>2. CASE UNCHANGED vars \/ Beside
    BY <1>1, <1>2 DEF vars, mailVars, Beside, Tick, Purge, Depart, ExpireFile
<1>3. ASSUME NEW m \in Messages, Own(m) PROVE file'[n] = "none" \/ Stage(n)
  <2>1. CASE Receive(m) \/ TakeJob(m) \/ Crash(m) \/ StepFails(m) \/ AttemptFails(m) \/ AnswerFails(m)
    BY <2>1 DEF Receive, TakeJob, Crash, StepFails, AttemptFails, AnswerFails, mailVars
  <2>2. CASE Stage(m)
    BY <1>1, <2>2 DEF Stage
  <2>3. CASE Compose(m) \/ Drop(m)
    BY <1>1, <2>3 DEF Compose, Drop, Held
  <2>4. CASE Handle(m) /\ ~Stage(m) /\ ~Compose(m) /\ ~Drop(m)
    BY <2>4 DEF Handle, Touch, Listen, Measure, AnswerQuery, Read, Resolve, FindSubject, Focus, Ask, Draft,
                Take, Clear, Withdraw, ComposeFails, Enqueue, Act, ActFails, Remember, Undo, UndoClear,
                Stop, PutBack, Answer, AnswerDangles, mailVars
  <2> QED BY <1>3, <2>1, <2>2, <2>3, <2>4 DEF Own
<1> QED BY <1>2, <1>3, NextCases

LEMMA HeardStill ==
    ASSUME Base, NEW m \in Messages, Own(m), NEW n \in Messages, n # m
    PROVE  heard'[n] = heard[n]
<1>1. CASE UNCHANGED heard
    BY <1>1
<1>2. CASE Seen(m)
    BY <1>2 DEF Seen, Base, TypeOK
<1>3. UNCHANGED heard \/ Seen(m)
  <2>1. CASE Receive(m) \/ TakeJob(m) \/ Crash(m) \/ StepFails(m) \/ AttemptFails(m) \/ AnswerFails(m)
    BY <2>1 DEF Receive, TakeJob, Crash, StepFails, AttemptFails, AnswerFails, historyVars
  <2>2. CASE Handle(m)
    BY <2>2 DEF Handle, Touch, Listen, Measure, Stage, AnswerQuery, Read, Resolve, FindSubject, Focus, Ask, Draft,
                Take, Clear, Withdraw, Compose, ComposeFails, Enqueue, Act, ActFails, Remember, Undo, UndoClear,
                Stop, PutBack, Drop, Answer, AnswerDangles, historyVars
  <2> QED BY <2>1, <2>2 DEF Own
<1> QED BY <1>1, <1>2, <1>3

LEMMA AccountedInit == Init => AllAccounted
BY DEF Init, AllAccounted, Accounted

LEMMA AccountedNext == Base /\ Base' /\ AllAccounted /\ [Next]_vars => AllAccounted'
<1> SUFFICES ASSUME Base, Base', AllAccounted, [Next]_vars, NEW n \in Messages PROVE Accounted(n)'
    BY DEF AllAccounted
<1>1. Accounted(n)
    BY DEF AllAccounted
<1>2. /\ job \in [Messages -> JobStates] /\ tries \in [Messages -> 0..MaxAttempts] /\ here \in [Messages -> Local]
      /\ heard \in [Messages -> SUBSET Answers]
    BY DEF Base, TypeOK
<1>4. CASE UNCHANGED vars \/ Beside
  <2>1. here'[n] = here[n] /\ job'[n] = job[n] /\ tries'[n] = tries[n] /\ (n \in crashed' <=> n \in crashed)
        /\ heard'[n] = heard[n]
    BY <1>4, BesideStill DEF vars, jobVars, historyVars
  <2>2. file[n] = "none" => file'[n] = "none"
    BY <1>2, <1>4 DEF vars, mailVars, Beside, Tick, Purge, Depart, ExpireFile, Base, TypeOK
  <2>3. message'[n] = message[n]
    BY <1>4, BesideStill DEF vars, worldVars
  <2> QED BY <1>1, <2>1, <2>2, <2>3 DEF Accounted, Late
<1>5. ASSUME NEW m \in Messages, Own(m), m # n PROVE Accounted(n)'
  <2>1. /\ here'[n] = here[n] /\ job'[n] = job[n] /\ tries'[n] = tries[n] /\ message'[n] = message[n]
        /\ n \in crashed' <=> n \in crashed
        /\ heard'[n] = heard[n]
    BY <1>5, OthersStill, HeardStill
  <2>2. file[n] = "none" => file'[n] = "none"
    <3>1. CASE Stage(n)
        <4>1. Going(n) \/ Ending(n)
            BY <3>1, OwnIs DEF Own, Handle, Stage, At, Receive, TakeJob, Base, Fits, Fit
        <4>2. here'[n] # here[n]
            BY <1>2, <3>1, IdleSuits DEF Stage, Complete, Leave, Say, Goto, CommandStep, At, Local
        <4> QED BY <2>1, <4>2
    <3> QED BY <3>1, NoFileStays
  <2> QED BY <1>1, <2>1, <2>2 DEF Accounted, Late
<1>6. CASE Own(n)
  <2>1. Late(n) => Late(n)'
    BY <1>2, <1>6, OwnIs DEF Receive, TakeJob, Going, Ending, jobVars, Late
  <2>2. CASE Ending(n)
    <3>1. here'[n].step = "idle"
        BY <1>2, <2>2, IdleSuits DEF Ending
    <3>2. CASE /\ job' = [job EXCEPT ![n] = "completed"] /\ UNCHANGED <<tries, crashed>>
               /\ (here[n].step = "answer" /\ here[n].say # "echo" /\ Seen(n)) \/ (here[n].step = "stage" /\ file[n] # "none")
      <4>1. job'[n] = "completed"
        BY <1>2, <3>2
      <4>2. CASE here[n].step = "answer" /\ here[n].say # "echo" /\ Seen(n)
        <5>1. here[n].say \in heard'[n]
            BY <1>2, <4>2 DEF Seen
        <5> QED BY <3>1, <4>1, <4>2, <5>1 DEF Accounted
      <4>3. CASE here[n].step = "stage" /\ file[n] # "none"
        <5>1. message[n].kind = "file" /\ Late(n)
            BY <1>1, <4>3, AtStep DEF Accounted, Suits
        <5> QED BY <2>1, <2>2, <3>1, <4>1, <5>1 DEF Accounted, Ending
      <4> QED BY <3>2, <4>2, <4>3
    <3>3. CASE tries' = [tries EXCEPT ![n] = @ + 1] /\ \E state \in {"waiting", "dead"} : job' = [job EXCEPT ![n] = state]
      <4>1. Late(n)' /\ job'[n] # "completed"
        BY <1>2, <3>3, Bounds DEF Late
      <4> QED BY <4>1 DEF Accounted
    <3>4. CASE crashed' = crashed \cup {n} /\ job' = [job EXCEPT ![n] = "waiting"]
      <4>1. Late(n)' /\ job'[n] # "completed"
        BY <1>2, <3>4 DEF Late
      <4> QED BY <4>1 DEF Accounted
    <3>5. CASE job' = [job EXCEPT ![n] = "dead"]
      <4>1. job'[n] = "dead"
        BY <1>2, <3>5
      <4> QED BY <3>1, <4>1 DEF Accounted
    <3> QED BY <2>2, <3>2, <3>3, <3>4, <3>5 DEF Ending
  <2>3. CASE ~Ending(n)
    <3>1. Receive(n) \/ TakeJob(n) \/ Going(n)
        BY <1>6, <2>3, OwnIs
    <3>2. job'[n] # "completed"
        BY <1>2, <3>1, AtStep DEF Receive, TakeJob, Going, jobVars
    <3>3. CASE here'[n].step \in {"touch", "measure", "stage"} \/ job'[n] \in {"absent", "lost", "waiting"}
      <4>1. here[n].step \in {"touch", "measure"} \/ job[n] \in {"absent", "waiting"}
        <5>1. CASE Receive(n)
            BY <5>1 DEF Receive, Base, Fits, Fit
        <5>2. CASE TakeJob(n)
            BY <5>2 DEF TakeJob
        <5>3. CASE Going(n)
          <6>1. here'[n].step \in {"touch", "measure", "stage"}
            BY <3>3, <5>3, AtStep DEF Going, jobVars
          <6> QED BY <1>6, <5>3, <6>1, Enters DEF Common, Touch, Measure, TakeJob, At, Receive, Base, Fits, Fit, Going
        <5> QED BY <3>1, <5>1, <5>2, <5>3
      <4>2. ~Stage(n)
        BY <4>1 DEF Stage, At, Base, Fits, Fit
      <4>3. file[n] = "none" => file'[n] = "none"
        BY <4>2, NoFileStays
      <4> QED BY <1>1, <2>1, <3>2, <4>1, <4>3 DEF Accounted
    <3> QED BY <3>2, <3>3 DEF Accounted
  <2> QED BY <2>2, <2>3
<1> QED BY <1>4, <1>5, <1>6, NextCases

\* A message that was handled was answered, but for a file whose row an earlier run had made before
\* its answer failed (handleFile, the duplicate branch).
THEOREM SilentOnlyForAFile == Spec => []SilenceMeansFile
<1>1. Init => Base /\ AllAccounted
    BY BaseInit, AccountedInit
<1>2. Base /\ AllAccounted /\ [Next]_vars => (Base /\ AllAccounted)'
    BY BaseNext, AccountedNext
<1>3. AllAccounted => SilenceMeansFile
    BY DEF AllAccounted, Accounted, SilenceMeansFile, Late
<1> QED BY <1>1, <1>2, <1>3, PTL DEF Spec

-----------------------------------------------------------------------------
(***************************************************************************)
(* One handler at a time: the slot is what Confirmation says.              *)
(***************************************************************************)
\* Every question was put by a run that is over, every question that was mailed was mailed by one
\* that is over or has just done it, and what is to be cleared is what is there.
Settled ==
    /\ \A a \in put : Past(a.run)
    /\ \A r \in Runs : drafts[r].words # NoAsk =>
          Past(r) \/ \E m \in Messages : r = Run(m) /\ here[m].step \in {"enqueue", "remember"}
    /\ \A m \in Messages : At(m, "clear") => here[m].ask = slot

LEMMA OneHandler ==
    ASSUME Concurrency = 1, Base, RunningBounded, NEW m \in Messages, NEW n \in Messages,
           here[m].step # "idle", here[n].step # "idle"
    PROVE  m = n
<1>1. m \in Running /\ n \in Running /\ Running \subseteq Messages
    BY AtStep DEF Running
<1>2. IsFiniteSet(Running) /\ Cardinality(Running) \in Nat
    BY <1>1, MessagesFinite
<1>3. Cardinality(Running) <= 1
    BY DEF RunningBounded
<1>4. Cardinality(Running) = 1
    BY <1>1, <1>2, <1>3, FS_EmptySet
<1>5. \E x : Running = {x}
    BY <1>2, <1>4, FS_Singleton
<1> QED BY <1>1, <1>5

LEMMA SlotMoves ==
    ASSUME [Next]_vars
    PROVE  UNCHANGED <<slot, put>> \/ \E m \in Messages : Ask(m) \/ Draft(m) \/ Clear(m) \/ Withdraw(m)
<1>1. CASE UNCHANGED vars \/ Beside
    BY <1>1, BesideStill DEF vars, convVars, historyVars
<1>2. ASSUME NEW m \in Messages, Own(m) PROVE UNCHANGED <<slot, put>> \/ Ask(m) \/ Draft(m) \/ Clear(m) \/ Withdraw(m)
  <2>1. CASE Receive(m) \/ TakeJob(m) \/ Crash(m) \/ StepFails(m) \/ AttemptFails(m) \/ AnswerFails(m)
    BY <2>1 DEF Receive, TakeJob, Crash, StepFails, AttemptFails, AnswerFails, convVars, historyVars
  <2>2. CASE Handle(m)
    BY <2>2 DEF Handle, Touch, Listen, Measure, Stage, AnswerQuery, Read, Resolve, FindSubject, Focus,
                Take, Compose, ComposeFails, Enqueue, Act, ActFails, Remember, Undo, UndoClear,
                Stop, PutBack, Drop, Answer, AnswerDangles, convVars, historyVars
  <2> QED BY <1>2, <2>1, <2>2 DEF Own
<1> QED BY <1>1, <1>2, NextCases

LEMMA MailedMoves ==
    ASSUME Base, [Next]_vars, ~ \E m \in Messages : Compose(m)
    PROVE  Mailed' = Mailed /\ \A r \in Runs : drafts'[r].words = drafts[r].words
<1>1. \A r \in Runs : drafts'[r].words = drafts[r].words
    BY DraftMoves
<1> QED BY <1>1 DEF Mailed

\* A run that goes on to its answer, or that ends, is over.
LEMMA NowPast ==
    ASSUME Base, Base', NEW m \in Messages, Own(m), here[m].step # "idle",
           Ending(m) \/ (here'[m].step = "answer" /\ here'[m].say # "echo"), NEW r \in Runs, r = Run(m)
    PROVE  Past(r)'
<1>1. r[1] = m /\ Run(m)[1] = m /\ Run(m)'[1] = m /\ Run(m)[2] \in Nat /\ Run(m)'[2] \in Nat
    BY RunMoves
<1>2. CASE Ending(m)
  <2>1. Run(m)'[2] = Run(m)[2] + 1 \/ (Run(m)'[2] = Run(m)[2] /\ job'[m] \in {"completed", "dead"})
    BY <1>2, RunMoves
  <2> QED BY <1>1, <2>1 DEF Past
<1>3. CASE ~Ending(m) /\ here'[m].step = "answer" /\ here'[m].say # "echo"
  <2>1. Run(m)' = Run(m)
    BY <1>3, OwnIs, RunMoves
  <2> QED BY <1>1, <1>3, <2>1 DEF Past, At
<1> QED BY <1>2, <1>3

LEMMA SettledInit == Init => Settled
BY NoneAtFirst DEF Init, Settled, At, NoDraft

LEMMA SettledNext ==
    ASSUME Concurrency = 1
    PROVE  Base /\ Base' /\ RunningBounded /\ RunningBounded' /\ Settled /\ [Next]_vars => Settled'
<1> SUFFICES ASSUME Base, Base', RunningBounded, RunningBounded', Settled, [Next]_vars PROVE Settled'
    OBVIOUS
<1>1. /\ here \in [Messages -> Local] /\ put \subseteq Asks /\ put' \subseteq Asks
      /\ drafts \in [Runs -> [words : Asks \cup {NoAsk}, state : DraftStates]]
    BY DEF Base, TypeOK
<1>2. ASSUME NEW a \in put', NEW r \in Runs, r = a.run PROVE Past(r)'
  <2>1. CASE a \in put
    BY <1>2, <2>1, PastStays DEF Settled
  <2>2. CASE a \notin put
    <3>1. PICK m \in Messages : Ask(m) \/ Draft(m)
        BY <2>2, <1>2, SlotMoves DEF Clear, Withdraw, historyVars
    <3>2. put' = put \cup {Question(m)} /\ here[m].step \in {"ask", "draft"}
        BY <3>1 DEF Ask, Draft, SetPending, At
    <3>3. r = Run(m)
        BY <1>2, <2>2, <3>2, QuestionTyped
    <3>4. here'[m].step = "answer" /\ here'[m].say = "card"
        BY <1>1, <3>1 DEF Ask, Draft, ShowCard, Local
    <3> QED BY <3>1, <3>2, <3>3, <3>4, NowPast DEF Own, Handle
  <2> QED BY <2>1, <2>2
<1>3. ASSUME NEW r \in Runs, drafts'[r].words # NoAsk
      PROVE  Past(r)' \/ \E m \in Messages : r = Run(m)' /\ here'[m].step \in {"enqueue", "remember"}
  <2>1. CASE drafts[r].words # NoAsk
    <3>1. CASE Past(r)
        BY <3>1, PastStays
    <3>2. ASSUME NEW m \in Messages, r = Run(m), here[m].step \in {"enqueue", "remember"}
          PROVE  Past(r)' \/ (r = Run(m)' /\ here'[m].step \in {"enqueue", "remember"})
      <4>1. CASE UNCHANGED vars \/ Beside
        BY <3>2, <4>1, BesideStill DEF vars, jobVars, Run
      <4>2. ASSUME NEW n \in Messages, Own(n), n # m PROVE r = Run(m)' /\ here'[m].step \in {"enqueue", "remember"}
        BY <3>2, <4>2, OthersStill
      <4>3. CASE Own(m)
        <5>1. Ending(m) \/ Going(m)
            BY <3>2, <4>3, OwnIs, AtStep DEF Receive, TakeJob
        <5>2. CASE Ending(m)
            BY <3>2, <4>3, <5>2, NowPast
        <5>3. CASE Going(m)
          <6>1. Run(m)' = Run(m)
            BY <4>3, <5>3, RunMoves
          <6>2. job'[m] = "active"
            BY <3>2, <5>3, AtStep DEF Going, jobVars
          <6>3. AttemptFails(m) \/ Enqueue(m) \/ Remember(m)
            <7>1. Crash(m) \/ AttemptFails(m) \/ Enqueue(m) \/ Remember(m)
                BY <3>2, <4>3, AtStep DEF Own, Handle, At, Receive, TakeJob, StepFails, OutsideAttempt,
                   Touch, Listen, Measure, Stage, AnswerQuery, Read, Resolve, FindSubject, Focus, Ask, Draft, AnswerFails,
                   Take, Clear, Withdraw, Compose, ComposeFails, Act, ActFails, Undo, UndoClear,
                   Stop, PutBack, Drop, Answer, AnswerDangles
            <7>2. job \in [Messages -> JobStates]
                BY DEF Base, TypeOK
            <7>3. ~Crash(m)
                BY <6>2, <7>2 DEF Crash, Leave
            <7> QED BY <7>1, <7>3
          <6>4. (here'[m].step = "answer" /\ here'[m].say # "echo") \/ here'[m].step = "remember"
            BY <1>1, <6>3 DEF AttemptFails, Enqueue, Remember, Say, Local
          <6>5. CASE here'[m].step = "answer" /\ here'[m].say # "echo"
            BY <3>2, <4>3, <6>5, NowPast
          <6> QED BY <3>2, <6>1, <6>4, <6>5
        <5> QED BY <5>1, <5>2, <5>3
      <4> QED BY <4>1, <4>2, <4>3, NextCases
    <3> QED BY <2>1, <3>1, <3>2 DEF Settled
  <2>2. CASE drafts[r].words = NoAsk
    <3>1. PICK m \in Messages : Compose(m) /\ r = Run(m)
        BY <1>3, <2>2, DraftMoves
    <3>2. here'[m].step = "enqueue" /\ Run(m)' = Run(m)
        BY <1>1, <3>1 DEF Compose, Goto, Local, Run, jobVars
    <3> QED BY <3>1, <3>2
  <2> QED BY <2>1, <2>2
<1>4. ASSUME NEW m \in Messages, At(m, "clear")' PROVE here'[m].ask = slot'
  <2>1. CASE UNCHANGED vars \/ Beside
    BY <1>4, <2>1, BesideStill DEF vars, convVars, At, Settled
  <2>2. ASSUME NEW n \in Messages, Own(n), n # m PROVE here'[m].ask = slot'
    <3>1. At(m, "clear") /\ here'[m] = here[m]
        BY <1>4, <2>2, OthersStill DEF At
    <3>2. here[n].step = "idle"
        BY <2>2, <3>1, OneHandler DEF At
    <3>3. UNCHANGED slot
        BY <2>2, <3>2, OwnIs DEF Receive, TakeJob, Going, Ending, convVars
    <3> QED BY <3>1, <3>3 DEF Settled
  <2>3. CASE Own(m)
    <3>1. Take(m) \/ Receive(m)
        BY <1>4, <2>3, Enters DEF At, Common
    <3>2. ~Receive(m)
        BY <1>4 DEF Receive, At, Base, Fits, Fit
    <3>3. Take(m)
        BY <3>1, <3>2
    <3> QED BY <1>1, <1>4, <3>3 DEF Take, TookNothing, Say, At, Local, convVars
  <2> QED BY <2>1, <2>2, <2>3, NextCases
<1>5. (\A a \in put : Past(a.run))'
  <2>1. \A a \in put' : a.run \in Runs
    BY <1>1 DEF Asks
  <2> QED BY <1>2, <2>1 DEF Past
<1> QED BY <1>3, <1>4, <1>5 DEF Settled

\* What was confirmed and is not yet a mail is the running handler's.
LEMMA TakenIs ==
    ASSUME Concurrency = 1, Base, RunningBounded, NEW m \in Messages, here[m].step # "idle"
    PROVE  Taken = IF At(m, "compose") THEN {here[m].ask} \ {NoAsk} ELSE {}
<1>1. \A n \in Messages : n # m => here[n].step = "idle"
    BY OneHandler
<1>2. {n \in Messages : At(n, "compose")} = IF At(m, "compose") THEN {m} ELSE {}
    BY <1>1 DEF At
<1> QED BY <1>2 DEF Taken

LEMMA TakenIdle == (\A m \in Messages : ~At(m, "compose")) => Taken = {}
BY DEF Taken

LEMMA ConfirmationInit == Init => Slot!Init
<1> SUFFICES ASSUME Init PROVE Slot!Init
    OBVIOUS
<1>1. Taken = {}
    BY NoneAtFirst, TakenIdle DEF At
<1>2. Mailed = {}
    BY DEF Init, Mailed, NoDraft
<1> QED BY <1>1, <1>2 DEF Init, Slot!Init

\* Every step is one of Confirmation's, or leaves what Confirmation sees as it is.
LEMMA ConfirmationNext ==
    ASSUME Concurrency = 1
    PROVE  Base /\ Base' /\ RunningBounded /\ RunningBounded' /\ Settled /\ [Next]_vars => [Slot!Next]_Slot!vars
<1> SUFFICES ASSUME Base, Base', RunningBounded, RunningBounded', Settled, [Next]_vars
             PROVE  Slot!Next \/ UNCHANGED <<slot, put, Taken, Mailed>>
    BY DEF Slot!vars
<1>1. /\ here \in [Messages -> Local] /\ slot \in Asks \cup {NoAsk}
      /\ drafts \in [Runs -> [words : Asks \cup {NoAsk}, state : DraftStates]]
    BY DEF Base, TypeOK
<1>2. CASE UNCHANGED vars \/ Beside
  <2>1. UNCHANGED <<slot, put>> /\ here' = here
    BY <1>2, BesideStill DEF vars, convVars, historyVars
  <2>2. Taken' = Taken
    BY <2>1 DEF Taken, At
  <2>3. CASE UNCHANGED drafts
    BY <2>1, <2>2, <2>3 DEF Mailed
  <2>4. ASSUME NEW s \in Runs, Depart(s) PROVE Mailed' = Mailed
    <3>1. \A r \in Runs : drafts'[r].words = drafts[r].words
        BY <1>1, <2>4 DEF Depart
    <3> QED BY <3>1 DEF Mailed
  <2> QED BY <1>2, <2>1, <2>2, <2>3, <2>4 DEF vars, mailVars, Beside, Tick, Purge, ExpireFile
<1>3. ASSUME NEW m \in Messages, Own(m) PROVE Slot!Next \/ UNCHANGED <<slot, put, Taken, Mailed>>
  <2>1. CASE here[m].step = "idle"
    <3>1. Receive(m) \/ TakeJob(m)
        BY <1>3, <2>1, OwnIs DEF Going, Ending
    <3>2. UNCHANGED <<slot, put, drafts>> /\ \A n \in Messages : At(n, "compose")' <=> At(n, "compose")
      <4>1. \A n \in Messages : n # m => here'[n] = here[n]
        BY <1>3, OthersStill
      <4>2. ~At(m, "compose") /\ ~At(m, "compose")'
        BY <1>1, <2>1, <3>1 DEF At, Receive, TakeJob, Goto, Local
      <4> QED BY <3>1, <4>1, <4>2 DEF At, Receive, TakeJob, convVars, mailVars, historyVars
    <3>3. \A n \in Messages : At(n, "compose") => here'[n] = here[n]
        BY <1>3, <2>1, OthersStill DEF At
    <3>4. Taken' = Taken
        BY <3>2, <3>3 DEF Taken
    <3> QED BY <3>2, <3>4 DEF Mailed
  <2>2. CASE here[m].step # "idle"
    <3>1. Taken = IF At(m, "compose") THEN {here[m].ask} \ {NoAsk} ELSE {}
        BY <2>2, TakenIs
    <3>2. Taken' = IF At(m, "compose")' THEN {here'[m].ask} \ {NoAsk} ELSE {}
      <4>1. \A n \in Messages : n # m => here'[n].step = "idle"
        BY <1>3, <2>2, OneHandler, OthersStill
      <4>2. {n \in Messages : At(n, "compose")}' = IF At(m, "compose")' THEN {m} ELSE {}
        BY <4>1 DEF At
      <4> QED BY <4>2 DEF Taken
    <3>3. CASE Ask(m) \/ Draft(m)
      <4> DEFINE a == Question(m)
      <4>1. here[m].step \in {"ask", "draft"} /\ here'[m].step = "answer" /\ slot' = a /\ put' = put \cup {a}
            /\ UNCHANGED mailVars
        BY <1>1, <3>3 DEF Ask, Draft, SetPending, ShowCard, At, Local
      <4>2. a \in Asks /\ a.run = Run(m) /\ ~Past(Run(m))
        BY <4>1, QuestionTyped, NotPast
      <4> HIDE DEF a
      <4>3. a \notin put
        BY <4>2 DEF Settled
      <4>4. Taken = {} /\ Taken' = {}
        BY <3>1, <3>2, <4>1 DEF At
      <4>5. Mailed' = Mailed
        BY <4>1 DEF Mailed, mailVars
      <4>6. Slot!Ask(a)
        BY <4>1, <4>3, <4>4, <4>5 DEF Slot!Ask
      <4> QED BY <4>2, <4>6 DEF Slot!Next
    <3>4. CASE Clear(m)
      <4>1. here[m].step = "clear" /\ here[m].ask = slot /\ slot' = NoAsk /\ UNCHANGED <<put, mailVars>>
        BY <3>4 DEF Clear, At, Settled, historyVars
      <4>2. slot # NoAsk /\ Mailed' = Mailed /\ Taken = {}
        BY <2>2, <3>1, <4>1, AskIsNone, AtStep DEF Suits, Mailed, mailVars, At
      <4>3. CASE Goto(m, "compose")
        <5>1. here'[m].step = "compose" /\ here'[m].ask = slot
            BY <1>1, <4>1, <4>3 DEF Goto, Local
        <5>2. Taken' = {slot}
            BY <3>2, <4>2, <5>1 DEF At
        <5> QED BY <4>1, <4>2, <5>2 DEF Slot!Next, Slot!Confirm
      <4>4. CASE TookNothing(m)
        <5>1. here'[m].step = "answer"
            BY <1>1, <4>4 DEF TookNothing, Say, Local
        <5>2. Taken' = {}
            BY <3>2, <5>1 DEF At
        <5> QED BY <4>1, <4>2, <5>2 DEF Slot!Next, Slot!Withdraw
      <4> QED BY <3>4, <4>3, <4>4 DEF Clear
    <3>5. CASE Withdraw(m)
      <4>1. here[m].step = "withdraw" /\ here'[m].step = "answer" /\ slot' = NoAsk /\ UNCHANGED <<put, mailVars>>
        BY <1>1, <3>5 DEF Withdraw, At, Say, Local, historyVars
      <4>2. Taken = {} /\ Taken' = {} /\ Mailed' = Mailed
        BY <3>1, <3>2, <4>1 DEF At, Mailed, mailVars
      <4> QED BY <4>1, <4>2 DEF Slot!Next, Slot!Withdraw
    <3>6. CASE Compose(m)
      <4>1. /\ here[m].step = "compose" /\ here'[m].step = "enqueue" /\ UNCHANGED <<slot, put>>
            /\ drafts' = [drafts EXCEPT ![Run(m)] = [words |-> here[m].ask, state |-> "unqueued"]]
        BY <1>1, <3>6 DEF Compose, Goto, At, Local, convVars, historyVars
      <4>2. Run(m) \in Runs /\ here[m].ask \in Asks \cup {NoAsk}
        BY <1>1, <2>2, AtStep DEF Local
      <4>3. drafts[Run(m)].words = NoAsk
        <5>1. ~Past(Run(m))
            BY <4>1, NotPast
        <5>2. ASSUME NEW n \in Messages, Run(m) = Run(n), here[n].step \in {"enqueue", "remember"} PROVE FALSE
            BY <4>1, <5>2, RunsApart
        <5> QED BY <4>2, <5>1, <5>2 DEF Settled
      <4>4. Mailed' = Mailed \cup ({here[m].ask} \ {NoAsk})
        <5>1. \A r \in Runs : drafts'[r].words = IF r = Run(m) THEN here[m].ask ELSE drafts[r].words
            BY <1>1, <4>1
        <5> QED BY <4>2, <4>3, <5>1 DEF Mailed
      <4>5. Taken = {here[m].ask} \ {NoAsk} /\ Taken' = {}
        BY <3>1, <3>2, <4>1 DEF At
      <4>6. CASE here[m].ask = NoAsk
        BY <4>1, <4>4, <4>5, <4>6
      <4>7. CASE here[m].ask # NoAsk
        <5>1. Slot!Send(here[m].ask)
            BY <4>1, <4>4, <4>5, <4>7 DEF Slot!Send
        <5> QED BY <4>2, <4>7, <5>1 DEF Slot!Next
      <4> QED BY <4>6, <4>7
    <3>7. CASE ~Ask(m) /\ ~Draft(m) /\ ~Clear(m) /\ ~Withdraw(m) /\ ~Compose(m)
      <4>1. \A n \in Messages : n # m => ~Ask(n) /\ ~Draft(n) /\ ~Clear(n) /\ ~Withdraw(n) /\ ~Compose(n)
        BY <2>2, OneHandler DEF Ask, Draft, Clear, Withdraw, Compose, At
      <4>2. UNCHANGED <<slot, put>> /\ Mailed' = Mailed
        BY <3>7, <4>1, SlotMoves, MailedMoves
      <4>3. Taken' = {}
        <5>1. At(m, "compose")' => here'[m].ask = NoAsk
            BY <1>3, <2>2, <3>7, Enters, OwnIs DEF At, Common, Receive, Base, Fits, Fit
        <5> QED BY <3>2, <5>1
      <4>4. CASE Taken = {}
        BY <4>2, <4>3, <4>4
      <4>5. CASE Taken # {}
        <5>1. Taken = {here[m].ask} /\ here[m].ask \in Asks
            BY <1>1, <3>1, <4>5 DEF Local
        <5>2. Slot!Lose(here[m].ask)
            BY <4>2, <4>3, <5>1 DEF Slot!Lose
        <5> QED BY <5>1, <5>2 DEF Slot!Next
      <4> QED BY <4>4, <4>5
    <3> QED BY <3>3, <3>4, <3>5, <3>6, <3>7
  <2> QED BY <2>1, <2>2
<1> QED BY <1>2, <1>3, NextCases

\* Where one message is handled at a time, the conversation's row keeps Confirmation's promise: the
\* next tap takes the question that is open, and what was taken is sent at most once
\* (setPendingAction, takePendingAction).
THEOREM OneAtATimeConfirms ==
    ASSUME Concurrency = 1
    PROVE  Spec => ConfirmationSpec
<1> DEFINE Inv == Base /\ RunningBounded /\ Settled
<1>1. Init => Inv
    BY BaseInit, RunningInit, SettledInit
<1>2. Inv /\ [Next]_vars => Inv'
    BY BaseNext, RunningNext, SettledNext
<1>3. Inv /\ Inv' /\ [Next]_vars => [Slot!Next]_Slot!vars
    BY ConfirmationNext
<1>4. Init => Slot!Init
    BY ConfirmationInit
<1> HIDE DEF Inv
<1> QED BY <1>1, <1>2, <1>3, <1>4, PTL DEF Spec, ConfirmationSpec, Slot!Spec

-----------------------------------------------------------------------------
(***************************************************************************)
(* The mailbox behind the conversation.                                    *)
(***************************************************************************)

\* Wherever the conversation has left an email, an undo puts it back, with the exceptions Restores
\* names (UndoService.undo, inverseOf).
THEOREM UndoRestoresFromHere == Spec => []UndoRestores
<1>1. TypeOK => UndoRestores
    <2>1. RestoredFrom = Places
        BY UndoRestoresMail DEF RestoredFrom
    <2> QED BY <2>1 DEF TypeOK, UndoRestores, Places
<1> QED BY <1>1, TypesHold, PTL

\* Wherever it has left an email, the row goes on saying where the message is, as long as it is
\* written and Outlook's folders have their English names (MailboxActionService.apply,
\* applyLocalEffect).
THEOREM MirrorFollowsFromHere ==
    ASSUME PathOf["deleteditems"] = <<"deleted items">>, PathOf["junkemail"] = <<"junk email">>
    PROVE  Spec => []MirrorFollows
<1>1. TypeOK => MirrorFollows
    <2>1. FollowedFrom = Places
        BY RowFollowsMail DEF FollowedFrom
    <2> QED BY <2>1 DEF TypeOK, MirrorFollows, Places
<1> QED BY <1>1, TypesHold, PTL

\* Wherever it has left an email, a write to the row that is lost is made up for by the same command
\* or its undo, unless Outlook has moved the message (MailboxActionService.mirror).
THEOREM LostWriteMendsFromHere ==
    ASSUME PathOf["deleteditems"] = <<"deleted items">>, PathOf["junkemail"] = <<"junk email">>
    PROVE  Spec => []LostWriteMends
<1>1. TypeOK => LostWriteMends
    <2>1. MendedFrom = Places
        BY LostWritesMend DEF MendedFrom
    <2> QED BY <2>1 DEF TypeOK, LostWriteMends, Places
<1> QED BY <1>1, TypesHold, PTL
=============================================================================
