------------------------------ MODULE WalFile ------------------------------
(***************************************************************************)
(* The physical write-ahead log (internal/storage/wal).  A file is a       *)
(* sequence of blocks of Block bytes.  A record is cut into fragments that *)
(* do not cross blocks, each behind a header of Header bytes; what is left *)
(* of a block and too short for a header is padding.                       *)
(*                                                                         *)
(* A file is given by the sequence of its fragments and paddings with      *)
(* their offsets, and by its size, which after a crash may cut the last of *)
(* them.  A header read at an offset where no fragment begins fails its    *)
(* checksum; so does padding that is not zero.                             *)
(***************************************************************************)
EXTENDS Naturals, Sequences

Ext == INSTANCE SequencesExt

CONSTANTS Block, Header,
          Size(_)  \* the bytes of a record

Lesser(a, b) == IF a < b THEN a ELSE b
---------------------------------------------------------------------------
(* Writer *)

ChooseFragmentKind(first, last) ==
  IF first THEN (IF last THEN "full" ELSE "first") ELSE (IF last THEN "last" ELSE "middle")

\* Writer.Append: what a record adds to a file that ends at offset.  The room
\* after the first header may be zero; the first fragment is then empty.
Appended(rec, offset) ==
  LET write[first \in BOOLEAN, consumed \in Nat, at \in Nat] ==
        LET room == Block - (at % Block)
            padded == room < Header
            start == IF padded THEN at + room ELSE at
            len == Lesser(Size(rec) - consumed, (IF padded THEN Block ELSE room) - Header)
            last == consumed + len = Size(rec)
            frag == [at |-> start, len |-> len, rec |-> rec, kind |-> ChooseFragmentKind(first, last)]
        IN (IF padded THEN <<[at |-> at, len |-> room, rec |-> rec, kind |-> "padding"]>> ELSE <<>>)
           \o <<frag>>
           \o (IF last THEN <<>> ELSE write[FALSE, consumed + len, start + Header + len])
  IN write[TRUE, 0, offset]

EndOf(parts) ==
  IF parts = <<>> THEN 0
  ELSE LET p == parts[Len(parts)] IN p.at + p.len + IF p.kind = "padding" THEN 0 ELSE Header

\* The file after these records were appended, one after the other.
FileOf(records) == Ext!FoldLeft(LAMBDA parts, rec : parts \o Appended(rec, EndOf(parts)), <<>>, records)
---------------------------------------------------------------------------
(* Reader *)

NewReader == [offset |-> 0, validEnd |-> 0, records |-> <<>>, assembling |-> FALSE, recordAt |-> 0,
              tail |-> FALSE, tailAt |-> 0, err |-> FALSE, done |-> FALSE]

IncompleteStart(r) == IF r.assembling THEN r.recordAt ELSE r.validEnd
MarkTail(r, at) == [r EXCEPT !.tail = TRUE, !.tailAt = at, !.done = TRUE]
Corrupt(r) == [r EXCEPT !.err = TRUE, !.done = TRUE]

FinishRecord(r, rec) ==
  [r EXCEPT !.records = Append(@, rec), !.validEnd = r.offset, !.assembling = FALSE]

AcceptFragment(r, p) ==
  CASE p.kind \in {"full", "first"} /\ r.assembling -> Corrupt(r)
    [] p.kind \in {"middle", "last"} /\ ~r.assembling -> Corrupt(r)
    [] p.kind = "full" /\ ~r.assembling -> FinishRecord(r, p.rec)
    [] p.kind = "first" /\ ~r.assembling -> [r EXCEPT !.assembling = TRUE, !.recordAt = p.at]
    [] p.kind = "middle" /\ r.assembling -> r
    [] p.kind = "last" /\ r.assembling -> FinishRecord(r, p.rec)

ConsumePadding(r, p, room, size) ==
  LET available == Lesser(room, size - r.offset)
      s == [r EXCEPT !.offset = @ + available]
  IN IF p.at # r.offset \/ p.kind # "padding" THEN Corrupt(r)
     ELSE IF available < room THEN MarkTail(s, IncompleteStart(s)) ELSE s

AtEnd(r) == IF r.assembling THEN MarkTail(r, r.recordAt) ELSE [r EXCEPT !.done = TRUE]

\* One turn of the loop in Reader.Next, at the part of the file that follows.
Step(r, p, size) ==
  LET room == Block - (r.offset % Block) IN
  CASE r.done -> r
    [] ~r.done /\ r.offset = size -> AtEnd(r)
    [] ~r.done /\ r.offset # size /\ room < Header -> ConsumePadding(r, p, room, size)
    [] ~r.done /\ r.offset # size /\ room >= Header ->
         IF size - r.offset < Header THEN MarkTail(r, IncompleteStart(r))
         ELSE IF p.at # r.offset \/ p.kind = "padding" \/ p.len > room - Header THEN Corrupt(r)
         ELSE IF size - (r.offset + Header) < p.len THEN MarkTail(r, IncompleteStart(r))
         ELSE AcceptFragment([r EXCEPT !.offset = @ + Header + p.len], p)

Scan(parts, size) ==
  LET r == Ext!FoldLeft(LAMBDA s, p : Step(s, p, size), NewReader, parts)
  IN IF r.done THEN r ELSE AtEnd(r)
---------------------------------------------------------------------------
(* Recovery *)

\* Mutant: the tail is kept from where it was found to be incomplete.
RepairedAtTail(parts, size) == LET r == Scan(parts, size) IN IF r.tail THEN r.offset ELSE size

\* repairWALTail with RepairTail: the size after recovery.
RepairedSize(parts, size) == LET r == Scan(parts, size) IN IF r.tail THEN r.validEnd ELSE size

\* OpenWriter accepts a file that is clean.
MayOpenWriter(parts, size) == LET r == Scan(parts, size) IN ~r.err /\ ~r.tail

\* What is left of a file, and a record appended to it.
Kept(parts, size) == SelectSeq(parts, LAMBDA p : p.at < size)
---------------------------------------------------------------------------
(* What recovery promises for a file of these records, of which the first  *)
(* synced ones are durable, that a crash has cut to size bytes: it is not  *)
(* taken for corrupt, the records that are complete and no others are read, *)
(* and after the repair the log can be opened, appended to and read again. *)
Survives(records, synced, size) ==
  LET parts == FileOf(records)
      found == Scan(parts, size)
      z == RepairedSize(parts, size)
      kept == Kept(parts, z)
      again == kept \o Appended(records[1], z)
      n == Len(found.records)
  IN /\ ~found.err /\ n >= synced /\ found.records = SubSeq(records, 1, n)
     /\ n < Len(records) => EndOf(FileOf(SubSeq(records, 1, n + 1))) > size
     /\ MayOpenWriter(kept, z)
     /\ LET r == Scan(again, EndOf(again)) IN ~r.err /\ ~r.tail /\ r.records = Append(found.records, records[1])
============================================================================
