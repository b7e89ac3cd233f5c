----------------------------- MODULE CarbonWire -----------------------------
(***************************************************************************)
(* The Carbon codec: CarbonWriter, CarbonReader and the layouts of the     *)
(* classes that are written with them.                                     *)
(*                                                                         *)
(* A stream is a sequence of cells [w |-> bytes, v |-> integer], one for   *)
(* each fixed-width field and one for each run of opaque bytes, so that    *)
(* byte counts are exact.  An object is the tuple of its fields, and a     *)
(* layout is the sequence of its fields' kinds.  The objects of a list     *)
(* hold no lists, so fields that are none (items) come first.              *)
(***************************************************************************)
EXTENDS CarbonInt, Sequences

CONSTANT Top    \* bound: the largest value of an unsigned field

ASSUME WireAssumption == Top \in Nat

\* Opaque bytes: how many, and which.
Blob(n, id) == [n |-> n, id |-> id]
Empty == Blob(0, 0)
IsBlob(b) == b \in [n : Nat, id : Int] /\ (b.n = 0 => b = Empty)

-----------------------------------------------------------------------------
(* Kinds of field.                                                         *)

Ranged(width, low, high) ==
    [kind |-> "int", width |-> width, low |-> low, high |-> high]
Unsigned(width) == Ranged(width, 0, Top)
Integer(width) == Ranged(width, -Top - 1, Top)
Byte == Ranged(1, 0, 255)
Bytes32 == Unsigned(32)
Bytes64 == Unsigned(64)
Text == [kind |-> "text"]                    \* SmallString
ByteArray == [kind |-> "bytes"]
IntX == [kind |-> "intx"]
ArgSections == [kind |-> "sections"]         \* TxMsgCall's arguments
ListOf(layout) == [kind |-> "list", item |-> layout]

\* Is v a value of a field of this kind, as the classes declare them?
IsList(v) == v \in Seq({v[i] : i \in DOMAIN v})

IsSections(a) ==
    /\ IsBlob(a.args) /\ IsList(a.sections)
    /\ \A i \in 1..Len(a.sections) :
          IsBlob(a.sections[i].args) /\ a.sections[i].offset \in Int

IsItem(f, v) ==
    CASE f.kind \in {"int", "intx"} -> v \in Int
      [] f.kind \in {"text", "bytes"} -> IsBlob(v)
      [] f.kind = "sections" -> IsSections(v)

AreItems(layout, items) ==
    /\ Len(items) = Len(layout)
    /\ \A i \in 1..Len(layout) : IsItem(layout[i], items[i])

IsField(f, v) ==
    IF f.kind = "list" THEN IsList(v) /\ \A i \in 1..Len(v) : AreItems(f.item, v[i])
    ELSE IsItem(f, v)

AreFields(layout, fields) ==
    /\ Len(fields) = Len(layout)
    /\ \A i \in 1..Len(layout) : IsField(layout[i], fields[i])

-----------------------------------------------------------------------------
(* Writing: the cells, and whether every range check passed.               *)

Written(cells) == [ok |-> TRUE, cells |-> cells]
Cell(width, v) == Written(<<[w |-> width, v |-> v]>>)
Refuse == [ok |-> FALSE, cells |-> <<>>]
When(test, w) == IF test THEN w ELSE Refuse

a ++ b == [ok |-> a.ok /\ b.ok, cells |-> a.cells \o b.cells]

\* Pieces one after the other.
WriteRow(pieces) ==
    LET joined[i \in 0..Len(pieces)] ==
          IF i = 0 THEN Written(<<>>) ELSE joined[i - 1] ++ pieces[i]
    IN  joined[Len(pieces)]

Size(cells) ==
    LET total[i \in 0..Len(cells)] == IF i = 0 THEN 0 ELSE total[i - 1] + cells[i].w
    IN  total[Len(cells)]

WriteRaw(b) == IF b.n = 0 THEN Written(<<>>) ELSE Cell(b.n, b.id)

WriteByteArray(b) == Cell(4, b.n) ++ WriteRaw(b)

WriteText(b) == When(b.n <= 255, Cell(1, b.n) ++ WriteRaw(b))

Header(p) ==
    p.length + (IF p.overlong THEN 64 ELSE 0) + (IF p.negative THEN 128 ELSE 0)

WritePacked(p) == Cell(1, Header(p)) ++ WriteRaw(Blob(p.length, p.content))

WriteBigInt(v) == When(Encodable(v), WritePacked(PackBigInt(v)))

WriteIntX(v) == When(Encodable(v), WritePacked(PackIntX(v)))

\* TxMsgCall's arguments: plain bytes, or sections behind a negative count.  A
\* section with a negative offset is the offset alone, if it fits four bytes,
\* and one with any other offset is its bytes alone.
WriteSection(s) ==
    IF s.offset < 0 THEN When(-Top - 1 <= s.offset, Cell(4, s.offset))
    ELSE WriteByteArray(s.args)

WriteSections(a) ==
    IF a.sections = <<>> THEN WriteByteArray(a.args)
    ELSE Cell(4, -Len(a.sections))
         ++ WriteRow([i \in 1..Len(a.sections) |-> WriteSection(a.sections[i])])

WriteItem(f, v) ==
    CASE f.kind = "int" -> When(v \in f.low..f.high, Cell(f.width, v))
      [] f.kind = "text" -> WriteText(v)
      [] f.kind = "bytes" -> WriteByteArray(v)
      [] f.kind = "intx" -> WriteIntX(v)
      [] f.kind = "sections" -> WriteSections(v)

WriteItems(layout, items) ==
    WriteRow([i \in 1..Len(layout) |-> WriteItem(layout[i], items[i])])

WriteField(f, v) ==
    IF f.kind = "list"
    THEN Cell(4, Len(v)) ++ WriteRow([i \in 1..Len(v) |-> WriteItems(f.item, v[i])])
    ELSE WriteItem(f, v)

\* write_carbon of a class with this layout.
Write(layout, fields) ==
    WriteRow([i \in 1..Len(layout) |-> WriteField(layout[i], fields[i])])

-----------------------------------------------------------------------------
(* Reading: what was read, and the rest of the stream.  A reader is a      *)
(* function of the stream.                                                 *)

Stream == Seq([w : Nat, v : Int])

Got(v, rest) == [ok |-> TRUE, v |-> v, rest |-> rest]
Fails == [ok |-> FALSE, v |-> 0, rest |-> <<>>]
Then(r, More(_, _)) == IF r.ok THEN More(r.v, r.rest) ELSE Fails
If(test, r) == IF test THEN r ELSE Fails
Map(r, F(_)) == IF r.ok THEN Got(F(r.v), r.rest) ELSE Fails

\* CarbonReader.read: a cell that was cut short is the end of the stream.
Take(width, s) ==
    IF s = <<>> THEN Fails
    ELSE If(Head(s).w = width, Got(Head(s).v, Tail(s)))

ReadRaw(n, s) ==
    IF n = 0 THEN Got(Empty, s) ELSE Map(Take(n, s), LAMBDA id : Blob(n, id))

\* read_length
ReadLength(s) ==
    Then(Take(4, s), LAMBDA n, rest : If(n >= 0 /\ n <= Size(rest), Got(n, rest)))

ReadByteArray(s) == Then(ReadLength(s), ReadRaw)

ReadText(s) == Then(Take(1, s), ReadRaw)

ReadPacked(s) ==
    Then(Take(1, s), LAMBDA h, rest :
        Map(ReadRaw(h % 64, rest), LAMBDA b :
            [length |-> h % 64, overlong |-> (h \div 64) % 2 = 1,
             negative |-> h >= 128, content |-> b.id]))

ReadBigInt(s) ==
    Then(ReadPacked(s), LAMBDA p, rest :
        If(BigIntAccepted(p), Got(AsSigned(Unpacked(p), WordDigits), rest)))

ReadIntX(s) ==
    Then(ReadPacked(s), LAMBDA p, rest :
        If(IntXAccepted(p), Got(IntXValue(p), rest)))

ReadSection(s) ==
    Then(Take(4, s), LAMBDA n, rest :
        IF n < 0 THEN Got([offset |-> n, args |-> Empty], rest)
        ELSE Map(ReadRaw(n, rest), LAMBDA b : [offset |-> 0, args |-> b]))

\* Readers one after the other.
ReadRow(readers, s) ==
    LET read[i \in 0..Len(readers)] ==
          IF i = 0 THEN Got(<<>>, s)
          ELSE Then(read[i - 1], LAMBDA out, rest :
                 Map(readers[i][rest], LAMBDA v : Append(out, v)))
    IN  read[Len(readers)]

\* n objects.
Repeat(n, s, ReadOne(_)) ==
    ReadRow([i \in 1..n |-> [r \in Stream |-> ReadOne(r)]], s)

ReadSections(s) ==
    Then(Take(4, s), LAMBDA n, rest :
        IF n >= 0
        THEN Map(ReadRaw(n, rest), LAMBDA b : [args |-> b, sections |-> <<>>])
        ELSE Map(Repeat(-n, rest, ReadSection),
                 LAMBDA ss : [args |-> Empty, sections |-> ss]))

ReadItem(f, s) ==
    CASE f.kind = "int" -> Take(f.width, s)
      [] f.kind = "text" -> ReadText(s)
      [] f.kind = "bytes" -> ReadByteArray(s)
      [] f.kind = "intx" -> ReadIntX(s)
      [] f.kind = "sections" -> ReadSections(s)

ReadItems(layout, s) ==
    ReadRow([i \in 1..Len(layout) |-> [r \in Stream |-> ReadItem(layout[i], r)]], s)

ReadField(f, s) ==
    IF f.kind = "list"
    THEN Then(ReadLength(s), LAMBDA n, rest :
             Repeat(n, rest, LAMBDA r : ReadItems(f.item, r)))
    ELSE ReadItem(f, s)

\* read_carbon of a class with this layout.
Read(layout, s) ==
    ReadRow([i \in 1..Len(layout) |-> [r \in Stream |-> ReadField(layout[i], r)]], s)

\* What the writer makes of values that have more than one reading.
MeantSection(s) ==
    IF s.offset < 0 THEN [offset |-> s.offset, args |-> Empty]
    ELSE [offset |-> 0, args |-> s.args]

MeantArgs(a) ==
    IF a.sections = <<>> THEN [args |-> a.args, sections |-> <<>>]
    ELSE [args |-> Empty,
          sections |-> [i \in 1..Len(a.sections) |-> MeantSection(a.sections[i])]]

MeantItem(f, v) == IF f.kind = "sections" THEN MeantArgs(v) ELSE v

MeantItems(layout, items) == [i \in 1..Len(layout) |-> MeantItem(layout[i], items[i])]

MeantField(f, v) ==
    IF f.kind = "list" THEN [i \in 1..Len(v) |-> MeantItems(f.item, v[i])]
    ELSE MeantItem(f, v)

MeantFields(layout, fields) ==
    [i \in 1..Len(layout) |-> MeantField(layout[i], fields[i])]

\* Is every amount of 256 bits with its sign?
AmountsFitItems(layout, items) ==
    \A i \in 1..Len(layout) : layout[i].kind = "intx" => IsInt256(items[i])

AmountsFit(layout, fields) ==
    /\ AmountsFitItems(layout, fields)
    /\ \A i \in 1..Len(layout) : layout[i].kind = "list" =>
          \A j \in 1..Len(fields[i]) : AmountsFitItems(layout[i].item, fields[i][j])

\* deserialize: nothing may be left over.
Whole(r) == If(r.rest = <<>>, r)
=============================================================================
