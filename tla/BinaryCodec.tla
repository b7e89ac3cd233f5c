---------------------------- MODULE BinaryCodec -----------------------------
(***************************************************************************)
(* binary.py: numbers, lengths, byte arrays and texts written one after    *)
(* another, and read back off the front.                                   *)
(*                                                                         *)
(* A byte is a digit of base Base.  A result is <<"ok", value>> or         *)
(* <<"raises", exception>>; the value of a reader is <<what it read, the   *)
(* bytes it left>>.                                                        *)
(***************************************************************************)
EXTENDS Integers, Sequences

CONSTANTS
  Base,          \* values of a byte (256)
  MaxArraySize,  \* MAX_ARRAY_SIZE (2^24)
  Characters     \* characters of texts

Ok(v) == <<"ok", v>>
Raise(e) == <<"raises", e>>
Succeeds(r) == r[1] = "ok"

\* A reader that goes on with what another read.
Then(r, op(_, _)) == IF Succeeds(r) THEN op(r[2][1], r[2][2]) ELSE r

-----------------------------------------------------------------------------
(* Numbers and their digits.                                               *)

\* n divided by the base no times, once, twice, ...
Quotients(n, base, times) ==
  LET q[i \in 0..times] == IF i = 0 THEN n ELSE q[i - 1] \div base IN q

\* The number that has these digits, the most significant first.
NumberOf(digits, base) ==
  LET v[i \in 0..Len(digits)] == IF i = 0 THEN 0 ELSE v[i - 1] * base + digits[i]
  IN  v[Len(digits)]

LittleEndian(n, width) ==
  LET q == Quotients(n, Base, width) IN [i \in 1..width |-> q[i - 1] % Base]

FromLittleEndian(bytes) ==
  NumberOf([i \in DOMAIN bytes |-> bytes[Len(bytes) + 1 - i]], Base)

Power(width) ==
  LET p[i \in 0..width] == IF i = 0 THEN 1 ELSE Base * p[i - 1] IN p[width]

-----------------------------------------------------------------------------
(* Writing.  No length here reaches 2^32, and the form of eight bytes is   *)
(* only read.                                                              *)

VarUint(n) ==
  IF n < Base - 3 THEN <<n>>
  ELSE IF n < Power(2) THEN <<Base - 3>> \o LittleEndian(n, 2)
  ELSE <<Base - 2>> \o LittleEndian(n, 4)

VarBytes(bytes) == VarUint(Len(bytes)) \o bytes

-----------------------------------------------------------------------------
(* Reading.                                                                *)

Take(bytes, n) ==
  IF n > Len(bytes) THEN Raise("SerializationError")
  ELSE Ok(<<SubSeq(bytes, 1, n), SubSeq(bytes, n + 1, Len(bytes))>>)

TakeNumber(bytes, n) ==
  Then(Take(bytes, n), LAMBDA digits, rest : Ok(<<FromLittleEndian(digits), rest>>))

TakeVarUint(bytes) ==
  Then(TakeNumber(bytes, 1), LAMBDA first, rest :
    CASE first = Base - 3 -> TakeNumber(rest, 2)
      [] first = Base - 2 -> TakeNumber(rest, 4)
      [] first = Base - 1 -> TakeNumber(rest, 8)
      [] OTHER -> Ok(<<first, rest>>))

TakeVarBytes(bytes) ==
  Then(TakeVarUint(bytes), LAMBDA size, rest :
    IF size > MaxArraySize THEN Raise("SerializationError") ELSE Take(rest, size))

-----------------------------------------------------------------------------
(* Texts.  code gives the UTF-8 bytes, or the UTF-16 units, of a character.*)

Encoded(code, text) ==
  LET units[i \in 0..Len(text)] == IF i = 0 THEN << >> ELSE units[i - 1] \o code[text[i]]
  IN  units[Len(text)]

Starts(part, seq) == Len(part) <= Len(seq) /\ SubSeq(seq, 1, Len(part)) = part

TakeCharacter(code, units) ==
  IF \E c \in Characters : Starts(code[c], units)
    THEN LET c == CHOOSE c \in Characters : Starts(code[c], units)
         IN  Ok(<<c, SubSeq(units, Len(code[c]) + 1, Len(units))>>)
    ELSE Raise("UnicodeDecodeError")

\* Characters off the front, until no unit is left.
FromUtf(code, units) ==
  LET read[i \in 0..Len(units)] ==
        IF i = 0 THEN Ok(<<<< >>, units>>)
        ELSE Then(read[i - 1], LAMBDA text, left :
               IF left = << >> THEN Ok(<<text, left>>)
               ELSE Then(TakeCharacter(code, left), LAMBDA c, more : Ok(<<Append(text, c), more>>)))
  IN  Then(read[Len(units)], LAMBDA text, left : Ok(text))

=============================================================================
