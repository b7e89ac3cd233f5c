------------------------------ MODULE CarbonInt ------------------------------
(***************************************************************************)
(* Carbon's compact signed integers: write_big_int / read_big_int of the   *)
(* codec, and IntX, which takes a fixed eight-byte form when the value     *)
(* fits.                                                                   *)
(*                                                                         *)
(* A word of 32 bytes is WordDigits digits, a digit standing for           *)
(* DigitBytes bytes; eight bytes are SafeDigits digits.  The content of a  *)
(* number on the wire is the unsigned value of its digits.                 *)
(***************************************************************************)
EXTENDS Integers

CONSTANTS Base, DigitBytes, SafeDigits, WordDigits

ASSUME CarbonIntAssumption ==
    /\ Base \in Nat /\ Base > 1 /\ Base % 2 = 0
    /\ DigitBytes \in Nat \ {0}
    /\ SafeDigits \in Nat \ {0} /\ WordDigits \in Nat /\ SafeDigits < WordDigits
    /\ SafeDigits * DigitBytes = 8 /\ WordDigits * DigitBytes = 32

Modulus(digits) ==
    LET power[d \in 0..digits] == IF d = 0 THEN 1 ELSE Base * power[d - 1]
    IN  power[digits]

\* The number that these digits are in two's complement.
AsSigned(u, digits) ==
    IF 2 * u >= Modulus(digits) THEN u - Modulus(digits) ELSE u

Word == Modulus(WordDigits)

\* _big_int_word: only a value of more than 256 bits is refused, so one in
\* the upper half of the unsigned range is silently taken modulo the word.
Encodable(v) == v > -Word /\ v < Word

Is8ByteSafe(v) ==
    2 * v >= -Modulus(SafeDigits) /\ 2 * v < Modulus(SafeDigits)

IsInt256(v) == 2 * v >= -Word /\ 2 * v < Word

-----------------------------------------------------------------------------
(* A number on the wire: the parts of its header byte and its content.     *)

Packed(digits, negative, content) ==
    [length |-> digits * DigitBytes, overlong |-> FALSE, negative |-> negative,
     content |-> content]

\* The content that a word keeps once its fill digits are cut off the top.
Fill(digits, negative) == IF negative THEN Word - Modulus(digits) ELSE 0

Fits(u, digits, negative) ==
    IF negative THEN u >= Fill(digits, TRUE) ELSE u < Modulus(digits)

\* write_big_int, whose special case for 0 is the general one for 0.
PackBigInt(v) ==
    LET u == v % Word
        negative == 2 * u >= Word
        digits == CHOOSE d \in 0..WordDigits :
                    Fits(u, d, negative) /\ \A e \in 0..(d - 1) : ~Fits(u, e, negative)
    IN  Packed(digits, negative, u - Fill(digits, negative))

\* IntX.write_carbon
PackIntX(v) ==
    IF Is8ByteSafe(v) THEN Packed(SafeDigits, v < 0, v % Modulus(SafeDigits))
    ELSE PackBigInt(v)

-----------------------------------------------------------------------------
(* Reading: whether the number is accepted, and its value.                 *)

Digits(p) == p.length \div DigitBytes

\* A slip of Unpacked: the digits above the content are always 0.
UnpackedUnfilled(p) == p.content

\* The word a header and its content stand for.
Unpacked(p) == p.content + Fill(Digits(p), p.negative)

\* read_big_int_with_header
BigIntAccepted(p) ==
    /\ ~p.overlong /\ p.length <= WordDigits * DigitBytes
    /\ (2 * Unpacked(p) >= Word) = p.negative

\* IntX.read_carbon: eight bytes whose sign is not the header's are the low
\* digits of a word.
IntXAccepted(p) ==
    /\ p.length >= 8
    /\ p.length = 8 \/ BigIntAccepted(p)

IntXValue(p) ==
    IF p.length = 8 /\ p.negative = (2 * p.content >= Modulus(SafeDigits))
    THEN AsSigned(p.content, SafeDigits)
    ELSE AsSigned(Unpacked(p), WordDigits)
=============================================================================
