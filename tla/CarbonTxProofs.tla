--------------------------- MODULE CarbonTxProofs ---------------------------
(* Proofs about CarbonTx, for every set of messages, keys and losses: a       *)
(* transaction is read only from the bytes that were written, as the message  *)
(* that was signed, with signatures that verify, and is as long as the fee    *)
(* estimator takes it to be.                                                  *)
EXTENDS CarbonTx, TLAPS, SequenceTheorems, WellFoundedInduction

-----------------------------------------------------------------------------
(* Numbers and sequences.                                                  *)

\* Induction on a set of numbers: the least number outside it is neither 0 nor
\* the successor of one inside.
LEMMA NumberInduction ==
    ASSUME NEW S, 0 \in S, \A n \in Nat : n \in S => n + 1 \in S
    PROVE  Nat \subseteq S
<1> DEFINE outside == Nat \ S
<1> SUFFICES ASSUME outside # {} PROVE FALSE
  OBVIOUS
<1>1. PICK least \in outside : \A n \in outside : ~(<<n, least>> \in OpToRel(<, Nat))
  BY NatLessThanWellFounded, WFMin
<1>2. \A n \in outside : ~(n < least)
  BY <1>1 DEF OpToRel
<1>3. least \in Nat \ {0}
  OBVIOUS
<1>4. least - 1 \in Nat /\ least - 1 < least /\ (least - 1) + 1 = least
  BY <1>3
<1>5. QED
  BY <1>2, <1>4

\* A set of numbers has a least one.
LEMMA LeastNumber ==
    ASSUME NEW S, S \subseteq Nat, S # {}
    PROVE  \E least \in S : \A n \in S : least <= n
<1>1. PICK least \in S : \A n \in S : ~(<<n, least>> \in OpToRel(<, Nat))
  BY NatLessThanWellFounded, WFMin
<1>2. \A n \in S : ~(n < least)
  BY <1>1 DEF OpToRel
<1>3. QED
  BY <1>2

\* A concatenation, part by part.
LEMMA Parts ==
    ASSUME NEW S, NEW s \in Seq(S), NEW t \in Seq(S)
    PROVE  /\ s \o t \in Seq(S) /\ Len(s \o t) = Len(s) + Len(t)
           /\ \A k \in 1..Len(s) : (s \o t)[k] = s[k]
           /\ \A k \in 1..Len(t) : (s \o t)[Len(s) + k] = t[k]
<1>1. Len(s) \in Nat /\ Len(t) \in Nat
  OBVIOUS
<1>2. ASSUME NEW k \in 1..Len(t) PROVE (s \o t)[Len(s) + k] = t[k]
  <2>1. /\ Len(s) + k \in 1..(Len(s) + Len(t))
        /\ ~(Len(s) + k <= Len(s)) /\ Len(s) + k - Len(s) = k
    BY <1>1
  <2> QED
    BY <2>1, ConcatProperties
<1>3. ASSUME NEW k \in 1..Len(s) PROVE (s \o t)[k] = s[k]
  BY <1>1, ConcatProperties
<1>4. QED
  BY <1>2, <1>3, ConcatProperties

\* The powers of the base, one after the other.
LEMMA PowerFunction ==
    ASSUME NEW n \in Nat
    PROVE  \E p : /\ Modulus(n) = p[n]
                  /\ p = [d \in 0..n |-> IF d = 0 THEN 1 ELSE Base * p[d - 1]]
<1> DEFINE value(d, x) == IF d = 0 THEN 1 ELSE Base * x
           right(k, f) == f = [d \in 0..k |-> value(d, f[d - 1])]
           S == {k \in Nat : \E f : right(k, f)}
<1>1. 0 \in S
  <2> DEFINE f == [d \in 0..0 |-> value(0, 0)]
  <2>1. right(0, f)
    OBVIOUS
  <2> QED
    BY <2>1
<1>2. ASSUME NEW k \in Nat, k \in S PROVE k + 1 \in S
  <2>1. PICK f : right(k, f)
    BY <1>2
  <2> HIDE DEF value
  <2> DEFINE g == [d \in 0..(k + 1) |-> IF d <= k THEN f[d] ELSE value(d, f[d - 1])]
  <2>2. ASSUME NEW d \in 0..(k + 1) PROVE g[d] = value(d, g[d - 1])
    <3>1. CASE d = 0
      BY <2>1, <3>1 DEF value
    <3>2. CASE d > 0
      <4>1. g[d - 1] = f[d - 1]
        BY <3>2
      <4>2. g[d] = value(d, f[d - 1])
        BY <2>1, <3>2
      <4> QED
        BY <4>1, <4>2
    <3> QED
      BY <3>1, <3>2
  <2>3. right(k + 1, g)
    BY <2>2
  <2>4. \E h : right(k + 1, h)
    <3> HIDE DEF right
    <3> QED
      BY <2>3
  <2> HIDE DEF right
  <2> QED
    BY <2>4
<1>3. \E f : right(n, f)
  <2>1. n \in S
    <3> HIDE DEF S
    <3> QED
      BY <1>1, <1>2, NumberInduction
  <2> QED
    BY <2>1
<1>4. QED
  BY <1>3 DEF Modulus

LEMMA Powers ==
    /\ Modulus(0) = 1
    /\ \A n \in Nat : Modulus(n) \in Nat \ {0} /\ Modulus(n + 1) = Base * Modulus(n)
<1>1. ASSUME NEW n \in Nat PROVE Modulus(n) \in Nat \ {0} /\ Modulus(n + 1) = Base * Modulus(n)
  <2>1. PICK p : /\ Modulus(n) = p[n]
                 /\ p = [d \in 0..n |-> IF d = 0 THEN 1 ELSE Base * p[d - 1]]
    BY PowerFunction
  <2>2. PICK q : /\ Modulus(n + 1) = q[n + 1]
                 /\ q = [d \in 0..(n + 1) |-> IF d = 0 THEN 1 ELSE Base * q[d - 1]]
    <3>1. n + 1 \in Nat
      OBVIOUS
    <3> QED
      BY <3>1, PowerFunction
  <2> DEFINE S == {d \in Nat : d <= n => p[d] \in Nat \ {0} /\ p[d] = q[d]}
  <2>3. p[0] = 1 /\ q[0] = 1
    BY <2>1, <2>2
  <2>4. ASSUME NEW d \in Nat, d \in S PROVE d + 1 \in S
    <3> SUFFICES ASSUME d + 1 <= n PROVE p[d + 1] \in Nat \ {0} /\ p[d + 1] = q[d + 1]
      OBVIOUS
    <3>1. p[d + 1] = Base * p[d] /\ q[d + 1] = Base * q[d]
      <4>1. d + 1 \in 0..n /\ d + 1 # 0 /\ (d + 1) - 1 = d
        OBVIOUS
      <4> QED
        BY <2>1, <2>2, <4>1
    <3>2. p[d] \in Nat \ {0} /\ p[d] = q[d]
      BY <2>4
    <3> QED
      BY <3>1, <3>2, CarbonIntAssumption
  <2>5. n \in S
    <3>1. 0 \in S
      BY <2>3
    <3> HIDE DEF S
    <3> QED
      BY <2>4, <3>1, NumberInduction
  <2>6. q[n + 1] = Base * q[n]
    <3>1. n + 1 \in 0..(n + 1) /\ n + 1 # 0 /\ (n + 1) - 1 = n
      OBVIOUS
    <3> QED
      BY <2>2, <3>1
  <2> QED
    BY <2>1, <2>2, <2>5, <2>6
<1>2. Modulus(0) = 1
  BY PowerFunction
<1>3. QED
  BY <1>1, <1>2

\* One digit more makes room for more than twice as many numbers.
LEMMA PowersGrow ==
    ASSUME NEW d \in Nat, NEW e \in Nat, d < e
    PROVE  2 * Modulus(d) <= Modulus(e)
<1> DEFINE S == {k \in Nat : 2 * Modulus(d) <= Modulus(d + 1 + k)}
<1>1. 0 \in S
  <2>1. d + 1 + 0 = d + 1 /\ Modulus(d) \in Nat \ {0}
    BY Powers
  <2>2. Modulus(d + 1) = Base * Modulus(d)
    BY Powers
  <2>3. 2 * Modulus(d) <= Base * Modulus(d)
    BY <2>1, CarbonIntAssumption
  <2> QED
    BY <2>1, <2>2, <2>3
<1>2. ASSUME NEW k \in Nat, k \in S PROVE k + 1 \in S
  <2>1. d + 1 + k \in Nat /\ d + 1 + (k + 1) = (d + 1 + k) + 1
    OBVIOUS
  <2>2. Modulus(d + 1 + k) \in Nat \ {0}
        /\ Modulus(d + 1 + (k + 1)) = Base * Modulus(d + 1 + k)
    BY <2>1, Powers
  <2>3. Modulus(d + 1 + k) <= Base * Modulus(d + 1 + k)
    BY <2>2, CarbonIntAssumption
  <2>4. Modulus(d) \in Nat /\ 2 * Modulus(d) <= Modulus(d + 1 + k)
    BY <1>2, Powers
  <2>5. Modulus(d + 1 + (k + 1)) \in Nat
    BY <2>1, Powers
  <2>6. Modulus(d + 1 + k) <= Modulus(d + 1 + (k + 1))
    BY <2>2, <2>3
  <2>7. 2 * Modulus(d) <= Modulus(d + 1 + (k + 1))
    BY <2>2, <2>4, <2>5, <2>6
  <2> QED
    BY <2>7
<1>3. e - (d + 1) \in S
  <2> HIDE DEF S
  <2>1. e - (d + 1) \in Nat
    OBVIOUS
  <2> QED
    BY <1>1, <1>2, <2>1, NumberInduction
<1>4. d + 1 + (e - (d + 1)) = e
  OBVIOUS
<1>5. QED
  BY <1>3, <1>4

LEMMA WordFacts ==
    /\ Word \in Nat \ {0} /\ Modulus(SafeDigits) \in Nat \ {0}
    /\ 2 * Modulus(SafeDigits) <= Word
    /\ \A d \in 0..WordDigits : Modulus(d) \in Nat \ {0} /\ Modulus(d) <= Word
<1>1. ASSUME NEW d \in 0..WordDigits PROVE Modulus(d) \in Nat \ {0} /\ Modulus(d) <= Word
  <2>1. d \in Nat /\ WordDigits \in Nat /\ (d = WordDigits \/ d < WordDigits)
    BY CarbonIntAssumption
  <2>2. Modulus(d) \in Nat \ {0} /\ Modulus(WordDigits) \in Nat \ {0}
    BY <2>1, Powers
  <2>3. d < WordDigits => 2 * Modulus(d) <= Modulus(WordDigits)
    BY <2>1, PowersGrow
  <2> QED
    BY <2>1, <2>2, <2>3 DEF Word
<1>2. QED
  BY <1>1, Powers, PowersGrow, CarbonIntAssumption DEF Word

-----------------------------------------------------------------------------
(* Numbers on the wire.                                                    *)

\* What write_big_int makes of a number: its word without the fill digits.
LEMMA BigIntPacked ==
    ASSUME NEW v \in Int
    PROVE  \E d \in 0..WordDigits, u \in 0..(Word - 1), negative \in BOOLEAN :
              /\ PackBigInt(v) = Packed(d, negative, u - Fill(d, negative))
              /\ u = v % Word /\ negative = (2 * u >= Word)
              /\ Fits(u, d, negative)
              /\ \A e \in 0..(d - 1) : ~Fits(u, e, negative)
<1> DEFINE u == v % Word
           negative == 2 * u >= Word
           S == {d \in 0..WordDigits : Fits(u, d, negative)}
<1>1. Word \in Nat \ {0} /\ u \in 0..(Word - 1) /\ negative \in BOOLEAN
  BY WordFacts
<1>2. WordDigits \in Nat /\ Modulus(WordDigits) = Word
  BY CarbonIntAssumption DEF Word
<1> HIDE DEF u, negative
<1>3. WordDigits \in S
  BY <1>1, <1>2 DEF Fits, Fill
<1>4. PICK least \in S : \A n \in S : least <= n
  <2>1. S \subseteq Nat /\ S # {}
    BY <1>3
  <2> HIDE DEF S
  <2> QED
    BY <2>1, LeastNumber
<1>5. least \in 0..WordDigits /\ Fits(u, least, negative)
  OBVIOUS
<1>6. \A e \in 0..(least - 1) : ~Fits(u, e, negative)
  BY <1>2, <1>4, <1>5
<1> DEFINE Chosen(d) == Fits(u, d, negative) /\ \A e \in 0..(d - 1) : ~Fits(u, e, negative)
           digits == CHOOSE d \in 0..WordDigits : Chosen(d)
<1>7. digits \in 0..WordDigits /\ Chosen(digits)
  <2>1. Chosen(least)
    BY <1>5, <1>6
  <2> HIDE DEF Chosen
  <2> QED
    BY <1>5, <2>1
<1>8. PackBigInt(v) = Packed(digits, negative, u - Fill(digits, negative))
  BY DEF PackBigInt, u, negative
<1> HIDE DEF digits
<1>9. QED
  BY <1>1, <1>7, <1>8 DEF u, negative

\* The length in the header tells the digits.
LEMMA LengthsTell ==
    ASSUME NEW d \in 0..WordDigits
    PROVE  /\ (d * DigitBytes) \div DigitBytes = d
           /\ d * DigitBytes \in 0..32
           /\ d * DigitBytes <= WordDigits * DigitBytes
           /\ d * DigitBytes >= 8 <=> d >= SafeDigits
           /\ d * DigitBytes = 8 <=> d = SafeDigits
           /\ d * DigitBytes = 0 <=> d = 0
<1>1. /\ d \in Nat /\ DigitBytes \in Nat \ {0} /\ SafeDigits \in Nat /\ WordDigits \in Nat
      /\ SafeDigits * DigitBytes = 8 /\ WordDigits * DigitBytes = 32 /\ d <= WordDigits
  BY CarbonIntAssumption
<1>2. \A a, b \in Nat : a < b => a * DigitBytes < b * DigitBytes
  BY <1>1
<1>3. (d * DigitBytes) \div DigitBytes = d
  BY <1>1
<1>4. d * DigitBytes \in Nat
  BY <1>1
<1>5. d * DigitBytes <= WordDigits * DigitBytes
  BY <1>1, <1>2
<1>6. /\ d < SafeDigits => d * DigitBytes < 8
      /\ SafeDigits < d => 8 < d * DigitBytes
  BY <1>1, <1>2
<1>7. d = SafeDigits => d * DigitBytes = 8
  BY <1>1
<1>8. d * DigitBytes = 0 <=> d = 0
  BY <1>1
<1>9. QED
  BY <1>1, <1>3, <1>4, <1>5, <1>6, <1>7, <1>8

\* What is written of a number, of whichever form.
IsPacked(p) ==
    \E d \in 0..WordDigits, negative \in BOOLEAN, c \in Nat :
        p = Packed(d, negative, c) /\ (d = 0 => c = 0)

LEMMA IntXShape ==
    ASSUME NEW v \in Int
    PROVE  IsPacked(PackIntX(v))
<1>1. CASE Is8ByteSafe(v)
  <2>1. SafeDigits \in 0..WordDigits /\ SafeDigits # 0
    BY CarbonIntAssumption
  <2>2. (v < 0) \in BOOLEAN /\ v % Modulus(SafeDigits) \in Nat
    BY WordFacts
  <2>3. PackIntX(v) = Packed(SafeDigits, v < 0, v % Modulus(SafeDigits))
    BY <1>1 DEF PackIntX
  <2> QED
    BY <2>1, <2>2, <2>3 DEF IsPacked
<1>2. CASE ~Is8ByteSafe(v)
  <2>1. PICK d \in 0..WordDigits, u \in 0..(Word - 1), negative \in BOOLEAN :
           /\ PackBigInt(v) = Packed(d, negative, u - Fill(d, negative))
           /\ Fits(u, d, negative)
    BY BigIntPacked
  <2>2. Word \in Nat \ {0} /\ Modulus(d) \in Nat \ {0} /\ Modulus(d) <= Word
    BY WordFacts
  <2>3. u - Fill(d, negative) \in Nat
    BY <2>1, <2>2 DEF Fits, Fill
  <2>4. d = 0 => u - Fill(d, negative) = 0
    BY <2>1, <2>2, Powers DEF Fits, Fill
  <2>5. PackIntX(v) = PackBigInt(v)
    BY <1>2 DEF PackIntX
  <2> QED
    BY <2>1, <2>3, <2>4, <2>5 DEF IsPacked
<1>3. QED
  BY <1>1, <1>2

\* What an unsafe number is read as, if it is read: its word with a sign.
LEMMA BigIntXRead ==
    ASSUME NEW v \in Int, NEW d \in 0..WordDigits, NEW u \in 0..(Word - 1),
           NEW negative \in BOOLEAN, NEW p,
           p = Packed(d, negative, u - Fill(d, negative)),
           negative = (2 * u >= Word), Fits(u, d, negative)
    PROVE  /\ IntXAccepted(p) <=> d >= SafeDigits
           /\ IntXAccepted(p) => IntXValue(p) = AsSigned(u, WordDigits)
<1>1. /\ Digits(p) = d /\ p.length = d * DigitBytes /\ ~p.overlong
      /\ p.negative = negative /\ p.content = u - Fill(d, negative)
  BY LengthsTell DEF Packed, Digits
<1>2. /\ p.length >= 8 <=> d >= SafeDigits
      /\ p.length = 8 <=> d = SafeDigits
      /\ p.length <= WordDigits * DigitBytes
  BY <1>1, LengthsTell
<1>3. /\ Word \in Nat \ {0} /\ Modulus(d) \in Nat \ {0} /\ Modulus(d) <= Word
      /\ Modulus(SafeDigits) \in Nat \ {0} /\ 2 * Modulus(SafeDigits) <= Word
      /\ Modulus(WordDigits) = Word
  BY WordFacts DEF Word
<1>4. Unpacked(p) = u
  BY <1>1, <1>3 DEF Unpacked, Fill
<1>5. BigIntAccepted(p)
  BY <1>1, <1>2, <1>4 DEF BigIntAccepted
<1>6. IntXAccepted(p) <=> d >= SafeDigits
  BY <1>2, <1>5 DEF IntXAccepted
<1>7. IntXValue(p) = AsSigned(u, WordDigits)
  <2>1. CASE p.length = 8 /\ p.negative = (2 * p.content >= Modulus(SafeDigits))
    <3>1. d = SafeDigits
      BY <1>2, <2>1
    <3>2. IntXValue(p) = AsSigned(p.content, SafeDigits)
      BY <2>1 DEF IntXValue
    <3>3. CASE negative
      <4>1. p.content = u - (Word - Modulus(SafeDigits)) /\ 2 * p.content >= Modulus(SafeDigits)
        BY <1>1, <2>1, <3>1, <3>3 DEF Fill
      <4>2. IntXValue(p) = p.content - Modulus(SafeDigits)
        BY <3>2, <4>1 DEF AsSigned
      <4>3. AsSigned(u, WordDigits) = u - Word
        BY <1>3, <3>3 DEF AsSigned
      <4> QED
        BY <1>3, <4>1, <4>2, <4>3
    <3>4. CASE ~negative
      <4>1. p.content = u /\ ~(2 * p.content >= Modulus(SafeDigits))
        <5>1. Fill(d, negative) = 0 /\ ~p.negative
          BY <1>1, <3>4 DEF Fill
        <5>2. p.content = u
          BY <1>1, <5>1
        <5> QED
          BY <2>1, <5>1, <5>2
      <4>2. IntXValue(p) = u
        BY <3>2, <4>1 DEF AsSigned
      <4>3. AsSigned(u, WordDigits) = u
        BY <1>3, <3>4 DEF AsSigned
      <4> QED
        BY <4>2, <4>3
    <3> QED
      BY <3>3, <3>4
  <2>2. CASE ~(p.length = 8 /\ p.negative = (2 * p.content >= Modulus(SafeDigits)))
    BY <1>4, <2>2 DEF IntXValue
  <2> QED
    BY <2>1, <2>2
<1>8. QED
  BY <1>6, <1>7

\* A number of eight bytes is read as it was written.
LEMMA SafeIntXRead ==
    ASSUME NEW v \in Int, Is8ByteSafe(v)
    PROVE  IntXAccepted(PackIntX(v)) /\ IntXValue(PackIntX(v)) = v /\ IsInt256(v)
<1> DEFINE M == Modulus(SafeDigits)
           c == v % M
           p == PackIntX(v)
<1>1. /\ M \in Nat \ {0} /\ Word \in Nat \ {0} /\ 2 * M <= Word
      /\ 2 * v >= -M /\ 2 * v < M
  BY WordFacts DEF Is8ByteSafe
<1>2. p = Packed(SafeDigits, v < 0, c)
  BY DEF PackIntX
<1>3. SafeDigits \in 0..WordDigits
  BY CarbonIntAssumption
<1>4. p.length = 8 /\ p.negative = (v < 0) /\ p.content = c
  BY <1>2, <1>3, LengthsTell DEF Packed
<1>5. /\ v < 0 => c = v + M
      /\ v >= 0 => c = v
  BY <1>1
<1> HIDE DEF p, c
<1>6. (2 * c >= M) = (v < 0)
  BY <1>1, <1>5
<1>7. IntXAccepted(p)
  BY <1>4 DEF IntXAccepted
<1>8. IntXValue(p) = AsSigned(c, SafeDigits)
  BY <1>4, <1>6 DEF IntXValue
<1>9. AsSigned(c, SafeDigits) = v
  BY <1>1, <1>5, <1>6 DEF AsSigned
<1>10. IsInt256(v)
  BY <1>1 DEF IsInt256
<1>11. QED
  BY <1>7, <1>8, <1>9, <1>10 DEF p

\* An amount of 256 bits with its sign is read as it was written.
LEMMA IntXExact ==
    ASSUME NEW v \in Int, IsInt256(v)
    PROVE  IntXAccepted(PackIntX(v)) /\ IntXValue(PackIntX(v)) = v
<1>1. CASE Is8ByteSafe(v)
  BY <1>1, SafeIntXRead
<1>2. CASE ~Is8ByteSafe(v)
  <2>1. PICK d \in 0..WordDigits, u \in 0..(Word - 1), negative \in BOOLEAN :
           /\ PackBigInt(v) = Packed(d, negative, u - Fill(d, negative))
           /\ u = v % Word /\ negative = (2 * u >= Word) /\ Fits(u, d, negative)
    BY BigIntPacked
  <2>2. PackIntX(v) = PackBigInt(v)
    BY <1>2 DEF PackIntX
  <2>3. /\ Word \in Nat \ {0} /\ Modulus(d) \in Nat \ {0} /\ Modulus(WordDigits) = Word
        /\ Modulus(SafeDigits) \in Nat \ {0} /\ 2 * Modulus(SafeDigits) <= Word
    BY WordFacts DEF Word
  <2>4. /\ v < 0 => u = v + Word
        /\ v >= 0 => u = v
    BY <2>1, <2>3 DEF IsInt256
  <2>5. negative = (v < 0)
    BY <2>1, <2>3, <2>4 DEF IsInt256
  <2>6. d >= SafeDigits
    <3> SUFFICES ASSUME d < SafeDigits PROVE FALSE
      BY CarbonIntAssumption
    <3>1. 2 * Modulus(d) <= Modulus(SafeDigits)
      BY PowersGrow, CarbonIntAssumption
    <3>2. -Modulus(d) <= v /\ v < Modulus(d)
      BY <2>1, <2>3, <2>4, <2>5 DEF Fits, Fill
    <3> QED
      BY <1>2, <2>3, <2>5, <2>4, <3>1, <3>2, <2>1 DEF Is8ByteSafe, Fits, Fill
  <2>7. AsSigned(u, WordDigits) = v
    BY <2>1, <2>3, <2>4, <2>5 DEF AsSigned
  <2>8. IntXAccepted(PackBigInt(v)) /\ IntXValue(PackBigInt(v)) = AsSigned(u, WordDigits)
    BY <2>1, <2>6, BigIntXRead, ZenonT(40)
  <2> QED
    BY <2>2, <2>7, <2>8
<1>3. QED
  BY <1>1, <1>2

\* Whatever a number is read as is written as the same bytes again.
LEMMA IntXAgain ==
    ASSUME NEW v \in Int, Encodable(v), IntXAccepted(PackIntX(v))
    PROVE  /\ IntXValue(PackIntX(v)) \in Int /\ Encodable(IntXValue(PackIntX(v)))
           /\ PackIntX(IntXValue(PackIntX(v))) = PackIntX(v)
<1>1. CASE Is8ByteSafe(v)
  BY <1>1, SafeIntXRead
<1>2. CASE ~Is8ByteSafe(v)
  <2>1. PICK d \in 0..WordDigits, u \in 0..(Word - 1), negative \in BOOLEAN :
           /\ PackBigInt(v) = Packed(d, negative, u - Fill(d, negative))
           /\ u = v % Word /\ negative = (2 * u >= Word)
           /\ Fits(u, d, negative)
           /\ \A e \in 0..(d - 1) : ~Fits(u, e, negative)
    BY BigIntPacked
  <2>2. PackIntX(v) = PackBigInt(v)
    BY <1>2 DEF PackIntX
  <2>3. /\ Word \in Nat \ {0} /\ Modulus(d) \in Nat \ {0} /\ Modulus(WordDigits) = Word
        /\ Modulus(SafeDigits) \in Nat \ {0} /\ 2 * Modulus(SafeDigits) <= Word
    BY WordFacts DEF Word
  <2> DEFINE w == AsSigned(u, WordDigits)
  <2>4. d >= SafeDigits /\ IntXValue(PackIntX(v)) = w
    BY <2>1, <2>2, BigIntXRead, ZenonT(40)
  <2>5. /\ negative => w = u - Word
        /\ ~negative => w = u
    BY <2>1, <2>3 DEF AsSigned
  <2> HIDE DEF w
  <2>6. /\ w \in Int /\ -Word < w /\ w < Word
        /\ (negative => w < 0) /\ (~negative => ~(w < 0))
    <3>1. CASE negative
      <4>1. 2 * u >= Word
        BY <2>1, <3>1
      <4> QED
        BY <2>1, <2>3, <2>5, <3>1, <4>1
    <3>2. CASE ~negative
      BY <2>1, <2>3, <2>5, <3>2
    <3> QED
      BY <3>1, <3>2
  <2>7. w % Word = u
    BY <2>1, <2>3, <2>5, <2>6
  <2>8. PackBigInt(w) = PackBigInt(v)
    BY <2>1, <2>7 DEF PackBigInt
  <2>9. CASE ~Is8ByteSafe(w)
    BY <2>2, <2>4, <2>6, <2>8, <2>9 DEF PackIntX, Encodable
  <2>10. CASE Is8ByteSafe(w)
    <3>1. 2 * w >= -Modulus(SafeDigits) /\ 2 * w < Modulus(SafeDigits)
      BY <2>10 DEF Is8ByteSafe
    <3>2. Fits(u, SafeDigits, negative)
      BY <2>1, <2>3, <2>5, <3>1 DEF Fits, Fill
    <3>3. d = SafeDigits
      <4>1. SafeDigits \in Nat
        BY CarbonIntAssumption
      <4> QED
        BY <2>1, <2>4, <3>2, <4>1
    <3>4. u - Fill(d, negative) = w % Modulus(SafeDigits)
      <4>1. CASE negative
        <5>1. PICK m \in Nat \ {0} : m = Modulus(SafeDigits)
          BY <2>3
        <5>2. w < 0 /\ -m <= w
          BY <2>6, <3>1, <4>1, <5>1
        <5>3. w % m = w + m
          BY <2>6, <5>2
        <5>4. Fill(d, negative) = Word - m
          BY <3>3, <4>1, <5>1 DEF Fill
        <5>5. u - Fill(d, negative) = w + m
          BY <2>1, <2>3, <2>5, <4>1, <5>4
        <5> QED
          BY <5>1, <5>3, <5>5
      <4>2. CASE ~negative
        <5>1. w % Modulus(SafeDigits) = w
          BY <2>3, <2>6, <3>1, <4>2
        <5>2. Fill(d, negative) = 0
          BY <4>2 DEF Fill
        <5> QED
          BY <2>5, <4>2, <5>1, <5>2
      <4> QED
        BY <4>1, <4>2
    <3>5. (w < 0) = negative
      <4>1. CASE negative
        BY <2>6, <4>1
      <4>2. CASE ~negative
        BY <2>6, <4>2
      <4> QED
        BY <4>1, <4>2
    <3>6. PackIntX(w) = Packed(SafeDigits, w < 0, w % Modulus(SafeDigits))
      BY <2>10 DEF PackIntX
    <3>7. PackIntX(w) = Packed(d, negative, u - Fill(d, negative))
      BY <3>3, <3>4, <3>5, <3>6, Zenon
    <3> QED
      BY <2>1, <2>2, <2>4, <2>6, <3>7 DEF Encodable
  <2> QED
    BY <2>9, <2>10
<1>3. QED
  BY <1>1, <1>2

-----------------------------------------------------------------------------
(* Streams, their sizes, and what is left of one that is cut.              *)

ACell == [w : Nat, v : Int]

LEMMA StreamFacts ==
    /\ Stream = Seq(ACell) /\ <<>> \in Stream
    /\ \A x \in ACell : <<x>> \in Stream
    /\ \A a, b \in Stream : a \o b \in Stream /\ Len(a \o b) = Len(a) + Len(b)
    /\ \A a \in Stream : a \o <<>> = a /\ <<>> \o a = a
    /\ \A a, b, c \in Stream : (a \o b) \o c = a \o (b \o c)
<1>1. Stream = Seq(ACell)
  BY DEF Stream, ACell
<1>2. \A a, b \in Seq(ACell) : a \o b \in Seq(ACell) /\ Len(a \o b) = Len(a) + Len(b)
  BY ConcatProperties
<1>3. \A a \in Seq(ACell) : a \o <<>> = a /\ <<>> \o a = a
  BY ConcatEmptySeq
<1>4. \A a, b, c \in Seq(ACell) : (a \o b) \o c = a \o (b \o c)
  BY ConcatAssociative
<1>5. <<>> \in Seq(ACell) /\ \A x \in ACell : <<x>> \in Seq(ACell)
  OBVIOUS
<1>6. QED
  BY <1>1, <1>2, <1>3, <1>4, <1>5

\* The first cell of a stream.
LEMMA FirstCell ==
    ASSUME NEW x \in ACell, NEW t \in Stream
    PROVE  /\ <<x>> \o t \in Stream /\ <<x>> \o t # <<>>
           /\ Head(<<x>> \o t) = x /\ Tail(<<x>> \o t) = t
<1>1. PICK l \in Seq(ACell) : l = <<x>>
  <2>1. <<x>> \in Seq(ACell)
    OBVIOUS
  <2> QED
    BY <2>1, Zenon
<1>2. t \in Seq(ACell)
  BY StreamFacts
<1>3. Len(l) = 1 /\ l[1] = x
  BY <1>1
<1>4. PICK s \in Seq(ACell) : s = l \o t
  BY <1>2, Parts
<1>5. /\ Len(s) = Len(l) + Len(t)
      /\ \A k \in 1..Len(l) : s[k] = l[k]
      /\ \A k \in 1..Len(t) : s[Len(l) + k] = t[k]
  BY ONLY l \in Seq(ACell), <1>2, <1>4, Parts
<1>6. Len(t) \in Nat /\ Len(s) = 1 + Len(t) /\ s[1] = x
  BY <1>2, <1>3, <1>5
<1>7. s # <<>>
  BY <1>6
<1>8. Head(s) = x
  BY <1>6, <1>7
<1>9. Tail(s) = t
  <2>1. /\ Tail(s) \in Seq(ACell) /\ Len(Tail(s)) = Len(s) - 1
        /\ \A i \in 1..Len(Tail(s)) : Tail(s)[i] = s[i + 1]
    BY <1>7, HeadTailProperties
  <2>2. \A k \in 1..Len(t) : s[1 + k] = t[k]
    BY <1>3, <1>5
  <2>3. Len(Tail(s)) = Len(t) /\ \A i \in 1..Len(Tail(s)) : Tail(s)[i] = t[i]
    BY <1>6, <2>1, <2>2
  <2> QED
    BY <1>2, <2>1, <2>3, SeqEqual
<1>10. s \in Stream
  BY StreamFacts
<1>11. QED
  BY <1>1, <1>4, <1>7, <1>8, <1>9, <1>10

\* A part of c: some of its cells, and perhaps some bytes of the next one.
IsCut(s, c) ==
    /\ s \in Stream
    /\ \E n \in 0..(Len(c) - 1) :
         /\ \A i \in 1..n : s[i] = c[i]
         /\ Len(s) = n \/ (Len(s) = n + 1 /\ s[n + 1].w < c[n + 1].w)

LEMMA CutOfNothing == \A s : ~IsCut(s, <<>>)
  BY DEF IsCut

LEMMA CutOfCell ==
    ASSUME NEW x \in ACell, NEW s, IsCut(s, <<x>>)
    PROVE  s = <<>> \/ (s # <<>> /\ Head(s).w # x.w)
<1>1. s \in Seq(ACell) /\ Len(s) \in Nat
  BY StreamFacts DEF IsCut
<1>2. PICK n \in 0..(Len(<<x>>) - 1) :
         Len(s) = n \/ (Len(s) = n + 1 /\ s[n + 1].w < <<x>>[n + 1].w)
  BY DEF IsCut
<1>3. n = 0 /\ <<x>>[n + 1] = x
  BY <1>2
<1>4. CASE Len(s) = 0
  BY <1>1, <1>4
<1>5. CASE Len(s) = 1 /\ s[1].w < x.w
  <2>1. s[1] \in ACell
    BY <1>1, <1>5
  <2>2. s[1].w \in Nat /\ x.w \in Nat
    BY <2>1 DEF ACell
  <2>3. s # <<>>
    <3>1. Len(<<>>) = 0 /\ Len(s) # 0
      BY <1>5
    <3> QED
      BY <3>1
  <2>4. Head(s) = s[1]
    BY <1>1, <2>3
  <2> QED
    BY <1>5, <2>2, <2>3, <2>4
<1>6. QED
  BY <1>2, <1>3, <1>4, <1>5

LEMMA CutOfParts ==
    ASSUME NEW a \in Stream, NEW b \in Stream, NEW s, IsCut(s, a \o b)
    PROVE  IsCut(s, a) \/ \E r : IsCut(r, b) /\ s = a \o r
<1>1. /\ a \in Seq(ACell) /\ b \in Seq(ACell) /\ s \in Seq(ACell)
      /\ Len(a) \in Nat /\ Len(b) \in Nat /\ Len(s) \in Nat
  BY StreamFacts DEF IsCut
<1>2. PICK c \in Seq(ACell) : c = a \o b
  BY <1>1, Parts
<1>3. /\ Len(c) = Len(a) + Len(b)
      /\ \A k \in 1..Len(a) : c[k] = a[k]
      /\ \A k \in 1..Len(b) : c[Len(a) + k] = b[k]
  BY ONLY <1>1, <1>2, Parts
<1>4. PICK n \in 0..(Len(c) - 1) :
         /\ \A i \in 1..n : s[i] = c[i]
         /\ Len(s) = n \/ (Len(s) = n + 1 /\ s[n + 1].w < c[n + 1].w)
  BY <1>2 DEF IsCut
<1>5. CASE n < Len(a)
  <2>1. n \in 0..(Len(a) - 1) /\ n + 1 \in 1..Len(a)
    BY <1>1, <1>5
  <2>2. c[n + 1] = a[n + 1] /\ \A i \in 1..n : s[i] = a[i]
    BY <1>1, <1>3, <1>4, <2>1
  <2> QED
    BY <1>1, <1>4, <2>1, <2>2, StreamFacts DEF IsCut
<1>6. CASE n >= Len(a)
  <2> DEFINE d == Len(s) - Len(a)
             r == [i \in 1..d |-> s[Len(a) + i]]
  <2>1. d \in Nat /\ Len(a) + d = Len(s)
    BY <1>1, <1>4, <1>6
  <2>2. \A i \in 1..d : Len(a) + i \in 1..Len(s)
    BY <1>1, <2>1
  <2>3. \A i \in 1..d : s[Len(a) + i] \in ACell
    BY <1>1, <2>2
  <2>4. PICK q \in Seq(ACell) : q = r
    <3>1. r \in Seq(ACell)
      BY <2>1, <2>3
    <3> QED
      BY <3>1, Zenon
  <2>5. Len(q) = d /\ \A i \in 1..d : q[i] = s[Len(a) + i]
    BY <2>1, <2>4
  <2>6. s = a \o q
    <3>1. PICK t \in Seq(ACell) : t = a \o q
      BY <1>1, Parts
    <3>2. /\ Len(t) = Len(a) + Len(q)
          /\ \A k \in 1..Len(a) : t[k] = a[k]
          /\ \A k \in 1..Len(q) : t[Len(a) + k] = q[k]
      BY ONLY <1>1, <3>1, q \in Seq(ACell), Parts
    <3>3. \A k \in 1..Len(a) : s[k] = a[k]
      BY <1>1, <1>3, <1>4, <1>6
    <3>4. ASSUME NEW k \in 1..Len(s) PROVE s[k] = t[k]
      <4>1. CASE k <= Len(a)
        BY <1>1, <3>2, <3>3, <4>1
      <4>2. CASE k > Len(a)
        <5>1. k - Len(a) \in 1..d /\ Len(a) + (k - Len(a)) = k
          BY <1>1, <2>1, <4>2
        <5> QED
          BY <2>5, <3>2, <5>1
      <4> QED
        BY <1>1, <4>1, <4>2
    <3> QED
      BY <1>1, <2>1, <2>5, <3>1, <3>2, <3>4, SeqEqual
  <2>7. IsCut(q, b)
    <3> DEFINE m == n - Len(a)
    <3>1. m \in 0..(Len(b) - 1) /\ Len(a) + m = n /\ m + 1 \in 1..Len(b)
      BY <1>1, <1>3, <1>6
    <3>2. ASSUME NEW i \in 1..m PROVE q[i] = b[i]
      <4>1. Len(a) + i \in 1..n /\ i \in 1..Len(b)
        BY <1>1, <3>1
      <4>2. n <= Len(s) /\ i <= d /\ i \in 1..d
        BY <1>1, <1>4, <4>1
      <4> QED
        BY <1>3, <1>4, <2>5, <4>1, <4>2
    <3>3. Len(q) = m \/ Len(q) = m + 1
      BY <1>1, <1>4, <2>5, <3>1
    <3>4. CASE Len(q) = m + 1
      <4>1. Len(s) = n + 1 /\ s[n + 1].w < c[n + 1].w
        BY <1>1, <1>4, <2>5, <3>1, <3>4
      <4>2. Len(a) + (m + 1) = n + 1 /\ m + 1 \in 1..d
        BY <1>1, <2>5, <3>1, <3>4
      <4>3. q[m + 1] = s[n + 1] /\ c[n + 1] = b[m + 1]
        BY <1>3, <2>5, <3>1, <4>2, SMTT(30)
      <4>4. q[m + 1].w < b[m + 1].w
        BY <4>1, <4>3
      <4> QED
        BY <3>1, <3>2, <3>4, <4>4, StreamFacts DEF IsCut
    <3>5. CASE Len(q) = m
      BY <3>1, <3>2, <3>5, StreamFacts DEF IsCut
    <3> QED
      BY <3>3, <3>4, <3>5
  <2> QED
    BY <2>6, <2>7
<1>7. n < Len(a) \/ n >= Len(a)
  <2>1. n \in Int
    OBVIOUS
  <2> QED
    BY <1>1, <2>1
<1>8. QED
  BY <1>5, <1>6, <1>7

\* Sizes, cell by cell.
LEMMA SizeFunction ==
    ASSUME NEW s \in Stream
    PROVE  \E f : /\ Size(s) = f[Len(s)]
                  /\ f = [i \in 0..Len(s) |-> IF i = 0 THEN 0 ELSE f[i - 1] + s[i].w]
<1> DEFINE value(i, x) == IF i = 0 THEN 0 ELSE x + s[i].w
           right(k, f) == f = [i \in 0..k |-> value(i, f[i - 1])]
           S == {k \in Nat : \E f : right(k, f)}
<1>1. Len(s) \in Nat
  BY StreamFacts
<1>2. 0 \in S
  <2> DEFINE f == [i \in 0..0 |-> value(0, 0)]
  <2>1. right(0, f)
    OBVIOUS
  <2> HIDE DEF right, f
  <2> QED
    BY <2>1
<1>3. ASSUME NEW k \in Nat, k \in S PROVE k + 1 \in S
  <2>1. PICK f : right(k, f)
    BY <1>3
  <2>2. \A x, y : value(0, x) = value(0, y)
    OBVIOUS
  <2> HIDE DEF value
  <2> DEFINE g == [i \in 0..(k + 1) |-> IF i <= k THEN f[i] ELSE value(i, f[i - 1])]
  <2>3. ASSUME NEW i \in 0..(k + 1) PROVE g[i] = value(i, g[i - 1])
    <3>1. CASE i = 0
      BY <2>1, <2>2, <3>1
    <3>2. CASE i > 0
      <4>1. g[i - 1] = f[i - 1]
        BY <3>2
      <4>2. g[i] = value(i, f[i - 1])
        BY <2>1, <3>2
      <4> QED
        BY <4>1, <4>2
    <3> QED
      BY <3>1, <3>2
  <2>4. right(k + 1, g)
    BY <2>3
  <2> HIDE DEF right, g
  <2> QED
    BY <2>4
<1>4. \E f : right(Len(s), f)
  <2>1. Len(s) \in S
    <3> HIDE DEF S
    <3> QED
      BY <1>1, <1>2, <1>3, NumberInduction
  <2> QED
    BY <2>1
<1>5. QED
  BY <1>4 DEF Size

\* The size of two streams in a row.
LEMMA SizeFacts ==
    /\ Size(<<>>) = 0
    /\ \A a \in Stream : Size(a) \in Nat
    /\ \A x \in ACell : Size(<<x>>) = x.w
    /\ \A a, b \in Stream : Size(a \o b) = Size(a) + Size(b)
<1>1. ASSUME NEW s \in Stream, NEW f, f = [i \in 0..Len(s) |-> IF i = 0 THEN 0 ELSE f[i - 1] + s[i].w]
      PROVE  \A k \in 0..Len(s) : f[k] \in Nat
  <2> DEFINE S == {k \in Nat : k <= Len(s) => f[k] \in Nat}
  <2>1. Len(s) \in Nat /\ \A i \in 1..Len(s) : s[i].w \in Nat
    <3>1. s \in Seq(ACell)
      BY StreamFacts
    <3>2. \A i \in 1..Len(s) : s[i] \in ACell
      BY <3>1
    <3> QED
      BY <3>1, <3>2 DEF ACell
  <2>2. 0 \in S
    BY <1>1, <2>1
  <2>3. ASSUME NEW k \in Nat, k \in S PROVE k + 1 \in S
    <3> SUFFICES ASSUME k + 1 <= Len(s) PROVE f[k + 1] \in Nat
      OBVIOUS
    <3>1. k + 1 \in 0..Len(s) /\ k + 1 # 0 /\ (k + 1) - 1 = k /\ k + 1 \in 1..Len(s)
      BY <2>1
    <3>2. f[k + 1] = f[k] + s[k + 1].w
      BY <1>1, <3>1
    <3>3. f[k] \in Nat
      BY <2>1, <2>3
    <3> QED
      BY <2>1, <3>1, <3>2, <3>3
  <2>4. Nat \subseteq S
    <3> HIDE DEF S
    <3> QED
      BY <2>2, <2>3, NumberInduction
  <2> QED
    BY <2>1, <2>4
<1>2. ASSUME NEW a \in Stream PROVE Size(a) \in Nat
  <2>1. PICK f : /\ Size(a) = f[Len(a)]
                 /\ f = [i \in 0..Len(a) |-> IF i = 0 THEN 0 ELSE f[i - 1] + a[i].w]
    BY SizeFunction
  <2>2. Len(a) \in 0..Len(a)
    BY StreamFacts
  <2> QED
    BY <1>1, <2>1, <2>2
<1>3. Size(<<>>) = 0
  <2>1. <<>> \in Stream /\ Len(<<>>) = 0
    BY StreamFacts
  <2>2. PICK f : /\ Size(<<>>) = f[Len(<<>>)]
                 /\ f = [i \in 0..Len(<<>>) |-> IF i = 0 THEN 0 ELSE f[i - 1] + <<>>[i].w]
    BY <2>1, SizeFunction
  <2> QED
    BY <2>1, <2>2
<1>4. ASSUME NEW x \in ACell PROVE Size(<<x>>) = x.w
  <2>1. PICK s \in Stream : s = <<x>>
    <3>1. <<x>> \in Stream
      BY StreamFacts
    <3> QED
      BY <3>1, Zenon
  <2>2. Len(s) = 1 /\ s[1] = x /\ x.w \in Nat
    BY <2>1 DEF ACell
  <2>3. PICK f : /\ Size(s) = f[Len(s)]
                 /\ f = [i \in 0..Len(s) |-> IF i = 0 THEN 0 ELSE f[i - 1] + s[i].w]
    BY SizeFunction
  <2>4. 1 \in 0..Len(s) /\ 0 \in 0..Len(s) /\ 1 - 1 = 0
    BY <2>2
  <2>5. f[1] = f[0] + s[1].w /\ f[0] = 0
    BY <2>3, <2>4
  <2> QED
    BY <2>1, <2>2, <2>3, <2>5
<1>5. ASSUME NEW a \in Stream, NEW b \in Stream PROVE Size(a \o b) = Size(a) + Size(b)
  <2>1. /\ a \in Seq(ACell) /\ b \in Seq(ACell) /\ Len(a) \in Nat /\ Len(b) \in Nat
    BY StreamFacts
  <2>2. PICK c \in Stream : c = a \o b
    BY StreamFacts
  <2>3. /\ Len(c) = Len(a) + Len(b)
        /\ \A k \in 1..Len(a) : c[k] = a[k]
        /\ \A k \in 1..Len(b) : c[Len(a) + k] = b[k]
    BY ONLY <2>1, <2>2, Parts
  <2>4. PICK f : /\ Size(a) = f[Len(a)]
                 /\ f = [i \in 0..Len(a) |-> IF i = 0 THEN 0 ELSE f[i - 1] + a[i].w]
    BY SizeFunction
  <2>5. PICK g : /\ Size(b) = g[Len(b)]
                 /\ g = [i \in 0..Len(b) |-> IF i = 0 THEN 0 ELSE g[i - 1] + b[i].w]
    BY SizeFunction
  <2>6. PICK h : /\ Size(c) = h[Len(c)]
                 /\ h = [i \in 0..Len(c) |-> IF i = 0 THEN 0 ELSE h[i - 1] + c[i].w]
    BY SizeFunction
  <2> DEFINE S == {k \in Nat : k <= Len(a) => h[k] = f[k]}
             T == {k \in Nat : k <= Len(b) => h[Len(a) + k] = Size(a) + g[k]}
  <2>7. 0 \in S
    BY <2>1, <2>3, <2>4, <2>6
  <2>8. ASSUME NEW k \in Nat, k \in S PROVE k + 1 \in S
    <3> SUFFICES ASSUME k + 1 <= Len(a) PROVE h[k + 1] = f[k + 1]
      OBVIOUS
    <3>1. /\ k + 1 \in 0..Len(a) /\ k + 1 \in 0..Len(c) /\ k + 1 # 0 /\ (k + 1) - 1 = k
          /\ k + 1 \in 1..Len(a) /\ k <= Len(a)
      BY <2>1, <2>3
    <3>2. h[k + 1] = h[k] + c[k + 1].w /\ f[k + 1] = f[k] + a[k + 1].w
      BY <2>4, <2>6, <3>1
    <3> QED
      BY <2>3, <2>8, <3>1, <3>2
  <2>9. h[Len(a)] = Size(a)
    <3>1. Len(a) \in S
      <4> HIDE DEF S
      <4> QED
        BY <2>1, <2>7, <2>8, NumberInduction
    <3> QED
      BY <2>1, <2>4, <3>1
  <2>10. 0 \in T
    <3>1. g[0] = 0 /\ Len(a) + 0 = Len(a) /\ Size(a) \in Nat
      BY <1>2, <2>1, <2>5
    <3> QED
      BY <2>9, <3>1
  <2>11. ASSUME NEW k \in Nat, k \in T PROVE k + 1 \in T
    <3> SUFFICES ASSUME k + 1 <= Len(b) PROVE h[Len(a) + (k + 1)] = Size(a) + g[k + 1]
      OBVIOUS
    <3>1. /\ Len(a) + (k + 1) \in 0..Len(c) /\ Len(a) + (k + 1) # 0
          /\ (Len(a) + (k + 1)) - 1 = Len(a) + k
          /\ k + 1 \in 0..Len(b) /\ k + 1 \in 1..Len(b) /\ k + 1 # 0 /\ (k + 1) - 1 = k
      BY <2>1, <2>3
    <3>2. h[Len(a) + (k + 1)] = h[Len(a) + k] + c[Len(a) + (k + 1)].w
      BY <2>6, <3>1
    <3>3. g[k + 1] = g[k] + b[k + 1].w
      BY <2>5, <3>1
    <3>4. c[Len(a) + (k + 1)] = b[k + 1] /\ b[k + 1].w \in Nat
      <4>1. c[Len(a) + (k + 1)] = b[k + 1]
        BY <2>3, <3>1
      <4>2. b[k + 1] \in ACell
        BY <2>1, <3>1
      <4> QED
        BY <4>1, <4>2 DEF ACell
    <3>5. g[k] \in Nat /\ Size(a) \in Nat
      <4>1. k \in 0..Len(b)
        BY <2>1
      <4> QED
        BY <1>1, <1>2, <2>5, <4>1
    <3>6. h[Len(a) + k] = Size(a) + g[k]
      BY <2>1, <2>11
    <3> QED
      BY <3>2, <3>3, <3>4, <3>5, <3>6
  <2>12. Len(b) \in T
    <3> HIDE DEF T
    <3> QED
      BY <2>1, <2>10, <2>11, NumberInduction
  <2> QED
    <3>1. h[Len(a) + Len(b)] = Size(a) + g[Len(b)]
      BY <2>1, <2>12, SMTT(30)
    <3> HIDE DEF T
    <3>2. Size(c) = h[Len(a) + Len(b)] /\ Size(b) = g[Len(b)]
      BY <2>3, <2>5, <2>6, Zenon
    <3> QED
      BY <2>2, <3>1, <3>2, Zenon
<1>6. QED
  BY <1>2, <1>3, <1>4, <1>5

-----------------------------------------------------------------------------
(* Rows: pieces written, and read, one after the other.                    *)

JoinedAt(pieces, k) ==
    LET joined[i \in 0..Len(pieces)] ==
          IF i = 0 THEN Written(<<>>) ELSE joined[i - 1] ++ pieces[i]
    IN  joined[k]

RowAt(readers, k, s) ==
    LET read[i \in 0..Len(readers)] ==
          IF i = 0 THEN Got(<<>>, s)
          ELSE Then(read[i - 1], LAMBDA out, rest :
                 Map(readers[i][rest], LAMBDA v : Append(out, v)))
    IN  read[k]

\* The pieces so far, as a function.
LEMMA JoinedFunction ==
    ASSUME NEW pieces, Len(pieces) \in Nat
    PROVE  \E f : /\ \A k : JoinedAt(pieces, k) = f[k]
                  /\ f = [i \in 0..Len(pieces) |-> IF i = 0 THEN Written(<<>>) ELSE f[i - 1] ++ pieces[i]]
<1> DEFINE value(i, x) == IF i = 0 THEN Written(<<>>) ELSE x ++ pieces[i]
           right(k, f) == f = [i \in 0..k |-> value(i, f[i - 1])]
           S == {k \in Nat : \E f : right(k, f)}
<1>1. Len(pieces) \in Nat
  OBVIOUS
<1>2. 0 \in S
  <2> DEFINE f == [i \in 0..0 |-> value(0, 0)]
  <2>1. right(0, f)
    OBVIOUS
  <2> HIDE DEF right, f
  <2> QED
    BY <2>1
<1>3. ASSUME NEW k \in Nat, k \in S PROVE k + 1 \in S
  <2>1. PICK f : right(k, f)
    BY <1>3
  <2>2. \A x, y : value(0, x) = value(0, y)
    OBVIOUS
  <2> HIDE DEF value
  <2> DEFINE g == [i \in 0..(k + 1) |-> IF i <= k THEN f[i] ELSE value(i, f[i - 1])]
  <2>3. ASSUME NEW i \in 0..(k + 1) PROVE g[i] = value(i, g[i - 1])
    <3>1. CASE i = 0
      BY <2>1, <2>2, <3>1
    <3>2. CASE i > 0
      <4>1. g[i - 1] = f[i - 1]
        BY <3>2
      <4>2. g[i] = value(i, f[i - 1])
        BY <2>1, <3>2
      <4> QED
        BY <4>1, <4>2
    <3> QED
      BY <3>1, <3>2
  <2>4. right(k + 1, g)
    BY <2>3
  <2> HIDE DEF right, g
  <2> QED
    BY <2>4
<1>4. \E f : right(Len(pieces), f)
  <2>1. Len(pieces) \in S
    <3> HIDE DEF S
    <3> QED
      BY <1>1, <1>2, <1>3, NumberInduction
  <2> QED
    BY <2>1
<1>5. QED
  BY <1>4 DEF JoinedAt

\* One more reader after what was read so far.
NextOf(readers, i, r) ==
    IF r.ok
    THEN IF readers[i][r.rest].ok
         THEN Got(Append(r.v, readers[i][r.rest].v), readers[i][r.rest].rest)
         ELSE Fails
    ELSE Fails

\* What was read so far, as a function.
LEMMA RowFunction ==
    ASSUME NEW readers, Len(readers) \in Nat, NEW s
    PROVE  \E f : /\ \A k : RowAt(readers, k, s) = f[k]
                  /\ f = [i \in 0..Len(readers) |-> IF i = 0 THEN Got(<<>>, s) ELSE NextOf(readers, i, f[i - 1])]
<1> DEFINE value(i, x) == IF i = 0 THEN Got(<<>>, s) ELSE NextOf(readers, i, x)
           right(k, f) == f = [i \in 0..k |-> value(i, f[i - 1])]
           S == {k \in Nat : \E f : right(k, f)}
<1>1. Len(readers) \in Nat
  OBVIOUS
<1>2. 0 \in S
  <2> DEFINE f == [i \in 0..0 |-> value(0, 0)]
  <2>1. right(0, f)
    OBVIOUS
  <2> HIDE DEF right, f
  <2> QED
    BY <2>1
<1>3. ASSUME NEW k \in Nat, k \in S PROVE k + 1 \in S
  <2>1. PICK f : right(k, f)
    BY <1>3
  <2>2. \A x, y : value(0, x) = value(0, y)
    OBVIOUS
  <2> HIDE DEF value
  <2> DEFINE g == [i \in 0..(k + 1) |-> IF i <= k THEN f[i] ELSE value(i, f[i - 1])]
  <2>3. ASSUME NEW i \in 0..(k + 1) PROVE g[i] = value(i, g[i - 1])
    <3>1. CASE i = 0
      BY <2>1, <2>2, <3>1
    <3>2. CASE i > 0
      <4>1. g[i - 1] = f[i - 1]
        BY <3>2
      <4>2. g[i] = value(i, f[i - 1])
        BY <2>1, <3>2
      <4> QED
        BY <4>1, <4>2
    <3> QED
      BY <3>1, <3>2
  <2>4. right(k + 1, g)
    BY <2>3
  <2> HIDE DEF right, g
  <2> QED
    BY <2>4
<1>4. \E f : right(Len(readers), f)
  <2>1. Len(readers) \in S
    <3> HIDE DEF S
    <3> QED
      BY <1>1, <1>2, <1>3, NumberInduction
  <2> QED
    BY <2>1
<1>5. QED
  BY <1>4 DEF RowAt, NextOf, Then, Map

LEMMA JoinedFacts ==
    ASSUME NEW pieces, Len(pieces) \in Nat
    PROVE  /\ WriteRow(pieces) = JoinedAt(pieces, Len(pieces))
           /\ JoinedAt(pieces, 0) = Written(<<>>)
           /\ \A k \in Nat : k < Len(pieces) =>
                 JoinedAt(pieces, k + 1) = JoinedAt(pieces, k) ++ pieces[k + 1]
<1>1. PICK f : /\ \A k : JoinedAt(pieces, k) = f[k]
               /\ f = [i \in 0..Len(pieces) |->
                         IF i = 0 THEN Written(<<>>) ELSE f[i - 1] ++ pieces[i]]
  BY JoinedFunction
<1>2. WriteRow(pieces) = JoinedAt(pieces, Len(pieces))
  BY DEF WriteRow, JoinedAt
<1>3. JoinedAt(pieces, 0) = Written(<<>>)
  <2>1. 0 \in 0..Len(pieces)
    OBVIOUS
  <2>2. f[0] = Written(<<>>)
    BY <1>1, <2>1
  <2> QED
    BY <1>1, <2>2
<1>4. ASSUME NEW k \in Nat, k < Len(pieces)
      PROVE  JoinedAt(pieces, k + 1) = JoinedAt(pieces, k) ++ pieces[k + 1]
  <2>1. k + 1 \in 0..Len(pieces) /\ k + 1 # 0 /\ (k + 1) - 1 = k
    BY <1>4
  <2>2. f[k + 1] = f[k] ++ pieces[k + 1]
    BY <1>1, <2>1
  <2> QED
    BY <1>1, <2>2
<1>5. QED
  BY <1>2, <1>3, <1>4

LEMMA RowFacts ==
    ASSUME NEW readers, Len(readers) \in Nat, NEW s
    PROVE  /\ ReadRow(readers, s) = RowAt(readers, Len(readers), s)
           /\ RowAt(readers, 0, s) = Got(<<>>, s)
           /\ \A k \in Nat : k < Len(readers) =>
                 RowAt(readers, k + 1, s) = NextOf(readers, k + 1, RowAt(readers, k, s))
<1>1. PICK f : /\ \A k : RowAt(readers, k, s) = f[k]
               /\ f = [i \in 0..Len(readers) |->
                         IF i = 0 THEN Got(<<>>, s) ELSE NextOf(readers, i, f[i - 1])]
  BY RowFunction
<1>2. ReadRow(readers, s) = RowAt(readers, Len(readers), s)
  BY DEF ReadRow, RowAt
<1>3. RowAt(readers, 0, s) = Got(<<>>, s)
  <2>1. 0 \in 0..Len(readers)
    OBVIOUS
  <2>2. f[0] = Got(<<>>, s)
    BY <1>1, <2>1
  <2> QED
    BY <1>1, <2>2
<1>4. ASSUME NEW k \in Nat, k < Len(readers)
      PROVE  RowAt(readers, k + 1, s) = NextOf(readers, k + 1, RowAt(readers, k, s))
  <2>1. k + 1 \in 0..Len(readers) /\ k + 1 # 0 /\ (k + 1) - 1 = k
    BY <1>4
  <2>2. f[k + 1] = NextOf(readers, k + 1, f[k])
    BY <1>1, <2>1
  <2> QED
    BY <1>1, <2>2
<1>5. QED
  BY <1>2, <1>3, <1>4

\* Streams in a row are a stream.
LEMMA Streams ==
    /\ <<>> \in Stream
    /\ \A a, b \in Stream : a \o b \in Stream
    /\ \A a \in Stream : a \o <<>> = a /\ <<>> \o a = a
    /\ \A a, b, c \in Stream : (a \o b) \o c = a \o (b \o c)
  BY StreamFacts

\* Two pieces in a row.
LEMMA TwoPieces ==
    \A a, b : /\ (a ++ b).ok <=> a.ok /\ b.ok
              /\ (a ++ b).cells = a.cells \o b.cells
  BY DEF ++

\* A row is written if each of its pieces is.
LEMMA RowWritten ==
    ASSUME NEW pieces, Len(pieces) \in Nat
    PROVE  WriteRow(pieces).ok <=> \A i \in 1..Len(pieces) : pieces[i].ok
<1> DEFINE n == Len(pieces)
           S == {k \in Nat : k <= n =>
                   (JoinedAt(pieces, k).ok <=> \A i \in 1..k : pieces[i].ok)}
<1>1. 0 \in S
  BY JoinedFacts DEF Written
<1>2. ASSUME NEW k \in Nat, k \in S PROVE k + 1 \in S
  <2> SUFFICES ASSUME k + 1 <= n
               PROVE  JoinedAt(pieces, k + 1).ok <=> \A i \in 1..(k + 1) : pieces[i].ok
    OBVIOUS
  <2>1. JoinedAt(pieces, k).ok <=> \A i \in 1..k : pieces[i].ok
    BY <1>2
  <2>2. JoinedAt(pieces, k + 1) = JoinedAt(pieces, k) ++ pieces[k + 1]
    BY JoinedFacts
  <2>3. JoinedAt(pieces, k + 1).ok <=> JoinedAt(pieces, k).ok /\ pieces[k + 1].ok
    BY <2>2, TwoPieces
  <2>4. \A i : i \in 1..(k + 1) <=> (i \in 1..k \/ i = k + 1)
    OBVIOUS
  <2> QED
    BY <2>1, <2>3, <2>4
<1>3. n \in S
  <2> HIDE DEF S
  <2> QED
    BY <1>1, <1>2, NumberInduction
<1>4. QED
  BY <1>3, JoinedFacts

\* The cells of a row, and its size if each of its pieces is of at least
\* low bytes.
LEMMA RowCells ==
    ASSUME NEW pieces, Len(pieces) \in Nat, NEW low \in Nat,
           \A i \in 1..Len(pieces) :
              pieces[i].cells \in Stream /\ low <= Size(pieces[i].cells)
    PROVE  /\ \A k \in 0..Len(pieces) : JoinedAt(pieces, k).cells \in Stream
           /\ WriteRow(pieces).cells \in Stream
           /\ low * Len(pieces) <= Size(WriteRow(pieces).cells)
<1> DEFINE n == Len(pieces)
           Right(k) == /\ JoinedAt(pieces, k).cells \in Stream
                       /\ low * k <= Size(JoinedAt(pieces, k).cells)
           S == {k \in Nat : k <= n => Right(k)}
<1>1. 0 \in S
  <2>1. JoinedAt(pieces, 0).cells = <<>>
    BY JoinedFacts DEF Written
  <2>3. Right(0)
    <3> HIDE DEF n
    <3> QED
      <4>1. <<>> \in Stream /\ Size(<<>>) = 0
        BY Streams, SizeFacts
      <4>2. JoinedAt(pieces, 0).cells \in Stream /\ Size(JoinedAt(pieces, 0).cells) = 0
        BY <2>1, <4>1, Zenon
      <4> QED
        BY <4>2
  <2> HIDE DEF Right
  <2> QED
    BY <2>3
<1>2. ASSUME NEW k \in Nat, k \in S PROVE k + 1 \in S
  <2> SUFFICES ASSUME k + 1 <= n PROVE Right(k + 1)
    OBVIOUS
  <2>1. Right(k)
    BY <1>2
  <2>2. JoinedAt(pieces, k + 1) = JoinedAt(pieces, k) ++ pieces[k + 1]
    BY JoinedFacts
  <2>3. JoinedAt(pieces, k + 1).cells = JoinedAt(pieces, k).cells \o pieces[k + 1].cells
    BY <2>2, TwoPieces
  <2>4. k + 1 \in 1..Len(pieces)
    OBVIOUS
  <2>5. pieces[k + 1].cells \in Stream /\ low <= Size(pieces[k + 1].cells)
    BY <2>4
  <2>6. /\ JoinedAt(pieces, k + 1).cells \in Stream
        /\ Size(JoinedAt(pieces, k + 1).cells) =
             Size(JoinedAt(pieces, k).cells) + Size(pieces[k + 1].cells)
    <3>1. PICK a \in Stream, b \in Stream :
             a = JoinedAt(pieces, k).cells /\ b = pieces[k + 1].cells
      BY <2>1, <2>5
    <3>2. a \o b \in Stream /\ Size(a \o b) = Size(a) + Size(b)
      BY Streams, SizeFacts
    <3> QED
      BY <2>3, <3>1, <3>2, Zenon
  <2>7. Size(JoinedAt(pieces, k).cells) \in Nat /\ Size(pieces[k + 1].cells) \in Nat
    BY <2>1, <2>5, SizeFacts
  <2>8. low * (k + 1) = low * k + low
    OBVIOUS
  <2>9. low * k \in Nat
    OBVIOUS
  <2> HIDE DEF n
  <2> QED
    BY <2>1, <2>5, <2>6, <2>7, <2>8, <2>9
<1>3. Nat \subseteq S
  <2> HIDE DEF S
  <2> QED
    BY <1>1, <1>2, NumberInduction
<1>4. \A k \in 0..n : Right(k)
  BY <1>3
<1>5. WriteRow(pieces) = JoinedAt(pieces, n) /\ n \in 0..n
  BY JoinedFacts
<1>6. QED
  BY <1>4, <1>5

\* The same of pieces of at most high bytes.
LEMMA RowAtMost ==
    ASSUME NEW pieces, Len(pieces) \in Nat, NEW high \in Nat,
           \A i \in 1..Len(pieces) :
              pieces[i].cells \in Stream /\ Size(pieces[i].cells) <= high
    PROVE  Size(WriteRow(pieces).cells) <= high * Len(pieces)
<1> DEFINE n == Len(pieces)
           Right(k) == Size(JoinedAt(pieces, k).cells) <= high * k
           S == {k \in Nat : k <= n => Right(k)}
<1>0. \A k \in 0..n : JoinedAt(pieces, k).cells \in Stream
  <2>1. \A i \in 1..n : pieces[i].cells \in Stream /\ 0 <= Size(pieces[i].cells)
    BY SizeFacts
  <2> QED
    BY <2>1, 0 \in Nat, RowCells
<1>1. 0 \in S
  <2>1. JoinedAt(pieces, 0).cells = <<>>
    BY JoinedFacts DEF Written
  <2>2. Size(JoinedAt(pieces, 0).cells) = 0
    BY <2>1, SizeFacts, Zenon
  <2> QED
    BY <2>2
<1>2. ASSUME NEW k \in Nat, k \in S PROVE k + 1 \in S
  <2> SUFFICES ASSUME k + 1 <= n PROVE Right(k + 1)
    OBVIOUS
  <2>1. Right(k) /\ JoinedAt(pieces, k).cells \in Stream
    <3>1. k \in 0..n /\ k <= n
      OBVIOUS
    <3> QED
      BY <1>0, <1>2, <3>1
  <2>2. JoinedAt(pieces, k + 1) = JoinedAt(pieces, k) ++ pieces[k + 1]
    BY JoinedFacts
  <2>3. JoinedAt(pieces, k + 1).cells = JoinedAt(pieces, k).cells \o pieces[k + 1].cells
    BY <2>2, TwoPieces
  <2>4. k + 1 \in 1..Len(pieces)
    OBVIOUS
  <2>5. pieces[k + 1].cells \in Stream /\ Size(pieces[k + 1].cells) <= high
    BY <2>4
  <2>6. Size(JoinedAt(pieces, k + 1).cells) =
           Size(JoinedAt(pieces, k).cells) + Size(pieces[k + 1].cells)
    <3>1. PICK a \in Stream, b \in Stream :
             a = JoinedAt(pieces, k).cells /\ b = pieces[k + 1].cells
      BY <2>1, <2>5
    <3>2. Size(a \o b) = Size(a) + Size(b)
      BY SizeFacts
    <3> QED
      BY <2>3, <3>1, <3>2, Zenon
  <2>7. Size(JoinedAt(pieces, k).cells) \in Nat /\ Size(pieces[k + 1].cells) \in Nat
    BY <2>1, <2>5, SizeFacts
  <2>8. high * (k + 1) = high * k + high /\ high * k \in Nat
    OBVIOUS
  <2> HIDE DEF n
  <2> QED
    BY <2>1, <2>5, <2>6, <2>7, <2>8
<1>3. Nat \subseteq S
  <2> HIDE DEF S
  <2> QED
    BY <1>1, <1>2, NumberInduction
<1>4. Right(n)
  BY <1>3
<1>5. WriteRow(pieces) = JoinedAt(pieces, n)
  BY JoinedFacts
<1>6. QED
  BY <1>4, <1>5

\* The reader f reads what was written as c, whatever follows it, as v (or,
\* unless ok, refuses it), and refuses a part of it.
ReadsIf(f, c, ok, v) ==
    /\ c \in Stream
    /\ \A t \in Stream : f[c \o t] = IF ok THEN Got(v, t) ELSE Fails
    /\ \A s : IsCut(s, c) => ~f[s].ok

\* It reads it, whatever follows.
Reads(f, c, v) ==
    /\ c \in Stream
    /\ \A t \in Stream : f[c \o t] = Got(v, t)
    /\ \A s : IsCut(s, c) => ~f[s].ok

\* It refuses it, whatever follows.
Refuses(f, c) ==
    /\ c \in Stream
    /\ \A t \in Stream : f[c \o t] = Fails
    /\ \A s : IsCut(s, c) => ~f[s].ok

LEMMA ReadsIfReads ==
    ASSUME NEW f, NEW c, NEW v, NEW ok
    PROVE  /\ ok => (Reads(f, c, v) <=> ReadsIf(f, c, ok, v))
           /\ ~ok => (Refuses(f, c) <=> ReadsIf(f, c, ok, v))
  BY DEF Reads, Refuses, ReadsIf

RowReader(readers) == [s \in Stream |-> ReadRow(readers, s)]

LEMMA GotParts ==
    /\ \A v, t : Got(v, t).ok /\ Got(v, t).v = v /\ Got(v, t).rest = t
    /\ \A r, v, t : r = Got(v, t) => r.ok /\ r.v = v /\ r.rest = t
    /\ ~Fails.ok
  BY DEF Got, Fails

\* Readers one after the other read pieces one after the other.
LEMMA RowReadsIf ==
    ASSUME NEW n \in Nat, NEW pieces, NEW readers, NEW oks, NEW vs,
           Len(pieces) = n, Len(readers) = n,
           \A i \in 1..n : ReadsIf(readers[i], pieces[i].cells, oks[i], vs[i])
    PROVE  ReadsIf(RowReader(readers), WriteRow(pieces).cells,
                 \A i \in 1..n : oks[i], [i \in 1..n |-> vs[i]])
<1> DEFINE J(k) == JoinedAt(pieces, k).cells
           Ok(k) == \A i \in 1..k : oks[i]
           Vs(k) == [i \in 1..k |-> vs[i]]
           Right(k) ==
             /\ J(k) \in Stream
             /\ \A t \in Stream :
                   RowAt(readers, k, J(k) \o t) = IF Ok(k) THEN Got(Vs(k), t) ELSE Fails
             /\ \A s : IsCut(s, J(k)) => ~RowAt(readers, k, s).ok
           S == {k \in Nat : k <= n => Right(k)}
<1>1. 0 \in S
  <2>1. J(0) = <<>> /\ J(0) \in Stream
    <3>1. JoinedAt(pieces, 0) = Written(<<>>)
      BY JoinedFacts
    <3>2. JoinedAt(pieces, 0).cells = <<>>
      BY <3>1 DEF Written
    <3> QED
      BY <3>2, Streams
  <2>2. Ok(0) /\ Vs(0) = <<>>
    OBVIOUS
  <2>3. ASSUME NEW t \in Stream PROVE RowAt(readers, 0, J(0) \o t) = Got(Vs(0), t)
    <3>1. J(0) \o t = t
      BY <2>1, Streams
    <3> QED
      BY <2>2, <3>1, RowFacts
  <2>4. \A s : ~IsCut(s, J(0))
    BY <2>1, CutOfNothing
  <2> HIDE DEF J, Vs, Ok
  <2> QED
    BY <2>1, <2>2, <2>3, <2>4
<1>2. ASSUME NEW k \in Nat, k \in S PROVE k + 1 \in S
  <2> SUFFICES ASSUME k + 1 <= n PROVE Right(k + 1)
    OBVIOUS
  <2>1. Right(k) /\ k < n /\ k + 1 \in 1..n
    BY <1>2
  <2> DEFINE f == readers[k + 1]
             c == pieces[k + 1].cells
             ok == oks[k + 1]
             v == vs[k + 1]
  <2>2. ReadsIf(f, c, ok, v)
    BY <2>1
  <2>3. J(k + 1) = J(k) \o c
    <3>1. JoinedAt(pieces, k + 1) = JoinedAt(pieces, k) ++ pieces[k + 1]
      BY <2>1, JoinedFacts
    <3> QED
      BY <3>1, TwoPieces
  <2>4. \A s : RowAt(readers, k + 1, s) = NextOf(readers, k + 1, RowAt(readers, k, s))
    BY <2>1, RowFacts
  <2>5. ASSUME NEW s, NEW a, NEW b, RowAt(readers, k, s) = Got(a, b)
        PROVE  /\ f[b].ok => RowAt(readers, k + 1, s) = Got(Append(a, f[b].v), f[b].rest)
               /\ ~f[b].ok => RowAt(readers, k + 1, s) = Fails
    <3>1. RowAt(readers, k + 1, s) = NextOf(readers, k + 1, Got(a, b))
      BY <2>4, <2>5
    <3> QED
      BY <3>1 DEF NextOf, Got
  <2>11. ASSUME NEW s, ~RowAt(readers, k, s).ok PROVE ~RowAt(readers, k + 1, s).ok
                                                     /\ RowAt(readers, k + 1, s) = Fails
    <3>1. RowAt(readers, k + 1, s) = NextOf(readers, k + 1, RowAt(readers, k, s))
      BY <2>4
    <3>2. NextOf(readers, k + 1, RowAt(readers, k, s)) = Fails
      BY <2>11, Zenon DEF NextOf
    <3> QED
      BY <3>1, <3>2, GotParts, Zenon
  <2>6. Ok(k + 1) <=> Ok(k) /\ ok
    <3>1. \A i : i \in 1..(k + 1) <=> (i \in 1..k \/ i = k + 1)
      OBVIOUS
    <3> QED
      BY <3>1
  <2>7. Vs(k + 1) = Append(Vs(k), v)
    OBVIOUS
  <2> HIDE DEF J, Ok, Vs, f, c, ok, v
  <2>8. c \in Stream /\ J(k) \in Stream /\ J(k + 1) \in Stream
    BY <2>1, <2>2, <2>3, Streams, ZenonT(40) DEF ReadsIf
  <2>9. ASSUME NEW t \in Stream
        PROVE  RowAt(readers, k + 1, J(k + 1) \o t) =
                 IF Ok(k + 1) THEN Got(Vs(k + 1), t) ELSE Fails
    <3>1. J(k + 1) \o t = J(k) \o (c \o t) /\ c \o t \in Stream
      <4>1. PICK a \in Stream, b \in Stream : a = J(k) /\ b = c
        BY <2>8
      <4>2. (a \o b) \o t = a \o (b \o t) /\ b \o t \in Stream
        BY Streams
      <4> QED
        BY <2>3, <4>1, <4>2, Zenon
    <3>2. RowAt(readers, k, J(k + 1) \o t) = IF Ok(k) THEN Got(Vs(k), c \o t) ELSE Fails
      BY <2>1, <3>1
    <3>3. f[c \o t] = IF ok THEN Got(v, t) ELSE Fails
      BY <2>2 DEF ReadsIf
    <3>4. CASE Ok(k + 1)
      <4>1. Ok(k) /\ ok
        BY <2>6, <3>4
      <4>2. RowAt(readers, k, J(k + 1) \o t) = Got(Vs(k), c \o t)
        BY <3>2, <4>1, Zenon
      <4>3. f[c \o t] = Got(v, t)
        BY <3>3, <4>1, Zenon
      <4>4. RowAt(readers, k + 1, J(k + 1) \o t) = Got(Append(Vs(k), v), t)
        <5>1. f[c \o t].ok /\ f[c \o t].v = v /\ f[c \o t].rest = t
          <6>1. PICK r : r = f[c \o t]
            BY Zenon
          <6>2. r = Got(v, t)
            BY <4>3, <6>1, Zenon
          <6>3. r.ok /\ r.v = v /\ r.rest = t
            BY <6>2, GotParts
          <6> QED
            BY <6>1, <6>3, Zenon
        <5>2. RowAt(readers, k + 1, J(k + 1) \o t) =
                Got(Append(Vs(k), f[c \o t].v), f[c \o t].rest)
          BY <2>5, <4>2, <5>1, ZenonT(40)
        <5> QED
          BY <5>1, <5>2, Zenon
      <4> QED
        BY <2>7, <3>4, <4>4, Zenon
    <3>5. CASE ~Ok(k + 1)
      <4>1. CASE Ok(k) /\ ~ok
        <5>1. RowAt(readers, k, J(k + 1) \o t) = Got(Vs(k), c \o t)
          BY <3>2, <4>1, Zenon
        <5>2. f[c \o t] = Fails
          BY <3>3, <4>1, Zenon
        <5>3. RowAt(readers, k + 1, J(k + 1) \o t) = Fails
          BY <2>5, <5>1, <5>2, GotParts, Zenon
        <5> QED
          BY <3>5, <5>3, Zenon
      <4>2. CASE ~Ok(k)
        <5>1. RowAt(readers, k, J(k + 1) \o t) = Fails
          BY <3>2, <4>2, Zenon
        <5>2. RowAt(readers, k + 1, J(k + 1) \o t) = Fails
          BY <2>11, <5>1, GotParts, Zenon
        <5> QED
          BY <3>5, <5>2, Zenon
      <4> QED
        BY <2>6, <3>5, <4>1, <4>2
    <3> QED
      BY <3>4, <3>5
  <2>10. ASSUME NEW s, IsCut(s, J(k + 1)) PROVE ~RowAt(readers, k + 1, s).ok
    <3>1. IsCut(s, J(k)) \/ \E r : IsCut(r, c) /\ s = J(k) \o r
      <4>1. PICK a \in Stream, b \in Stream : a = J(k) /\ b = c
        BY <2>8
      <4>2. IsCut(s, a \o b)
        BY <2>3, <2>10, <4>1, Zenon
      <4>3. IsCut(s, a) \/ \E r : IsCut(r, b) /\ s = a \o r
        BY <4>2, CutOfParts
      <4> QED
        BY <4>1, <4>3, Zenon
    <3>2. CASE IsCut(s, J(k))
      BY <2>1, <2>11, <3>2
    <3>3. CASE \E r : IsCut(r, c) /\ s = J(k) \o r
      <4>1. PICK r : IsCut(r, c) /\ s = J(k) \o r
        BY <3>3
      <4>2. r \in Stream
        BY <4>1 DEF IsCut
      <4>3. RowAt(readers, k, s) = IF Ok(k) THEN Got(Vs(k), r) ELSE Fails
        BY <2>1, <4>1, <4>2
      <4>4. ~f[r].ok
        BY <2>2, <4>1 DEF ReadsIf
      <4>5. CASE Ok(k)
        <5>1. RowAt(readers, k, s) = Got(Vs(k), r)
          BY <4>3, <4>5
        <5>2. RowAt(readers, k + 1, s) = Fails
          BY <2>5, <4>4, <5>1, Zenon
        <5> QED
          BY <5>2, GotParts, Zenon
      <4>6. CASE ~Ok(k)
        <5>1. RowAt(readers, k, s) = Fails
          BY <4>3, <4>6
        <5> QED
          BY <2>11, <5>1, GotParts, Zenon
      <4> QED
        BY <4>5, <4>6
    <3> QED
      BY <3>1, <3>2, <3>3
  <2> QED
    BY <2>8, <2>9, <2>10
<1>3. Right(n)
  <2>1. n \in S
    <3> HIDE DEF S
    <3> QED
      BY <1>1, <1>2, NumberInduction
  <2> HIDE DEF Right
  <2> QED
    BY <2>1
<1>4. WriteRow(pieces).cells = J(n)
  BY JoinedFacts
<1>5. ASSUME NEW s \in Stream PROVE RowReader(readers)[s] = RowAt(readers, n, s)
  <2>1. ReadRow(readers, s) = RowAt(readers, n, s)
    BY RowFacts
  <2> QED
    BY <2>1 DEF RowReader
<1> HIDE DEF J, Vs
<1>6. \A t \in Stream : J(n) \o t \in Stream
  BY <1>3, Streams
<1>7. \A s : IsCut(s, J(n)) => s \in Stream
  BY DEF IsCut
<1>8. ReadsIf(RowReader(readers), J(n), Ok(n), Vs(n))
  <2> HIDE DEF Ok
  <2> QED
    BY <1>3, <1>5, <1>6, <1>7 DEF ReadsIf
<1>9. QED
  BY <1>4, <1>8 DEF Vs

\* A row is read if each of its pieces is, and refused if one of them is.
LEMMA RowReads ==
    ASSUME NEW n \in Nat, NEW pieces, NEW readers, NEW vs,
           Len(pieces) = n, Len(readers) = n,
           \A i \in 1..n : \/ Reads(readers[i], pieces[i].cells, vs[i])
                           \/ Refuses(readers[i], pieces[i].cells)
    PROVE  /\ (\A i \in 1..n : Reads(readers[i], pieces[i].cells, vs[i])) =>
                 Reads(RowReader(readers), WriteRow(pieces).cells, [i \in 1..n |-> vs[i]])
           /\ (\E i \in 1..n : Refuses(readers[i], pieces[i].cells)) =>
                 Refuses(RowReader(readers), WriteRow(pieces).cells)
<1> DEFINE Is(i) == Reads(readers[i], pieces[i].cells, vs[i])
<1>1. PICK oks : oks = [i \in 1..n |-> Is(i)]
  BY Zenon
<1>2. \A i \in 1..n : oks[i] <=> Is(i)
  BY <1>1, Zenon
<1>3. ASSUME NEW i \in 1..n
      PROVE  ReadsIf(readers[i], pieces[i].cells, oks[i], vs[i])
  <2>1. CASE oks[i]
    BY <1>2, <2>1, ReadsIfReads
  <2>2. CASE ~oks[i]
    <3>1. Refuses(readers[i], pieces[i].cells)
      BY <1>2, <2>2
    <3> QED
      BY <2>2, <3>1, ReadsIfReads
  <2> QED
    BY <2>1, <2>2
<1>4. PICK ok : ok <=> \A i \in 1..n : oks[i]
  <2>1. (\A i \in 1..n : oks[i]) <=> \A i \in 1..n : oks[i]
    OBVIOUS
  <2> QED
    BY <2>1, Zenon
<1>5. ReadsIf(RowReader(readers), WriteRow(pieces).cells,
              \A i \in 1..n : oks[i], [i \in 1..n |-> vs[i]])
  BY <1>3, RowReadsIf
<1>6. ReadsIf(RowReader(readers), WriteRow(pieces).cells, ok, [i \in 1..n |-> vs[i]])
  BY <1>4, <1>5, Zenon DEF ReadsIf
<1>7. ASSUME \A i \in 1..n : Is(i)
      PROVE  Reads(RowReader(readers), WriteRow(pieces).cells, [i \in 1..n |-> vs[i]])
  <2>1. ok
    BY <1>2, <1>4, <1>7
  <2> QED
    BY <1>6, <2>1, ReadsIfReads
<1>8. ASSUME NEW i \in 1..n, Refuses(readers[i], pieces[i].cells)
      PROVE  Refuses(RowReader(readers), WriteRow(pieces).cells)
  <2>1. ~Is(i)
    <3> SUFFICES ASSUME Is(i) PROVE FALSE
      OBVIOUS
    <3>1. PICK c : c = pieces[i].cells \o <<>>
      BY Zenon
    <3>2. readers[i][c] = Fails /\ readers[i][c] = Got(vs[i], <<>>)
      BY <1>8, <3>1, Streams, Zenon DEF Reads, Refuses
    <3> QED
      BY <3>2, GotParts
  <2>2. ~ok
    BY <1>2, <1>4, <2>1
  <2> QED
    BY <1>6, <2>2, ReadsIfReads
<1>9. QED
  BY <1>7, <1>8

-----------------------------------------------------------------------------
(* The parts of a field.                                                   *)

\* The first cell of a stream is taken, unless it was cut.
LEMMA HeadCell ==
    ASSUME NEW x \in ACell, NEW c \in Stream
    PROVE  /\ <<x>> \o c \in Stream
           /\ \A t \in Stream : /\ (<<x>> \o c) \o t \in Stream
                                /\ Take(x.w, (<<x>> \o c) \o t) = Got(x.v, c \o t)
           /\ \A s : IsCut(s, <<x>> \o c) =>
                 \/ Take(x.w, s) = Fails
                 \/ \E r : IsCut(r, c) /\ Take(x.w, s) = Got(x.v, r)
<1>1. ASSUME NEW r \in Stream PROVE Take(x.w, <<x>> \o r) = Got(x.v, r)
  <2>1. PICK s : s = <<x>> \o r
    BY Zenon
  <2>2. s # <<>> /\ Head(s) = x /\ Tail(s) = r
    BY <2>1, FirstCell, Zenon
  <2>3. Take(x.w, s) = Got(x.v, r)
    BY <2>2 DEF Take, If
  <2> QED
    BY <2>1, <2>3, Zenon
<1>2. PICK l \in Stream : l = <<x>>
  <2>1. <<x>> \in Stream
    BY StreamFacts
  <2> QED
    BY <2>1, Zenon
<1>3. ASSUME NEW t \in Stream
      PROVE  /\ (<<x>> \o c) \o t \in Stream
             /\ Take(x.w, (<<x>> \o c) \o t) = Got(x.v, c \o t)
  <2>1. (l \o c) \o t = l \o (c \o t) /\ c \o t \in Stream /\ (l \o c) \o t \in Stream
    BY Streams
  <2> QED
    BY <1>1, <1>2, <2>1, Zenon
<1>4. ASSUME NEW s, IsCut(s, <<x>> \o c)
      PROVE  \/ Take(x.w, s) = Fails
             \/ \E r : IsCut(r, c) /\ Take(x.w, s) = Got(x.v, r)
  <2>1. IsCut(s, l \o c)
    BY <1>2, <1>4, Zenon
  <2>2. IsCut(s, l) \/ \E r : IsCut(r, c) /\ s = l \o r
    BY <2>1, CutOfParts
  <2>3. CASE IsCut(s, l)
    <3>1. IsCut(s, <<x>>)
      BY <1>2, <2>3, Zenon
    <3>2. s = <<>> \/ (s # <<>> /\ Head(s).w # x.w)
      BY <3>1, CutOfCell
    <3> QED
      BY <3>2 DEF Take, If
  <2>4. CASE \E r : IsCut(r, c) /\ s = l \o r
    <3>1. PICK r : IsCut(r, c) /\ s = l \o r
      BY <2>4
    <3>2. r \in Stream
      BY <3>1 DEF IsCut
    <3>3. Take(x.w, s) = Got(x.v, r)
      BY <1>1, <1>2, <3>1, <3>2, Zenon
    <3> QED
      BY <3>1, <3>3
  <2> QED
    BY <2>2, <2>3, <2>4
<1>5. <<x>> \o c \in Stream
  BY FirstCell
<1>6. QED
  BY <1>3, <1>4, <1>5

\* A reader that takes a cell and goes on as g.
LEMMA HeadReadsIf ==
    ASSUME NEW x \in ACell, NEW c, NEW g, NEW ok, NEW v, ReadsIf(g, c, ok, v),
           NEW f,
           \A s \in Stream : Take(x.w, s) = Fails => f[s] = Fails,
           \A s, r \in Stream : Take(x.w, s) = Got(x.v, r) => f[s] = g[r]
    PROVE  ReadsIf(f, <<x>> \o c, ok, v)
<1>1. /\ c \in Stream
      /\ \A t \in Stream : g[c \o t] = IF ok THEN Got(v, t) ELSE Fails
      /\ \A s : IsCut(s, c) => ~g[s].ok
  BY Zenon DEF ReadsIf
<1>2. ASSUME NEW t \in Stream
      PROVE  f[(<<x>> \o c) \o t] = IF ok THEN Got(v, t) ELSE Fails
  <2>1. /\ (<<x>> \o c) \o t \in Stream /\ c \o t \in Stream
        /\ Take(x.w, (<<x>> \o c) \o t) = Got(x.v, c \o t)
    BY <1>1, HeadCell, Streams, Zenon
  <2>2. f[(<<x>> \o c) \o t] = g[c \o t]
    BY <2>1, Zenon
  <2> QED
    BY <1>1, <2>2, Zenon
<1>3. ASSUME NEW s, IsCut(s, <<x>> \o c) PROVE ~f[s].ok
  <2>1. s \in Stream
    BY <1>3, Zenon DEF IsCut
  <2>2. \/ Take(x.w, s) = Fails
        \/ \E r : IsCut(r, c) /\ Take(x.w, s) = Got(x.v, r)
    <3>1. \A q : IsCut(q, <<x>> \o c) =>
             \/ Take(x.w, q) = Fails
             \/ \E r : IsCut(r, c) /\ Take(x.w, q) = Got(x.v, r)
      BY ONLY <1>1, x \in ACell, HeadCell
    <3> QED
      BY <1>3, <3>1
  <2>3. CASE Take(x.w, s) = Fails
    <3>1. f[s] = Fails
      BY <2>1, <2>3, Zenon
    <3> QED
      BY <3>1, GotParts, Zenon
  <2>4. CASE \E r : IsCut(r, c) /\ Take(x.w, s) = Got(x.v, r)
    <3>1. PICK r : IsCut(r, c) /\ Take(x.w, s) = Got(x.v, r)
      BY <2>4
    <3>2. r \in Stream
      BY <3>1, Zenon DEF IsCut
    <3>3. f[s] = g[r] /\ ~g[r].ok
      BY <1>1, <2>1, <3>1, <3>2, Zenon
    <3> QED
      BY <3>3, Zenon
  <2> QED
    BY <2>2, <2>3, <2>4
<1>4. <<x>> \o c \in Stream
  BY <1>1, HeadCell, Zenon
<1>5. QED
  BY <1>2, <1>3, <1>4, Zenon DEF ReadsIf

\* A reader that makes u of what g reads as v.
LEMMA MapReadsIf ==
    ASSUME NEW c, NEW g, NEW ok, NEW v, ReadsIf(g, c, ok, v), NEW h, NEW u,
           \A r \in Stream : ~g[r].ok => h[r] = Fails,
           \A r, t \in Stream : g[r] = Got(v, t) => h[r] = Got(u, t)
    PROVE  ReadsIf(h, c, ok, u)
<1>1. /\ c \in Stream
      /\ \A t \in Stream : g[c \o t] = IF ok THEN Got(v, t) ELSE Fails
      /\ \A s : IsCut(s, c) => ~g[s].ok
  BY Zenon DEF ReadsIf
<1>2. ASSUME NEW t \in Stream PROVE h[c \o t] = IF ok THEN Got(u, t) ELSE Fails
  <2>1. c \o t \in Stream
    BY <1>1, Streams, Zenon
  <2>2. CASE ok
    <3>1. g[c \o t] = Got(v, t)
      BY <1>1, <2>2, Zenon
    <3>2. h[c \o t] = Got(u, t)
      BY <2>1, <3>1, Zenon
    <3> QED
      BY <2>2, <3>2, Zenon
  <2>3. CASE ~ok
    <3>1. g[c \o t] = Fails
      BY <1>1, <2>3, Zenon
    <3>2. ~g[c \o t].ok
      BY <3>1, GotParts, Zenon
    <3>3. h[c \o t] = Fails
      BY <2>1, <3>2, Zenon
    <3> QED
      BY <2>3, <3>3, Zenon
  <2> QED
    BY <2>2, <2>3
<1>3. ASSUME NEW s, IsCut(s, c) PROVE ~h[s].ok
  <2>1. s \in Stream
    BY <1>3, Zenon DEF IsCut
  <2>2. ~g[s].ok
    BY <1>1, <1>3, Zenon
  <2>3. h[s] = Fails
    BY <2>1, <2>2, Zenon
  <2> QED
    BY <2>3, GotParts, Zenon
<1>4. QED
  BY <1>1, <1>2, <1>3, Zenon DEF ReadsIf

\* The same for what is read whatever it is.
LEMMA HeadReads ==
    ASSUME NEW x \in ACell, NEW c, NEW g, NEW v, Reads(g, c, v), NEW f,
           \A s \in Stream : Take(x.w, s) = Fails => f[s] = Fails,
           \A s, r \in Stream : Take(x.w, s) = Got(x.v, r) => f[s] = g[r]
    PROVE  Reads(f, <<x>> \o c, v)
<1>1. PICK ok : ok = TRUE
  BY Zenon
<1>2. ReadsIf(g, c, ok, v)
  BY <1>1, ReadsIfReads
<1>3. ReadsIf(f, <<x>> \o c, ok, v)
  BY <1>2, HeadReadsIf
<1>4. QED
  BY <1>1, <1>3, ReadsIfReads

LEMMA HeadRefuses ==
    ASSUME NEW x \in ACell, NEW c, NEW g, Refuses(g, c), NEW f,
           \A s \in Stream : Take(x.w, s) = Fails => f[s] = Fails,
           \A s, r \in Stream : Take(x.w, s) = Got(x.v, r) => f[s] = g[r]
    PROVE  Refuses(f, <<x>> \o c)
<1>1. PICK ok : ok = FALSE
  BY Zenon
<1>2. PICK v : v = <<>>
  BY Zenon
<1>3. ReadsIf(g, c, ok, v)
  BY <1>1, ReadsIfReads
<1>4. ReadsIf(f, <<x>> \o c, ok, v)
  BY <1>3, HeadReadsIf
<1>5. QED
  BY <1>1, <1>4, ReadsIfReads

LEMMA MapReads ==
    ASSUME NEW c, NEW g, NEW v, Reads(g, c, v), NEW h, NEW u,
           \A r \in Stream : ~g[r].ok => h[r] = Fails,
           \A r, t \in Stream : g[r] = Got(v, t) => h[r] = Got(u, t)
    PROVE  Reads(h, c, u)
<1>1. PICK ok : ok = TRUE
  BY Zenon
<1>2. ReadsIf(g, c, ok, v)
  BY <1>1, ReadsIfReads
<1>3. ReadsIf(h, c, ok, u)
  BY <1>2, MapReadsIf
<1>4. QED
  BY <1>1, <1>3, ReadsIfReads

\* A cell of its own.
LEMMA CellReads ==
    ASSUME NEW x \in ACell, NEW f, \A s \in Stream : f[s] = Take(x.w, s)
    PROVE  Reads(f, <<x>>, x.v)
<1> DEFINE g == [r \in Stream |-> Got(x.v, r)]
<1>1. Reads(g, <<>>, x.v)
  <2>1. ASSUME NEW t \in Stream PROVE g[<<>> \o t] = Got(x.v, t)
    <3>1. <<>> \o t = t
      BY Streams
    <3>2. g[t] = Got(x.v, t)
      OBVIOUS
    <3> QED
      BY <3>1, <3>2, Zenon
  <2>2. <<>> \in Stream /\ \A s : ~IsCut(s, <<>>)
    BY Streams, CutOfNothing
  <2> HIDE DEF g
  <2> QED
    BY <2>1, <2>2, Zenon DEF Reads
<1>2. \A s \in Stream : Take(x.w, s) = Fails => f[s] = Fails
  BY Zenon
<1>3. \A s, r \in Stream : Take(x.w, s) = Got(x.v, r) => f[s] = g[r]
  <2>1. \A r \in Stream : g[r] = Got(x.v, r)
    OBVIOUS
  <2> HIDE DEF g
  <2> QED
    BY <2>1, Zenon
<1>4. Reads(f, <<x>> \o <<>>, x.v)
  <2> HIDE DEF g
  <2> QED
    BY <1>1, <1>2, <1>3, HeadReads
<1>5. <<x>> \o <<>> = <<x>>
  BY StreamFacts, Zenon
<1>6. QED
  BY <1>4, <1>5, Zenon

\* What one cell of a width and value is.
LEMMA OneCell ==
    ASSUME NEW width \in Nat, NEW v \in Int
    PROVE  LET x == [w |-> width, v |-> v]
           IN  /\ x \in ACell /\ x.w = width /\ x.v = v
               /\ Cell(width, v).ok /\ Cell(width, v).cells = <<x>>
               /\ <<x>> \in Stream /\ Size(<<x>>) = width
<1> DEFINE x == [w |-> width, v |-> v]
<1>1. x \in ACell /\ x.w = width /\ x.v = v
  BY DEF ACell
<1>2. Cell(width, v).ok /\ Cell(width, v).cells = <<x>>
  BY DEF Cell, Written
<1> HIDE DEF x
<1>3. <<x>> \in Stream /\ Size(<<x>>) = width
  <2>1. <<x>> \in Stream
    BY <1>1, StreamFacts
  <2>2. Size(<<x>>) = x.w
    BY <1>1, SizeFacts
  <2> QED
    BY <1>1, <2>1, <2>2
<1>4. QED
  BY <1>1, <1>2, <1>3 DEF x

\* A cell and what follows it.
LEMMA CellAndRest ==
    ASSUME NEW width \in Nat, NEW v \in Int, NEW p, p.cells \in Stream
    PROVE  LET x == [w |-> width, v |-> v]
           IN  /\ (Cell(width, v) ++ p).ok <=> p.ok
               /\ (Cell(width, v) ++ p).cells = <<x>> \o p.cells
               /\ (Cell(width, v) ++ p).cells \in Stream
               /\ Size((Cell(width, v) ++ p).cells) = width + Size(p.cells)
<1> DEFINE x == [w |-> width, v |-> v]
<1>1. /\ Cell(width, v).ok /\ Cell(width, v).cells = <<x>>
      /\ <<x>> \in Stream /\ Size(<<x>>) = width
  BY OneCell
<1> HIDE DEF x
<1>2. PICK l \in Stream : l = <<x>>
  BY <1>1, Zenon
<1>3. PICK c \in Stream : c = p.cells
  BY Zenon
<1>4. /\ (Cell(width, v) ++ p).ok <=> p.ok
      /\ (Cell(width, v) ++ p).cells = Cell(width, v).cells \o p.cells
  BY <1>1, TwoPieces
<1>5. (Cell(width, v) ++ p).cells = l \o c
  BY <1>1, <1>2, <1>3, <1>4, Zenon
<1>6. l \o c \in Stream /\ Size(l \o c) = Size(l) + Size(c)
  BY Streams, SizeFacts
<1>7. Size(l) = width
  BY <1>1, <1>2, Zenon
<1>8. QED
  BY <1>2, <1>3, <1>4, <1>5, <1>6, <1>7, Zenon DEF x

RawReader(n) == [s \in Stream |-> ReadRaw(n, s)]

\* Opaque bytes are read as they were written.
LEMMA RawReads ==
    ASSUME NEW b, IsBlob(b)
    PROVE  /\ b.n \in Nat /\ b.id \in Int
           /\ WriteRaw(b).ok /\ WriteRaw(b).cells \in Stream
           /\ Size(WriteRaw(b).cells) = b.n
           /\ Reads(RawReader(b.n), WriteRaw(b).cells, b)
<1>1. b.n \in Nat /\ b.id \in Int /\ b = Blob(b.n, b.id) /\ (b.n = 0 => b = Empty)
  BY DEF IsBlob, Blob
<1>2. CASE b.n = 0
  <2>1. WriteRaw(b).ok /\ WriteRaw(b).cells = <<>>
    BY <1>2 DEF WriteRaw, Written
  <2>2. ASSUME NEW t \in Stream PROVE RawReader(b.n)[<<>> \o t] = Got(b, t)
    <3>1. <<>> \o t = t
      BY Streams
    <3>2. RawReader(b.n)[t] = Got(b, t)
      BY <1>1, <1>2 DEF RawReader, ReadRaw
    <3> QED
      BY <3>1, <3>2, Zenon
  <2>3. <<>> \in Stream /\ \A s : ~IsCut(s, <<>>)
    BY Streams, CutOfNothing
  <2>4. Reads(RawReader(b.n), <<>>, b)
    BY <2>2, <2>3, Zenon DEF Reads
  <2> QED
    BY <1>1, <1>2, <2>1, <2>3, <2>4, SizeFacts
<1>3. CASE b.n # 0
  <2> DEFINE x == [w |-> b.n, v |-> b.id]
             g == [s \in Stream |-> Take(b.n, s)]
  <2>1. WriteRaw(b) = Cell(b.n, b.id)
    BY <1>3 DEF WriteRaw
  <2>2. /\ x \in ACell /\ x.w = b.n /\ x.v = b.id
        /\ Cell(b.n, b.id).ok /\ Cell(b.n, b.id).cells = <<x>>
        /\ <<x>> \in Stream /\ Size(<<x>>) = b.n
    BY <1>1, OneCell
  <2> HIDE DEF x
  <2>3. \A s \in Stream : g[s] = Take(b.n, s)
    OBVIOUS
  <2>4. \A s \in Stream : RawReader(b.n)[s] =
           IF g[s].ok THEN Got(Blob(b.n, g[s].v), g[s].rest) ELSE Fails
    BY <1>3, <2>3 DEF RawReader, ReadRaw, Map
  <2> HIDE DEF g
  <2>5. Reads(g, <<x>>, b.id)
    <3>1. \A s \in Stream : g[s] = Take(x.w, s)
      BY <2>2, <2>3
    <3>2. Reads(g, <<x>>, x.v)
      BY <2>2, <3>1, CellReads
    <3> QED
      BY <2>2, <3>2, Zenon
  <2>6. \A r \in Stream : ~g[r].ok => RawReader(b.n)[r] = Fails
    BY <2>4, Zenon
  <2>7. ASSUME NEW r \in Stream, NEW t \in Stream, g[r] = Got(b.id, t)
        PROVE  RawReader(b.n)[r] = Got(b, t)
    <3>1. g[r].ok /\ g[r].v = b.id /\ g[r].rest = t
      BY <2>7, GotParts
    <3> QED
      BY <1>1, <2>4, <3>1, Zenon
  <2>8. Reads(RawReader(b.n), <<x>>, b)
    <3>1. PICK l : l = <<x>>
      BY Zenon
    <3>2. Reads(g, l, b.id)
      BY <2>5, <3>1, Zenon
    <3>3. PICK h : h = RawReader(b.n)
      BY Zenon
    <3>4. \A r \in Stream : ~g[r].ok => h[r] = Fails
      BY <2>6, <3>3, Zenon
    <3>5. \A r, t \in Stream : g[r] = Got(b.id, t) => h[r] = Got(b, t)
      BY <2>7, <3>3, Zenon
    <3>6. Reads(h, l, b)
      BY <3>2, <3>4, <3>5, MapReads
    <3> QED
      BY <3>1, <3>3, <3>6, Zenon
  <2> QED
    BY <1>1, <2>1, <2>2, <2>8, Zenon
<1>4. QED
  BY <1>2, <1>3

ByteArrayReader == [s \in Stream |-> ReadByteArray(s)]

\* Bytes behind their length.
LEMMA ByteArrayReads ==
    ASSUME NEW b, IsBlob(b)
    PROVE  /\ WriteByteArray(b).ok /\ WriteByteArray(b).cells \in Stream
           /\ WriteByteArray(b).cells = <<[w |-> 4, v |-> b.n]>> \o WriteRaw(b).cells
           /\ Size(WriteByteArray(b).cells) = 4 + b.n
           /\ Reads(ByteArrayReader, WriteByteArray(b).cells, b)
<1> DEFINE x == [w |-> 4, v |-> b.n]
           c == WriteRaw(b).cells
           g == [r \in Stream |-> If(b.n <= Size(r), ReadRaw(b.n, r))]
<1>1. /\ b.n \in Nat /\ b.id \in Int /\ WriteRaw(b).ok /\ c \in Stream /\ Size(c) = b.n
      /\ Reads(RawReader(b.n), c, b)
  BY RawReads
<1>2. x \in ACell /\ x.w = 4 /\ x.v = b.n
  BY <1>1 DEF ACell
<1>3. /\ WriteByteArray(b).ok /\ WriteByteArray(b).cells = <<x>> \o c
      /\ WriteByteArray(b).cells \in Stream /\ Size(WriteByteArray(b).cells) = 4 + b.n
  BY <1>1, CellAndRest, SMTT(30) DEF WriteByteArray
<1>4. \A r \in Stream : g[r] = If(b.n <= Size(r), RawReader(b.n)[r])
  BY DEF RawReader
<1>5. \A s \in Stream : Take(x.w, s) = Fails => ByteArrayReader[s] = Fails
  BY <1>2 DEF ByteArrayReader, ReadByteArray, ReadLength, Then, Fails
<1>6. \A s, r \in Stream : Take(x.w, s) = Got(x.v, r) => ByteArrayReader[s] = g[r]
  BY <1>1, <1>2 DEF ByteArrayReader, ReadByteArray, ReadLength, Then, Fails, Got, If
<1> HIDE DEF x, c, g
<1>7. Reads(g, c, b)
  <2>1. ASSUME NEW t \in Stream PROVE g[c \o t] = Got(b, t)
    <3>1. PICK d \in Stream : d = c \o t
      BY <1>1, Streams, Zenon
    <3>2. Size(d) = b.n + Size(t) /\ Size(t) \in Nat
      BY <1>1, <3>1, SizeFacts
    <3>3. b.n <= Size(d)
      BY <1>1, <3>2
    <3>4. g[d] = RawReader(b.n)[d]
      BY <1>4, <3>3 DEF If
    <3>5. RawReader(b.n)[c \o t] = Got(b, t)
      BY <1>1, Zenon DEF Reads
    <3> QED
      BY <3>1, <3>4, <3>5, Zenon
  <2>2. ASSUME NEW s, IsCut(s, c) PROVE ~g[s].ok
    <3>1. s \in Stream
      BY <2>2, Zenon DEF IsCut
    <3>2. ~RawReader(b.n)[s].ok
      BY <1>1, <2>2, Zenon DEF Reads
    <3>3. g[s] = RawReader(b.n)[s] \/ g[s] = Fails
      BY <1>4, <3>1 DEF If
    <3> QED
      BY <3>2, <3>3, GotParts, Zenon
  <2> QED
    BY <1>1, <2>1, <2>2, Zenon DEF Reads
<1>8. Reads(ByteArrayReader, <<x>> \o c, b)
  BY <1>2, <1>5, <1>6, <1>7, HeadReads
<1>9. QED
  BY <1>3, <1>8, Zenon DEF x, c

TextReader == [s \in Stream |-> ReadText(s)]

\* A text behind its length.
LEMMA TextReads ==
    ASSUME NEW b, IsBlob(b), WriteText(b).ok
    PROVE  /\ b.n <= 255 /\ WriteText(b).cells \in Stream
           /\ Size(WriteText(b).cells) = 1 + b.n
           /\ Reads(TextReader, WriteText(b).cells, b)
<1> DEFINE x == [w |-> 1, v |-> b.n]
           c == WriteRaw(b).cells
<1>1. /\ b.n \in Nat /\ b.id \in Int /\ WriteRaw(b).ok /\ c \in Stream /\ Size(c) = b.n
      /\ Reads(RawReader(b.n), c, b)
  BY RawReads
<1>2. x \in ACell /\ x.w = 1 /\ x.v = b.n
  BY <1>1 DEF ACell
<1>3. b.n <= 255 /\ WriteText(b) = Cell(1, b.n) ++ WriteRaw(b)
  BY DEF WriteText, When, Refuse
<1>4. /\ WriteText(b).cells = <<x>> \o c
      /\ WriteText(b).cells \in Stream /\ Size(WriteText(b).cells) = 1 + b.n
  <2> HIDE DEF x, c
  <2>1. /\ (Cell(1, b.n) ++ WriteRaw(b)).cells = <<x>> \o c
        /\ (Cell(1, b.n) ++ WriteRaw(b)).cells \in Stream
        /\ Size((Cell(1, b.n) ++ WriteRaw(b)).cells) = 1 + b.n
    <3>1. 1 \in Nat
      OBVIOUS
    <3>2. b.n \in Int /\ WriteRaw(b).cells \in Stream /\ Size(WriteRaw(b).cells) = b.n
      BY <1>1 DEF c
    <3> QED
      BY <3>1, <3>2, CellAndRest, SMTT(30) DEF x, c
  <2> QED
    BY <1>3, <2>1, Zenon
<1>5. \A s \in Stream : Take(x.w, s) = Fails => TextReader[s] = Fails
  BY <1>2 DEF TextReader, ReadText, Then, Fails
<1>6. \A s, r \in Stream : Take(x.w, s) = Got(x.v, r) => TextReader[s] = RawReader(b.n)[r]
  BY <1>1, <1>2 DEF TextReader, ReadText, Then, Got, RawReader
<1> HIDE DEF x, c
<1>7. Reads(TextReader, <<x>> \o c, b)
  BY <1>1, <1>2, <1>5, <1>6, HeadReads
<1>8. QED
  BY <1>3, <1>4, <1>7, Zenon

IntXReader == [s \in Stream |-> ReadIntX(s)]

\* The header of a number tells its length and its sign.
LEMMA HeaderTells ==
    ASSUME NEW p, IsPacked(p)
    PROVE  /\ Header(p) \in Nat /\ Header(p) % 64 = p.length
           /\ ((Header(p) \div 64) % 2 = 1) = p.overlong
           /\ (Header(p) >= 128) = p.negative
           /\ p.length \in 0..32 /\ IsBlob(Blob(p.length, p.content))
           /\ p = [length |-> p.length, overlong |-> p.overlong,
                   negative |-> p.negative, content |-> p.content]
<1>1. PICK d \in 0..WordDigits, negative \in BOOLEAN, c \in Nat :
         p = Packed(d, negative, c) /\ (d = 0 => c = 0)
  BY DEF IsPacked
<1>2. d * DigitBytes \in 0..32 /\ (d * DigitBytes = 0 <=> d = 0)
  BY LengthsTell
<1>3. PICK l \in 0..32 : l = d * DigitBytes
  BY <1>2
<1>4. /\ p = [length |-> l, overlong |-> FALSE, negative |-> negative, content |-> c]
      /\ l = 0 => c = 0
  BY <1>1, <1>2, <1>3 DEF Packed
<1>5. p.length = l /\ p.overlong = FALSE /\ p.negative = negative /\ p.content = c
  BY <1>4
<1>6. IsBlob(Blob(l, c))
  BY <1>4 DEF IsBlob, Blob, Empty
<1>7. CASE negative
  <2>1. Header(p) = l + 128
    BY <1>5, <1>7 DEF Header
  <2>2. (l + 128) % 64 = l /\ (l + 128) \div 64 = 2 /\ l + 128 >= 128
    OBVIOUS
  <2>3. /\ Header(p) \in Nat /\ Header(p) % 64 = p.length
        /\ ~((Header(p) \div 64) % 2 = 1) /\ Header(p) >= 128
    BY <1>5, <2>1, <2>2
  <2> QED
    BY <1>4, <1>5, <1>6, <1>7, <2>3
<1>8. CASE ~negative
  <2>1. Header(p) = l
    BY <1>5, <1>8 DEF Header
  <2>2. l % 64 = l /\ l \div 64 = 0 /\ ~(l >= 128)
    OBVIOUS
  <2>3. /\ Header(p) \in Nat /\ Header(p) % 64 = p.length
        /\ ~((Header(p) \div 64) % 2 = 1) /\ ~(Header(p) >= 128)
    BY <1>5, <2>1, <2>2
  <2>4. ((Header(p) \div 64) % 2 = 1) = p.overlong /\ (Header(p) >= 128) = p.negative
    <3>1. p.overlong = FALSE /\ p.negative = FALSE
      BY <1>5, <1>8
    <3>2. ((Header(p) \div 64) % 2 = 1) = FALSE /\ (Header(p) >= 128) = FALSE
      BY <2>3
    <3> QED
      BY <3>1, <3>2, Zenon
  <2> QED
    BY <1>4, <1>5, <1>6, <2>3, <2>4
<1>9. QED
  BY <1>7, <1>8

\* An amount is read as its word, or refused for its length.
LEMMA IntXReads ==
    ASSUME NEW v \in Int, WriteIntX(v).ok
    PROVE  /\ Encodable(v) /\ WriteIntX(v).cells \in Stream
           /\ Size(WriteIntX(v).cells) \in 1..33
           /\ IntXAccepted(PackIntX(v)) =>
                 Reads(IntXReader, WriteIntX(v).cells, IntXValue(PackIntX(v)))
           /\ ~IntXAccepted(PackIntX(v)) => Refuses(IntXReader, WriteIntX(v).cells)
<1> DEFINE p == PackIntX(v)
           b == Blob(p.length, p.content)
           x == [w |-> 1, v |-> Header(p)]
           c == WriteRaw(b).cells
           Outcome(r) == If(IntXAccepted(p), Got(IntXValue(p), r))
           g == [r \in Stream |-> IF RawReader(p.length)[r].ok
                                  THEN LET q == [length |-> p.length, overlong |-> p.overlong,
                                                 negative |-> p.negative,
                                                 content |-> RawReader(p.length)[r].v.id]
                                       IN  If(IntXAccepted(q),
                                              Got(IntXValue(q), RawReader(p.length)[r].rest))
                                  ELSE Fails]
<1>1. Encodable(v) /\ WriteIntX(v) = Cell(1, Header(p)) ++ WriteRaw(b)
  BY DEF WriteIntX, When, Refuse, WritePacked
<1>2. IsPacked(p)
  BY IntXShape
<1> HIDE DEF p
<1>3. /\ Header(p) \in Nat /\ Header(p) % 64 = p.length
      /\ ((Header(p) \div 64) % 2 = 1) = p.overlong
      /\ (Header(p) >= 128) = p.negative
      /\ p.length \in 0..32 /\ IsBlob(b)
      /\ p = [length |-> p.length, overlong |-> p.overlong,
              negative |-> p.negative, content |-> p.content]
  BY <1>2, HeaderTells
<1>4. b.n = p.length /\ b.id = p.content
  BY DEF Blob
<1> HIDE DEF b
<1>5. /\ WriteRaw(b).ok /\ c \in Stream /\ Size(c) = p.length
      /\ Reads(RawReader(p.length), c, b)
  BY <1>3, <1>4, RawReads
<1>6. x \in ACell /\ x.w = 1 /\ x.v = Header(p)
  BY <1>3 DEF ACell
<1>7. /\ WriteIntX(v).cells = <<x>> \o c /\ WriteIntX(v).cells \in Stream
      /\ Size(WriteIntX(v).cells) = 1 + p.length
  <2> HIDE DEF x, c
  <2>1. /\ (Cell(1, Header(p)) ++ WriteRaw(b)).cells = <<x>> \o c
        /\ (Cell(1, Header(p)) ++ WriteRaw(b)).cells \in Stream
        /\ Size((Cell(1, Header(p)) ++ WriteRaw(b)).cells) = 1 + Size(c)
    BY <1>3, <1>5, 1 \in Nat, Header(p) \in Int, CellAndRest DEF x, c
  <2> QED
    BY <1>1, <1>5, <2>1, Zenon
<1>8. \A s \in Stream : Take(x.w, s) = Fails => IntXReader[s] = Fails
  <2> SUFFICES ASSUME NEW s \in Stream, Take(x.w, s) = Fails PROVE IntXReader[s] = Fails
    OBVIOUS
  <2>1. ~Take(1, s).ok
    BY <1>6, GotParts
  <2>2. ReadPacked(s) = Fails
    BY <2>1 DEF ReadPacked, Then
  <2>3. ReadIntX(s) = Fails
    BY <2>2, GotParts DEF ReadIntX, Then
  <2> QED
    BY <2>3 DEF IntXReader
<1>9. ASSUME NEW s \in Stream, NEW r \in Stream, Take(x.w, s) = Got(x.v, r)
      PROVE  IntXReader[s] = g[r]
  <2>1. Take(1, s).ok /\ Take(1, s).v = Header(p) /\ Take(1, s).rest = r
    BY <1>6, <1>9, GotParts
  <2>2. ReadRaw(p.length, r) = RawReader(p.length)[r]
    BY DEF RawReader
  <2>3. ReadPacked(s) =
          IF RawReader(p.length)[r].ok
          THEN Got([length |-> p.length, overlong |-> p.overlong, negative |-> p.negative,
                    content |-> RawReader(p.length)[r].v.id], RawReader(p.length)[r].rest)
          ELSE Fails
    BY <1>3, <2>1, <2>2 DEF ReadPacked, Then, Map
  <2>4. IntXReader[s] = ReadIntX(s)
    BY DEF IntXReader
  <2>5. CASE RawReader(p.length)[r].ok
    <3> DEFINE q == [length |-> p.length, overlong |-> p.overlong, negative |-> p.negative,
                     content |-> RawReader(p.length)[r].v.id]
    <3>1. ReadPacked(s) = Got(q, RawReader(p.length)[r].rest)
      BY <2>3, <2>5
    <3>2. g[r] = If(IntXAccepted(q), Got(IntXValue(q), RawReader(p.length)[r].rest))
      BY <2>5
    <3> HIDE DEF g, q
    <3>3. ReadIntX(s) = If(IntXAccepted(q), Got(IntXValue(q), RawReader(p.length)[r].rest))
      BY <3>1 DEF ReadIntX, Then, Got
    <3> QED
      BY <2>4, <3>2, <3>3
  <2>6. CASE ~RawReader(p.length)[r].ok
    <3>1. ReadPacked(s) = Fails
      BY <2>3, <2>6
    <3>2. ReadIntX(s) = Fails
      BY <3>1 DEF ReadIntX, Then, Fails
    <3>3. g[r] = Fails
      BY <2>6
    <3> QED
      BY <2>4, <3>2, <3>3
  <2> QED
    BY <2>5, <2>6
<1>10. \A r \in Stream : ~RawReader(p.length)[r].ok => g[r] = Fails
  OBVIOUS
<1>11. ASSUME NEW r \in Stream, NEW t \in Stream, RawReader(p.length)[r] = Got(b, t)
       PROVE  g[r] = If(IntXAccepted(p), Got(IntXValue(p), t))
  <2>1. /\ RawReader(p.length)[r].ok /\ RawReader(p.length)[r].v = b
        /\ RawReader(p.length)[r].rest = t
    BY <1>11, GotParts
  <2> QED
    BY <1>3, <1>4, <2>1
<1> HIDE DEF x, c, g
<1>12. ASSUME IntXAccepted(p) PROVE Reads(IntXReader, <<x>> \o c, IntXValue(p))
  <2>1. \A r, t \in Stream : RawReader(p.length)[r] = Got(b, t) => g[r] = Got(IntXValue(p), t)
    BY <1>11, <1>12 DEF If
  <2>2. Reads(g, c, IntXValue(p))
    BY <1>5, <1>10, <2>1, MapReads
  <2> QED
    BY <1>6, <1>8, <1>9, <2>2, HeadReads
<1>13. ASSUME ~IntXAccepted(p) PROVE Refuses(IntXReader, <<x>> \o c)
  <2>1. \A r, t \in Stream : RawReader(p.length)[r] = Got(b, t) => g[r] = Fails
    BY <1>11, <1>13 DEF If
  <2>2. ASSUME NEW t \in Stream PROVE g[c \o t] = Fails
    <3>1. RawReader(p.length)[c \o t] = Got(b, t)
      BY <1>5, Zenon DEF Reads
    <3>2. c \o t \in Stream
      BY <1>5, Streams, Zenon
    <3> QED
      BY <2>1, <3>1, <3>2, Zenon
  <2>3. ASSUME NEW s, IsCut(s, c) PROVE ~g[s].ok
    <3>1. s \in Stream /\ ~RawReader(p.length)[s].ok
      BY <1>5, <2>3, Zenon DEF Reads, IsCut
    <3>2. g[s] = Fails
      BY <1>10, <3>1, Zenon
    <3> QED
      BY <3>2, GotParts, Zenon
  <2>4. Refuses(g, c)
    BY <1>5, <2>2, <2>3, Zenon DEF Refuses
  <2> QED
    BY <1>6, <1>8, <1>9, <2>4, HeadRefuses
<1>14. Size(WriteIntX(v).cells) \in 1..33
  <2>1. PICK l \in 0..32 : l = p.length
    BY <1>3
  <2>2. 1 + l \in 1..33
    OBVIOUS
  <2> QED
    BY <1>7, <2>1, <2>2, Zenon
<1>15. QED
  BY <1>1, <1>7, <1>12, <1>13, <1>14, Zenon DEF p

SectionReader == [s \in Stream |-> ReadSection(s)]

\* A section is read as the writer means it.
LEMMA SectionReads ==
    ASSUME NEW e, IsBlob(e.args), e.offset \in Int, WriteSection(e).ok
    PROVE  /\ WriteSection(e).cells \in Stream
           /\ 4 <= Size(WriteSection(e).cells)
           /\ Reads(SectionReader, WriteSection(e).cells, MeantSection(e))
<1>1. ASSUME NEW s \in Stream, NEW n \in Int, NEW r \in Stream, Take(4, s) = Got(n, r)
      PROVE  SectionReader[s] =
               IF n < 0 THEN Got([offset |-> n, args |-> Empty], r)
               ELSE Map(ReadRaw(n, r), LAMBDA b : [offset |-> 0, args |-> b])
  <2>1. Take(4, s).ok /\ Take(4, s).v = n /\ Take(4, s).rest = r
    BY <1>1, GotParts
  <2> QED
    BY <2>1 DEF SectionReader, ReadSection, Then
<1>2. ASSUME NEW s \in Stream, ~Take(4, s).ok PROVE SectionReader[s] = Fails
  BY <1>2 DEF SectionReader, ReadSection, Then
<1>3. CASE e.offset < 0
  <2> DEFINE x == [w |-> 4, v |-> e.offset]
             g == [s \in Stream |-> Take(4, s)]
  <2>1. /\ x \in ACell /\ x.w = 4 /\ x.v = e.offset
        /\ Cell(4, e.offset).ok /\ Cell(4, e.offset).cells = <<x>>
        /\ <<x>> \in Stream /\ Size(<<x>>) = 4
    BY OneCell
  <2> HIDE DEF x
  <2>2. WriteSection(e) = Cell(4, e.offset)
    <3>1. WriteSection(e) = When(-Top - 1 <= e.offset, Cell(4, e.offset))
      BY <1>3 DEF WriteSection
    <3>2. ~Refuse.ok
      BY DEF Refuse
    <3> QED
      BY <3>1, <3>2 DEF When
  <2>3. \A s \in Stream : g[s] = Take(4, s)
    OBVIOUS
  <2> HIDE DEF g
  <2>4. Reads(g, <<x>>, e.offset)
    BY <2>1, <2>3, CellReads
  <2>5. \A r \in Stream : ~g[r].ok => SectionReader[r] = Fails
    BY <1>2, <2>3
  <2>6. ASSUME NEW r \in Stream, NEW t \in Stream, g[r] = Got(e.offset, t)
        PROVE  SectionReader[r] = Got(MeantSection(e), t)
    <3>1. SectionReader[r] = Got([offset |-> e.offset, args |-> Empty], t)
      BY <1>1, <1>3, <2>3, <2>6 DEF Map
    <3>2. MeantSection(e) = [offset |-> e.offset, args |-> Empty]
      BY <1>3 DEF MeantSection
    <3> QED
      BY <3>1, <3>2, Zenon
  <2>7. Reads(SectionReader, <<x>>, MeantSection(e))
    BY <2>4, <2>5, <2>6, MapReads
  <2>8. 4 <= Size(<<x>>)
    BY <2>1
  <2> QED
    BY <2>1, <2>2, <2>7, <2>8, Zenon
<1>4. CASE ~(e.offset < 0)
  <2> DEFINE b == e.args
             x == [w |-> 4, v |-> b.n]
             c == WriteRaw(b).cells
             u == [offset |-> 0, args |-> b]
             g == [r \in Stream |-> Map(ReadRaw(b.n, r), LAMBDA d : [offset |-> 0, args |-> d])]
  <2>1. /\ b.n \in Nat /\ WriteRaw(b).ok /\ c \in Stream /\ Size(c) = b.n
        /\ Reads(RawReader(b.n), c, b)
    BY RawReads
  <2>2. x \in ACell /\ x.w = 4 /\ x.v = b.n
    BY <2>1 DEF ACell
  <2>3. WriteSection(e) = WriteByteArray(b)
    BY <1>4 DEF WriteSection
  <2>4. /\ WriteByteArray(b).ok /\ WriteByteArray(b).cells = <<x>> \o c
        /\ WriteByteArray(b).cells \in Stream /\ Size(WriteByteArray(b).cells) = 4 + b.n
    BY ByteArrayReads
  <2>5. MeantSection(e) = u
    BY <1>4 DEF MeantSection
  <2>6. \A r \in Stream : g[r] =
           IF RawReader(b.n)[r].ok
           THEN Got([offset |-> 0, args |-> RawReader(b.n)[r].v], RawReader(b.n)[r].rest)
           ELSE Fails
    BY DEF Map, RawReader
  <2>7. \A s, r \in Stream : Take(x.w, s) = Got(x.v, r) => SectionReader[s] = g[r]
    <3> SUFFICES ASSUME NEW s \in Stream, NEW r \in Stream, Take(x.w, s) = Got(x.v, r)
                 PROVE  SectionReader[s] = g[r]
      OBVIOUS
    <3>1. Take(4, s) = Got(b.n, r) /\ ~(b.n < 0) /\ b.n \in Int
      BY <2>1, <2>2
    <3>2. SectionReader[s] = Map(ReadRaw(b.n, r), LAMBDA d : [offset |-> 0, args |-> d])
      BY <1>1, <3>1 DEF Map
    <3> QED
      BY <3>2 DEF Map
  <2>8. \A s \in Stream : Take(x.w, s) = Fails => SectionReader[s] = Fails
    BY <1>2, <2>2, GotParts
  <2> HIDE DEF b, x, c, g
  <2>9. \A r \in Stream : ~RawReader(b.n)[r].ok => g[r] = Fails
    BY <2>6, Zenon
  <2>10. ASSUME NEW r \in Stream, NEW t \in Stream, RawReader(b.n)[r] = Got(b, t)
         PROVE  g[r] = Got(u, t)
    <3>1. /\ RawReader(b.n)[r].ok /\ RawReader(b.n)[r].v = b
          /\ RawReader(b.n)[r].rest = t
      BY <2>10, GotParts
    <3> QED
      BY <2>6, <3>1, Zenon
  <2> HIDE DEF u
  <2>11. Reads(g, c, u)
    BY <2>1, <2>9, <2>10, MapReads
  <2>12. Reads(SectionReader, <<x>> \o c, u)
    BY <2>2, <2>7, <2>8, <2>11, HeadReads
  <2>13. 4 <= Size(WriteByteArray(b).cells)
    BY <2>1, <2>4
  <2> QED
    BY <2>3, <2>4, <2>5, <2>12, <2>13, Zenon
<1>5. QED
  BY <1>3, <1>4

SectionsReader == [s \in Stream |-> ReadSections(s)]

\* The sections of a list of them, in a row.
LEMMA SectionRowReads ==
    ASSUME NEW k \in Nat, NEW es, Len(es) = k,
           \A i \in 1..k : IsBlob(es[i].args) /\ es[i].offset \in Int,
           WriteRow([i \in 1..k |-> WriteSection(es[i])]).ok
    PROVE  LET pieces == [i \in 1..k |-> WriteSection(es[i])]
               readers == [i \in 1..k |-> SectionReader]
           IN  /\ WriteRow(pieces).cells \in Stream
               /\ Reads(RowReader(readers), WriteRow(pieces).cells,
                        [i \in 1..k |-> MeantSection(es[i])])
<1> DEFINE pieces == [i \in 1..k |-> WriteSection(es[i])]
           readers == [i \in 1..k |-> SectionReader]
           vs == [i \in 1..k |-> MeantSection(es[i])]
<1>1. /\ Len(pieces) = k /\ Len(readers) = k
      /\ \A i \in 1..k : pieces[i] = WriteSection(es[i]) /\ readers[i] = SectionReader
                         /\ vs[i] = MeantSection(es[i])
  OBVIOUS
<1>0. WriteRow(pieces).ok
  OBVIOUS
<1> HIDE DEF pieces, readers
<1>3. \A i \in 1..k : pieces[i].ok
  BY <1>0, <1>1, RowWritten
<1>2. \A i \in 1..k : /\ pieces[i].ok /\ pieces[i].cells \in Stream
                      /\ Reads(readers[i], pieces[i].cells, vs[i])
  <2> HIDE DEF vs
  <2> SUFFICES ASSUME NEW i \in 1..k
               PROVE  /\ pieces[i].ok /\ pieces[i].cells \in Stream
                      /\ Reads(readers[i], pieces[i].cells, vs[i])
    OBVIOUS
  <2>1. WriteSection(es[i]).ok
    BY <1>1, <1>3, Zenon
  <2>2. /\ WriteSection(es[i]).cells \in Stream
        /\ Reads(SectionReader, WriteSection(es[i]).cells, MeantSection(es[i]))
    BY <2>1, SectionReads
  <2> QED
    BY <1>1, <1>3, <2>2, Zenon
<1>4. [i \in 1..k |-> vs[i]] = vs
  OBVIOUS
<1> HIDE DEF vs
<1>5. Reads(RowReader(readers), WriteRow(pieces).cells, [i \in 1..k |-> vs[i]])
  BY <1>1, <1>2, RowReads
<1>6. WriteRow(pieces).cells \in Stream
  BY <1>5, Zenon DEF Reads
<1>7. QED
  BY <1>4, <1>5, <1>6, Zenon DEF pieces, readers, vs

\* A list has a length, and is empty when that is 0.
LEMMA ListLength ==
    ASSUME NEW v, IsList(v)
    PROVE  Len(v) \in Nat /\ (v = <<>> <=> Len(v) = 0)
<1>1. PICK S : v \in Seq(S)
  BY DEF IsList
<1>2. QED
  BY <1>1

\* The arguments of a call are read as the writer means them.
LEMMA SectionsReads ==
    ASSUME NEW a, IsSections(a), WriteSections(a).ok
    PROVE  /\ WriteSections(a).cells \in Stream
           /\ 4 <= Size(WriteSections(a).cells)
           /\ Reads(SectionsReader, WriteSections(a).cells, MeantArgs(a))
<1>1. /\ IsBlob(a.args) /\ IsList(a.sections)
      /\ \A i \in 1..Len(a.sections) :
            IsBlob(a.sections[i].args) /\ a.sections[i].offset \in Int
  BY DEF IsSections
<1>2. ASSUME NEW s \in Stream, NEW n \in Int, NEW r \in Stream, Take(4, s) = Got(n, r)
      PROVE  /\ n >= 0 => SectionsReader[s] =
                   Map(ReadRaw(n, r), LAMBDA b : [args |-> b, sections |-> <<>>])
             /\ n < 0 => SectionsReader[s] =
                   Map(Repeat(-n, r, ReadSection), LAMBDA ss : [args |-> Empty, sections |-> ss])
  <2>1. Take(4, s).ok /\ Take(4, s).v = n /\ Take(4, s).rest = r
    BY <1>2, GotParts
  <2> QED
    BY <2>1 DEF SectionsReader, ReadSections, Then, Map
<1>3. ASSUME NEW s \in Stream, ~Take(4, s).ok PROVE SectionsReader[s] = Fails
  BY <1>3 DEF SectionsReader, ReadSections, Then
<1>4. CASE a.sections = <<>>
  <2> DEFINE b == a.args
             x == [w |-> 4, v |-> b.n]
             c == WriteRaw(b).cells
             u == [args |-> b, sections |-> <<>>]
             g == [r \in Stream |-> Map(ReadRaw(b.n, r), LAMBDA d : [args |-> d, sections |-> <<>>])]
  <2>1. /\ b.n \in Nat /\ WriteRaw(b).ok /\ c \in Stream /\ Size(c) = b.n
        /\ Reads(RawReader(b.n), c, b)
    BY <1>1, RawReads
  <2>2. x \in ACell /\ x.w = 4 /\ x.v = b.n
    BY <2>1 DEF ACell
  <2>3. WriteSections(a) = WriteByteArray(b)
    BY <1>4 DEF WriteSections
  <2>4. /\ WriteByteArray(b).ok /\ WriteByteArray(b).cells = <<x>> \o c
        /\ WriteByteArray(b).cells \in Stream /\ Size(WriteByteArray(b).cells) = 4 + b.n
    BY <1>1, ByteArrayReads
  <2>5. MeantArgs(a) = u
    BY <1>4 DEF MeantArgs
  <2>6. \A r \in Stream : g[r] =
           IF RawReader(b.n)[r].ok
           THEN Got([args |-> RawReader(b.n)[r].v, sections |-> <<>>], RawReader(b.n)[r].rest)
           ELSE Fails
    BY DEF Map, RawReader
  <2>7. \A s, r \in Stream : Take(x.w, s) = Got(x.v, r) => SectionsReader[s] = g[r]
    <3> SUFFICES ASSUME NEW s \in Stream, NEW r \in Stream, Take(x.w, s) = Got(x.v, r)
                 PROVE  SectionsReader[s] = g[r]
      OBVIOUS
    <3>1. Take(4, s) = Got(b.n, r) /\ b.n >= 0 /\ b.n \in Int
      BY <2>1, <2>2
    <3>2. SectionsReader[s] = Map(ReadRaw(b.n, r), LAMBDA d : [args |-> d, sections |-> <<>>])
      BY <1>2, <3>1 DEF Map
    <3> QED
      BY <3>2 DEF Map
  <2>8. \A s \in Stream : Take(x.w, s) = Fails => SectionsReader[s] = Fails
    BY <1>3, <2>2, GotParts
  <2> HIDE DEF b, x, c, g
  <2>9. \A r \in Stream : ~RawReader(b.n)[r].ok => g[r] = Fails
    BY <2>6, Zenon
  <2>10. ASSUME NEW r \in Stream, NEW t \in Stream, RawReader(b.n)[r] = Got(b, t)
         PROVE  g[r] = Got(u, t)
    <3>1. /\ RawReader(b.n)[r].ok /\ RawReader(b.n)[r].v = b
          /\ RawReader(b.n)[r].rest = t
      BY <2>10, GotParts
    <3> QED
      BY <2>6, <3>1, Zenon
  <2> HIDE DEF u
  <2>11. Reads(g, c, u)
    BY <2>1, <2>9, <2>10, MapReads
  <2>12. Reads(SectionsReader, <<x>> \o c, u)
    BY <2>2, <2>7, <2>8, <2>11, HeadReads
  <2>13. 4 <= Size(WriteByteArray(b).cells)
    BY <2>1, <2>4
  <2> QED
    BY <2>3, <2>4, <2>5, <2>12, <2>13, Zenon
<1>5. CASE a.sections # <<>>
  <2> DEFINE k == Len(a.sections)
             pieces == [i \in 1..k |-> WriteSection(a.sections[i])]
             readers == [i \in 1..k |-> SectionReader]
             vs == [i \in 1..k |-> MeantSection(a.sections[i])]
             x == [w |-> 4, v |-> -k]
             c == WriteRow(pieces).cells
             u == [args |-> Empty, sections |-> vs]
             g == [r \in Stream |-> IF RowReader(readers)[r].ok
                                    THEN Got([args |-> Empty, sections |-> RowReader(readers)[r].v],
                                             RowReader(readers)[r].rest)
                                    ELSE Fails]
  <2>1. k \in Nat /\ k > 0 /\ -k \in Int /\ -k < 0 /\ -(-k) = k
    BY <1>1, <1>5, ListLength
  <2>2. x \in ACell /\ x.w = 4 /\ x.v = -k
    BY <2>1 DEF ACell
  <2>4. WriteSections(a) = Cell(4, -k) ++ WriteRow(pieces)
    BY <1>5 DEF WriteSections
  <2>3. WriteRow(pieces).ok /\ c \in Stream /\ Reads(RowReader(readers), c, vs)
    <3>1. WriteRow(pieces).ok
      <4> HIDE DEF k, pieces
      <4>1. (Cell(4, -k) ++ WriteRow(pieces)).ok
        BY <2>4, Zenon
      <4> QED
        BY <4>1, TwoPieces
    <3> QED
      BY <1>1, <2>1, <3>1, SectionRowReads
  <2>5. MeantArgs(a) = u
    BY <1>5 DEF MeantArgs
  <2>6. \A r \in Stream : Repeat(k, r, ReadSection) = RowReader(readers)[r]
    BY DEF Repeat, RowReader, SectionReader
  <2>7. \A s, r \in Stream : Take(x.w, s) = Got(x.v, r) => SectionsReader[s] = g[r]
    <3> SUFFICES ASSUME NEW s \in Stream, NEW r \in Stream, Take(x.w, s) = Got(x.v, r)
                 PROVE  SectionsReader[s] = g[r]
      OBVIOUS
    <3>1. Take(4, s) = Got(-k, r)
      BY <2>2
    <3>2. SectionsReader[s] = Map(Repeat(-(-k), r, ReadSection),
                                  LAMBDA ss : [args |-> Empty, sections |-> ss])
      BY <1>2, <2>1, <3>1 DEF Map
    <3>3. SectionsReader[s] = Map(RowReader(readers)[r],
                                  LAMBDA ss : [args |-> Empty, sections |-> ss])
      BY <2>1, <2>6, <3>2 DEF Map
    <3> QED
      BY <3>3 DEF Map
  <2>8. \A s \in Stream : Take(x.w, s) = Fails => SectionsReader[s] = Fails
    BY <1>3, <2>2, GotParts
  <2>9. \A r \in Stream : ~RowReader(readers)[r].ok => g[r] = Fails
    OBVIOUS
  <2>10. ASSUME NEW r \in Stream, NEW t \in Stream, RowReader(readers)[r] = Got(vs, t)
         PROVE  g[r] = Got(u, t)
    <3>1. /\ RowReader(readers)[r].ok /\ RowReader(readers)[r].v = vs
          /\ RowReader(readers)[r].rest = t
      BY <2>10, GotParts
    <3> QED
      BY <3>1
  <2> HIDE DEF k, pieces, readers, vs, x, c, u, g
  <2>11. Reads(g, c, u)
    BY <2>3, <2>9, <2>10, MapReads
  <2>12. Reads(SectionsReader, <<x>> \o c, u)
    BY <2>2, <2>7, <2>8, <2>11, HeadReads
  <2>13. /\ (Cell(4, -k) ++ WriteRow(pieces)).ok
         /\ (Cell(4, -k) ++ WriteRow(pieces)).cells = <<x>> \o c
         /\ (Cell(4, -k) ++ WriteRow(pieces)).cells \in Stream
         /\ Size((Cell(4, -k) ++ WriteRow(pieces)).cells) = 4 + Size(c)
    BY <2>1, <2>3, 4 \in Nat, CellAndRest DEF x, c
  <2>14. 4 <= 4 + Size(c)
    <3>1. Size(c) \in Nat
      BY <2>3, SizeFacts
    <3> QED
      BY <3>1
  <2> QED
    BY <2>4, <2>5, <2>12, <2>13, <2>14, Zenon
<1>6. QED
  BY <1>4, <1>5

-----------------------------------------------------------------------------
(* Fields of an object.                                                    *)

IsItemKind(f) ==
    /\ f.kind \in {"int", "text", "bytes", "intx", "sections"}
    /\ f.kind = "int" => f.width \in Nat \ {0}

ItemReader(f) == [s \in Stream |-> ReadItem(f, s)]

\* Is the item read when it arrives whole, and as what?
ItemOk(f, v) == f.kind = "intx" => IntXAccepted(PackIntX(v))
ItemRead(f, v) == IF f.kind = "intx" THEN IntXValue(PackIntX(v)) ELSE MeantItem(f, v)

LEMMA ItemReads ==
    ASSUME NEW f, IsItemKind(f), NEW v, IsItem(f, v), WriteItem(f, v).ok
    PROVE  /\ WriteItem(f, v).cells \in Stream /\ 1 <= Size(WriteItem(f, v).cells)
           /\ ItemOk(f, v) => Reads(ItemReader(f), WriteItem(f, v).cells, ItemRead(f, v))
           /\ ~ItemOk(f, v) => Refuses(ItemReader(f), WriteItem(f, v).cells)
<1>1. CASE f.kind = "int"
  <2> DEFINE x == [w |-> f.width, v |-> v]
  <2>1. f.width \in Nat /\ f.width >= 1 /\ v \in Int
    BY <1>1 DEF IsItemKind, IsItem
  <2>2. WriteItem(f, v) = Cell(f.width, v)
    BY <1>1 DEF WriteItem, When, Refuse
  <2>3. /\ x \in ACell /\ x.w = f.width /\ x.v = v
        /\ Cell(f.width, v).cells = <<x>> /\ <<x>> \in Stream /\ Size(<<x>>) = f.width
    BY <2>1, OneCell
  <2> HIDE DEF x
  <2>4. ItemOk(f, v) /\ ItemRead(f, v) = v
    BY <1>1 DEF ItemOk, ItemRead, MeantItem
  <2>5. \A s \in Stream : ItemReader(f)[s] = Take(x.w, s)
    BY <1>1, <2>3 DEF ItemReader, ReadItem
  <2>6. Reads(ItemReader(f), <<x>>, x.v)
    BY <2>3, <2>5, CellReads
  <2>7. 1 <= Size(<<x>>)
    BY <2>1, <2>3
  <2> QED
    BY <2>2, <2>3, <2>4, <2>6, <2>7, Zenon
<1>2. CASE f.kind = "text"
  <2>1. IsBlob(v) /\ WriteItem(f, v) = WriteText(v)
    BY <1>2 DEF IsItem, WriteItem
  <2>2. WriteText(v).ok
    BY <2>1, Zenon
  <2>3. /\ v.n \in Nat /\ WriteText(v).cells \in Stream /\ Size(WriteText(v).cells) = 1 + v.n
        /\ Reads(TextReader, WriteText(v).cells, v)
    BY <2>1, <2>2, TextReads, RawReads
  <2>4. ItemReader(f) = TextReader
    BY <1>2 DEF ItemReader, ReadItem, TextReader
  <2>5. ItemOk(f, v) /\ ItemRead(f, v) = v
    BY <1>2 DEF ItemOk, ItemRead, MeantItem
  <2>6. 1 <= Size(WriteText(v).cells)
    BY <2>3
  <2> QED
    BY <2>1, <2>3, <2>4, <2>5, <2>6, Zenon
<1>3. CASE f.kind = "bytes"
  <2>1. IsBlob(v) /\ WriteItem(f, v) = WriteByteArray(v)
    BY <1>3 DEF IsItem, WriteItem
  <2>2. /\ v.n \in Nat /\ WriteByteArray(v).cells \in Stream
        /\ Size(WriteByteArray(v).cells) = 4 + v.n
        /\ Reads(ByteArrayReader, WriteByteArray(v).cells, v)
    BY <2>1, ByteArrayReads, RawReads
  <2>3. ItemReader(f) = ByteArrayReader
    BY <1>3 DEF ItemReader, ReadItem, ByteArrayReader
  <2>4. ItemOk(f, v) /\ ItemRead(f, v) = v
    BY <1>3 DEF ItemOk, ItemRead, MeantItem
  <2>5. 1 <= Size(WriteByteArray(v).cells)
    BY <2>2
  <2> QED
    BY <2>1, <2>2, <2>3, <2>4, <2>5, Zenon
<1>4. CASE f.kind = "intx"
  <2>1. v \in Int /\ WriteItem(f, v) = WriteIntX(v)
    BY <1>4 DEF IsItem, WriteItem
  <2>2. WriteIntX(v).ok
    BY <2>1, Zenon
  <2>3. /\ WriteIntX(v).cells \in Stream /\ Size(WriteIntX(v).cells) \in 1..33
        /\ IntXAccepted(PackIntX(v)) =>
              Reads(IntXReader, WriteIntX(v).cells, IntXValue(PackIntX(v)))
        /\ ~IntXAccepted(PackIntX(v)) => Refuses(IntXReader, WriteIntX(v).cells)
    BY <2>1, <2>2, IntXReads
  <2>4. ItemReader(f) = IntXReader
    BY <1>4 DEF ItemReader, ReadItem, IntXReader
  <2>5. /\ ItemOk(f, v) <=> IntXAccepted(PackIntX(v))
        /\ ItemRead(f, v) = IntXValue(PackIntX(v))
    BY <1>4 DEF ItemOk, ItemRead
  <2>6. 1 <= Size(WriteIntX(v).cells)
    BY <2>3
  <2> QED
    BY <2>1, <2>3, <2>4, <2>5, <2>6, Zenon
<1>5. CASE f.kind = "sections"
  <2>1. IsSections(v) /\ WriteItem(f, v) = WriteSections(v) /\ WriteSections(v).ok
    BY <1>5, Zenon DEF IsItem, WriteItem
  <2>2. /\ WriteSections(v).cells \in Stream /\ 4 <= Size(WriteSections(v).cells)
        /\ Reads(SectionsReader, WriteSections(v).cells, MeantArgs(v))
    BY <2>1, SectionsReads
  <2>3. ItemReader(f) = SectionsReader
    BY <1>5 DEF ItemReader, ReadItem, SectionsReader
  <2>4. ItemOk(f, v) /\ ItemRead(f, v) = MeantArgs(v)
    BY <1>5 DEF ItemOk, ItemRead, MeantItem
  <2>5. 1 <= Size(WriteSections(v).cells)
    <3>1. Size(WriteSections(v).cells) \in Nat
      BY <2>2, SizeFacts
    <3> QED
      BY <2>2, <3>1
  <2> QED
    BY <2>1, <2>2, <2>3, <2>4, <2>5, Zenon
<1>6. QED
  BY <1>1, <1>2, <1>3, <1>4, <1>5 DEF IsItemKind

IsItemLayout(layout) ==
    /\ Len(layout) \in Nat \ {0}
    /\ \A i \in 1..Len(layout) : IsItemKind(layout[i])

ItemsOk(layout, items) == \A i \in 1..Len(layout) : ItemOk(layout[i], items[i])
ItemsRead(layout, items) == [i \in 1..Len(layout) |-> ItemRead(layout[i], items[i])]

ItemsReader(layout) == [s \in Stream |-> ReadItems(layout, s)]

\* An object of a list.
LEMMA ItemsReads ==
    ASSUME NEW layout, IsItemLayout(layout), NEW items, AreItems(layout, items),
           WriteItems(layout, items).ok
    PROVE  /\ WriteItems(layout, items).cells \in Stream
           /\ 1 <= Size(WriteItems(layout, items).cells)
           /\ ItemsOk(layout, items) =>
                 Reads(ItemsReader(layout), WriteItems(layout, items).cells,
                       ItemsRead(layout, items))
           /\ ~ItemsOk(layout, items) =>
                 Refuses(ItemsReader(layout), WriteItems(layout, items).cells)
<1> DEFINE n == Len(layout)
           pieces == [i \in 1..n |-> WriteItem(layout[i], items[i])]
           readers == [i \in 1..n |-> ItemReader(layout[i])]
           vs == [i \in 1..n |-> ItemRead(layout[i], items[i])]
           c == WriteRow(pieces).cells
<1>1. n \in Nat /\ n >= 1 /\ Len(pieces) = n /\ Len(readers) = n
  BY DEF IsItemLayout
<1>2. \A i \in 1..n : /\ pieces[i] = WriteItem(layout[i], items[i])
                      /\ readers[i] = ItemReader(layout[i])
                      /\ vs[i] = ItemRead(layout[i], items[i])
  OBVIOUS
<1>3. WriteItems(layout, items) = WriteRow(pieces)
  BY DEF WriteItems
<1>4. ItemsRead(layout, items) = vs /\ [i \in 1..n |-> vs[i]] = vs
  BY DEF ItemsRead
<1>5. ItemsReader(layout) = RowReader(readers)
  BY DEF ItemsReader, ReadItems, RowReader, ItemReader
<1>6. \A i \in 1..n : IsItemKind(layout[i]) /\ IsItem(layout[i], items[i])
  BY DEF IsItemLayout, AreItems
<1> HIDE DEF pieces, readers, vs, n
<1>7. \A i \in 1..n : pieces[i].ok
  BY <1>1, <1>3, RowWritten
<1>8. ASSUME NEW i \in 1..n
      PROVE  /\ pieces[i].cells \in Stream /\ 1 <= Size(pieces[i].cells)
             /\ ItemOk(layout[i], items[i]) => Reads(readers[i], pieces[i].cells, vs[i])
             /\ ~ItemOk(layout[i], items[i]) => Refuses(readers[i], pieces[i].cells)
  <2>1. WriteItem(layout[i], items[i]).ok
    BY <1>2, <1>7, Zenon
  <2>2. /\ WriteItem(layout[i], items[i]).cells \in Stream
        /\ 1 <= Size(WriteItem(layout[i], items[i]).cells)
        /\ ItemOk(layout[i], items[i]) =>
              Reads(ItemReader(layout[i]), WriteItem(layout[i], items[i]).cells,
                    ItemRead(layout[i], items[i]))
        /\ ~ItemOk(layout[i], items[i]) =>
              Refuses(ItemReader(layout[i]), WriteItem(layout[i], items[i]).cells)
    BY <1>6, <2>1, ItemReads
  <2> QED
    BY <1>2, <2>2, Zenon
<1>9. \A i \in 1..n : \/ Reads(readers[i], pieces[i].cells, vs[i])
                      \/ Refuses(readers[i], pieces[i].cells)
  BY <1>8, Zenon
<1>10. /\ (\A i \in 1..n : Reads(readers[i], pieces[i].cells, vs[i])) =>
             Reads(RowReader(readers), c, [i \in 1..n |-> vs[i]])
       /\ (\E i \in 1..n : Refuses(readers[i], pieces[i].cells)) =>
             Refuses(RowReader(readers), c)
  BY <1>1, <1>9, RowReads
<1>11. c \in Stream /\ 1 <= Size(c)
  <2>1. \A i \in 1..Len(pieces) : pieces[i].cells \in Stream /\ 1 <= Size(pieces[i].cells)
    BY <1>1, <1>8, Zenon
  <2>2. c \in Stream /\ 1 * Len(pieces) <= Size(c)
    BY <1>1, <2>1, 1 \in Nat, RowCells
  <2>3. Size(c) \in Nat
    BY <2>2, SizeFacts
  <2> QED
    BY <1>1, <2>2, <2>3
<1> HIDE DEF c
<1>12. ASSUME ItemsOk(layout, items) PROVE Reads(RowReader(readers), c, vs)
  <2>1. \A i \in 1..n : Reads(readers[i], pieces[i].cells, vs[i])
    BY <1>8, <1>12, Zenon DEF ItemsOk, n
  <2> QED
    BY <1>4, <1>10, <2>1, Zenon
<1>13. ASSUME ~ItemsOk(layout, items) PROVE Refuses(RowReader(readers), c)
  <2>1. \E i \in 1..n : Refuses(readers[i], pieces[i].cells)
    BY <1>8, <1>13, Zenon DEF ItemsOk, n
  <2> QED
    BY <1>10, <2>1, Zenon
<1>14. QED
  BY <1>3, <1>4, <1>5, <1>11, <1>12, <1>13, Zenon DEF c

\* The objects of a list, in a row.
LEMMA ObjectRowReads ==
    ASSUME NEW layout, IsItemLayout(layout), NEW k \in Nat, NEW v, Len(v) = k,
           \A i \in 1..k : AreItems(layout, v[i]),
           WriteRow([i \in 1..k |-> WriteItems(layout, v[i])]).ok
    PROVE  LET c == WriteRow([i \in 1..k |-> WriteItems(layout, v[i])]).cells
               reader == RowReader([i \in 1..k |-> ItemsReader(layout)])
           IN  /\ c \in Stream /\ k <= Size(c)
               /\ (\A i \in 1..k : ItemsOk(layout, v[i])) =>
                     Reads(reader, c, [i \in 1..k |-> ItemsRead(layout, v[i])])
               /\ ~(\A i \in 1..k : ItemsOk(layout, v[i])) => Refuses(reader, c)
<1> DEFINE pieces == [i \in 1..k |-> WriteItems(layout, v[i])]
           readers == [i \in 1..k |-> ItemsReader(layout)]
           vs == [i \in 1..k |-> ItemsRead(layout, v[i])]
           c == WriteRow(pieces).cells
<1>1. Len(pieces) = k /\ Len(readers) = k
  OBVIOUS
<1>2. \A i \in 1..k : /\ pieces[i] = WriteItems(layout, v[i])
                      /\ readers[i] = ItemsReader(layout)
                      /\ vs[i] = ItemsRead(layout, v[i])
  OBVIOUS
<1>3. WriteRow(pieces).ok /\ [i \in 1..k |-> vs[i]] = vs
  OBVIOUS
<1> HIDE DEF pieces, readers, vs
<1>4. \A i \in 1..k : pieces[i].ok
  BY <1>1, <1>3, RowWritten
<1>5. ASSUME NEW i \in 1..k
      PROVE  /\ pieces[i].cells \in Stream /\ 1 <= Size(pieces[i].cells)
             /\ ItemsOk(layout, v[i]) => Reads(readers[i], pieces[i].cells, vs[i])
             /\ ~ItemsOk(layout, v[i]) => Refuses(readers[i], pieces[i].cells)
  <2>1. WriteItems(layout, v[i]).ok
    BY <1>2, <1>4, Zenon
  <2>2. /\ WriteItems(layout, v[i]).cells \in Stream
        /\ 1 <= Size(WriteItems(layout, v[i]).cells)
        /\ ItemsOk(layout, v[i]) =>
              Reads(ItemsReader(layout), WriteItems(layout, v[i]).cells,
                    ItemsRead(layout, v[i]))
        /\ ~ItemsOk(layout, v[i]) =>
              Refuses(ItemsReader(layout), WriteItems(layout, v[i]).cells)
    BY <2>1, ItemsReads
  <2> QED
    BY <1>2, <2>2, Zenon
<1>6. \A i \in 1..k : \/ Reads(readers[i], pieces[i].cells, vs[i])
                      \/ Refuses(readers[i], pieces[i].cells)
  BY <1>5, Zenon
<1>7. /\ (\A i \in 1..k : Reads(readers[i], pieces[i].cells, vs[i])) =>
            Reads(RowReader(readers), c, [i \in 1..k |-> vs[i]])
      /\ (\E i \in 1..k : Refuses(readers[i], pieces[i].cells)) =>
            Refuses(RowReader(readers), c)
  BY <1>1, <1>6, RowReads
<1>8. c \in Stream /\ k <= Size(c)
  <2>1. \A i \in 1..Len(pieces) : pieces[i].cells \in Stream /\ 1 <= Size(pieces[i].cells)
    BY <1>1, <1>5, Zenon
  <2>2. c \in Stream /\ 1 * Len(pieces) <= Size(c)
    BY <1>1, <2>1, 1 \in Nat, RowCells
  <2> QED
    BY <1>1, <2>2
<1> HIDE DEF c
<1>9. ASSUME \A i \in 1..k : ItemsOk(layout, v[i]) PROVE Reads(RowReader(readers), c, vs)
  <2>1. \A i \in 1..k : Reads(readers[i], pieces[i].cells, vs[i])
    BY <1>5, <1>9, Zenon
  <2> QED
    BY <1>3, <1>7, <2>1, Zenon
<1>10. ASSUME ~(\A i \in 1..k : ItemsOk(layout, v[i])) PROVE Refuses(RowReader(readers), c)
  <2>1. \E i \in 1..k : Refuses(readers[i], pieces[i].cells)
    BY <1>5, <1>10, Zenon
  <2> QED
    BY <1>7, <2>1, Zenon
<1>11. QED
  BY <1>8, <1>9, <1>10, Zenon DEF c, pieces, readers, vs

IsFieldKind(f) == IF f.kind = "list" THEN IsItemLayout(f.item) ELSE IsItemKind(f)

FieldReader(f) == [s \in Stream |-> ReadField(f, s)]

FieldOk(f, v) ==
    IF f.kind = "list" THEN \A i \in 1..Len(v) : ItemsOk(f.item, v[i]) ELSE ItemOk(f, v)
FieldRead(f, v) ==
    IF f.kind = "list" THEN [i \in 1..Len(v) |-> ItemsRead(f.item, v[i])] ELSE ItemRead(f, v)

\* A field, which may be a list.
LEMMA FieldReads ==
    ASSUME NEW f, IsFieldKind(f), NEW v, IsField(f, v), WriteField(f, v).ok
    PROVE  /\ WriteField(f, v).cells \in Stream /\ 1 <= Size(WriteField(f, v).cells)
           /\ FieldOk(f, v) => Reads(FieldReader(f), WriteField(f, v).cells, FieldRead(f, v))
           /\ ~FieldOk(f, v) => Refuses(FieldReader(f), WriteField(f, v).cells)
<1>1. CASE f.kind # "list"
  <2>1. /\ IsItemKind(f) /\ IsItem(f, v) /\ WriteField(f, v) = WriteItem(f, v)
        /\ FieldOk(f, v) <=> ItemOk(f, v)
        /\ FieldRead(f, v) = ItemRead(f, v)
    BY <1>1 DEF IsFieldKind, IsField, WriteField, FieldOk, FieldRead
  <2>2. FieldReader(f) = ItemReader(f)
    BY <1>1 DEF FieldReader, ReadField, ItemReader
  <2>3. WriteItem(f, v).ok
    BY <2>1, Zenon
  <2>4. /\ WriteItem(f, v).cells \in Stream /\ 1 <= Size(WriteItem(f, v).cells)
        /\ ItemOk(f, v) => Reads(ItemReader(f), WriteItem(f, v).cells, ItemRead(f, v))
        /\ ~ItemOk(f, v) => Refuses(ItemReader(f), WriteItem(f, v).cells)
    BY <2>1, <2>3, ItemReads
  <2> QED
    BY <2>1, <2>2, <2>4, Zenon
<1>2. CASE f.kind = "list"
  <2> DEFINE k == Len(v)
             layout == f.item
             w == WriteRow([i \in 1..k |-> WriteItems(layout, v[i])])
             reader == RowReader([i \in 1..k |-> ItemsReader(layout)])
             u == [i \in 1..k |-> ItemsRead(layout, v[i])]
             x == [w |-> 4, v |-> k]
             c == w.cells
             Ok == \A i \in 1..k : ItemsOk(layout, v[i])
             g == [r \in Stream |-> If(k <= Size(r), reader[r])]
  <2>1. k \in Nat /\ IsItemLayout(layout) /\ \A i \in 1..k : AreItems(layout, v[i])
    BY <1>2, ListLength DEF IsFieldKind, IsField
  <2>2. WriteField(f, v) = Cell(4, k) ++ w
    BY <1>2 DEF WriteField
  <2>3. x \in ACell /\ x.w = 4 /\ x.v = k
    BY <2>1 DEF ACell
  <2>4. (FieldOk(f, v) <=> Ok) /\ FieldRead(f, v) = u
    BY <1>2 DEF FieldOk, FieldRead
  <2>5. \A r \in Stream : Repeat(k, r, LAMBDA q : ReadItems(layout, q)) = reader[r]
    BY DEF Repeat, RowReader, ItemsReader
  <2>6. \A s \in Stream : Take(x.w, s) = Fails => FieldReader(f)[s] = Fails
    <3> SUFFICES ASSUME NEW s \in Stream, Take(x.w, s) = Fails PROVE FieldReader(f)[s] = Fails
      OBVIOUS
    <3>1. ~Take(4, s).ok
      BY <2>3, GotParts
    <3>2. ReadLength(s) = Fails
      BY <3>1 DEF ReadLength, Then
    <3>3. ReadField(f, s) = Fails
      BY <1>2, <3>2, GotParts DEF ReadField, Then
    <3> QED
      BY <3>3 DEF FieldReader
  <2>7. \A s, r \in Stream : Take(x.w, s) = Got(x.v, r) => FieldReader(f)[s] = g[r]
    <3> SUFFICES ASSUME NEW s \in Stream, NEW r \in Stream, Take(x.w, s) = Got(x.v, r)
                 PROVE  FieldReader(f)[s] = g[r]
      OBVIOUS
    <3>1. Take(4, s).ok /\ Take(4, s).v = k /\ Take(4, s).rest = r /\ k >= 0
      BY <2>1, <2>3, GotParts
    <3>2. ReadLength(s) = If(k <= Size(r), Got(k, r))
      BY <3>1 DEF ReadLength, Then, If
    <3>3. CASE k <= Size(r)
      <4>1. ReadLength(s) = Got(k, r)
        BY <3>2, <3>3 DEF If
      <4>2. ReadField(f, s) = Repeat(k, r, LAMBDA q : ReadItems(layout, q))
        BY <1>2, <4>1 DEF ReadField, Then, Got, Repeat
      <4>3. ReadField(f, s) = reader[r]
        BY <2>5, <4>2 DEF Repeat
      <4>4. g[r] = reader[r]
        BY <3>3 DEF If
      <4> QED
        BY <4>3, <4>4 DEF FieldReader
    <3>4. CASE ~(k <= Size(r))
      <4>1. ReadLength(s) = Fails
        BY <3>2, <3>4 DEF If
      <4>2. ReadField(f, s) = Fails
        BY <1>2, <4>1, GotParts DEF ReadField, Then
      <4>3. g[r] = Fails
        BY <3>4 DEF If
      <4> QED
        BY <4>2, <4>3 DEF FieldReader
    <3> QED
      BY <3>3, <3>4
  <2>8. \A r \in Stream : g[r] = If(k <= Size(r), reader[r])
    OBVIOUS
  <2>9. w.ok
    <3>1. (Cell(4, k) ++ w).ok
      BY <2>2, Zenon
    <3> QED
      BY <3>1, TwoPieces
  <2>10. /\ c \in Stream /\ k <= Size(c)
         /\ Ok => Reads(reader, c, u)
         /\ ~Ok => Refuses(reader, c)
    BY <2>1, <2>9, ObjectRowReads
  <2> HIDE DEF k, w, reader, u, x, c, Ok, g
  <2>11. \A t \in Stream : c \o t \in Stream /\ g[c \o t] = reader[c \o t]
    <3> SUFFICES ASSUME NEW t \in Stream PROVE c \o t \in Stream /\ g[c \o t] = reader[c \o t]
      OBVIOUS
    <3>1. PICK d \in Stream : d = c \o t
      BY <2>10, Streams, Zenon
    <3>2. Size(d) = Size(c) + Size(t) /\ Size(t) \in Nat /\ Size(c) \in Nat
      BY <2>10, <3>1, SizeFacts
    <3>3. k <= Size(d)
      BY <2>1, <2>10, <3>2
    <3>4. g[d] = reader[d]
      BY <2>8, <3>3 DEF If
    <3> QED
      BY <3>1, <3>4, Zenon
  <2>12. ASSUME NEW s, IsCut(s, c), ~reader[s].ok PROVE ~g[s].ok
    <3>1. s \in Stream
      BY <2>12, Zenon DEF IsCut
    <3>2. g[s] = reader[s] \/ g[s] = Fails
      BY <2>8, <3>1 DEF If
    <3> QED
      BY <2>12, <3>2, GotParts, Zenon
  <2>13. ASSUME Ok PROVE Reads(FieldReader(f), <<x>> \o c, u)
    <3>1. /\ \A t \in Stream : reader[c \o t] = Got(u, t)
          /\ \A s : IsCut(s, c) => ~reader[s].ok
      BY <2>10, <2>13, Zenon DEF Reads
    <3>2. Reads(g, c, u)
      BY <2>10, <2>11, <2>12, <3>1, Zenon DEF Reads
    <3> QED
      BY <2>3, <2>6, <2>7, <3>2, HeadReads
  <2>14. ASSUME ~Ok PROVE Refuses(FieldReader(f), <<x>> \o c)
    <3>1. /\ \A t \in Stream : reader[c \o t] = Fails
          /\ \A s : IsCut(s, c) => ~reader[s].ok
      BY <2>10, <2>14, Zenon DEF Refuses
    <3>2. Refuses(g, c)
      BY <2>10, <2>11, <2>12, <3>1, Zenon DEF Refuses
    <3> QED
      BY <2>3, <2>6, <2>7, <3>2, HeadRefuses
  <2>15. /\ (Cell(4, k) ++ w).cells = <<x>> \o c
         /\ (Cell(4, k) ++ w).cells \in Stream
         /\ Size((Cell(4, k) ++ w).cells) = 4 + Size(c)
    BY <2>1, <2>10, 4 \in Nat, CellAndRest DEF x, c
  <2>16. 1 <= 4 + Size(c)
    <3>1. Size(c) \in Nat
      BY <2>10, SizeFacts
    <3> QED
      BY <3>1
  <2> QED
    BY <2>2, <2>4, <2>13, <2>14, <2>15, <2>16, Zenon
<1>3. QED
  BY <1>1, <1>2

IsLayout(layout) ==
    Len(layout) \in Nat /\ \A i \in 1..Len(layout) : IsFieldKind(layout[i])

FieldsOk(layout, fields) == \A i \in 1..Len(layout) : FieldOk(layout[i], fields[i])
FieldsRead(layout, fields) == [i \in 1..Len(layout) |-> FieldRead(layout[i], fields[i])]

Reader(layout) == [s \in Stream |-> Read(layout, s)]

\* An object.
LEMMA ObjectReads ==
    ASSUME NEW layout, IsLayout(layout), NEW fields, AreFields(layout, fields),
           Write(layout, fields).ok
    PROVE  /\ Write(layout, fields).cells \in Stream
           /\ FieldsOk(layout, fields) =>
                 Reads(Reader(layout), Write(layout, fields).cells, FieldsRead(layout, fields))
           /\ ~FieldsOk(layout, fields) =>
                 Refuses(Reader(layout), Write(layout, fields).cells)
<1> DEFINE n == Len(layout)
           pieces == [i \in 1..n |-> WriteField(layout[i], fields[i])]
           readers == [i \in 1..n |-> FieldReader(layout[i])]
           vs == [i \in 1..n |-> FieldRead(layout[i], fields[i])]
           c == WriteRow(pieces).cells
<1>1. n \in Nat /\ Len(pieces) = n /\ Len(readers) = n
  BY DEF IsLayout
<1>2. \A i \in 1..n : /\ pieces[i] = WriteField(layout[i], fields[i])
                      /\ readers[i] = FieldReader(layout[i])
                      /\ vs[i] = FieldRead(layout[i], fields[i])
  OBVIOUS
<1>3. Write(layout, fields) = WriteRow(pieces)
  BY DEF Write
<1>4. FieldsRead(layout, fields) = vs /\ [i \in 1..n |-> vs[i]] = vs
  BY DEF FieldsRead
<1>5. Reader(layout) = RowReader(readers)
  BY DEF Reader, Read, RowReader, FieldReader
<1>6. \A i \in 1..n : IsFieldKind(layout[i]) /\ IsField(layout[i], fields[i])
  BY DEF IsLayout, AreFields
<1> HIDE DEF pieces, readers, vs, n
<1>7. \A i \in 1..n : pieces[i].ok
  BY <1>1, <1>3, RowWritten
<1>8. ASSUME NEW i \in 1..n
      PROVE  /\ pieces[i].cells \in Stream
             /\ FieldOk(layout[i], fields[i]) => Reads(readers[i], pieces[i].cells, vs[i])
             /\ ~FieldOk(layout[i], fields[i]) => Refuses(readers[i], pieces[i].cells)
  <2>1. WriteField(layout[i], fields[i]).ok
    BY <1>2, <1>7, Zenon
  <2>2. /\ WriteField(layout[i], fields[i]).cells \in Stream
        /\ FieldOk(layout[i], fields[i]) =>
              Reads(FieldReader(layout[i]), WriteField(layout[i], fields[i]).cells,
                    FieldRead(layout[i], fields[i]))
        /\ ~FieldOk(layout[i], fields[i]) =>
              Refuses(FieldReader(layout[i]), WriteField(layout[i], fields[i]).cells)
    BY <1>6, <2>1, FieldReads
  <2> QED
    BY <1>2, <2>2, Zenon
<1>9. \A i \in 1..n : \/ Reads(readers[i], pieces[i].cells, vs[i])
                      \/ Refuses(readers[i], pieces[i].cells)
  BY <1>8, Zenon
<1>10. /\ (\A i \in 1..n : Reads(readers[i], pieces[i].cells, vs[i])) =>
             Reads(RowReader(readers), c, [i \in 1..n |-> vs[i]])
       /\ (\E i \in 1..n : Refuses(readers[i], pieces[i].cells)) =>
             Refuses(RowReader(readers), c)
  BY <1>1, <1>9, RowReads
<1> HIDE DEF c
<1>11. c \in Stream
  BY <1>9, <1>10, Zenon DEF Reads, Refuses
<1>12. ASSUME FieldsOk(layout, fields) PROVE Reads(RowReader(readers), c, vs)
  <2>1. \A i \in 1..n : Reads(readers[i], pieces[i].cells, vs[i])
    BY <1>8, <1>12, Zenon DEF FieldsOk, n
  <2> QED
    BY <1>4, <1>10, <2>1, Zenon
<1>13. ASSUME ~FieldsOk(layout, fields) PROVE Refuses(RowReader(readers), c)
  <2>1. \E i \in 1..n : Refuses(readers[i], pieces[i].cells)
    BY <1>8, <1>13, Zenon DEF FieldsOk, n
  <2> QED
    BY <1>10, <2>1, Zenon
<1>14. QED
  BY <1>3, <1>4, <1>5, <1>11, <1>12, <1>13, Zenon DEF c

-----------------------------------------------------------------------------
(* The layouts of a transaction.                                           *)

\* A field of one number.
IsNumber(f) == f.kind = "int" /\ f.width \in Nat \ {0}

LEMMA KindFacts ==
    /\ IsNumber(Byte) /\ IsNumber(Integer(8)) /\ IsNumber(U32) /\ IsNumber(U64)
    /\ IsNumber(Bytes32) /\ IsNumber(Bytes64)
    /\ \A f : IsNumber(f) => IsItemKind(f)
    /\ IsItemKind(Text) /\ IsItemKind(ByteArray) /\ IsItemKind(IntX) /\ IsItemKind(ArgSections)
<1>1. /\ IsNumber(Byte) /\ IsNumber(Integer(8)) /\ IsNumber(U32) /\ IsNumber(U64)
      /\ IsNumber(Bytes32) /\ IsNumber(Bytes64)
  BY DEF IsNumber, Byte, Integer, U32, U64, Bytes32, Bytes64, Unsigned, Ranged
<1>2. \A f : IsNumber(f) => IsItemKind(f)
  BY DEF IsNumber, IsItemKind
<1>3. IsItemKind(Text) /\ IsItemKind(ByteArray) /\ IsItemKind(IntX) /\ IsItemKind(ArgSections)
  BY DEF IsItemKind, Text, ByteArray, IntX, ArgSections
<1>4. QED
  BY <1>1, <1>2, <1>3

LEMMA FieldKinds ==
    /\ \A f : IsItemKind(f) => IsFieldKind(f)
    /\ \A layout : IsItemLayout(layout) => IsFieldKind(ListOf(layout))
<1>1. \A f : IsItemKind(f) => IsFieldKind(f)
  BY DEF IsItemKind, IsFieldKind
<1>2. ASSUME NEW layout, IsItemLayout(layout) PROVE IsFieldKind(ListOf(layout))
  <2>1. ListOf(layout).kind = "list" /\ ListOf(layout).item = layout
    BY DEF ListOf
  <2> QED
    BY <1>2, <2>1 DEF IsFieldKind
<1>3. QED
  BY <1>1, <1>2

LEMMA FourFields ==
    ASSUME NEW a, NEW b, NEW c, NEW d
    PROVE  <<a>> \o <<b, c, d>> = <<a, b, c, d>>
<1> DEFINE S == {a, b, c, d}
<1>1. PICK l \in Seq(S) : l = <<a>>
  <2>1. <<a>> \in Seq(S)
    OBVIOUS
  <2> QED
    BY <2>1, Zenon
<1>2. PICK r \in Seq(S) : r = <<b, c, d>>
  <2>1. <<b, c, d>> \in Seq(S)
    OBVIOUS
  <2> QED
    BY <2>1, Zenon
<1>3. PICK q \in Seq(S) : q = <<a, b, c, d>>
  <2>1. <<a, b, c, d>> \in Seq(S)
    OBVIOUS
  <2> QED
    BY <2>1, Zenon
<1>4. /\ Len(l) = 1 /\ l[1] = a /\ Len(r) = 3 /\ r[1] = b /\ r[2] = c /\ r[3] = d
      /\ Len(q) = 4 /\ q[1] = a /\ q[2] = b /\ q[3] = c /\ q[4] = d
  BY <1>1, <1>2, <1>3
<1>5. PICK s : s = l \o r
  BY Zenon
<1>6. /\ s \in Seq(S) /\ Len(s) = 4 /\ s[1] = a
      /\ s[1 + 1] = b /\ s[1 + 2] = c /\ s[1 + 3] = d
  <2> HIDE DEF S
  <2>1. /\ s \in Seq(S) /\ Len(s) = Len(l) + Len(r)
        /\ \A k \in 1..Len(l) : s[k] = l[k]
        /\ \A k \in 1..Len(r) : s[Len(l) + k] = r[k]
    BY <1>5, Parts
  <2> QED
    BY <1>4, <2>1
<1>7. \A i \in 1..4 : s[i] = q[i]
  BY <1>4, <1>6
<1>8. s = q
  <2> HIDE DEF S
  <2> QED
    BY <1>4, <1>6, <1>7, SeqEqual
<1>9. QED
  BY <1>1, <1>2, <1>3, <1>5, <1>8, Zenon

\* The layouts that are made of others, field by field.
LEMMA LayoutsJoined ==
    /\ TransferGasPayer = <<Bytes32, Bytes32, U64, U64>>
    /\ TransferMultiGasPayer = <<Bytes32, Bytes32, U64, ListOf(<<U64>>)>>
  BY FourFields DEF TransferGasPayer, TransferMultiGasPayer, Transfer, TransferMulti

LEMMA ItemLayouts ==
    /\ IsItemLayout(<<U64>>) /\ IsItemLayout(TxMsgCall) /\ IsItemLayout(Transfer)
    /\ IsItemLayout(TransferGasPayer) /\ IsItemLayout(TxMsgMintFungible)
    /\ IsItemLayout(TxMsgBurnFungible) /\ IsItemLayout(TxMsgMintNonFungible)
    /\ IsItemLayout(TxMsgBurnNonFungible) /\ IsItemLayout(BurnNonFungibleGasPayer)
    /\ IsItemLayout(TxMsgPhantasma) /\ IsItemLayout(<<Bytes32, Bytes64>>)
    /\ IsItemLayout(<<Bytes64>>) /\ IsItemLayout(<<Bytes64, Bytes64>>)
    /\ IsItemLayout(HeadLayout) /\ IsItemLayout(<<ByteArray>>)
<1>1. /\ \A a : IsItemKind(a) => IsItemLayout(<<a>>)
      /\ \A a, b : IsItemKind(a) /\ IsItemKind(b) => IsItemLayout(<<a, b>>)
  BY DEF IsItemLayout
<1>2. /\ \A a, b, c : IsItemKind(a) /\ IsItemKind(b) /\ IsItemKind(c) =>
                       IsItemLayout(<<a, b, c>>)
      /\ \A a, b, c, d : IsItemKind(a) /\ IsItemKind(b) /\ IsItemKind(c) /\ IsItemKind(d) =>
                          IsItemLayout(<<a, b, c, d>>)
  BY DEF IsItemLayout
<1>3. /\ \A a, b, c, d, e :
            IsItemKind(a) /\ IsItemKind(b) /\ IsItemKind(c) /\ IsItemKind(d) /\ IsItemKind(e) =>
               IsItemLayout(<<a, b, c, d, e>>)
      /\ \A a, b, c, d, e, f :
            /\ IsItemKind(a) /\ IsItemKind(b) /\ IsItemKind(c) /\ IsItemKind(d)
            /\ IsItemKind(e) /\ IsItemKind(f)
            => IsItemLayout(<<a, b, c, d, e, f>>)
  BY DEF IsItemLayout
<1>4. /\ IsItemKind(Byte) /\ IsItemKind(Integer(8)) /\ IsItemKind(U32) /\ IsItemKind(U64)
      /\ IsItemKind(Bytes32) /\ IsItemKind(Bytes64) /\ IsItemKind(Text)
      /\ IsItemKind(ByteArray) /\ IsItemKind(IntX) /\ IsItemKind(ArgSections)
  BY KindFacts
<1>5. /\ IsItemLayout(<<U64>>) /\ IsItemLayout(<<Bytes64>>) /\ IsItemLayout(<<ByteArray>>)
      /\ IsItemLayout(<<Bytes32, Bytes64>>) /\ IsItemLayout(<<Bytes64, Bytes64>>)
  BY <1>1, <1>4
<1>6. IsItemLayout(TxMsgCall) /\ IsItemLayout(Transfer) /\ IsItemLayout(TransferGasPayer)
  BY <1>2, <1>3, <1>4, LayoutsJoined DEF TxMsgCall, Transfer
<1>7. /\ IsItemLayout(TxMsgMintFungible) /\ IsItemLayout(TxMsgBurnFungible)
      /\ IsItemLayout(TxMsgMintNonFungible) /\ IsItemLayout(TxMsgBurnNonFungible)
      /\ IsItemLayout(BurnNonFungibleGasPayer) /\ IsItemLayout(TxMsgPhantasma)
  BY <1>1, <1>2, <1>3, <1>4 DEF TxMsgMintFungible, TxMsgBurnFungible, TxMsgMintNonFungible,
     TxMsgBurnNonFungible, BurnNonFungibleGasPayer, TxMsgPhantasma
<1>8. IsItemLayout(HeadLayout)
  BY <1>2, <1>3, <1>4 DEF HeadLayout
<1>9. QED
  BY <1>5, <1>6, <1>7, <1>8

\* Layouts of objects without lists are layouts.
LEMMA ItemLayoutIsLayout ==
    ASSUME NEW layout, IsItemLayout(layout) PROVE IsLayout(layout)
  BY FieldKinds DEF IsItemLayout, IsLayout

LEMMA Layouts ==
    /\ IsLayout(HeadLayout)
    /\ \A t \in TxTypes : IsLayout(Payload(t))
    /\ IsLayout(<<ListOf(<<Bytes32, Bytes64>>)>>)
<1>1. IsLayout(HeadLayout)
  BY ItemLayouts, ItemLayoutIsLayout
<1>2. ASSUME NEW layout, IsItemLayout(layout) PROVE IsLayout(<<ListOf(layout)>>)
  BY <1>2, FieldKinds DEF IsLayout
<1>3. IsLayout(<<ListOf(TxMsgCall)>>) /\ IsLayout(<<ListOf(<<Bytes32, Bytes64>>)>>)
  BY <1>2, ItemLayouts
<1>4. IsLayout(TransferMulti) /\ IsLayout(TransferMultiGasPayer)
  <2>1. IsFieldKind(Bytes32) /\ IsFieldKind(U64) /\ IsFieldKind(ListOf(<<U64>>))
    BY KindFacts, FieldKinds, ItemLayouts
  <2> QED
    BY <2>1, LayoutsJoined DEF TransferMulti, IsLayout
<1>5. IsLayout(TxMsgTrade)
  <2>1. /\ IsFieldKind(ListOf(TransferGasPayer)) /\ IsFieldKind(ListOf(TxMsgMintFungible))
        /\ IsFieldKind(ListOf(TxMsgMintNonFungible))
        /\ IsFieldKind(ListOf(BurnNonFungibleGasPayer))
    BY FieldKinds, ItemLayouts
  <2> QED
    BY <2>1 DEF TxMsgTrade, IsLayout
<1>6. /\ IsLayout(TxMsgCall) /\ IsLayout(Transfer) /\ IsLayout(TransferGasPayer)
      /\ IsLayout(TxMsgMintFungible) /\ IsLayout(TxMsgBurnFungible)
      /\ IsLayout(TxMsgMintNonFungible) /\ IsLayout(TxMsgBurnNonFungible)
      /\ IsLayout(BurnNonFungibleGasPayer) /\ IsLayout(TxMsgPhantasma)
      /\ IsLayout(<<ByteArray>>)
  BY ItemLayouts, ItemLayoutIsLayout
<1>7. ASSUME NEW t \in TxTypes PROVE IsLayout(Payload(t))
  <2>1. t \in 0..16
    BY DEF TxTypes, CALL, PHANTASMA_RAW
  <2> QED
    BY <1>3, <1>4, <1>5, <1>6, <2>1 DEF Payload, CALL, CALL_MULTI, TRADE, TRANSFER_FUNGIBLE,
       TRANSFER_FUNGIBLE_GAS_PAYER, TRANSFER_NON_FUNGIBLE_SINGLE,
       TRANSFER_NON_FUNGIBLE_SINGLE_GAS_PAYER, TRANSFER_NON_FUNGIBLE_MULTI,
       TRANSFER_NON_FUNGIBLE_MULTI_GAS_PAYER, MINT_FUNGIBLE, BURN_FUNGIBLE,
       BURN_FUNGIBLE_GAS_PAYER, MINT_NON_FUNGIBLE, BURN_NON_FUNGIBLE,
       BURN_NON_FUNGIBLE_GAS_PAYER, PHANTASMA, PHANTASMA_RAW
<1>8. QED
  BY <1>1, <1>3, <1>7

-----------------------------------------------------------------------------
(* What was read is written as the same bytes again.                       *)

LEMMA SectionsAgain ==
    ASSUME NEW a, IsSections(a)
    PROVE  WriteSections(MeantArgs(a)) = WriteSections(a)
<1>1. CASE a.sections = <<>>
  <2>1. MeantArgs(a).args = a.args /\ MeantArgs(a).sections = <<>>
    BY <1>1 DEF MeantArgs
  <2> QED
    BY <1>1, <2>1 DEF WriteSections
<1>2. CASE a.sections # <<>>
  <2> DEFINE k == Len(a.sections)
             ms == [i \in 1..k |-> MeantSection(a.sections[i])]
             pieces == [i \in 1..k |-> WriteSection(a.sections[i])]
             again == [i \in 1..k |-> WriteSection(ms[i])]
  <2>1. k \in Nat /\ k # 0
    BY <1>2, ListLength DEF IsSections
  <2>2. MeantArgs(a).sections = ms
    BY <1>2 DEF MeantArgs
  <2>3. Len(ms) = k /\ ms # <<>>
    BY <2>1, SMTT(30)
  <2>4. again = pieces
    <3>1. ASSUME NEW e PROVE WriteSection(MeantSection(e)) = WriteSection(e)
      <4>1. CASE e.offset < 0
        <5>1. MeantSection(e).offset = e.offset
          BY <4>1 DEF MeantSection
        <5> QED
          BY <4>1, <5>1 DEF WriteSection
      <4>2. CASE ~(e.offset < 0)
        <5>1. MeantSection(e).offset = 0 /\ MeantSection(e).args = e.args
          BY <4>2 DEF MeantSection
        <5>2. ~(0 < 0)
          OBVIOUS
        <5> QED
          BY <4>2, <5>1, <5>2 DEF WriteSection
      <4> QED
        BY <4>1, <4>2
    <3> QED
      BY <3>1
  <2>5. WriteSections(a) = Cell(4, -k) ++ WriteRow(pieces)
    BY <1>2 DEF WriteSections
  <2> HIDE DEF ms, k, pieces
  <2>6. WriteSections(MeantArgs(a)) = Cell(4, -k) ++ WriteRow(again)
    BY <2>2, <2>3 DEF WriteSections
  <2> QED
    BY <2>4, <2>5, <2>6, Zenon
<1>3. QED
  BY <1>1, <1>2

LEMMA ItemAgain ==
    ASSUME NEW f, IsItemKind(f), NEW v, IsItem(f, v), WriteItem(f, v).ok, ItemOk(f, v)
    PROVE  WriteItem(f, ItemRead(f, v)) = WriteItem(f, v)
<1>1. CASE f.kind \in {"int", "text", "bytes"}
  BY <1>1 DEF ItemRead, MeantItem
<1>2. CASE f.kind = "intx"
  <2>1. /\ v \in Int /\ WriteItem(f, v) = WriteIntX(v) /\ IntXAccepted(PackIntX(v))
        /\ ItemRead(f, v) = IntXValue(PackIntX(v))
        /\ \A u : WriteItem(f, u) = WriteIntX(u)
    BY <1>2 DEF IsItem, WriteItem, ItemOk, ItemRead
  <2>2. WriteIntX(v).ok
    BY <2>1, Zenon
  <2>3. Encodable(v)
    BY <2>1, <2>2, IntXReads
  <2>4. /\ Encodable(IntXValue(PackIntX(v)))
        /\ PackIntX(IntXValue(PackIntX(v))) = PackIntX(v)
    BY <2>1, <2>3, IntXAgain
  <2>5. WriteIntX(IntXValue(PackIntX(v))) = WriteIntX(v)
    BY <2>3, <2>4 DEF WriteIntX, When
  <2> QED
    BY <2>1, <2>5, Zenon
<1>3. CASE f.kind = "sections"
  <2>1. /\ IsSections(v) /\ ItemRead(f, v) = MeantArgs(v)
        /\ \A u : WriteItem(f, u) = WriteSections(u)
    BY <1>3 DEF IsItem, WriteItem, ItemRead, MeantItem
  <2>2. WriteSections(MeantArgs(v)) = WriteSections(v)
    BY <2>1, SectionsAgain
  <2> QED
    BY <2>1, <2>2, Zenon
<1>4. QED
  BY <1>1, <1>2, <1>3 DEF IsItemKind

LEMMA ItemsAgain ==
    ASSUME NEW layout, IsItemLayout(layout), NEW items, AreItems(layout, items),
           WriteItems(layout, items).ok, ItemsOk(layout, items)
    PROVE  WriteItems(layout, ItemsRead(layout, items)) = WriteItems(layout, items)
<1> DEFINE n == Len(layout)
           pieces == [i \in 1..n |-> WriteItem(layout[i], items[i])]
<1>1. n \in Nat /\ Len(pieces) = n /\ WriteItems(layout, items) = WriteRow(pieces)
      /\ \A i \in 1..n : pieces[i] = WriteItem(layout[i], items[i])
  BY DEF IsItemLayout, WriteItems
<1> HIDE DEF pieces
<1>2. \A i \in 1..n : WriteItem(layout[i], items[i]).ok
  <2>1. WriteRow(pieces).ok
    BY <1>1, Zenon
  <2>2. \A i \in 1..n : pieces[i].ok
    BY <1>1, <2>1, RowWritten
  <2> QED
    BY <1>1, <2>2, Zenon
<1>3. ASSUME NEW i \in 1..n
      PROVE  WriteItem(layout[i], ItemsRead(layout, items)[i]) = WriteItem(layout[i], items[i])
  <2>1. ItemsRead(layout, items)[i] = ItemRead(layout[i], items[i])
    BY DEF ItemsRead
  <2>2. IsItemKind(layout[i]) /\ IsItem(layout[i], items[i]) /\ ItemOk(layout[i], items[i])
    BY DEF IsItemLayout, AreItems, ItemsOk
  <2>3. WriteItem(layout[i], ItemRead(layout[i], items[i])) = WriteItem(layout[i], items[i])
    BY <1>2, <2>2, ItemAgain
  <2> QED
    BY <2>1, <2>3, Zenon
<1>4. QED
  BY <1>3 DEF WriteItems

LEMMA FieldAgain ==
    ASSUME NEW f, IsFieldKind(f), NEW v, IsField(f, v), WriteField(f, v).ok, FieldOk(f, v)
    PROVE  WriteField(f, FieldRead(f, v)) = WriteField(f, v)
<1>1. CASE f.kind # "list"
  <2>1. /\ IsItemKind(f) /\ IsItem(f, v) /\ ItemOk(f, v) /\ FieldRead(f, v) = ItemRead(f, v)
        /\ \A u : WriteField(f, u) = WriteItem(f, u)
    BY <1>1 DEF IsFieldKind, IsField, WriteField, FieldOk, FieldRead
  <2>2. WriteItem(f, v).ok
    BY <2>1, Zenon
  <2>3. WriteItem(f, ItemRead(f, v)) = WriteItem(f, v)
    BY <2>1, <2>2, ItemAgain
  <2> QED
    BY <2>1, <2>3, Zenon
<1>2. CASE f.kind = "list"
  <2> DEFINE k == Len(v)
             layout == f.item
             pieces == [i \in 1..k |-> WriteItems(layout, v[i])]
             read == [i \in 1..k |-> ItemsRead(layout, v[i])]
  <2>1. /\ k \in Nat /\ IsItemLayout(layout)
        /\ \A i \in 1..k : AreItems(layout, v[i]) /\ ItemsOk(layout, v[i])
    BY <1>2, ListLength DEF IsFieldKind, IsField, FieldOk
  <2>2. FieldRead(f, v) = read /\ Len(read) = k
    BY <1>2, <2>1 DEF FieldRead
  <2>3. WriteField(f, v) = Cell(4, k) ++ WriteRow(pieces)
    BY <1>2 DEF WriteField
  <2>4. Len(pieces) = k /\ \A i \in 1..k : pieces[i] = WriteItems(layout, v[i])
    BY <2>1
  <2> HIDE DEF pieces
  <2>5. \A i \in 1..k : WriteItems(layout, v[i]).ok
    <3>1. (Cell(4, k) ++ WriteRow(pieces)).ok
      BY <2>3, Zenon
    <3>2. WriteRow(pieces).ok
      BY <3>1, TwoPieces
    <3>3. \A i \in 1..k : pieces[i].ok
      BY <2>1, <2>4, <3>2, RowWritten
    <3> QED
      BY <2>4, <3>3, Zenon
  <2>6. \A i \in 1..k : WriteItems(layout, ItemsRead(layout, v[i])) = WriteItems(layout, v[i])
    BY <2>1, <2>5, ItemsAgain
  <2>7. [i \in 1..k |-> WriteItems(layout, read[i])] = pieces
    BY <2>6 DEF pieces
  <2> HIDE DEF read, k
  <2>8. WriteField(f, read) = Cell(4, k) ++ WriteRow([i \in 1..k |-> WriteItems(layout, read[i])])
    BY <1>2, <2>2 DEF WriteField
  <2> QED
    BY <2>2, <2>3, <2>7, <2>8, Zenon
<1>3. QED
  BY <1>1, <1>2

LEMMA ObjectAgain ==
    ASSUME NEW layout, IsLayout(layout), NEW fields, AreFields(layout, fields),
           Write(layout, fields).ok, FieldsOk(layout, fields)
    PROVE  Write(layout, FieldsRead(layout, fields)) = Write(layout, fields)
<1> DEFINE n == Len(layout)
           pieces == [i \in 1..n |-> WriteField(layout[i], fields[i])]
<1>1. n \in Nat /\ Len(pieces) = n /\ Write(layout, fields) = WriteRow(pieces)
      /\ \A i \in 1..n : pieces[i] = WriteField(layout[i], fields[i])
  BY DEF IsLayout, Write
<1> HIDE DEF pieces
<1>2. \A i \in 1..n : WriteField(layout[i], fields[i]).ok
  <2>1. WriteRow(pieces).ok
    BY <1>1, Zenon
  <2>2. \A i \in 1..n : pieces[i].ok
    BY <1>1, <2>1, RowWritten
  <2> QED
    BY <1>1, <2>2, Zenon
<1>3. ASSUME NEW i \in 1..n
      PROVE  WriteField(layout[i], FieldsRead(layout, fields)[i]) =
               WriteField(layout[i], fields[i])
  <2>1. FieldsRead(layout, fields)[i] = FieldRead(layout[i], fields[i])
    BY DEF FieldsRead
  <2>2. IsFieldKind(layout[i]) /\ IsField(layout[i], fields[i]) /\ FieldOk(layout[i], fields[i])
    BY DEF IsLayout, AreFields, FieldsOk
  <2>3. WriteField(layout[i], FieldRead(layout[i], fields[i])) = WriteField(layout[i], fields[i])
    BY <1>2, <2>2, FieldAgain
  <2> QED
    BY <2>1, <2>3, Zenon
<1>4. QED
  BY <1>3 DEF Write

\* Amounts of 256 bits with their sign are read as they were given.
LEMMA ItemsExact ==
    ASSUME NEW layout, NEW items, AreItems(layout, items), AmountsFitItems(layout, items)
    PROVE  ItemsOk(layout, items) /\ ItemsRead(layout, items) = MeantItems(layout, items)
<1>1. ASSUME NEW i \in 1..Len(layout)
      PROVE  /\ ItemOk(layout[i], items[i])
             /\ ItemRead(layout[i], items[i]) = MeantItem(layout[i], items[i])
  <2>1. CASE layout[i].kind = "intx"
    <3>1. items[i] \in Int /\ IsInt256(items[i])
      BY <2>1 DEF AreItems, IsItem, AmountsFitItems
    <3>2. IntXAccepted(PackIntX(items[i])) /\ IntXValue(PackIntX(items[i])) = items[i]
      BY <3>1, IntXExact
    <3> QED
      BY <2>1, <3>2 DEF ItemOk, ItemRead, MeantItem
  <2>2. CASE layout[i].kind # "intx"
    BY <2>2 DEF ItemOk, ItemRead
  <2> QED
    BY <2>1, <2>2
<1>2. QED
  BY <1>1 DEF ItemsOk, ItemsRead, MeantItems

LEMMA ObjectExact ==
    ASSUME NEW layout, NEW fields, AreFields(layout, fields), AmountsFit(layout, fields)
    PROVE  /\ FieldsOk(layout, fields)
           /\ FieldsRead(layout, fields) = MeantFields(layout, fields)
<1>1. ASSUME NEW i \in 1..Len(layout)
      PROVE  /\ FieldOk(layout[i], fields[i])
             /\ FieldRead(layout[i], fields[i]) = MeantField(layout[i], fields[i])
  <2> DEFINE f == layout[i]
             v == fields[i]
  <2>1. IsField(f, v)
    BY DEF AreFields
  <2>2. CASE f.kind = "list"
    <3>1. ASSUME NEW j \in 1..Len(v)
          PROVE  ItemsOk(f.item, v[j]) /\ ItemsRead(f.item, v[j]) = MeantItems(f.item, v[j])
      <4>1. AreItems(f.item, v[j]) /\ AmountsFitItems(f.item, v[j])
        BY <2>1, <2>2 DEF IsField, AmountsFit
      <4> HIDE DEF f, v
      <4> QED
        BY <4>1, ItemsExact
    <3> HIDE DEF f, v
    <3>2. FieldOk(f, v)
      BY <2>2, <3>1 DEF FieldOk
    <3>3. FieldRead(f, v) = MeantField(f, v)
      BY <2>2, <3>1 DEF FieldRead, MeantField
    <3> QED
      BY <3>2, <3>3 DEF f, v
  <2>3. CASE f.kind = "intx"
    <3>1. v \in Int /\ IsInt256(v)
      BY <2>1, <2>3 DEF IsField, IsItem, AmountsFit, AmountsFitItems
    <3>2. IntXAccepted(PackIntX(v)) /\ IntXValue(PackIntX(v)) = v
      BY <3>1, IntXExact
    <3> QED
      BY <2>3, <3>2 DEF FieldOk, FieldRead, ItemOk, ItemRead, MeantField, MeantItem
  <2>4. CASE f.kind \notin {"list", "intx"}
    BY <2>4 DEF FieldOk, FieldRead, ItemOk, ItemRead, MeantField
  <2> QED
    BY <2>2, <2>3, <2>4
<1>2. QED
  BY <1>1 DEF FieldsOk, FieldsRead, MeantFields

-----------------------------------------------------------------------------
(* Messages.                                                               *)

\* A reader that reads one thing as f and goes on as g.
LEMMA ThenReads ==
    ASSUME NEW a, NEW f, NEW v, Reads(f, a, v), NEW b, NEW g, NEW h,
           \A s \in Stream : ~f[s].ok => h[s] = Fails,
           \A s, r \in Stream : f[s] = Got(v, r) => h[s] = g[r]
    PROVE  /\ \A u : Reads(g, b, u) => Reads(h, a \o b, u)
           /\ Refuses(g, b) => Refuses(h, a \o b)
<1>1. /\ a \in Stream /\ \A t \in Stream : f[a \o t] = Got(v, t)
      /\ \A s : IsCut(s, a) => ~f[s].ok
  BY Zenon DEF Reads
<1>2. ASSUME b \in Stream, NEW t \in Stream PROVE h[(a \o b) \o t] = g[b \o t]
  <2>1. (a \o b) \o t = a \o (b \o t) /\ b \o t \in Stream /\ (a \o b) \o t \in Stream
    <3>1. (a \o b) \o t = a \o (b \o t) /\ b \o t \in Stream /\ a \o (b \o t) \in Stream
      BY <1>1, <1>2, Streams, Zenon
    <3> QED
      BY <3>1, Zenon
  <2>2. f[(a \o b) \o t] = Got(v, b \o t)
    BY <1>1, <2>1, Zenon
  <2> QED
    BY <2>1, <2>2, Zenon
<1>3. ASSUME b \in Stream, \A s : IsCut(s, b) => ~g[s].ok, NEW s, IsCut(s, a \o b)
      PROVE  ~h[s].ok
  <2>1. s \in Stream
    BY <1>3, Zenon DEF IsCut
  <2>2. IsCut(s, a) \/ \E r : IsCut(r, b) /\ s = a \o r
    BY <1>1, <1>3, CutOfParts
  <2>3. CASE IsCut(s, a)
    <3>1. h[s] = Fails
      BY <1>1, <2>1, <2>3, Zenon
    <3> QED
      BY <3>1, GotParts, Zenon
  <2>4. CASE \E r : IsCut(r, b) /\ s = a \o r
    <3>1. PICK r : IsCut(r, b) /\ s = a \o r
      BY <2>4
    <3>2. r \in Stream
      BY <3>1, Zenon DEF IsCut
    <3>3. f[s] = Got(v, r)
      BY <1>1, <3>1, <3>2, Zenon
    <3>4. h[s] = g[r] /\ ~g[r].ok
      BY <1>3, <2>1, <3>1, <3>2, <3>3, Zenon
    <3> QED
      BY <3>4, Zenon
  <2> QED
    BY <2>2, <2>3, <2>4
<1>4. b \in Stream => a \o b \in Stream
  BY <1>1, Streams, Zenon
<1>5. ASSUME NEW u, Reads(g, b, u) PROVE Reads(h, a \o b, u)
  <2>1. /\ b \in Stream /\ \A t \in Stream : g[b \o t] = Got(u, t)
        /\ \A s : IsCut(s, b) => ~g[s].ok
    BY <1>5, Zenon DEF Reads
  <2>2. \A t \in Stream : h[(a \o b) \o t] = Got(u, t)
    BY <1>2, <2>1, Zenon
  <2>3. \A s : IsCut(s, a \o b) => ~h[s].ok
    BY <1>3, <2>1, Zenon
  <2> QED
    BY <1>4, <2>1, <2>2, <2>3, Zenon DEF Reads
<1>6. ASSUME Refuses(g, b) PROVE Refuses(h, a \o b)
  <2>1. /\ b \in Stream /\ \A t \in Stream : g[b \o t] = Fails
        /\ \A s : IsCut(s, b) => ~g[s].ok
    BY <1>6, Zenon DEF Refuses
  <2>2. \A t \in Stream : h[(a \o b) \o t] = Fails
    BY <1>2, <2>1, Zenon
  <2>3. \A s : IsCut(s, a \o b) => ~h[s].ok
    BY <1>3, <2>1, Zenon
  <2> QED
    BY <1>4, <2>1, <2>2, <2>3, Zenon DEF Refuses
<1>7. QED
  BY <1>5, <1>6

\* What is refused at once is refused whatever was to be read after it.
LEMMA ThenRefuses ==
    ASSUME NEW a, NEW f, Refuses(f, a), NEW b \in Stream, NEW h,
           \A s \in Stream : ~f[s].ok => h[s] = Fails
    PROVE  Refuses(h, a \o b)
<1>1. /\ a \in Stream /\ \A t \in Stream : f[a \o t] = Fails
      /\ \A s : IsCut(s, a) => ~f[s].ok
  BY Zenon DEF Refuses
<1>2. a \o b \in Stream
  BY <1>1, Streams, Zenon
<1>3. ASSUME NEW t \in Stream PROVE h[(a \o b) \o t] = Fails
  <2>1. (a \o b) \o t = a \o (b \o t) /\ b \o t \in Stream /\ (a \o b) \o t \in Stream
    <3>1. (a \o b) \o t = a \o (b \o t) /\ b \o t \in Stream /\ a \o (b \o t) \in Stream
      BY <1>1, Streams, Zenon
    <3> QED
      BY <3>1, Zenon
  <2>2. f[(a \o b) \o t] = Fails
    BY <1>1, <2>1, Zenon
  <2>3. ~f[(a \o b) \o t].ok
    BY <2>2, GotParts, Zenon
  <2> QED
    BY <2>1, <2>3, Zenon
<1>4. ASSUME NEW s, IsCut(s, a \o b) PROVE ~h[s].ok
  <2>1. s \in Stream
    BY <1>4, Zenon DEF IsCut
  <2>2. IsCut(s, a) \/ \E r : IsCut(r, b) /\ s = a \o r
    BY <1>1, <1>4, CutOfParts
  <2>3. ~f[s].ok
    <3>1. CASE IsCut(s, a)
      BY <1>1, <3>1, Zenon
    <3>2. CASE \E r : IsCut(r, b) /\ s = a \o r
      <4>1. PICK r : IsCut(r, b) /\ s = a \o r
        BY <3>2
      <4>2. r \in Stream
        BY <4>1, Zenon DEF IsCut
      <4>3. f[s] = Fails
        BY <1>1, <4>1, <4>2, Zenon
      <4> QED
        BY <4>3, GotParts, Zenon
    <3> QED
      BY <2>2, <3>1, <3>2
  <2>4. h[s] = Fails
    BY <2>1, <2>3, Zenon
  <2> QED
    BY <2>4, GotParts, Zenon
<1>5. QED
  BY <1>2, <1>3, <1>4, Zenon DEF Refuses

\* The head of a message holds no amounts, lists or sections.
LEMMA HeadRead ==
    ASSUME NEW h
    PROVE  /\ FieldsOk(HeadLayout, h)
           /\ \A i \in 1..6 : FieldsRead(HeadLayout, h)[i] = h[i]
           /\ FieldsRead(HeadLayout, h) = MeantFields(HeadLayout, h)
<1>1. Len(HeadLayout) = 6 /\ \A i \in 1..6 : HeadLayout[i].kind \in {"int", "text"}
  BY DEF HeadLayout, Byte, Integer, U64, Bytes32, Text, Unsigned, Ranged
<1>2. ASSUME NEW i \in 1..6
      PROVE  /\ FieldOk(HeadLayout[i], h[i]) /\ FieldRead(HeadLayout[i], h[i]) = h[i]
             /\ MeantField(HeadLayout[i], h[i]) = h[i]
  BY <1>1 DEF FieldOk, FieldRead, ItemOk, ItemRead, MeantField, MeantItem
<1>3. QED
  BY <1>1, <1>2 DEF FieldsOk, FieldsRead, MeantFields

IsMessage(m) ==
    /\ AreFields(HeadLayout, m.head) /\ Type(m) \in TxTypes
    /\ AreFields(Payload(Type(m)), m.body)

\* Is the message read when it arrives whole, and as what?
MsgOk(m) == FieldsOk(Payload(Type(m)), m.body)
MsgRead(m) ==
    [head |-> FieldsRead(HeadLayout, m.head), body |-> FieldsRead(Payload(Type(m)), m.body)]

MsgReader == [s \in Stream |-> ReadMsg(s)]

LEMMA MsgReads ==
    ASSUME NEW m, IsMessage(m), Serialize(m).ok
    PROVE  /\ Serialize(m).cells \in Stream
           /\ MsgOk(m) => Reads(MsgReader, Serialize(m).cells, MsgRead(m))
           /\ ~MsgOk(m) => Refuses(MsgReader, Serialize(m).cells)
<1> DEFINE head == Write(HeadLayout, m.head)
           layout == Payload(Type(m))
           body == Write(layout, m.body)
           hv == FieldsRead(HeadLayout, m.head)
           bv == FieldsRead(layout, m.body)
           g == [r \in Stream |-> IF Reader(layout)[r].ok
                                  THEN Got([head |-> hv, body |-> Reader(layout)[r].v],
                                           Reader(layout)[r].rest)
                                  ELSE Fails]
<1>1. Serialize(m) = head ++ body
  BY DEF Serialize
<1>2. /\ IsLayout(HeadLayout) /\ IsLayout(layout) /\ Type(m) \in TxTypes
      /\ AreFields(HeadLayout, m.head) /\ AreFields(layout, m.body)
  BY Layouts DEF IsMessage
<1>3. hv[1] = Type(m) /\ FieldsOk(HeadLayout, m.head)
  BY HeadRead DEF Type
<1>4. MsgRead(m) = [head |-> hv, body |-> bv] /\ (MsgOk(m) <=> FieldsOk(layout, m.body))
  BY DEF MsgRead, MsgOk
<1> HIDE DEF head, body, hv, bv, layout
<1>5. head.ok /\ body.ok
  <2>1. (head ++ body).ok
    BY <1>1, Zenon
  <2> QED
    BY <2>1, TwoPieces
<1>6. /\ head.cells \in Stream /\ Reads(Reader(HeadLayout), head.cells, hv)
  BY <1>2, <1>3, <1>5, ObjectReads DEF head, hv
<1>7. /\ body.cells \in Stream
      /\ FieldsOk(layout, m.body) => Reads(Reader(layout), body.cells, bv)
      /\ ~FieldsOk(layout, m.body) => Refuses(Reader(layout), body.cells)
  BY <1>2, <1>5, ObjectReads DEF body, bv
<1>8. Serialize(m).cells = head.cells \o body.cells
  BY <1>1, TwoPieces
<1>9. \A s \in Stream : ~Reader(HeadLayout)[s].ok => MsgReader[s] = Fails
  BY DEF Reader, MsgReader, ReadMsg, Then
<1>10. ASSUME NEW s \in Stream, NEW r \in Stream, Reader(HeadLayout)[s] = Got(hv, r)
       PROVE  MsgReader[s] = g[r]
  <2>1. Read(HeadLayout, s).ok /\ Read(HeadLayout, s).v = hv /\ Read(HeadLayout, s).rest = r
    <3>1. Read(HeadLayout, s) = Got(hv, r)
      BY <1>10 DEF Reader
    <3> QED
      BY <3>1, GotParts
  <2>2. Payload(hv[1]) = layout /\ hv[1] \in TxTypes
    BY <1>2, <1>3 DEF layout
  <2>3. Read(layout, r) = Reader(layout)[r]
    BY DEF Reader
  <2> QED
    BY <2>1, <2>2, <2>3 DEF MsgReader, ReadMsg, Then, If, Map
<1>11. \A r \in Stream : ~Reader(layout)[r].ok => g[r] = Fails
  OBVIOUS
<1>12. ASSUME NEW r \in Stream, NEW t \in Stream, Reader(layout)[r] = Got(bv, t)
       PROVE  g[r] = Got([head |-> hv, body |-> bv], t)
  <2>1. /\ Reader(layout)[r].ok /\ Reader(layout)[r].v = bv
        /\ Reader(layout)[r].rest = t
    BY <1>12, GotParts
  <2> QED
    BY <2>1
<1> DEFINE u == [head |-> hv, body |-> bv]
<1> HIDE DEF g, u
<1>13. ASSUME FieldsOk(layout, m.body) PROVE Reads(MsgReader, head.cells \o body.cells, u)
  <2>1. Reads(g, body.cells, u)
    <3>1. Reads(Reader(layout), body.cells, bv)
      BY <1>7, <1>13
    <3> QED
      BY <1>11, <1>12, <3>1, MapReads DEF u
  <2> QED
    <3>1. \A w : Reads(g, body.cells, w) => Reads(MsgReader, head.cells \o body.cells, w)
      BY <1>6, <1>9, <1>10, ThenReads
    <3> QED
      BY <2>1, <3>1, Zenon
<1>14. ASSUME ~FieldsOk(layout, m.body) PROVE Refuses(MsgReader, head.cells \o body.cells)
  <2>1. Refuses(Reader(layout), body.cells)
    BY <1>7, <1>14
  <2>2. Refuses(g, body.cells)
    <3>1. /\ body.cells \in Stream
          /\ \A t \in Stream : Reader(layout)[body.cells \o t] = Fails
          /\ \A s : IsCut(s, body.cells) => ~Reader(layout)[s].ok
      BY <2>1, Zenon DEF Refuses
    <3>2. ASSUME NEW t \in Stream PROVE g[body.cells \o t] = Fails
      <4>1. body.cells \o t \in Stream
        BY <3>1, Streams, Zenon
      <4>2. ~Reader(layout)[body.cells \o t].ok
        BY <3>1, GotParts, Zenon
      <4> QED
        BY <1>11, <4>1, <4>2, Zenon
    <3>3. ASSUME NEW s, IsCut(s, body.cells) PROVE ~g[s].ok
      <4>1. s \in Stream /\ ~Reader(layout)[s].ok
        BY <3>1, <3>3, Zenon DEF IsCut
      <4>2. g[s] = Fails
        BY <1>11, <4>1, Zenon
      <4> QED
        BY <4>2, GotParts, Zenon
    <3> QED
      BY <3>1, <3>2, <3>3, Zenon DEF Refuses
  <2> QED
    BY <1>6, <1>9, <1>10, <2>2, ThenReads
<1>15. Serialize(m).cells \in Stream
  <2>1. head.cells \o body.cells \in Stream
    BY <1>6, <1>7, Streams, Zenon
  <2> QED
    BY <1>8, <2>1, Zenon
<1>16. QED
  BY <1>4, <1>8, <1>13, <1>14, <1>15, Zenon DEF u

\* The message that was read is written as the same bytes again.
LEMMA MsgAgain ==
    ASSUME NEW m, IsMessage(m), Serialize(m).ok, MsgOk(m)
    PROVE  Serialize(MsgRead(m)) = Serialize(m)
<1> DEFINE layout == Payload(Type(m))
<1>1. /\ IsLayout(HeadLayout) /\ IsLayout(layout)
      /\ AreFields(HeadLayout, m.head) /\ AreFields(layout, m.body)
      /\ FieldsOk(HeadLayout, m.head) /\ FieldsOk(layout, m.body)
  BY Layouts, HeadRead DEF IsMessage, MsgOk
<1>2. Write(HeadLayout, m.head).ok /\ Write(layout, m.body).ok
  <2>1. Serialize(m) = Write(HeadLayout, m.head) ++ Write(layout, m.body)
    BY DEF Serialize
  <2>2. (Write(HeadLayout, m.head) ++ Write(layout, m.body)).ok
    BY <2>1, Zenon
  <2> QED
    BY <2>2, TwoPieces
<1>3. /\ MsgRead(m).head = FieldsRead(HeadLayout, m.head)
      /\ MsgRead(m).body = FieldsRead(layout, m.body)
  BY DEF MsgRead
<1>4. Type(MsgRead(m)) = Type(m)
  BY <1>3, HeadRead DEF Type
<1> HIDE DEF layout
<1>5. Write(HeadLayout, MsgRead(m).head) = Write(HeadLayout, m.head)
  BY <1>1, <1>2, <1>3, ObjectAgain
<1>6. Write(layout, MsgRead(m).body) = Write(layout, m.body)
  BY <1>1, <1>2, <1>3, ObjectAgain
<1>7. QED
  BY <1>4, <1>5, <1>6, Zenon DEF Serialize, layout

-----------------------------------------------------------------------------
(* Witnesses.                                                              *)

LEMMA TypeParts ==
    /\ TxTypes = SingleWitness \cup GasPayer \cup WitnessArray \cup {PHANTASMA_RAW}
    /\ SingleWitness \cap GasPayer = {} /\ SingleWitness \cap WitnessArray = {}
    /\ GasPayer \cap WitnessArray = {}
    /\ PHANTASMA_RAW \notin SingleWitness \cup GasPayer \cup WitnessArray
  BY DEF TxTypes, SingleWitness, GasPayer, WitnessArray, CALL, CALL_MULTI, TRADE,
     TRANSFER_FUNGIBLE, TRANSFER_FUNGIBLE_GAS_PAYER, TRANSFER_NON_FUNGIBLE_SINGLE,
     TRANSFER_NON_FUNGIBLE_SINGLE_GAS_PAYER, TRANSFER_NON_FUNGIBLE_MULTI,
     TRANSFER_NON_FUNGIBLE_MULTI_GAS_PAYER, MINT_FUNGIBLE, BURN_FUNGIBLE,
     BURN_FUNGIBLE_GAS_PAYER, MINT_NON_FUNGIBLE, BURN_NON_FUNGIBLE,
     BURN_NON_FUNGIBLE_GAS_PAYER, PHANTASMA, PHANTASMA_RAW

AreWitnesses(ws) == ws \in Seq([address : Int, signature : Int])

LEMMA WitnessParts ==
    ASSUME NEW ws, AreWitnesses(ws)
    PROVE  /\ Len(ws) \in Nat
           /\ \A i \in 1..Len(ws) : ws[i].address \in Int /\ ws[i].signature \in Int
<1> DEFINE R == [address : Int, signature : Int]
<1>1. ws \in Seq(R)
  BY DEF AreWitnesses
<1> HIDE DEF R
<1>2. Len(ws) \in Nat /\ \A i \in 1..Len(ws) : ws[i] \in R
  BY <1>1
<1>3. \A r \in R : r.address \in Int /\ r.signature \in Int
  BY DEF R
<1>4. QED
  BY <1>2, <1>3

\* How the witnesses of each class of types are written and read.
LEMMA WitnessesOf ==
    ASSUME NEW m, NEW ws
    PROVE  /\ Type(m) \in SingleWitness =>
                 WriteWitnesses(m, ws) = When(PayerSigned(m, ws, 1), Signatures(ws))
           /\ Type(m) \in GasPayer =>
                 WriteWitnesses(m, ws) = When(PayerSigned(m, ws, 2), Signatures(ws))
           /\ Type(m) \in WitnessArray =>
                 WriteWitnesses(m, ws) =
                    Write(<<ListOf(<<Bytes32, Bytes64>>)>>,
                          <<[i \in 1..Len(ws) |-> <<ws[i].address, ws[i].signature>>]>>)
           /\ Type(m) = PHANTASMA_RAW =>
                 WriteWitnesses(m, ws) = When(ws = <<>>, Written(<<>>))
<1> DEFINE a == When(PayerSigned(m, ws, 1), Signatures(ws))
           b == When(PayerSigned(m, ws, 2), Signatures(ws))
           c == Write(<<ListOf(<<Bytes32, Bytes64>>)>>,
                      <<[i \in 1..Len(ws) |-> <<ws[i].address, ws[i].signature>>]>>)
           d == When(ws = <<>>, Written(<<>>))
<1>1. WriteWitnesses(m, ws) =
        CASE Type(m) \in SingleWitness -> a [] Type(m) \in GasPayer -> b
          [] Type(m) \in WitnessArray -> c [] Type(m) = PHANTASMA_RAW -> d
  BY DEF WriteWitnesses
<1> HIDE DEF a, b, c, d
<1>2. /\ Type(m) \in SingleWitness => WriteWitnesses(m, ws) = a
      /\ Type(m) \in GasPayer => WriteWitnesses(m, ws) = b
      /\ Type(m) \in WitnessArray => WriteWitnesses(m, ws) = c
      /\ Type(m) = PHANTASMA_RAW => WriteWitnesses(m, ws) = d
  BY <1>1, TypeParts
<1>3. QED
  BY <1>2, Zenon DEF a, b, c, d

LEMMA WitnessesFrom ==
    ASSUME NEW m, NEW s
    PROVE  /\ Type(m) \in SingleWitness =>
                 ReadWitnesses(m, s) =
                    IF Take(64, s).ok
                    THEN Got(<<Witness(GasFrom(m), Take(64, s).v)>>, Take(64, s).rest)
                    ELSE Fails
           /\ Type(m) \in GasPayer =>
                 ReadWitnesses(m, s) =
                    LET r == Read(<<Bytes64, Bytes64>>, s)
                    IN  IF r.ok
                        THEN Got(<<Witness(GasFrom(m), r.v[1]), Witness(FromAddress(m), r.v[2])>>,
                                 r.rest)
                        ELSE Fails
           /\ Type(m) \in WitnessArray =>
                 ReadWitnesses(m, s) =
                    LET r == Read(<<ListOf(<<Bytes32, Bytes64>>)>>, s)
                    IN  IF r.ok
                        THEN Got([i \in 1..Len(r.v[1]) |-> Witness(r.v[1][i][1], r.v[1][i][2])],
                                 r.rest)
                        ELSE Fails
           /\ Type(m) = PHANTASMA_RAW => ReadWitnesses(m, s) = Got(<<>>, s)
<1> DEFINE q == Take(64, s)
           p == Read(<<Bytes64, Bytes64>>, s)
           r == Read(<<ListOf(<<Bytes32, Bytes64>>)>>, s)
           a == IF q.ok THEN Got(<<Witness(GasFrom(m), q.v)>>, q.rest) ELSE Fails
           b == IF p.ok
                THEN Got(<<Witness(GasFrom(m), p.v[1]), Witness(FromAddress(m), p.v[2])>>, p.rest)
                ELSE Fails
           c == IF r.ok
                THEN Got([i \in 1..Len(r.v[1]) |-> Witness(r.v[1][i][1], r.v[1][i][2])], r.rest)
                ELSE Fails
           d == Got(<<>>, s)
<1>1. ReadWitnesses(m, s) =
        CASE Type(m) \in SingleWitness -> a [] Type(m) \in GasPayer -> b
          [] Type(m) \in WitnessArray -> c [] Type(m) = PHANTASMA_RAW -> d
  BY DEF ReadWitnesses, Map, SecondWitness
<1> HIDE DEF a, b, c, d
<1>2. /\ Type(m) \in SingleWitness => ReadWitnesses(m, s) = a
      /\ Type(m) \in GasPayer => ReadWitnesses(m, s) = b
      /\ Type(m) \in WitnessArray => ReadWitnesses(m, s) = c
      /\ Type(m) = PHANTASMA_RAW => ReadWitnesses(m, s) = d
  BY <1>1, TypeParts
<1>3. QED
  BY <1>2, Zenon DEF a, b, c, d

\* The witnesses that are read behind the message m.
WitnessesRead(m, ws) ==
    CASE Type(m) \in SingleWitness -> <<Witness(GasFrom(m), ws[1].signature)>>
      [] Type(m) \in GasPayer ->
           <<Witness(GasFrom(m), ws[1].signature), Witness(FromAddress(m), ws[2].signature)>>
      [] Type(m) \in WitnessArray ->
           [i \in 1..Len(ws) |-> Witness(ws[i].address, ws[i].signature)]
      [] Type(m) = PHANTASMA_RAW -> <<>>

WitnessReader(m) == [s \in Stream |-> ReadWitnesses(m, s)]

\* A row of one piece is that piece.
LEMMA OnePiece ==
    ASSUME NEW pieces, Len(pieces) = 1, pieces[1].cells \in Stream
    PROVE  WriteRow(pieces).cells = pieces[1].cells
<1>1. /\ WriteRow(pieces) = JoinedAt(pieces, Len(pieces))
      /\ JoinedAt(pieces, 0) = Written(<<>>)
      /\ \A k \in Nat : k < Len(pieces) =>
            JoinedAt(pieces, k + 1) = JoinedAt(pieces, k) ++ pieces[k + 1]
  <2>1. Len(pieces) \in Nat
    OBVIOUS
  <2> QED
    BY <2>1, JoinedFacts
<1>2. JoinedAt(pieces, 0 + 1) = JoinedAt(pieces, 0) ++ pieces[0 + 1]
  BY <1>1, 0 \in Nat, 0 < 1
<1>3. WriteRow(pieces) = Written(<<>>) ++ pieces[1]
  BY <1>1, <1>2, 0 + 1 = 1
<1>4. WriteRow(pieces).cells = <<>> \o pieces[1].cells
  <2>1. WriteRow(pieces).cells = Written(<<>>).cells \o pieces[1].cells
    <3>1. (Written(<<>>) ++ pieces[1]).cells = Written(<<>>).cells \o pieces[1].cells
      BY TwoPieces, Zenon
    <3> QED
      BY <1>3, <3>1, Zenon
  <2>2. Written(<<>>).cells = <<>>
    BY DEF Written
  <2> QED
    BY <2>1, <2>2, Zenon
<1>5. <<>> \o pieces[1].cells = pieces[1].cells
  BY Streams, Zenon
<1>6. QED
  BY <1>4, <1>5, Zenon

\* One signature, whose address is not written.
LEMMA SingleWritten ==
    ASSUME NEW m, NEW ws, AreWitnesses(ws), Type(m) \in SingleWitness,
           WriteWitnesses(m, ws).ok
    PROVE  /\ Len(ws) = 1 /\ ws[1].address = GasFrom(m)
           /\ Size(WriteWitnesses(m, ws).cells) = 64
           /\ \E x \in ACell : /\ x.w = 64 /\ x.v = ws[1].signature
                               /\ WriteWitnesses(m, ws).cells = <<x>>
<1> DEFINE v == ws[1].signature
           x == [w |-> 64, v |-> v]
           layout == [i \in 1..Len(ws) |-> Bytes64]
           fields == [i \in 1..Len(ws) |-> ws[i].signature]
           pieces == [i \in 1..Len(layout) |-> WriteField(layout[i], fields[i])]
<1>1. WriteWitnesses(m, ws) = When(PayerSigned(m, ws, 1), Signatures(ws))
  BY WitnessesOf
<1>2. Len(ws) = 1 /\ ws[1].address = GasFrom(m) /\ WriteWitnesses(m, ws) = Signatures(ws)
  BY <1>1 DEF When, Refuse, PayerSigned
<1>3. v \in Int
  BY <1>2, WitnessParts
<1>4. Signatures(ws) = WriteRow(pieces)
  BY DEF Signatures, Write
<1>5. Len(pieces) = 1 /\ pieces[1] = WriteField(Bytes64, v)
  BY <1>2
<1> HIDE DEF pieces
<1>6. /\ x \in ACell /\ x.w = 64 /\ x.v = v
      /\ Cell(64, v).cells = <<x>> /\ <<x>> \in Stream /\ Size(<<x>>) = 64
  <2>1. 64 \in Nat
    OBVIOUS
  <2> HIDE DEF v
  <2> QED
    BY <1>3, <2>1, OneCell, SMTT(30)
<1>7. pieces[1].ok
  <2>1. WriteRow(pieces).ok
    BY <1>2, <1>4, Zenon
  <2>2. \A i \in 1..Len(pieces) : pieces[i].ok
    <3>1. Len(pieces) \in Nat
      BY <1>5
    <3> QED
      BY <2>1, <3>1, RowWritten, Zenon
  <2> QED
    BY <1>5, <2>2
<1>8. pieces[1] = Cell(64, v)
  BY <1>5, <1>7 DEF WriteField, WriteItem, When, Refuse, Bytes64, Unsigned, Ranged
<1> HIDE DEF x, v
<1>9. WriteRow(pieces).cells = <<x>>
  <2>1. pieces[1].cells = <<x>>
    BY <1>6, <1>8, Zenon
  <2>2. pieces[1].cells \in Stream
    BY <1>6, <2>1, Zenon
  <2>3. WriteRow(pieces).cells = pieces[1].cells
    BY <1>5, <2>2, OnePiece
  <2> QED
    BY <2>1, <2>3, Zenon
<1>10. QED
  BY <1>2, <1>4, <1>6, <1>9, Zenon DEF v

LEMMA SingleReads ==
    ASSUME NEW m, NEW rm, NEW ws, AreWitnesses(ws), Type(m) \in SingleWitness,
           Type(rm) = Type(m), WriteWitnesses(m, ws).ok
    PROVE  /\ WriteWitnesses(m, ws).cells \in Stream
           /\ Reads(WitnessReader(rm), WriteWitnesses(m, ws).cells,
                    <<Witness(GasFrom(rm), ws[1].signature)>>)
<1> DEFINE v == ws[1].signature
           g == [s \in Stream |-> Take(64, s)]
<1>1. PICK x \in ACell : /\ x.w = 64 /\ x.v = v
                         /\ WriteWitnesses(m, ws).cells = <<x>>
  BY SingleWritten
<1>2. <<x>> \in Stream
  BY StreamFacts, Zenon
<1> HIDE DEF v
<1>3. Reads(g, <<x>>, x.v)
  <2>1. \A s \in Stream : g[s] = Take(x.w, s)
    BY <1>1
  <2> HIDE DEF g
  <2> QED
    BY <1>1, <2>1, CellReads
<1>4. \A s \in Stream : WitnessReader(rm)[s] =
          IF g[s].ok THEN Got(<<Witness(GasFrom(rm), g[s].v)>>, g[s].rest) ELSE Fails
  BY WitnessesFrom DEF WitnessReader
<1> HIDE DEF g
<1>5. \A s \in Stream : ~g[s].ok => WitnessReader(rm)[s] = Fails
  BY <1>4, Zenon
<1>6. ASSUME NEW s \in Stream, NEW t \in Stream, g[s] = Got(x.v, t)
       PROVE  WitnessReader(rm)[s] = Got(<<Witness(GasFrom(rm), v)>>, t)
  <2>1. g[s].ok /\ g[s].v = v /\ g[s].rest = t
    BY <1>1, <1>6, GotParts
  <2> QED
    BY <1>4, <2>1, Zenon
<1>7. Reads(WitnessReader(rm), <<x>>, <<Witness(GasFrom(rm), v)>>)
  <2>1. PICK l : l = <<x>>
    BY Zenon
  <2>2. PICK u : u = <<Witness(GasFrom(rm), v)>>
    BY Zenon
  <2>3. Reads(g, l, x.v)
    BY <1>3, <2>1, Zenon
  <2>4. \A s, t \in Stream : g[s] = Got(x.v, t) => WitnessReader(rm)[s] = Got(u, t)
    BY <1>6, <2>2, Zenon
  <2>5. Reads(WitnessReader(rm), l, u)
    BY <1>5, <2>3, <2>4, MapReads
  <2> QED
    BY <2>1, <2>2, <2>5, Zenon
<1>8. QED
  BY <1>1, <1>2, <1>7, Zenon DEF v

\* Two signatures, whose addresses are not written.
LEMMA PayerReads ==
    ASSUME NEW m, NEW rm, NEW ws, AreWitnesses(ws), Type(m) \in GasPayer,
           Type(rm) = Type(m), WriteWitnesses(m, ws).ok
    PROVE  /\ Len(ws) = 2 /\ ws[1].address = GasFrom(m)
           /\ WriteWitnesses(m, ws).cells \in Stream
           /\ Reads(WitnessReader(rm), WriteWitnesses(m, ws).cells,
                    <<Witness(GasFrom(rm), ws[1].signature),
                      Witness(FromAddress(rm), ws[2].signature)>>)
<1> DEFINE layout == <<Bytes64, Bytes64>>
           fields == [i \in 1..Len(ws) |-> ws[i].signature]
           w == Write(layout, fields)
           f == Reader(layout)
           v == FieldsRead(layout, fields)
           u == <<Witness(GasFrom(rm), ws[1].signature),
                  Witness(FromAddress(rm), ws[2].signature)>>
<1>1. WriteWitnesses(m, ws) = When(PayerSigned(m, ws, 2), Signatures(ws))
  BY WitnessesOf
<1>2. Len(ws) = 2 /\ ws[1].address = GasFrom(m) /\ WriteWitnesses(m, ws) = Signatures(ws)
  BY <1>1 DEF When, Refuse, PayerSigned
<1>3. [i \in 1..Len(ws) |-> Bytes64] = layout
  BY <1>2
<1>4. Signatures(ws) = w
  BY <1>3 DEF Signatures
<1>5. IsLayout(layout)
  BY ItemLayouts, ItemLayoutIsLayout
<1>6. /\ Len(layout) = 2 /\ \A i \in 1..2 : layout[i] = Bytes64
      /\ Len(fields) = 2 /\ \A i \in 1..2 : fields[i] = ws[i].signature /\ fields[i] \in Int
  <2>1. Len(fields) = 2 /\ \A i \in 1..2 : fields[i] = ws[i].signature
    BY <1>2
  <2>2. \A i \in 1..2 : ws[i].signature \in Int
    BY <1>2, WitnessParts
  <2>3. Len(layout) = 2 /\ \A i \in 1..2 : layout[i] = Bytes64
    OBVIOUS
  <2> QED
    BY <2>1, <2>2, <2>3
<1>7. Bytes64.kind = "int"
  BY DEF Bytes64, Unsigned, Ranged
<1> HIDE DEF layout, fields
<1>8. AreFields(layout, fields) /\ FieldsOk(layout, fields)
  BY <1>6, <1>7 DEF AreFields, IsField, IsItem, FieldsOk, FieldOk, ItemOk
<1>9. v[1] = ws[1].signature /\ v[2] = ws[2].signature
  BY <1>6, <1>7 DEF FieldsRead, FieldRead, ItemRead, MeantItem
<1>10. w.ok
  BY <1>2, <1>4, Zenon
<1>11. w.cells \in Stream /\ Reads(f, w.cells, v)
  BY <1>5, <1>8, <1>10, ObjectReads
<1>12. \A s \in Stream : WitnessReader(rm)[s] =
          IF f[s].ok
          THEN Got(<<Witness(GasFrom(rm), f[s].v[1]), Witness(FromAddress(rm), f[s].v[2])>>,
                   f[s].rest)
          ELSE Fails
  BY WitnessesFrom DEF WitnessReader, Reader, layout
<1> HIDE DEF w, f, v
<1>13. \A s \in Stream : ~f[s].ok => WitnessReader(rm)[s] = Fails
  BY <1>12, Zenon
<1>14. ASSUME NEW s \in Stream, NEW t \in Stream, f[s] = Got(v, t)
       PROVE  WitnessReader(rm)[s] = Got(u, t)
  <2>1. f[s].ok /\ f[s].v = v /\ f[s].rest = t
    BY <1>14, GotParts
  <2> QED
    BY <1>9, <1>12, <2>1, Zenon
<1> HIDE DEF u
<1>15. Reads(WitnessReader(rm), w.cells, u)
  BY <1>11, <1>13, <1>14, MapReads
<1>16. QED
  BY <1>2, <1>4, <1>11, <1>15, Zenon DEF u

\* An array of witnesses.
LEMMA ArrayReads ==
    ASSUME NEW m, NEW rm, NEW ws, AreWitnesses(ws), Type(m) \in WitnessArray,
           Type(rm) = Type(m), WriteWitnesses(m, ws).ok
    PROVE  /\ WriteWitnesses(m, ws).cells \in Stream
           /\ Reads(WitnessReader(rm), WriteWitnesses(m, ws).cells,
                    [i \in 1..Len(ws) |-> Witness(ws[i].address, ws[i].signature)])
<1> DEFINE n == Len(ws)
           item == <<Bytes32, Bytes64>>
           layout == <<ListOf(item)>>
           rows == [i \in 1..n |-> <<ws[i].address, ws[i].signature>>]
           fields == <<rows>>
           w == Write(layout, fields)
           f == Reader(layout)
           v == FieldsRead(layout, fields)
           u == [i \in 1..n |-> Witness(ws[i].address, ws[i].signature)]
<1>1. WriteWitnesses(m, ws) = w
  BY WitnessesOf
<1>2. n \in Nat /\ \A i \in 1..n : ws[i].address \in Int /\ ws[i].signature \in Int
  BY WitnessParts
<1>3. IsLayout(layout)
  BY Layouts
<1>4. /\ Len(item) = 2 /\ item[1] = Bytes32 /\ item[2] = Bytes64
      /\ Bytes32.kind = "int" /\ Bytes64.kind = "int"
  BY DEF Bytes32, Bytes64, Unsigned, Ranged
<1>5. /\ Len(layout) = 1 /\ layout[1] = ListOf(item)
      /\ ListOf(item).kind = "list" /\ ListOf(item).item = item
      /\ Len(fields) = 1 /\ fields[1] = rows
  BY DEF ListOf
<1>6. /\ Len(rows) = n /\ rows \in Seq({rows[i] : i \in DOMAIN rows})
      /\ \A i \in 1..n : /\ Len(rows[i]) = 2
                         /\ rows[i][1] = ws[i].address /\ rows[i][2] = ws[i].signature
  BY <1>2
<1> HIDE DEF item, layout, rows, fields, n
<1>7. \A i \in 1..n : AreItems(item, rows[i]) /\ ItemsOk(item, rows[i])
  <2> SUFFICES ASSUME NEW i \in 1..n PROVE AreItems(item, rows[i]) /\ ItemsOk(item, rows[i])
    OBVIOUS
  <2>1. \A j \in 1..2 : item[j].kind = "int" /\ rows[i][j] \in Int
    BY <1>2, <1>4, <1>6, SMTT(30)
  <2> QED
    BY <1>4, <1>6, <2>1 DEF AreItems, IsItem, ItemsOk, ItemOk
<1>8. AreFields(layout, fields) /\ FieldsOk(layout, fields)
  <2>1. IsField(ListOf(item), rows) /\ FieldOk(ListOf(item), rows)
    BY <1>5, <1>6, <1>7 DEF IsField, IsList, FieldOk
  <2> QED
    BY <1>5, <2>1 DEF AreFields, FieldsOk
<1>9. v[1] = [i \in 1..n |-> ItemsRead(item, rows[i])]
  <2>1. v[1] = FieldRead(ListOf(item), rows)
    BY <1>5 DEF FieldsRead
  <2> QED
    BY <1>5, <1>6, <2>1 DEF FieldRead
<1>10. \A i \in 1..n : /\ ItemsRead(item, rows[i])[1] = ws[i].address
                       /\ ItemsRead(item, rows[i])[2] = ws[i].signature
  BY <1>4, <1>6 DEF ItemsRead, ItemRead, MeantItem
<1>11. Len(v[1]) = n /\ \A i \in 1..n : v[1][i][1] = ws[i].address
                                       /\ v[1][i][2] = ws[i].signature
  BY <1>2, <1>9, <1>10
<1>12. w.ok
  BY <1>1, Zenon
<1>13. w.cells \in Stream /\ Reads(f, w.cells, v)
  BY <1>3, <1>8, <1>12, ObjectReads
<1>14. \A s \in Stream : WitnessReader(rm)[s] =
          IF f[s].ok
          THEN Got([i \in 1..Len(f[s].v[1]) |-> Witness(f[s].v[1][i][1], f[s].v[1][i][2])],
                   f[s].rest)
          ELSE Fails
  BY WitnessesFrom DEF WitnessReader, Reader, layout, item
<1>15. [i \in 1..Len(v[1]) |-> Witness(v[1][i][1], v[1][i][2])] = u
  BY <1>11
<1> HIDE DEF w, f, v, u
<1>16. \A s \in Stream : ~f[s].ok => WitnessReader(rm)[s] = Fails
  BY <1>14, Zenon
<1>17. ASSUME NEW s \in Stream, NEW t \in Stream, f[s] = Got(v, t)
       PROVE  WitnessReader(rm)[s] = Got(u, t)
  <2>1. f[s].ok /\ f[s].v = v /\ f[s].rest = t
    BY <1>17, GotParts
  <2>2. WitnessReader(rm)[s] =
          Got([i \in 1..Len(f[s].v[1]) |-> Witness(f[s].v[1][i][1], f[s].v[1][i][2])], f[s].rest)
    BY <1>14, <2>1, Zenon
  <2> QED
    BY <1>15, <2>1, <2>2, Zenon
<1>18. Reads(WitnessReader(rm), w.cells, u)
  BY <1>13, <1>16, <1>17, MapReads
<1>19. QED
  BY <1>1, <1>13, <1>18, Zenon DEF u, n

\* The witnesses of a transaction, behind the message that was read.
LEMMA WitnessesReads ==
    ASSUME NEW m, NEW rm, NEW ws, AreWitnesses(ws), Type(m) \in TxTypes,
           Type(rm) = Type(m), WriteWitnesses(m, ws).ok
    PROVE  /\ WriteWitnesses(m, ws).cells \in Stream
           /\ Reads(WitnessReader(rm), WriteWitnesses(m, ws).cells, WitnessesRead(rm, ws))
<1>1. CASE Type(m) \in SingleWitness
  <2>1. WitnessesRead(rm, ws) = <<Witness(GasFrom(rm), ws[1].signature)>>
    BY <1>1, TypeParts DEF WitnessesRead
  <2> QED
    BY <1>1, <2>1, SingleReads
<1>2. CASE Type(m) \in GasPayer
  <2>1. WitnessesRead(rm, ws) = <<Witness(GasFrom(rm), ws[1].signature),
                                  Witness(FromAddress(rm), ws[2].signature)>>
    BY <1>2, TypeParts DEF WitnessesRead
  <2> QED
    BY <1>2, <2>1, PayerReads
<1>3. CASE Type(m) \in WitnessArray
  <2>1. WitnessesRead(rm, ws) =
           [i \in 1..Len(ws) |-> Witness(ws[i].address, ws[i].signature)]
    BY <1>3, TypeParts DEF WitnessesRead
  <2>2. /\ WriteWitnesses(m, ws).cells \in Stream
        /\ Reads(WitnessReader(rm), WriteWitnesses(m, ws).cells,
                 [i \in 1..Len(ws) |-> Witness(ws[i].address, ws[i].signature)])
    BY <1>3, ArrayReads
  <2> QED
    BY <2>1, <2>2, Zenon
<1>4. CASE Type(m) = PHANTASMA_RAW
  <2>1. WitnessesRead(rm, ws) = <<>>
    BY <1>4, TypeParts DEF WitnessesRead
  <2>2. WriteWitnesses(m, ws) = When(ws = <<>>, Written(<<>>))
    BY <1>4, WitnessesOf
  <2>3. WriteWitnesses(m, ws).cells = <<>>
    BY <2>2 DEF When, Refuse, Written
  <2>4. \A s \in Stream : WitnessReader(rm)[s] = Got(<<>>, s)
    BY <1>4, WitnessesFrom DEF WitnessReader
  <2>5. \A t \in Stream : WitnessReader(rm)[<<>> \o t] = Got(<<>>, t)
    BY <2>4, Streams, Zenon
  <2>6. Reads(WitnessReader(rm), <<>>, <<>>)
    BY <2>5, Streams, CutOfNothing, Zenon DEF Reads
  <2> QED
    BY <2>1, <2>3, <2>6, Streams, Zenon
<1>5. QED
  BY <1>1, <1>2, <1>3, <1>4, TypeParts

-----------------------------------------------------------------------------
(* Signed transactions.                                                    *)

SignedReader == [s \in Stream |-> ReadSigned(s)]

SignedReadOf(m, ws) == [msg |-> MsgRead(m), witnesses |-> WitnessesRead(MsgRead(m), ws)]

LEMMA SignedReads ==
    ASSUME NEW m, NEW ws, IsMessage(m), AreWitnesses(ws), SerializeSigned(m, ws).ok
    PROVE  /\ Serialize(m).ok /\ WriteWitnesses(m, ws).ok
           /\ Serialize(m).cells \in Stream /\ WriteWitnesses(m, ws).cells \in Stream
           /\ SerializeSigned(m, ws).cells = Serialize(m).cells \o WriteWitnesses(m, ws).cells
           /\ MsgOk(m) =>
                 Reads(SignedReader, SerializeSigned(m, ws).cells, SignedReadOf(m, ws))
           /\ ~MsgOk(m) => Refuses(SignedReader, SerializeSigned(m, ws).cells)
<1> DEFINE a == Serialize(m).cells
           b == WriteWitnesses(m, ws).cells
           v == MsgRead(m)
           q == WitnessReader(v)
           u == WitnessesRead(v, ws)
           g == [r \in Stream |-> IF q[r].ok THEN Got([msg |-> v, witnesses |-> q[r].v], q[r].rest)
                                  ELSE Fails]
<1>1. Serialize(m).ok /\ WriteWitnesses(m, ws).ok
  <2>1. (Serialize(m) ++ WriteWitnesses(m, ws)).ok
    BY Zenon DEF SerializeSigned
  <2> QED
    BY <2>1, TwoPieces
<1>2. SerializeSigned(m, ws).cells = a \o b
  BY TwoPieces, Zenon DEF SerializeSigned
<1>3. /\ a \in Stream
      /\ MsgOk(m) => Reads(MsgReader, a, v)
      /\ ~MsgOk(m) => Refuses(MsgReader, a)
  BY <1>1, MsgReads
<1>4. Type(v) = Type(m) /\ Type(m) \in TxTypes
  BY HeadRead DEF MsgRead, Type, IsMessage
<1>5. b \in Stream /\ Reads(q, b, u)
  BY <1>1, <1>4, WitnessesReads
<1> DEFINE w == [msg |-> v, witnesses |-> u]
<1>6. \A s \in Stream : ~MsgReader[s].ok => SignedReader[s] = Fails
  BY DEF MsgReader, SignedReader, ReadSigned, Then
<1>7. ASSUME NEW s \in Stream, NEW r \in Stream, MsgReader[s] = Got(v, r)
      PROVE  SignedReader[s] = g[r]
  <2>1. ReadMsg(s).ok /\ ReadMsg(s).v = v /\ ReadMsg(s).rest = r
    <3>1. ReadMsg(s) = Got(v, r)
      BY <1>7 DEF MsgReader
    <3> HIDE DEF v
    <3> QED
      BY <3>1, GotParts
  <2>2. q[r] = ReadWitnesses(v, r)
    BY DEF WitnessReader
  <2> HIDE DEF v, q
  <2> QED
    BY <2>1, <2>2 DEF SignedReader, ReadSigned, Then, Map
<1> HIDE DEF a, b, v, q, u
<1>8. \A r \in Stream : ~q[r].ok => g[r] = Fails
  OBVIOUS
<1>9. ASSUME NEW r \in Stream, NEW t \in Stream, q[r] = Got(u, t)
      PROVE  g[r] = Got(w, t)
  <2>1. q[r].ok /\ q[r].v = u /\ q[r].rest = t
    BY <1>9, GotParts
  <2> QED
    BY <2>1
<1> HIDE DEF g, w
<1>10. Reads(g, b, w)
  BY <1>5, <1>8, <1>9, MapReads
<1>11. ASSUME MsgOk(m) PROVE Reads(SignedReader, a \o b, w)
  <2>1. Reads(MsgReader, a, v)
    BY <1>3, <1>11
  <2>2. \A x : Reads(g, b, x) => Reads(SignedReader, a \o b, x)
    BY <1>6, <1>7, <2>1, ThenReads
  <2> QED
    BY <1>10, <2>2, Zenon
<1>12. ASSUME ~MsgOk(m) PROVE Refuses(SignedReader, a \o b)
  BY <1>3, <1>5, <1>6, <1>12, ThenRefuses
<1>13. SignedReadOf(m, ws) = w
  BY DEF SignedReadOf, w, u, v
<1>14. QED
  BY <1>1, <1>2, <1>3, <1>5, <1>11, <1>12, <1>13, Zenon DEF a, b

\* What may arrive: the stream, a cut of it, or one cell more than it.
LEMMA Arriving ==
    ASSUME NEW c \in Stream, NEW s \in Arrivals(c)
    PROVE  /\ s \in Stream
           /\ \/ s = c \/ IsCut(s, c) \/ \E y \in ACell : s = c \o <<y>>
<1>1. c \in Seq(ACell) /\ Len(c) \in Nat /\ \A i \in 1..Len(c) : c[i] \in ACell
  <2>1. c \in Seq(ACell)
    BY StreamFacts, Zenon
  <2> QED
    BY <2>1
<1>2. \/ \E n \in 0..Len(c) : s \in Cut(c, n)
      \/ s = Append(c, [w |-> 1, v |-> 0])
  <2> DEFINE z == Append(c, [w |-> 1, v |-> 0])
             cuts == {Cut(c, n) : n \in 0..Len(c)}
  <2>1. s \in {z} \cup UNION cuts
    BY Zenon DEF Arrivals
  <2> HIDE DEF z
  <2>2. s = z \/ \E t \in cuts : s \in t
    <3> HIDE DEF cuts
    <3> QED
      BY <2>1
  <2>3. (\E t \in cuts : s \in t) => \E n \in 0..Len(c) : s \in Cut(c, n)
    OBVIOUS
  <2> QED
    BY <2>2, <2>3, Zenon DEF z
<1>3. CASE s = Append(c, [w |-> 1, v |-> 0])
  <2> DEFINE y == [w |-> 1, v |-> 0]
  <2>1. y \in ACell
    BY DEF ACell
  <2> HIDE DEF y
  <2>2. s = c \o <<y>>
    BY <1>1, <1>3, <2>1 DEF y
  <2>3. s \in Stream
    <3>1. <<y>> \in Stream
      BY <2>1, StreamFacts, Zenon
    <3> QED
      BY <2>2, <3>1, Streams, Zenon
  <2> QED
    BY <2>1, <2>2, <2>3, Zenon
<1>4. ASSUME NEW n \in 0..Len(c), s \in Cut(c, n)
      PROVE  s \in Stream /\ (s = c \/ IsCut(s, c))
  <2> DEFINE p == SubSeq(c, 1, n)
  <2>1. p \in Seq(ACell) /\ Len(p) = n /\ \A i \in 1..n : p[i] = c[i]
    <3>1. n \in Nat /\ n <= Len(c) /\ p = [i \in 1..n |-> c[i]]
      BY <1>1
    <3>2. \A i \in 1..n : c[i] \in ACell
      BY <1>1, <3>1
    <3>3. [i \in 1..n |-> c[i]] \in Seq(ACell)
      BY <3>1, <3>2
    <3> HIDE DEF p
    <3> QED
      BY <3>1, <3>3
  <2> HIDE DEF p
  <2>2. CASE s = p
    <3>1. s \in Stream
      BY <2>1, <2>2 DEF Stream, ACell
    <3>2. CASE n = Len(c)
      BY <1>1, <2>1, <2>2, <3>1, <3>2
    <3>3. CASE n # Len(c)
      <4>1. n \in 0..(Len(c) - 1)
        BY <1>1, <3>3
      <4>2. /\ \A i \in 1..n : s[i] = c[i]
            /\ Len(s) = n \/ (Len(s) = n + 1 /\ s[n + 1].w < c[n + 1].w)
        BY <2>1, <2>2
      <4> QED
        BY <3>1, <4>1, <4>2, Zenon DEF IsCut
    <3> QED
      BY <3>1, <3>2, <3>3
  <2>3. ASSUME n < Len(c), NEW lost \in Losses, lost < c[n + 1].w,
               s = Append(p, [c[n + 1] EXCEPT !.w = @ - lost])
        PROVE  s \in Stream /\ IsCut(s, c)
    <3> DEFINE x == c[n + 1]
               y == [x EXCEPT !.w = @ - lost]
    <3>1. x \in ACell /\ lost \in Nat /\ lost > 0 /\ lost < x.w
      BY <1>1, <2>3, TxAssumption
    <3>2. y = [w |-> x.w - lost, v |-> x.v]
      BY <3>1 DEF ACell
    <3>3. y \in ACell /\ y.w < x.w
      <4>1. x.w \in Nat /\ x.v \in Int
        BY <3>1 DEF ACell
      <4>2. x.w - lost \in Nat /\ x.w - lost < x.w
        BY <3>1, <4>1, SMTT(30)
      <4> QED
        BY <3>2, <4>1, <4>2 DEF ACell
    <3>4. s = Append(p, y)
      BY <2>3
    <3> HIDE DEF y
    <3>5. /\ s \in Seq(ACell) /\ Len(s) = n + 1 /\ s[n + 1] = y
          /\ \A i \in 1..n : s[i] = c[i]
      BY <2>1, <3>3, <3>4
    <3>6. s \in Stream
      BY <3>5 DEF Stream, ACell
    <3>7. n \in 0..(Len(c) - 1)
      BY <1>1, <2>3
    <3>8. s[n + 1].w < c[n + 1].w
      BY <3>3, <3>5
    <3> QED
      BY <3>5, <3>6, <3>7, <3>8, Zenon DEF IsCut
  <2>4. \/ s = p
        \/ /\ n < Len(c)
           /\ \E lost \in Losses : /\ lost < c[n + 1].w
                                   /\ s = Append(p, [c[n + 1] EXCEPT !.w = @ - lost])
    BY <1>4 DEF Cut, p
  <2> QED
    BY <2>2, <2>3, <2>4
<1>5. QED
  BY <1>2, <1>3, <1>4

\* A transaction is read only if it arrives whole, and as what was meant.
LEMMA Delivered ==
    ASSUME NEW m, NEW ws, IsMessage(m), AreWitnesses(ws), SerializeSigned(m, ws).ok,
           NEW s \in Arrivals(SerializeSigned(m, ws).cells)
    PROVE  /\ Deserialize(s).ok =>
                 /\ s = SerializeSigned(m, ws).cells /\ MsgOk(m)
                 /\ Deserialize(s).v = SignedReadOf(m, ws)
           /\ (s = SerializeSigned(m, ws).cells /\ MsgOk(m)) => Deserialize(s).ok
<1> DEFINE c == SerializeSigned(m, ws).cells
           v == SignedReadOf(m, ws)
<1>1. /\ MsgOk(m) => Reads(SignedReader, c, v)
      /\ ~MsgOk(m) => Refuses(SignedReader, c)
  BY SignedReads
<1>2. c \in Stream
  BY <1>1, Zenon DEF Reads, Refuses
<1> HIDE DEF c, v
<1>3. /\ s \in Stream
      /\ s = c \/ IsCut(s, c) \/ \E y \in ACell : s = c \o <<y>>
  BY <1>2, Arriving, Zenon DEF c
<1>4. SignedReader[s] = ReadSigned(s)
  BY <1>3 DEF SignedReader
<1>5. CASE s = c
  <2>1. c \o <<>> = c /\ <<>> \in Stream
    BY <1>2, Streams, Zenon
  <2>2. ASSUME MsgOk(m) PROVE Deserialize(s).ok /\ Deserialize(s).v = v
    <3>1. ReadSigned(s) = Got(v, <<>>)
      <4>1. SignedReader[c \o <<>>] = Got(v, <<>>)
        BY <1>1, <2>1, <2>2, Zenon DEF Reads
      <4> QED
        BY <1>4, <1>5, <2>1, <4>1, Zenon
    <3>2. ReadSigned(s).ok /\ ReadSigned(s).v = v /\ ReadSigned(s).rest = <<>>
      BY <3>1, GotParts
    <3> QED
      BY <3>2 DEF Deserialize, Whole, If
  <2>3. ASSUME ~MsgOk(m) PROVE ~Deserialize(s).ok
    <3>1. ReadSigned(s) = Fails
      <4>1. SignedReader[c \o <<>>] = Fails
        BY <1>1, <2>1, <2>3, Zenon DEF Refuses
      <4> QED
        BY <1>4, <1>5, <2>1, <4>1, Zenon
    <3>2. Deserialize(s) = Fails
      BY <3>1 DEF Deserialize, Whole, If
    <3> QED
      BY <3>2, GotParts, Zenon
  <2> QED
    BY <1>5, <2>2, <2>3 DEF c, v
<1>6. CASE s # c
  <2>1. CASE IsCut(s, c)
    <3>1. ~ReadSigned(s).ok
      BY <1>1, <1>4, <2>1, Zenon DEF Reads, Refuses
    <3>2. ~Deserialize(s).ok
      <4>1. Deserialize(s) = ReadSigned(s) \/ Deserialize(s) = Fails
        BY DEF Deserialize, Whole, If
      <4> QED
        BY <3>1, <4>1, GotParts, Zenon
    <3> QED
      BY <1>6, <3>2 DEF c
  <2>2. ASSUME NEW y \in ACell, s = c \o <<y>> PROVE ~Deserialize(s).ok
    <3>1. <<y>> \in Stream /\ <<y>> # <<>>
      BY <2>2, StreamFacts
    <3>2. SignedReader[c \o <<y>>] = Got(v, <<y>>) \/ SignedReader[c \o <<y>>] = Fails
      BY <1>1, <3>1, Zenon DEF Reads, Refuses
    <3>3. ReadSigned(s) = Got(v, <<y>>) \/ ReadSigned(s) = Fails
      BY <1>4, <2>2, <3>2, Zenon
    <3>4. Deserialize(s) = Fails
      <4>1. ReadSigned(s) = Got(v, <<y>>) => ReadSigned(s).rest = <<y>>
        <5>1. PICK l : l = <<y>>
          BY Zenon
        <5>2. ReadSigned(s) = Got(v, l) => ReadSigned(s).rest = l
          BY GotParts
        <5> QED
          BY <5>1, <5>2, Zenon
      <4>2. CASE ReadSigned(s).rest = <<>>
        BY <3>1, <3>3, <4>1, <4>2 DEF Deserialize, Whole, If
      <4>3. CASE ReadSigned(s).rest # <<>>
        BY <4>3 DEF Deserialize, Whole, If
      <4> QED
        BY <4>2, <4>3
    <3> QED
      BY <3>4, GotParts, Zenon
  <2> QED
    BY <1>3, <1>6, <2>1, <2>2 DEF c
<1>7. QED
  BY <1>5, <1>6

-----------------------------------------------------------------------------
(* The inductive invariant.                                                *)

\* Nothing is signed or sent but a message of its type's payload.
MsgInv ==
    /\ msg = NoMsg \/ IsMessage(msg)
    /\ (witnesses # <<>> \/ wire.ok) => IsMessage(msg)

Signature == [by : Int, over : Stream]

\* Each witness holds a signature that its address issued over the message.
WitnessInv ==
    /\ AreWitnesses(witnesses) /\ issued \in Seq(Signature)
    /\ \A i \in 1..Len(witnesses) :
          /\ witnesses[i].signature \in 1..Len(issued) /\ Serialize(msg).ok
          /\ issued[witnesses[i].signature] =
                [by |-> witnesses[i].address, over |-> Serialize(msg).cells]

WireInv == wire = Refuse \/ (wire.ok /\ wire = SerializeSigned(msg, witnesses))

SeenInv ==
    \/ arrived = <<>> /\ seen = Fails
    \/ wire.ok /\ arrived \in Arrivals(wire.cells) /\ seen = Deserialize(arrived)

TxInv == MsgInv /\ WitnessInv /\ WireInv /\ SeenInv

LEMMA Refusal == ~Refuse.ok /\ ~Fails.ok
  BY DEF Refuse, Fails

LEMMA TxInit == Init => TxInv
<1> SUFFICES ASSUME Init PROVE TxInv
  OBVIOUS
<1>1. MsgInv /\ WireInv /\ SeenInv
  BY Refusal DEF Init, MsgInv, WireInv, SeenInv
<1>2. WitnessInv
  BY DEF Init, WitnessInv, AreWitnesses
<1>3. QED
  BY <1>1, <1>2 DEF TxInv

LEMMA BuildKeeps ==
    ASSUME TxInv, NEW m \in Messages, Build(m)
    PROVE  TxInv'
<1>1. /\ msg = NoMsg /\ msg' = m /\ witnesses' = witnesses /\ issued' = issued
      /\ wire' = wire /\ arrived' = arrived /\ seen' = seen
  BY DEF Build
<1>2. IsMessage(m) /\ ~IsMessage(NoMsg)
  <2>1. IsMessage(m)
    BY TxAssumption DEF IsMessage
  <2>2. Len(NoMsg.head) = 0 /\ Len(HeadLayout) = 6
    BY DEF NoMsg, HeadLayout
  <2> QED
    BY <2>1, <2>2 DEF IsMessage, AreFields
<1>3. witnesses = <<>> /\ ~wire.ok
  BY <1>1, <1>2 DEF TxInv, MsgInv
<1>4. MsgInv'
  BY <1>1, <1>2 DEF MsgInv
<1>5. WitnessInv'
  <2>1. AreWitnesses(witnesses)' /\ (issued \in Seq(Signature))'
    BY <1>1 DEF TxInv, WitnessInv, AreWitnesses
  <2>2. Len(witnesses') = 0
    BY <1>1, <1>3
  <2> QED
    BY <2>1, <2>2 DEF WitnessInv
<1>6. WireInv' /\ SeenInv'
  BY <1>1, <1>3 DEF TxInv, WireInv, SeenInv
<1>7. QED
  BY <1>4, <1>5, <1>6 DEF TxInv

LEMMA SigningKeeps ==
    ASSUME TxInv, NEW k \in Keys, NEW ws, ws = <<>> \/ ws = witnesses, SignWith(k, ws)
    PROVE  TxInv'
<1> DEFINE n == Len(issued) + 1
           w == Witness(k, n)
           signature == [by |-> k, over |-> Serialize(msg).cells]
<1>1. /\ msg # NoMsg /\ wire = Refuse /\ Serialize(msg).ok
      /\ issued' = Append(issued, signature) /\ witnesses' = Append(ws, w)
      /\ msg' = msg /\ wire' = wire /\ arrived' = arrived /\ seen' = seen
  BY DEF SignWith
<1>2. IsMessage(msg) /\ k \in Int
  BY <1>1, TxAssumption, WireAssumption DEF TxInv, MsgInv
<1>3. /\ issued \in Seq(Signature) /\ signature \in Signature
      /\ n \in Nat /\ Len(issued) = n - 1
  <2>1. Serialize(msg).cells \in Stream
    BY <1>1, <1>2, MsgReads
  <2>2. issued \in Seq(Signature)
    BY DEF TxInv, WitnessInv
  <2>3. signature \in Signature
    BY <1>2, <2>1 DEF Signature
  <2> HIDE DEF signature
  <2> QED
    BY <2>2, <2>3
<1> HIDE DEF signature, n
<1>4. /\ issued' \in Seq(Signature) /\ Len(issued') = n /\ issued'[n] = signature
      /\ \A i \in 1..(n - 1) : issued'[i] = issued[i]
  BY <1>1, <1>3
<1> DEFINE R == [address : Int, signature : Int]
<1>5. w \in R /\ w.address = k /\ w.signature = n
  BY <1>2, <1>3 DEF Witness
<1>6. /\ ws \in Seq(R)
      /\ \A i \in 1..Len(ws) :
            /\ ws[i].signature \in 1..Len(issued)
            /\ issued[ws[i].signature] =
                  [by |-> ws[i].address, over |-> Serialize(msg).cells]
  <2>1. CASE ws = <<>>
    BY <2>1
  <2>2. CASE ws = witnesses
    BY <2>2 DEF TxInv, WitnessInv, AreWitnesses
  <2> QED
    BY <2>1, <2>2
<1> HIDE DEF R, w
<1>7. /\ witnesses' \in Seq(R) /\ Len(witnesses') = Len(ws) + 1 /\ Len(ws) \in Nat
      /\ witnesses'[Len(ws) + 1] = w
      /\ \A i \in 1..Len(ws) : witnesses'[i] = ws[i]
  BY <1>1, <1>5, <1>6
<1>8. MsgInv'
  BY <1>1, <1>2 DEF MsgInv
<1>9. WitnessInv'
  <2>1. AreWitnesses(witnesses')
    BY <1>7 DEF AreWitnesses, R
  <2>2. ASSUME NEW i \in 1..Len(witnesses')
        PROVE  /\ witnesses'[i].signature \in 1..Len(issued')
               /\ issued'[witnesses'[i].signature] =
                     [by |-> witnesses'[i].address, over |-> Serialize(msg').cells]
    <3>1. CASE i = Len(ws) + 1
      <4>1. witnesses'[i] = w
        BY <1>7, <3>1
      <4>2. n \in 1..Len(issued')
        BY <1>3, <1>4
      <4>3. issued'[n] = [by |-> k, over |-> Serialize(msg').cells]
        BY <1>1, <1>4 DEF signature
      <4> QED
        BY <1>5, <4>1, <4>2, <4>3, Zenon
    <3>2. CASE i # Len(ws) + 1
      <4>1. i \in 1..Len(ws) /\ witnesses'[i] = ws[i]
        BY <1>7, <2>2, <3>2
      <4>2. ws[i].signature \in 1..(n - 1)
        BY <1>3, <1>6, <4>1
      <4>3. issued'[ws[i].signature] = issued[ws[i].signature]
        BY <1>4, <4>2
      <4>4. ws[i].signature \in 1..Len(issued')
        BY <1>3, <1>4, <4>2
      <4>5. issued'[ws[i].signature] = [by |-> ws[i].address, over |-> Serialize(msg').cells]
        BY <1>1, <1>6, <4>1, <4>3
      <4> QED
        BY <4>1, <4>4, <4>5, Zenon
    <3> QED
      BY <3>1, <3>2
  <2>3. Serialize(msg').ok
    BY <1>1
  <2> QED
    BY <1>4, <2>1, <2>2, <2>3 DEF WitnessInv
<1>10. WireInv' /\ SeenInv'
  BY <1>1, Refusal DEF TxInv, WireInv, SeenInv
<1>11. QED
  BY <1>8, <1>9, <1>10 DEF TxInv

LEMMA SendKeeps ==
    ASSUME TxInv, Send
    PROVE  TxInv'
<1>1. /\ msg # NoMsg /\ wire = Refuse
      /\ SerializeSigned(msg, witnesses).ok /\ wire' = SerializeSigned(msg, witnesses)
      /\ msg' = msg /\ witnesses' = witnesses /\ issued' = issued
      /\ arrived' = arrived /\ seen' = seen
  BY DEF Send
<1>2. MsgInv'
  BY <1>1 DEF TxInv, MsgInv
<1>3. WitnessInv'
  BY <1>1 DEF TxInv, WitnessInv
<1>4. WireInv'
  BY <1>1 DEF WireInv
<1>5. SeenInv'
  BY <1>1, Refusal DEF TxInv, SeenInv
<1>6. QED
  BY <1>2, <1>3, <1>4, <1>5 DEF TxInv

LEMMA ReceiveKeeps ==
    ASSUME TxInv, Receive
    PROVE  TxInv'
<1>1. PICK s \in Arrivals(wire.cells) : arrived' = s /\ seen' = Deserialize(s)
  BY DEF Receive
<1>2. /\ wire.ok /\ msg' = msg /\ witnesses' = witnesses /\ issued' = issued /\ wire' = wire
  BY DEF Receive
<1>3. MsgInv' /\ WireInv'
  BY <1>2 DEF TxInv, MsgInv, WireInv
<1>4. WitnessInv'
  BY <1>2 DEF TxInv, WitnessInv
<1>5. SeenInv'
  BY <1>1, <1>2 DEF SeenInv
<1>6. QED
  BY <1>3, <1>4, <1>5 DEF TxInv

LEMMA TxStep == TxInv /\ [Next]_vars => TxInv'
<1> SUFFICES ASSUME TxInv, [Next]_vars PROVE TxInv'
  OBVIOUS
<1>1. ASSUME NEW m \in Messages, Build(m) PROVE TxInv'
  BY <1>1, BuildKeeps
<1>2. ASSUME NEW k \in Keys, SignTxMsg(k) PROVE TxInv'
  <2>1. SignWith(k, <<>>)
    BY <1>2 DEF SignTxMsg
  <2> QED
    BY <2>1, SigningKeeps
<1>3. ASSUME NEW k \in Keys, Cosign(k) PROVE TxInv'
  <2>1. SignWith(k, witnesses)
    BY <1>3 DEF Cosign
  <2> QED
    BY <2>1, SigningKeeps
<1>4. CASE Send
  BY <1>4, SendKeeps
<1>5. CASE Receive
  BY <1>5, ReceiveKeeps
<1>6. CASE UNCHANGED vars
  BY <1>6 DEF vars, TxInv, MsgInv, WitnessInv, WireInv, SeenInv
<1>7. QED
  BY <1>1, <1>2, <1>3, <1>4, <1>5, <1>6 DEF Next

\* What the properties rest on, in every state that is reached.
THEOREM TxAlways == Spec => []TxInv
<1>1. Init => TxInv
  BY TxInit
<1>2. TxInv /\ [Next]_vars => TxInv'
  BY TxStep
<1>3. QED
  BY <1>1, <1>2, PTL DEF Spec

\* What is known once a transaction has arrived.
LEMMA Received ==
    ASSUME TxInv, seen.ok \/ arrived # <<>>
    PROVE  /\ IsMessage(msg) /\ AreWitnesses(witnesses)
           /\ wire.ok /\ wire = SerializeSigned(msg, witnesses)
           /\ arrived \in Arrivals(wire.cells) /\ seen = Deserialize(arrived)
<1>1. wire.ok /\ arrived \in Arrivals(wire.cells) /\ seen = Deserialize(arrived)
  BY Refusal DEF TxInv, SeenInv
<1>2. wire = SerializeSigned(msg, witnesses) /\ IsMessage(msg)
  BY <1>1, Refusal DEF TxInv, WireInv, MsgInv
<1>3. QED
  BY <1>1, <1>2 DEF TxInv, WitnessInv

\* A stream that lost or gained bytes is never read, whatever the message, its
\* signers and the place of the loss.
THEOREM NothingElseRead == Spec => []IntactOrRefused
<1>1. TxInv => IntactOrRefused
  <2> SUFFICES ASSUME TxInv, seen.ok PROVE arrived = wire.cells
    BY DEF IntactOrRefused
  <2>1. /\ IsMessage(msg) /\ AreWitnesses(witnesses) /\ wire.ok
        /\ wire = SerializeSigned(msg, witnesses)
        /\ arrived \in Arrivals(wire.cells) /\ seen = Deserialize(arrived)
    BY Received
  <2> QED
    BY <2>1, Delivered
<1>2. QED
  BY <1>1, TxAlways, PTL

\* As many witnesses are read as the caller gave, with their signatures.
LEMMA WitnessesKept ==
    ASSUME NEW m, NEW rm, NEW ws, AreWitnesses(ws), Type(m) \in TxTypes, Type(rm) = Type(m),
           WriteWitnesses(m, ws).ok
    PROVE  /\ Len(WitnessesRead(rm, ws)) = Len(ws) /\ Len(ws) \in Nat
           /\ \A i \in 1..Len(ws) : WitnessesRead(rm, ws)[i].signature = ws[i].signature
           /\ \A i \in 1..Len(ws) :
                 \/ Type(m) \in SingleWitness \cup GasPayer /\ i = 1
                      /\ ws[i].address = GasFrom(m)
                      /\ WitnessesRead(rm, ws)[i].address = GasFrom(rm)
                 \/ Type(m) \in GasPayer /\ i = 2
                      /\ WitnessesRead(rm, ws)[i].address = FromAddress(rm)
                 \/ WitnessesRead(rm, ws)[i].address = ws[i].address
<1>1. CASE Type(m) \in SingleWitness
  <2>1. WitnessesRead(rm, ws) = <<Witness(GasFrom(rm), ws[1].signature)>>
    BY <1>1, TypeParts DEF WitnessesRead
  <2>2. Len(ws) = 1 /\ ws[1].address = GasFrom(m)
    BY <1>1, SingleWritten, Zenon
  <2> QED
    BY <1>1, <2>1, <2>2 DEF Witness
<1>2. CASE Type(m) \in GasPayer
  <2>1. WitnessesRead(rm, ws) = <<Witness(GasFrom(rm), ws[1].signature),
                                  Witness(FromAddress(rm), ws[2].signature)>>
    BY <1>2, TypeParts DEF WitnessesRead
  <2>2. Len(ws) = 2 /\ ws[1].address = GasFrom(m)
    BY <1>2, PayerReads
  <2> QED
    BY <1>2, <2>1, <2>2 DEF Witness
<1>3. CASE Type(m) \in WitnessArray
  <2>1. WitnessesRead(rm, ws) =
           [i \in 1..Len(ws) |-> Witness(ws[i].address, ws[i].signature)]
    BY <1>3, TypeParts DEF WitnessesRead
  <2>2. Len(ws) \in Nat
    BY WitnessParts
  <2> QED
    BY <2>1, <2>2 DEF Witness
<1>4. CASE Type(m) = PHANTASMA_RAW
  <2>1. WitnessesRead(rm, ws) = <<>>
    BY <1>4, TypeParts DEF WitnessesRead
  <2>2. WriteWitnesses(m, ws) = When(ws = <<>>, Written(<<>>))
    BY <1>4, WitnessesOf
  <2>3. ws = <<>>
    BY <2>2, Refusal DEF When
  <2> QED
    BY <2>1, <2>3
<1>5. QED
  BY <1>1, <1>2, <1>3, <1>4, TypeParts

\* A transaction that arrives whole is read as what was signed, if its amounts
\* are of 256 bits.
THEOREM TransactionsRead == Spec => []ReadAsSigned
<1>1. TxInv => ReadAsSigned
  <2> SUFFICES ASSUME TxInv, arrived # <<>>, arrived = wire.cells,
                      AmountsFit(Payload(Type(msg)), msg.body)
               PROVE  /\ seen.ok /\ seen.v.msg = Meant(msg)
                      /\ [i \in 1..Len(witnesses) |-> witnesses[i].signature] =
                         [i \in 1..Len(seen.v.witnesses) |-> seen.v.witnesses[i].signature]
    BY DEF ReadAsSigned
  <2> DEFINE read == WitnessesRead(MsgRead(msg), witnesses)
  <2>1. /\ IsMessage(msg) /\ AreWitnesses(witnesses) /\ wire.ok
        /\ wire = SerializeSigned(msg, witnesses)
        /\ arrived \in Arrivals(wire.cells) /\ seen = Deserialize(arrived)
    BY Received
  <2>2. /\ FieldsOk(Payload(Type(msg)), msg.body)
        /\ FieldsRead(Payload(Type(msg)), msg.body) = MeantFields(Payload(Type(msg)), msg.body)
    BY <2>1, ObjectExact DEF IsMessage
  <2>3. MsgOk(msg) /\ MsgRead(msg) = Meant(msg)
    BY <2>2, HeadRead DEF MsgOk, MsgRead, Meant
  <2>4. seen.ok /\ seen.v = SignedReadOf(msg, witnesses)
    BY <2>1, <2>3, Delivered
  <2>5. seen.v.msg = Meant(msg) /\ seen.v.witnesses = read
    BY <2>3, <2>4 DEF SignedReadOf
  <2>6. Type(MsgRead(msg)) = Type(msg) /\ Type(msg) \in TxTypes
    BY <2>1, HeadRead DEF MsgRead, Type, IsMessage
  <2>7. WriteWitnesses(msg, witnesses).ok
    BY <2>1, SignedReads
  <2>8. /\ Len(read) = Len(witnesses)
        /\ \A i \in 1..Len(witnesses) : read[i].signature = witnesses[i].signature
    BY <2>1, <2>6, <2>7, WitnessesKept
  <2> HIDE DEF read
  <2> QED
    BY <2>4, <2>5, <2>8
<1>2. QED
  BY <1>1, TxAlways, PTL

\* The payloads of the types that carry no addresses with their signatures.
LEMMA PayloadOf ==
    /\ Payload(TRANSFER_FUNGIBLE) = Transfer
    /\ Payload(TRANSFER_FUNGIBLE_GAS_PAYER) = TransferGasPayer
    /\ Payload(TRANSFER_NON_FUNGIBLE_SINGLE) = Transfer
    /\ Payload(TRANSFER_NON_FUNGIBLE_SINGLE_GAS_PAYER) = TransferGasPayer
    /\ Payload(TRANSFER_NON_FUNGIBLE_MULTI) = TransferMulti
    /\ Payload(TRANSFER_NON_FUNGIBLE_MULTI_GAS_PAYER) = TransferMultiGasPayer
    /\ Payload(MINT_FUNGIBLE) = TxMsgMintFungible
    /\ Payload(BURN_FUNGIBLE) = TxMsgBurnFungible
    /\ Payload(BURN_FUNGIBLE_GAS_PAYER) = TxMsgMintFungible
    /\ Payload(MINT_NON_FUNGIBLE) = TxMsgMintNonFungible
    /\ Payload(BURN_NON_FUNGIBLE) = TxMsgBurnNonFungible
    /\ Payload(BURN_NON_FUNGIBLE_GAS_PAYER) = BurnNonFungibleGasPayer
  BY DEF Payload, CALL, CALL_MULTI, TRADE, TRANSFER_FUNGIBLE, TRANSFER_FUNGIBLE_GAS_PAYER,
     TRANSFER_NON_FUNGIBLE_SINGLE, TRANSFER_NON_FUNGIBLE_SINGLE_GAS_PAYER,
     TRANSFER_NON_FUNGIBLE_MULTI, TRANSFER_NON_FUNGIBLE_MULTI_GAS_PAYER, MINT_FUNGIBLE,
     BURN_FUNGIBLE, BURN_FUNGIBLE_GAS_PAYER, MINT_NON_FUNGIBLE, BURN_NON_FUNGIBLE,
     BURN_NON_FUNGIBLE_GAS_PAYER, PHANTASMA, PHANTASMA_RAW

LEMMA CallPayloads == Payload(CALL) = TxMsgCall /\ Payload(PHANTASMA) = TxMsgPhantasma
  BY DEF Payload, CALL, CALL_MULTI, TRADE, TRANSFER_FUNGIBLE, TRANSFER_FUNGIBLE_GAS_PAYER,
     TRANSFER_NON_FUNGIBLE_SINGLE, TRANSFER_NON_FUNGIBLE_SINGLE_GAS_PAYER,
     TRANSFER_NON_FUNGIBLE_MULTI, TRANSFER_NON_FUNGIBLE_MULTI_GAS_PAYER, MINT_FUNGIBLE,
     BURN_FUNGIBLE, BURN_FUNGIBLE_GAS_PAYER, MINT_NON_FUNGIBLE, BURN_NON_FUNGIBLE,
     BURN_NON_FUNGIBLE_GAS_PAYER, PHANTASMA, PHANTASMA_RAW

\* The from_address of a gas-payer transaction is a number on the wire.
LEMMA FromAddressRead ==
    ASSUME NEW m, Type(m) \in GasPayer
    PROVE  MsgRead(m).body[2] = m.body[2]
<1> DEFINE layout == Payload(Type(m))
<1>1. Len(layout) >= 2 /\ Len(layout) \in Nat /\ layout[2] = Bytes32
  <2>1. \/ layout = TransferGasPayer \/ layout = TransferMultiGasPayer
        \/ layout = TxMsgMintFungible \/ layout = BurnNonFungibleGasPayer
    BY PayloadOf, Zenon DEF GasPayer
  <2> HIDE DEF layout
  <2> QED
    BY <2>1, LayoutsJoined DEF TxMsgMintFungible, BurnNonFungibleGasPayer
<1>2. Bytes32.kind = "int"
  BY DEF Bytes32, Unsigned, Ranged
<1>3. FieldRead(Bytes32, m.body[2]) = m.body[2]
  BY <1>2 DEF FieldRead, ItemRead, MeantItem
<1>4. FieldsRead(layout, m.body)[2] = FieldRead(layout[2], m.body[2])
  <2> HIDE DEF layout
  <2> QED
    BY <1>1 DEF FieldsRead
<1>5. QED
  BY <1>1, <1>3, <1>4 DEF MsgRead

\* Whichever layout the witnesses have, a signature that is read verifies for
\* the address it is attributed to, but for a second signer the caller chose
\* who is not the transaction's from_address.
THEOREM SignaturesKept == Spec => []SignaturesVerify
<1>1. TxInv => SignaturesVerify
  <2> SUFFICES ASSUME TxInv, seen.ok, NEW i \in 1..Len(seen.v.witnesses)
               PROVE  \/ Verifies(seen.v.witnesses[i], seen.v.msg)
                      \/ /\ Type(msg) \in GasPayer /\ i = 2
                         /\ witnesses[2].address # FromAddress(msg)
    BY DEF SignaturesVerify
  <2> DEFINE rm == MsgRead(msg)
             read == WitnessesRead(rm, witnesses)
  <2>1. /\ IsMessage(msg) /\ AreWitnesses(witnesses) /\ wire.ok
        /\ wire = SerializeSigned(msg, witnesses)
        /\ arrived \in Arrivals(wire.cells) /\ seen = Deserialize(arrived)
    BY Received
  <2>2. MsgOk(msg) /\ seen.v = SignedReadOf(msg, witnesses)
    BY <2>1, Delivered
  <2>3. seen.v.msg = rm /\ seen.v.witnesses = read
    BY <2>2 DEF SignedReadOf
  <2>4. Type(rm) = Type(msg) /\ GasFrom(rm) = GasFrom(msg) /\ Type(msg) \in TxTypes
    BY <2>1, HeadRead DEF MsgRead, Type, GasFrom, IsMessage
  <2>5. Serialize(msg).ok /\ WriteWitnesses(msg, witnesses).ok
    BY <2>1, SignedReads
  <2>6. Serialize(rm) = Serialize(msg)
    BY <2>1, <2>2, <2>5, MsgAgain
  <2>7. Written(Serialize(msg).cells) = Serialize(msg)
    <3>1. \E ok, cells : Serialize(msg) = [ok |-> ok, cells |-> cells]
      BY DEF Serialize, ++
    <3>2. PICK ok, cells : Serialize(msg) = [ok |-> ok, cells |-> cells]
      BY <3>1
    <3> QED
      BY <2>5, <3>2 DEF Written
  <2> HIDE DEF rm, read
  <2>8. /\ Len(read) = Len(witnesses) /\ i \in 1..Len(witnesses)
        /\ read[i].signature = witnesses[i].signature
        /\ \/ Type(msg) \in SingleWitness \cup GasPayer /\ i = 1
                /\ witnesses[i].address = GasFrom(msg) /\ read[i].address = GasFrom(rm)
           \/ Type(msg) \in GasPayer /\ i = 2 /\ read[i].address = FromAddress(rm)
           \/ read[i].address = witnesses[i].address
    BY <2>1, <2>3, <2>4, <2>5, WitnessesKept DEF read
  <2>9. issued[witnesses[i].signature] =
           [by |-> witnesses[i].address, over |-> Serialize(msg).cells]
    BY <2>8 DEF TxInv, WitnessInv
  <2>10. ASSUME read[i].address = witnesses[i].address PROVE Verifies(read[i], rm)
    BY <2>6, <2>7, <2>8, <2>9, <2>10 DEF Verifies
  <2>11. CASE Type(msg) \in GasPayer /\ i = 2 /\ read[i].address = FromAddress(rm)
    <3>1. FromAddress(rm) = FromAddress(msg)
      BY <2>11, FromAddressRead DEF FromAddress, rm
    <3> QED
      BY <2>3, <2>10, <2>11, <3>1
  <2> QED
    BY <2>3, <2>4, <2>8, <2>10, <2>11
<1>2. QED
  BY <1>1, TxAlways, PTL

-----------------------------------------------------------------------------
(* The size of a transaction.                                              *)

\* The size of a row is the sum of its pieces'.
LEMMA RowSizes ==
    ASSUME NEW pieces, Len(pieces) \in Nat, \A i \in 1..Len(pieces) : pieces[i].cells \in Stream
    PROVE  \E z : /\ z[0] = 0 /\ z[Len(pieces)] = Size(WriteRow(pieces).cells)
                  /\ \A k \in 0..Len(pieces) : z[k] \in Nat
                  /\ \A k \in Nat : k < Len(pieces) =>
                        z[k + 1] = z[k] + Size(pieces[k + 1].cells)
<1> DEFINE n == Len(pieces)
           z == [k \in 0..n |-> Size(JoinedAt(pieces, k).cells)]
<1>1. \A i \in 1..n : Size(pieces[i].cells) \in Nat /\ 0 <= Size(pieces[i].cells)
  <2>1. \A i \in 1..n : Size(pieces[i].cells) \in Nat
    BY SizeFacts, Zenon
  <2> QED
    BY <2>1
<1>2. \A k \in 0..n : JoinedAt(pieces, k).cells \in Stream
  BY <1>1, 0 \in Nat, RowCells
<1>3. /\ WriteRow(pieces) = JoinedAt(pieces, n) /\ JoinedAt(pieces, 0) = Written(<<>>)
      /\ \A k \in Nat : k < n => JoinedAt(pieces, k + 1) = JoinedAt(pieces, k) ++ pieces[k + 1]
  BY JoinedFacts
<1>4. \A k \in 0..n : z[k] = Size(JoinedAt(pieces, k).cells)
  OBVIOUS
<1> HIDE DEF z
<1>5. z[0] = 0
  <2>1. JoinedAt(pieces, 0).cells = <<>>
    BY <1>3 DEF Written
  <2>2. Size(JoinedAt(pieces, 0).cells) = 0
    BY <2>1, SizeFacts, Zenon
  <2> QED
    BY <1>4, <2>2
<1>6. z[n] = Size(WriteRow(pieces).cells)
  BY <1>3, <1>4
<1>7. \A k \in 0..n : z[k] \in Nat
  <2>1. \A k \in 0..n : Size(JoinedAt(pieces, k).cells) \in Nat
    BY <1>2, SizeFacts, Zenon
  <2> QED
    BY <1>4, <2>1, Zenon
<1>8. ASSUME NEW k \in Nat, k < n PROVE z[k + 1] = z[k] + Size(pieces[k + 1].cells)
  <2>1. k \in 0..n /\ k + 1 \in 0..n /\ k + 1 \in 1..n
    BY <1>8
  <2>2. PICK a \in Stream : a = JoinedAt(pieces, k).cells
    BY <1>2, <2>1
  <2>3. PICK b \in Stream : b = pieces[k + 1].cells
    BY <2>1
  <2>4. JoinedAt(pieces, k + 1).cells = a \o b
    <3>1. (JoinedAt(pieces, k) ++ pieces[k + 1]).cells =
             JoinedAt(pieces, k).cells \o pieces[k + 1].cells
      BY TwoPieces, Zenon
    <3>2. JoinedAt(pieces, k + 1) = JoinedAt(pieces, k) ++ pieces[k + 1]
      BY <1>3, <1>8
    <3> QED
      BY <2>2, <2>3, <3>1, <3>2, Zenon
  <2>5. Size(a \o b) = Size(a) + Size(b)
    BY SizeFacts, Zenon
  <2>6. Size(JoinedAt(pieces, k + 1).cells) = Size(a) + Size(b)
    BY <2>4, <2>5, Zenon
  <2> QED
    BY <1>4, <2>1, <2>2, <2>3, <2>6, Zenon
<1>9. QED
  BY <1>5, <1>6, <1>7, <1>8, Zenon

\* The size of an object of up to six fields.
LEMMA ObjectSizes ==
    ASSUME NEW layout, IsLayout(layout), NEW fields, AreFields(layout, fields),
           Write(layout, fields).ok
    PROVE  LET t(i) == Size(WriteField(layout[i], fields[i]).cells)
               size == Size(Write(layout, fields).cells)
           IN  /\ \A i \in 1..Len(layout) : WriteField(layout[i], fields[i]).ok
               /\ \A i \in 1..Len(layout) : t(i) \in Nat
               /\ Len(layout) = 1 => size = t(1)
               /\ Len(layout) = 2 => size = t(1) + t(2)
               /\ Len(layout) = 3 => size = t(1) + t(2) + t(3)
               /\ Len(layout) = 5 => size = t(1) + t(2) + t(3) + t(4) + t(5)
               /\ Len(layout) = 6 => size = t(1) + t(2) + t(3) + t(4) + t(5) + t(6)
<1> DEFINE n == Len(layout)
           pieces == [i \in 1..n |-> WriteField(layout[i], fields[i])]
           s == [i \in 1..n |-> Size(WriteField(layout[i], fields[i]).cells)]
<1>1. n \in Nat /\ Len(pieces) = n
  BY DEF IsLayout
<1>2. Write(layout, fields) = WriteRow(pieces)
  BY DEF Write
<1>3. \A i \in 1..n : pieces[i] = WriteField(layout[i], fields[i])
  OBVIOUS
<1>4. \A i \in 1..n : IsFieldKind(layout[i]) /\ IsField(layout[i], fields[i])
  BY DEF IsLayout, AreFields
<1> HIDE DEF pieces, n
<1>5. \A i \in 1..n : WriteField(layout[i], fields[i]).ok
  <2>1. WriteRow(pieces).ok
    BY <1>2, Zenon
  <2>2. \A i \in 1..n : pieces[i].ok
    BY <1>1, <2>1, RowWritten
  <2> QED
    BY <1>3, <2>2, Zenon
<1>6. ASSUME NEW i \in 1..n PROVE WriteField(layout[i], fields[i]).cells \in Stream
  <2>1. WriteField(layout[i], fields[i]).ok
    BY <1>5
  <2> QED
    BY <1>4, <2>1, FieldReads
<1>7. \A i \in 1..n : /\ s[i] = Size(WriteField(layout[i], fields[i]).cells)
                      /\ s[i] \in Nat
  <2>1. \A i \in 1..n : s[i] = Size(WriteField(layout[i], fields[i]).cells)
    OBVIOUS
  <2> HIDE DEF s
  <2> QED
    BY <1>6, <2>1, SizeFacts, Zenon
<1> HIDE DEF s
<1>8. PICK z : /\ z[0] = 0 /\ z[n] = Size(WriteRow(pieces).cells)
               /\ \A k \in 0..n : z[k] \in Nat
               /\ \A k \in Nat : k < n => z[k + 1] = z[k] + Size(pieces[k + 1].cells)
  <2>1. \A i \in 1..Len(pieces) : pieces[i].cells \in Stream
    BY <1>1, <1>3, <1>6, Zenon
  <2>2. Len(pieces) \in Nat
    BY <1>1
  <2>3. \E z : /\ z[0] = 0 /\ z[Len(pieces)] = Size(WriteRow(pieces).cells)
               /\ \A k \in 0..Len(pieces) : z[k] \in Nat
               /\ \A k \in Nat : k < Len(pieces) =>
                     z[k + 1] = z[k] + Size(pieces[k + 1].cells)
    BY <2>1, <2>2, RowSizes
  <2> QED
    BY <1>1, <2>3, Zenon
<1>9. \A k \in Nat : k < n => z[k + 1] = z[k] + s[k + 1]
  <2>1. \A k \in Nat : k < n => k + 1 \in 1..n
    BY <1>1
  <2> QED
    BY <1>3, <1>7, <1>8, <2>1, ZenonT(40)
<1> DEFINE w == Size(Write(layout, fields).cells)
<1>10. z[n] = w
  BY <1>2, <1>8, Zenon
<1> HIDE DEF w
<1>11. /\ n >= 1 => z[1] = s[1]
       /\ n >= 2 => z[2] = z[1] + s[2]
       /\ n >= 3 => z[3] = z[2] + s[3]
       /\ n >= 4 => z[4] = z[3] + s[4]
       /\ n >= 5 => z[5] = z[4] + s[5]
       /\ n >= 6 => z[6] = z[5] + s[6]
  <2>1. \A k \in Nat : k < n => s[k + 1] \in Nat
    BY <1>1, <1>7
  <2>2. n >= 1 => z[1] = s[1]
    BY <1>1, <1>8, <1>9, <2>1, 0 \in Nat, 0 + 1 = 1
  <2>3. n >= 2 => z[2] = z[1] + s[2]
    BY <1>1, <1>9, 1 \in Nat, 1 + 1 = 2
  <2>4. n >= 3 => z[3] = z[2] + s[3]
    BY <1>1, <1>9, 2 \in Nat, 2 + 1 = 3
  <2>5. n >= 4 => z[4] = z[3] + s[4]
    BY <1>1, <1>9, 3 \in Nat, 3 + 1 = 4
  <2>6. n >= 5 => z[5] = z[4] + s[5]
    BY <1>1, <1>9, 4 \in Nat, 4 + 1 = 5
  <2>7. n >= 6 => z[6] = z[5] + s[6]
    BY <1>1, <1>9, 5 \in Nat, 5 + 1 = 6
  <2> QED
    BY <2>2, <2>3, <2>4, <2>5, <2>6, <2>7
<1>12. /\ n = 1 => w = s[1]
       /\ n = 2 => w = s[1] + s[2]
       /\ n = 3 => w = s[1] + s[2] + s[3]
       /\ n = 5 => w = s[1] + s[2] + s[3] + s[4] + s[5]
       /\ n = 6 => w = s[1] + s[2] + s[3] + s[4] + s[5] + s[6]
  BY <1>7, <1>10, <1>11
<1> DEFINE t(i) == Size(WriteField(layout[i], fields[i]).cells)
<1>13. \A i \in 1..n : s[i] = t(i) /\ t(i) \in Nat
  BY <1>7, Zenon
<1> HIDE DEF t
<1>14. /\ n = 1 => w = t(1)
       /\ n = 2 => w = t(1) + t(2)
       /\ n = 3 => w = t(1) + t(2) + t(3)
       /\ n = 5 => w = t(1) + t(2) + t(3) + t(4) + t(5)
       /\ n = 6 => w = t(1) + t(2) + t(3) + t(4) + t(5) + t(6)
  <2>1. /\ n >= 1 => s[1] = t(1)
        /\ n >= 2 => s[2] = t(2)
        /\ n >= 3 => s[3] = t(3)
        /\ n >= 4 => s[4] = t(4)
        /\ n >= 5 => s[5] = t(5)
        /\ n >= 6 => s[6] = t(6)
    <3>1. \A i \in 1..n : s[i] = t(i)
      BY <1>13, Zenon
    <3>2. \A i \in {1, 2, 3, 4, 5, 6} : n >= i => i \in 1..n
      BY <1>1
    <3>3. \A i \in {1, 2, 3, 4, 5, 6} : n >= i => s[i] = t(i)
      BY <3>1, <3>2, Zenon
    <3> QED
      BY <3>3
  <2>2. CASE n = 1
    BY <1>12, <2>1, <2>2
  <2>3. CASE n = 2
    BY <1>12, <2>1, <2>3
  <2>4. CASE n = 3
    BY <1>12, <2>1, <2>4
  <2>5. CASE n = 5
    BY <1>12, <2>1, <2>5
  <2>6. CASE n = 6
    BY <1>12, <2>1, <2>6
  <2> QED
    BY <2>2, <2>3, <2>4, <2>5, <2>6
<1>15. QED
  BY <1>5, <1>13, <1>14, Zenon DEF n, w, t

\* How large a field of each kind is.
LEMMA KindSizes ==
    ASSUME NEW f, NEW v, IsField(f, v), WriteField(f, v).ok
    PROVE  /\ IsNumber(f) => Size(WriteField(f, v).cells) = f.width
           /\ f = Text => /\ Size(WriteField(f, v).cells) = 1 + v.n
                          /\ v.n \in 0..255
           /\ f = ByteArray => /\ Size(WriteField(f, v).cells) = 4 + v.n
                               /\ v.n \in Nat
           /\ f = IntX => Size(WriteField(f, v).cells) <= 33
           /\ (f = ArgSections /\ v.sections = <<>>) =>
                  /\ Size(WriteField(f, v).cells) = 4 + v.args.n
                  /\ v.args.n \in Nat
<1>1. ASSUME IsNumber(f) PROVE Size(WriteField(f, v).cells) = f.width
  <2>1. f.kind = "int" /\ f.width \in Nat /\ v \in Int
    BY <1>1 DEF IsNumber, IsField, IsItem
  <2>2. WriteField(f, v) = When(v \in f.low..f.high, Cell(f.width, v))
    BY <2>1 DEF WriteField, WriteItem
  <2>3. WriteField(f, v) = Cell(f.width, v)
    BY <2>2, Refusal DEF When
  <2>4. PICK l : l = <<[w |-> f.width, v |-> v]>>
    BY Zenon
  <2>5. Cell(f.width, v).cells = l /\ Size(l) = f.width
    BY <2>1, <2>4, OneCell
  <2> QED
    BY <2>3, <2>5, Zenon
<1>2. ASSUME f = Text PROVE Size(WriteField(f, v).cells) = 1 + v.n /\ v.n \in 0..255
  <2>1. IsBlob(v) /\ WriteField(f, v) = WriteText(v)
    BY <1>2 DEF Text, IsField, IsItem, WriteField, WriteItem
  <2>2. WriteText(v).ok
    BY <2>1, Zenon
  <2>3. v.n <= 255 /\ Size(WriteText(v).cells) = 1 + v.n /\ v.n \in Nat
    BY <2>1, <2>2, TextReads, RawReads
  <2> QED
    BY <2>1, <2>3
<1>3. ASSUME f = ByteArray PROVE Size(WriteField(f, v).cells) = 4 + v.n /\ v.n \in Nat
  <2>1. IsBlob(v) /\ WriteField(f, v) = WriteByteArray(v)
    BY <1>3 DEF ByteArray, IsField, IsItem, WriteField, WriteItem
  <2> QED
    BY <2>1, ByteArrayReads, RawReads
<1>4. ASSUME f = IntX PROVE Size(WriteField(f, v).cells) <= 33
  <2>1. v \in Int /\ WriteField(f, v) = WriteIntX(v)
    BY <1>4 DEF IntX, IsField, IsItem, WriteField, WriteItem
  <2>2. WriteIntX(v).ok
    BY <2>1, Zenon
  <2>3. Size(WriteIntX(v).cells) \in 1..33
    BY <2>1, <2>2, IntXReads
  <2> QED
    BY <2>1, <2>3
<1>5. ASSUME f = ArgSections, v.sections = <<>>
      PROVE  Size(WriteField(f, v).cells) = 4 + v.args.n /\ v.args.n \in Nat
  <2>1. IsBlob(v.args) /\ WriteField(f, v) = WriteByteArray(v.args)
    BY <1>5 DEF ArgSections, IsField, IsItem, IsSections, WriteField, WriteItem, WriteSections
  <2> QED
    BY <2>1, ByteArrayReads, RawReads
<1>6. QED
  BY <1>1, <1>2, <1>3, <1>4, <1>5

\* The fields of an item are written alike in a list and by themselves.
LEMMA ItemsAlone ==
    ASSUME NEW layout, IsItemLayout(layout), NEW items
    PROVE  /\ WriteItems(layout, items) = Write(layout, items)
           /\ AreItems(layout, items) => AreFields(layout, items)
<1>1. \A i \in 1..Len(layout) : layout[i].kind # "list"
  BY DEF IsItemLayout, IsItemKind
<1>2. \A i \in 1..Len(layout) : WriteField(layout[i], items[i]) = WriteItem(layout[i], items[i])
  BY <1>1 DEF WriteField
<1>3. \A i \in 1..Len(layout) : IsField(layout[i], items[i]) <=> IsItem(layout[i], items[i])
  BY <1>1 DEF IsField
<1>4. QED
  BY <1>2, <1>3 DEF WriteItems, Write, AreItems, AreFields

\* A list of items that are all of one size.
LEMMA ListSize ==
    ASSUME NEW layout, IsItemLayout(layout), NEW v, IsField(ListOf(layout), v),
           WriteField(ListOf(layout), v).ok, NEW width \in Nat,
           \A items : (AreItems(layout, items) /\ WriteItems(layout, items).ok) =>
              Size(WriteItems(layout, items).cells) = width
    PROVE  Size(WriteField(ListOf(layout), v).cells) = 4 + width * Len(v) /\ Len(v) \in Nat
<1> DEFINE n == Len(v)
           pieces == [i \in 1..n |-> WriteItems(layout, v[i])]
<1>1. /\ ListOf(layout).kind = "list" /\ ListOf(layout).item = layout
  BY DEF ListOf
<1>2. /\ n \in Nat /\ \A i \in 1..n : AreItems(layout, v[i])
      /\ WriteField(ListOf(layout), v) = Cell(4, n) ++ WriteRow(pieces)
  BY <1>1, ListLength DEF IsField, WriteField
<1>3. Len(pieces) = n /\ \A i \in 1..n : pieces[i] = WriteItems(layout, v[i])
  BY <1>2
<1> HIDE DEF pieces, n
<1>4. WriteRow(pieces).ok
  BY <1>2, TwoPieces
<1>5. \A i \in 1..n : pieces[i].ok
  BY <1>2, <1>3, <1>4, RowWritten
<1>6. ASSUME NEW i \in 1..n
      PROVE  pieces[i].cells \in Stream /\ Size(pieces[i].cells) = width
  <2>1. AreItems(layout, v[i]) /\ WriteItems(layout, v[i]).ok
    BY <1>2, <1>3, <1>5, Zenon
  <2>2. WriteItems(layout, v[i]).cells \in Stream
    BY <2>1, ItemsReads
  <2>3. Size(WriteItems(layout, v[i]).cells) = width
    BY <2>1, Zenon
  <2> QED
    BY <1>3, <2>2, <2>3, Zenon
<1>7. width <= width
  OBVIOUS
<1>8. /\ WriteRow(pieces).cells \in Stream
      /\ width * n <= Size(WriteRow(pieces).cells)
      /\ Size(WriteRow(pieces).cells) <= width * n
  <2>1. Len(pieces) \in Nat
    BY <1>2, <1>3
  <2>2. \A i \in 1..Len(pieces) : /\ pieces[i].cells \in Stream
                                  /\ width <= Size(pieces[i].cells)
                                  /\ Size(pieces[i].cells) <= width
    BY <1>3, <1>6, <1>7, Zenon
  <2>3. /\ WriteRow(pieces).cells \in Stream
        /\ width * Len(pieces) <= Size(WriteRow(pieces).cells)
    BY <2>1, <2>2, RowCells
  <2>4. Size(WriteRow(pieces).cells) <= width * Len(pieces)
    BY <2>1, <2>2, RowAtMost
  <2> QED
    BY <1>3, <2>3, <2>4, Zenon
<1>9. Size((Cell(4, n) ++ WriteRow(pieces)).cells) = 4 + Size(WriteRow(pieces).cells)
  <2>1. 4 \in Nat /\ n \in Int
    BY <1>2
  <2> QED
    BY <1>8, <2>1, CellAndRest
<1>10. Size(WriteRow(pieces).cells) \in Nat
  BY <1>8, SizeFacts, Zenon
<1>11. Size(WriteRow(pieces).cells) = width * n
  <2>1. width * n \in Nat
    BY <1>2
  <2> QED
    BY <1>8, <1>10, <2>1
<1>12. QED
  BY <1>2, <1>9, <1>11, Zenon DEF n

\* How large the witnesses of each class of types are.
LEMMA WitnessSizes ==
    ASSUME NEW m, NEW ws, AreWitnesses(ws), Type(m) \in TxTypes, WriteWitnesses(m, ws).ok
    PROVE  LET size == Size(WriteWitnesses(m, ws).cells)
           IN  /\ Len(ws) \in Nat
               /\ Type(m) \in SingleWitness => size = 64 /\ Len(ws) = 1
               /\ Type(m) \in GasPayer => size = 128 /\ Len(ws) = 2
               /\ Type(m) \in WitnessArray => size = 4 + 96 * Len(ws)
<1> DEFINE size == Size(WriteWitnesses(m, ws).cells)
<1>1. Len(ws) \in Nat
  BY WitnessParts
<1>2. ASSUME Type(m) \in SingleWitness PROVE size = 64 /\ Len(ws) = 1
  BY <1>2, SingleWritten, Zenon
<1>3. ASSUME Type(m) \in GasPayer PROVE size = 128 /\ Len(ws) = 2
  <2> DEFINE layout == <<Bytes64, Bytes64>>
             fields == [i \in 1..Len(ws) |-> ws[i].signature]
  <2>1. WriteWitnesses(m, ws) = When(PayerSigned(m, ws, 2), Signatures(ws))
    BY <1>3, WitnessesOf
  <2>2. Len(ws) = 2 /\ WriteWitnesses(m, ws) = Signatures(ws)
    BY <2>1, Refusal DEF When, PayerSigned
  <2>3. [i \in 1..Len(ws) |-> Bytes64] = layout
    BY <2>2
  <2>4. Signatures(ws) = Write(layout, fields)
    BY <2>3 DEF Signatures
  <2>5. /\ Len(layout) = 2 /\ layout[1] = Bytes64 /\ layout[2] = Bytes64
        /\ Len(fields) = 2 /\ \A i \in 1..2 : fields[i] = ws[i].signature
    BY <2>2
  <2>6. IsLayout(layout) /\ Bytes64.kind = "int" /\ Bytes64.width = 64 /\ IsNumber(Bytes64)
    BY ItemLayouts, ItemLayoutIsLayout, KindFacts DEF Bytes64, Unsigned, Ranged
  <2> HIDE DEF layout, fields
  <2>7. \A i \in 1..2 : layout[i] = Bytes64 /\ fields[i] \in Int
    <3>1. \A i \in 1..2 : ws[i].signature \in Int
      BY <2>2, WitnessParts
    <3>2. \A i \in 1..2 : layout[i] = Bytes64
      BY <2>5
    <3>3. \A i \in 1..2 : fields[i] = ws[i].signature
      BY <2>5
    <3> QED
      BY <3>1, <3>2, <3>3, Zenon
  <2>8. AreFields(layout, fields)
    BY <2>5, <2>6, <2>7, ZenonT(40) DEF AreFields, IsField, IsItem
  <2>9. Write(layout, fields).ok
    BY <2>2, <2>4, Zenon
  <2>10. /\ \A i \in 1..2 : WriteField(layout[i], fields[i]).ok
         /\ Size(Write(layout, fields).cells) =
              Size(WriteField(layout[1], fields[1]).cells)
                + Size(WriteField(layout[2], fields[2]).cells)
    BY <2>5, <2>6, <2>8, <2>9, ObjectSizes
  <2>11. \A i \in 1..2 : Size(WriteField(layout[i], fields[i]).cells) = 64
    <3> SUFFICES ASSUME NEW i \in 1..2 PROVE Size(WriteField(layout[i], fields[i]).cells) = 64
      OBVIOUS
    <3>1. IsField(layout[i], fields[i]) /\ IsNumber(layout[i]) /\ layout[i].width = 64
      BY <2>5, <2>6, <2>7, <2>8 DEF AreFields
    <3>2. Size(WriteField(layout[i], fields[i]).cells) = layout[i].width
      BY <2>10, <3>1, KindSizes
    <3> QED
      BY <3>1, <3>2
  <2>12. /\ Size(WriteField(layout[1], fields[1]).cells) = 64
         /\ Size(WriteField(layout[2], fields[2]).cells) = 64
    BY <2>11
  <2> QED
    BY <2>2, <2>4, <2>10, <2>12
<1>4. ASSUME Type(m) \in WitnessArray PROVE size = 4 + 96 * Len(ws)
  <2> DEFINE item == <<Bytes32, Bytes64>>
             layout == <<ListOf(item)>>
             rows == [i \in 1..Len(ws) |-> <<ws[i].address, ws[i].signature>>]
             fields == <<rows>>
  <2>1. WriteWitnesses(m, ws) = Write(layout, fields)
    BY <1>4, WitnessesOf
  <2>2. /\ IsLayout(layout) /\ IsItemLayout(item)
        /\ Len(layout) = 1 /\ layout[1] = ListOf(item)
        /\ Len(fields) = 1 /\ fields[1] = rows /\ Len(rows) = Len(ws)
    BY <1>1, Layouts, ItemLayouts
  <2>3. /\ Len(item) = 2 /\ item[1] = Bytes32 /\ item[2] = Bytes64
        /\ IsNumber(Bytes32) /\ IsNumber(Bytes64) /\ Bytes32.width = 32 /\ Bytes64.width = 64
    BY KindFacts DEF Bytes32, Bytes64, Unsigned, Ranged
  <2>4. /\ rows \in Seq({rows[i] : i \in DOMAIN rows})
        /\ \A i \in 1..Len(ws) : /\ Len(rows[i]) = 2 /\ rows[i][1] \in Int /\ rows[i][2] \in Int
    BY <1>1, WitnessParts
  <2>5. ListOf(item).kind = "list" /\ ListOf(item).item = item
    BY DEF ListOf
  <2> HIDE DEF item, layout, rows, fields
  <2>6. ASSUME NEW i \in 1..Len(ws) PROVE AreItems(item, rows[i])
    <3>1. \A j \in 1..2 : item[j].kind = "int" /\ rows[i][j] \in Int
      BY <2>3, <2>4 DEF IsNumber
    <3> QED
      BY <2>3, <2>4, <3>1 DEF AreItems, IsItem
  <2>7. IsField(ListOf(item), rows) /\ AreFields(layout, fields)
    <3>1. IsField(ListOf(item), rows)
      BY <2>2, <2>4, <2>5, <2>6 DEF IsField, IsList
    <3> QED
      BY <2>2, <3>1 DEF AreFields
  <2>8. Write(layout, fields).ok
    BY <2>1, Zenon
  <2>9. /\ WriteField(ListOf(item), rows).ok
        /\ Size(Write(layout, fields).cells) = Size(WriteField(ListOf(item), rows).cells)
    BY <2>2, <2>7, <2>8, ObjectSizes
  <2>10. ASSUME NEW items, AreItems(item, items), WriteItems(item, items).ok
         PROVE  Size(WriteItems(item, items).cells) = 96
    <3>1. WriteItems(item, items) = Write(item, items) /\ AreFields(item, items)
      BY <2>2, <2>10, ItemsAlone
    <3>2. Write(item, items).ok /\ IsLayout(item)
      BY <2>2, <2>10, <3>1, ItemLayoutIsLayout, Zenon
    <3>3. /\ \A i \in 1..2 : WriteField(item[i], items[i]).ok
          /\ Size(Write(item, items).cells) =
               Size(WriteField(item[1], items[1]).cells) + Size(WriteField(item[2], items[2]).cells)
      BY <2>3, <3>1, <3>2, ObjectSizes
    <3>4. \A i \in 1..2 : /\ IsField(item[i], items[i]) /\ IsNumber(item[i])
                          /\ WriteField(item[i], items[i]).ok
      BY <2>3, <3>1, <3>3 DEF AreFields
    <3>5. \A i \in 1..2 : Size(WriteField(item[i], items[i]).cells) = item[i].width
      BY <3>4, KindSizes
    <3>6. /\ Size(WriteField(item[1], items[1]).cells) = 32
          /\ Size(WriteField(item[2], items[2]).cells) = 64
      BY <2>3, <3>5
    <3> QED
      BY <3>1, <3>3, <3>6
  <2>11. Size(WriteField(ListOf(item), rows).cells) = 4 + 96 * Len(rows)
    <3>1. 96 \in Nat
      OBVIOUS
    <3>2. \A items : (AreItems(item, items) /\ WriteItems(item, items).ok) =>
             Size(WriteItems(item, items).cells) = 96
      BY <2>10
    <3>3. /\ IsItemLayout(item) /\ IsField(ListOf(item), rows)
          /\ WriteField(ListOf(item), rows).ok
      BY <2>2, <2>7, <2>9
    <3> QED
      BY <3>1, <3>2, <3>3, ListSize, Zenon
  <2> QED
    BY <2>1, <2>2, <2>9, <2>11
<1>5. QED
  BY <1>1, <1>2, <1>3, <1>4

\* The head of a message: 58 bytes and up to 255 of its payload field.
LEMMA HeadSize ==
    ASSUME NEW h, AreFields(HeadLayout, h), Write(HeadLayout, h).ok
    PROVE  Size(Write(HeadLayout, h).cells) = 58 + h[6].n /\ h[6].n \in 0..255
<1> DEFINE t(i) == Size(WriteField(HeadLayout[i], h[i]).cells)
<1>1. /\ Len(HeadLayout) = 6
      /\ HeadLayout[1] = Byte /\ HeadLayout[2] = Integer(8) /\ HeadLayout[3] = U64
      /\ HeadLayout[4] = U64 /\ HeadLayout[5] = Bytes32 /\ HeadLayout[6] = Text
  BY DEF HeadLayout
<1>2. /\ Byte.width = 1 /\ Integer(8).width = 8 /\ U64.width = 8 /\ Bytes32.width = 32
  BY DEF Byte, Integer, U64, Bytes32, Unsigned, Ranged
<1>3. /\ \A i \in 1..6 : WriteField(HeadLayout[i], h[i]).ok
      /\ \A i \in 1..6 : t(i) \in Nat
      /\ Size(Write(HeadLayout, h).cells) = t(1) + t(2) + t(3) + t(4) + t(5) + t(6)
  BY <1>1, Layouts, ObjectSizes, ZenonT(40)
<1>4. \A i \in 1..6 : IsField(HeadLayout[i], h[i])
  BY <1>1 DEF AreFields
<1>5. \A i \in 1..6 : IsNumber(HeadLayout[i]) => t(i) = HeadLayout[i].width
  BY <1>3, <1>4, KindSizes
<1>6. t(6) = 1 + h[6].n /\ h[6].n \in 0..255
  <2>1. /\ IsField(Text, h[6]) /\ WriteField(Text, h[6]).ok
        /\ t(6) = Size(WriteField(Text, h[6]).cells)
    BY <1>1, <1>3, <1>4
  <2>2. Size(WriteField(Text, h[6]).cells) = 1 + h[6].n /\ h[6].n \in 0..255
    BY <2>1, KindSizes
  <2> HIDE DEF t
  <2> QED
    BY <2>1, <2>2
<1>7. t(1) = 1 /\ t(2) = 8 /\ t(3) = 8 /\ t(4) = 8 /\ t(5) = 32
  BY <1>1, <1>2, <1>5, KindFacts
<1> HIDE DEF t
<1>8. QED
  BY <1>3, <1>6, <1>7

\* The bodies of the types the estimator has a kind for.
LEMMA BodySizes ==
    ASSUME NEW m, IsMessage(m), Write(Payload(Type(m)), m.body).ok
    PROVE  LET size == Size(Write(Payload(Type(m)), m.body).cells)
           IN  /\ Type(m) \in {TRANSFER_FUNGIBLE, TRANSFER_NON_FUNGIBLE_SINGLE} => size = 48
               /\ Type(m) = MINT_FUNGIBLE => size <= 73
               /\ Type(m) = BURN_FUNGIBLE => size <= 41
               /\ Type(m) = BURN_NON_FUNGIBLE => size = 16
               /\ Type(m) = TRANSFER_NON_FUNGIBLE_MULTI =>
                    Len(m.body[3]) \in Nat /\ size = 44 + 8 * Len(m.body[3])
               /\ Type(m) = MINT_NON_FUNGIBLE =>
                    /\ m.body[4].n \in Nat /\ m.body[5].n \in Nat
                    /\ size = 52 + m.body[4].n + m.body[5].n
               /\ (Type(m) = CALL /\ m.body[3].sections = <<>>) =>
                    m.body[3].args.n \in Nat /\ size = 12 + m.body[3].args.n
               /\ Type(m) = PHANTASMA =>
                    /\ m.body[1].n \in Nat /\ m.body[2].n \in Nat /\ m.body[3].n \in Nat
                    /\ size = 6 + m.body[1].n + m.body[2].n + m.body[3].n
<1> DEFINE layout == Payload(Type(m))
           n == Len(layout)
           t(i) == Size(WriteField(layout[i], m.body[i]).cells)
           size == Size(Write(layout, m.body).cells)
<1>1. IsLayout(layout) /\ AreFields(layout, m.body) /\ Write(layout, m.body).ok
  BY Layouts DEF IsMessage
<1>2. /\ \A i \in 1..n : WriteField(layout[i], m.body[i]).ok
      /\ \A i \in 1..n : t(i) \in Nat
      /\ n = 2 => size = t(1) + t(2)
      /\ n = 3 => size = t(1) + t(2) + t(3)
      /\ n = 5 => size = t(1) + t(2) + t(3) + t(4) + t(5)
  <2> HIDE DEF layout
  <2> QED
    BY <1>1, ObjectSizes
<1>3. \A i \in 1..n : IsField(layout[i], m.body[i])
  BY <1>1 DEF AreFields
<1>4. \A i \in 1..n :
         /\ IsNumber(layout[i]) => t(i) = layout[i].width
         /\ layout[i] = ByteArray => t(i) = 4 + m.body[i].n /\ m.body[i].n \in Nat
         /\ layout[i] = IntX => t(i) <= 33
         /\ layout[i] = Text => t(i) = 1 + m.body[i].n /\ m.body[i].n \in Nat
         /\ (layout[i] = ArgSections /\ m.body[i].sections = <<>>) =>
               t(i) = 4 + m.body[i].args.n /\ m.body[i].args.n \in Nat
  <2> TAKE i \in 1..n
  <2>1. IsField(layout[i], m.body[i]) /\ WriteField(layout[i], m.body[i]).ok
    BY <1>2, <1>3
  <2> DEFINE f == layout[i]
             v == m.body[i]
  <2>2. IsField(f, v) /\ WriteField(f, v).ok /\ t(i) = Size(WriteField(f, v).cells)
    BY <2>1
  <2> HIDE DEF f, v, t, layout
  <2>3. /\ IsNumber(f) => t(i) = f.width
        /\ f = Text => t(i) = 1 + v.n /\ v.n \in 0..255
        /\ f = ByteArray => t(i) = 4 + v.n /\ v.n \in Nat
        /\ f = IntX => t(i) <= 33
        /\ (f = ArgSections /\ v.sections = <<>>) => t(i) = 4 + v.args.n /\ v.args.n \in Nat
    BY <2>2, KindSizes, Zenon
  <2>4. 0..255 \subseteq Nat
    OBVIOUS
  <2>5. f = Text => t(i) = 1 + v.n /\ v.n \in Nat
    BY <2>3, <2>4, Zenon
  <2> QED
    BY <2>3, <2>5, Zenon DEF f, v
<1>5. /\ U64.width = 8 /\ U32.width = 4 /\ Bytes32.width = 32
      /\ IsNumber(U64) /\ IsNumber(U32) /\ IsNumber(Bytes32)
  BY KindFacts DEF U64, U32, Bytes32, Unsigned, Ranged
<1> HIDE DEF t, size, layout
<1>6. ASSUME Type(m) \in {TRANSFER_FUNGIBLE, TRANSFER_NON_FUNGIBLE_SINGLE} PROVE size = 48
  <2>1. layout = Transfer
    BY <1>6, PayloadOf, Zenon DEF layout
  <2>2. n = 3 /\ layout[1] = Bytes32 /\ layout[2] = U64 /\ layout[3] = U64
    BY <2>1 DEF Transfer
  <2>3. t(1) = 32 /\ t(2) = 8 /\ t(3) = 8
    BY <1>4, <1>5, <2>2
  <2> QED
    BY <1>2, <2>2, <2>3
<1>7. ASSUME Type(m) = MINT_FUNGIBLE PROVE size <= 73
  <2>1. layout = TxMsgMintFungible
    BY <1>7, PayloadOf, Zenon DEF layout
  <2>2. n = 3 /\ layout[1] = U64 /\ layout[2] = Bytes32 /\ layout[3] = IntX
    BY <2>1 DEF TxMsgMintFungible
  <2>3. t(1) = 8 /\ t(2) = 32 /\ t(3) <= 33 /\ t(3) \in Nat
    BY <1>2, <1>4, <1>5, <2>2
  <2> QED
    BY <1>2, <2>2, <2>3
<1>8. ASSUME Type(m) = BURN_FUNGIBLE PROVE size <= 41
  <2>1. layout = TxMsgBurnFungible
    BY <1>8, PayloadOf, Zenon DEF layout
  <2>2. n = 2 /\ layout[1] = U64 /\ layout[2] = IntX
    BY <2>1 DEF TxMsgBurnFungible
  <2>3. t(1) = 8 /\ t(2) <= 33 /\ t(2) \in Nat
    BY <1>2, <1>4, <1>5, <2>2
  <2> QED
    BY <1>2, <2>2, <2>3
<1>9. ASSUME Type(m) = BURN_NON_FUNGIBLE PROVE size = 16
  <2>1. layout = TxMsgBurnNonFungible
    BY <1>9, PayloadOf, Zenon DEF layout
  <2>2. n = 2 /\ layout[1] = U64 /\ layout[2] = U64
    BY <2>1 DEF TxMsgBurnNonFungible
  <2>3. t(1) = 8 /\ t(2) = 8
    BY <1>4, <1>5, <2>2
  <2> QED
    BY <1>2, <2>2, <2>3
<1>10. ASSUME Type(m) = TRANSFER_NON_FUNGIBLE_MULTI
       PROVE  Len(m.body[3]) \in Nat /\ size = 44 + 8 * Len(m.body[3])
  <2>1. layout = TransferMulti
    BY <1>10, PayloadOf, Zenon DEF layout
  <2> DEFINE item == <<U64>>
  <2>2. n = 3 /\ layout[1] = Bytes32 /\ layout[2] = U64 /\ layout[3] = ListOf(item)
    BY <2>1 DEF TransferMulti
  <2>3. t(1) = 32 /\ t(2) = 8
    BY <1>4, <1>5, <2>2
  <2>4. IsItemLayout(item) /\ Len(item) = 1 /\ item[1] = U64
    BY ItemLayouts
  <2> HIDE DEF item
  <2>5. ASSUME NEW items, AreItems(item, items), WriteItems(item, items).ok
        PROVE  Size(WriteItems(item, items).cells) = 8
    <3>1. WriteItems(item, items) = Write(item, items) /\ AreFields(item, items)
      BY <2>4, <2>5, ItemsAlone
    <3>2. Write(item, items).ok /\ IsLayout(item)
      BY <2>4, <2>5, <3>1, ItemLayoutIsLayout, Zenon
    <3>3. /\ WriteField(item[1], items[1]).ok
          /\ Size(Write(item, items).cells) = Size(WriteField(item[1], items[1]).cells)
      BY <2>4, <3>1, <3>2, ObjectSizes
    <3>4. IsField(item[1], items[1]) /\ IsNumber(item[1])
      BY <1>5, <2>4, <3>1 DEF AreFields
    <3>5. Size(WriteField(item[1], items[1]).cells) = item[1].width
      BY <3>3, <3>4, KindSizes
    <3> QED
      BY <1>5, <2>4, <3>1, <3>3, <3>5
  <2>6. /\ Size(WriteField(ListOf(item), m.body[3]).cells) = 4 + 8 * Len(m.body[3])
        /\ Len(m.body[3]) \in Nat
    <3>1. IsField(ListOf(item), m.body[3]) /\ WriteField(ListOf(item), m.body[3]).ok
      BY <1>2, <1>3, <2>2
    <3>2. 8 \in Nat
      OBVIOUS
    <3> QED
      BY <2>4, <2>5, <3>1, <3>2, ListSize
  <2>7. t(3) = 4 + 8 * Len(m.body[3])
    BY <2>2, <2>6 DEF t
  <2> QED
    BY <1>2, <2>2, <2>3, <2>6, <2>7
<1>11. ASSUME Type(m) = MINT_NON_FUNGIBLE
       PROVE  /\ m.body[4].n \in Nat /\ m.body[5].n \in Nat
              /\ size = 52 + m.body[4].n + m.body[5].n
  <2>1. layout = TxMsgMintNonFungible
    BY <1>11, PayloadOf, Zenon DEF layout
  <2>2. /\ n = 5 /\ layout[1] = U64 /\ layout[2] = Bytes32 /\ layout[3] = U32
        /\ layout[4] = ByteArray /\ layout[5] = ByteArray
    BY <2>1 DEF TxMsgMintNonFungible
  <2>3. /\ t(1) = 8 /\ t(2) = 32 /\ t(3) = 4
        /\ t(4) = 4 + m.body[4].n /\ m.body[4].n \in Nat
        /\ t(5) = 4 + m.body[5].n /\ m.body[5].n \in Nat
    BY <1>4, <1>5, <2>2
  <2> QED
    BY <1>2, <2>2, <2>3
<1>12. ASSUME Type(m) = CALL, m.body[3].sections = <<>>
       PROVE  m.body[3].args.n \in Nat /\ size = 12 + m.body[3].args.n
  <2>1. layout = TxMsgCall
    BY <1>12, CallPayloads, Zenon DEF layout
  <2>2. n = 3 /\ layout[1] = U32 /\ layout[2] = U32 /\ layout[3] = ArgSections
    BY <2>1 DEF TxMsgCall
  <2>3. t(1) = 4 /\ t(2) = 4 /\ t(3) = 4 + m.body[3].args.n /\ m.body[3].args.n \in Nat
    BY <1>4, <1>5, <1>12, <2>2
  <2> QED
    BY <1>2, <2>2, <2>3
<1>13. ASSUME Type(m) = PHANTASMA
       PROVE  /\ m.body[1].n \in Nat /\ m.body[2].n \in Nat /\ m.body[3].n \in Nat
              /\ size = 6 + m.body[1].n + m.body[2].n + m.body[3].n
  <2>1. layout = TxMsgPhantasma
    BY <1>13, CallPayloads, Zenon DEF layout
  <2>2. n = 3 /\ layout[1] = Text /\ layout[2] = Text /\ layout[3] = ByteArray
    BY <2>1 DEF TxMsgPhantasma
  <2>3. /\ t(1) = 1 + m.body[1].n /\ m.body[1].n \in Nat
        /\ t(2) = 1 + m.body[2].n /\ m.body[2].n \in Nat
        /\ t(3) = 4 + m.body[3].n /\ m.body[3].n \in Nat
    BY <1>4, <2>2
  <2> QED
    BY <1>2, <2>2, <2>3
<1>14. QED
  BY <1>6, <1>7, <1>8, <1>9, <1>10, <1>11, <1>12, <1>13, Zenon DEF size, layout

\* The default envelopes of the requests for them.
LEMMA DefaultEnvelopes ==
    ASSUME NEW m
    PROVE  LET e == Fee!Envelope(FeeRequest(m))
           IN  /\ Type(m) \in {TRANSFER_FUNGIBLE, MINT_FUNGIBLE, BURN_FUNGIBLE} => e = 512
               /\ Type(m) \in {TRANSFER_NON_FUNGIBLE_SINGLE, BURN_NON_FUNGIBLE} => e = 520
               /\ Type(m) = TRANSFER_NON_FUNGIBLE_MULTI => e = 512 + 8 * Len(m.body[3])
               /\ Type(m) = MINT_NON_FUNGIBLE =>
                    e = 512 + 1 * (64 + (m.body[4].n + m.body[5].n))
<1> DEFINE q == FeeRequest(m)
<1>1. q.envelope_bytes = 0 /\ ~(0 > 0)
  BY DEF FeeRequest, Request
<1>2. /\ Type(m) = TRANSFER_FUNGIBLE => q.kind = "transfer_fungible"
      /\ Type(m) = MINT_FUNGIBLE => q.kind = "mint_fungible"
      /\ Type(m) = BURN_FUNGIBLE => q.kind = "burn_fungible"
      /\ Type(m) = MINT_NON_FUNGIBLE => q.kind = "mint_non_fungible"
      /\ Type(m) = BURN_NON_FUNGIBLE => q.kind = "burn_non_fungible"
      /\ Type(m) \in {TRANSFER_NON_FUNGIBLE_SINGLE, TRANSFER_NON_FUNGIBLE_MULTI} =>
           q.kind = "transfer_non_fungible"
  BY DEF FeeRequest, Request, TRANSFER_FUNGIBLE, MINT_FUNGIBLE, BURN_FUNGIBLE, MINT_NON_FUNGIBLE,
     BURN_NON_FUNGIBLE, TRANSFER_NON_FUNGIBLE_SINGLE, TRANSFER_NON_FUNGIBLE_MULTI
<1>3. /\ Type(m) = TRANSFER_NON_FUNGIBLE_MULTI => q.count = Len(m.body[3])
      /\ Type(m) # TRANSFER_NON_FUNGIBLE_MULTI => q.count = 1
      /\ Type(m) = MINT_NON_FUNGIBLE => q.rom_ram_bytes = m.body[4].n + m.body[5].n
  BY DEF FeeRequest, Request
<1> HIDE DEF q
<1>4. /\ q.kind \in {"transfer_fungible", "mint_fungible", "burn_fungible"} =>
           Fee!Envelope(q) = 512
      /\ q.kind \in {"transfer_non_fungible", "burn_non_fungible"} =>
           Fee!Envelope(q) = 512 + 8 * q.count
      /\ q.kind = "mint_non_fungible" =>
           Fee!Envelope(q) = 512 + q.count * (64 + q.rom_ram_bytes)
  BY <1>1 DEF Fee!Envelope, Fee!FungibleKinds
<1>5. /\ TRANSFER_NON_FUNGIBLE_MULTI # TRANSFER_NON_FUNGIBLE_SINGLE
      /\ TRANSFER_NON_FUNGIBLE_MULTI # BURN_NON_FUNGIBLE
      /\ TRANSFER_NON_FUNGIBLE_MULTI # MINT_NON_FUNGIBLE
  BY DEF TRANSFER_NON_FUNGIBLE_SINGLE, TRANSFER_NON_FUNGIBLE_MULTI, BURN_NON_FUNGIBLE,
     MINT_NON_FUNGIBLE
<1>6. QED
  BY <1>2, <1>3, <1>4, <1>5 DEF q

\* The defaults of the kinds that ride CALL or PHANTASMA.
LEMMA RidingDefaults ==
    ASSUME NEW kind
    PROVE  /\ kind = "register_name" => DefaultEnvelope(kind) = 512 /\ Room(kind) = 342
           /\ kind = "create_token" => DefaultEnvelope(kind) = 4096 /\ Room(kind) = 3926
           /\ kind = "create_token_series" => DefaultEnvelope(kind) = 2048 /\ Room(kind) = 1878
           /\ kind = "script" => DefaultEnvelope(kind) = 1024 /\ Room(kind) = 860
<1> DEFINE q == Request(kind, 1, 0)
<1>1. q.kind = kind /\ ~(q.envelope_bytes > 0)
  BY DEF Request
<1> HIDE DEF q
<1>2. /\ kind = "register_name" => Fee!Envelope(q) = 512
      /\ kind = "create_token" => Fee!Envelope(q) = 4096
      /\ kind = "create_token_series" => Fee!Envelope(q) = 2048
      /\ kind = "script" => Fee!Envelope(q) = 1024
  BY <1>1 DEF Fee!Envelope, Fee!FungibleKinds
<1>3. /\ kind = "register_name" => Room(kind) = 342
      /\ kind = "create_token" => Room(kind) = 3926
      /\ kind = "create_token_series" => Room(kind) = 1878
      /\ kind = "script" => Room(kind) = 860
  BY DEF Room
<1> QED
  BY <1>2, <1>3 DEF DefaultEnvelope, q

\* What the fee estimator takes for the size of a signed transaction: its size,
\* if it was measured; enough by default, for each native type with one
\* signature; and for the kinds that ride CALL or PHANTASMA, enough exactly up
\* to 342, 3926, 1878 and 860 bytes of the caller's.
THEOREM EnvelopesHold == Spec => []EnvelopesMeasured
<1>1. TxInv => EnvelopesMeasured
  <2> SUFFICES ASSUME TxInv, wire.ok PROVE EnvelopesMeasured
    BY DEF EnvelopesMeasured, EnvelopeExact, NativeEnvelopesSuffice,
       RidingEnvelopesBounded
  <2>1. IsMessage(msg) /\ AreWitnesses(witnesses) /\ wire = SerializeSigned(msg, witnesses)
    BY Refusal DEF TxInv, MsgInv, WitnessInv, WireInv
  <2> DEFINE a == Serialize(msg).cells
             b == WriteWitnesses(msg, witnesses).cells
             n == Len(witnesses)
  <2>2. /\ Serialize(msg).ok /\ WriteWitnesses(msg, witnesses).ok
        /\ a \in Stream /\ b \in Stream /\ wire.cells = a \o b
    BY <2>1, SignedReads
  <2>3. Type(msg) \in TxTypes
    BY <2>1 DEF IsMessage
  <2>4. /\ n \in Nat
        /\ Type(msg) \in SingleWitness => Size(b) = 64 /\ n = 1
        /\ Type(msg) \in GasPayer => Size(b) = 128 /\ n = 2
        /\ Type(msg) \in WitnessArray => Size(b) = 4 + 96 * n
    BY <2>1, <2>2, <2>3, WitnessSizes
  <2> DEFINE head == Write(HeadLayout, msg.head)
             body == Write(Payload(Type(msg)), msg.body)
  <2>5. head.ok /\ body.ok /\ a = head.cells \o body.cells
    <3>1. Serialize(msg) = head ++ body
      BY DEF Serialize
    <3> HIDE DEF head, body
    <3>2. (head ++ body).ok
      BY <2>2, <3>1, Zenon
    <3> QED
      BY <3>1, <3>2, TwoPieces
  <2>6. /\ head.cells \in Stream /\ body.cells \in Stream
        /\ Size(head.cells) = 58 + msg.head[6].n /\ msg.head[6].n \in 0..255
    BY <2>1, <2>5, Layouts, ObjectReads, HeadSize DEF IsMessage
  <2> DEFINE size == Size(body.cells)
  <2>7. /\ Type(msg) \in {TRANSFER_FUNGIBLE, TRANSFER_NON_FUNGIBLE_SINGLE} => size = 48
        /\ Type(msg) = MINT_FUNGIBLE => size <= 73
        /\ Type(msg) = BURN_FUNGIBLE => size <= 41
        /\ Type(msg) = BURN_NON_FUNGIBLE => size = 16
        /\ Type(msg) = TRANSFER_NON_FUNGIBLE_MULTI =>
             Len(msg.body[3]) \in Nat /\ size = 44 + 8 * Len(msg.body[3])
        /\ Type(msg) = MINT_NON_FUNGIBLE =>
             /\ msg.body[4].n \in Nat /\ msg.body[5].n \in Nat
             /\ size = 52 + msg.body[4].n + msg.body[5].n
        /\ (Type(msg) = CALL /\ msg.body[3].sections = <<>>) =>
             msg.body[3].args.n \in Nat /\ size = 12 + msg.body[3].args.n
        /\ Type(msg) = PHANTASMA =>
             /\ msg.body[1].n \in Nat /\ msg.body[2].n \in Nat /\ msg.body[3].n \in Nat
             /\ size = 6 + msg.body[1].n + msg.body[2].n + msg.body[3].n
    BY <2>1, <2>5, BodySizes
  <2> HIDE DEF a, b, n, head, body
  <2>8. /\ Size(a) \in Nat /\ Size(b) \in Nat /\ Size(wire.cells) = Size(a) + Size(b)
        /\ Size(head.cells) \in Nat /\ Size(body.cells) \in Nat
        /\ Size(a) = Size(head.cells) + Size(body.cells)
    BY <2>2, <2>5, <2>6, SizeFacts, ZenonT(40)
  <2> HIDE DEF size
  <2>9. /\ size \in Nat /\ Size(wire.cells) = Size(a) + Size(b)
        /\ Size(a) = 58 + msg.head[6].n + size /\ Size(a) <= 313 + size
    BY <2>6, <2>8 DEF size
  <2>10. EnvelopeExact
    <3>1. CALL \in WitnessArray /\ PHANTASMA \in WitnessArray
      BY DEF WitnessArray
    <3>2. CASE Type(msg) \in SingleWitness \cup GasPayer
      <4>1. Type(msg) \notin WitnessArray /\ Size(b) = 64 * n
        BY <2>4, <3>2, TypeParts
      <4> QED
        BY <2>9, <4>1 DEF EnvelopeExact, EnvelopeBytesFor, a, n
    <3>3. CASE Type(msg) \in WitnessArray
      <4>1. Size(a) + (4 + 96 * n) = Size(a) + 4 + 96 * n
        BY <2>4, <2>8
      <4> QED
        BY <2>4, <2>9, <3>3, <4>1 DEF EnvelopeExact, EnvelopeBytesFor, a, n
    <3> QED
      BY <3>1, <3>2, <3>3 DEF EnvelopeExact
  <2>11. NativeEnvelopesSuffice
    <3> SUFFICES ASSUME Type(msg) \in SingleWitness
                 PROVE  Size(wire.cells) <= Fee!Envelope(FeeRequest(msg))
      BY DEF NativeEnvelopesSuffice
    <3> DEFINE e == Fee!Envelope(FeeRequest(msg))
    <3>1. Size(wire.cells) \in Nat /\ Size(wire.cells) <= 377 + size
      BY <2>4, <2>8, <2>9
    <3>2. /\ Type(msg) \in {TRANSFER_FUNGIBLE, MINT_FUNGIBLE, BURN_FUNGIBLE} => e = 512
          /\ Type(msg) \in {TRANSFER_NON_FUNGIBLE_SINGLE, BURN_NON_FUNGIBLE} => e = 520
          /\ Type(msg) = TRANSFER_NON_FUNGIBLE_MULTI => e = 512 + 8 * Len(msg.body[3])
          /\ Type(msg) = MINT_NON_FUNGIBLE =>
               e = 512 + 1 * (64 + (msg.body[4].n + msg.body[5].n))
      BY DefaultEnvelopes
    <3> HIDE DEF e
    <3>3. CASE Type(msg) \in {TRANSFER_FUNGIBLE, MINT_FUNGIBLE, BURN_FUNGIBLE}
      BY <2>7, <2>9, <3>1, <3>2, <3>3 DEF e
    <3>4. CASE Type(msg) \in {TRANSFER_NON_FUNGIBLE_SINGLE, BURN_NON_FUNGIBLE}
      BY <2>7, <2>9, <3>1, <3>2, <3>4 DEF e
    <3>5. CASE Type(msg) = TRANSFER_NON_FUNGIBLE_MULTI
      BY <2>7, <2>9, <3>1, <3>2, <3>5 DEF e
    <3>6. CASE Type(msg) = MINT_NON_FUNGIBLE
      <4>1. PICK x, y : x = msg.body[4].n /\ y = msg.body[5].n
        BY Zenon
      <4>2. x \in Nat /\ y \in Nat /\ size = 52 + x + y
        BY <2>7, <3>6, <4>1, Zenon
      <4>3. e = 512 + 1 * (64 + (x + y))
        BY <3>2, <3>6, <4>1, ZenonT(40)
      <4>4. Size(wire.cells) <= e
        BY <3>1, <4>2, <4>3
      <4> QED
        BY <4>4 DEF e
    <3> QED
      BY <3>3, <3>4, <3>5, <3>6 DEF SingleWitness
  <2>12. RidingEnvelopesBounded
    <3> SUFFICES ASSUME n = 1, NEW kind \in KindsRiding(msg),
                        Type(msg) = CALL => msg.body[3].sections = <<>>
                 PROVE  Size(wire.cells) <= DefaultEnvelope(kind) <=> Freight(msg) <= Room(kind)
      BY DEF RidingEnvelopesBounded, n
    <3>1. \/ Type(msg) = CALL /\ kind \in {"register_name", "create_token", "create_token_series"}
          \/ Type(msg) = PHANTASMA /\ kind = "script"
      BY DEF KindsRiding
    <3>2. /\ kind = "register_name" => DefaultEnvelope(kind) = 512 /\ Room(kind) = 342
          /\ kind = "create_token" => DefaultEnvelope(kind) = 4096 /\ Room(kind) = 3926
          /\ kind = "create_token_series" => DefaultEnvelope(kind) = 2048 /\ Room(kind) = 1878
          /\ kind = "script" => DefaultEnvelope(kind) = 1024 /\ Room(kind) = 860
      BY RidingDefaults
    <3>3. PICK p : p = msg.head[6].n
      BY Zenon
    <3>4. p \in 0..255 /\ size \in Nat /\ Size(wire.cells) = (58 + p + size) + 100
      <4>1. Type(msg) \in WitnessArray
        BY <3>1 DEF WitnessArray
      <4>2. Size(b) = 100
        BY <2>4, <4>1
      <4>3. p \in 0..255
        BY <2>6, <3>3
      <4>4. Size(wire.cells) = Size(a) + Size(b) /\ Size(a) = 58 + p + size
        BY <2>9, <3>3
      <4> QED
        BY <2>9, <4>2, <4>3, <4>4
    <3>5. CASE Type(msg) = CALL
      <4>1. PICK x : x = msg.body[3].args.n
        BY Zenon
      <4>2. x \in Nat /\ size = 12 + x
        BY <2>7, <3>5, <4>1, Zenon
      <4>3. Freight(msg) = p + x
        BY <3>3, <3>5, <4>1 DEF Freight
      <4>4. Size(wire.cells) = 170 + (p + x) /\ p + x \in Nat
        BY <3>4, <4>2
      <4>5. kind \in {"register_name", "create_token", "create_token_series"}
        BY <3>1, <3>5 DEF CALL, PHANTASMA
      <4> QED
        BY <3>2, <4>3, <4>4, <4>5
    <3>6. CASE Type(msg) = PHANTASMA
      <4>1. PICK x, y, z : x = msg.body[1].n /\ y = msg.body[2].n /\ z = msg.body[3].n
        BY Zenon
      <4>2. /\ x \in Nat /\ y \in Nat /\ z \in Nat /\ size = 6 + x + y + z
        BY <2>7, <3>6, <4>1, Zenon
      <4>3. Freight(msg) = p + (x + y + z)
        BY <3>3, <3>6, <4>1 DEF Freight, CALL, PHANTASMA
      <4>4. Size(wire.cells) = 164 + (p + (x + y + z)) /\ p + (x + y + z) \in Nat
        BY <3>4, <4>2
      <4>5. kind = "script"
        BY <3>1, <3>6 DEF CALL, PHANTASMA
      <4> QED
        BY <3>2, <4>3, <4>4, <4>5
    <3> QED
      BY <3>1, <3>5, <3>6
  <2> QED
    BY <2>10, <2>11, <2>12 DEF EnvelopesMeasured
<1>2. QED
  BY <1>1, TxAlways, PTL
=============================================================================
