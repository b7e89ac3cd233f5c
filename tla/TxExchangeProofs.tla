--------------------------- MODULE TxExchangeProofs ---------------------------
(* Proofs about TxExchange, for any bytes, alphabet, keys, names, script and *)
(* bounds: a transaction is read back whole from its bytes and from nothing  *)
(* else that may come of them, its signers are told by the texts of their    *)
(* addresses, a text names one key or address, and the holders together do   *)
(* what TxSubmission allows one to do.                                       *)
EXTENDS TxExchange, TxSubmissionProofs, WellFoundedInduction

-----------------------------------------------------------------------------
(* Numbers, and functions made step by step.                                 *)

\* Natural numbers are reached from 0, one at a time.
LEMMA NumberInduction ==
    ASSUME NEW S, 0 \in S, \A n \in Nat : n \in S => n + 1 \in S
    PROVE  Nat \subseteq S
<1> DEFINE outside == Nat \ S
<1> SUFFICES ASSUME outside # {} PROVE FALSE
  OBVIOUS
<1>1. PICK least \in outside : \A n \in outside : ~(<<n, least>> \in OpToRel(<, Nat))
  BY NatLessThanWellFounded, WFMin
<1>2. \A n \in outside : ~(n < least)
  BY <1>1 DEF OpToRel
<1>3. least \in Nat \ {0}
  OBVIOUS
<1>4. least - 1 \in Nat /\ least - 1 < least /\ (least - 1) + 1 = least
  BY <1>3
<1>5. QED
  BY <1>2, <1>4

\* A function whose value at each number is made from the one before.
MadeBy(f, n, D, a, step) ==
    f \in [0..n -> D] /\ f[0] = a /\ \A i \in 1..n : f[i] = step[i][f[i - 1]]

\* There is one such function.
LEMMA Recursion ==
    ASSUME NEW n \in Nat, NEW D, NEW a \in D, NEW step \in [1..n -> [D -> D]]
    PROVE  \E f : MadeBy(f, n, D, a, step)
<1> DEFINE right(k, f) == /\ f \in [0..k -> D] /\ f[0] = a
                          /\ \A i \in 1..k : f[i] = step[i][f[i - 1]]
           S == {k \in Nat : k <= n => \E f : right(k, f)}
<1>1. 0 \in S
  <2> DEFINE f == [i \in 0..0 |-> a]
  <2>1. right(0, f)
    OBVIOUS
  <2> HIDE DEF right, f
  <2> QED
    BY <2>1
<1>2. ASSUME NEW k \in Nat, k \in S PROVE k + 1 \in S
  <2> SUFFICES ASSUME k + 1 <= n PROVE \E g : right(k + 1, g)
    OBVIOUS
  <2>1. PICK f : right(k, f)
    BY <1>2
  <2> DEFINE new == step[k + 1][f[k]]
             g == [i \in 0..(k + 1) |-> IF i <= k THEN f[i] ELSE new]
  <2>2. new \in D
    <3>1. k + 1 \in 1..n /\ k \in 0..k
      OBVIOUS
    <3>2. f[k] \in D
      BY <2>1, <3>1
    <3> QED
      BY <3>1, <3>2
  <2>3. \A i \in 0..k : f[i] \in D
    BY <2>1
  <2> HIDE DEF new
  <2>4. g \in [0..(k + 1) -> D] /\ g[0] = a
    BY <2>1, <2>2, <2>3
  <2>5. ASSUME NEW i \in 1..(k + 1) PROVE g[i] = step[i][g[i - 1]]
    <3>1. CASE i \in 1..k
      <4>1. g[i] = f[i] /\ g[i - 1] = f[i - 1]
        BY <3>1
      <4> QED
        BY <2>1, <3>1, <4>1
    <3>2. CASE i = k + 1
      <4>1. g[i] = new /\ g[i - 1] = f[k] /\ i - 1 = k
        BY <3>2
      <4> QED
        BY <3>2, <4>1 DEF new
    <3> QED
      BY <3>1, <3>2
  <2>6. right(k + 1, g)
    BY <2>4, <2>5
  <2> HIDE DEF right, g
  <2> QED
    BY <2>6
<1>3. n \in S
  <2> HIDE DEF S
  <2> QED
    BY <1>1, <1>2, NumberInduction
<1>4. QED
  BY <1>3 DEF MadeBy

\* What is made so is so everywhere.
LEMMA Made ==
    ASSUME NEW n \in Nat, NEW D, NEW a \in D, NEW step \in [1..n -> [D -> D]],
           NEW g, g = [i \in 0..n |-> g[i]], g[0] = a,
           \A i \in 1..n : g[i - 1] \in D => g[i] = step[i][g[i - 1]]
    PROVE  MadeBy(g, n, D, a, step)
<1> DEFINE S == {k \in Nat : k <= n => g[k] \in D}
<1>1. 0 \in S
  OBVIOUS
<1>2. ASSUME NEW k \in Nat, k \in S PROVE k + 1 \in S
  <2> SUFFICES ASSUME k + 1 <= n PROVE g[k + 1] \in D
    OBVIOUS
  <2>1. g[k] \in D /\ k + 1 \in 1..n /\ (k + 1) - 1 = k
    BY <1>2
  <2>2. g[k + 1] = step[k + 1][g[k]]
    BY <2>1
  <2> QED
    BY <2>1, <2>2
<1>3. Nat \subseteq S
  <2> HIDE DEF S
  <2> QED
    BY <1>1, <1>2, NumberInduction
<1>4. \A i \in 0..n : g[i] \in D
  BY <1>3
<1>5. g \in [0..n -> D]
  <2>1. [i \in 0..n |-> g[i]] \in [0..n -> D]
    BY <1>4
  <2> QED
    BY <2>1, Zenon
<1>6. \A i \in 1..n : g[i] = step[i][g[i - 1]]
  <2>1. \A i \in 1..n : i - 1 \in 0..n
    OBVIOUS
  <2> QED
    BY <1>4, <2>1, Zenon
<1>7. QED
  BY <1>5, <1>6 DEF MadeBy

\* A set of numbers has a least one.
LEMMA LeastNumber ==
    ASSUME NEW S, S \subseteq Nat, S # {}
    PROVE  \E least \in S : \A n \in S : least <= n
<1>1. PICK least \in S : \A n \in S : ~(<<n, least>> \in OpToRel(<, Nat))
  BY NatLessThanWellFounded, WFMin
<1>2. \A n \in S : ~(n < least)
  BY <1>1 DEF OpToRel
<1>3. QED
  BY <1>2

-----------------------------------------------------------------------------
(* Numbers and their digits.                                                 *)

\* Division by a base.
LEMMA Division ==
    ASSUME NEW n \in Nat, NEW b \in Nat, b > 0
    PROVE  /\ n \div b \in Nat /\ n % b \in 0..(b - 1)
           /\ n = (n \div b) * b + (n % b)
           /\ b > 1 /\ n > 0 => n \div b < n
           /\ n \div b = 0 => n % b = n
<1>1. n \div b \in Nat /\ n % b \in 0..(b - 1) /\ n = (n \div b) * b + (n % b)
  <2>1. n = b * (n \div b) + (n % b) /\ n % b \in 0..(b - 1) /\ n \div b \in Nat
    OBVIOUS
  <2> DEFINE q == n \div b
             r == n % b
  <2>2. q \in Nat /\ n = b * q + r /\ r \in 0..(b - 1)
    BY <2>1
  <2> HIDE DEF q, r
  <2>3. n = q * b + r
    BY <2>2
  <2> QED
    BY <2>2, <2>3 DEF q, r
<1> DEFINE q == n \div b
           r == n % b
<1>2. q \in Nat /\ r \in 0..(b - 1) /\ n = q * b + r
  BY <1>1
<1> HIDE DEF q, r
<1>3. q = 0 => r = n
  BY <1>2
<1>4. b > 1 /\ n > 0 => q < n
  <2> SUFFICES ASSUME b > 1, n > 0, q >= n PROVE FALSE
    BY <1>2
  <2>1. q > 0 /\ q * b >= q * 2
    BY <1>2
  <2> QED
    BY <1>2, <2>1
<1>5. QED
  BY <1>1, <1>3, <1>4 DEF q, r

\* What division undoes.
LEMMA Undivided ==
    ASSUME NEW v \in Nat, NEW b \in Nat, NEW d \in 0..(b - 1)
    PROVE  (v * b + d) \div b = v /\ (v * b + d) % b = d
<1>1. b \in Nat /\ b > 0 /\ v * b + d \in Nat
  OBVIOUS
<1> DEFINE n == v * b + d
           q == n \div b
           r == n % b
<1>2. q \in Nat /\ r \in 0..(b - 1) /\ n = q * b + r
  BY <1>1, Division
<1> HIDE DEF q, r
<1>3. v * b + d = q * b + r
  BY <1>2
<1>4. ~(q < v)
  <2> SUFFICES ASSUME q + 1 <= v PROVE FALSE
    BY <1>2
  <2>1. (q + 1) * b <= v * b
    BY <1>1, <1>2
  <2>2. (q + 1) * b = q * b + b
    BY <1>1, <1>2
  <2> QED
    BY <1>1, <1>2, <1>3, <2>1, <2>2
<1>5. ~(v < q)
  <2> SUFFICES ASSUME v + 1 <= q PROVE FALSE
    BY <1>2
  <2>1. (v + 1) * b <= q * b
    BY <1>1, <1>2
  <2>2. (v + 1) * b = v * b + b
    BY <1>1
  <2> QED
    BY <1>1, <1>2, <1>3, <2>1, <2>2
<1>6. q = v
  BY <1>2, <1>4, <1>5
<1>7. QED
  BY <1>2, <1>3, <1>6 DEF q, r

\* Division again and again.
AreQuotients(f, n, base, times) ==
    /\ Quotients(n, base, times) = f
    /\ f \in [0..times -> Nat] /\ f[0] = n
    /\ \A i \in 1..times : f[i] = f[i - 1] \div base

\* The recursive definitions are such functions.
LEMMA QuotientFacts ==
    ASSUME NEW n \in Nat, NEW base \in Nat, base > 0, NEW times \in Nat
    PROVE  \E f : AreQuotients(f, n, base, times)
<1> DEFINE next(i, x) == x \div base
           value(i, x) == IF i = 0 THEN n ELSE next(i, x)
           step == [i \in 1..times |-> [x \in Nat |-> next(i, x)]]
           isIt(f) == f = [i \in 0..times |-> value(i, f[i - 1])]
<1>1. /\ \A i \in 1..times : \A x \in Nat : next(i, x) \in Nat
      /\ times \in Nat /\ n \in Nat
  BY Division
<1>2. \A i \in 1..times : \A x \in Nat : step[i][x] = next(i, x)
  OBVIOUS
<1> HIDE DEF next
<1>3. step \in [1..times -> [Nat -> Nat]]
  BY <1>1
<1> HIDE DEF step
<1>4. PICK f : MadeBy(f, times, Nat, n, step)
  BY <1>1, <1>3, Recursion, Zenon
<1>5. isIt(f)
  <2>1. /\ f \in [0..times -> Nat] /\ f[0] = n
        /\ \A i \in 1..times : f[i] = step[i][f[i - 1]]
    BY <1>4 DEF MadeBy
  <2>2. \A i \in 1..times : f[i] = next(i, f[i - 1])
    <3>1. \A i \in 1..times : f[i - 1] \in Nat
      <4>1. \A i \in 1..times : i - 1 \in 0..times
        BY <1>1
      <4> QED
        BY <2>1, <4>1
    <3> QED
      BY <1>2, <2>1, <3>1, Zenon
  <2>3. \A i \in 0..times : f[i] = value(i, f[i - 1])
    BY <2>1, <2>2
  <2> QED
    BY <2>1, <2>3
<1>6. PICK g : Quotients(n, base, times) = g /\ isIt(g)
  BY <1>5 DEF Quotients, next
<1>7. g = [i \in 0..times |-> g[i]] /\ \A i \in 0..times : g[i] = value(i, g[i - 1])
  <2> HIDE DEF value
  <2> QED
    BY <1>6
<1>8. g[0] = n /\ \A i \in 1..times : g[i] = next(i, g[i - 1])
  <2>1. 0 \in 0..times /\ \A i \in 1..times : i \in 0..times /\ i # 0
    BY <1>1
  <2> QED
    BY <1>7, <2>1, Zenon
<1>9. \A i \in 1..times : g[i - 1] \in Nat => g[i] = step[i][g[i - 1]]
  BY <1>2, <1>8, Zenon
<1>10. MadeBy(g, times, Nat, n, step)
  BY <1>1, <1>3, <1>7, <1>8, <1>9, Made, Zenon
<1>11. g \in [0..times -> Nat]
  BY <1>10 DEF MadeBy
<1>12. QED
  BY <1>6, <1>8, <1>11, Zenon DEF next, AreQuotients

\* The number that the first digits have.
AreNumbers(f, digits, base) ==
    /\ NumberOf(digits, base) = f[Len(digits)]
    /\ f \in [0..Len(digits) -> Nat] /\ f[0] = 0
    /\ \A i \in 1..Len(digits) : f[i] = f[i - 1] * base + digits[i]

\* NumberOf is such a function.
LEMMA NumberFunction ==
    ASSUME NEW digits \in Seq(Nat), NEW base \in Nat
    PROVE  \E f : AreNumbers(f, digits, base)
<1> DEFINE next(i, x) == x * base + digits[i]
           value(i, x) == IF i = 0 THEN 0 ELSE next(i, x)
           step == [i \in 1..Len(digits) |-> [x \in Nat |-> next(i, x)]]
           isIt(f) == f = [i \in 0..Len(digits) |-> value(i, f[i - 1])]
<1>1. /\ \A i \in 1..Len(digits) : \A x \in Nat : next(i, x) \in Nat
      /\ Len(digits) \in Nat /\ 0 \in Nat
  <2>1. Len(digits) \in Nat /\ \A i \in 1..Len(digits) : digits[i] \in Nat
    OBVIOUS
  <2> SUFFICES ASSUME NEW i \in 1..Len(digits), NEW x \in Nat PROVE x * base + digits[i] \in Nat
    BY <2>1
  <2> QED
    BY <2>1
<1>2. \A i \in 1..Len(digits) : \A x \in Nat : step[i][x] = next(i, x)
  OBVIOUS
<1> HIDE DEF next
<1>3. step \in [1..Len(digits) -> [Nat -> Nat]]
  BY <1>1
<1> HIDE DEF step
<1>4. PICK f : MadeBy(f, Len(digits), Nat, 0, step)
  BY <1>1, <1>3, Recursion, Zenon
<1>5. isIt(f)
  <2>1. /\ f \in [0..Len(digits) -> Nat] /\ f[0] = 0
        /\ \A i \in 1..Len(digits) : f[i] = step[i][f[i - 1]]
    BY <1>4 DEF MadeBy
  <2>2. \A i \in 1..Len(digits) : f[i] = next(i, f[i - 1])
    <3>1. \A i \in 1..Len(digits) : f[i - 1] \in Nat
      <4>1. \A i \in 1..Len(digits) : i - 1 \in 0..Len(digits)
        BY <1>1
      <4> QED
        BY <2>1, <4>1
    <3> QED
      BY <1>2, <2>1, <3>1, Zenon
  <2>3. \A i \in 0..Len(digits) : f[i] = value(i, f[i - 1])
    BY <2>1, <2>2
  <2> QED
    BY <2>1, <2>3
<1>6. PICK g : NumberOf(digits, base) = g[Len(digits)] /\ isIt(g)
  BY <1>5 DEF NumberOf, next
<1>7. g = [i \in 0..Len(digits) |-> g[i]] /\ \A i \in 0..Len(digits) : g[i] = value(i, g[i - 1])
  <2> HIDE DEF value
  <2> QED
    BY <1>6
<1>8. g[0] = 0 /\ \A i \in 1..Len(digits) : g[i] = next(i, g[i - 1])
  <2>1. 0 \in 0..Len(digits) /\ \A i \in 1..Len(digits) : i \in 0..Len(digits) /\ i # 0
    BY <1>1
  <2> QED
    BY <1>7, <2>1, Zenon
<1>9. \A i \in 1..Len(digits) : g[i - 1] \in Nat => g[i] = step[i][g[i - 1]]
  BY <1>2, <1>8, Zenon
<1>10. MadeBy(g, Len(digits), Nat, 0, step)
  BY <1>1, <1>3, <1>7, <1>8, <1>9, Made, Zenon
<1>11. g \in [0..Len(digits) -> Nat]
  BY <1>10 DEF MadeBy
<1>12. QED
  BY <1>6, <1>8, <1>11, Zenon DEF next, AreNumbers

\* The powers of the base.
ArePowers(f, width) ==
    /\ Power(width) = f[width]
    /\ f \in [0..width -> Nat] /\ f[0] = 1
    /\ \A i \in 1..width : f[i] = Base * f[i - 1]

\* Power is such a function.
LEMMA PowerFunction ==
    ASSUME NEW width \in Nat, Base \in Nat
    PROVE  \E f : ArePowers(f, width)
<1> DEFINE next(i, x) == Base * x
           value(i, x) == IF i = 0 THEN 1 ELSE next(i, x)
           step == [i \in 1..width |-> [x \in Nat |-> next(i, x)]]
           isIt(f) == f = [i \in 0..width |-> value(i, f[i - 1])]
<1>1. /\ \A i \in 1..width : \A x \in Nat : next(i, x) \in Nat
      /\ width \in Nat /\ 1 \in Nat
  OBVIOUS
<1>2. \A i \in 1..width : \A x \in Nat : step[i][x] = next(i, x)
  OBVIOUS
<1> HIDE DEF next
<1>3. step \in [1..width -> [Nat -> Nat]]
  BY <1>1
<1> HIDE DEF step
<1>4. PICK f : MadeBy(f, width, Nat, 1, step)
  BY <1>1, <1>3, Recursion, Zenon
<1>5. isIt(f)
  <2>1. /\ f \in [0..width -> Nat] /\ f[0] = 1
        /\ \A i \in 1..width : f[i] = step[i][f[i - 1]]
    BY <1>4 DEF MadeBy
  <2>2. \A i \in 1..width : f[i] = next(i, f[i - 1])
    <3>1. \A i \in 1..width : f[i - 1] \in Nat
      <4>1. \A i \in 1..width : i - 1 \in 0..width
        BY <1>1
      <4> QED
        BY <2>1, <4>1
    <3> QED
      BY <1>2, <2>1, <3>1, Zenon
  <2>3. \A i \in 0..width : f[i] = value(i, f[i - 1])
    BY <2>1, <2>2
  <2> QED
    BY <2>1, <2>3
<1>6. PICK g : Power(width) = g[width] /\ isIt(g)
  BY <1>5 DEF Power, next
<1>7. g = [i \in 0..width |-> g[i]] /\ \A i \in 0..width : g[i] = value(i, g[i - 1])
  <2> HIDE DEF value
  <2> QED
    BY <1>6
<1>8. g[0] = 1 /\ \A i \in 1..width : g[i] = next(i, g[i - 1])
  <2>1. 0 \in 0..width /\ \A i \in 1..width : i \in 0..width /\ i # 0
    BY <1>1
  <2> QED
    BY <1>7, <2>1, Zenon
<1>9. \A i \in 1..width : g[i - 1] \in Nat => g[i] = step[i][g[i - 1]]
  BY <1>2, <1>8, Zenon
<1>10. MadeBy(g, width, Nat, 1, step)
  BY <1>1, <1>3, <1>7, <1>8, <1>9, Made, Zenon
<1>11. g \in [0..width -> Nat]
  BY <1>10 DEF MadeBy
<1>12. QED
  BY <1>6, <1>8, <1>11, Zenon DEF next, ArePowers

\* The units of the first characters.
AreUnits(f, code, text) ==
    /\ Encoded(code, text) = f[Len(text)]
    /\ f \in [0..Len(text) -> Seq(Nat)] /\ f[0] = << >>
    /\ \A i \in 1..Len(text) : f[i] = f[i - 1] \o code[text[i]]

\* Encoded is such a function.
LEMMA EncodedFunction ==
    ASSUME NEW code, NEW text \in Seq(Characters), \A c \in Characters : code[c] \in Seq(Nat)
    PROVE  \E f : AreUnits(f, code, text)
<1> DEFINE next(i, x) == x \o code[text[i]]
           value(i, x) == IF i = 0 THEN << >> ELSE next(i, x)
           step == [i \in 1..Len(text) |-> [x \in Seq(Nat) |-> next(i, x)]]
           isIt(f) == f = [i \in 0..Len(text) |-> value(i, f[i - 1])]
<1>1. /\ \A i \in 1..Len(text) : \A x \in Seq(Nat) : next(i, x) \in Seq(Nat)
      /\ Len(text) \in Nat /\ << >> \in Seq(Nat)
  <2>1. Len(text) \in Nat /\ \A i \in 1..Len(text) : code[text[i]] \in Seq(Nat)
    OBVIOUS
  <2>2. ASSUME NEW i \in 1..Len(text), NEW x \in Seq(Nat) PROVE x \o code[text[i]] \in Seq(Nat)
    BY <2>1
  <2> QED
    BY <2>1, <2>2
<1>2. \A i \in 1..Len(text) : \A x \in Seq(Nat) : step[i][x] = next(i, x)
  OBVIOUS
<1> HIDE DEF next
<1>3. step \in [1..Len(text) -> [Seq(Nat) -> Seq(Nat)]]
  BY <1>1
<1> HIDE DEF step
<1>4. PICK f : MadeBy(f, Len(text), Seq(Nat), << >>, step)
  BY <1>1, <1>3, Recursion, Zenon
<1>5. isIt(f)
  <2>1. /\ f \in [0..Len(text) -> Seq(Nat)] /\ f[0] = << >>
        /\ \A i \in 1..Len(text) : f[i] = step[i][f[i - 1]]
    BY <1>4 DEF MadeBy
  <2>2. \A i \in 1..Len(text) : f[i] = next(i, f[i - 1])
    <3>1. \A i \in 1..Len(text) : f[i - 1] \in Seq(Nat)
      <4>1. \A i \in 1..Len(text) : i - 1 \in 0..Len(text)
        BY <1>1
      <4> QED
        BY <2>1, <4>1
    <3> QED
      BY <1>2, <2>1, <3>1, Zenon
  <2>3. \A i \in 0..Len(text) : f[i] = value(i, f[i - 1])
    BY <2>1, <2>2
  <2> QED
    BY <2>1, <2>3
<1>6. PICK g : Encoded(code, text) = g[Len(text)] /\ isIt(g)
  BY <1>5 DEF Encoded, next
<1>7. g = [i \in 0..Len(text) |-> g[i]] /\ \A i \in 0..Len(text) : g[i] = value(i, g[i - 1])
  <2> HIDE DEF value
  <2> QED
    BY <1>6
<1>8. g[0] = << >> /\ \A i \in 1..Len(text) : g[i] = next(i, g[i - 1])
  <2>1. 0 \in 0..Len(text) /\ \A i \in 1..Len(text) : i \in 0..Len(text) /\ i # 0
    BY <1>1
  <2> QED
    BY <1>7, <2>1, Zenon
<1>9. \A i \in 1..Len(text) : g[i - 1] \in Seq(Nat) => g[i] = step[i][g[i - 1]]
  BY <1>2, <1>8, Zenon
<1>10. MadeBy(g, Len(text), Seq(Nat), << >>, step)
  BY <1>1, <1>3, <1>7, <1>8, <1>9, Made, Zenon
<1>11. g \in [0..Len(text) -> Seq(Nat)]
  BY <1>10 DEF MadeBy
<1>12. QED
  BY <1>6, <1>8, <1>11, Zenon DEF next, AreUnits

\* The bytes of the first fields.
AreFieldBytes(f, kinds, values) ==
    /\ WriteFields(kinds, values) = f[Len(kinds)]
    /\ f \in [0..Len(kinds) -> Seq(Nat)] /\ f[0] = << >>
    /\ \A i \in 1..Len(kinds) : f[i] = f[i - 1] \o WriteField(kinds[i], values[i])

\* WriteFields is such a function.
LEMMA FieldsFunction ==
    ASSUME NEW kinds, Len(kinds) \in Nat, NEW values,
           \A i \in 1..Len(kinds) : WriteField(kinds[i], values[i]) \in Seq(Nat)
    PROVE  \E f : AreFieldBytes(f, kinds, values)
<1> DEFINE next(i, x) == x \o WriteField(kinds[i], values[i])
           value(i, x) == IF i = 0 THEN << >> ELSE next(i, x)
           step == [i \in 1..Len(kinds) |-> [x \in Seq(Nat) |-> next(i, x)]]
           isIt(f) == f = [i \in 0..Len(kinds) |-> value(i, f[i - 1])]
<1>1. /\ \A i \in 1..Len(kinds) : \A x \in Seq(Nat) : next(i, x) \in Seq(Nat)
      /\ Len(kinds) \in Nat /\ << >> \in Seq(Nat)
  <2> DEFINE w(i) == WriteField(kinds[i], values[i])
  <2>1. \A i \in 1..Len(kinds) : w(i) \in Seq(Nat)
    OBVIOUS
  <2> HIDE DEF w
  <2>2. ASSUME NEW i \in 1..Len(kinds), NEW x \in Seq(Nat) PROVE x \o w(i) \in Seq(Nat)
    BY <2>1
  <2> QED
    BY <2>2 DEF w
<1>2. \A i \in 1..Len(kinds) : \A x \in Seq(Nat) : step[i][x] = next(i, x)
  OBVIOUS
<1> HIDE DEF next
<1>3. step \in [1..Len(kinds) -> [Seq(Nat) -> Seq(Nat)]]
  BY <1>1
<1> HIDE DEF step
<1>4. PICK f : MadeBy(f, Len(kinds), Seq(Nat), << >>, step)
  BY <1>1, <1>3, Recursion, Zenon
<1>5. isIt(f)
  <2>1. /\ f \in [0..Len(kinds) -> Seq(Nat)] /\ f[0] = << >>
        /\ \A i \in 1..Len(kinds) : f[i] = step[i][f[i - 1]]
    BY <1>4 DEF MadeBy
  <2>2. \A i \in 1..Len(kinds) : f[i] = next(i, f[i - 1])
    <3>1. \A i \in 1..Len(kinds) : f[i - 1] \in Seq(Nat)
      <4>1. \A i \in 1..Len(kinds) : i - 1 \in 0..Len(kinds)
        BY <1>1
      <4> QED
        BY <2>1, <4>1
    <3> QED
      BY <1>2, <2>1, <3>1, Zenon
  <2>3. \A i \in 0..Len(kinds) : f[i] = value(i, f[i - 1])
    BY <2>1, <2>2
  <2> QED
    BY <2>1, <2>3
<1>6. PICK g : WriteFields(kinds, values) = g[Len(kinds)] /\ isIt(g)
  BY <1>5 DEF WriteFields, next
<1>7. g = [i \in 0..Len(kinds) |-> g[i]] /\ \A i \in 0..Len(kinds) : g[i] = value(i, g[i - 1])
  <2> HIDE DEF value
  <2> QED
    BY <1>6
<1>8. g[0] = << >> /\ \A i \in 1..Len(kinds) : g[i] = next(i, g[i - 1])
  <2>1. 0 \in 0..Len(kinds) /\ \A i \in 1..Len(kinds) : i \in 0..Len(kinds) /\ i # 0
    BY <1>1
  <2> QED
    BY <1>7, <2>1, Zenon
<1>9. \A i \in 1..Len(kinds) : g[i - 1] \in Seq(Nat) => g[i] = step[i][g[i - 1]]
  BY <1>2, <1>8, Zenon
<1>10. MadeBy(g, Len(kinds), Seq(Nat), << >>, step)
  BY <1>1, <1>3, <1>7, <1>8, <1>9, Made, Zenon
<1>11. g \in [0..Len(kinds) -> Seq(Nat)]
  BY <1>10 DEF MadeBy
<1>12. QED
  BY <1>6, <1>8, <1>11, Zenon DEF next, AreFieldBytes

\* Digits that stand for a number.
AreDigitsOf(d, n, base) ==
    d \in Seq(0..(base - 1)) /\ d \in Seq(Nat) /\ NumberOf(d, base) = n

\* The remainders of repeated division are the digits of a number.
Remainders(q, k, base) == [i \in 1..k |-> q[k - i] % base]

\* The number is put together again from the remainders.
LEMMA Assembled ==
    ASSUME NEW n \in Nat, NEW base \in Nat, base > 0, NEW m \in Nat, NEW k \in 0..m,
           NEW q, AreQuotients(q, n, base, m), q[k] = 0
    PROVE  /\ AreDigitsOf(Remainders(q, k, base), n, base)
           /\ Len(Remainders(q, k, base)) = k
<1> DEFINE d == Remainders(q, k, base)
<1>0. q \in [0..m -> Nat] /\ q[0] = n /\ \A i \in 1..m : q[i] = q[i - 1] \div base
  BY DEF AreQuotients
<1>1. \A i \in 1..k : d[i] = q[k - i] % base /\ d[i] \in 0..(base - 1) /\ d[i] \in Nat
  <2> SUFFICES ASSUME NEW i \in 1..k
               PROVE d[i] = q[k - i] % base /\ d[i] \in 0..(base - 1) /\ d[i] \in Nat
    OBVIOUS
  <2>1. k - i \in 0..m
    OBVIOUS
  <2>2. q[k - i] \in Nat
    BY <1>0, <2>1
  <2>3. q[k - i] % base \in 0..(base - 1)
    BY <2>2, Division
  <2>4. d[i] = q[k - i] % base
    BY DEF Remainders
  <2>5. \A x \in 0..(base - 1) : x \in Nat
    OBVIOUS
  <2> QED
    BY <2>3, <2>4, <2>5, Zenon
<1>2. d = [i \in 1..k |-> d[i]] /\ k \in Nat
  BY DEF Remainders
<1> HIDE DEF d
<1>3. d \in Seq(0..(base - 1)) /\ d \in Seq(Nat) /\ Len(d) = k
  <2>1. /\ [i \in 1..k |-> d[i]] \in [1..k -> 0..(base - 1)]
        /\ [i \in 1..k |-> d[i]] \in [1..k -> Nat]
    BY <1>1
  <2>2. d \in [1..k -> 0..(base - 1)] /\ d \in [1..k -> Nat]
    BY <1>2, <2>1, Zenon
  <2> QED
    BY <1>2, <2>2
<1>4. PICK v : /\ NumberOf(d, base) = v[Len(d)] /\ v \in [0..Len(d) -> Nat] /\ v[0] = 0
               /\ \A i \in 1..Len(d) : v[i] = v[i - 1] * base + d[i]
  <2>1. \E v : AreNumbers(v, d, base)
    BY <1>3, NumberFunction, Zenon
  <2> QED
    BY <2>1, Zenon DEF AreNumbers
<1> DEFINE S == {i \in Nat : i <= k => v[i] = q[k - i]}
<1>5. 0 \in S
  BY <1>2, <1>4
<1>6. ASSUME NEW i \in Nat, i \in S PROVE i + 1 \in S
  <2> SUFFICES ASSUME i + 1 <= k PROVE v[i + 1] = q[k - (i + 1)]
    OBVIOUS
  <2> DEFINE e == q[k - (i + 1)]
  <2>1. /\ i + 1 \in 1..k /\ (i + 1) - 1 = i /\ k - (i + 1) \in 0..m
        /\ k - i \in 1..m /\ (k - i) - 1 = k - (i + 1)
    OBVIOUS
  <2>2. e \in Nat /\ q[k - i] = e \div base
    BY <1>0, <2>1
  <2>3. v[i] = q[k - i]
    BY <1>6
  <2>4. d[i + 1] = e % base
    BY <1>1, <2>1
  <2>5. v[i + 1] = v[i] * base + d[i + 1]
    BY <1>3, <1>4, <2>1
  <2> HIDE DEF e
  <2>6. e = (e \div base) * base + (e % base)
    BY <2>2, Division
  <2> QED
    BY <2>2, <2>3, <2>4, <2>5, <2>6, Zenon DEF e
<1>7. k \in S
  <2> HIDE DEF S
  <2> QED
    BY <1>2, <1>5, <1>6, NumberInduction
<1>8. v[k] = n
  BY <1>0, <1>2, <1>7
<1>9. NumberOf(d, base) = n
  BY <1>3, <1>4, <1>8, Zenon
<1>10. QED
  BY <1>3, <1>9, Zenon DEF d, AreDigitsOf

\* A number is 0 after as many divisions as it has digits, and not before.
AreDigits(k, q, n, base) ==
    /\ AreQuotients(q, n, base, n)
    /\ k \in 0..n /\ q[k] = 0 /\ \A j \in 0..(k - 1) : q[j] # 0
    /\ Digits(n, base) = Remainders(q, k, base)

\* Digits are the remainders until nothing is left.
LEMMA DigitsMade ==
    ASSUME NEW n \in Nat, NEW base \in Nat, base > 1
    PROVE  \E k, q : AreDigits(k, q, n, base)
<1> DEFINE q == Quotients(n, base, n)
           done(k) == q[k] = 0 /\ \A j \in 0..(k - 1) : q[j] # 0
           k == CHOOSE k \in 0..n : done(k)
<1>1. base > 0 /\ n \in Nat
  OBVIOUS
<1>2. AreQuotients(q, n, base, n)
  <2>1. \E f : AreQuotients(f, n, base, n)
    BY <1>1, QuotientFacts, Zenon
  <2> QED
    BY <2>1, Zenon DEF AreQuotients
<1>3. Digits(n, base) = Remainders(q, k, base)
  BY DEF Digits, Remainders
<1> HIDE DEF q
<1>4. q[n] = 0
  <2>0. /\ q \in [0..n -> Nat] /\ q[0] = n
        /\ \A i \in 1..n : q[i] = q[i - 1] \div base
    BY <1>2, Zenon DEF AreQuotients
  <2> DEFINE S == {i \in Nat : i <= n => q[i] <= n - i}
  <2>1. 0 \in S
    BY <2>0
  <2>2. ASSUME NEW i \in Nat, i \in S PROVE i + 1 \in S
    <3> SUFFICES ASSUME i + 1 <= n PROVE q[i + 1] <= n - (i + 1)
      OBVIOUS
    <3> DEFINE x == q[i]
               y == q[i + 1]
    <3>1. i + 1 \in 1..n /\ i \in 0..n /\ (i + 1) - 1 = i
      OBVIOUS
    <3>2. x \in Nat /\ y = x \div base /\ y \in Nat
      BY <2>0, <3>1
    <3>3. x <= n - i
      BY <2>2
    <3> HIDE DEF x, y
    <3>4. x > 0 => y < x
      BY <3>2, Division
    <3>5. x = 0 => y = 0
      <4>1. 0 \div base = 0
        <5>1. 0 \in 0..(base - 1) /\ 0 * base + 0 = 0 /\ base \in Nat /\ 0 \in Nat
          OBVIOUS
        <5> QED
          BY <5>1, Undivided
      <4> QED
        BY <3>2, <4>1
    <3>6. y <= n - (i + 1)
      BY <3>2, <3>3, <3>4, <3>5
    <3> QED
      BY <3>6 DEF y
  <2>3. n \in S
    <3> HIDE DEF S
    <3> QED
      BY <2>1, <2>2, NumberInduction
  <2>4. q[n] \in Nat
    BY <2>0
  <2> QED
    BY <2>3, <2>4
<1>5. \E l \in 0..n : done(l)
  <2> DEFINE zero == {i \in 0..n : q[i] = 0}
  <2>1. zero \subseteq Nat /\ zero # {}
    BY <1>4
  <2>2. PICK l \in zero : \A i \in zero : l <= i
    <3> HIDE DEF zero
    <3> QED
      BY <2>1, LeastNumber
  <2>3. done(l)
    BY <2>2
  <2> QED
    BY <2>3
<1>6. k \in 0..n /\ done(k)
  <2> HIDE DEF done
  <2> QED
    BY <1>5
<1> HIDE DEF k
<1>7. AreDigits(k, q, n, base)
  BY <1>2, <1>3, <1>6, Zenon DEF AreDigits
<1>8. QED
  BY <1>7, Zenon

\* The digits of a number stand for it, and have no zero in front.
LEMMA DigitsFacts ==
    ASSUME NEW n \in Nat, NEW base \in Nat, base > 1
    PROVE  /\ AreDigitsOf(Digits(n, base), n, base)
           /\ Digits(n, base) # << >> => Digits(n, base)[1] # 0
<1>1. PICK k, q : AreDigits(k, q, n, base)
  BY DigitsMade, Zenon
<1>2. /\ AreQuotients(q, n, base, n) /\ k \in 0..n /\ q[k] = 0 /\ \A j \in 0..(k - 1) : q[j] # 0
      /\ Digits(n, base) = Remainders(q, k, base)
  BY <1>1, Zenon DEF AreDigits
<1>3. base > 0 /\ n \in Nat /\ base \in Nat
  OBVIOUS
<1> DEFINE d == Remainders(q, k, base)
<1>4. AreDigitsOf(d, n, base) /\ Len(d) = k
  BY <1>2, <1>3, Assembled
<1>5. ASSUME k > 0 PROVE d[1] # 0
  <2> DEFINE x == q[k - 1]
  <2>2. k - 1 \in 0..n /\ k \in 1..n /\ k - 1 \in 0..(k - 1) /\ 1 \in 1..k
    BY <1>2, <1>5
  <2>3. d[1] = x % base
    BY <2>2 DEF Remainders
  <2>4. x \in Nat /\ x # 0 /\ x \div base = 0
    BY <1>2, <2>2 DEF AreQuotients
  <2> HIDE DEF x, d
  <2>5. x % base = x
    BY <1>3, <2>4, Division
  <2> QED
    BY <2>3, <2>4, <2>5
<1>6. d # << >> => k > 0
  <2>1. d \in Seq(Nat) /\ Len(d) = k
    BY <1>4, Zenon DEF AreDigitsOf
  <2> HIDE DEF d
  <2> QED
    BY <1>2, <2>1
<1> HIDE DEF d
<1>7. QED
  BY <1>2, <1>4, <1>5, <1>6, Zenon DEF d

\* Digits without a zero in front are the digits of the number they stand for.
LEMMA DigitsOfNumber ==
    ASSUME NEW base \in Nat, base > 1, NEW d \in Seq(0..(base - 1)), d # << >> => d[1] # 0
    PROVE  NumberOf(d, base) \in Nat /\ Digits(NumberOf(d, base), base) = d
<1> DEFINE n == NumberOf(d, base)
           L == Len(d)
<1>1. d \in Seq(Nat) /\ L \in Nat /\ \A i \in 1..L : d[i] \in 0..(base - 1)
  OBVIOUS
<1>2. PICK v : AreNumbers(v, d, base)
  BY <1>1, NumberFunction, Zenon
<1>3. /\ n = v[L] /\ v \in [0..L -> Nat] /\ v[0] = 0
      /\ \A i \in 1..L : v[i] = v[i - 1] * base + d[i]
  BY <1>2, Zenon DEF AreNumbers
<1> HIDE DEF n, L
<1>4. n \in Nat
  BY <1>1, <1>3
<1>5. PICK k, q : AreDigits(k, q, n, base)
  BY <1>4, DigitsMade, Zenon
<1>6. /\ k \in 0..n /\ q[k] = 0 /\ \A j \in 0..(k - 1) : q[j] # 0
      /\ Digits(n, base) = Remainders(q, k, base)
      /\ q \in [0..n -> Nat] /\ q[0] = n /\ \A i \in 1..n : q[i] = q[i - 1] \div base
  BY <1>5, Zenon DEF AreDigits, AreQuotients
\* Each digit makes the number larger, so that there are no more than n of them.
<1>7. \A i \in 1..L : v[i] >= i
  <2> DEFINE S == {i \in Nat : i \in 1..L => v[i] >= i}
  <2>1. 0 \in S
    OBVIOUS
  <2>2. ASSUME NEW i \in Nat, i \in S PROVE i + 1 \in S
    <3> SUFFICES ASSUME i + 1 \in 1..L PROVE v[i + 1] >= i + 1
      OBVIOUS
    <3>1. v[i + 1] = v[i] * base + d[i + 1] /\ v[i] \in Nat /\ d[i + 1] \in Nat
      <4>1. (i + 1) - 1 = i /\ i \in 0..L
        BY <1>1
      <4> QED
        BY <1>1, <1>3, <4>1
    <3>2. CASE i = 0
      <4>1. d[1] # 0 /\ v[i] = 0
        BY <1>1, <1>3, <3>2 DEF L
      <4>2. v[i + 1] = d[1]
        BY <3>1, <3>2, <4>1
      <4> QED
        BY <1>1, <3>1, <3>2, <4>1, <4>2
    <3>3. CASE i > 0
      <4>1. v[i] >= i
        BY <1>1, <2>2, <3>3
      <4> DEFINE x == v[i]
      <4>2. x \in Nat
        BY <3>1
      <4>3. x * base >= x * 2
        <5> HIDE DEF x
        <5> QED
          BY <4>2
      <4> QED
        BY <3>1, <3>3, <4>1, <4>3
    <3> QED
      BY <3>2, <3>3
  <2>3. Nat \subseteq S
    <3> HIDE DEF S
    <3> QED
      BY <2>1, <2>2, NumberInduction
  <2> QED
    BY <2>3
<1>8. L <= n
  <2>1. CASE L = 0
    BY <1>4, <2>1
  <2>2. CASE L > 0
    BY <1>1, <1>3, <1>7, <2>2
  <2> QED
    BY <1>1, <2>1, <2>2
<1>9. ASSUME NEW i \in 1..L PROVE v[i - 1] = v[i] \div base /\ d[i] = v[i] % base
  <2>1. v[i] = v[i - 1] * base + d[i] /\ v[i - 1] \in Nat /\ d[i] \in 0..(base - 1)
    <3>1. i - 1 \in 0..L
      BY <1>1
    <3> QED
      BY <1>1, <1>3, <3>1
  <2>2. \A x \in Nat : \A e \in 0..(base - 1) :
            (x * base + e) \div base = x /\ (x * base + e) % base = e
    <3> SUFFICES ASSUME NEW x \in Nat, NEW e \in 0..(base - 1)
                 PROVE  (x * base + e) \div base = x /\ (x * base + e) % base = e
      OBVIOUS
    <3>1. base \in Nat
      OBVIOUS
    <3> QED
      BY <3>1, Undivided, Zenon
  <2>3. /\ (v[i - 1] * base + d[i]) \div base = v[i - 1]
        /\ (v[i - 1] * base + d[i]) % base = d[i]
    BY <2>1, <2>2, Zenon
  <2> QED
    BY <2>1, <2>3, Zenon
<1>10. \A j \in 0..L : q[j] = v[L - j]
  <2> DEFINE S == {j \in Nat : j <= L => q[j] = v[L - j]}
  <2>1. 0 \in S
    BY <1>1, <1>3, <1>6
  <2>2. ASSUME NEW j \in Nat, j \in S PROVE j + 1 \in S
    <3> SUFFICES ASSUME j + 1 <= L PROVE q[j + 1] = v[L - (j + 1)]
      OBVIOUS
    <3>1. /\ j + 1 \in 1..n /\ (j + 1) - 1 = j /\ L - j \in 1..L
          /\ (L - j) - 1 = L - (j + 1) /\ q[j] = v[L - j]
      BY <1>1, <1>4, <1>8, <2>2
    <3>2. q[j + 1] = q[j] \div base
      BY <1>6, <3>1
    <3>3. v[(L - j) - 1] = v[L - j] \div base
      BY <1>9, <3>1, Zenon
    <3> QED
      BY <3>1, <3>2, <3>3, Zenon
  <2>3. Nat \subseteq S
    <3> HIDE DEF S
    <3> QED
      BY <2>1, <2>2, NumberInduction
  <2> QED
    BY <1>1, <2>3
<1>11. k = L
  <2>1. q[L] = 0
    BY <1>1, <1>3, <1>10
  <2>2. ~(L < k)
    BY <1>1, <1>6, <2>1
  <2>3. ASSUME k < L PROVE FALSE
    <3>1. q[k] = v[L - k] /\ L - k \in 1..L
      BY <1>1, <1>6, <1>10, <2>3
    <3>2. v[L - k] >= L - k
      BY <1>7, <3>1
    <3> QED
      BY <1>1, <1>6, <3>1, <3>2
  <2> QED
    BY <1>1, <1>6, <2>2, <2>3
<1>12. \A i \in 1..L : Remainders(q, L, base)[i] = d[i]
  <2> SUFFICES ASSUME NEW i \in 1..L PROVE Remainders(q, L, base)[i] = d[i]
    OBVIOUS
  <2>1. Remainders(q, L, base)[i] = q[L - i] % base
    BY DEF Remainders
  <2>2. L - i \in 0..L /\ L - (L - i) = i
    BY <1>1
  <2>3. q[L - i] = v[i]
    BY <1>10, <2>2
  <2> QED
    BY <1>9, <2>1, <2>3, Zenon
<1>13. Remainders(q, L, base) = d
  <2>1. d = [i \in 1..L |-> d[i]]
    BY DEF L
  <2>2. Remainders(q, L, base) = [i \in 1..L |-> Remainders(q, L, base)[i]]
    BY DEF Remainders
  <2> QED
    BY <1>12, <2>1, <2>2, Zenon
<1>14. QED
  BY <1>4, <1>6, <1>11, <1>13, Zenon DEF n

-----------------------------------------------------------------------------
(* Changing the base, and back.                                              *)

\* How many elements in front are e.
IsLeading(n, seq, e) ==
    /\ n \in 0..Len(seq) /\ \A i \in 1..n : seq[i] = e
    /\ n < Len(seq) => seq[n + 1] # e

\* There is one number of leading elements.
LEMMA LeadingFacts ==
    ASSUME NEW seq, Len(seq) \in Nat, NEW e
    PROVE  /\ IsLeading(Leading(seq, e), seq, e)
           /\ \A n : IsLeading(n, seq, e) => Leading(seq, e) = n
<1> DEFINE stop == {n \in 0..Len(seq) : n < Len(seq) => seq[n + 1] # e}
<1>1. PICK l \in stop : \A n \in stop : l <= n
  <2>1. stop \subseteq Nat /\ Len(seq) \in stop
    OBVIOUS
  <2> HIDE DEF stop
  <2> QED
    BY <2>1, LeastNumber
<1>2. IsLeading(l, seq, e)
  <2> SUFFICES ASSUME NEW i \in 1..l PROVE seq[i] = e
    BY <1>1 DEF IsLeading
  <2>1. i - 1 \notin stop
    <3>1. l \in Nat
      BY <1>1
    <3> HIDE DEF stop
    <3>2. i - 1 \in stop => l <= i - 1
      BY <1>1, Zenon
    <3> QED
      BY <3>1, <3>2
  <2>2. i - 1 \in 0..Len(seq) /\ (i - 1) + 1 = i
    BY <1>1
  <2> QED
    BY <2>1, <2>2
<1>3. Leading(seq, e) = CHOOSE n \in 0..Len(seq) : IsLeading(n, seq, e)
  BY Zenon DEF Leading, IsLeading
<1>4. l \in 0..Len(seq)
  BY <1>1
<1>5. IsLeading(Leading(seq, e), seq, e)
  BY <1>2, <1>3, <1>4, Zenon
<1>6. ASSUME NEW m, NEW n, IsLeading(m, seq, e), IsLeading(n, seq, e) PROVE ~(m < n)
  <2> SUFFICES ASSUME m < n PROVE FALSE
    OBVIOUS
  <2>1. m + 1 \in 1..n /\ m < Len(seq)
    BY <1>6 DEF IsLeading
  <2> QED
    BY <1>6, <2>1 DEF IsLeading
<1>7. ASSUME NEW n, IsLeading(n, seq, e) PROVE Leading(seq, e) = n
  <2> DEFINE m == Leading(seq, e)
  <2>1. m \in Int /\ n \in Int
    BY <1>5, <1>7 DEF IsLeading
  <2>2. ~(m < n) /\ ~(n < m)
    BY <1>5, <1>6, <1>7, Zenon
  <2> HIDE DEF m
  <2>3. m = n
    BY <2>1, <2>2
  <2> QED
    BY <2>3 DEF m
<1>8. QED
  BY <1>5, <1>7, Zenon

\* Zeros in front add nothing to a number.
LEMMA ZerosAddNothing ==
    ASSUME NEW base \in Nat, NEW z \in Nat, NEW d \in Seq(Nat)
    PROVE  NumberOf(Zeros(z) \o d, base) = NumberOf(d, base)
<1> DEFINE all == Zeros(z) \o d
           L == Len(d)
<1>1. /\ all \in Seq(Nat) /\ Len(all) = z + L /\ L \in Nat
      /\ \A i \in 1..z : all[i] = 0
      /\ \A i \in 1..L : all[z + i] = d[i] /\ d[i] \in Nat
  <2>1. Zeros(z) \in Seq(Nat) /\ Len(Zeros(z)) = z /\ \A i \in 1..z : Zeros(z)[i] = 0
    BY DEF Zeros
  <2> QED
    BY <2>1
<1> HIDE DEF all, L
<1>2. PICK v : AreNumbers(v, all, base)
  BY <1>1, NumberFunction, Zenon
<1>3. PICK u : AreNumbers(u, d, base)
  BY <1>1, NumberFunction, Zenon
<1>4. /\ NumberOf(all, base) = v[z + L] /\ v \in [0..(z + L) -> Nat] /\ v[0] = 0
      /\ \A i \in 1..(z + L) : v[i] = v[i - 1] * base + all[i]
  BY <1>1, <1>2, Zenon DEF AreNumbers
<1>5. /\ NumberOf(d, base) = u[L] /\ u \in [0..L -> Nat] /\ u[0] = 0
      /\ \A i \in 1..L : u[i] = u[i - 1] * base + d[i]
  BY <1>3, Zenon DEF AreNumbers, L
<1>6. v[z] = 0
  <2> DEFINE S == {i \in Nat : i <= z => v[i] = 0}
  <2>1. 0 \in S
    BY <1>4
  <2>2. ASSUME NEW i \in Nat, i \in S PROVE i + 1 \in S
    <3> SUFFICES ASSUME i + 1 <= z PROVE v[i + 1] = 0
      OBVIOUS
    <3>1. i + 1 \in 1..(z + L) /\ (i + 1) - 1 = i /\ v[i] = 0 /\ i + 1 \in 1..z
      BY <1>1, <2>2
    <3>2. v[i + 1] = v[i] * base + all[i + 1]
      BY <1>4, <3>1
    <3>3. all[i + 1] = 0
      BY <1>1, <3>1
    <3> QED
      BY <3>1, <3>2, <3>3
  <2>3. z \in S
    <3> HIDE DEF S
    <3> QED
      BY <2>1, <2>2, NumberInduction
  <2> QED
    BY <2>3
<1>7. v[z + L] = u[L]
  <2> DEFINE S == {i \in Nat : i <= L => v[z + i] = u[i]}
  <2>1. 0 \in S
    BY <1>5, <1>6
  <2>2. ASSUME NEW i \in Nat, i \in S PROVE i + 1 \in S
    <3> SUFFICES ASSUME i + 1 <= L PROVE v[z + (i + 1)] = u[i + 1]
      OBVIOUS
    <3>1. /\ z + (i + 1) \in 1..(z + L) /\ (z + (i + 1)) - 1 = z + i /\ v[z + i] = u[i]
          /\ i + 1 \in 1..L /\ (i + 1) - 1 = i
      BY <1>1, <2>2
    <3>2. v[z + (i + 1)] = v[z + i] * base + all[z + (i + 1)]
      BY <1>4, <3>1
    <3>3. u[i + 1] = u[i] * base + d[i + 1]
      BY <1>5, <3>1
    <3>4. all[z + (i + 1)] = d[i + 1]
      BY <1>1, <3>1
    <3> QED
      BY <3>1, <3>2, <3>3, <3>4, Zenon
  <2>3. L \in S
    <3> HIDE DEF S
    <3> QED
      BY <1>1, <2>1, <2>2, NumberInduction
  <2> QED
    BY <2>3
<1>8. QED
  BY <1>4, <1>5, <1>7, Zenon DEF all

\* Zeros, and then digits without a zero in front.
LEMMA ZerosThenDigits ==
    ASSUME NEW base \in Nat, base > 1, NEW z \in Nat, NEW d \in Seq(0..(base - 1)),
           d # << >> => d[1] # 0
    PROVE  /\ Zeros(z) \o d \in Seq(0..(base - 1)) /\ Len(Zeros(z) \o d) = z + Len(d)
           /\ Leading(Zeros(z) \o d, 0) = z
<1> DEFINE all == Zeros(z) \o d
<1>1. /\ all \in Seq(0..(base - 1)) /\ Len(all) = z + Len(d) /\ Len(d) \in Nat
      /\ \A i \in 1..z : all[i] = 0
      /\ \A i \in 1..Len(d) : all[z + i] = d[i]
  <2>1. /\ Zeros(z) \in Seq(0..(base - 1)) /\ Len(Zeros(z)) = z
        /\ \A i \in 1..z : Zeros(z)[i] = 0
    BY DEF Zeros
  <2> QED
    BY <2>1
<1> HIDE DEF all
<1>2. IsLeading(z, all, 0)
  <2>1. z < Len(all) => d # << >> /\ all[z + 1] = d[1]
    BY <1>1
  <2> QED
    BY <1>1, <2>1 DEF IsLeading
<1>3. Leading(all, 0) = z
  <2>1. Len(all) \in Nat
    BY <1>1
  <2> QED
    BY <1>2, <2>1, LeadingFacts, Zenon
<1>4. QED
  BY <1>1, <1>3, Zenon DEF all

\* Every sequence of digits is one of those.
LEMMA ZerosInFront ==
    ASSUME NEW base \in Nat, base > 1, NEW x \in Seq(0..(base - 1))
    PROVE  \E d \in Seq(0..(base - 1)) :
             /\ x = Zeros(Leading(x, 0)) \o d /\ Leading(x, 0) \in Nat
             /\ d # << >> => d[1] # 0
<1> DEFINE z == Leading(x, 0)
           d == SubSeq(x, z + 1, Len(x))
<1>1. Len(x) \in Nat
  OBVIOUS
<1>2. IsLeading(z, x, 0)
  BY <1>1, LeadingFacts, Zenon
<1> HIDE DEF z
<1>3. z \in 0..Len(x) /\ \A i \in 1..z : x[i] = 0
  BY <1>2, Zenon DEF IsLeading
<1>4. /\ d \in Seq(0..(base - 1)) /\ Len(d) = Len(x) - z
      /\ \A i \in 1..Len(d) : d[i] = x[z + i]
  BY <1>3
<1>5. d # << >> => d[1] # 0
  BY <1>1, <1>2, <1>3, <1>4 DEF IsLeading
<1>6. x = Zeros(z) \o d
  <2>1. /\ Zeros(z) \in Seq(0..(base - 1)) /\ Len(Zeros(z)) = z
        /\ \A i \in 1..z : Zeros(z)[i] = 0
    BY <1>3 DEF Zeros
  <2> HIDE DEF d
  <2>2. /\ Zeros(z) \o d \in Seq(0..(base - 1)) /\ Len(Zeros(z) \o d) = Len(x)
        /\ \A i \in 1..Len(x) : (Zeros(z) \o d)[i] = IF i <= z THEN 0 ELSE d[i - z]
    BY <1>1, <1>3, <1>4, <2>1
  <2>3. \A i \in 1..Len(x) : (Zeros(z) \o d)[i] = x[i]
    <3> SUFFICES ASSUME NEW i \in 1..Len(x) PROVE (Zeros(z) \o d)[i] = x[i]
      OBVIOUS
    <3>1. CASE i <= z
      BY <1>3, <2>2, <3>1
    <3>2. CASE i > z
      <4>1. i - z \in 1..Len(d) /\ z + (i - z) = i
        BY <1>1, <1>3, <1>4, <3>2
      <4> QED
        BY <1>3, <1>4, <2>2, <3>2, <4>1
    <3>3. i <= z \/ i > z
      <4>1. i \in Int /\ z \in Int
        BY <1>1, <1>3
      <4> QED
        BY <4>1
    <3> QED
      BY <3>1, <3>2, <3>3, Zenon
  <2> DEFINE y == Zeros(z) \o d
  <2> HIDE DEF y
  <2>4. y = x
    <3>1. y \in Seq(0..(base - 1)) /\ Len(y) = Len(x) /\ \A i \in 1..Len(x) : y[i] = x[i]
      BY <2>2, <2>3 DEF y
    <3> QED
      BY <3>1
  <2> QED
    BY <2>4 DEF y
<1>7. z \in Nat
  BY <1>3
<1> HIDE DEF d
<1>8. QED
  BY <1>4, <1>5, <1>6, <1>7, Zenon DEF z

\* What is converted and back is as it was.
LEMMA ConvertedBack ==
    ASSUME NEW from \in Nat, from > 1, NEW to \in Nat, to > 1, NEW x \in Seq(0..(from - 1))
    PROVE  /\ Converted(x, from, to) \in Seq(0..(to - 1))
           /\ Converted(Converted(x, from, to), to, from) = x
<1> DEFINE z == Leading(x, 0)
<1>1. PICK d \in Seq(0..(from - 1)) : x = Zeros(z) \o d /\ z \in Nat /\ (d # << >> => d[1] # 0)
  BY ZerosInFront, Zenon
<1> DEFINE n == NumberOf(d, from)
           e == Digits(n, to)
           y == Zeros(z) \o e
<1>2. d \in Seq(Nat)
  OBVIOUS
<1>3. n \in Nat /\ Digits(n, from) = d
  BY <1>1, DigitsOfNumber, Zenon
<1>4. AreDigitsOf(e, n, to) /\ (e # << >> => e[1] # 0)
  BY <1>3, DigitsFacts, Zenon
<1> HIDE DEF e
<1>5. e \in Seq(0..(to - 1)) /\ e \in Seq(Nat) /\ NumberOf(e, to) = n
  BY <1>4, Zenon DEF AreDigitsOf
<1>6. y \in Seq(0..(to - 1)) /\ Leading(y, 0) = z
  BY <1>1, <1>4, <1>5, ZerosThenDigits, Zenon
<1>7. NumberOf(Zeros(z) \o d, from) = n /\ NumberOf(y, to) = n
  <2>1. z \in Nat /\ from \in Nat /\ to \in Nat
    BY <1>1
  <2> QED
    BY <1>2, <1>5, <2>1, ZerosAddNothing, Zenon
<1>8. NumberOf(x, from) = n
  BY <1>1, <1>7, Zenon
<1> HIDE DEF z
<1>9. Converted(x, from, to) = y
  BY <1>8, Zenon DEF Converted, e, z
<1> HIDE DEF y, n
<1>10. Converted(y, to, from) = Zeros(z) \o d
  BY <1>3, <1>6, <1>7, Zenon DEF Converted
<1>11. Converted(y, to, from) = x
  BY <1>1, <1>10, Zenon
<1>12. QED
  BY <1>6, <1>9, <1>11, Zenon

-----------------------------------------------------------------------------
(* Texts of bytes.                                                           *)

\* Sequences of bytes.
Bytes == Seq(0..(Base - 1))

\* Sequences are functions.
LEMMA Elements ==
    ASSUME NEW S, NEW x \in Seq(S)
    PROVE  /\ Len(x) \in Nat /\ DOMAIN x = 1..Len(x) /\ x = [i \in 1..Len(x) |-> x[i]]
           /\ \A i \in 1..Len(x) : x[i] \in S
  OBVIOUS

\* A function on the first numbers is a sequence.
LEMMA Listed ==
    ASSUME NEW L \in Nat, NEW S, NEW x \in [1..L -> S]
    PROVE  x \in Seq(S) /\ Len(x) = L
  OBVIOUS

\* What is assumed of bytes, and of the alphabet and the texts.
LEMMA BaseFacts == Base \in Nat /\ Base > 4
  BY ExchangeAssumption

\* What is assumed of the alphabet, and of texts that stand for no address.
LEMMA TextFacts ==
    /\ Alphabet \in Seq(Letters) /\ Len(Alphabet) > 1
    /\ "P" \in Letters /\ "S" \in Letters /\ "X" \in Letters
    /\ \A i, j \in DOMAIN Alphabet : i # j => Alphabet[i] # Alphabet[j]
    /\ <<"NULL">> \in NullTexts
    /\ \A text \in NullTexts : text # << >> => text[1] \notin {"P", "S", "X"}
    /\ PublicBytes \in Nat /\ PrivateBytes \in Nat
  BY ExchangeAssumption

\* A character and its value in the alphabet tell each other.
LEMMA RadixFacts ==
    /\ Radix \in Nat /\ Radix > 1 /\ DOMAIN Alphabet = 1..Radix
    /\ \A v \in 0..(Radix - 1) :
          v + 1 \in 1..Radix /\ Alphabet[v + 1] \in Letters /\ ValueOf(Alphabet[v + 1]) = v
    /\ \A i \in 1..Radix : /\ ValueOf(Alphabet[i]) \in 0..(Radix - 1)
                           /\ Alphabet[ValueOf(Alphabet[i]) + 1] = Alphabet[i]
<1>1. Radix \in Nat /\ Radix > 1 /\ DOMAIN Alphabet = 1..Radix /\ \A i \in 1..Radix : Alphabet[i] \in Letters
  BY TextFacts DEF Radix
<1>2. ASSUME NEW i \in 1..Radix PROVE ValueOf(Alphabet[i]) = i - 1
  <2> DEFINE j == CHOOSE j \in DOMAIN Alphabet : Alphabet[j] = Alphabet[i]
  <2>1. j \in DOMAIN Alphabet /\ Alphabet[j] = Alphabet[i]
    BY <1>1, Zenon
  <2>2. j = i
    BY <1>1, <2>1, TextFacts, Zenon
  <2> HIDE DEF j
  <2>3. ValueOf(Alphabet[i]) = j - 1
    BY Zenon DEF ValueOf, j
  <2> QED
    BY <2>2, <2>3, Zenon
<1>3. \A v \in 0..(Radix - 1) : v + 1 \in 1..Radix /\ (v + 1) - 1 = v
  BY <1>1
<1>4. \A i \in 1..Radix : i - 1 \in 0..(Radix - 1) /\ (i - 1) + 1 = i
  BY <1>1
<1>5. QED
  BY <1>1, <1>2, <1>3, <1>4, Zenon

\* No bytes have no digits.
LEMMA NothingConverted ==
    ASSUME NEW from \in Nat, NEW to \in Nat, to > 1
    PROVE  Converted(<< >>, from, to) = << >>
<1>1. Len(<< >>) = 0 /\ Len(<< >>) \in Nat /\ << >> \in Seq(Nat)
  OBVIOUS
<1>2. Leading(<< >>, 0) = 0
  <2>1. IsLeading(Leading(<< >>, 0), << >>, 0)
    BY <1>1, LeadingFacts, Zenon
  <2>2. Leading(<< >>, 0) \in 0..Len(<< >>)
    BY <2>1, Zenon DEF IsLeading
  <2> QED
    BY <1>1, <2>2
<1>3. NumberOf(<< >>, from) = 0
  <2>1. PICK v : AreNumbers(v, << >>, from)
    BY <1>1, NumberFunction, Zenon
  <2>2. NumberOf(<< >>, from) = v[Len(<< >>)] /\ v[0] = 0
    BY <2>1, Zenon DEF AreNumbers
  <2> QED
    BY <1>1, <2>2
<1>4. Digits(0, to) = << >>
  <2>1. 0 \in Nat
    OBVIOUS
  <2>2. PICK k, q : AreDigits(k, q, 0, to)
    BY <2>1, DigitsMade, Zenon
  <2>3. k \in 0..0 /\ Digits(0, to) = Remainders(q, k, to)
    BY <2>2, Zenon DEF AreDigits
  <2>4. k = 0
    BY <2>3
  <2>5. Remainders(q, 0, to) = << >>
    BY DEF Remainders
  <2> QED
    BY <2>3, <2>4, <2>5, Zenon
<1>5. Zeros(0) = << >>
  BY DEF Zeros
<1>6. << >> \o << >> = << >>
  OBVIOUS
<1>7. QED
  BY <1>2, <1>3, <1>4, <1>5, <1>6, Zenon DEF Converted

\* A text of the alphabet and the values of its characters.
AreCharactersOf(text, x) ==
    /\ text \in Seq(Letters) /\ Len(text) = Len(x)
    /\ \A i \in DOMAIN text : \E j \in DOMAIN Alphabet : Alphabet[j] = text[i]
    /\ [i \in DOMAIN text |-> ValueOf(text[i])] = x

\* Characters for values, and values for these characters.
LEMMA CharactersBack ==
    ASSUME NEW x \in Seq(0..(Radix - 1))
    PROVE  AreCharactersOf([i \in DOMAIN x |-> Alphabet[x[i] + 1]], x)
<1> DEFINE text == [i \in DOMAIN x |-> Alphabet[x[i] + 1]]
           L == Len(x)
<1>1. /\ L \in Nat /\ DOMAIN x = 1..L /\ x = [i \in 1..L |-> x[i]]
      /\ \A i \in 1..L : x[i] \in 0..(Radix - 1)
  BY Elements, Zenon
<1>2. \A i \in 1..L : /\ text[i] = Alphabet[x[i] + 1] /\ x[i] + 1 \in DOMAIN Alphabet
                      /\ text[i] \in Letters /\ ValueOf(text[i]) = x[i]
  BY <1>1, RadixFacts, Zenon
<1>3. DOMAIN text = 1..L /\ text = [i \in 1..L |-> text[i]]
  BY <1>1
<1> HIDE DEF text, L
<1>4. text \in Seq(Letters) /\ Len(text) = L
  <2>1. [i \in 1..L |-> text[i]] \in [1..L -> Letters]
    BY <1>2
  <2>2. text \in [1..L -> Letters]
    BY <1>3, <2>1, Zenon
  <2> QED
    BY <1>1, <2>2, Listed, Zenon
<1>5. [i \in DOMAIN text |-> ValueOf(text[i])] = x
  <2>1. [i \in DOMAIN text |-> ValueOf(text[i])] = [i \in 1..L |-> x[i]]
    BY <1>2, <1>3, Zenon
  <2>2. x = [i \in 1..L |-> x[i]]
    BY <1>1
  <2> QED
    BY <2>1, <2>2, Zenon
<1>6. \A i \in DOMAIN text : \E j \in DOMAIN Alphabet : Alphabet[j] = text[i]
  BY <1>2, <1>3, Zenon
<1>7. QED
  BY <1>4, <1>5, <1>6, Zenon DEF text, L, AreCharactersOf

\* The text of bytes is read as those bytes.
LEMMA Base58Back ==
    ASSUME NEW bytes \in Bytes, bytes # << >>
    PROVE  /\ EncodeBase58(bytes) \in Seq(Letters) /\ EncodeBase58(bytes) # << >>
           /\ DecodeBase58(EncodeBase58(bytes)) = Ok(bytes)
<1> DEFINE x == Converted(bytes, Base, Radix)
           text == EncodeBase58(bytes)
<1>1. Base \in Nat /\ Base > 1 /\ Radix \in Nat /\ Radix > 1 /\ bytes \in Seq(0..(Base - 1))
  BY BaseFacts, RadixFacts DEF Bytes
<1>2. x \in Seq(0..(Radix - 1)) /\ Converted(x, Radix, Base) = bytes
  BY <1>1, ConvertedBack, Zenon
<1>3. x # << >>
  BY <1>1, <1>2, NothingConverted, Zenon
<1>4. text = [i \in DOMAIN x |-> Alphabet[x[i] + 1]]
  BY Zenon DEF EncodeBase58
<1> HIDE DEF x, text
<1>5. /\ text \in Seq(Letters) /\ Len(text) = Len(x)
      /\ \A i \in DOMAIN text : \E j \in DOMAIN Alphabet : Alphabet[j] = text[i]
      /\ [i \in DOMAIN text |-> ValueOf(text[i])] = x
  <2>1. AreCharactersOf([i \in DOMAIN x |-> Alphabet[x[i] + 1]], x)
    BY <1>2, CharactersBack, Zenon
  <2>2. AreCharactersOf(text, x)
    BY <1>4, <2>1, Zenon
  <2> QED
    BY <2>2, Zenon DEF AreCharactersOf
<1>6. text # << >>
  BY <1>2, <1>3, <1>5
<1>7. DecodeBase58(text) = Ok(Converted(x, Radix, Base))
  <2>1. ~(text = << >> \/ \E i \in DOMAIN text : \A j \in DOMAIN Alphabet : Alphabet[j] # text[i])
    BY <1>5, <1>6, Zenon
  <2>2. DecodeBase58(text) = Ok(Converted([i \in DOMAIN text |-> ValueOf(text[i])], Radix, Base))
    BY <2>1, Zenon DEF DecodeBase58
  <2> QED
    BY <1>5, <2>2, Zenon
<1>8. QED
  BY <1>2, <1>5, <1>6, <1>7, Zenon DEF text

\* A text that is read is the text of what it is read as.
LEMMA Base58Text ==
    ASSUME NEW text \in Seq(Letters), Succeeds(DecodeBase58(text))
    PROVE  \E bytes \in Bytes : /\ DecodeBase58(text) = Ok(bytes)
                                /\ EncodeBase58(bytes) = text
<1> DEFINE x == [i \in DOMAIN text |-> ValueOf(text[i])]
           L == Len(text)
           bytes == Converted(x, Radix, Base)
<1>1. Base \in Nat /\ Base > 1 /\ Radix \in Nat /\ Radix > 1
  BY BaseFacts, RadixFacts
<1>2. /\ ~(text = << >> \/ \E i \in DOMAIN text : \A j \in DOMAIN Alphabet : Alphabet[j] # text[i])
      /\ DecodeBase58(text) = Ok(bytes)
  BY DEF DecodeBase58, Succeeds, Raise
<1>3. L \in Nat /\ DOMAIN text = 1..L /\ text = [i \in 1..L |-> text[i]]
  BY Elements, Zenon
<1>4. \A i \in 1..L : /\ x[i] \in 0..(Radix - 1) /\ Alphabet[x[i] + 1] = text[i]
  <2> SUFFICES ASSUME NEW i \in 1..L
               PROVE  x[i] \in 0..(Radix - 1) /\ Alphabet[x[i] + 1] = text[i]
    OBVIOUS
  <2>1. PICK j \in DOMAIN Alphabet : Alphabet[j] = text[i]
    BY <1>2, <1>3, Zenon
  <2>2. x[i] = ValueOf(text[i])
    BY <1>3, Zenon
  <2>3. j \in 1..Radix
    BY <2>1, RadixFacts, Zenon
  <2> QED
    BY <2>1, <2>2, <2>3, RadixFacts, Zenon
<1>5. DOMAIN x = 1..L /\ x = [i \in 1..L |-> x[i]]
  BY <1>3, Zenon
<1> HIDE DEF x
<1>6. x \in Seq(0..(Radix - 1))
  <2>1. [i \in 1..L |-> x[i]] \in [1..L -> 0..(Radix - 1)]
    BY <1>4
  <2>2. x \in [1..L -> 0..(Radix - 1)]
    BY <1>5, <2>1, Zenon
  <2> QED
    BY <1>3, <2>2, Listed, Zenon
<1>7. bytes \in Seq(0..(Base - 1)) /\ Converted(bytes, Base, Radix) = x
  BY <1>1, <1>6, ConvertedBack, Zenon
<1> HIDE DEF bytes
<1>8. EncodeBase58(bytes) = [i \in DOMAIN x |-> Alphabet[x[i] + 1]]
  BY <1>7, Zenon DEF EncodeBase58
<1>9. [i \in DOMAIN x |-> Alphabet[x[i] + 1]] = [i \in 1..L |-> text[i]]
  BY <1>4, <1>5, Zenon
<1>10. EncodeBase58(bytes) = text
  BY <1>3, <1>8, <1>9, Zenon
<1>11. QED
  BY <1>2, <1>7, <1>10, Zenon DEF Bytes

-----------------------------------------------------------------------------
(* Texts of addresses and of keys.                                           *)

\* Bytes of at least one.
LEMMA SomeBytes ==
    ASSUME NEW a \in Bytes, Len(a) > 0
    PROVE  a # << >> /\ a[1] \in Nat /\ a[1] \in 0..(Base - 1)
<1>1. a \in Seq(0..(Base - 1)) /\ 1 \in 1..Len(a)
  BY DEF Bytes
<1>2. a[1] \in 0..(Base - 1)
  BY <1>1, Elements, Zenon
<1>3. \A b \in 0..(Base - 1) : b \in Nat
  BY BaseFacts
<1>4. Len(<< >>) = 0
  OBVIOUS
<1>5. a # << >>
  BY <1>4
<1>6. QED
  BY <1>2, <1>3, <1>5, Zenon

\* The null address has the length of an address.
LEMMA NullFacts ==
    NullAddress \in Bytes /\ Len(NullAddress) = AddressLength
  BY TextFacts, BaseFacts DEF NullAddress, Zeros, AddressLength, Bytes

\* A prefix and more.
LEMMA Prefixed ==
    ASSUME NEW S, NEW p \in S, NEW text \in Seq(S)
    PROVE  /\ <<p>> \o text \in Seq(S) /\ Len(<<p>> \o text) = Len(text) + 1
           /\ Head(<<p>> \o text) = p /\ Tail(<<p>> \o text) = text
           /\ (<<p>> \o text)[1] = p
<1> DEFINE t == <<p>> \o text
<1>1. t \in Seq(S) /\ Len(t) = Len(text) + 1 /\ t[1] = p /\ Len(text) \in Nat
  OBVIOUS
<1>2. \A i \in 1..Len(text) : t[i + 1] = text[i]
  OBVIOUS
<1> HIDE DEF t
<1>3. Head(t) = p
  BY <1>1
<1>4. Tail(t) = text
  <2> DEFINE u == Tail(t)
  <2>1. u \in Seq(S) /\ Len(u) = Len(text) /\ \A i \in 1..Len(text) : u[i] = text[i]
    BY <1>1, <1>2
  <2> HIDE DEF u
  <2>2. u = text
    BY <2>1
  <2> QED
    BY <2>2 DEF u
<1>5. QED
  BY <1>1, <1>3, <1>4, Zenon DEF t

\* A text is its first character and the others.
LEMMA HeadAndTail ==
    ASSUME NEW S, NEW text \in Seq(S), Len(text) >= 1
    PROVE  text = <<Head(text)>> \o Tail(text) /\ Tail(text) \in Seq(S) /\ Head(text) \in S
<1>1. /\ Tail(text) \in Seq(S) /\ Len(Tail(text)) = Len(text) - 1 /\ Head(text) = text[1]
      /\ \A i \in 1..(Len(text) - 1) : Tail(text)[i] = text[i + 1]
      /\ Head(text) \in S
  OBVIOUS
<1> DEFINE u == <<Head(text)>> \o Tail(text)
<1>2. u \in Seq(S) /\ Len(u) = Len(text) /\ u[1] = text[1]
      /\ \A i \in 1..(Len(text) - 1) : u[i + 1] = text[i + 1]
  BY <1>1
<1>3. \A i \in 1..Len(text) : u[i] = text[i]
  <2> SUFFICES ASSUME NEW i \in 1..Len(text) PROVE u[i] = text[i]
    OBVIOUS
  <2>1. i = 1 \/ (i - 1 \in 1..(Len(text) - 1) /\ (i - 1) + 1 = i)
    OBVIOUS
  <2> HIDE DEF u
  <2> QED
    BY <1>2, <2>1
<1> HIDE DEF u
<1>4. u = text
  BY <1>2, <1>3
<1>5. QED
  BY <1>1, <1>4 DEF u

\* The text of an address is accepted as that address, if it is one of the
\* three kinds, and refused otherwise.
LEMMA AddressRead ==
    ASSUME NEW a \in Bytes, Len(a) = AddressLength
    PROVE  IF Kind(a) = "invalid" THEN ~Succeeds(AddressFromText(AddressText(a)))
                                  ELSE AddressFromText(AddressText(a)) = Ok(a)
<1>1. CASE a = NullAddress
  <2>1. AddressText(a) \in NullTexts
    BY <1>1, TextFacts, Zenon DEF AddressText
  <2>2. Kind(a) = "system"
    <3>1. a[1] = 0
      BY <1>1, TextFacts DEF NullAddress, Zeros, AddressLength
    <3> QED
      BY <1>1, <3>1 DEF Kind
  <2>3. AddressFromText(AddressText(a)) = Ok(a)
    BY <1>1, <2>1, Zenon DEF AddressFromText
  <2> QED
    BY <2>2, <2>3
<1>2. CASE a # NullAddress
  <2> DEFINE p == PrefixOf(a)
             e == EncodeBase58(a)
             text == <<p>> \o e
  <2>1. p \in {"P", "S", "X"} /\ p \in Letters
    <3>1. p = "P" \/ p = "S" \/ p = "X"
      BY DEF PrefixOf
    <3> QED
      BY <3>1, TextFacts, Zenon
  <2>2. Len(a) > 0
    BY TextFacts DEF AddressLength
  <2>3. a # << >>
    BY <2>2, SomeBytes, Zenon
  <2>4. e \in Seq(Letters) /\ e # << >> /\ DecodeBase58(e) = Ok(a)
    BY <2>3, Base58Back, Zenon
  <2>5. AddressText(a) = text
    BY <1>2, Zenon DEF AddressText
  <2> HIDE DEF p, e
  <2>6. /\ text \in Seq(Letters) /\ Len(text) = Len(e) + 1 /\ Head(text) = p /\ Tail(text) = e
        /\ text[1] = p
    BY <2>1, <2>4, Prefixed, Zenon
  <2> HIDE DEF text
  <2>7. text # << >> /\ ~(Len(text) < 2)
    BY <2>4, <2>6
  <2>8. text \notin NullTexts
    BY <2>1, <2>6, <2>7, TextFacts, Zenon
  <2>9. DecodeBase58(Tail(text)) = Ok(a) /\ Succeeds(Ok(a)) /\ Ok(a)[2] = a
    BY <2>4, <2>6 DEF Ok, Succeeds
  <2>10. AddressFromText(text) = IF PrefixFits(p, a) THEN Ok(a) ELSE Raise("CryptoError")
    BY <2>6, <2>7, <2>8, <2>9, Zenon DEF AddressFromText
  <2>11. a[1] \in Nat
    BY <2>2, SomeBytes, Zenon
  <2>12. PrefixFits(p, a) <=> Kind(a) # "invalid"
    BY <2>11 DEF PrefixFits, p, PrefixOf, Kind
  <2>13. ~Succeeds(Raise("CryptoError"))
    BY DEF Raise, Succeeds
  <2> QED
    BY <2>5, <2>10, <2>12, <2>13, Zenon
<1>3. QED
  BY <1>1, <1>2

\* A text that is accepted is the text of the address, or stands for none.
LEMMA AddressOfText ==
    ASSUME NEW text \in Seq(Letters), Succeeds(AddressFromText(text))
    PROVE  \/ text = AddressText(AddressFromText(text)[2])
           \/ AddressFromText(text)[2] = NullAddress
<1>1. CASE text \in NullTexts
  <2>1. AddressFromText(text) = Ok(NullAddress)
    BY <1>1, Zenon DEF AddressFromText
  <2> QED
    BY <2>1 DEF Ok
<1>2. CASE text \notin NullTexts
  <2> DEFINE data == DecodeBase58(Tail(text))
  <2>1. ~(Len(text) < 2)
    BY <1>2 DEF AddressFromText, Succeeds, Raise
  <2>2. /\ Succeeds(data)
        /\ Len(data[2]) = AddressLength /\ PrefixFits(Head(text), data[2])
        /\ AddressFromText(text) = data
    <3> HIDE DEF data
    <3>1. AddressFromText(text) = IF ~Succeeds(data) THEN data
           ELSE IF Len(data[2]) = AddressLength /\ PrefixFits(Head(text), data[2])
                  THEN data ELSE Raise("CryptoError")
      BY <1>2, <2>1, Zenon DEF AddressFromText, data
    <3>2. ~Succeeds(Raise("CryptoError"))
      BY DEF Raise, Succeeds
    <3> QED
      BY <3>1, <3>2, Zenon
  <2>3. text = <<Head(text)>> \o Tail(text) /\ Tail(text) \in Seq(Letters)
    <3>1. Len(text) >= 1
      BY <2>1
    <3> QED
      BY <3>1, HeadAndTail, Zenon
  <2>4. PICK bytes \in Bytes : data = Ok(bytes) /\ EncodeBase58(bytes) = Tail(text)
    BY <2>2, <2>3, Base58Text, Zenon
  <2> HIDE DEF data
  <2>5. data[2] = bytes
    BY <2>4 DEF Ok
  <2>6. PrefixOf(bytes) = Head(text)
    <3>1. PrefixFits(Head(text), bytes)
      BY <2>2, <2>5, Zenon
    <3> QED
      BY <3>1 DEF PrefixFits, PrefixOf
  <2>7. bytes # NullAddress => AddressText(bytes) = text
    BY <2>3, <2>4, <2>6, Zenon DEF AddressText
  <2> QED
    BY <2>2, <2>5, <2>7, Zenon
<1>3. QED
  BY <1>1, <1>2

\* A sequence of bytes, and one byte more.
LEMMA HalfIsByte == Base \div 2 \in 0..(Base - 1)
<1>1. Base \in Nat /\ Base > 4 /\ 2 \in Nat /\ 2 > 0 /\ 2 > 1
  BY BaseFacts
<1> DEFINE h == Base \div 2
<1>2. h \in Nat /\ h < Base
  BY <1>1, Division
<1> HIDE DEF h
<1>3. h \in 0..(Base - 1)
  BY <1>1, <1>2
<1>4. QED
  BY <1>3 DEF h

\* The bytes of a WIF text.
WifBytes(private) == WifPayload(private) \o <<Check(WifPayload(private))>>

\* The parts of these bytes are the key and its check.
LEMMA WifFacts ==
    ASSUME NEW private \in Bytes, Len(private) = PrivateBytes,
           Check(WifPayload(private)) \in 0..(Base - 1)
    PROVE  /\ WifBytes(private) \in Bytes /\ Len(WifBytes(private)) = PrivateBytes + 3
           /\ WifBytes(private)[PrivateBytes + 3] = Check(WifPayload(private))
           /\ SubSeq(WifBytes(private), 1, PrivateBytes + 2) = WifPayload(private)
           /\ SubSeq(WifBytes(private), 2, PrivateBytes + 1) = private
<1> DEFINE h == Base \div 2
           c == Check(WifPayload(private))
           S == 0..(Base - 1)
           p == WifPayload(private)
           all == WifBytes(private)
           n == PrivateBytes
<1>1. h \in S /\ c \in S /\ 1 \in S /\ private \in Seq(S) /\ n \in Nat /\ Len(private) = n
  BY HalfIsByte, BaseFacts, TextFacts DEF Bytes
<1>2. p = <<h>> \o private \o <<1>>
  BY DEF WifPayload
<1>3. all = p \o <<c>>
  BY DEF WifBytes
<1> HIDE DEF h, c, p, all, S, n
<1>4. /\ p \in Seq(S) /\ Len(p) = n + 2
      /\ \A i \in 1..n : p[i + 1] = private[i]
  BY <1>1, <1>2
<1>5. /\ all \in Seq(S) /\ Len(all) = n + 3 /\ all[n + 3] = c
      /\ \A i \in 1..(n + 2) : all[i] = p[i]
  BY <1>1, <1>3, <1>4
<1>6. SubSeq(all, 1, n + 2) = p
  <2> DEFINE u == SubSeq(all, 1, n + 2)
  <2>1. u \in Seq(S) /\ Len(u) = n + 2 /\ \A i \in 1..(n + 2) : u[i] = p[i]
    BY <1>1, <1>5
  <2> HIDE DEF u
  <2>2. u = p
    BY <1>1, <1>4, <2>1
  <2> QED
    BY <2>2 DEF u
<1>7. SubSeq(all, 2, n + 1) = private
  <2> DEFINE u == SubSeq(all, 2, n + 1)
  <2>1. u \in Seq(S) /\ Len(u) = n /\ \A i \in 1..n : u[i] = all[i + 1]
    BY <1>1, <1>5
  <2> HIDE DEF u
  <2>2. \A i \in 1..n : u[i] = private[i]
    <3> SUFFICES ASSUME NEW i \in 1..n PROVE u[i] = private[i]
      OBVIOUS
    <3>1. i + 1 \in 1..(n + 2)
      BY <1>1
    <3> QED
      BY <1>4, <1>5, <2>1, <3>1
  <2>3. u = private
    BY <1>1, <2>1, <2>2
  <2> QED
    BY <2>3 DEF u
<1>8. QED
  BY <1>5, <1>6, <1>7, Zenon DEF S, n, c, p, all, Bytes

\* A key's text is accepted as that key.
LEMMA KeyRead ==
    ASSUME NEW private \in Bytes, Len(private) = PrivateBytes,
           Check(WifPayload(private)) \in 0..(Base - 1)
    PROVE  KeyFromWif(KeyToWif(private)) = Ok(private)
<1> DEFINE all == WifBytes(private)
           text == EncodeBase58(all)
           n == PrivateBytes
<1>1. /\ all \in Bytes /\ Len(all) = n + 3
      /\ all[n + 3] = Check(WifPayload(private))
      /\ SubSeq(all, 1, n + 2) = WifPayload(private)
      /\ SubSeq(all, 2, n + 1) = private
  BY WifFacts, Zenon
<1>2. n \in Nat /\ KeyToWif(private) = text
  BY TextFacts DEF KeyToWif, WifBytes
<1> HIDE DEF n, all
<1>3. all # << >>
  <2>1. Len(all) > 0
    BY <1>1, <1>2
  <2> QED
    BY <1>1, <2>1, SomeBytes, Zenon
<1>4. text # << >> /\ DecodeBase58(text) = Ok(all)
  BY <1>1, <1>3, Base58Back, Zenon
<1> HIDE DEF text
<1>5. Ok(all)[2] = all /\ Succeeds(Ok(all))
  BY DEF Ok, Succeeds
<1>6. Len(all) = n + 3 /\ Len(all) - 1 = n + 2
  BY <1>1, <1>2
<1>7. KeyFromWif(text) = Ok(private)
  BY <1>1, <1>4, <1>5, <1>6, Zenon DEF KeyFromWif, n
<1>8. QED
  BY <1>2, <1>7, Zenon

\* A text that is accepted is that of the key.
LEMMA KeyOfText ==
    ASSUME NEW text \in Seq(Letters), Succeeds(KeyFromWif(text))
    PROVE  text = KeyToWif(KeyFromWif(text)[2])
<1> DEFINE data == DecodeBase58(text)
           x == data[2]
           payload == SubSeq(x, 1, Len(x) - 1)
           private == SubSeq(x, 2, PrivateBytes + 1)
           right == /\ Len(x) = PrivateBytes + 3
                    /\ x[Len(x)] = Check(payload)
                    /\ payload = WifPayload(private)
<1>1. ~Succeeds(Raise("CryptoError"))
  BY DEF Raise, Succeeds
<1>2. Succeeds(data) /\ right /\ KeyFromWif(text) = Ok(private)
  <2>1. KeyFromWif(text) = IF text = << >> THEN Raise("CryptoError")
      ELSE IF ~Succeeds(data) THEN data
      ELSE IF right THEN Ok(private) ELSE Raise("CryptoError")
    BY Zenon DEF KeyFromWif
  <2> HIDE DEF right, data, private
  <2> QED
    BY <1>1, <2>1, Zenon
<1>3. PICK bytes \in Bytes : data = Ok(bytes) /\ EncodeBase58(bytes) = text
  BY <1>2, Base58Text, Zenon
<1> HIDE DEF data
<1>4. x = bytes
  BY <1>3 DEF Ok
<1> HIDE DEF x
<1>5. x = payload \o <<x[Len(x)]>>
  <2> DEFINE n == Len(x)
             u == payload \o <<x[n]>>
             S == 0..(Base - 1)
  <2>1. x \in Seq(S) /\ n \in Nat /\ n > 0
    BY <1>2, <1>4, TextFacts DEF Bytes
  <2>0. Len(x) = n /\ payload = SubSeq(x, 1, n - 1)
    OBVIOUS
  <2> HIDE DEF S, n
  <2>2. payload \in Seq(S) /\ Len(payload) = n - 1 /\ \A i \in 1..(n - 1) : payload[i] = x[i]
    <3> HIDE DEF payload
    <3> QED
      BY <2>0, <2>1
  <2> HIDE DEF payload
  <2>3. x[n] \in S
    BY <2>0, <2>1
  <2>4. u \in Seq(S) /\ Len(u) = n /\ u[n] = x[n] /\ \A i \in 1..(n - 1) : u[i] = x[i]
    BY <2>1, <2>2, <2>3
  <2> HIDE DEF u
  <2>5. \A i \in 1..n : u[i] = x[i]
    <3>1. \A i \in 1..n : i = n \/ i \in 1..(n - 1)
      BY <2>1
    <3> QED
      BY <2>4, <3>1, Zenon
  <2>6. u = x
    BY <2>0, <2>1, <2>4, <2>5
  <2> QED
    BY <2>6 DEF u, n
<1>6. x = WifPayload(private) \o <<Check(WifPayload(private))>>
  <2> HIDE DEF payload, private
  <2> QED
    BY <1>2, <1>5, Zenon
<1>7. KeyToWif(private) = text
  BY <1>3, <1>4, <1>6, Zenon DEF KeyToWif
<1>8. KeyFromWif(text)[2] = private
  <2> HIDE DEF right, private
  <2> QED
    BY <1>2 DEF Ok
<1>9. QED
  BY <1>7, <1>8, Zenon

-----------------------------------------------------------------------------
(* Sequences in a row, and sequences that were cut.                          *)

\* Bytes, as numbers of any size.
Stream == Seq(Nat)

\* Equal elements, equal sequences.
LEMMA Same ==
    ASSUME NEW u \in Stream, NEW v \in Stream, Len(u) = Len(v),
           \A i \in 1..Len(u) : u[i] = v[i]
    PROVE  u = v
  BY DEF Stream

\* Elements of two sequences in a row.
LEMMA Concatenation ==
    ASSUME NEW a \in Stream, NEW b \in Stream
    PROVE  /\ a \o b \in Stream /\ Len(a) \in Nat /\ Len(b) \in Nat
           /\ Len(a \o b) = Len(a) + Len(b)
           /\ \A i \in 1..Len(a) : (a \o b)[i] = a[i]
           /\ \A i \in 1..Len(b) : (a \o b)[Len(a) + i] = b[i]
  BY DEF Stream

\* The first elements of a sequence.
LEMMA Front ==
    ASSUME NEW a \in Stream, NEW k \in 0..Len(a)
    PROVE  /\ SubSeq(a, 1, k) \in Stream /\ Len(SubSeq(a, 1, k)) = k
           /\ \A i \in 1..k : SubSeq(a, 1, k)[i] = a[i]
  BY DEF Stream

\* Sequences in a row.
LEMMA Streams ==
    /\ << >> \in Stream
    /\ \A a, b \in Stream : a \o b \in Stream /\ Len(a \o b) = Len(a) + Len(b)
    /\ \A a \in Stream : a \o << >> = a /\ << >> \o a = a /\ Len(a) \in Nat
    /\ \A a, b, c \in Stream : (a \o b) \o c = a \o (b \o c)
    /\ \A n \in Nat : <<n>> \in Stream /\ Len(<<n>>) = 1
<1>1. << >> \in Stream /\ \A n \in Nat : <<n>> \in Stream /\ Len(<<n>>) = 1
  BY DEF Stream
<1>2. \A a, b \in Stream : a \o b \in Stream /\ Len(a \o b) = Len(a) + Len(b)
  BY DEF Stream
<1>3. \A a \in Stream : a \o << >> = a /\ << >> \o a = a /\ Len(a) \in Nat
  BY DEF Stream
<1>4. \A a, b, c \in Stream : (a \o b) \o c = a \o (b \o c)
  BY ConcatAssociative DEF Stream
<1>5. QED
  BY <1>1, <1>2, <1>3, <1>4

\* Bytes are numbers.
LEMMA BytesStream == Bytes \subseteq Stream
  BY BaseFacts DEF Bytes, Stream

\* The two parts of a row.
LEMMA Parts ==
    ASSUME NEW a \in Stream, NEW b \in Stream
    PROVE  /\ SubSeq(a \o b, 1, Len(a)) = a
           /\ SubSeq(a \o b, Len(a) + 1, Len(a \o b)) = b
<1> DEFINE u == SubSeq(a \o b, 1, Len(a))
           v == SubSeq(a \o b, Len(a) + 1, Len(a \o b))
<1>1. u \in Stream /\ Len(u) = Len(a) /\ \A i \in 1..Len(a) : u[i] = a[i]
  BY DEF Stream
<1>2. v \in Stream /\ Len(v) = Len(b) /\ \A i \in 1..Len(b) : v[i] = b[i]
  BY DEF Stream
<1> HIDE DEF u, v
<1>3. u = a /\ v = b
  BY <1>1, <1>2, Same
<1>4. QED
  BY <1>3 DEF u, v

\* What is less than a row is less than its first part, or that and less than
\* the second.
IsCut(x, a) == \E j \in 0..(Len(a) - 1) : x = SubSeq(a, 1, j)

\* What was cut is shorter.
LEMMA CutStream ==
    ASSUME NEW a \in Stream, NEW x, IsCut(x, a)
    PROVE  x \in Stream /\ Len(x) < Len(a)
<1>1. PICK j \in 0..(Len(a) - 1) : x = SubSeq(a, 1, j)
  BY DEF IsCut
<1>2. SubSeq(a, 1, j) \in Stream /\ Len(SubSeq(a, 1, j)) = j
  BY DEF Stream
<1>3. Len(a) \in Nat
  BY Streams
<1>4. QED
  BY <1>1, <1>2, <1>3

\* What was cut from a row ends in the one or in the other.
LEMMA Cut ==
    ASSUME NEW a \in Stream, NEW b \in Stream, NEW x, IsCut(x, a \o b)
    PROVE  \/ IsCut(x, a)
           \/ \E y \in Stream : IsCut(y, b) /\ x = a \o y
<1>1. PICK k \in 0..(Len(a \o b) - 1) : x = SubSeq(a \o b, 1, k)
  BY DEF IsCut
<1>2. /\ Len(a \o b) = Len(a) + Len(b) /\ Len(a) \in Nat /\ Len(b) \in Nat /\ a \o b \in Stream
      /\ k \in Nat
  BY Streams
<1>3. CASE k < Len(a)
  <2> DEFINE u == SubSeq(a \o b, 1, k)
             v == SubSeq(a, 1, k)
  <2>1. u \in Stream /\ Len(u) = k /\ \A i \in 1..k : u[i] = a[i]
    BY <1>2, <1>3 DEF Stream
  <2>2. v \in Stream /\ Len(v) = k /\ \A i \in 1..k : v[i] = a[i]
    BY <1>2, <1>3 DEF Stream
  <2> HIDE DEF u, v
  <2>3. u = v
    BY <2>1, <2>2, Same
  <2>4. k \in 0..(Len(a) - 1)
    BY <1>2, <1>3
  <2> QED
    BY <1>1, <2>3, <2>4 DEF IsCut, u, v
<1>4. CASE k >= Len(a)
  <2> DEFINE j == k - Len(a)
             u == SubSeq(a \o b, 1, k)
             y == SubSeq(b, 1, j)
  <2>1. j \in 0..(Len(b) - 1) /\ k = Len(a) + j
    BY <1>1, <1>2, <1>4
  <2> HIDE DEF j
  <2> DEFINE z == a \o y
  <2>2. /\ u \in Stream /\ Len(u) = k /\ \A i \in 1..k : u[i] = (a \o b)[i]
    <3> DEFINE w == a \o b
    <3>1. w \in Stream /\ k \in 0..Len(w)
      BY <1>1, <1>2
    <3> HIDE DEF w
    <3>2. /\ SubSeq(w, 1, k) \in Stream /\ Len(SubSeq(w, 1, k)) = k
          /\ \A i \in 1..k : SubSeq(w, 1, k)[i] = w[i]
      BY <3>1, Front, Zenon
    <3> QED
      BY <3>2, Zenon DEF w
  <2>4. y \in Stream /\ Len(y) = j /\ \A i \in 1..j : y[i] = b[i]
    <3>1. j \in 0..Len(b)
      BY <1>2, <2>1
    <3> QED
      BY <3>1, Front, Zenon
  <2>5. IsCut(y, b)
    BY <2>1 DEF IsCut
  <2> HIDE DEF u, y
  <2>6. /\ z \in Stream /\ Len(z) = k /\ \A i \in 1..Len(a) : z[i] = a[i]
        /\ \A i \in 1..j : z[Len(a) + i] = y[i]
    <3>1. /\ z \in Stream /\ Len(z) = Len(a) + Len(y)
          /\ \A i \in 1..Len(a) : z[i] = a[i]
          /\ \A i \in 1..Len(y) : z[Len(a) + i] = y[i]
      BY <2>4, Concatenation, Zenon
    <3> QED
      BY <2>1, <2>4, <3>1, Zenon
  <2>3. /\ \A i \in 1..Len(a) : u[i] = a[i]
        /\ \A i \in 1..j : u[Len(a) + i] = b[i]
    <3>1. /\ \A i \in 1..Len(a) : (a \o b)[i] = a[i]
          /\ \A i \in 1..Len(b) : (a \o b)[Len(a) + i] = b[i]
      BY Concatenation, Zenon
    <3>2. \A i \in 1..Len(a) : i \in 1..k
      BY <1>2, <1>4
    <3>3. \A i \in 1..j : i \in 1..Len(b) /\ Len(a) + i \in 1..k
      BY <1>2, <2>1
    <3> QED
      BY <2>2, <3>1, <3>2, <3>3, Zenon
  <2> HIDE DEF z
  <2>8. \A i \in 1..k : u[i] = z[i]
    <3> SUFFICES ASSUME NEW i \in 1..k PROVE u[i] = z[i]
      OBVIOUS
    <3>1. CASE i <= Len(a)
      <4>1. i \in 1..Len(a)
        BY <1>2, <3>1
      <4> QED
        BY <2>3, <2>6, <4>1, Zenon
    <3>2. CASE i > Len(a)
      <4>1. i - Len(a) \in 1..j /\ Len(a) + (i - Len(a)) = i
        BY <1>2, <2>1, <3>2
      <4> QED
        BY <2>3, <2>4, <2>6, <4>1, Zenon
    <3> QED
      BY <1>2, <3>1, <3>2
  <2>9. u = z
    BY <2>2, <2>6, <2>8, Same
  <2>10. x = a \o y
    BY <1>1, <2>9, Zenon DEF u, z
  <2> QED
    BY <2>4, <2>5, <2>10, Zenon
<1>5. QED
  BY <1>2, <1>3, <1>4

-----------------------------------------------------------------------------
(* Numbers of a number of bytes.                                             *)

\* A number below the power has no more digits.
LEMMA NoMoreDigits ==
    ASSUME NEW n \in Nat, NEW w \in Nat, NEW q, AreQuotients(q, n, Base, w), n < Power(w)
    PROVE  q[w] = 0
<1>1. Base \in Nat /\ Base > 1
  BY BaseFacts
<1>2. PICK p : ArePowers(p, w)
  BY <1>1, PowerFunction, Zenon
<1>3. /\ Power(w) = p[w] /\ p \in [0..w -> Nat] /\ p[0] = 1
      /\ \A i \in 1..w : p[i] = Base * p[i - 1]
  BY <1>2, Zenon DEF ArePowers
<1>4. /\ q \in [0..w -> Nat] /\ q[0] = n /\ \A i \in 1..w : q[i] = q[i - 1] \div Base
  BY Zenon DEF AreQuotients
<1> DEFINE S == {i \in Nat : i <= w => q[i] * p[i] <= n}
<1>5. 0 \in S
  <2>1. q[0] * p[0] = n
    BY <1>3, <1>4
  <2> QED
    BY <2>1
<1>6. ASSUME NEW i \in Nat, i \in S PROVE i + 1 \in S
  <2> SUFFICES ASSUME i + 1 <= w PROVE q[i + 1] * p[i + 1] <= n
    OBVIOUS
  <2> DEFINE x == q[i]
             y == q[i + 1]
             r == x % Base
             c == p[i]
             d == p[i + 1]
  <2>1. i + 1 \in 1..w /\ (i + 1) - 1 = i /\ i \in 0..w /\ i + 1 \in 0..w
    OBVIOUS
  <2>2. x \in Nat /\ y \in Nat /\ c \in Nat /\ d \in Nat /\ d = Base * c /\ y = x \div Base
    BY <1>3, <1>4, <2>1
  <2>3. x * c <= n
    BY <1>6
  <2> HIDE DEF y, x, c, d, r
  <2>4. r \in Nat /\ x = y * Base + r
    <3>1. Base > 0
      BY <1>1
    <3>2. x % Base \in 0..(Base - 1) /\ x = (x \div Base) * Base + (x % Base)
      BY <1>1, <2>2, <3>1, Division
    <3>3. \A e \in 0..(Base - 1) : e \in Nat
      BY <1>1
    <3> QED
      BY <2>2, <3>2, <3>3, Zenon DEF r
  <2> DEFINE B == Base
  <2>9. B \in Nat
    BY <1>1
  <2> HIDE DEF B
  <2>5. x * c = (y * B) * c + r * c
    <3>1. x = y * B + r
      BY <2>4, Zenon DEF B
    <3>2. (y * B + r) * c = (y * B) * c + r * c
      BY <2>2, <2>4, <2>9
    <3> QED
      BY <3>1, <3>2, Zenon
  <2>6. (y * B) * c = y * d
    <3>1. (y * B) * c = y * (B * c)
      BY <2>2, <2>9
    <3> QED
      BY <2>2, <3>1, Zenon DEF B
  <2>7. r * c \in Nat /\ y * d \in Nat
    BY <2>2, <2>4
  <2>8. y * d <= n
    BY <2>3, <2>5, <2>6, <2>7
  <2> QED
    BY <2>8 DEF y, d
<1>7. w \in S
  <2> HIDE DEF S
  <2> QED
    BY <1>5, <1>6, NumberInduction
<1>8. q[w] \in Nat /\ p[w] \in Nat /\ q[w] * p[w] <= n /\ n < p[w]
  BY <1>3, <1>4, <1>7
<1> DEFINE x == q[w]
           c == p[w]
<1> HIDE DEF x, c
<1>9. x = 0
  <2> SUFFICES ASSUME x >= 1 PROVE FALSE
    BY <1>8 DEF x
  <2>1. x \in Nat /\ c \in Nat /\ x * c <= n /\ n < c
    BY <1>8 DEF x, c
  <2>2. x * c >= c
    BY <2>1
  <2> QED
    BY <2>1, <2>2
<1>10. QED
  BY <1>9 DEF x

\* A number that is written is read.
LEMMA LittleEndianBack ==
    ASSUME NEW n \in Nat, NEW w \in Nat, n < Power(w)
    PROVE  /\ LittleEndian(n, w) \in Bytes /\ Len(LittleEndian(n, w)) = w
           /\ FromLittleEndian(LittleEndian(n, w)) = n
<1> DEFINE q == Quotients(n, Base, w)
           l == LittleEndian(n, w)
           d == Remainders(q, w, Base)
<1>1. Base \in Nat /\ Base > 0
  BY BaseFacts
<1>2. AreQuotients(q, n, Base, w)
  <2>1. \E f : AreQuotients(f, n, Base, w)
    BY <1>1, QuotientFacts, Zenon
  <2> QED
    BY <2>1, Zenon DEF AreQuotients
<1>3. l = [i \in 1..w |-> q[i - 1] % Base]
  BY DEF LittleEndian
<1> HIDE DEF q
<1>4. q[w] = 0
  BY <1>2, NoMoreDigits, Zenon
<1>5. w \in 0..w
  OBVIOUS
<1>6. AreDigitsOf(d, n, Base) /\ Len(d) = w
  BY <1>1, <1>2, <1>4, <1>5, Assembled
<1>7. d \in Seq(0..(Base - 1)) /\ NumberOf(d, Base) = n
  BY <1>6, Zenon DEF AreDigitsOf
<1>8. \A i \in 1..w : d[i] = q[w - i] % Base
  BY DEF Remainders
<1>9. \A i \in 1..w : d[i] \in 0..(Base - 1)
  BY <1>6, <1>7, Elements, Zenon
<1>10. d = [i \in 1..w |-> d[i]]
  BY DEF Remainders
<1> HIDE DEF d, l
<1>11. \A i \in 1..w : l[i] = d[w + 1 - i]
  <2> SUFFICES ASSUME NEW i \in 1..w PROVE l[i] = d[w + 1 - i]
    OBVIOUS
  <2>1. w + 1 - i \in 1..w /\ w - (w + 1 - i) = i - 1
    OBVIOUS
  <2>2. d[w + 1 - i] = q[w - (w + 1 - i)] % Base
    BY <1>8, <2>1, Zenon
  <2>3. l[i] = q[i - 1] % Base
    BY <1>3, Zenon
  <2> QED
    BY <2>1, <2>2, <2>3, Zenon
<1>12. l \in Bytes /\ Len(l) = w /\ DOMAIN l = 1..w
  <2>1. \A i \in 1..w : l[i] \in 0..(Base - 1)
    <3>1. \A i \in 1..w : w + 1 - i \in 1..w
      OBVIOUS
    <3> QED
      BY <1>9, <1>11, <3>1, Zenon
  <2>2. l = [i \in 1..w |-> l[i]]
    BY <1>3, Zenon
  <2>3. l \in [1..w -> 0..(Base - 1)]
    <3>1. [i \in 1..w |-> l[i]] \in [1..w -> 0..(Base - 1)]
      BY <2>1
    <3> QED
      BY <2>2, <3>1, Zenon
  <2>4. l \in Seq(0..(Base - 1)) /\ Len(l) = w
    BY <2>3, Listed, Zenon
  <2>5. DOMAIN l = 1..w
    BY <2>2, Zenon
  <2> QED
    BY <2>4, <2>5, Zenon DEF Bytes
<1>13. [i \in DOMAIN l |-> l[Len(l) + 1 - i]] = d
  <2>1. \A i \in 1..w : l[w + 1 - i] = d[i]
    <3> SUFFICES ASSUME NEW i \in 1..w PROVE l[w + 1 - i] = d[i]
      OBVIOUS
    <3>1. w + 1 - i \in 1..w /\ w + 1 - (w + 1 - i) = i
      OBVIOUS
    <3> QED
      BY <1>11, <3>1, Zenon
  <2>2. [i \in 1..w |-> l[w + 1 - i]] = [i \in 1..w |-> d[i]]
    BY <2>1, Zenon
  <2> QED
    BY <1>10, <1>12, <2>2, Zenon
<1>14. FromLittleEndian(l) = n
  BY <1>7, <1>13, Zenon DEF FromLittleEndian
<1>15. QED
  BY <1>12, <1>14, Zenon DEF l

\* One byte is its number.
LEMMA OneByte ==
    ASSUME NEW b \in Nat
    PROVE  FromLittleEndian(<<b>>) = b
<1> DEFINE d == [i \in DOMAIN <<b>> |-> <<b>>[Len(<<b>>) + 1 - i]]
<1>1. d \in Seq(Nat) /\ Len(d) = 1 /\ d[1] = b
  <2>1. DOMAIN <<b>> = 1..1 /\ Len(<<b>>) = 1 /\ <<b>>[1] = b
    OBVIOUS
  <2>2. \A i \in 1..1 : 1 + 1 - i = 1
    OBVIOUS
  <2>3. d = [i \in 1..1 |-> b]
    BY <2>1, <2>2
  <2> QED
    BY <2>3
<1>2. FromLittleEndian(<<b>>) = NumberOf(d, Base)
  BY DEF FromLittleEndian
<1> HIDE DEF d
<1>3. Base \in Nat
  BY BaseFacts
<1>4. PICK v : AreNumbers(v, d, Base)
  BY <1>1, <1>3, NumberFunction, Zenon
<1>5. /\ NumberOf(d, Base) = v[1] /\ v[0] = 0
      /\ \A i \in 1..1 : v[i] = v[i - 1] * Base + d[i]
  BY <1>1, <1>4, Zenon DEF AreNumbers
<1>6. v[1] = b
  <2>1. 1 \in 1..1 /\ 1 - 1 = 0
    OBVIOUS
  <2>2. v[1] = v[0] * Base + d[1]
    BY <1>5, <2>1, Zenon
  <2> QED
    BY <1>1, <1>3, <1>5, <2>2
<1>7. QED
  BY <1>2, <1>5, <1>6, Zenon

-----------------------------------------------------------------------------
(* What was written is read, whatever follows it, and less of it is not.     *)

\* A result is a value or an exception.
LEMMA Results ==
    /\ \A v : Succeeds(Ok(v)) /\ Ok(v)[2] = v
    /\ \A e : ~Succeeds(Raise(e))
    /\ \A u, v : Ok(u) = Ok(v) => u = v
  BY DEF Ok, Raise, Succeeds

\* Rows may be taken together either way.
LEMMA InARow ==
    ASSUME NEW a \in Stream, NEW b \in Stream, NEW c \in Stream
    PROVE  (a \o b) \o c = a \o (b \o c) /\ b \o c \in Stream
  BY Streams

\* Bytes are taken off the front.
LEMMA TakeRead ==
    ASSUME NEW a \in Stream, NEW rest \in Stream
    PROVE  Take(a \o rest, Len(a)) = Ok(<<a, rest>>)
<1>1. ~(Len(a) > Len(a \o rest))
  BY Concatenation
<1>2. QED
  BY <1>1, Parts, Zenon DEF Take

\* There are too few.
LEMMA TakeLess ==
    ASSUME NEW x \in Stream, NEW n \in Nat, Len(x) < n
    PROVE  ~Succeeds(Take(x, n))
<1>1. n > Len(x)
  BY Streams
<1>2. QED
  BY <1>1, Results, Zenon DEF Take

\* A number of n bytes: v is read off bytes that begin with w, and w is left off;
\* less than w is not read.
NumberRead(w, n, v) ==
    /\ w \in Stream
    /\ \A rest \in Stream : TakeNumber(w \o rest, n) = Ok(<<v, rest>>)
    /\ \A x : IsCut(x, w) => ~Succeeds(TakeNumber(x, n))

\* Every sequence of bytes is read as the number it stands for.
LEMMA NumberIsRead ==
    ASSUME NEW w \in Stream
    PROVE  NumberRead(w, Len(w), FromLittleEndian(w))
<1>1. ASSUME NEW rest \in Stream
      PROVE  TakeNumber(w \o rest, Len(w)) = Ok(<<FromLittleEndian(w), rest>>)
  <2>1. Take(w \o rest, Len(w)) = Ok(<<w, rest>>)
    BY TakeRead, Zenon
  <2> DEFINE t == Take(w \o rest, Len(w))
  <2>2. Succeeds(t) /\ t[2][1] = w /\ t[2][2] = rest
    BY <2>1 DEF Ok, Succeeds
  <2> QED
    BY <2>2, Zenon DEF TakeNumber, Then
<1>2. ASSUME NEW x, IsCut(x, w) PROVE ~Succeeds(TakeNumber(x, Len(w)))
  <2>1. x \in Stream /\ Len(x) < Len(w) /\ Len(w) \in Nat
    BY <1>2, CutStream, Streams, Zenon
  <2>2. ~Succeeds(Take(x, Len(w)))
    BY <2>1, TakeLess, Zenon
  <2> QED
    BY <2>2, Zenon DEF TakeNumber, Then
<1>3. QED
  BY <1>1, <1>2, Zenon DEF NumberRead

\* The same for lengths.
UintRead(w, v) ==
    /\ w \in Stream
    /\ \A rest \in Stream : TakeVarUint(w \o rest) = Ok(<<v, rest>>)
    /\ \A x : IsCut(x, w) => ~Succeeds(TakeVarUint(x))

\* The first byte, and what is read after it.
LEMMA FirstOfUint ==
    ASSUME NEW first \in Nat, NEW rest \in Stream
    PROVE  TakeVarUint(<<first>> \o rest) =
             CASE first = Base - 3 -> TakeNumber(rest, 2)
               [] first = Base - 2 -> TakeNumber(rest, 4)
               [] first = Base - 1 -> TakeNumber(rest, 8)
               [] OTHER -> Ok(<<first, rest>>)
<1> DEFINE w == <<first>>
           t == TakeNumber(w \o rest, 1)
<1>1. w \in Stream /\ Len(w) = 1 /\ FromLittleEndian(w) = first
  BY Streams, OneByte, Zenon
<1> HIDE DEF w
<1>2. NumberRead(w, 1, first)
  <2>1. NumberRead(w, Len(w), FromLittleEndian(w))
    BY <1>1, NumberIsRead, Zenon
  <2> QED
    BY <1>1, <2>1, Zenon
<1>3. t = Ok(<<first, rest>>)
  BY <1>2, Zenon DEF NumberRead
<1>4. Succeeds(t) /\ t[2][1] = first /\ t[2][2] = rest
  BY <1>3 DEF Ok, Succeeds
<1> HIDE DEF t
<1>5. QED
  BY <1>4 DEF TakeVarUint, Then, w, t

\* No number is read off nothing.
LEMMA NothingTaken ==
    ASSUME NEW n \in Nat, n > 0
    PROVE  ~Succeeds(TakeNumber(<< >>, n))
<1>1. << >> \in Stream /\ Len(<< >>) = 0
  BY DEF Stream
<1>2. ~Succeeds(Take(<< >>, n))
  BY <1>1, TakeLess, Zenon
<1>3. QED
  BY <1>2, Zenon DEF TakeNumber, Then

\* The longer forms: a byte that tells the width, and the number.
LEMMA MarkedIsRead ==
    ASSUME NEW n \in Nat, NEW mark \in Nat, NEW width \in Nat, n < Power(width),
           (mark = Base - 3 /\ width = 2) \/ (mark = Base - 2 /\ width = 4)
    PROVE  UintRead(<<mark>> \o LittleEndian(n, width), n)
<1> DEFINE l == LittleEndian(n, width)
           m == <<mark>>
<1>1. l \in Bytes /\ Len(l) = width /\ FromLittleEndian(l) = n
  BY LittleEndianBack, Zenon
<1>2. l \in Stream /\ m \in Stream /\ Len(m) = 1
  BY <1>1, BytesStream, Streams, Zenon
<1>3. NumberRead(l, width, n)
  <2> HIDE DEF l
  <2> QED
    BY <1>1, <1>2, NumberIsRead, Zenon
<1>4. \A rest \in Stream : TakeVarUint(<<mark>> \o rest) = TakeNumber(rest, width)
  <2> SUFFICES ASSUME NEW rest \in Stream
               PROVE  TakeVarUint(<<mark>> \o rest) = TakeNumber(rest, width)
    OBVIOUS
  <2>1. TakeVarUint(<<mark>> \o rest) =
             CASE mark = Base - 3 -> TakeNumber(rest, 2)
               [] mark = Base - 2 -> TakeNumber(rest, 4)
               [] mark = Base - 1 -> TakeNumber(rest, 8)
               [] OTHER -> Ok(<<mark, rest>>)
    BY FirstOfUint, Zenon
  <2> QED
    BY <2>1, BaseFacts
<1> HIDE DEF l, m
<1>5. m \o l \in Stream
  BY <1>2, Streams, Zenon
<1>6. ASSUME NEW rest \in Stream PROVE TakeVarUint((m \o l) \o rest) = Ok(<<n, rest>>)
  <2>1. (m \o l) \o rest = m \o (l \o rest) /\ l \o rest \in Stream
    BY <1>2, InARow, Zenon
  <2>2. TakeNumber(l \o rest, width) = Ok(<<n, rest>>)
    BY <1>3, Zenon DEF NumberRead
  <2> QED
    BY <1>4, <2>1, <2>2, Zenon DEF m
<1>7. ASSUME NEW x, IsCut(x, m \o l) PROVE ~Succeeds(TakeVarUint(x))
  <2>1. CASE IsCut(x, m)
    <3>1. x \in Stream /\ Len(x) < 1
      BY <1>2, <2>1, CutStream, Zenon
    <3>2. x = << >>
      BY <3>1 DEF Stream
    <3>3. ~Succeeds(TakeNumber(<< >>, 1))
      BY NothingTaken
    <3> QED
      BY <3>2, <3>3, Zenon DEF TakeVarUint, Then
  <2>2. ASSUME NEW y \in Stream, IsCut(y, l), x = m \o y PROVE ~Succeeds(TakeVarUint(x))
    <3>1. ~Succeeds(TakeNumber(y, width))
      BY <1>3, <2>2, Zenon DEF NumberRead
    <3> QED
      BY <1>4, <2>2, <3>1, Zenon DEF m
  <2> QED
    BY <1>2, <1>7, <2>1, <2>2, Cut, Zenon
<1>8. UintRead(m \o l, n)
  BY <1>5, <1>6, <1>7, Zenon DEF UintRead
<1>9. QED
  BY <1>8, Zenon DEF m, l

\* A length in any of its forms is read back.
LEMMA UintIsRead ==
    ASSUME NEW n \in Nat, n < Power(4)
    PROVE  UintRead(VarUint(n), n)
<1>1. CASE n < Base - 3
  <2> DEFINE w == <<n>>
  <2>1. w \in Stream /\ Len(w) = 1 /\ VarUint(n) = w
    BY <1>1, Streams, Zenon DEF VarUint
  <2>2. ASSUME NEW rest \in Stream PROVE TakeVarUint(w \o rest) = Ok(<<n, rest>>)
    <3>1. TakeVarUint(<<n>> \o rest) =
             CASE n = Base - 3 -> TakeNumber(rest, 2)
               [] n = Base - 2 -> TakeNumber(rest, 4)
               [] n = Base - 1 -> TakeNumber(rest, 8)
               [] OTHER -> Ok(<<n, rest>>)
      BY FirstOfUint, Zenon
    <3>2. n # Base - 3 /\ n # Base - 2 /\ n # Base - 1
      BY <1>1, BaseFacts
    <3> QED
      BY <3>1, <3>2
  <2> HIDE DEF w
  <2>3. ASSUME NEW x, IsCut(x, w) PROVE ~Succeeds(TakeVarUint(x))
    <3>1. x \in Stream /\ Len(x) < 1
      BY <2>1, <2>3, CutStream, Zenon
    <3>2. x = << >>
      BY <3>1 DEF Stream
    <3>3. ~Succeeds(TakeNumber(<< >>, 1))
      BY NothingTaken
    <3> QED
      BY <3>2, <3>3, Zenon DEF TakeVarUint, Then
  <2> QED
    BY <2>1, <2>2, <2>3, Zenon DEF UintRead
<1>2. CASE ~(n < Base - 3) /\ n < Power(2)
  <2>3. UintRead(<<Base - 3>> \o LittleEndian(n, 2), n)
    <3> DEFINE m == Base - 3
    <3>1. m \in Nat /\ 2 \in Nat /\ n < Power(2)
      BY <1>2, BaseFacts
    <3>2. m = Base - 3
      OBVIOUS
    <3> HIDE DEF m
    <3>3. UintRead(<<m>> \o LittleEndian(n, 2), n)
      BY <3>1, <3>2, MarkedIsRead
    <3> QED
      BY <3>3, Zenon DEF m
  <2>1. VarUint(n) = <<Base - 3>> \o LittleEndian(n, 2)
    BY <1>2, Zenon DEF VarUint
  <2> QED
    BY <2>1, <2>3, Zenon
<1>3. CASE ~(n < Base - 3) /\ ~(n < Power(2))
  <2>1. VarUint(n) = <<Base - 2>> \o LittleEndian(n, 4)
    BY <1>3, Zenon DEF VarUint
  <2>2. Base - 2 \in Nat /\ 4 \in Nat
    BY BaseFacts
  <2> QED
    BY <1>3, <2>1, <2>2, MarkedIsRead, Zenon
<1>4. QED
  BY <1>1, <1>2, <1>3, Zenon

\* The same for byte arrays.
BytesRead(w, v) ==
    /\ w \in Stream
    /\ \A rest \in Stream : TakeVarBytes(w \o rest) = Ok(<<v, rest>>)
    /\ \A x : IsCut(x, w) => ~Succeeds(TakeVarBytes(x))

\* Bytes with their length in front are read back.
LEMMA BytesAreRead ==
    ASSUME NEW b \in Stream, Len(b) <= MaxArraySize
    PROVE  BytesRead(VarBytes(b), b)
<1> DEFINE n == Len(b)
           u == VarUint(n)
<1>1. n \in Nat /\ n < Power(4) /\ ~(n > MaxArraySize)
  <2>1. MaxArraySize \in Nat /\ MaxArraySize < Power(4)
    BY ExchangeAssumption
  <2>2. Power(4) \in Nat
    <3>1. PICK p : ArePowers(p, 4)
      BY BaseFacts, PowerFunction
    <3>2. Power(4) = p[4] /\ p \in [0..4 -> Nat]
      BY <3>1, Zenon DEF ArePowers
    <3> QED
      BY <3>2
  <2>3. n \in Nat
    BY Streams, Zenon
  <2> HIDE DEF n
  <2>4. n <= MaxArraySize
    BY DEF n
  <2> QED
    BY <2>1, <2>2, <2>3, <2>4
<1> HIDE DEF n
<1>2. UintRead(u, n)
  BY <1>1, UintIsRead, Zenon
<1> HIDE DEF u
<1>3. u \in Stream /\ VarBytes(b) = u \o b
  BY <1>2, Zenon DEF UintRead, VarBytes, u, n
<1>4. \A rest \in Stream : TakeVarBytes(u \o rest) = Take(rest, n)
  <2> SUFFICES ASSUME NEW rest \in Stream PROVE TakeVarBytes(u \o rest) = Take(rest, n)
    OBVIOUS
  <2> DEFINE t == TakeVarUint(u \o rest)
  <2>1. t = Ok(<<n, rest>>)
    BY <1>2, Zenon DEF UintRead
  <2>2. Succeeds(t) /\ t[2][1] = n /\ t[2][2] = rest
    BY <2>1 DEF Ok, Succeeds
  <2> HIDE DEF t
  <2> QED
    BY <1>1, <2>2, Zenon DEF TakeVarBytes, Then, t
<1>5. ASSUME NEW rest \in Stream PROVE TakeVarBytes((u \o b) \o rest) = Ok(<<b, rest>>)
  <2>1. (u \o b) \o rest = u \o (b \o rest) /\ b \o rest \in Stream
    BY <1>3, Streams, Zenon
  <2>2. Take(b \o rest, n) = Ok(<<b, rest>>)
    BY TakeRead, Zenon DEF n
  <2> QED
    BY <1>4, <2>1, <2>2, Zenon
<1>6. ASSUME NEW x, IsCut(x, u \o b) PROVE ~Succeeds(TakeVarBytes(x))
  <2>1. CASE IsCut(x, u)
    <3>1. ~Succeeds(TakeVarUint(x))
      BY <1>2, <2>1, Zenon DEF UintRead
    <3> QED
      BY <3>1, Zenon DEF TakeVarBytes, Then
  <2>2. ASSUME NEW y \in Stream, IsCut(y, b), x = u \o y PROVE ~Succeeds(TakeVarBytes(x))
    <3>1. Len(y) < n
      BY <2>2, CutStream, Zenon DEF n
    <3>2. ~Succeeds(Take(y, n))
      BY <1>1, <3>1, TakeLess, Zenon
    <3> QED
      BY <1>4, <2>2, <3>2, Zenon
  <2> QED
    BY <1>3, <1>6, <2>1, <2>2, Cut, Zenon
<1>7. u \o b \in Stream
  BY <1>3, Streams, Zenon
<1>8. QED
  BY <1>3, <1>5, <1>6, <1>7, Zenon DEF BytesRead

-----------------------------------------------------------------------------
(* Texts: the characters are found again.                                    *)

\* One character more.
NextCharacter(code, r) ==
    IF Succeeds(r)
      THEN IF r[2][2] = << >> THEN Ok(<<r[2][1], r[2][2]>>)
           ELSE IF Succeeds(TakeCharacter(code, r[2][2]))
                  THEN Ok(<<Append(r[2][1], TakeCharacter(code, r[2][2])[2][1]),
                            TakeCharacter(code, r[2][2])[2][2]>>)
                  ELSE TakeCharacter(code, r[2][2])
      ELSE r

\* What FromUtf has read after k characters.
CharactersAt(code, k, units) ==
    LET read[i \in 0..Len(units)] ==
          IF i = 0 THEN Ok(<<<< >>, units>>)
          ELSE Then(read[i - 1], LAMBDA text, left :
                 IF left = << >> THEN Ok(<<text, left>>)
                 ELSE Then(TakeCharacter(code, left), LAMBDA c, more : Ok(<<Append(text, c), more>>)))
    IN  read[k]

\* A function with the results after so many characters.
AreCharacters(f, code, units) ==
    /\ \A k : CharactersAt(code, k, units) = f[k]
    /\ f = [i \in 0..Len(units) |->
              IF i = 0 THEN Ok(<<<< >>, units>>) ELSE NextCharacter(code, f[i - 1])]

\* The recursive definition is such a function.
LEMMA CharactersFunction ==
    ASSUME NEW code, NEW units, Len(units) \in Nat
    PROVE  \E f : AreCharacters(f, code, units)
<1> DEFINE value(i, x) == IF i = 0 THEN Ok(<<<< >>, units>>) ELSE NextCharacter(code, x)
           right(k, f) == f = [i \in 0..k |-> value(i, f[i - 1])]
           S == {k \in Nat : \E f : right(k, f)}
<1>1. Len(units) \in Nat
  OBVIOUS
<1>2. 0 \in S
  <2> DEFINE f == [i \in 0..0 |-> value(0, 0)]
  <2>1. right(0, f)
    OBVIOUS
  <2> HIDE DEF right, f
  <2> QED
    BY <2>1
<1>3. ASSUME NEW k \in Nat, k \in S PROVE k + 1 \in S
  <2>1. PICK f : right(k, f)
    BY <1>3
  <2>2. \A x, y : value(0, x) = value(0, y)
    OBVIOUS
  <2> HIDE DEF value
  <2> DEFINE g == [i \in 0..(k + 1) |-> IF i <= k THEN f[i] ELSE value(i, f[i - 1])]
  <2>3. ASSUME NEW i \in 0..(k + 1) PROVE g[i] = value(i, g[i - 1])
    <3>1. CASE i = 0
      BY <2>1, <2>2, <3>1
    <3>2. CASE i > 0
      <4>1. g[i - 1] = f[i - 1]
        BY <3>2
      <4>2. g[i] = value(i, f[i - 1])
        BY <2>1, <3>2
      <4> QED
        BY <4>1, <4>2
    <3> QED
      BY <3>1, <3>2
  <2>4. right(k + 1, g)
    BY <2>3
  <2> HIDE DEF right, g
  <2> QED
    BY <2>4
<1>4. \E f : right(Len(units), f)
  <2>1. Len(units) \in S
    <3> HIDE DEF S
    <3> QED
      BY <1>1, <1>2, <1>3, NumberInduction
  <2> QED
    BY <2>1
<1>5. QED
  BY <1>4 DEF AreCharacters, CharactersAt, NextCharacter, Then

\* FromUtf reads one character after another.
LEMMA CharactersFacts ==
    ASSUME NEW code, NEW units, Len(units) \in Nat
    PROVE  /\ FromUtf(code, units) =
                IF Succeeds(CharactersAt(code, Len(units), units))
                  THEN Ok(CharactersAt(code, Len(units), units)[2][1])
                  ELSE CharactersAt(code, Len(units), units)
           /\ CharactersAt(code, 0, units) = Ok(<<<< >>, units>>)
           /\ \A k \in Nat : k < Len(units) =>
                 CharactersAt(code, k + 1, units) = NextCharacter(code, CharactersAt(code, k, units))
<1>1. PICK f : /\ \A k : CharactersAt(code, k, units) = f[k]
               /\ f = [i \in 0..Len(units) |->
                         IF i = 0 THEN Ok(<<<< >>, units>>) ELSE NextCharacter(code, f[i - 1])]
  <2>1. \E f : AreCharacters(f, code, units)
    BY CharactersFunction, Zenon
  <2> QED
    BY <2>1, Zenon DEF AreCharacters
<1>2. FromUtf(code, units) =
                IF Succeeds(CharactersAt(code, Len(units), units))
                  THEN Ok(CharactersAt(code, Len(units), units)[2][1])
                  ELSE CharactersAt(code, Len(units), units)
  BY Zenon DEF FromUtf, CharactersAt, Then
<1>3. CharactersAt(code, 0, units) = Ok(<<<< >>, units>>)
  <2>1. 0 \in 0..Len(units)
    OBVIOUS
  <2>2. f[0] = Ok(<<<< >>, units>>)
    BY <1>1, <2>1
  <2> QED
    BY <1>1, <2>2
<1>4. ASSUME NEW k \in Nat, k < Len(units)
      PROVE  CharactersAt(code, k + 1, units) = NextCharacter(code, CharactersAt(code, k, units))
  <2>1. k + 1 \in 0..Len(units) /\ k + 1 # 0 /\ (k + 1) - 1 = k
    BY <1>4
  <2>2. f[k + 1] = NextCharacter(code, f[k])
    BY <1>1, <2>1
  <2> QED
    BY <1>1, <2>2
<1>5. QED
  BY <1>2, <1>3, <1>4

\* What is assumed of the bytes of a character.
LEMMA CodeFacts ==
    /\ \A c \in Characters : Utf8[c] \in Stream /\ Utf8[c] # << >> /\ Len(Utf8[c]) \in Nat
                             /\ Len(Utf8[c]) >= 1
    /\ \A c, d \in Characters : c # d => ~Starts(Utf8[c], Utf8[d])
<1>1. ASSUME NEW c \in Characters
      PROVE  Utf8[c] \in Stream /\ Utf8[c] # << >> /\ Len(Utf8[c]) \in Nat /\ Len(Utf8[c]) >= 1
  <2> DEFINE u == Utf8[c]
  <2>1. u \in Bytes /\ u # << >>
    BY ExchangeAssumption DEF Bytes
  <2> HIDE DEF u
  <2>2. u \in Stream
    BY <2>1, BytesStream, Zenon
  <2>3. Len(u) \in Nat /\ Len(u) >= 1
    BY <2>1, <2>2 DEF Stream
  <2> QED
    BY <2>1, <2>2, <2>3, Zenon DEF u
<1>2. \A c, d \in Characters : c # d => ~Starts(Utf8[c], Utf8[d])
  BY ExchangeAssumption
<1>3. QED
  BY <1>1, <1>2, Zenon

\* Of two beginnings one begins with the other.
LEMMA StartsEither ==
    ASSUME NEW a \in Stream, NEW b \in Stream, NEW x \in Stream, Starts(a, x), Starts(b, x)
    PROVE  Starts(a, b) \/ Starts(b, a)
<1>1. /\ Len(a) \in Nat /\ Len(b) \in Nat /\ Len(x) \in Nat
      /\ Len(a) <= Len(x) /\ Len(b) <= Len(x)
  BY Streams DEF Starts
<1>2. ASSUME NEW u \in Stream, NEW v \in Stream, Starts(u, x), Starts(v, x), Len(u) <= Len(v)
      PROVE  Starts(u, v)
  <2> DEFINE w == SubSeq(v, 1, Len(u))
  <2>1. /\ Len(u) \in Nat /\ Len(v) \in Nat /\ Len(x) \in Nat
        /\ Len(u) <= Len(x) /\ Len(v) <= Len(x)
    BY <1>2, Streams DEF Starts
  <2>2. SubSeq(x, 1, Len(u)) = u /\ SubSeq(x, 1, Len(v)) = v
    BY <1>2, Zenon DEF Starts
  <2>3. Len(u) \in 0..Len(x) /\ Len(v) \in 0..Len(x) /\ Len(u) \in 0..Len(v)
    BY <1>2, <2>1
  <2>4. \A i \in 1..Len(u) : u[i] = x[i]
    BY <2>2, <2>3, Front, Zenon
  <2>5. \A i \in 1..Len(v) : v[i] = x[i]
    BY <2>2, <2>3, Front, Zenon
  <2>6. w \in Stream /\ Len(w) = Len(u) /\ \A i \in 1..Len(u) : w[i] = v[i]
    BY <2>3, Front, Zenon
  <2>7. \A i \in 1..Len(u) : i \in 1..Len(v)
    BY <1>2, <2>1
  <2> HIDE DEF w
  <2>8. w = u
    <3>1. \A i \in 1..Len(w) : w[i] = u[i]
      BY <2>4, <2>5, <2>6, <2>7, Zenon
    <3> QED
      BY <2>6, <3>1, Same, Zenon
  <2> QED
    BY <1>2, <2>8, Zenon DEF Starts, w
<1>3. Len(a) <= Len(b) \/ Len(b) <= Len(a)
  BY <1>1
<1>4. QED
  BY <1>2, <1>3, Zenon

\* A character at the front is found.
LEMMA CharacterRead ==
    ASSUME NEW c \in Characters, NEW rest \in Stream
    PROVE  TakeCharacter(Utf8, Utf8[c] \o rest) = Ok(<<c, rest>>)
<1> DEFINE u == Utf8[c]
           x == u \o rest
           d == CHOOSE d \in Characters : Starts(Utf8[d], x)
<1>1. u \in Stream /\ x \in Stream
  BY CodeFacts, Streams, Zenon
<1>2. Starts(u, x)
  <2> HIDE DEF u
  <2>1. Len(u) <= Len(x)
    BY <1>1, Concatenation
  <2>2. SubSeq(x, 1, Len(u)) = u
    BY <1>1, Parts, Zenon
  <2> QED
    BY <2>1, <2>2, Zenon DEF Starts
<1>3. d \in Characters /\ Starts(Utf8[d], x)
  BY <1>2, Zenon
<1>4. d = c
  <2>1. Utf8[d] \in Stream
    BY <1>3, CodeFacts, Zenon
  <2>2. Starts(Utf8[d], u) \/ Starts(u, Utf8[d])
    BY <1>1, <1>2, <1>3, <2>1, StartsEither, Zenon
  <2> QED
    BY <1>3, <2>2, CodeFacts, Zenon
<1>5. TakeCharacter(Utf8, x) = Ok(<<d, SubSeq(x, Len(Utf8[d]) + 1, Len(x))>>)
  BY <1>3, Zenon DEF TakeCharacter
<1>6. SubSeq(x, Len(u) + 1, Len(x)) = rest
  BY <1>1, Parts, Zenon
<1>7. QED
  BY <1>4, <1>5, <1>6, Zenon

\* One element more of a sequence.
LEMMA OneMore ==
    ASSUME NEW S, NEW t \in Seq(S), NEW i \in Nat, i + 1 <= Len(t)
    PROVE  Append(SubSeq(t, 1, i), t[i + 1]) = SubSeq(t, 1, i + 1)
<1> DEFINE u == Append(SubSeq(t, 1, i), t[i + 1])
           v == SubSeq(t, 1, i + 1)
<1>1. SubSeq(t, 1, i) \in Seq(S) /\ Len(SubSeq(t, 1, i)) = i /\ t[i + 1] \in S
      /\ \A j \in 1..i : SubSeq(t, 1, i)[j] = t[j]
  OBVIOUS
<1>2. u \in Seq(S) /\ Len(u) = i + 1 /\ \A j \in 1..i : u[j] = t[j]
  BY <1>1
<1>3. u[i + 1] = t[i + 1]
  BY <1>1
<1>4. v \in Seq(S) /\ Len(v) = i + 1 /\ \A j \in 1..(i + 1) : v[j] = t[j]
  OBVIOUS
<1> HIDE DEF u, v
<1>5. \A j \in 1..(i + 1) : u[j] = v[j]
  <2>1. \A j \in 1..(i + 1) : j \in 1..i \/ j = i + 1
    OBVIOUS
  <2> QED
    BY <1>2, <1>3, <1>4, <2>1, Zenon
<1>6. u = v
  BY <1>2, <1>4, <1>5
<1>7. QED
  BY <1>6 DEF u, v

\* A text is read as it was.
LEMMA TextBack ==
    ASSUME NEW t \in Seq(Characters)
    PROVE  FromUtf(Utf8, Encoded(Utf8, t)) = Ok(t)
<1> DEFINE L == Len(t)
           units == Encoded(Utf8, t)
<1>1. L \in Nat /\ \A i \in 1..L : t[i] \in Characters
  BY Elements, Zenon
<1>2. PICK f : AreUnits(f, Utf8, t)
  <2>1. \A c \in Characters : Utf8[c] \in Seq(Nat)
    BY CodeFacts, Zenon DEF Stream
  <2> QED
    BY <2>1, EncodedFunction, Zenon
<1>3. /\ units = f[L] /\ f \in [0..L -> Stream] /\ f[0] = << >>
      /\ \A i \in 1..L : f[i] = f[i - 1] \o Utf8[t[i]]
  BY <1>2, Zenon DEF AreUnits, Stream
<1> HIDE DEF L, units
<1> DEFINE S == {i \in Nat : i <= L =>
                   /\ f[i] \in Stream /\ Len(f[i]) >= i
                   /\ \A rest \in Stream :
                        CharactersAt(Utf8, i, f[i] \o rest) = Ok(<<SubSeq(t, 1, i), rest>>)}
<1>4. 0 \in S
  <2>1. << >> \in Stream /\ Len(<< >>) = 0 /\ SubSeq(t, 1, 0) = << >>
    BY DEF Stream
  <2>2. ASSUME NEW rest \in Stream PROVE CharactersAt(Utf8, 0, << >> \o rest) = Ok(<<<< >>, rest>>)
    <3>1. << >> \o rest = rest /\ Len(rest) \in Nat
      BY Streams, Zenon
    <3> QED
      BY <3>1, CharactersFacts, Zenon
  <2>3. Len(<< >>) >= 0
    BY <2>1
  <2>4. 0 \in Nat
    OBVIOUS
  <2> QED
    BY <1>3, <2>1, <2>2, <2>3, <2>4, Zenon
<1>5. ASSUME NEW i \in Nat, i \in S PROVE i + 1 \in S
  <2> DEFINE u == f[i]
             w == Utf8[t[i + 1]]
             c == t[i + 1]
  <2> SUFFICES ASSUME i + 1 <= L
               PROVE  /\ f[i + 1] \in Stream /\ Len(f[i + 1]) >= i + 1
                      /\ \A rest \in Stream :
                           CharactersAt(Utf8, i + 1, f[i + 1] \o rest) = Ok(<<SubSeq(t, 1, i + 1), rest>>)
    OBVIOUS
  <2>1. i <= L /\ i + 1 \in 1..L /\ (i + 1) - 1 = i
    BY <1>1
  <2>2. /\ u \in Stream /\ Len(u) >= i
        /\ \A rest \in Stream : CharactersAt(Utf8, i, u \o rest) = Ok(<<SubSeq(t, 1, i), rest>>)
    BY <1>5, <2>1, Zenon
  <2>3. c \in Characters /\ w \in Stream /\ Len(w) >= 1
    BY <1>1, <2>1, CodeFacts, Zenon
  <2>4. f[i + 1] = u \o w
    BY <1>3, <2>1, Zenon
  <2>5. Append(SubSeq(t, 1, i), c) = SubSeq(t, 1, i + 1)
    BY OneMore DEF L
  <2> HIDE DEF u
  <2>6. u \o w \in Stream /\ Len(u \o w) >= i + 1
    <3>1. /\ u \o w \in Stream /\ Len(u \o w) = Len(u) + Len(w)
          /\ Len(u) \in Nat /\ Len(w) \in Nat
      BY <2>2, <2>3, Concatenation, Zenon
    <3> HIDE DEF w
    <3> QED
      BY <2>2, <2>3, <3>1
  <2>7. ASSUME NEW rest \in Stream
        PROVE  CharactersAt(Utf8, i + 1, (u \o w) \o rest) = Ok(<<SubSeq(t, 1, i + 1), rest>>)
    <3> DEFINE all == (u \o w) \o rest
               r == CharactersAt(Utf8, i, all)
               more == w \o rest
    <3>1. all = u \o more /\ more \in Stream
      BY <2>2, <2>3, InARow, Zenon
    <3>2. r = Ok(<<SubSeq(t, 1, i), more>>)
      BY <2>2, <3>1, Zenon
    <3>3. Len(all) \in Nat /\ i < Len(all)
      <4>1. Len(all) = Len(u \o w) + Len(rest) /\ Len(u \o w) \in Nat /\ Len(rest) \in Nat
        BY <2>6, Concatenation, Zenon
      <4> HIDE DEF all, w
      <4> QED
        BY <2>6, <4>1
    <3>4. CharactersAt(Utf8, i + 1, all) = NextCharacter(Utf8, r)
      BY <3>3, CharactersFacts, Zenon
    <3>5. TakeCharacter(Utf8, more) = Ok(<<c, rest>>)
      BY <2>3, CharacterRead, Zenon
    <3>6. more # << >>
      <4>1. Len(more) = Len(w) + Len(rest) /\ Len(rest) \in Nat /\ Len(w) \in Nat
        BY <2>3, Concatenation, Zenon
      <4>2. Len(more) # 0
        <5> HIDE DEF more, w
        <5> QED
          BY <2>3, <4>1
      <4> QED
        BY <4>2
    <3> HIDE DEF r, more, all, w, c
    <3>7. Succeeds(r) /\ r[2][1] = SubSeq(t, 1, i) /\ r[2][2] = more
      BY <3>2 DEF Ok, Succeeds
    <3> DEFINE k == TakeCharacter(Utf8, more)
    <3>8. Succeeds(k) /\ k[2][1] = c /\ k[2][2] = rest
      BY <3>5 DEF Ok, Succeeds
    <3>9. NextCharacter(Utf8, r) = Ok(<<Append(SubSeq(t, 1, i), c), rest>>)
      BY <3>6, <3>7, <3>8, Zenon DEF NextCharacter
    <3> QED
      BY <2>5, <3>4, <3>9, Zenon DEF all
  <2> QED
    BY <2>4, <2>6, <2>7, Zenon
<1>6. Nat \subseteq S
  <2> HIDE DEF S
  <2> QED
    BY <1>4, <1>5, NumberInduction
<1>7. /\ units \in Stream /\ Len(units) >= L
      /\ CharactersAt(Utf8, L, units) = Ok(<<t, << >>>>)
  <2>1. L <= L /\ L \in S
    BY <1>1, <1>6
  <2>2. /\ units \in Stream /\ Len(units) >= L
        /\ CharactersAt(Utf8, L, units \o << >>) = Ok(<<SubSeq(t, 1, L), << >>>>)
    BY <1>3, <2>1, Streams, Zenon
  <2>3. SubSeq(t, 1, L) = t
    BY DEF L
  <2> QED
    BY <2>2, <2>3, Streams, Zenon
<1> HIDE DEF S
<1> DEFINE done == Ok(<<t, << >>>>)
           T == {i \in Nat : i >= L /\ i <= Len(units) => CharactersAt(Utf8, i, units) = done}
<1>8. NextCharacter(Utf8, done) = done
  <2>1. Succeeds(done) /\ done[2][1] = t /\ done[2][2] = << >>
    BY DEF Ok, Succeeds
  <2> QED
    BY <2>1, Zenon DEF NextCharacter
<1>9. Len(units) \in Nat
  BY <1>7, Streams, Zenon
<1> HIDE DEF done
<1>10. ASSUME NEW i \in Nat, i \in T PROVE i + 1 \in T
  <2> SUFFICES ASSUME i + 1 >= L, i + 1 <= Len(units) PROVE CharactersAt(Utf8, i + 1, units) = done
    OBVIOUS
  <2>1. CASE i + 1 = L
    BY <1>7, <2>1, Zenon DEF done
  <2>2. CASE i >= L
    <3>1. i < Len(units)
      BY <1>9
    <3>2. CharactersAt(Utf8, i, units) = done
      BY <1>9, <1>10, <2>2
    <3> QED
      BY <1>8, <1>9, <3>1, <3>2, CharactersFacts, Zenon
  <2> QED
    BY <1>1, <2>1, <2>2
<1>11. 0 \in T
  <2>1. CASE L = 0
    BY <1>7, <2>1 DEF done
  <2>2. CASE L # 0
    BY <1>1, <2>2
  <2> QED
    BY <2>1, <2>2
<1>12. CharactersAt(Utf8, Len(units), units) = done
  <2>1. Nat \subseteq T
    <3> HIDE DEF T
    <3> QED
      BY <1>10, <1>11, NumberInduction
  <2>2. Len(units) >= L /\ Len(units) <= Len(units)
    BY <1>7, <1>9
  <2> QED
    BY <1>9, <2>1, <2>2
<1>13. FromUtf(Utf8, units) = Ok(t)
  <2>1. Succeeds(done) /\ done[2][1] = t
    BY DEF Ok, Succeeds, done
  <2> QED
    BY <1>9, <1>12, <2>1, CharactersFacts, Zenon
<1>14. QED
  BY <1>13 DEF units

-----------------------------------------------------------------------------
(* Fields.                                                                   *)

\* The same for a field.
FieldRead(kind, w, v) ==
    /\ w \in Stream
    /\ \A rest \in Stream : TakeField(kind, w \o rest) = Ok(<<v, rest>>)
    /\ \A x : IsCut(x, w) => ~Succeeds(TakeField(kind, x))

\* Numbers of four bytes.
LEMMA NumberField ==
    ASSUME NEW n \in Nat, n < Power(4)
    PROVE  FieldRead("u32", WriteField("u32", n), n)
<1> DEFINE w == LittleEndian(n, 4)
<1>1. w \in Bytes /\ Len(w) = 4 /\ FromLittleEndian(w) = n
  BY LittleEndianBack
<1>2. WriteField("u32", n) = w
  BY DEF WriteField
<1>3. \A x : TakeField("u32", x) = TakeNumber(x, 4)
  BY DEF TakeField
<1> HIDE DEF w
<1>4. NumberRead(w, 4, n)
  BY <1>1, BytesStream, NumberIsRead
<1>5. QED
  BY <1>2, <1>3, <1>4, Zenon DEF FieldRead, NumberRead

\* Byte arrays.
LEMMA BytesField ==
    ASSUME NEW b \in Stream, Len(b) <= MaxArraySize
    PROVE  FieldRead("bytes", WriteField("bytes", b), b)
<1>1. BytesRead(VarBytes(b), b)
  BY BytesAreRead
<1>2. WriteField("bytes", b) = VarBytes(b)
  BY DEF WriteField
<1>3. \A x : TakeField("bytes", x) = TakeVarBytes(x)
  BY DEF TakeField
<1>4. QED
  BY <1>1, <1>2, <1>3, Zenon DEF FieldRead, BytesRead

\* Texts.
LEMMA TextField ==
    ASSUME NEW t \in Seq(Characters), Len(Encoded(Utf8, t)) <= MaxArraySize
    PROVE  FieldRead("text", WriteField("text", t), t)
<1> DEFINE u == Encoded(Utf8, t)
           w == VarBytes(u)
<1>1. u \in Stream
  <2>1. \A c \in Characters : Utf8[c] \in Seq(Nat)
    BY CodeFacts, Zenon DEF Stream
  <2>2. PICK f : AreUnits(f, Utf8, t)
    BY <2>1, EncodedFunction, Zenon
  <2>3. u = f[Len(t)] /\ f \in [0..Len(t) -> Seq(Nat)]
    BY <2>2, Zenon DEF AreUnits
  <2> QED
    BY <2>3 DEF Stream
<1>2. FromUtf(Utf8, u) = Ok(t)
  BY TextBack, Zenon
<1>3. WriteField("text", t) = w
  BY DEF WriteField
<1>4. Len(u) <= MaxArraySize
  OBVIOUS
<1> HIDE DEF u
<1>5. BytesRead(w, u)
  BY <1>1, <1>4, BytesAreRead, Zenon
<1>6. \A x : TakeField("text", x) =
               IF ~Succeeds(TakeVarBytes(x)) THEN TakeVarBytes(x)
               ELSE IF Succeeds(FromUtf(Utf8, TakeVarBytes(x)[2][1]))
                 THEN Ok(<<FromUtf(Utf8, TakeVarBytes(x)[2][1])[2], TakeVarBytes(x)[2][2]>>)
                 ELSE FromUtf(Utf8, TakeVarBytes(x)[2][1])
  BY DEF TakeField, Then
<1> HIDE DEF w
<1>7. ASSUME NEW rest \in Stream PROVE TakeField("text", w \o rest) = Ok(<<t, rest>>)
  <2> DEFINE r == TakeVarBytes(w \o rest)
             k == FromUtf(Utf8, u)
  <2>1. r = Ok(<<u, rest>>)
    BY <1>5, Zenon DEF BytesRead
  <2>2. Succeeds(r) /\ r[2][1] = u /\ r[2][2] = rest
    BY <2>1 DEF Ok, Succeeds
  <2>3. Succeeds(k) /\ k[2] = t
    BY <1>2 DEF Ok, Succeeds
  <2> QED
    BY <1>6, <2>2, <2>3, Zenon
<1>8. ASSUME NEW x, IsCut(x, w) PROVE ~Succeeds(TakeField("text", x))
  BY <1>5, <1>6, <1>8, Zenon DEF BytesRead
<1>9. w \in Stream
  BY <1>5, Zenon DEF BytesRead
<1>10. QED
  BY <1>3, <1>7, <1>8, <1>9, Zenon DEF FieldRead

\* Signatures: their kind, and their bytes.
LEMMA SignatureField ==
    ASSUME NEW d \in Stream, Len(d) = SignatureBytes
    PROVE  FieldRead("signature", WriteField("signature", d), d)
<1> DEFINE m == <<ED25519>>
           b == VarBytes(d)
           w == m \o b
<1>1. BytesRead(b, d)
  <2>1. Len(d) <= MaxArraySize
    BY ExchangeAssumption
  <2> QED
    BY <2>1, BytesAreRead, Zenon
<1>2. WriteField("signature", d) = w
  BY DEF WriteField
<1>3. m \in Stream /\ Len(m) = 1 /\ NumberRead(m, 1, ED25519)
  <2>1. ED25519 \in Nat
    BY DEF ED25519
  <2>2. m \in Stream /\ Len(m) = 1 /\ FromLittleEndian(m) = ED25519
    BY <2>1, Streams, OneByte, Zenon
  <2> HIDE DEF m
  <2>3. NumberRead(m, Len(m), FromLittleEndian(m))
    BY <2>2, NumberIsRead, Zenon
  <2> QED
    BY <2>2, <2>3, Zenon
<1>4. \A x : TakeField("signature", x) =
               IF ~Succeeds(TakeNumber(x, 1)) THEN TakeNumber(x, 1)
               ELSE IF TakeNumber(x, 1)[2][1] # ED25519 THEN Raise("ValueError")
               ELSE IF ~Succeeds(TakeVarBytes(TakeNumber(x, 1)[2][2]))
                 THEN TakeVarBytes(TakeNumber(x, 1)[2][2])
               ELSE IF Len(TakeVarBytes(TakeNumber(x, 1)[2][2])[2][1]) # SignatureBytes
                 THEN Raise("CryptoError")
                 ELSE Ok(<<TakeVarBytes(TakeNumber(x, 1)[2][2])[2][1],
                           TakeVarBytes(TakeNumber(x, 1)[2][2])[2][2]>>)
  BY DEF TakeField, Then
<1> HIDE DEF m, b
<1>5. b \in Stream
  BY <1>1, Zenon DEF BytesRead
<1>6. \A y \in Stream : /\ Succeeds(TakeNumber(m \o y, 1))
                        /\ TakeNumber(m \o y, 1)[2][1] = ED25519 /\ TakeNumber(m \o y, 1)[2][2] = y
  <2> SUFFICES ASSUME NEW y \in Stream
               PROVE  /\ Succeeds(TakeNumber(m \o y, 1))
                      /\ TakeNumber(m \o y, 1)[2][1] = ED25519 /\ TakeNumber(m \o y, 1)[2][2] = y
    OBVIOUS
  <2>1. TakeNumber(m \o y, 1) = Ok(<<ED25519, y>>)
    BY <1>3, Zenon DEF NumberRead
  <2> QED
    BY <2>1 DEF Ok, Succeeds
<1>7. ASSUME NEW rest \in Stream PROVE TakeField("signature", w \o rest) = Ok(<<d, rest>>)
  <2> DEFINE r == TakeVarBytes(b \o rest)
  <2>1. w \o rest = m \o (b \o rest) /\ b \o rest \in Stream
    BY <1>3, <1>5, InARow, Zenon
  <2>2. r = Ok(<<d, rest>>)
    BY <1>1, Zenon DEF BytesRead
  <2>3. Succeeds(r) /\ r[2][1] = d /\ r[2][2] = rest
    BY <2>2 DEF Ok, Succeeds
  <2> DEFINE y == b \o rest
             x == m \o y
             k == TakeNumber(x, 1)
  <2>4. Succeeds(k) /\ k[2][1] = ED25519 /\ k[2][2] = y
    BY <1>6, <2>1, Zenon
  <2> HIDE DEF k
  <2>5. TakeField("signature", x) =
               IF ~Succeeds(r) THEN r
               ELSE IF Len(r[2][1]) # SignatureBytes THEN Raise("CryptoError")
                 ELSE Ok(<<r[2][1], r[2][2]>>)
    BY <1>4, <2>4, Zenon DEF k
  <2>6. TakeField("signature", x) = Ok(<<d, rest>>)
    <3> HIDE DEF r, x
    <3> QED
      BY <2>3, <2>5, Zenon
  <2> QED
    BY <2>1, <2>6, Zenon
<1>8. ASSUME NEW x, IsCut(x, w) PROVE ~Succeeds(TakeField("signature", x))
  <2>1. CASE IsCut(x, m)
    <3>1. ~Succeeds(TakeNumber(x, 1))
      BY <1>3, <2>1, Zenon DEF NumberRead
    <3> QED
      BY <1>4, <3>1, Zenon
  <2>2. ASSUME NEW y \in Stream, IsCut(y, b), x = m \o y PROVE ~Succeeds(TakeField("signature", x))
    <3>1. ~Succeeds(TakeVarBytes(y))
      BY <1>1, <2>2, Zenon DEF BytesRead
    <3> QED
      BY <1>4, <1>6, <2>2, <3>1, Zenon
  <2> QED
    BY <1>3, <1>5, <1>8, <2>1, <2>2, Cut, Zenon
<1>9. w \in Stream
  BY <1>3, <1>5, Streams, Zenon
<1>10. QED
  BY <1>2, <1>7, <1>8, <1>9, Zenon DEF FieldRead

-----------------------------------------------------------------------------
(* Fields in a row.                                                          *)

\* One field more.
NextField(kinds, i, r) ==
    IF Succeeds(r)
      THEN IF Succeeds(TakeField(kinds[i], r[2][2]))
             THEN Ok(<<Append(r[2][1], TakeField(kinds[i], r[2][2])[2][1]),
                       TakeField(kinds[i], r[2][2])[2][2]>>)
             ELSE TakeField(kinds[i], r[2][2])
      ELSE r

\* What TakeFields has read after k fields.
FieldsAt(kinds, k, bytes) ==
    LET taken[i \in 0..Len(kinds)] ==
          IF i = 0 THEN Ok(<<<< >>, bytes>>)
          ELSE Then(taken[i - 1], LAMBDA values, rest :
                 Then(TakeField(kinds[i], rest), LAMBDA v, more : Ok(<<Append(values, v), more>>)))
    IN  taken[k]

\* A function with the results after so many fields.
AreFields(f, kinds, bytes) ==
    /\ \A k : FieldsAt(kinds, k, bytes) = f[k]
    /\ f = [i \in 0..Len(kinds) |->
              IF i = 0 THEN Ok(<<<< >>, bytes>>) ELSE NextField(kinds, i, f[i - 1])]

\* The recursive definition is such a function.
LEMMA FieldsTaken ==
    ASSUME NEW kinds, NEW bytes, Len(kinds) \in Nat
    PROVE  \E f : AreFields(f, kinds, bytes)
<1> DEFINE value(i, x) == IF i = 0 THEN Ok(<<<< >>, bytes>>) ELSE NextField(kinds, i, x)
           right(k, f) == f = [i \in 0..k |-> value(i, f[i - 1])]
           S == {k \in Nat : \E f : right(k, f)}
<1>1. Len(kinds) \in Nat
  OBVIOUS
<1>2. 0 \in S
  <2> DEFINE f == [i \in 0..0 |-> value(0, 0)]
  <2>1. right(0, f)
    OBVIOUS
  <2> HIDE DEF right, f
  <2> QED
    BY <2>1
<1>3. ASSUME NEW k \in Nat, k \in S PROVE k + 1 \in S
  <2>1. PICK f : right(k, f)
    BY <1>3
  <2>2. \A x, y : value(0, x) = value(0, y)
    OBVIOUS
  <2> HIDE DEF value
  <2> DEFINE g == [i \in 0..(k + 1) |-> IF i <= k THEN f[i] ELSE value(i, f[i - 1])]
  <2>3. ASSUME NEW i \in 0..(k + 1) PROVE g[i] = value(i, g[i - 1])
    <3>1. CASE i = 0
      BY <2>1, <2>2, <3>1
    <3>2. CASE i > 0
      <4>1. g[i - 1] = f[i - 1]
        BY <3>2
      <4>2. g[i] = value(i, f[i - 1])
        BY <2>1, <3>2
      <4> QED
        BY <4>1, <4>2
    <3> QED
      BY <3>1, <3>2
  <2>4. right(k + 1, g)
    BY <2>3
  <2> HIDE DEF right, g
  <2> QED
    BY <2>4
<1>4. \E f : right(Len(kinds), f)
  <2>1. Len(kinds) \in S
    <3> HIDE DEF S
    <3> QED
      BY <1>1, <1>2, <1>3, NumberInduction
  <2> QED
    BY <2>1
<1>5. QED
  BY <1>4 DEF AreFields, FieldsAt, NextField, Then

\* TakeFields reads one field after another.
LEMMA FieldsFacts ==
    ASSUME NEW kinds, NEW bytes, Len(kinds) \in Nat
    PROVE  /\ TakeFields(kinds, bytes) = FieldsAt(kinds, Len(kinds), bytes)
           /\ FieldsAt(kinds, 0, bytes) = Ok(<<<< >>, bytes>>)
           /\ \A k \in Nat : k < Len(kinds) =>
                 FieldsAt(kinds, k + 1, bytes) = NextField(kinds, k + 1, FieldsAt(kinds, k, bytes))
<1>1. PICK f : /\ \A k : FieldsAt(kinds, k, bytes) = f[k]
               /\ f = [i \in 0..Len(kinds) |->
                         IF i = 0 THEN Ok(<<<< >>, bytes>>) ELSE NextField(kinds, i, f[i - 1])]
  <2>1. \E f : AreFields(f, kinds, bytes)
    BY FieldsTaken, Zenon
  <2> QED
    BY <2>1, Zenon DEF AreFields
<1>2. TakeFields(kinds, bytes) = FieldsAt(kinds, Len(kinds), bytes)
  BY DEF TakeFields, FieldsAt, Then
<1>3. FieldsAt(kinds, 0, bytes) = Ok(<<<< >>, bytes>>)
  <2>1. 0 \in 0..Len(kinds)
    OBVIOUS
  <2>2. f[0] = Ok(<<<< >>, bytes>>)
    BY <1>1, <2>1
  <2> QED
    BY <1>1, <2>2
<1>4. ASSUME NEW k \in Nat, k < Len(kinds)
      PROVE  FieldsAt(kinds, k + 1, bytes) = NextField(kinds, k + 1, FieldsAt(kinds, k, bytes))
  <2>1. k + 1 \in 0..Len(kinds) /\ k + 1 # 0 /\ (k + 1) - 1 = k
    BY <1>4
  <2>2. f[k + 1] = NextField(kinds, k + 1, f[k])
    BY <1>1, <2>1
  <2> QED
    BY <1>1, <2>2
<1>5. QED
  BY <1>2, <1>3, <1>4

\* The same for fields in a row.
RowRead(kinds, w, values) ==
    /\ w \in Stream
    /\ \A rest \in Stream : TakeFields(kinds, w \o rest) = Ok(<<values, rest>>)
    /\ \A x : IsCut(x, w) => ~Succeeds(TakeFields(kinds, x))

\* Fields that are read one by one are read in a row.
LEMMA RowIsRead ==
    ASSUME NEW kinds, Len(kinds) \in Nat, NEW S, NEW values \in Seq(S), Len(values) = Len(kinds),
           \A i \in 1..Len(kinds) : FieldRead(kinds[i], WriteField(kinds[i], values[i]), values[i])
    PROVE  RowRead(kinds, WriteFields(kinds, values), values)
<1> DEFINE L == Len(kinds)
           all == WriteFields(kinds, values)
           W(i) == WriteField(kinds[i], values[i])
<1>1. L \in Nat /\ L = Len(values)
  OBVIOUS
<1>2. \A i \in 1..L : FieldRead(kinds[i], W(i), values[i]) /\ W(i) \in Stream
  BY Zenon DEF FieldRead
<1>3. PICK g : AreFieldBytes(g, kinds, values)
  <2>1. \A i \in 1..Len(kinds) : WriteField(kinds[i], values[i]) \in Seq(Nat)
    BY <1>2, Zenon DEF Stream
  <2> QED
    BY <2>1, FieldsFunction, Zenon
<1>4. /\ all = g[L] /\ g \in [0..L -> Stream] /\ g[0] = << >>
      /\ \A i \in 1..L : g[i] = g[i - 1] \o W(i)
  BY <1>3, Zenon DEF AreFieldBytes, Stream
<1> HIDE DEF L, all, W
<1> DEFINE Right(i) ==
             /\ g[i] \in Stream
             /\ \A rest \in Stream :
                  FieldsAt(kinds, i, g[i] \o rest) = Ok(<<SubSeq(values, 1, i), rest>>)
             /\ \A x : IsCut(x, g[i]) => ~Succeeds(FieldsAt(kinds, i, x))
           T == {i \in Nat : i <= L => Right(i)}
<1>5. Right(0)
  <2>1. << >> \in Stream /\ Len(<< >>) = 0 /\ SubSeq(values, 1, 0) = << >>
    BY DEF Stream
  <2>2. ASSUME NEW rest \in Stream PROVE FieldsAt(kinds, 0, << >> \o rest) = Ok(<<<< >>, rest>>)
    <3>1. << >> \o rest = rest
      BY Streams, Zenon
    <3> QED
      BY <1>1, <3>1, FieldsFacts, Zenon DEF L
  <2>3. ASSUME NEW x PROVE ~IsCut(x, << >>)
    BY <2>1 DEF IsCut
  <2> QED
    BY <1>4, <2>1, <2>2, <2>3, Zenon
<1>6. ASSUME NEW i \in Nat, i \in T PROVE i + 1 \in T
  <2> SUFFICES ASSUME i + 1 <= L PROVE Right(i + 1)
    OBVIOUS
  <2> DEFINE u == g[i]
             w == W(i + 1)
             v == values[i + 1]
             kind == kinds[i + 1]
  <2>1. i <= L /\ i + 1 \in 1..L /\ (i + 1) - 1 = i /\ i < L
    BY <1>1
  <2>2. Right(i)
    BY <1>6, <2>1, Zenon
  <2>3. FieldRead(kind, w, v) /\ w \in Stream
    BY <1>2, <2>1, Zenon
  <2>4. g[i + 1] = u \o w
    BY <1>4, <2>1, Zenon
  <2>5. Append(SubSeq(values, 1, i), v) = SubSeq(values, 1, i + 1)
    BY <1>1, OneMore
  <2>6. u \in Stream
    BY <2>2, Zenon
  <2> HIDE DEF u, w, v, kind
  <2>7. u \o w \in Stream
    BY <2>3, <2>6, Streams, Zenon
  <2>8. \A x : FieldsAt(kinds, i + 1, x) = NextField(kinds, i + 1, FieldsAt(kinds, i, x))
    BY <1>1, <2>1, FieldsFacts, Zenon DEF L
  <2>9. \A y \in Stream : FieldsAt(kinds, i, u \o y) = Ok(<<SubSeq(values, 1, i), y>>)
    BY <2>2, Zenon DEF u
  <2>10. \A y \in Stream :
            FieldsAt(kinds, i + 1, u \o y) =
              IF Succeeds(TakeField(kind, y))
                THEN Ok(<<Append(SubSeq(values, 1, i), TakeField(kind, y)[2][1]),
                          TakeField(kind, y)[2][2]>>)
                ELSE TakeField(kind, y)
    <3> SUFFICES ASSUME NEW y \in Stream
                 PROVE  FieldsAt(kinds, i + 1, u \o y) =
                          IF Succeeds(TakeField(kind, y))
                            THEN Ok(<<Append(SubSeq(values, 1, i), TakeField(kind, y)[2][1]),
                                      TakeField(kind, y)[2][2]>>)
                            ELSE TakeField(kind, y)
      OBVIOUS
    <3> DEFINE r == FieldsAt(kinds, i, u \o y)
    <3>1. r = Ok(<<SubSeq(values, 1, i), y>>)
      BY <2>9, Zenon
    <3>2. Succeeds(r) /\ r[2][1] = SubSeq(values, 1, i) /\ r[2][2] = y
      BY <3>1 DEF Ok, Succeeds
    <3>3. FieldsAt(kinds, i + 1, u \o y) = NextField(kinds, i + 1, r)
      BY <2>8, Zenon
    <3> HIDE DEF r
    <3> QED
      BY <3>2, <3>3, Zenon DEF NextField, kind
  <2>11. ASSUME NEW rest \in Stream
         PROVE  FieldsAt(kinds, i + 1, (u \o w) \o rest) = Ok(<<SubSeq(values, 1, i + 1), rest>>)
    <3> DEFINE k == TakeField(kind, w \o rest)
    <3>1. (u \o w) \o rest = u \o (w \o rest) /\ w \o rest \in Stream
      BY <2>3, <2>6, InARow, Zenon
    <3>2. k = Ok(<<v, rest>>)
      BY <2>3, Zenon DEF FieldRead
    <3>3. Succeeds(k) /\ k[2][1] = v /\ k[2][2] = rest
      BY <3>2 DEF Ok, Succeeds
    <3> QED
      BY <2>5, <2>10, <3>1, <3>3, Zenon
  <2>12. ASSUME NEW x, IsCut(x, u \o w) PROVE ~Succeeds(FieldsAt(kinds, i + 1, x))
    <3>1. CASE IsCut(x, u)
      <4>1. ~Succeeds(FieldsAt(kinds, i, x))
        BY <2>2, <3>1, Zenon DEF u
      <4> QED
        BY <2>8, <4>1, Zenon DEF NextField
    <3>2. ASSUME NEW y \in Stream, IsCut(y, w), x = u \o y
          PROVE  ~Succeeds(FieldsAt(kinds, i + 1, x))
      <4>1. ~Succeeds(TakeField(kind, y))
        BY <2>3, <3>2, Zenon DEF FieldRead
      <4> QED
        BY <2>10, <3>2, <4>1, Zenon
    <3> QED
      BY <2>3, <2>6, <2>12, <3>1, <3>2, Cut, Zenon
  <2> QED
    BY <2>4, <2>7, <2>11, <2>12, Zenon
<1>7. Right(L)
  <2>1. Nat \subseteq T
    <3>1. 0 \in T
      BY <1>5
    <3> HIDE DEF T
    <3> QED
      BY <1>6, <3>1, NumberInduction
  <2>2. L \in T /\ L <= L
    BY <1>1, <2>1
  <2> HIDE DEF Right
  <2> QED
    BY <2>2
<1>8. SubSeq(values, 1, L) = values
  BY <1>1
<1>9. \A x : TakeFields(kinds, x) = FieldsAt(kinds, L, x)
  BY <1>1, FieldsFacts, Zenon DEF L
<1>10. RowRead(kinds, all, values)
  BY <1>4, <1>7, <1>8, <1>9, Zenon DEF RowRead
<1>11. QED
  BY <1>10 DEF all

-----------------------------------------------------------------------------
(* Transactions.                                                             *)

\* The same for the signatures.
SignaturesRead(w, v) ==
    /\ w \in Stream
    /\ \A rest \in Stream : TakeSignatures(w \o rest) = Ok(<<v, rest>>)
    /\ \A x : IsCut(x, w) => ~Succeeds(TakeSignatures(x))

\* The number of the signatures, and the signatures.
LEMMA SignaturesAreRead ==
    ASSUME NEW values \in Seq(Stream), Len(values) < Power(4),
           \A i \in 1..Len(values) : Len(values[i]) = SignatureBytes
    PROVE  /\ VarUint(Len(values)) \in Stream
           /\ WriteFields(SignatureKinds(Len(values)), values) \in Stream
           /\ SignaturesRead(VarUint(Len(values))
                               \o WriteFields(SignatureKinds(Len(values)), values), values)
<1> DEFINE n == Len(values)
           u == VarUint(n)
           kinds == SignatureKinds(n)
           r == WriteFields(kinds, values)
<1>1. n \in Nat /\ \A i \in 1..n : values[i] \in Stream
  BY Elements, Zenon
<1>2. UintRead(u, n)
  BY <1>1, UintIsRead, Zenon
<1>3. Len(kinds) = n /\ \A i \in 1..n : kinds[i] = "signature"
  BY <1>1 DEF SignatureKinds
<1>4. \A i \in 1..n : FieldRead(kinds[i], WriteField(kinds[i], values[i]), values[i])
  BY <1>1, <1>3, SignatureField, Zenon
<1>5. RowRead(kinds, r, values)
  BY <1>1, <1>3, <1>4, RowIsRead, Zenon
<1> HIDE DEF n, u, r, kinds
<1>6. u \in Stream /\ r \in Stream
  BY <1>2, <1>5, Zenon DEF UintRead, RowRead
<1>7. \A y \in Stream : TakeSignatures(u \o y) = TakeFields(kinds, y)
  <2> SUFFICES ASSUME NEW y \in Stream PROVE TakeSignatures(u \o y) = TakeFields(kinds, y)
    OBVIOUS
  <2> DEFINE t == TakeVarUint(u \o y)
  <2>1. t = Ok(<<n, y>>)
    BY <1>2, Zenon DEF UintRead
  <2>2. Succeeds(t) /\ t[2][1] = n /\ t[2][2] = y
    BY <2>1 DEF Ok, Succeeds
  <2> QED
    BY <2>2, Zenon DEF TakeSignatures, Then, kinds
<1>8. ASSUME NEW rest \in Stream PROVE TakeSignatures((u \o r) \o rest) = Ok(<<values, rest>>)
  <2>1. (u \o r) \o rest = u \o (r \o rest) /\ r \o rest \in Stream
    BY <1>6, InARow, Zenon
  <2>2. TakeFields(kinds, r \o rest) = Ok(<<values, rest>>)
    BY <1>5, Zenon DEF RowRead
  <2> QED
    BY <1>7, <2>1, <2>2, Zenon
<1>9. ASSUME NEW x, IsCut(x, u \o r) PROVE ~Succeeds(TakeSignatures(x))
  <2>1. CASE IsCut(x, u)
    <3>1. ~Succeeds(TakeVarUint(x))
      BY <1>2, <2>1, Zenon DEF UintRead
    <3> QED
      BY <3>1, Zenon DEF TakeSignatures, Then
  <2>2. ASSUME NEW y \in Stream, IsCut(y, r), x = u \o y PROVE ~Succeeds(TakeSignatures(x))
    <3>1. ~Succeeds(TakeFields(kinds, y))
      BY <1>5, <2>2, Zenon DEF RowRead
    <3> QED
      BY <1>7, <2>2, <3>1, Zenon
  <2> QED
    BY <1>6, <1>9, <2>1, <2>2, Cut, Zenon
<1>10. u \o r \in Stream
  BY <1>6, Streams, Zenon
<1>11. SignaturesRead(u \o r, values)
  BY <1>8, <1>9, <1>10, Zenon DEF SignaturesRead
<1>12. QED
  BY <1>6, <1>11, Zenon DEF u, r, kinds, n

\* The content of a transaction that can be written.
Fitting(t) == t \in Transactions /\ t.content.expiration <= MaxExpiration

\* What is assumed of the bounds.
LEMMA BoundFacts ==
    /\ MaxArraySize \in Nat /\ MaxArraySize >= 4
    /\ \A n \in 0..MaxExpiration : n \in Nat /\ n < Power(4)
    /\ \A n \in 0..MaxNonce : n \in Nat /\ n < Power(4)
    /\ \A n \in 0..MaxSignatures : n \in Nat /\ n < Power(4)
    /\ SignatureBytes \in Nat /\ SignatureBytes >= 3
<1>1. /\ MaxArraySize \in Nat /\ MaxExpiration \in Nat /\ MaxNonce \in Nat /\ MaxSignatures \in Nat
      /\ MaxExpiration < Power(4) /\ MaxNonce < Power(4) /\ MaxSignatures < Power(4)
      /\ 4 <= MaxArraySize /\ SignatureBytes \in 3..MaxArraySize
  BY ExchangeAssumption
<1>2. Power(4) \in Nat
  <2>1. PICK p : ArePowers(p, 4)
    BY BaseFacts, PowerFunction
  <2>2. Power(4) = p[4] /\ p \in [0..4 -> Nat]
    BY <2>1, Zenon DEF ArePowers
  <2> QED
    BY <2>2
<1>3. QED
  BY <1>1, <1>2

\* A nonce's bytes are not the caller's payload.
LEMMA PayloadBytesFacts ==
    ASSUME NEW nonce \in 0..MaxNonce
    PROVE  /\ PayloadBytes(nonce) \in Stream /\ Len(PayloadBytes(nonce)) <= MaxArraySize
           /\ (IF PayloadBytes(nonce) = Payload THEN 0
               ELSE FromLittleEndian(PayloadBytes(nonce))) = nonce
<1>1. CASE nonce = 0
  <2>1. Payload \in Bytes /\ Len(Payload) <= MaxArraySize
    BY ExchangeAssumption DEF Bytes
  <2>2. PayloadBytes(nonce) = Payload
    BY <1>1 DEF PayloadBytes
  <2> QED
    BY <1>1, <2>1, <2>2, BytesStream, Zenon
<1>2. CASE nonce # 0
  <2> DEFINE l == LittleEndian(nonce, 4)
  <2>1. nonce \in Nat /\ nonce < Power(4)
    BY BoundFacts
  <2>2. l \in Bytes /\ Len(l) = 4 /\ FromLittleEndian(l) = nonce
    BY <2>1, LittleEndianBack
  <2>3. l # Payload
    <3>1. nonce \in 1..MaxNonce
      BY <1>2, TxSubmissionAssumption
    <3> QED
      BY <3>1, ExchangeAssumption
  <2>4. PayloadBytes(nonce) = l
    BY <1>2 DEF PayloadBytes
  <2> HIDE DEF l
  <2>5. Len(l) <= MaxArraySize
    BY <2>2, BoundFacts
  <2>6. l \in Stream
    BY <2>2, BytesStream, Zenon
  <2> QED
    BY <2>2, <2>3, <2>4, <2>5, <2>6, Zenon
<1>3. QED
  BY <1>1, <1>2

\* The signed part is read whole.
LEMMA MessageIsRead ==
    ASSUME NEW t, Fitting(t)
    PROVE  RowRead(FieldKinds, Message(t), FieldsOf(t))
<1> DEFINE a == t.content.expiration
           p == PayloadBytes(t.content.payload)
           values == FieldsOf(t)
<1>1. a \in Nat /\ a < Power(4) /\ t.content.payload \in 0..MaxNonce
  <2>1. a \in 0..MaxExpiration /\ t.content.payload \in 0..MaxNonce
    BY TxSubmissionAssumption DEF Fitting, Transactions, Contents
  <2> QED
    BY <2>1, BoundFacts, Zenon
<1>2. p \in Stream /\ Len(p) <= MaxArraySize
  BY <1>1, PayloadBytesFacts, Zenon
<1> HIDE DEF a, p
<1>3. values = <<NexusName, ChainName, Script, a, p>>
  BY DEF FieldsOf, a, p
<1>4. /\ Len(values) = 5 /\ values \in Seq({NexusName, ChainName, Script, a, p})
      /\ values[1] = NexusName /\ values[2] = ChainName /\ values[3] = Script
      /\ values[4] = a /\ values[5] = p
  BY <1>3
<1>5. /\ Len(FieldKinds) = 5
      /\ FieldKinds[1] = "text" /\ FieldKinds[2] = "text" /\ FieldKinds[3] = "bytes"
      /\ FieldKinds[4] = "u32" /\ FieldKinds[5] = "bytes"
  BY DEF FieldKinds
<1>6. /\ NexusName \in Seq(Characters) /\ Len(Encoded(Utf8, NexusName)) <= MaxArraySize
      /\ ChainName \in Seq(Characters) /\ Len(Encoded(Utf8, ChainName)) <= MaxArraySize
      /\ Script \in Bytes /\ Len(Script) <= MaxArraySize
  BY ExchangeAssumption DEF Bytes
<1>7. Script \in Stream
  BY <1>6, BytesStream, Zenon
<1>8. /\ FieldRead("text", WriteField("text", NexusName), NexusName)
      /\ FieldRead("text", WriteField("text", ChainName), ChainName)
      /\ FieldRead("bytes", WriteField("bytes", Script), Script)
      /\ FieldRead("u32", WriteField("u32", a), a)
      /\ FieldRead("bytes", WriteField("bytes", p), p)
  BY <1>1, <1>2, <1>6, <1>7, TextField, BytesField, NumberField, Zenon
<1>9. \A i \in 1..5 : i = 1 \/ i = 2 \/ i = 3 \/ i = 4 \/ i = 5
  OBVIOUS
<1> HIDE DEF values
<1>10. \A i \in 1..5 : FieldRead(FieldKinds[i], WriteField(FieldKinds[i], values[i]), values[i])
  BY <1>4, <1>5, <1>8, <1>9, Zenon
<1>11. RowRead(FieldKinds, WriteFields(FieldKinds, values), values)
  <2>1. Len(FieldKinds) \in Nat /\ Len(values) = Len(FieldKinds)
    BY <1>4, <1>5
  <2> QED
    BY <1>4, <1>5, <1>10, <2>1, RowIsRead, Zenon
<1>12. QED
  BY <1>11, Zenon DEF values, Message

\* The bytes of a signature tell whose it is and what it covers.
LEMMA SignatureDataFacts ==
    ASSUME NEW s \in Signatures
    PROVE  /\ SignatureData(s) \in Stream /\ Len(SignatureData(s)) = SignatureBytes
           /\ SignatureRead(SignatureData(s)) = s
<1> DEFINE a == s.by
           b == s.over.content.expiration
           c == s.over.content.payload
           m == <<a, b, c>>
           z == [i \in 1..(SignatureBytes - 3) |-> 0]
           d == SignatureData(s)
<1>1. a \in Nat /\ b \in Nat /\ c \in Nat
  <2>1. Keys \subseteq Nat
    BY ExchangeAssumption
  <2>2. \A n \in 0..MaxNonce : n \in Nat
    BY BoundFacts
  <2> QED
    BY <2>1, <2>2 DEF Signatures, Hashes, Contents
<1>2. s = [by |-> a, over |-> [content |-> Content(b, c), signatures |-> <<>>]]
  BY DEF Signatures, Hashes, Contents, Content
<1> HIDE DEF a, b, c
<1>3. m \in Stream /\ Len(m) = 3 /\ m[1] = a /\ m[2] = b /\ m[3] = c
  BY <1>1 DEF Stream
<1>4. d = m \o z
  <2>1. d = m \o [i \in 1..(SignatureBytes - Len(m)) |-> 0]
    BY Zenon DEF SignatureData, a, b, c
  <2> HIDE DEF m
  <2> QED
    BY <1>3, <2>1, Zenon
<1>5. z \in Stream /\ Len(z) = SignatureBytes - 3
  BY BoundFacts DEF Stream
<1> HIDE DEF m, z, d
<1>6. /\ d \in Stream /\ Len(d) = SignatureBytes
      /\ d[1] = a /\ d[2] = b /\ d[3] = c
  <2>1. /\ m \o z \in Stream /\ Len(m \o z) = Len(m) + Len(z)
        /\ \A i \in 1..Len(m) : (m \o z)[i] = m[i]
    BY <1>3, <1>5, Concatenation, Zenon
  <2>2. 1 \in 1..3 /\ 2 \in 1..3 /\ 3 \in 1..3
    OBVIOUS
  <2>3. 3 + (SignatureBytes - 3) = SignatureBytes
    BY BoundFacts
  <2> QED
    BY <1>3, <1>4, <1>5, <2>1, <2>2, <2>3, Zenon
<1>7. SignatureRead(d) = s
  BY <1>2, <1>6, Zenon DEF SignatureRead
<1>8. QED
  BY <1>6, <1>7, Zenon DEF d

\* A transaction within the bounds.
WithinBounds(t) == Fitting(t) /\ Len(t.signatures) <= MaxSignatures

\* The transaction is read whole.
ReadWhole(t) == Ok(<<FieldsOf(t), SignaturesOf(t)>>)

\* One signature after another, each of the same length.
LEMMA SignaturesOfFacts ==
    ASSUME NEW t \in Transactions
    PROVE  /\ SignaturesOf(t) \in Seq(Stream) /\ Len(SignaturesOf(t)) = Len(t.signatures)
           /\ \A i \in 1..Len(t.signatures) :
                /\ SignaturesOf(t)[i] = SignatureData(t.signatures[i])
                /\ t.signatures[i] \in Signatures
           /\ \A i \in 1..Len(t.signatures) : Len(SignaturesOf(t)[i]) = SignatureBytes
<1> DEFINE s == t.signatures
           n == Len(s)
           v == SignaturesOf(t)
<1>1. s \in Seq(Signatures)
  BY DEF Transactions
<1>2. n \in Nat /\ DOMAIN s = 1..n /\ \A i \in 1..n : s[i] \in Signatures
  BY <1>1, Elements, Zenon
<1>3. v = [i \in 1..n |-> SignatureData(s[i])]
  BY <1>2, Zenon DEF SignaturesOf
<1> HIDE DEF v, n, s
<1>4. \A i \in 1..n : SignatureData(s[i]) \in Stream /\ Len(SignatureData(s[i])) = SignatureBytes
  BY <1>2, SignatureDataFacts, Zenon
<1>5. v \in [1..n -> Stream] /\ \A i \in 1..n : v[i] = SignatureData(s[i])
  BY <1>3, <1>4, Zenon
<1>6. v \in Seq(Stream) /\ Len(v) = n
  BY <1>2, <1>5, Listed, Zenon
<1>7. QED
  BY <1>2, <1>4, <1>5, <1>6, Zenon DEF v, n, s

\* After the fields, the signatures and what is left are those of the rest.
ReadOn(m, fields, y) ==
    \A v, rest : TakeSignatures(y) = Ok(<<v, rest>>) =>
                   AllFields(m \o y) = Ok(<<<<fields, v>>, rest>>)

\* What is read off bytes that begin with a whole message.
LEMMA FieldsFirst ==
    ASSUME NEW m, NEW fields, RowRead(FieldKinds, m, fields), NEW y \in Stream
    PROVE  /\ Succeeds(AllFields(m \o y)) <=> Succeeds(TakeSignatures(y))
           /\ ReadOn(m, fields, y)
<1> DEFINE k == TakeFields(FieldKinds, m \o y)
           r == TakeSignatures(y)
<1>1. k = Ok(<<fields, y>>)
  BY Zenon DEF RowRead
<1>2. Succeeds(k) /\ k[2][1] = fields /\ k[2][2] = y
  BY <1>1 DEF Ok, Succeeds
<1>3. AllFields(m \o y) = IF Succeeds(r) THEN Ok(<<<<k[2][1], r[2][1]>>, r[2][2]>>) ELSE r
  <2>1. AllFields(m \o y) =
          IF Succeeds(k) THEN IF Succeeds(TakeSignatures(k[2][2]))
                                THEN Ok(<<<<k[2][1], TakeSignatures(k[2][2])[2][1]>>,
                                          TakeSignatures(k[2][2])[2][2]>>)
                                ELSE TakeSignatures(k[2][2])
                         ELSE k
    BY DEF AllFields, Then
  <2> HIDE DEF k
  <2> QED
    BY <1>2, <2>1, Zenon
<1> HIDE DEF k, r
<1>4. Succeeds(AllFields(m \o y)) <=> Succeeds(r)
  BY <1>3, Results, Zenon
<1>5. ASSUME NEW v, NEW rest, r = Ok(<<v, rest>>)
      PROVE  AllFields(m \o y) = Ok(<<<<fields, v>>, rest>>)
  <2>1. Succeeds(r) /\ r[2][1] = v /\ r[2][2] = rest
    BY <1>5 DEF Ok, Succeeds
  <2> QED
    BY <1>2, <1>3, <2>1, Zenon
<1>6. QED
  BY <1>4, <1>5, Zenon DEF r, ReadOn

\* Bytes are read to their end.
LEMMA ToTheEnd ==
    ASSUME NEW x
    PROVE  /\ ~Succeeds(AllFields(x)) => ~Succeeds(FromBytes(x))
           /\ \A v, rest : AllFields(x) = Ok(<<v, rest>>) =>
                 FromBytes(x) = IF rest = << >> THEN Ok(v) ELSE Raise("SerializationError")
<1> DEFINE r == AllFields(x)
<1>1. FromBytes(x) = IF Succeeds(r) THEN IF r[2][2] = << >> THEN Ok(r[2][1])
                                                            ELSE Raise("SerializationError")
                                    ELSE r
  BY DEF FromBytes, Then
<1> HIDE DEF r
<1>2. ASSUME NEW v, NEW rest, r = Ok(<<v, rest>>)
      PROVE  FromBytes(x) = IF rest = << >> THEN Ok(v) ELSE Raise("SerializationError")
  <2>1. Succeeds(r) /\ r[2][1] = v /\ r[2][2] = rest
    BY <1>2 DEF Ok, Succeeds
  <2> QED
    BY <1>1, <2>1, Zenon
<1>3. QED
  BY <1>1, <1>2, Zenon DEF r

\* A transaction is read back from its bytes, and from nothing shorter, and
\* from nothing longer that begins with them.
LEMMA WholeIsRead ==
    ASSUME NEW t, WithinBounds(t)
    PROVE  /\ ToBytes(t) \in Stream
           /\ FromBytes(ToBytes(t)) = ReadWhole(t)
           /\ \A x : IsCut(x, ToBytes(t)) => ~Succeeds(FromBytes(x))
           /\ \A y \in Stream : y # << >> => ~Succeeds(FromBytes(ToBytes(t) \o y))
<1> DEFINE m == Message(t)
           v == SignaturesOf(t)
           n == Len(v)
           u == VarUint(n)
           w == WriteFields(SignatureKinds(n), v)
           s == u \o w
           fields == FieldsOf(t)
           all == ToBytes(t)
<1>1. RowRead(FieldKinds, m, fields)
  BY MessageIsRead, Zenon DEF WithinBounds
<1>2. t \in Transactions /\ Len(t.signatures) <= MaxSignatures
  BY Zenon DEF WithinBounds, Fitting
<1>3. /\ v \in Seq(Stream) /\ n = Len(t.signatures)
      /\ \A i \in 1..n : Len(v[i]) = SignatureBytes
  BY <1>2, SignaturesOfFacts, Zenon
<1>4. n < Power(4)
  <2>1. n \in Nat /\ n <= MaxSignatures
    <3>1. n \in Nat
      BY <1>3, Elements, Zenon
    <3> QED
      BY <1>2, <1>3, <3>1, Zenon
  <2> HIDE DEF n
  <2>2. n \in 0..MaxSignatures
    <3>1. MaxSignatures \in Nat
      BY ExchangeAssumption
    <3> QED
      BY <2>1, <3>1
  <2> QED
    BY <2>2, BoundFacts, Zenon
<1>5. u \in Stream /\ w \in Stream /\ SignaturesRead(s, v)
  BY <1>3, <1>4, SignaturesAreRead, Zenon
<1>6. all = (m \o u) \o w
  BY <1>3, Zenon DEF ToBytes
<1> HIDE DEF m, v, n, u, w, fields, all
<1>7. m \in Stream
  BY <1>1, Zenon DEF RowRead
<1>8. all = m \o s /\ s \in Stream
  BY <1>5, <1>6, <1>7, InARow, Zenon
<1> HIDE DEF s
<1>9. all \in Stream
  BY <1>7, <1>8, Streams, Zenon
<1>10. \A y \in Stream : /\ all \o y = m \o (s \o y) /\ s \o y \in Stream
                         /\ AllFields(all \o y) = Ok(<<<<fields, v>>, y>>)
  <2> SUFFICES ASSUME NEW y \in Stream
               PROVE  /\ all \o y = m \o (s \o y) /\ s \o y \in Stream
                      /\ AllFields(all \o y) = Ok(<<<<fields, v>>, y>>)
    OBVIOUS
  <2>1. all \o y = m \o (s \o y) /\ s \o y \in Stream
    BY <1>7, <1>8, InARow, Zenon
  <2>2. TakeSignatures(s \o y) = Ok(<<v, y>>)
    BY <1>5, Zenon DEF SignaturesRead
  <2>3. AllFields(m \o (s \o y)) = Ok(<<<<fields, v>>, y>>)
    <3>1. ReadOn(m, fields, s \o y)
      BY <1>1, <2>1, FieldsFirst, Zenon
    <3> QED
      BY <2>2, <3>1, Zenon DEF ReadOn
  <2> QED
    BY <2>1, <2>3, Zenon
<1>11. FromBytes(all) = Ok(<<fields, v>>)
  <2>1. << >> \in Stream /\ all \o << >> = all
    BY <1>9, Streams, Zenon
  <2>2. AllFields(all) = Ok(<<<<fields, v>>, << >>>>)
    BY <1>10, <2>1, Zenon
  <2> QED
    BY <2>2, ToTheEnd, Zenon
<1>12. ASSUME NEW y \in Stream, y # << >> PROVE ~Succeeds(FromBytes(all \o y))
  <2>1. AllFields(all \o y) = Ok(<<<<fields, v>>, y>>)
    BY <1>10, Zenon
  <2>2. FromBytes(all \o y) = Raise("SerializationError")
    BY <1>12, <2>1, ToTheEnd, Zenon
  <2> QED
    BY <2>2, Results, Zenon
<1>13. ASSUME NEW x, IsCut(x, all) PROVE ~Succeeds(FromBytes(x))
  <2>1. CASE IsCut(x, m)
    <3>1. ~Succeeds(TakeFields(FieldKinds, x))
      BY <1>1, <2>1, Zenon DEF RowRead
    <3>2. ~Succeeds(AllFields(x))
      BY <3>1, Zenon DEF AllFields, Then
    <3> QED
      BY <3>2, ToTheEnd, Zenon
  <2>2. ASSUME NEW y \in Stream, IsCut(y, s), x = m \o y PROVE ~Succeeds(FromBytes(x))
    <3>1. ~Succeeds(TakeSignatures(y))
      BY <1>5, <2>2, Zenon DEF SignaturesRead
    <3>2. ~Succeeds(AllFields(x))
      BY <1>1, <2>2, <3>1, FieldsFirst, Zenon
    <3> QED
      BY <3>2, ToTheEnd, Zenon
  <2> QED
    BY <1>7, <1>8, <1>13, <2>1, <2>2, Cut, Zenon
<1>14. ReadWhole(t) = Ok(<<fields, v>>)
  BY Zenon DEF ReadWhole, fields, v
<1>15. QED
  BY <1>9, <1>11, <1>12, <1>13, <1>14, Zenon DEF all

\* Whatever came of the bytes, it is they or does not pass for a transaction.
LEMMA ArrivalsRead ==
    ASSUME NEW t, WithinBounds(t), NEW came \in Arrivals(ToBytes(t))
    PROVE  IF came = ToBytes(t) THEN FromBytes(came) = ReadWhole(t)
                                ELSE ~Succeeds(FromBytes(came))
<1> DEFINE all == ToBytes(t)
<1>1. /\ all \in Stream
      /\ FromBytes(all) = ReadWhole(t)
      /\ \A x : IsCut(x, all) => ~Succeeds(FromBytes(x))
      /\ \A y \in Stream : y # << >> => ~Succeeds(FromBytes(all \o y))
  BY WholeIsRead, Zenon
<1>2. \/ \E n \in 0..Len(all) : came = SubSeq(all, 1, n)
      \/ \E b \in {0, 1} : came = Append(all, b)
  BY DEF Arrivals
<1> HIDE DEF all
<1>3. ASSUME NEW b \in {0, 1}, came = Append(all, b) PROVE ~Succeeds(FromBytes(came))
  <2>1. <<b>> \in Stream /\ <<b>> # << >> /\ Append(all, b) = all \o <<b>>
    BY <1>1 DEF Stream
  <2> QED
    BY <1>1, <1>3, <2>1, Zenon
<1>4. ASSUME NEW n \in 0..Len(all), came = SubSeq(all, 1, n)
      PROVE  came = all \/ IsCut(came, all)
  <2>1. CASE n = Len(all)
    <3>1. SubSeq(all, 1, Len(all)) = all
      BY <1>1 DEF Stream
    <3> QED
      BY <1>4, <2>1, <3>1
  <2>2. CASE n # Len(all)
    <3>1. Len(all) \in Nat
      BY <1>1, Streams, Zenon
    <3>2. n \in 0..(Len(all) - 1)
      BY <2>2, <3>1
    <3> QED
      BY <1>4, <3>2, Zenon DEF IsCut
  <2> QED
    BY <2>1, <2>2
<1>5. came = all \/ ~Succeeds(FromBytes(came))
  BY <1>1, <1>2, <1>3, <1>4, Zenon
<1>6. came # all => ~Succeeds(FromBytes(came))
  BY <1>5
<1>7. QED
  BY <1>1, <1>6, Zenon DEF all

\* The transaction that was written is the one that has what was read.
LEMMA RestoredFacts ==
    ASSUME NEW t \in Transactions
    PROVE  Restored(<<FieldsOf(t), SignaturesOf(t)>>) = t
<1> DEFINE f == FieldsOf(t)
           v == SignaturesOf(t)
           read == <<f, v>>
           s == t.signatures
           a == t.content.expiration
           n == t.content.payload
           p == PayloadBytes(n)
<1>1. n \in 0..MaxNonce /\ t = [content |-> Content(a, n), signatures |-> s] /\ s \in Seq(Signatures)
  BY DEF Transactions, Contents, Content
<1>2. (IF p = Payload THEN 0 ELSE FromLittleEndian(p)) = n
  BY <1>1, PayloadBytesFacts, Zenon
<1> HIDE DEF n, a, p, s
<1>3. f = <<NexusName, ChainName, Script, a, p>>
  BY DEF FieldsOf, a, p, n
<1>4. f[4] = a /\ f[5] = p
  BY <1>3
<1>5. Len(s) \in Nat /\ DOMAIN s = 1..Len(s) /\ s = [i \in 1..Len(s) |-> s[i]]
  BY <1>1, Elements, Zenon
<1>6. /\ v \in Seq(Stream) /\ Len(v) = Len(s)
      /\ \A i \in 1..Len(s) : v[i] = SignatureData(s[i]) /\ s[i] \in Signatures
  BY SignaturesOfFacts, Zenon DEF s
<1>7. DOMAIN v = 1..Len(s)
  BY <1>6, Elements, Zenon
<1>8. read[1] = f /\ read[2] = v
  OBVIOUS
<1> HIDE DEF f, v, read
<1>9. [i \in DOMAIN v |-> SignatureRead(v[i])] = s
  <2>1. \A i \in 1..Len(s) : SignatureRead(v[i]) = s[i]
    BY <1>6, SignatureDataFacts, Zenon
  <2> QED
    BY <1>5, <1>7, <2>1, Zenon
<1>10. Restored(read) = [content |-> Content(f[4], IF f[5] = Payload THEN 0 ELSE FromLittleEndian(f[5])),
                         signatures |-> [i \in DOMAIN v |-> SignatureRead(v[i])]]
  BY <1>8, Zenon DEF Restored
<1>11. Restored(read) = t
  BY <1>1, <1>2, <1>4, <1>9, <1>10, Zenon
<1>12. QED
  BY <1>11 DEF read, f, v

\* A message tells the content that is signed.
LEMMA MessageTells ==
    ASSUME NEW s, NEW t, Fitting(s), Fitting(t), Message(s) = Message(t)
    PROVE  s.content = t.content
<1> DEFINE m == Message(t)
<1>1. RowRead(FieldKinds, m, FieldsOf(s)) /\ RowRead(FieldKinds, m, FieldsOf(t))
  BY MessageIsRead, Zenon
<1> HIDE DEF m
<1>2. << >> \in Stream
  BY Streams, Zenon
<1>3. Ok(<<FieldsOf(s), << >>>>) = Ok(<<FieldsOf(t), << >>>>)
  BY <1>1, <1>2, Zenon DEF RowRead
<1>4. <<FieldsOf(s), << >>>> = <<FieldsOf(t), << >>>>
  BY <1>3, Results, Zenon
<1>5. FieldsOf(s) = FieldsOf(t)
  <2> DEFINE x == FieldsOf(s)
             y == FieldsOf(t)
  <2>1. <<x, << >>>> = <<y, << >>>>
    BY <1>4, Zenon
  <2> HIDE DEF x, y
  <2>2. x = y
    BY <2>1
  <2> QED
    BY <2>2 DEF x, y
<1>6. /\ s.content.expiration = t.content.expiration
      /\ PayloadBytes(s.content.payload) = PayloadBytes(t.content.payload)
  <2> DEFINE a == PayloadBytes(s.content.payload)
             b == PayloadBytes(t.content.payload)
             d == s.content.expiration
             e == t.content.expiration
  <2>1. <<NexusName, ChainName, Script, d, a>> = <<NexusName, ChainName, Script, e, b>>
    BY <1>5, Zenon DEF FieldsOf
  <2> HIDE DEF a, b, d, e
  <2>2. a = b /\ d = e
    BY <2>1
  <2> QED
    BY <2>2 DEF a, b, d, e
<1>7. /\ s.content \in Contents /\ t.content \in Contents
      /\ s.content.payload \in 0..MaxNonce /\ t.content.payload \in 0..MaxNonce
  BY DEF Fitting, Transactions, Contents
<1>8. s.content.payload = t.content.payload
  BY <1>6, <1>7, PayloadBytesFacts, Zenon
<1>9. QED
  BY <1>6, <1>7, <1>8 DEF Contents

-----------------------------------------------------------------------------
(* The invariant.                                                            *)

\* All that is signed has the expiration of the transaction, which mine keeps,
\* and there are no more signatures than the bound.
InBounds ==
    /\ Len(tx.signatures) <= MaxSignatures
    /\ \A i \in 1..Len(tx.signatures) :
         tx.signatures[i].over.content.expiration = tx.content.expiration

\* What is handed over is what the transaction is now.
MailIsOfNow ==
    mail # << >> =>
        /\ mail.wrote = tx /\ Writable(tx)
        /\ mail.came \in Arrivals(ToBytes(tx))
        /\ mail.read = FromBytes(mail.came)

\* What was entered is one of the texts.
EntryIsRead ==
    entry # << >> =>
        \E e \in Entries :
            /\ entry.as = e.as /\ entry.of = e.of /\ entry.text = e.text
            /\ entry.read = IF e.as = "key" THEN KeyFromWif(e.text) ELSE AddressFromText(e.text)

ExchangeInv == IInv /\ InBounds /\ MailIsOfNow /\ EntryIsRead

\* Nothing is on its way at first.
LEMMA ExchangeStarts == ExchangeInit => ExchangeInv
<1> SUFFICES ASSUME ExchangeInit PROVE ExchangeInv
  OBVIOUS
<1>1. IInv
  BY InitIInv DEF ExchangeInit
<1>2. tx.signatures = << >> /\ MaxSignatures \in Nat
  BY ExchangeAssumption DEF ExchangeInit, Init, NoTx
<1>3. InBounds
  BY <1>2 DEF InBounds
<1>4. MailIsOfNow /\ EntryIsRead
  BY DEF ExchangeInit, MailIsOfNow, EntryIsRead
<1>5. QED
  BY <1>1, <1>3, <1>4 DEF ExchangeInv

\* A signature covers what the transaction is now.
LEMMA SigningInBounds ==
    ASSUME IInv, InBounds, NEW k \in Keys, Len(tx.signatures) < MaxSignatures,
           tx' = SignedWith(tx, k)
    PROVE  InBounds'
<1> DEFINE s == tx.signatures
           new == [by |-> k, over |-> Unsigned(tx)]
           a == tx.content.expiration
<1>1. tx \in Transactions /\ MaxSignatures \in Nat
  BY ExchangeAssumption DEF IInv, Types
<1>2. tx'.content = tx.content /\ tx'.signatures = Append(s, new)
  BY <1>1, SignedFacts
<1>3. s \in Seq(Signatures) /\ new \in Signatures /\ new.over.content.expiration = a
  <2>1. Unsigned(tx) \in Hashes /\ Unsigned(tx).content = tx.content
    BY <1>1, HashFacts
  <2>2. s \in Seq(Signatures)
    BY <1>1 DEF Transactions
  <2>3. new \in Signatures /\ new.over = Unsigned(tx)
    BY <2>1 DEF Signatures
  <2> QED
    BY <2>1, <2>2, <2>3
<1> HIDE DEF new
<1>4. /\ Len(Append(s, new)) = Len(s) + 1 /\ Append(s, new)[Len(s) + 1] = new
      /\ \A i \in 1..Len(s) : Append(s, new)[i] = s[i]
      /\ Len(s) \in Nat
  BY <1>3
<1>5. \A i \in 1..(Len(s) + 1) : i = Len(s) + 1 \/ i \in 1..Len(s)
  BY <1>4
<1>6. \A i \in 1..Len(s) : s[i].over.content.expiration = a
  BY DEF InBounds
<1> HIDE DEF s, a
<1>7. \A i \in 1..(Len(s) + 1) : Append(s, new)[i].over.content.expiration = a
  BY <1>3, <1>4, <1>5, <1>6, Zenon
<1>8. Len(s) + 1 <= MaxSignatures
  BY <1>1, <1>4 DEF s
<1>9. Len(tx'.signatures) = Len(s) + 1 /\ tx'.content.expiration = a
  BY <1>2, <1>4, Zenon DEF a
<1>10. QED
  BY <1>2, <1>7, <1>8, <1>9, Zenon DEF InBounds

\* Nothing but signing adds signatures, and no step changes the expiration.
LEMMA InBoundsKept ==
    ASSUME IInv, InBounds, [Next]_vars
    PROVE  InBounds'
<1>1. ASSUME tx'.signatures = tx.signatures, tx'.content.expiration = tx.content.expiration
      PROVE  InBounds'
  BY <1>1 DEF InBounds
<1>2. ASSUME NEW e \in Expirations, Compose(e) PROVE InBounds'
  <2>1. tx'.signatures = << >> /\ MaxSignatures \in Nat
    BY <1>2, ExchangeAssumption DEF Compose, NoTx
  <2> QED
    BY <2>1 DEF InBounds
<1>3. ASSUME NEW k \in Keys, Sign(k) \/ SignAndSendBuilt(k) PROVE InBounds'
  BY <1>3, SigningInBounds DEF Sign, SignAndSendBuilt
<1>4. ASSUME NEW d \in Difficulties, Mine(d) PROVE InBounds'
  BY <1>1, <1>4, MinedFacts DEF Mine, IInv, Types
<1>5. ASSUME \/ SendRawTransaction \/ Tick \/ UNCHANGED vars
             \/ \E k \in Keys, e \in Expirations : SignAndSend(k, e)
             \/ \E i \in 1..Len(attempts) : Arrive(i)
      PROVE  InBounds'
  <2>1. tx' = tx
    BY <1>5 DEF SendRawTransaction, Tick, vars, SignAndSend, Arrive
  <2> QED
    BY <1>1, <2>1
<1>6. QED
  BY <1>2, <1>3, <1>4, <1>5 DEF Next

\* What comes of the transaction's bytes.
LEMMA MailRead ==
    ASSUME ExchangeInv, mail # << >>
    PROVE  /\ mail.wrote = tx /\ tx \in Transactions /\ Fitting(tx)
           /\ IF mail.came = ToBytes(tx) THEN mail.read = ReadWhole(tx)
                                         ELSE ~Succeeds(mail.read)
<1>1. /\ mail.wrote = tx /\ Writable(tx)
      /\ mail.came \in Arrivals(ToBytes(tx)) /\ mail.read = FromBytes(mail.came)
  BY Zenon DEF ExchangeInv, MailIsOfNow
<1>2. tx \in Transactions /\ Fitting(tx) /\ WithinBounds(tx)
  BY <1>1 DEF ExchangeInv, IInv, Types, InBounds, Fitting, WithinBounds, Writable
<1>3. IF mail.came = ToBytes(tx) THEN FromBytes(mail.came) = ReadWhole(tx)
                                 ELSE ~Succeeds(FromBytes(mail.came))
  BY <1>1, <1>2, ArrivalsRead, Zenon
<1>4. QED
  BY <1>1, <1>2, <1>3, Zenon

\* What is read is the transaction that was written.
LEMMA MailRestored ==
    ASSUME ExchangeInv, mail # << >>, Succeeds(mail.read)
    PROVE  Restored(mail.read[2]) = tx
<1>1. mail.read = ReadWhole(tx) /\ tx \in Transactions
  BY MailRead, Zenon
<1>2. mail.read[2] = <<FieldsOf(tx), SignaturesOf(tx)>>
  BY <1>1, Results, Zenon DEF ReadWhole
<1>3. QED
  BY <1>1, <1>2, RestoredFacts, Zenon

\* Handing over and taking up change nothing of the transaction.
LEMMA ExchangeStepIsStep ==
    ASSUME ExchangeInv, [ExchangeNext]_<<vars, exchangeVars>>
    PROVE  [Next]_vars
<1>1. ASSUME TakeUp PROVE UNCHANGED vars
  BY <1>1, MailRestored, Zenon DEF TakeUp, vars
<1>2. ASSUME HandOver \/ Enter \/ Done PROVE UNCHANGED vars
  BY <1>2 DEF HandOver, Enter, Done
<1>3. ASSUME UNCHANGED <<vars, exchangeVars>> PROVE UNCHANGED vars
  BY <1>3
<1>4. QED
  BY <1>1, <1>2, <1>3 DEF ExchangeNext, Next

\* Every step keeps the invariant.
LEMMA ExchangeInvKept ==
    ASSUME ExchangeInv, [ExchangeNext]_<<vars, exchangeVars>>
    PROVE  ExchangeInv'
<1>1. [Next]_vars
  BY ExchangeStepIsStep
<1>2. IInv' /\ InBounds'
  <2>1. IInv'
    BY <1>1, ComposeStep, SignStep, MineStep, SendRawStep, SignAndSendBuiltStep,
       SignAndSendStep, ArriveStep, IdleStep DEF ExchangeInv, Next
  <2> QED
    BY <1>1, <2>1, InBoundsKept DEF ExchangeInv
<1>3. ASSUME HandOver PROVE MailIsOfNow' /\ EntryIsRead'
  <2>1. PICK bytes \in Arrivals(ToBytes(tx)) :
          mail' = [came |-> bytes, wrote |-> tx, read |-> FromBytes(bytes)]
    BY <1>3, Zenon DEF HandOver
  <2>2. tx' = tx /\ Writable(tx) /\ entry' = << >>
    BY <1>3 DEF HandOver, vars, Before, AtRest
  <2>3. mail'.came = bytes /\ mail'.wrote = tx /\ mail'.read = FromBytes(bytes)
    BY <2>1
  <2>4. MailIsOfNow'
    BY <2>2, <2>3, Zenon DEF MailIsOfNow, Writable
  <2> QED
    BY <2>2, <2>4, Zenon DEF EntryIsRead
<1>4. ASSUME TakeUp PROVE MailIsOfNow' /\ EntryIsRead'
  BY <1>4, Zenon DEF TakeUp, MailIsOfNow, EntryIsRead, ExchangeInv
<1>5. ASSUME Enter PROVE MailIsOfNow' /\ EntryIsRead'
  <2>1. PICK e \in Entries :
          entry' = [as |-> e.as, of |-> e.of, text |-> e.text,
                    read |-> IF e.as = "key" THEN KeyFromWif(e.text)
                                             ELSE AddressFromText(e.text)]
    BY <1>5, Zenon DEF Enter
  <2>2. mail' = << >>
    BY <1>5 DEF Enter, Before, AtRest
  <2>3. /\ entry'.as = e.as /\ entry'.of = e.of /\ entry'.text = e.text
        /\ entry'.read = IF e.as = "key" THEN KeyFromWif(e.text) ELSE AddressFromText(e.text)
    BY <2>1
  <2> QED
    BY <2>2, <2>3, Zenon DEF MailIsOfNow, EntryIsRead
<1>6. ASSUME Done PROVE MailIsOfNow' /\ EntryIsRead'
  BY <1>6, Zenon DEF Done, vars, MailIsOfNow, EntryIsRead, ExchangeInv
<1>7. ASSUME UNCHANGED <<vars, exchangeVars>> PROVE MailIsOfNow' /\ EntryIsRead'
  <2>1. tx' = tx /\ mail' = mail /\ entry' = entry
    BY <1>7 DEF vars, exchangeVars
  <2> QED
    BY <2>1, Zenon DEF MailIsOfNow, EntryIsRead, ExchangeInv, Writable
<1>8. ASSUME AtRest, UNCHANGED exchangeVars PROVE MailIsOfNow' /\ EntryIsRead'
  <2>1. mail' = << >> /\ entry' = << >>
    BY <1>8 DEF AtRest, exchangeVars
  <2> QED
    BY <2>1, Zenon DEF MailIsOfNow, EntryIsRead
<1>9. MailIsOfNow' /\ EntryIsRead'
  BY <1>3, <1>4, <1>5, <1>6, <1>7, <1>8, Zenon DEF ExchangeNext
<1>10. QED
  BY <1>2, <1>9 DEF ExchangeInv

\* The invariant holds always.
LEMMA ExchangeAlways == ExchangeSpec => []ExchangeInv
<1>1. ExchangeInv /\ [ExchangeNext]_<<vars, exchangeVars>> => ExchangeInv'
  BY ExchangeInvKept
<1>2. QED
  BY ExchangeStarts, <1>1, PTL DEF ExchangeSpec

\* The address of a public key is of a user, and holds the key.
LEMMA PublicAddress ==
    ASSUME NEW public \in Bytes, Len(public) = PublicBytes
    PROVE  LET address == AddressFromPublicKey(public)
           IN  /\ address \in Bytes /\ Len(address) = AddressLength /\ Kind(address) = "user"
               /\ SubSeq(address, 3, Len(address)) = public
<1> DEFINE n == PublicBytes
           a == <<1, 0>> \o public
           S == 0..(Base - 1)
<1>1. n \in Nat /\ Len(public) = n /\ public \in Seq(S) /\ 0 \in S /\ 1 \in S
  BY TextFacts, BaseFacts DEF Bytes
<1> HIDE DEF S, n
<1>2. /\ a \in Seq(S) /\ Len(a) = n + 2 /\ a[1] = 1
      /\ \A i \in 1..n : a[i + 2] = public[i]
  BY <1>1
<1> HIDE DEF a
<1>3. SubSeq(a, 3, n + 2) = public
  <2> DEFINE u == SubSeq(a, 3, n + 2)
  <2>1. u \in Seq(S) /\ Len(u) = n /\ \A i \in 1..n : u[i] = a[i + 2]
    BY <1>1, <1>2
  <2> HIDE DEF u
  <2>2. u = public
    BY <1>1, <1>2, <2>1
  <2> QED
    BY <2>2 DEF u
<1>4. Kind(a) = "user"
  <2>1. NullAddress[1] = 0
    BY TextFacts DEF NullAddress, Zeros, AddressLength
  <2> QED
    BY <1>2, <2>1 DEF Kind
<1>5. a = AddressFromPublicKey(public) /\ AddressLength = n + 2
  BY DEF a, n, AddressFromPublicKey, AddressLength
<1>6. a \in Bytes
  BY <1>2, Zenon DEF Bytes, S
<1>7. QED
  BY <1>2, <1>3, <1>4, <1>5, <1>6, Zenon

\* An address of another kind is not of a user.
LEMMA OtherKinds ==
    ASSUME NEW public \in Seq(Nat), NEW kind \in {0, 2, 3}
    PROVE  Kind(<<kind, 0>> \o public) # "user"
<1> DEFINE a == <<kind, 0>> \o public
<1>1. a[1] = kind
  OBVIOUS
<1> HIDE DEF a
<1>2. a[1] = 0 \/ a[1] = 2 \/ a[1] = 3
  BY <1>1
<1>3. CASE a[1] = 0 /\ a # NullAddress
  BY <1>3 DEF Kind, a
<1>4. CASE a[1] = 0 /\ a = NullAddress
  BY <1>4 DEF Kind, a
<1>5. CASE a[1] = 2
  BY <1>5 DEF Kind, a
<1>6. CASE a[1] = 3
  <2>1. a # NullAddress
    BY <1>6, TextFacts DEF NullAddress, Zeros, AddressLength
  <2> QED
    BY <1>6, <2>1 DEF Kind, a
<1>7. QED
  BY <1>2, <1>3, <1>4, <1>5, <1>6, Zenon

\* Public keys have one length and tell the keys.
LEMMA PublicFacts ==
    ASSUME NEW k \in Keys
    PROVE  /\ PublicOf(k) \in Bytes /\ Len(PublicOf(k)) = PublicBytes
           /\ \A l \in Keys : PublicOf(l) = PublicOf(k) => l = k
<1>1. /\ \A j \in Keys : /\ PublicKey(PrivateKey[j]) \in Bytes
                         /\ Len(PublicKey(PrivateKey[j])) = PublicBytes
      /\ \A j, l \in Keys : j # l => PublicKey(PrivateKey[j]) # PublicKey(PrivateKey[l])
  BY ExchangeAssumption DEF Bytes
<1>2. QED
  BY <1>1, Zenon DEF PublicOf

\* A signature covers the transaction as it is now if its message does.
LEMMA CoversNow ==
    ASSUME IInv, InBounds, Fitting(tx), NEW i \in 1..Len(tx.signatures)
    PROVE  /\ tx.signatures[i] \in Signatures
           /\ Message(tx.signatures[i].over) = Message(tx)
                <=> tx.signatures[i] = [by |-> tx.signatures[i].by, over |-> Unsigned(tx)]
<1> DEFINE s == tx.signatures[i]
           o == s.over
<1>1. tx \in Transactions /\ s \in Signatures
  <2>1. tx \in Transactions
    BY DEF IInv, Types
  <2>2. tx.signatures \in Seq(Signatures)
    BY <2>1 DEF Transactions
  <2> QED
    BY <2>1, <2>2, Elements, Zenon
<1>2. o.content.expiration = tx.content.expiration
  BY DEF InBounds
<1> HIDE DEF s
<1>3. s = [by |-> s.by, over |-> o] /\ o \in Hashes /\ o.signatures = << >>
      /\ o = [content |-> o.content, signatures |-> << >>]
  BY <1>1 DEF Signatures, Hashes
<1>4. Unsigned(tx) = [content |-> tx.content, signatures |-> << >>]
  BY <1>1, HashFacts
<1>5. Fitting(o)
  <2>1. o \in Transactions
    <3>1. o.content \in Contents /\ << >> \in Seq(Signatures)
      BY <1>3 DEF Hashes
    <3>2. [content |-> o.content, signatures |-> << >>] \in Transactions
      BY <3>1 DEF Transactions
    <3> QED
      BY <1>3, <3>2, Zenon
  <2>2. tx.content.expiration <= MaxExpiration
    BY Zenon DEF Fitting
  <2> QED
    BY <1>2, <2>1, <2>2, Zenon DEF Fitting
<1> HIDE DEF o
<1>6. ASSUME Message(o) = Message(tx) PROVE o = Unsigned(tx)
  <2>1. o.content = tx.content
    BY <1>5, <1>6, MessageTells, Zenon
  <2> QED
    BY <1>3, <1>4, <2>1, Zenon
<1>7. ASSUME o = Unsigned(tx) PROVE Message(o) = Message(tx)
  <2>1. o.content = tx.content
    BY <1>4, <1>7
  <2> QED
    BY <2>1, Zenon DEF Message, FieldsOf
<1>8. s = [by |-> s.by, over |-> Unsigned(tx)] => o = Unsigned(tx)
  BY DEF o
<1>9. Message(o) = Message(tx) <=> s = [by |-> s.by, over |-> Unsigned(tx)]
  BY <1>3, <1>6, <1>7, <1>8, Zenon
<1>10. QED
  BY <1>1, <1>9, Zenon DEF s, o

-----------------------------------------------------------------------------
(* The properties.                                                           *)

\* Several holders who hand a transaction over, and take up what they read, do
\* to it what one holder may do: TxSubmission's properties are theirs.
THEOREM ExchangeImplements == ExchangeSpec => Spec
<1>1. ExchangeInit => Init
  BY DEF ExchangeInit
<1>2. ExchangeInv /\ [ExchangeNext]_<<vars, exchangeVars>> => [Next]_vars
  BY ExchangeStepIsStep
<1>3. QED
  BY <1>1, <1>2, ExchangeAlways, PTL DEF ExchangeSpec, Spec

\* to_bytes, read by from_bytes, is the whole transaction; a part of it, or it
\* and more, is refused.
THEOREM AlwaysHandedOverWhole == ExchangeSpec => []HandedOverWhole
<1>1. ExchangeInv => HandedOverWhole
  BY MailRead, Zenon DEF HandedOverWhole, ReadWhole
<1>2. QED
  BY <1>1, ExchangeAlways, PTL

\* The next holder tells by the addresses exactly who signed.
THEOREM SignersAlwaysRecognised == ExchangeSpec => []SignersRecognised
<1>1. ExchangeInv => SignersRecognised
  <2> SUFFICES ASSUME ExchangeInv, mail # << >>, Succeeds(mail.read)
               PROVE  LET t == Restored(mail.read[2])
                      IN  /\ \A k \in Keys, kind \in {0, 2, 3} : ~VerifiedBy(t, <<kind, 0>> \o PublicOf(k))
                          /\ \A k \in Keys :
                               LET address == AddressFromText(AddressTextOf(k))
                               IN  /\ Succeeds(address)
                                   /\ VerifiedBy(t, address[2]) <=> [by |-> k, over |-> Unsigned(t)] \in signers
    BY Zenon DEF SignersRecognised
  <2>1. Restored(mail.read[2]) = tx /\ tx \in Transactions /\ Fitting(tx)
    BY MailRead, MailRestored, Zenon
  <2>2. IInv /\ InBounds
    BY DEF ExchangeInv
  <2>3. ASSUME NEW k \in Keys, NEW kind \in {0, 2, 3}
        PROVE  ~VerifiedBy(tx, <<kind, 0>> \o PublicOf(k))
    <3>1. PublicOf(k) \in Seq(Nat)
      BY PublicFacts, BytesStream, Zenon DEF Stream
    <3> QED
      BY <3>1, OtherKinds, Zenon DEF VerifiedBy
  <2>4. ASSUME NEW k \in Keys
        PROVE  LET address == AddressFromText(AddressTextOf(k))
               IN  /\ Succeeds(address)
                   /\ VerifiedBy(tx, address[2]) <=> [by |-> k, over |-> Unsigned(tx)] \in signers
    <3> DEFINE a == AddressFromPublicKey(PublicOf(k))
               signature == [by |-> k, over |-> Unsigned(tx)]
    <3>1. /\ a \in Bytes /\ Len(a) = AddressLength /\ Kind(a) = "user"
          /\ SubSeq(a, 3, Len(a)) = PublicOf(k)
      BY PublicFacts, PublicAddress, Zenon
    <3> HIDE DEF a
    <3>2. AddressFromText(AddressText(a)) = Ok(a)
      <4>1. Kind(a) # "invalid"
        BY <3>1
      <4> QED
        BY <3>1, <4>1, AddressRead, Zenon
    <3>3. AddressTextOf(k) = AddressText(a)
      BY Zenon DEF AddressTextOf, a
    <3>4. Succeeds(AddressFromText(AddressTextOf(k))) /\ AddressFromText(AddressTextOf(k))[2] = a
      BY <3>2, <3>3, Results, Zenon
    <3>5. DOMAIN tx.signatures = 1..Len(tx.signatures)
      <4>1. tx.signatures \in Seq(Signatures)
        BY <2>1 DEF Transactions
      <4> QED
        BY <4>1, Elements, Zenon
    <3>6. ASSUME NEW i \in 1..Len(tx.signatures)
          PROVE  (/\ SubSeq(a, 3, Len(a)) = PublicOf(tx.signatures[i].by)
                  /\ Message(tx.signatures[i].over) = Message(tx))
                 <=> tx.signatures[i] = signature
      <4> DEFINE s == tx.signatures[i]
      <4>1. /\ s \in Signatures
            /\ Message(s.over) = Message(tx) <=> s = [by |-> s.by, over |-> Unsigned(tx)]
        BY <2>1, <2>2, CoversNow, Zenon
      <4>2. s.by \in Keys
        BY <4>1 DEF Signatures
      <4>3. PublicOf(k) = PublicOf(s.by) <=> s.by = k
        BY <4>2, PublicFacts, Zenon
      <4> HIDE DEF s
      <4>4. s = signature => s.by = k
        OBVIOUS
      <4>5. (PublicOf(k) = PublicOf(s.by) /\ Message(s.over) = Message(tx)) <=> s = signature
        BY <4>1, <4>3, <4>4, Zenon
      <4> QED
        BY <3>1, <4>5, Zenon DEF s
    <3>7. signers = {tx.signatures[i] : i \in 1..Len(tx.signatures)}
      BY <2>2 DEF IInv, SignersListed
    <3> HIDE DEF signature
    <3>8. VerifiedBy(tx, a) <=> signature \in signers
      BY <3>1, <3>5, <3>6, <3>7, Zenon DEF VerifiedBy
    <3> QED
      BY <3>4, <3>8, Zenon DEF signature
  <2> QED
    BY <2>1, <2>3, <2>4, Zenon
<1>2. QED
  BY <1>1, ExchangeAlways, PTL

\* A text that is accepted is the one text of what it is read as, and the text
\* of a key or of an address is accepted as that.
THEOREM TextsAlwaysNameOne == ExchangeSpec => []TextsNameOne
<1>1. ExchangeInv => TextsNameOne
  <2> SUFFICES ASSUME ExchangeInv, entry # << >>
               PROVE  /\ Succeeds(entry.read) =>
                           \/ entry.as = "key" /\ entry.text = KeyToWif(entry.read[2])
                           \/ entry.as = "address" /\ \/ entry.text = AddressText(entry.read[2])
                                                      \/ entry.read[2] = NullAddress
                      /\ entry.of # << >> =>
                           IF entry.as = "address" /\ Kind(entry.of) = "invalid"
                             THEN ~Succeeds(entry.read) ELSE entry.read = Ok(entry.of)
    BY Zenon DEF TextsNameOne
  <2>1. PICK e \in Entries :
          /\ entry.as = e.as /\ entry.of = e.of /\ entry.text = e.text
          /\ entry.read = IF e.as = "key" THEN KeyFromWif(e.text) ELSE AddressFromText(e.text)
    BY Zenon DEF ExchangeInv, EntryIsRead
  <2>2. /\ e.as \in {"key", "address"} /\ e.text \in Seq(Letters)
        /\ e.of # << >> =>
             /\ e.of \in Bytes
             /\ e.as = "key" =>
                  /\ Len(e.of) = PrivateBytes /\ e.text = KeyToWif(e.of)
                  /\ Check(WifPayload(e.of)) \in 0..(Base - 1)
             /\ e.as = "address" =>
                  Len(e.of) = AddressLength /\ e.text = AddressText(e.of)
    BY ExchangeAssumption DEF Bytes
  <2>3. CASE e.as = "key"
    <3>1. entry.read = KeyFromWif(e.text) /\ entry.as = "key" /\ entry.as # "address"
      BY <2>1, <2>3
    <3>2. Succeeds(entry.read) => entry.text = KeyToWif(entry.read[2])
      BY <2>1, <2>2, <3>1, KeyOfText, Zenon
    <3>3. e.of # << >> => KeyFromWif(e.text) = Ok(e.of)
      BY <2>2, <2>3, KeyRead, Zenon
    <3> QED
      BY <2>1, <3>1, <3>2, <3>3, Zenon
  <2>4. CASE e.as = "address"
    <3>1. entry.read = AddressFromText(e.text) /\ entry.as = "address"
      BY <2>1, <2>4
    <3>2. Succeeds(entry.read) => \/ entry.text = AddressText(entry.read[2])
                                  \/ entry.read[2] = NullAddress
      BY <2>1, <2>2, <3>1, AddressOfText, Zenon
    <3>3. e.of # << >> => IF Kind(e.of) = "invalid" THEN ~Succeeds(AddressFromText(e.text))
                                                    ELSE AddressFromText(e.text) = Ok(e.of)
      BY <2>2, <2>4, AddressRead, Zenon
    <3> QED
      BY <2>1, <3>1, <3>2, <3>3, Zenon
  <2> QED
    BY <2>2, <2>3, <2>4, Zenon
<1>2. QED
  BY <1>1, ExchangeAlways, PTL
=============================================================================
