------------------------- MODULE ScriptBuilderProofs -------------------------
(* Proofs about ScriptBuilder for every set of operands, labels, payloads    *)
(* and every number of calls; among them, that a returned script decodes to  *)
(* the program that was asked for.                                           *)
EXTENDS ScriptBuilder, TLAPS, SequenceTheorems, WellFoundedInduction

\* Quotient and remainder.
LEMMA DivMod ==
    ASSUME NEW n \in Nat, NEW b \in Nat, b > 0
    PROVE  /\ n = b * (n \div b) + (n % b)
           /\ n % b \in 0..(b - 1)
           /\ n \div b \in Nat
  OBVIOUS

\* A number below b * c has a quotient below c.
LEMMA DivBound ==
    ASSUME NEW n \in Nat, NEW b \in Nat, NEW c \in Nat, b > 0, n < b * c
    PROVE  n \div b < c
<1> DEFINE q == n \div b
<1>1. q \in Nat /\ n >= b * q
  BY DivMod
<1> HIDE DEF q
<1>2. ASSUME q >= c PROVE b * q >= b * c
  BY <1>1, <1>2
<1>3. QED
  BY <1>1, <1>2 DEF q

\* A two-byte operand is two bytes, and reads back as the number written.
LEMMA U16Type ==
    ASSUME NEW n \in 0..U16Max
    PROVE  /\ U16(n) \in Seq(Byte)
           /\ U16(n)[1] \in Byte /\ U16(n)[2] \in Byte
           /\ U16(n)[1] + Base * U16(n)[2] = n
<1>1. Base \in Nat /\ Base > 3 /\ Base <= 256
  BY BaseAssumption, BuilderAssumption
<1>2. n \in Nat /\ n < Base * Base
  BY <1>1 DEF U16Max
<1>3. n % Base \in Byte
  BY <1>1, <1>2, DivMod DEF Byte
<1>4. n \div Base \in Byte
  BY <1>1, <1>2, DivMod, DivBound DEF Byte
<1>5. n = Base * (n \div Base) + (n % Base)
  BY <1>1, <1>2, DivMod
<1>6. QED
  <2>1. U16(n) = <<n % Base, n \div Base>>
    BY DEF U16
  <2>2. U16(n)[1] = n % Base /\ U16(n)[2] = n \div Base
    BY <2>1
  <2>3. U16(n) \in Seq(Byte)
    BY <1>3, <1>4, <2>1
  <2>4. Base * (n \div Base) \in Int /\ n % Base \in Int
    BY <1>1, <1>3, <1>4 DEF Byte
  <2>5. U16(n)[1] + Base * U16(n)[2] = n
    BY <1>5, <2>2, <2>4
  <2> QED
    BY <1>3, <1>4, <2>2, <2>3, <2>5

\* A length prefix is a string of bytes.
LEMMA VarUintType ==
    ASSUME NEW n \in 0..U16Max
    PROVE  VarUint(n) \in Seq(Byte)
<1>1. Base \in Nat /\ Base > 3 /\ Base <= 256
  BY BaseAssumption, BuilderAssumption
<1>2. U16(n) \in Seq(Byte)
  BY U16Type
<1>3. n \in Nat
  BY <1>1 DEF U16Max
<1>4. Base - 3 \in Byte
  BY <1>1 DEF Byte
<1>5. CASE n < Base - 3
  BY <1>1, <1>3, <1>5 DEF VarUint, Byte
<1>6. CASE ~(n < Base - 3)
  BY <1>2, <1>4, <1>6 DEF VarUint
<1>7. QED
  BY <1>5, <1>6

\* A timestamp is a string of bytes.
LEMMA TimeBytesType ==
    ASSUME NEW t \in 0..TimeMax
    PROVE  TimeBytes(t) \in Seq(Byte)
<1> DEFINE sq == Base * Base
<1>1. Base \in Nat /\ Base > 3
  BY BaseAssumption
<1>2. sq \in Nat /\ sq > 0
  BY <1>1
<1>3. Base * Base * Base * Base = sq * sq /\ sq * sq \in Nat
  BY <1>1
<1>4. t \in Nat /\ t < sq * sq
  BY <1>3 DEF TimeMax
<1> HIDE DEF sq
<1>5. t % sq \in 0..(sq - 1) /\ t \div sq \in Nat /\ t \div sq < sq
  BY <1>2, <1>4, DivMod, DivBound
<1>6. t % sq \in 0..U16Max /\ t \div sq \in 0..U16Max
  BY <1>2, <1>5 DEF U16Max, sq
<1>7. QED
  BY <1>6, U16Type DEF TimeBytes, sq

\* Nor is a number in any of its forms anything else.
LEMMA AnyVarUintType ==
    ASSUME NEW n \in 0..LongMax
    PROVE  AnyVarUint(n) \in Seq(Byte)
<1> DEFINE k == TimeMax + 1
<1>1. k \in Nat /\ k > 0 /\ TimeMax = k - 1 /\ U16Max \in Nat
  <2>1. Base * Base \in Nat /\ Base * Base > 0
    BY BaseAssumption
  <2>2. (Base * Base) * (Base * Base) \in Nat /\ (Base * Base) * (Base * Base) > 0
    BY <2>1
  <2>3. Base * Base * Base * Base = (Base * Base) * (Base * Base)
    BY BaseAssumption
  <2> QED
    BY <2>1, <2>2, <2>3 DEF TimeMax, U16Max
<1>2. n \in Nat /\ n < k * k /\ k * k \in Nat
  BY <1>1 DEF LongMax
<1>3. Base - 2 \in Byte /\ Base - 1 \in Byte
  BY BaseAssumption, BuilderAssumption DEF Byte
<1> HIDE DEF k
<1>4. n % k \in 0..(k - 1) /\ n \div k \in Nat /\ n \div k < k
  BY <1>1, <1>2, DivMod, DivBound
<1>5. n % k \in 0..TimeMax /\ n \div k \in 0..TimeMax
  BY <1>1, <1>4
<1>6. LongBytes(n) \in Seq(Byte)
  BY <1>5, TimeBytesType DEF LongBytes, k
<1>7. CASE n <= U16Max
  <2>1. n \in 0..U16Max
    BY <1>2, <1>7
  <2>2. VarUint(n) \in Seq(Byte)
    BY <2>1, VarUintType
  <2> QED
    BY <1>7, <2>2 DEF AnyVarUint
<1>8. CASE n > U16Max /\ n <= TimeMax
  <2>1. TimeBytes(n) \in Seq(Byte)
    BY <1>2, <1>8, TimeBytesType
  <2>2. AnyVarUint(n) = <<Base - 2>> \o TimeBytes(n)
    BY <1>1, <1>2, <1>8 DEF AnyVarUint
  <2> QED
    BY <1>3, <2>1, <2>2
<1>9. CASE n > U16Max /\ n > TimeMax
  <2>1. AnyVarUint(n) = <<Base - 1>> \o LongBytes(n)
    BY <1>1, <1>2, <1>9 DEF AnyVarUint
  <2> QED
    BY <1>3, <1>6, <2>1
<1> QED
  BY <1>1, <1>2, <1>7, <1>8, <1>9
-----------------------------------------------------------------------------

ResultOK(r) ==
    /\ r.kind \in {"self", "raised", "script", "patched", "error"}
    /\ r.bytes \in Seq(Byte)
    /\ r.err \in Errors \cup EndErrors \cup {NoError}

\* What every method but emit_label and the jump emitters does to the builder.
Appends ==
    /\ \E s \in Seq(Byte) : buffer' = buffer \o s
    /\ UNCHANGED <<jumps, labels>>
    /\ error' \in Errors \cup {NoError}
    /\ ResultOK(result')
    /\ taint' \subseteq {"raw", "raised"}

\* Every outcome of a method is well typed.
LEMMA ResultTypes ==
    /\ ResultOK(Self) /\ ResultOK(Raises)
    /\ \A e \in Errors \cup EndErrors \cup {NoError} : ResultOK(Failure(e))
    /\ \A b \in Seq(Byte), k \in {"script", "patched"} : ResultOK(Done(k, b))
  BY DEF ResultOK, Self, Raises, Failure, Done, NoError

\* The opcodes and types that the methods write are bytes.
LEMMA OpcodesAreBytes ==
    /\ NOP \in Byte /\ MOVE \in Byte /\ COPY \in Byte /\ PUSH \in Byte
    /\ POP \in Byte /\ CALL \in Byte /\ EXTCALL \in Byte /\ JMP \in Byte
    /\ JMPIF \in Byte /\ JMPNOT \in Byte /\ RET \in Byte /\ THROW \in Byte
    /\ LOAD \in Byte /\ VMTypeString \in Byte /\ VMTypeTimestamp \in Byte
    /\ 0 \in Byte
  BY DEF NOP, MOVE, COPY, PUSH, POP, CALL, EXTCALL, JMP, JMPIF, JMPNOT, RET,
     THROW, LOAD, VMTypeString, VMTypeTimestamp, Byte

\* Emitting one byte is writing a one-byte string.
LEMMA AppendByte ==
    ASSUME NEW s \in Seq(Byte), NEW b \in Byte
    PROVE  Append(s, b) = s \o <<b>>
  OBVIOUS

\* A retained failure writes nothing.
LEMMA FailAppends ==
    ASSUME TypeOK, NEW e \in Errors, Fail(e)
    PROVE  Appends
<1>1. buffer' = buffer \o << >>
  BY DEF Fail, TypeOK
<1>2. \E s \in Seq(Byte) : buffer' = buffer \o s
  <2> WITNESS << >> \in Seq(Byte)
  <2> QED
    BY <1>1
<1>3. QED
  BY <1>2, ResultTypes DEF Fail, Appends, TypeOK, FirstError

\* An exception leaves the bytes written before it.
LEMMA RaiseAppends ==
    ASSUME TypeOK, NEW s \in Seq(Byte), RaiseAfter(s)
    PROVE  Appends
  BY ResultTypes DEF RaiseAfter, Appends, TypeOK

\* Whole instructions only extend the buffer.
LEMMA WriteAppends ==
    ASSUME TypeOK, NEW s \in Seq(Byte), NEW p, NEW e \in Errors \cup {NoError},
           Write(s, p, e)
    PROVE  Appends
  BY ResultTypes DEF Write, Appends, TypeOK, FirstError

\* Whether or not an operand is rejected, only bytes are appended.
LEMMA InstructionAppends ==
    ASSUME TypeOK, NEW op \in Byte, NEW operands \in Seq(Int),
           NEW tail \in Seq(Byte), NEW data,
           Instruction(op, operands, tail, data)
    PROVE  Appends
<1>1. PICK k \in 0..Len(operands) :
        /\ \A i \in 1..k : operands[i] \in Byte
        /\ \/ /\ k = Len(operands)
              /\ Write(<<op>> \o operands \o tail,
                       <<Instr(op, operands, data)>>, NoError)
           \/ RaiseAfter(<<op>> \o SubSeq(operands, 1, k))
  BY DEF Instruction
<1>2. CASE k = Len(operands) /\ Write(<<op>> \o operands \o tail,
                       <<Instr(op, operands, data)>>, NoError)
  <2>1. operands \in Seq(Byte)
    BY <1>1, <1>2
  <2>2. <<op>> \o operands \o tail \in Seq(Byte)
    BY <2>1
  <2>3. QED
    BY <1>2, <2>2, WriteAppends
<1>3. CASE RaiseAfter(<<op>> \o SubSeq(operands, 1, k))
  <2>1. SubSeq(operands, 1, k) \in Seq(Byte)
    BY <1>1
  <2>2. <<op>> \o SubSeq(operands, 1, k) \in Seq(Byte)
    BY <2>1
  <2>3. QED
    BY <1>3, <2>2, RaiseAppends
<1>4. QED
  BY <1>1, <1>2, <1>3

IInv == TypeOK /\ PatchTable

\* Appending bytes disturbs neither reserved operands nor label NOPs.
LEMMA AppendsPreserves ==
    ASSUME IInv, Appends, calls' \in 0..MaxCalls
    PROVE  IInv'
<1>1. PICK s \in Seq(Byte) : buffer' = buffer \o s
  BY DEF Appends
<1>2. buffer \in Seq(Byte)
  BY DEF IInv, TypeOK
<1>3. /\ buffer' \in Seq(Byte)
      /\ Len(buffer') >= Len(buffer)
      /\ \A i \in 1..Len(buffer) : buffer'[i] = buffer[i]
  BY <1>1, <1>2
<1>4. TypeOK'
  BY <1>3 DEF IInv, TypeOK, Appends, ResultOK
<1>5. PatchesReserved'
  <2> SUFFICES /\ \A o \in DOMAIN jumps :
                    o + 2 <= Len(buffer') /\ buffer'[o + 1] = 0 /\ buffer'[o + 2] = 0
               /\ \A o, p \in DOMAIN jumps : o < p => o + 2 <= p
    BY DEF PatchesReserved, Appends
  <2>1. DOMAIN jumps \subseteq Nat /\ Len(buffer) \in Nat /\ Len(buffer') \in Nat
    BY <1>2, <1>3 DEF IInv, TypeOK
  <2> QED
    BY <1>3, <2>1 DEF IInv, PatchTable, PatchesReserved
<1>6. LabelsAfterNop'
  <2> SUFFICES ASSUME NEW l \in DOMAIN labels
               PROVE  /\ labels[l] \in 1..Len(buffer')
                      /\ buffer'[labels[l]] = NOP
                      /\ \A o \in DOMAIN jumps : labels[l] \notin {o + 1, o + 2}
    BY DEF LabelsAfterNop, Appends
  <2>1. Len(buffer) \in Nat /\ Len(buffer') \in Nat
    BY <1>2, <1>3
  <2> QED
    BY <1>3, <2>1 DEF IInv, PatchTable, LabelsAfterNop
<1>7. QED
  BY <1>4, <1>5, <1>6 DEF IInv, PatchTable

\* A new patch offset lies past everything written before it.
LEMMA PlaceholderPreserves ==
    ASSUME IInv, NEW op \in Byte, NEW operands \in Seq(Byte),
           NEW label \in Labels,
           Placeholder(op, operands, label), calls' \in 0..MaxCalls
    PROVE  IInv'
<1> DEFINE at == Len(buffer) + 1 + Len(operands)
<1>1. buffer \in Seq(Byte) /\ DOMAIN jumps \subseteq Nat
  BY DEF IInv, TypeOK
<1>2. /\ buffer' = buffer \o <<op>> \o operands \o <<0, 0>>
      /\ jumps' = Extended(jumps, at, label)
      /\ labels' = labels
  BY DEF Placeholder, PatchOffset
<1>3. buffer' \in Seq(Byte)
  BY <1>1, <1>2, OpcodesAreBytes
<1>4. /\ at \in Nat /\ at > Len(buffer)
      /\ Len(buffer') = at + 2
      /\ \A i \in 1..Len(buffer) : buffer'[i] = buffer[i]
      /\ buffer'[at + 1] = 0 /\ buffer'[at + 2] = 0
  BY <1>1, <1>2
<1>5. /\ DOMAIN jumps' = DOMAIN jumps \cup {at}
      /\ \A o \in DOMAIN jumps' : jumps'[o] = IF o = at THEN label ELSE jumps[o]
  BY <1>2 DEF Extended
<1> HIDE DEF at
<1>6. TypeOK'
  BY <1>2, <1>3, <1>4, <1>5, ResultTypes
     DEF IInv, TypeOK, Placeholder, PatchOffset, ResultOK
<1>7. \A o \in DOMAIN jumps : o \in Nat /\ o + 2 <= Len(buffer)
  BY <1>1 DEF IInv, PatchTable, PatchesReserved
<1>8. PatchesReserved'
  <2>0. Len(buffer) \in Nat
    BY <1>1
  <2>1. ASSUME NEW o \in DOMAIN jumps'
        PROVE  o + 2 <= Len(buffer') /\ buffer'[o + 1] = 0 /\ buffer'[o + 2] = 0
    <3>1. CASE o = at
      BY <1>4, <3>1
    <3>2. CASE o # at
      <4>1. o \in DOMAIN jumps
        BY <1>5, <3>2
      <4>2. buffer[o + 1] = 0 /\ buffer[o + 2] = 0
        BY <4>1 DEF IInv, PatchTable, PatchesReserved
      <4>3. o + 1 \in 1..Len(buffer) /\ o + 2 \in 1..Len(buffer)
        BY <1>7, <2>0, <4>1
      <4> QED
        BY <1>4, <2>0, <4>2, <4>3
    <3> QED
      BY <3>1, <3>2
  <2>2. ASSUME NEW o \in DOMAIN jumps', NEW p \in DOMAIN jumps', o < p
        PROVE  o + 2 <= p
    BY <1>4, <1>5, <1>7, <2>0, <2>2 DEF IInv, PatchTable, PatchesReserved
  <2> QED
    BY <2>1, <2>2 DEF PatchesReserved
<1>9. LabelsAfterNop'
  <2>0. Len(buffer) \in Nat
    BY <1>1
  <2> SUFFICES ASSUME NEW l \in DOMAIN labels
               PROVE  /\ labels[l] \in 1..Len(buffer')
                      /\ buffer'[labels[l]] = NOP
                      /\ \A o \in DOMAIN jumps' : labels[l] \notin {o + 1, o + 2}
    BY <1>2 DEF LabelsAfterNop
  <2>1. labels[l] \in 1..Len(buffer) /\ buffer[labels[l]] = NOP
    BY DEF IInv, PatchTable, LabelsAfterNop
  <2>2. \A o \in DOMAIN jumps : labels[l] \notin {o + 1, o + 2}
    BY DEF IInv, PatchTable, LabelsAfterNop
  <2> QED
    BY <1>4, <1>5, <2>0, <2>1, <2>2
<1>10. QED
  BY <1>6, <1>8, <1>9 DEF IInv, PatchTable

\* The NOP of a new label lies past every reserved operand.
LEMMA LabelPreserves ==
    ASSUME IInv, NEW label \in Labels, EmitLabel(label), calls' \in 0..MaxCalls
    PROVE  IInv'
<1> DEFINE at == Len(buffer) + 1
<1>1. buffer \in Seq(Byte) /\ DOMAIN jumps \subseteq Nat
  BY DEF IInv, TypeOK
<1>2. /\ buffer' = Append(buffer, NOP)
      /\ jumps' = jumps
      /\ labels' = Extended(labels, Lower[label], at)
  BY DEF EmitLabel, Labelled
<1>3. /\ buffer' \in Seq(Byte)
      /\ at \in Nat /\ at > Len(buffer) /\ Len(buffer') = at
      /\ \A i \in 1..Len(buffer) : buffer'[i] = buffer[i]
      /\ buffer'[at] = NOP
  BY <1>1, <1>2, OpcodesAreBytes
<1>4. /\ DOMAIN labels' = DOMAIN labels \cup {Lower[label]}
      /\ \A l \in DOMAIN labels' :
           labels'[l] = IF l = Lower[label] THEN at ELSE labels[l]
  BY <1>2 DEF Extended
<1> HIDE DEF at
<1>5. Lower[label] \in Labels
  BY BuilderAssumption
<1>6. TypeOK'
  BY <1>2, <1>3, <1>4, <1>5, ResultTypes
     DEF IInv, TypeOK, EmitLabel, Labelled, ResultOK
<1>7. \A o \in DOMAIN jumps : o \in Nat /\ o + 2 <= Len(buffer)
  BY <1>1 DEF IInv, PatchTable, PatchesReserved
<1>8. Len(buffer) \in Nat
  BY <1>1
<1>9. PatchesReserved'
  BY <1>2, <1>3, <1>7, <1>8 DEF IInv, PatchTable, PatchesReserved
<1>10. LabelsAfterNop'
  <2> SUFFICES ASSUME NEW l \in DOMAIN labels'
               PROVE  /\ labels'[l] \in 1..Len(buffer')
                      /\ buffer'[labels'[l]] = NOP
                      /\ \A o \in DOMAIN jumps : labels'[l] \notin {o + 1, o + 2}
    BY <1>2 DEF LabelsAfterNop
  <2>1. CASE l = Lower[label]
    BY <1>3, <1>4, <1>7, <1>8, <2>1
  <2>2. CASE l # Lower[label]
    BY <1>3, <1>4, <1>8, <2>2 DEF IInv, PatchTable, LabelsAfterNop
  <2> QED
    BY <2>1, <2>2
<1>11. QED
  BY <1>6, <1>9, <1>10 DEF IInv, PatchTable
-----------------------------------------------------------------------------
(* Finishing.                                                              *)

\* What finishing computes: a script of bytes as long as the code, equal to
\* it but for the operands, which hold the offsets of their labels.
LEMMA PatchFacts ==
    ASSUME NEW code \in Seq(Byte),
           DOMAIN jumps \subseteq Nat,
           \A l \in DOMAIN labels : labels[l] \in Nat,
           \A o \in DOMAIN jumps : ~Unpatchable(o, Len(code)),
           \A o, p \in DOMAIN jumps : o < p => o + 2 <= p
    PROVE  /\ Patch(code) \in Seq(Byte)
           /\ Len(Patch(code)) = Len(code)
           /\ \A i \in 1..Len(code) :
                (i - 1 \notin DOMAIN jumps /\ i - 2 \notin DOMAIN jumps)
                    => Patch(code)[i] = code[i]
           /\ \A o \in DOMAIN jumps :
                Patch(code)[o + 1] + Base * Patch(code)[o + 2] = Target(o)
<1>1. \A o \in DOMAIN jumps :
        /\ Target(o) \in 0..U16Max
        /\ o \in Nat /\ o + 2 <= Len(code)
  <2> SUFFICES ASSUME NEW o \in DOMAIN jumps
               PROVE  /\ Target(o) \in 0..U16Max
                      /\ o \in Nat /\ o + 2 <= Len(code)
    OBVIOUS
  <2>1. /\ Resolved(jumps[o])
        /\ ~(o + 1 >= Len(code))
        /\ ~(Target(o) > U16Max)
    BY DEF Unpatchable
  <2>2. Target(o) \in Nat
    BY <2>1 DEF Resolved, Target
  <2>3. Len(code) \in Nat /\ o \in Nat /\ U16Max \in Int
    BY BaseAssumption DEF U16Max
  <2> QED
    BY <2>1, <2>2, <2>3
<1>2. \A i \in 1..Len(code) :
        Patch(code)[i] =
          CASE i - 1 \in DOMAIN jumps -> U16(Target(i - 1))[1]
            [] i - 2 \in DOMAIN jumps -> U16(Target(i - 2))[2]
            [] OTHER -> code[i]
  BY DEF Patch
<1>3. \A i \in 1..Len(code) : ~(i - 1 \in DOMAIN jumps /\ i - 2 \in DOMAIN jumps)
  <2> SUFFICES ASSUME NEW i \in 1..Len(code),
                      i - 1 \in DOMAIN jumps, i - 2 \in DOMAIN jumps
               PROVE  FALSE
    OBVIOUS
  <2>1. i - 2 < i - 1 => i - 2 + 2 <= i - 1
    OBVIOUS
  <2> QED
    BY <2>1
<1>4. \A o \in DOMAIN jumps :
        /\ U16(Target(o))[1] \in Byte /\ U16(Target(o))[2] \in Byte
        /\ U16(Target(o))[1] + Base * U16(Target(o))[2] = Target(o)
  BY <1>1, U16Type
<1>5. \A i \in 1..Len(code) : Patch(code)[i] \in Byte
  BY <1>2, <1>3, <1>4
<1>6. Patch(code) = [i \in 1..Len(code) |-> Patch(code)[i]]
  BY DEF Patch
<1>7. Patch(code) \in Seq(Byte) /\ Len(Patch(code)) = Len(code)
  <2>1. Len(code) \in Nat
    OBVIOUS
  <2>2. Patch(code) \in [1..Len(code) -> Byte]
    BY <1>5, <1>6
  <2> QED
    BY <2>1, <2>2
<1>8. ASSUME NEW o \in DOMAIN jumps
      PROVE  Patch(code)[o + 1] + Base * Patch(code)[o + 2] = Target(o)
  <2>1. o + 1 \in 1..Len(code) /\ o + 2 \in 1..Len(code)
    BY <1>1
  <2>2. (o + 1) - 1 = o /\ (o + 2) - 2 = o /\ (o + 2) - 1 = o + 1
    BY <1>1
  <2>3. o + 1 \notin DOMAIN jumps
    BY <1>3, <2>1, <2>2
  <2>4. Patch(code)[o + 1] = U16(Target(o))[1]
    <3> DEFINE i == o + 1
    <3>1. i \in 1..Len(code) /\ i - 1 = o
      BY <2>1, <2>2
    <3> HIDE DEF i
    <3>2. Patch(code)[i] = U16(Target(i - 1))[1]
      BY <1>2, <3>1
    <3> QED
      BY <3>1, <3>2 DEF i
  <2>5. Patch(code)[o + 2] = U16(Target(o))[2]
    <3> DEFINE i == o + 2
    <3>1. i \in 1..Len(code) /\ i - 1 \notin DOMAIN jumps /\ i - 2 = o
      BY <2>1, <2>2, <2>3
    <3> HIDE DEF i
    <3>2. Patch(code)[i] = U16(Target(i - 2))[2]
      BY <1>2, <3>1
    <3> QED
      BY <3>1, <3>2 DEF i
  <2> QED
    BY <1>4, <2>4, <2>5
<1>9. QED
  <2>1. ASSUME NEW i \in 1..Len(code),
               i - 1 \notin DOMAIN jumps, i - 2 \notin DOMAIN jumps
        PROVE  Patch(code)[i] = code[i]
    BY <1>2, <2>1
  <2> QED
    BY <1>7, <1>8, <2>1

\* Nothing is outside the buffer's range when a script is finished.
LEMMA FinishFacts ==
    ASSUME IInv, NEW code \in Seq(Byte), Len(code) >= Len(buffer),
           NEW kind \in {"script", "patched"}, Finish(code, kind)
    PROVE  /\ ResultOK(result')
           /\ \/ /\ result' = Done(kind, Patch(code))
                 /\ \A o \in DOMAIN jumps : ~Unpatchable(o, Len(code))
              \/ result' \in {Failure("missing label"), Failure("target overflow")}
<1>1. /\ DOMAIN jumps \subseteq Nat
      /\ \A l \in DOMAIN labels : labels[l] \in Nat
      /\ \A o, p \in DOMAIN jumps : o < p => o + 2 <= p
      /\ \A o \in DOMAIN jumps : o + 2 <= Len(buffer)
      /\ buffer \in Seq(Byte)
  BY DEF IInv, TypeOK, PatchTable, PatchesReserved
<1>2. CASE /\ \A o \in DOMAIN jumps : ~Unpatchable(o, Len(code))
           /\ result' = Done(kind, Patch(code))
  BY <1>1, <1>2, PatchFacts, ResultTypes
<1>3. CASE \E o \in DOMAIN jumps :
             /\ Unpatchable(o, Len(code))
             /\ result' = Failure(PatchError(o, Len(code)))
  <2>1. PICK o \in DOMAIN jumps : result' = Failure(PatchError(o, Len(code)))
    BY <1>3
  <2>2. ~(o + 1 >= Len(code))
    <3>1. o \in Nat /\ o + 2 <= Len(buffer) /\ Len(buffer) \in Nat /\ Len(code) \in Nat
      BY <1>1
    <3> QED
      BY <3>1
  <2>3. PatchError(o, Len(code)) \in {"missing label", "target overflow"}
    BY <2>2 DEF PatchError
  <2> QED
    BY <2>1, <2>3, ResultTypes DEF EndErrors
<1>4. QED
  BY <1>2, <1>3 DEF Finish

\* end_script keeps the patch table sound, and gives the patched buffer or an
\* error that is not about a patch offset.
LEMMA EndPreserves ==
    ASSUME IInv, EndScript, calls' \in 0..MaxCalls
    PROVE  /\ IInv'
           /\ \/ /\ result' = Done("script", Patch(buffer'))
                 /\ \A o \in DOMAIN jumps : ~Unpatchable(o, Len(buffer'))
              \/ \E e \in Errors \cup {"missing label", "target overflow"} :
                   result' = Failure(e)
<1>1. /\ buffer \in Seq(Byte) /\ buffer' = Append(buffer, RET)
      /\ error \in Errors \cup {NoError}
      /\ UNCHANGED <<jumps, labels, error, taint>>
      /\ taint \subseteq {"raw", "raised"}
  BY DEF EndScript, IInv, TypeOK
<1>2. buffer' \in Seq(Byte) /\ Len(buffer') >= Len(buffer)
  BY <1>1, OpcodesAreBytes
<1>3. /\ ResultOK(result')
      /\ \/ /\ result' = Done("script", Patch(buffer'))
            /\ \A o \in DOMAIN jumps : ~Unpatchable(o, Len(buffer'))
         \/ \E e \in Errors \cup {"missing label", "target overflow"} :
              result' = Failure(e)
  <2>1. CASE error # NoError /\ result' = Failure(error)
    BY <1>1, <2>1, ResultTypes
  <2>2. CASE Finish(Append(buffer, RET), "script")
    BY <1>1, <1>2, <2>2, FinishFacts
  <2> QED
    BY <2>1, <2>2 DEF EndScript
<1>4. Appends
  <2>1. <<RET>> \in Seq(Byte) /\ buffer' = buffer \o <<RET>>
    BY <1>1, OpcodesAreBytes
  <2> QED
    BY <1>1, <1>3, <2>1 DEF Appends
<1>5. QED
  BY <1>3, <1>4, AppendsPreserves

\* So does to_script.
LEMMA ToScriptPreserves ==
    ASSUME IInv, ToScript, calls' \in 0..MaxCalls
    PROVE  /\ IInv'
           /\ \/ /\ result' = Done("patched", Patch(buffer'))
                 /\ \A o \in DOMAIN jumps : ~Unpatchable(o, Len(buffer'))
              \/ \E e \in Errors \cup {"missing label", "target overflow"} :
                   result' = Failure(e)
<1>1. /\ buffer \in Seq(Byte) /\ buffer' = buffer
      /\ error \in Errors \cup {NoError}
      /\ UNCHANGED <<jumps, labels, error, taint>>
      /\ taint \subseteq {"raw", "raised"}
  BY DEF ToScript, IInv, TypeOK
<1>2. Len(buffer) >= Len(buffer)
  BY <1>1
<1>3. /\ ResultOK(result')
      /\ \/ /\ result' = Done("patched", Patch(buffer'))
            /\ \A o \in DOMAIN jumps : ~Unpatchable(o, Len(buffer'))
         \/ \E e \in Errors \cup {"missing label", "target overflow"} :
              result' = Failure(e)
  BY <1>1, <1>2, FinishFacts DEF ToScript
<1>4. Appends
  <2>1. << >> \in Seq(Byte) /\ buffer' = buffer \o << >>
    BY <1>1
  <2> QED
    BY <1>1, <1>3, <2>1 DEF Appends
<1>5. QED
  BY <1>3, <1>4, AppendsPreserves

\* The methods that only append.
Plain ==
    \/ \E op \in {NOP, RET} : Emit(op)
    \/ \E c \in RawChunks : EmitRaw(c)
    \/ \E n \in VarValues : EmitVarBytes(n)
    \/ \E op \in {PUSH, POP, THROW}, r \in Registers : EmitReg(op, r)
    \/ \E op \in {MOVE, COPY}, r, s \in Registers : EmitRegs(op, r, s)
    \/ \E r \in Registers, d \in Payloads, t \in LoadTypes : EmitLoad(r, d, t)
    \/ \E r \in Registers, t \in Times : EmitLoadTime(r, t)
    \/ \E d \in Payloads, r \in Registers : EmitExtCall(d, r)

\* The length prefix and data of a LOAD are bytes.
LEMMA LoadBytes ==
    ASSUME NEW d \in Seq(Byte), ~TooLong(d)
    PROVE  VarUint(Len(d)) \o d \in Seq(Byte)
<1>1. Len(d) \in 0..U16Max
  <2>1. Len(d) \in Nat /\ U16Max \in Int
    BY BaseAssumption DEF U16Max
  <2> QED
    BY <2>1 DEF TooLong
<1>2. QED
  BY <1>1, VarUintType

\* emit_ext_call only extends the buffer, whichever of its halves failed.
LEMMA ExtCallAppends ==
    ASSUME TypeOK, NEW d \in Payloads, NEW r \in Registers, EmitExtCall(d, r)
    PROVE  Appends
<1>0. d \in Seq(Byte) /\ r \in Int
  BY BuilderAssumption
<1> DEFINE load == Instr(LOAD, <<r, VMTypeString>>, d)
           ext == Instr(EXTCALL, <<r>>, <<>>)
           code == <<LOAD, r, VMTypeString>> \o VarUint(Len(d)) \o d \o <<EXTCALL, r>>
<1>1. CASE ~TooLong(d) /\ r \in Byte /\ Write(code, <<load, ext>>, NoError)
  <2>1. VarUint(Len(d)) \in Seq(Byte)
    <3>1. Len(d) \in 0..U16Max
      BY <1>0, <1>1, BaseAssumption DEF TooLong, U16Max
    <3> QED
      BY <3>1, VarUintType
  <2>2. <<LOAD, r, VMTypeString>> \in Seq(Byte) /\ <<EXTCALL, r>> \in Seq(Byte)
    BY <1>1, OpcodesAreBytes
  <2>3. code \in Seq(Byte)
    BY <1>0, <2>1, <2>2
  <2> HIDE DEF code, load, ext
  <2> QED
    BY <1>1, <2>3, WriteAppends
<1>2. CASE RaiseAfter(<<LOAD>>)
  <2>1. LOAD \in Byte
    BY OpcodesAreBytes
  <2>2. <<LOAD>> \in Seq(Byte)
    BY <2>1
  <2> QED
    BY <1>2, <2>2, RaiseAppends
<1>3. CASE r \in Byte /\ Write(<<EXTCALL, r>>, <<ext>>, "load too long")
  <2>1. "load too long" \in Errors
    BY DEF Errors
  <2>2. EXTCALL \in Byte /\ r \in Byte
    BY <1>3, OpcodesAreBytes
  <2>3. <<EXTCALL, r>> \in Seq(Byte)
    BY <2>2
  <2> HIDE DEF ext
  <2> QED
    BY <1>3, <2>1, <2>3, WriteAppends
<1>4. CASE /\ buffer' = Append(buffer, EXTCALL)
           /\ error' = FirstError("load too long")
           /\ taint' = taint \cup {"raised"}
           /\ result' = Raises
           /\ UNCHANGED <<jumps, labels, prog>>
  <2>1. EXTCALL \in Byte
    BY OpcodesAreBytes
  <2>2. <<EXTCALL>> \in Seq(Byte)
    BY <2>1
  <2>3. buffer' = buffer \o <<EXTCALL>>
    BY <1>4, <2>1, AppendByte DEF TypeOK
  <2>4. \E s \in Seq(Byte) : buffer' = buffer \o s
    BY <2>2, <2>3
  <2>5. error' \in Errors \cup {NoError}
    BY <1>4 DEF FirstError, TypeOK, Errors
  <2> QED
    BY <1>4, <2>4, <2>5, ResultTypes DEF Appends, TypeOK
<1>5. QED
  BY <1>1, <1>2, <1>3, <1>4 DEF EmitExtCall

\* Every method but emit_label, the jumps and the finishing ones only extends
\* the buffer.
LEMMA PlainAppends ==
    ASSUME TypeOK, Plain
    PROVE  Appends
<1>0. << >> \in Seq(Byte) /\ NoError \in Errors \cup {NoError}
  OBVIOUS
<1>1. ASSUME NEW op \in {NOP, RET}, Emit(op) PROVE Appends
  <2>1. <<op>> \in Seq(Byte)
    BY OpcodesAreBytes
  <2> QED
    BY <1>0, <1>1, <2>1, WriteAppends DEF Emit
<1>2. ASSUME NEW c \in RawChunks, EmitRaw(c) PROVE Appends
  BY <1>2, BuilderAssumption, ResultTypes DEF EmitRaw, Appends, TypeOK
<1>3. ASSUME NEW n \in VarValues, EmitVarBytes(n) PROVE Appends
  <2>1. CASE n < 0 /\ RaiseAfter(<<>>)
    BY <1>0, <2>1, RaiseAppends
  <2>2. CASE n > LongMax /\ RaiseAfter(<<Base - 1>>)
    <3>1. <<Base - 1>> \in Seq(Byte)
      <4>1. Base - 1 \in Byte
        BY BaseAssumption, BuilderAssumption DEF Byte
      <4> QED
        BY <4>1
    <3> QED
      BY <1>0, <2>2, <3>1, RaiseAppends
  <2>3. CASE /\ n \in 0..LongMax
             /\ buffer' = buffer \o AnyVarUint(n)
             /\ taint' = taint \cup {"raw"}
             /\ result' = Self
             /\ UNCHANGED <<jumps, labels, error, prog>>
    BY <2>3, AnyVarUintType, ResultTypes DEF Appends, TypeOK
  <2> QED
    BY <1>3, <2>1, <2>2, <2>3 DEF EmitVarBytes
<1>4. ASSUME NEW op \in {PUSH, POP, THROW}, NEW r \in Registers, EmitReg(op, r)
      PROVE  Appends
  <2>1. op \in Byte /\ <<r>> \in Seq(Int)
    BY OpcodesAreBytes, BuilderAssumption
  <2> QED
    BY <1>0, <1>4, <2>1, InstructionAppends DEF EmitReg
<1>5. ASSUME NEW op \in {MOVE, COPY}, NEW r \in Registers, NEW s \in Registers,
             EmitRegs(op, r, s)
      PROVE  Appends
  <2>1. op \in Byte /\ <<r, s>> \in Seq(Int)
    BY OpcodesAreBytes, BuilderAssumption
  <2> QED
    BY <1>0, <1>5, <2>1, InstructionAppends DEF EmitRegs
<1>6. ASSUME NEW r \in Registers, NEW d \in Payloads, NEW t \in LoadTypes,
             EmitLoad(r, d, t)
      PROVE  Appends
  <2>1. CASE Fail("load too long")
    BY <2>1, FailAppends DEF Errors
  <2>2. CASE /\ ~TooLong(d)
             /\ Instruction(LOAD, <<r, t>>, VarUint(Len(d)) \o d, d)
    <3>1. VarUint(Len(d)) \o d \in Seq(Byte)
      BY <2>2, LoadBytes, BuilderAssumption
    <3>2. LOAD \in Byte /\ <<r, t>> \in Seq(Int)
      BY OpcodesAreBytes, BuilderAssumption DEF Byte
    <3> QED
      BY <2>2, <3>1, <3>2, InstructionAppends
  <2> QED
    BY <1>6, <2>1, <2>2 DEF EmitLoad
<1>7. ASSUME NEW r \in Registers, NEW t \in Times, EmitLoadTime(r, t)
      PROVE  Appends
  <2>1. CASE Fail("bad timestamp")
    BY <2>1, FailAppends DEF Errors
  <2>2. CASE /\ t \in 0..TimeMax
             /\ Instruction(LOAD, <<r, VMTypeTimestamp>>,
                            VarUint(4) \o TimeBytes(t), TimeBytes(t))
    <3>1. TimeBytes(t) \in Seq(Byte)
      BY <2>2, TimeBytesType
    <3>2. 4 \in 0..U16Max
      <4>1. Base * Base >= 4 * 4
        BY BaseAssumption
      <4> QED
        BY <4>1, BaseAssumption DEF U16Max
    <3>3. VarUint(4) \o TimeBytes(t) \in Seq(Byte)
      BY <3>1, <3>2, VarUintType
    <3>4. LOAD \in Byte /\ <<r, VMTypeTimestamp>> \in Seq(Int)
      BY OpcodesAreBytes, BuilderAssumption DEF Byte
    <3> QED
      BY <2>2, <3>3, <3>4, InstructionAppends
  <2> QED
    BY <1>7, <2>1, <2>2 DEF EmitLoadTime
<1>8. ASSUME NEW d \in Payloads, NEW r \in Registers, EmitExtCall(d, r)
      PROVE  Appends
  BY <1>8, ExtCallAppends
<1>9. QED
  BY <1>1, <1>2, <1>3, <1>4, <1>5, <1>6, <1>7, <1>8 DEF Plain

\* One step of the builder, whatever the method.
LEMMA LowStep ==
    ASSUME IInv, Low
    PROVE  IInv'
<1>1. calls' \in 0..MaxCalls
  <2>1. Call
    BY DEF Low, Emit, EmitRaw, EmitVarBytes, EmitReg, EmitRegs, EmitLoad,
       EmitLoadTime, EmitExtCall, EmitLabel, Labelled, EmitJump, EmitConditionalJump,
       EmitCall, EndScript, ToScript
  <2> QED
    BY <2>1, BuilderAssumption DEF Call, IInv, TypeOK
<1>2. CASE Plain
  BY <1>1, <1>2, PlainAppends, AppendsPreserves DEF IInv
<1>3. CASE \E l \in Labels : EmitLabel(l)
  BY <1>1, <1>3, LabelPreserves
<1>4. ASSUME NEW op \in JumpArguments, NEW l \in Labels, NEW r \in Registers,
             Jump(op, l, r)
      PROVE  IInv'
  <2>0. op \in Byte
    BY BuilderAssumption
  <2>1. CASE Fail("bad jump opcode")
    <3>1. "bad jump opcode" \in Errors
      BY DEF Errors
    <3> QED
      BY <1>1, <2>1, <3>1, FailAppends, AppendsPreserves DEF IInv
  <2>2. CASE RaiseAfter(<<op>>)
    <3>1. <<op>> \in Seq(Byte)
      BY <2>0
    <3> QED
      BY <1>1, <2>2, <3>1, RaiseAppends, AppendsPreserves DEF IInv
  <2>3. CASE /\ op = JMP \/ r \in Byte
             /\ Placeholder(op, JumpOperands(op, r), l)
    <3>1. JumpOperands(op, r) \in Seq(Byte)
      BY <2>3 DEF JumpOperands
    <3> QED
      BY <1>1, <2>0, <2>3, <3>1, PlaceholderPreserves
  <2> QED
    BY <1>4, <2>1, <2>2, <2>3 DEF Jump
<1>5. ASSUME NEW op \in JumpArguments, NEW l \in Labels, NEW r \in Registers,
             EmitJump(op, l, r) \/ EmitConditionalJump(op, r, l)
      PROVE  IInv'
  <2>1. CASE Jump(op, l, r)
    BY <1>4, <2>1
  <2>2. CASE Fail("bad jump opcode")
    <3>1. "bad jump opcode" \in Errors
      BY DEF Errors
    <3> QED
      BY <1>1, <2>2, <3>1, FailAppends, AppendsPreserves DEF IInv
  <2> QED
    BY <1>5, <2>1, <2>2 DEF EmitJump, EmitConditionalJump
<1>6. ASSUME NEW l \in Labels, NEW n \in RegisterCounts, EmitCall(l, n)
      PROVE  IInv'
  <2>1. CASE Fail("bad register count")
    <3>1. "bad register count" \in Errors
      BY DEF Errors
    <3> QED
      BY <1>1, <2>1, <3>1, FailAppends, AppendsPreserves DEF IInv
  <2>2. CASE n \in 1..MAX_REGISTER_COUNT /\ Placeholder(CALL, <<n>>, l)
    <3>1. n \in Byte /\ CALL \in Byte
      BY <2>2, OpcodesAreBytes, BuilderAssumption DEF Byte
    <3>2. <<n>> \in Seq(Byte)
      BY <3>1
    <3> QED
      BY <1>1, <2>2, <3>1, <3>2, PlaceholderPreserves
  <2> QED
    BY <1>6, <2>1, <2>2 DEF EmitCall
<1>7. CASE EndScript
  BY <1>1, <1>7, EndPreserves
<1>8. CASE ToScript
  BY <1>1, <1>8, ToScriptPreserves
<1>9. QED
  BY <1>2, <1>3, <1>5, <1>6, <1>7, <1>8 DEF Low, Plain

\* A new builder satisfies the invariant.
LEMMA InitIInv == Init => IInv
<1> SUFFICES ASSUME Init PROVE IInv
  OBVIOUS
<1>1. TypeOK
  BY BuilderAssumption DEF Init, TypeOK, Self
<1>2. DOMAIN jumps = {} /\ DOMAIN labels = {}
  BY DEF Init
<1>3. PatchTable
  BY <1>2 DEF PatchTable, PatchesReserved, LabelsAfterNop
<1>4. QED
  BY <1>1, <1>3 DEF IInv

\* So does one that nothing is done to.
LEMMA StutterIInv == IInv /\ UNCHANGED vars => IInv'
  BY DEF IInv, TypeOK, PatchTable, PatchesReserved, LabelsAfterNop, vars

\* The inductive invariant holds in every state.
THEOREM Inductive == Spec => []IInv
<1>1. Init => IInv
  BY InitIInv
<1>2. IInv /\ [Low]_vars => IInv'
  BY LowStep, StutterIInv
<1>3. QED
  BY <1>1, <1>2, PTL DEF Spec
-----------------------------------------------------------------------------
(* The theorems.                                                           *)

\* The builder's state has its type for any operands, in or out of range:
\* in particular the finished script is a string of bytes.
THEOREM TypeCorrect == Spec => []TypeOK
<1>1. IInv => TypeOK
  BY DEF IInv
<1>2. QED
  BY <1>1, Inductive, PTL

\* emit_jump, emit_call and emit_label keep the patch table sound through
\* every method that may be called after them: the bytes of every pending jump
\* are reserved, and a label follows a NOP of its own, which no patch overwrites.
THEOREM PatchTableSound == Spec => []PatchTable
<1>1. IInv => PatchTable
  BY DEF IInv
<1>2. QED
  BY <1>1, Inductive, PTL

\* What the last call returned, related to the buffer.  A method that is not
\* a finishing one returns neither a script nor a finishing error.
Finished ==
    /\ result.err # "bad patch offset"
    /\ result.kind \in {"script", "patched"} =>
         /\ result.bytes = Patch(buffer)
         /\ \A o \in DOMAIN jumps : ~Unpatchable(o, Len(buffer))
    /\ result.kind = "script" =>
         /\ buffer # <<>>
         /\ \A l \in DOMAIN labels : labels[l] < Len(buffer)

\* Outcomes that are no script.
Unfinished(r) ==
    r.kind \notin {"script", "patched"} /\ r.err # "bad patch offset"

\* The builder itself, an exception and an error are no script.
LEMMA UnfinishedResults ==
    /\ Unfinished(Self) /\ Unfinished(Raises)
    /\ \A e \in Errors \cup {"missing label", "target overflow"} :
         Unfinished(Failure(e))
  BY DEF Unfinished, Self, Raises, Failure, NoError, Errors

\* Only the finishing methods return a script or an error.
LEMMA EmittersReturn ==
    ASSUME Low, ~EndScript, ~ToScript
    PROVE  result' = Self \/ result' = Raises
<1>1. \A e : Fail(e) => result' = Self
  BY DEF Fail
<1>2. \A b : RaiseAfter(b) => result' = Raises
  BY DEF RaiseAfter
<1>3. \A c, p, e : Write(c, p, e) => result' = Self
  BY DEF Write
<1>4. \A op, a, t, d : Instruction(op, a, t, d) => result' = Self \/ result' = Raises
  BY <1>2, <1>3 DEF Instruction
<1>5. \A op, a, l : Placeholder(op, a, l) => result' = Self
  BY DEF Placeholder, PatchOffset
<1>6. \A op, l, r : Jump(op, l, r) => result' = Self \/ result' = Raises
  BY <1>1, <1>2, <1>5 DEF Jump
<1>7. QED
  BY <1>1, <1>2, <1>3, <1>4, <1>5, <1>6
     DEF Low, Emit, EmitRaw, EmitVarBytes, EmitReg, EmitRegs, EmitLoad,
         EmitLoadTime, EmitExtCall, EmitLabel, Labelled, EmitJump, EmitConditionalJump,
         EmitCall

\* What was returned stays true of the buffer.
LEMMA FinishedStep ==
    ASSUME IInv, Finished, [Low]_vars
    PROVE  Finished'
<1>0. Unfinished(result') => Finished'
  BY DEF Unfinished, Finished
<1>1. CASE UNCHANGED vars
  BY <1>1 DEF Finished, vars, Patch, Unpatchable, Resolved, Target
<1>2. CASE Low /\ ~EndScript /\ ~ToScript
  BY <1>0, <1>2, EmittersReturn, UnfinishedResults
<1>3. CASE EndScript
  <2>1. calls' \in 0..MaxCalls
    BY <1>3, BuilderAssumption DEF EndScript, Call, IInv, TypeOK
  <2>2. CASE /\ result' = Done("script", Patch(buffer'))
             /\ \A o \in DOMAIN jumps : ~Unpatchable(o, Len(buffer'))
    <3>1. /\ buffer \in Seq(Byte) /\ buffer' = Append(buffer, RET)
          /\ jumps' = jumps /\ labels' = labels
      BY <1>3 DEF EndScript, IInv, TypeOK
    <3>2. Len(buffer') = Len(buffer) + 1 /\ buffer' # << >> /\ Len(buffer) \in Nat
      BY <3>1
    <3>3. \A l \in DOMAIN labels' : labels'[l] < Len(buffer')
      BY <3>1, <3>2 DEF IInv, PatchTable, LabelsAfterNop
    <3>4. (Patch(buffer))' = Patch(buffer')
      BY <3>1 DEF Patch, Target
    <3>5. \A o \in DOMAIN jumps' : (~Unpatchable(o, Len(buffer)))'
      BY <2>2, <3>1 DEF Unpatchable, Resolved, Target
    <3> QED
      BY <2>2, <3>2, <3>3, <3>4, <3>5 DEF Finished, Done, NoError
  <2>3. CASE \E e \in Errors \cup {"missing label", "target overflow"} :
               result' = Failure(e)
    BY <1>0, <2>3, UnfinishedResults
  <2> QED
    BY <1>3, <2>1, <2>2, <2>3, EndPreserves
<1>4. CASE ToScript
  <2>1. calls' \in 0..MaxCalls
    BY <1>4, BuilderAssumption DEF ToScript, Call, IInv, TypeOK
  <2>2. CASE /\ result' = Done("patched", Patch(buffer'))
             /\ \A o \in DOMAIN jumps : ~Unpatchable(o, Len(buffer'))
    <3>1. jumps' = jumps /\ labels' = labels
      BY <1>4 DEF ToScript
    <3>2. (Patch(buffer))' = Patch(buffer')
      BY <3>1 DEF Patch, Target
    <3>3. \A o \in DOMAIN jumps' : (~Unpatchable(o, Len(buffer)))'
      BY <2>2, <3>1 DEF Unpatchable, Resolved, Target
    <3> QED
      BY <2>2, <3>2, <3>3 DEF Finished, Done, NoError
  <2>3. CASE \E e \in Errors \cup {"missing label", "target overflow"} :
               result' = Failure(e)
    BY <1>0, <2>3, UnfinishedResults
  <2> QED
    BY <1>4, <2>1, <2>2, <2>3, ToScriptPreserves
<1>5. QED
  BY <1>1, <1>2, <1>3, <1>4

\* A returned script is the patched buffer of that moment, ended by a RET.
THEOREM AlwaysFinished == Spec => []Finished
<1>1. Init => Finished
  BY DEF Init, Finished, Self, NoError
<1>2. IInv /\ Finished /\ [Low]_vars => Finished'
  BY FinishedStep
<1>3. QED
  BY <1>1, <1>2, Inductive, PTL DEF Spec

\* to_script's own range check on patch offsets is dead code.
THEOREM NeverBadOffset == Spec => []PatchOffsetsValid
<1>1. Finished => PatchOffsetsValid
  BY DEF Finished, PatchOffsetsValid
<1>2. QED
  BY <1>1, AlwaysFinished, PTL

\* The facts about the operands, for the script just returned.
LEMMA ScriptFacts ==
    ASSUME IInv, Finished, result.kind \in {"script", "patched"}
    PROVE  /\ Len(result.bytes) = Len(buffer)
           /\ \A i \in 1..Len(buffer) :
                (i - 1 \notin DOMAIN jumps /\ i - 2 \notin DOMAIN jumps)
                    => result.bytes[i] = buffer[i]
           /\ \A o \in DOMAIN jumps :
                result.bytes[o + 1] + Base * result.bytes[o + 2] = Target(o)
<1>1. /\ buffer \in Seq(Byte) /\ DOMAIN jumps \subseteq Nat
      /\ \A l \in DOMAIN labels : labels[l] \in Nat
      /\ \A o, p \in DOMAIN jumps : o < p => o + 2 <= p
  BY DEF IInv, TypeOK, PatchTable, PatchesReserved
<1>2. /\ result.bytes = Patch(buffer)
      /\ \A o \in DOMAIN jumps : ~Unpatchable(o, Len(buffer))
  BY DEF Finished
<1>3. QED
  BY <1>1, <1>2, PatchFacts

\* Patching changes nothing but the reserved operand bytes.
THEOREM PatchFrameAlways == Spec => []PatchFrame
<1>1. IInv /\ Finished => PatchFrame
  BY ScriptFacts DEF PatchFrame
<1>2. QED
  BY <1>1, Inductive, AlwaysFinished, PTL

\* Every jump of a returned script lands inside it, just after a NOP.
THEOREM JumpsAlwaysLandInside == Spec => []JumpsLandInside
<1>1. IInv /\ Finished => JumpsLandInside
  <2> SUFFICES ASSUME IInv, Finished, result.kind = "script",
                      NEW o \in DOMAIN jumps
               PROVE  LET t == result.bytes[o + 1] + Base * result.bytes[o + 2]
                      IN  /\ t \in 1..(Len(result.bytes) - 1)
                          /\ result.bytes[t] = NOP
    BY DEF JumpsLandInside
  <2>1. /\ Len(result.bytes) = Len(buffer)
        /\ result.bytes[o + 1] + Base * result.bytes[o + 2] = Target(o)
    BY ScriptFacts
  <2> DEFINE l == Lower[jumps[o]]
  <2>2. l \in DOMAIN labels /\ Target(o) = labels[l]
    BY DEF Finished, Unpatchable, Resolved, Target
  <2>3. Len(buffer) \in Nat
    BY DEF IInv, TypeOK
  <2>4. /\ labels[l] \in 1..Len(buffer) /\ buffer[labels[l]] = NOP
        /\ \A p \in DOMAIN jumps : labels[l] \notin {p + 1, p + 2}
    BY <2>2 DEF IInv, PatchTable, LabelsAfterNop
  <2>5. labels[l] < Len(buffer)
    BY <2>2 DEF Finished
  <2> HIDE DEF l
  <2>6. labels[l] - 1 \notin DOMAIN jumps /\ labels[l] - 2 \notin DOMAIN jumps
    <3>1. \A p \in DOMAIN jumps : p \in Nat
      BY DEF IInv, TypeOK
    <3> QED
      BY <2>3, <2>4, <3>1
  <2>7. result.bytes[labels[l]] = NOP
    BY <2>4, <2>6, ScriptFacts
  <2> QED
    BY <2>1, <2>2, <2>3, <2>4, <2>5, <2>7
<1>2. QED
  BY <1>1, Inductive, AlwaysFinished, PTL

\* A retained error is the error of every later state.
LEMMA ErrorKept ==
    ASSUME Low, error # NoError
    PROVE  error' = error
<1>1. \A e : FirstError(e) = error
  BY DEF FirstError
<1>2. \A e : Fail(e) => error' = error
  BY <1>1 DEF Fail
<1>3. \A b : RaiseAfter(b) => error' = error
  BY DEF RaiseAfter
<1>4. \A c, p, e : Write(c, p, e) => error' = error
  BY <1>1 DEF Write
<1>5. \A op, a, t, d : Instruction(op, a, t, d) => error' = error
  BY <1>3, <1>4 DEF Instruction
<1>6. \A op, a, l : Placeholder(op, a, l) => error' = error
  BY DEF Placeholder, PatchOffset
<1>7. \A op, l, r : Jump(op, l, r) => error' = error
  BY <1>2, <1>3, <1>6 DEF Jump
<1>8. QED
  BY <1>1, <1>2, <1>3, <1>4, <1>5, <1>6, <1>7
     DEF Low, Emit, EmitRaw, EmitVarBytes, EmitReg, EmitRegs, EmitLoad,
         EmitLoadTime, EmitExtCall, EmitLabel, Labelled, EmitJump, EmitConditionalJump,
         EmitCall, EndScript, ToScript

\* After a method has failed, whatever is called next, the first failure is kept,
\* no script is returned, and end_script reports that failure and no later one.
THEOREM FirstErrorAlways == Spec => FirstErrorReported
<1> DEFINE Reported ==
             error # NoError =>
               /\ error' = error
               /\ result'.kind # "script"
               /\ (prog' # prog /\ result'.kind = "error") => result'.err = error
<1>1. [Low]_vars => [Reported]_vars
  <2> SUFFICES ASSUME Low, error # NoError PROVE Reported
    OBVIOUS
  <2>1. error' = error
    BY ErrorKept
  <2>2. CASE EndScript
    <3>1. result' = Failure(error)
      BY <2>2 DEF EndScript
    <3> QED
      BY <2>1, <3>1 DEF Failure
  <2>3. CASE ToScript
    <3>1. prog' = prog
      BY <2>3 DEF ToScript
    <3>2. result'.kind # "script"
      BY <2>3 DEF ToScript, Finish, Done, Failure
    <3> QED
      BY <2>1, <3>1, <3>2
  <2>4. CASE ~EndScript /\ ~ToScript
    <3>1. result' = Self \/ result' = Raises
      BY <2>4, EmittersReturn
    <3> QED
      BY <2>1, <3>1 DEF Self, Raises
  <2> QED
    BY <2>2, <2>3, <2>4
<1>2. QED
  BY <1>1, PTL DEF Spec, FirstErrorReported

-----------------------------------------------------------------------------
(* A returned script decodes.                                              *)

\* Induction on a set of numbers: the least number outside it is neither 0 nor
\* the successor of one inside.
LEMMA NumberInduction ==
    ASSUME NEW S, 0 \in S, \A n \in Nat : n \in S => n + 1 \in S
    PROVE  Nat \subseteq S
<1> DEFINE outside == Nat \ S
<1> SUFFICES ASSUME outside # {} PROVE FALSE
  OBVIOUS
<1>1. PICK least \in outside : \A n \in outside : ~(<<n, least>> \in OpToRel(<, Nat))
  BY NatLessThanWellFounded, WFMin
<1>2. \A n \in outside : ~(n < least)
  BY <1>1 DEF OpToRel
<1>3. least \in Nat \ {0}
  OBVIOUS
<1>4. least - 1 \in Nat /\ least - 1 < least /\ (least - 1) + 1 = least
  BY <1>3
<1>5. QED
  BY <1>2, <1>4

\* A concatenation, part by part.
LEMMA Parts ==
    ASSUME NEW S, NEW s \in Seq(S), NEW t \in Seq(S)
    PROVE  /\ s \o t \in Seq(S) /\ Len(s \o t) = Len(s) + Len(t)
           /\ \A k \in 1..Len(s) : (s \o t)[k] = s[k]
           /\ \A k \in 1..Len(t) : (s \o t)[Len(s) + k] = t[k]
<1>1. Len(s) \in Nat /\ Len(t) \in Nat
  OBVIOUS
<1>2. ASSUME NEW k \in 1..Len(t) PROVE (s \o t)[Len(s) + k] = t[k]
  <2>1. /\ Len(s) + k \in 1..(Len(s) + Len(t))
        /\ ~(Len(s) + k <= Len(s)) /\ Len(s) + k - Len(s) = k
    BY <1>1
  <2> QED
    BY <2>1, ConcatProperties
<1>3. ASSUME NEW k \in 1..Len(s) PROVE (s \o t)[k] = s[k]
  BY <1>1, ConcatProperties
<1>4. QED
  BY <1>2, <1>3, ConcatProperties

\* Short tuples put together.
LEMMA Triple ==
    ASSUME NEW x \in Int, NEW y \in Int, NEW z \in Int
    PROVE  <<x>> \o <<y, z>> = <<x, y, z>>
<1>1. PICK l \in Seq(Int) : l = <<x>>
  <2>1. <<x>> \in Seq(Int)
    OBVIOUS
  <2> QED
    BY <2>1, Zenon
<1>2. PICK r \in Seq(Int) : r = <<y, z>>
  <2>1. <<y, z>> \in Seq(Int)
    OBVIOUS
  <2> QED
    BY <2>1, Zenon
<1>3. PICK m \in Seq(Int) : m = <<x, y, z>>
  <2>1. <<x, y, z>> \in Seq(Int)
    OBVIOUS
  <2> QED
    BY <2>1, Zenon
<1>4. /\ Len(l) = 1 /\ l[1] = x
      /\ Len(r) = 2 /\ r[1] = y /\ r[2] = z
      /\ Len(m) = 3 /\ m[1] = x /\ m[2] = y /\ m[3] = z
  BY <1>1, <1>2, <1>3
<1>5. /\ l \o r \in Seq(Int) /\ Len(l \o r) = Len(l) + Len(r)
      /\ \A k \in 1..Len(l) : (l \o r)[k] = l[k]
      /\ \A k \in 1..Len(r) : (l \o r)[Len(l) + k] = r[k]
  BY ONLY l \in Seq(Int), r \in Seq(Int), Parts
<1>6. 1 \in 1..Len(l) /\ 1 \in 1..Len(r) /\ 2 \in 1..Len(r)
  BY <1>4
<1>7. (l \o r)[1] = x /\ (l \o r)[2] = y /\ (l \o r)[3] = z
  BY <1>4, <1>5, <1>6
<1>8. Len(l \o r) = Len(m) /\ \A k \in 1..Len(l \o r) : (l \o r)[k] = m[k]
  BY <1>4, <1>5, <1>7
<1>9. l \o r = m
  BY <1>5, <1>8, SeqEqual
<1>10. QED
  BY <1>1, <1>2, <1>3, <1>9

LEMMA Pair ==
    ASSUME NEW S, NEW x \in S, NEW y \in S
    PROVE  <<x>> \o <<y>> = <<x, y>>
<1>1. PICK l \in Seq(S) : l = <<x>>
  <2>1. <<x>> \in Seq(S)
    OBVIOUS
  <2> QED
    BY <2>1, Zenon
<1>2. PICK r \in Seq(S) : r = <<y>>
  <2>1. <<y>> \in Seq(S)
    OBVIOUS
  <2> QED
    BY <2>1, Zenon
<1>3. PICK m \in Seq(S) : m = <<x, y>>
  <2>1. <<x, y>> \in Seq(S)
    OBVIOUS
  <2> QED
    BY <2>1, Zenon
<1>4. /\ Len(l) = 1 /\ l[1] = x /\ Len(r) = 1 /\ r[1] = y
      /\ Len(m) = 2 /\ m[1] = x /\ m[2] = y
  BY <1>1, <1>2, <1>3
<1>5. /\ l \o r \in Seq(S) /\ Len(l \o r) = Len(l) + Len(r)
      /\ \A k \in 1..Len(l) : (l \o r)[k] = l[k]
      /\ \A k \in 1..Len(r) : (l \o r)[Len(l) + k] = r[k]
  BY ONLY l \in Seq(S), r \in Seq(S), Parts
<1>6. 1 \in 1..Len(l) /\ 1 \in 1..Len(r)
  BY <1>4
<1>7. (l \o r)[1] = x /\ (l \o r)[2] = y
  BY <1>4, <1>5, <1>6
<1>8. Len(l \o r) = Len(m) /\ \A k \in 1..Len(l \o r) : (l \o r)[k] = m[k]
  BY <1>4, <1>5, <1>7
<1>9. l \o r = m
  BY <1>5, <1>8, SeqEqual
<1>10. QED
  BY <1>1, <1>2, <1>3, <1>9

-----------------------------------------------------------------------------
(* Bytes at an offset.                                                       *)

\* A script that spells a string of bytes at an offset.
Spells(s, at, piece) ==
    /\ at + Len(piece) <= Len(s)
    /\ \A k \in 1..Len(piece) : s[at + k] = piece[k]

\* A string that is spelled is the piece of the script between its ends.
LEMMA SpelledPiece ==
    ASSUME NEW s \in Seq(Byte), NEW at \in Nat, NEW piece \in Seq(Byte),
           Spells(s, at, piece)
    PROVE  SubSeq(s, at + 1, at + Len(piece)) = piece
<1> DEFINE n == Len(piece)
           part == SubSeq(s, at + 1, at + n)
<1>1. n \in Nat /\ Len(s) \in Nat /\ at + n <= Len(s)
  BY DEF Spells
<1> HIDE DEF n
<1>2. part \in Seq(Byte)
  BY <1>1
<1>3. Len(part) = n
  BY <1>1
<1>4. ASSUME NEW k \in 1..n PROVE part[k] = s[at + k]
  BY <1>1
<1> HIDE DEF part
<1>5. Len(part) = Len(piece) /\ \A k \in 1..Len(part) : part[k] = piece[k]
  BY <1>3, <1>4 DEF n, Spells
<1>6. part = piece
  BY <1>2, <1>5, SeqEqual
<1>7. QED
  BY <1>6 DEF part, n

\* Two strings in a row are spelled one after the other.
LEMMA SpelledParts ==
    ASSUME NEW s \in Seq(Byte), NEW at \in Nat,
           NEW x \in Seq(Byte), NEW y \in Seq(Byte)
    PROVE  Spells(s, at, x \o y) <=> Spells(s, at, x) /\ Spells(s, at + Len(x), y)
<1>1. /\ x \o y \in Seq(Byte) /\ Len(x \o y) = Len(x) + Len(y)
      /\ \A k \in 1..Len(x) : (x \o y)[k] = x[k]
      /\ \A k \in 1..Len(y) : (x \o y)[Len(x) + k] = y[k]
  BY ONLY x \in Seq(Byte), y \in Seq(Byte), Parts
<1>2. Len(x) \in Nat /\ Len(y) \in Nat /\ Len(s) \in Nat
  OBVIOUS
<1>3. ASSUME Spells(s, at, x \o y)
      PROVE  Spells(s, at, x) /\ Spells(s, at + Len(x), y)
  <2>1. at + Len(x) + Len(y) <= Len(s)
    BY <1>1, <1>2, <1>3 DEF Spells
  <2>2. ASSUME NEW k \in 1..Len(x) PROVE s[at + k] = x[k]
    BY <1>1, <1>2, <1>3 DEF Spells
  <2>3. ASSUME NEW k \in 1..Len(y) PROVE s[at + Len(x) + k] = y[k]
    <3>1. Len(x) + k \in 1..Len(x \o y) /\ at + (Len(x) + k) = at + Len(x) + k
      BY <1>1, <1>2
    <3> QED
      BY <1>1, <1>3, <3>1 DEF Spells
  <2> QED
    BY <1>2, <2>1, <2>2, <2>3 DEF Spells
<1>4. ASSUME Spells(s, at, x), Spells(s, at + Len(x), y)
      PROVE  Spells(s, at, x \o y)
  <2>1. at + Len(x \o y) <= Len(s)
    BY <1>1, <1>2, <1>4 DEF Spells
  <2>2. ASSUME NEW k \in 1..Len(x \o y) PROVE s[at + k] = (x \o y)[k]
    <3>1. CASE k <= Len(x)
      BY <1>1, <1>2, <1>4, <3>1 DEF Spells
    <3>2. CASE ~(k <= Len(x))
      <4>1. k - Len(x) \in 1..Len(y) /\ at + Len(x) + (k - Len(x)) = at + k
            /\ Len(x) + (k - Len(x)) = k
        BY <1>1, <1>2, <3>2
      <4> QED
        BY <1>1, <1>4, <4>1 DEF Spells
    <3> QED
      BY <3>1, <3>2
  <2> QED
    BY <2>1, <2>2 DEF Spells
<1>5. QED
  BY <1>3, <1>4
-----------------------------------------------------------------------------
(* The bytes of one instruction.                                             *)

\* The instructions that the methods of the builder write.
Written ==
    {e \in [op : Byte, args : Seq(Byte), data : Seq(Byte),
            mark : Seq(Labels), goto : Seq(Labels)] :
        /\ Len(e.args) = OperandCount(e.op)
        /\ ~TooLong(e.data)
        /\ e.op # LOAD => e.data = <<>>
        /\ HasTarget(e.op) <=> e.goto # <<>>}

Opening(e) == <<e.op>> \o e.args

Rest(e) == IF e.op = LOAD THEN VarUint(Len(e.data)) \o e.data
           ELSE IF HasTarget(e.op) THEN <<0, 0>> ELSE <<>>

Encoding(e) == Opening(e) \o Rest(e)

LEMMA OperandCountType == ASSUME NEW op PROVE OperandCount(op) \in 0..3
  BY DEF OperandCount

LEMMA LoadOperands == OperandCount(LOAD) = 2
<1>1. LOAD \notin {PUSH, POP, THROW, EXTCALL, SWITCH, JMPIF, JMPNOT, CALL}
  BY DEF PUSH, POP, THROW, EXTCALL, SWITCH, JMPIF, JMPNOT, CALL, LOAD
<1>2. LOAD \notin {CAST, PUT} /\ LOAD \in {MOVE, COPY, CTX, LOAD}
  BY DEF CAST, PUT, LOAD
<1>3. QED
  BY <1>1, <1>2, Zenon DEF OperandCount

LEMMA LoadHasNoTarget == ~HasTarget(LOAD)
  BY DEF HasTarget, JumpOpcodes, LOAD, JMP, JMPIF, JMPNOT, CALL

\* A length prefix: one byte, or a marker that no short length is, and two.
LEMMA VarUintFacts ==
    ASSUME NEW n \in 0..U16Max
    PROVE  /\ VarUint(n) \in Seq(Byte)
           /\ n < Base - 3 => Len(VarUint(n)) = 1 /\ VarUint(n)[1] = n /\ n # Base - 3
           /\ ~(n < Base - 3) => /\ Len(VarUint(n)) = 3 /\ VarUint(n)[1] = Base - 3
                                 /\ VarUint(n)[2] + Base * VarUint(n)[3] = n
<1>1. Base \in Nat /\ Base > 3 /\ n \in Nat /\ Base - 3 \in Int
  BY BaseAssumption DEF U16Max
<1>2. VarUint(n) \in Seq(Byte)
  BY VarUintType
<1>3. CASE n < Base - 3
  BY <1>1, <1>2, <1>3 DEF VarUint
<1>4. CASE ~(n < Base - 3)
  <2>1. U16(n)[1] + Base * U16(n)[2] = n
    BY U16Type
  <2>2. U16(n) = <<n % Base, n \div Base>>
    BY DEF U16
  <2>3. VarUint(n) = <<Base - 3, n % Base, n \div Base>>
    <3>2. n % Base \in Int /\ n \div Base \in Int
      BY <1>1
    <3>3. VarUint(n) = <<Base - 3>> \o <<n % Base, n \div Base>>
      BY <1>4, <2>2 DEF VarUint
    <3> QED
      BY <1>1, <3>2, <3>3, Triple
  <2> QED
    BY <1>2, <1>4, <2>1, <2>2, <2>3
<1>5. QED
  BY <1>3, <1>4

\* The parts of an instruction.
LEMMA EncodingFacts ==
    ASSUME NEW e \in Written
    PROVE  /\ Opening(e) \in Seq(Byte) /\ Len(Opening(e)) = 1 + Len(e.args)
           /\ Opening(e)[1] = e.op
           /\ \A k \in 1..Len(e.args) : Opening(e)[1 + k] = e.args[k]
           /\ Rest(e) \in Seq(Byte) /\ Encoding(e) \in Seq(Byte)
           /\ Len(Encoding(e)) = 1 + Len(e.args) + Len(Rest(e))
<1>1. e.args \in Seq(Byte) /\ e.data \in Seq(Byte) /\ e.op \in Byte
  BY DEF Written
<1>2. Rest(e) \in Seq(Byte)
  BY <1>1, LoadBytes, OpcodesAreBytes DEF Rest, Written
<1>3. /\ Opening(e) \in Seq(Byte) /\ Len(Opening(e)) = 1 + Len(e.args)
      /\ Opening(e)[1] = e.op
      /\ \A k \in 1..Len(e.args) : Opening(e)[1 + k] = e.args[k]
  BY <1>1 DEF Opening
<1>4. Encoding(e) = Opening(e) \o Rest(e)
  BY DEF Encoding
<1>5. /\ Encoding(e) \in Seq(Byte)
      /\ Len(Encoding(e)) = Len(Opening(e)) + Len(Rest(e))
  <2>1. Opening(e) \in Seq(Byte) /\ Rest(e) \in Seq(Byte)
    BY <1>2, <1>3
  <2>2. /\ Opening(e) \o Rest(e) \in Seq(Byte)
        /\ Len(Opening(e) \o Rest(e)) = Len(Opening(e)) + Len(Rest(e))
    BY ONLY <2>1, Parts
  <2> QED
    BY <1>4, <2>2
<1>6. QED
  BY <1>2, <1>3, <1>5

\* A script that holds an instruction at p, the two bytes of its target, if it
\* has one, being the number t.
Holds(s, p, e, t) ==
    /\ p + Len(Encoding(e)) <= Len(s)
    /\ Spells(s, p, Opening(e))
    /\ IF HasTarget(e.op) THEN U16At(s, p + Len(Opening(e))) = t
       ELSE Spells(s, p + Len(Opening(e)), Rest(e))

Decoded(p, e, t) ==
    [at |-> p, op |-> e.op, next |-> p + Len(Encoding(e)), data |-> e.data,
     args |-> IF HasTarget(e.op) THEN Append(e.args, t) ELSE e.args]

\* A LOAD whose length prefix and data are there is read whole.
LEMMA DecodeLoad ==
    ASSUME NEW s \in Seq(Byte), NEW p \in Nat, NEW d \in Seq(Byte), ~TooLong(d),
           s[p + 1] = LOAD, Spells(s, p + 3, VarUint(Len(d)) \o d)
    PROVE  DecodeAt(s, p) = [at |-> p, op |-> LOAD, args |-> SubSeq(s, p + 2, p + 3),
                             next |-> p + 3 + Len(VarUint(Len(d)) \o d), data |-> d]
<1>0. PICK rest \in Nat : rest = p + 3
  <2> WITNESS p + 3 \in Nat
  <2> QED
    OBVIOUS
<1>1. PICK m \in 0..U16Max : m = Len(d)
  BY BaseAssumption DEF TooLong, U16Max
<1>2. m \in Nat
  BY BaseAssumption DEF U16Max
<1>3. PICK v \in Seq(Byte) : v = VarUint(m)
  BY VarUintFacts
<1>4. /\ m < Base - 3 => Len(v) = 1 /\ v[1] = m /\ m # Base - 3
      /\ ~(m < Base - 3) => /\ Len(v) = 3 /\ v[1] = Base - 3
                            /\ v[2] + Base * v[3] = m
  BY <1>3, VarUintFacts, Zenon
<1>5. Spells(s, rest, v) /\ Spells(s, rest + Len(v), d)
  BY <1>0, <1>1, <1>3, SpelledParts
<1>6. \A k \in 1..Len(v) : s[rest + k] = v[k]
  BY <1>5 DEF Spells
<1>7. /\ PrefixSize(s, rest) = Len(v) /\ LengthAt(s, rest) = m
      /\ Len(v) \in Nat /\ 1 <= Len(v)
  <2>0. Base \in Nat /\ Base - 3 \in Int
    BY BaseAssumption
  <2>1. CASE m < Base - 3
    <3>1. Len(v) = 1 /\ v[1] = m /\ m # Base - 3
      BY ONLY <1>4, <2>1
    <3>2. 1 \in 1..Len(v)
      BY <3>1
    <3>3. s[rest + 1] = m /\ s[rest + 1] # Base - 3
      BY <1>6, <3>1, <3>2
    <3> QED
      BY <3>1, <3>3 DEF PrefixSize, LengthAt
  <2>2. CASE ~(m < Base - 3)
    <3>1. Len(v) = 3 /\ v[1] = Base - 3 /\ v[2] + Base * v[3] = m
      BY ONLY <1>4, <2>2
    <3>2. 1 \in 1..Len(v) /\ 2 \in 1..Len(v) /\ 3 \in 1..Len(v)
      BY <3>1
    <3>3. s[rest + 1] = Base - 3 /\ s[rest + 2] = v[2] /\ s[rest + 3] = v[3]
      BY <1>6, <3>1, <3>2
    <3>4. rest + 1 + 1 = rest + 2 /\ rest + 1 + 2 = rest + 3
      OBVIOUS
    <3> QED
      BY <3>1, <3>3, <3>4 DEF PrefixSize, LengthAt, U16At
  <2> QED
    BY <2>1, <2>2
<1>8. PICK start \in Nat : start = rest + Len(v)
  BY <1>7
<1>9. PICK end \in Nat : end = start + m
  BY <1>2
<1>10. start <= Len(s) /\ end <= Len(s) /\ rest + 1 <= Len(s)
  <2>1. rest + Len(v) + Len(d) <= Len(s) /\ Len(s) \in Nat /\ Len(d) \in Nat
    BY <1>5 DEF Spells
  <2>2. end <= Len(s)
    BY <1>1, <1>2, <1>7, <1>8, <1>9, <2>1
  <2>3. start <= end /\ rest + 1 <= start
    BY <1>2, <1>7, <1>8, <1>9
  <2> QED
    BY <2>1, <2>2, <2>3
<1>11. SubSeq(s, start + 1, end) = d
  BY <1>1, <1>5, <1>8, <1>9, SpelledPiece
<1>12. DecodeAt(s, p) = [at |-> p, op |-> LOAD, args |-> SubSeq(s, p + 2, rest),
                         next |-> end, data |-> SubSeq(s, start + 1, end)]
  <2>1. p + 1 + OperandCount(LOAD) = rest
    BY <1>0, LoadOperands
  <2>2. rest + PrefixSize(s, rest) = start /\ start + LengthAt(s, rest) = end
    BY <1>7, <1>8, <1>9
  <2> QED
    BY <1>10, <2>1, <2>2, LoadHasNoTarget, Zenon DEF DecodeAt
<1>13. end = rest + Len(VarUint(Len(d)) \o d)
  <2>1. Len(v \o d) = Len(v) + Len(d)
    OBVIOUS
  <2>2. Len(VarUint(Len(d)) \o d) = Len(v) + m
    BY <1>1, <1>3, <2>1
  <2> QED
    BY <1>2, <1>7, <1>8, <1>9, <2>2
<1>14. QED
  BY <1>0, <1>11, <1>12, <1>13

\* What the decoder makes of an instruction that is there.
LEMMA DecodeHeld ==
    ASSUME NEW s \in Seq(Byte), NEW p \in Nat, NEW e \in Written, NEW t,
           Holds(s, p, e, t)
    PROVE  DecodeAt(s, p) = Decoded(p, e, t)
<1>1. /\ e.args \in Seq(Byte) /\ e.data \in Seq(Byte) /\ e.op \in Byte
      /\ Len(e.args) = OperandCount(e.op) /\ ~TooLong(e.data)
      /\ e.op # LOAD => e.data = <<>>
  BY DEF Written
<1>2. PICK n \in Nat : n = Len(e.args)
  BY <1>1
<1>3. PICK rest \in Nat : rest = p + 1 + n
  <2> WITNESS p + 1 + n \in Nat
  <2> QED
    OBVIOUS
<1>4. /\ Len(Opening(e)) = 1 + n /\ Opening(e)[1] = e.op
      /\ Opening(e) \in Seq(Byte) /\ Rest(e) \in Seq(Byte)
      /\ Len(Encoding(e)) = 1 + n + Len(Rest(e))
  BY <1>2, EncodingFacts
<1>5. p + Len(Opening(e)) = rest /\ p + Len(Encoding(e)) = rest + Len(Rest(e))
  <2>1. Len(Rest(e)) \in Nat
    BY <1>4
  <2> QED
    BY <1>3, <1>4, <2>1
<1>6. s[p + 1] = e.op /\ rest <= Len(s)
  BY <1>3, <1>4, <1>5 DEF Holds, Spells
<1>7. SubSeq(s, p + 2, rest) = e.args
  <2>1. Spells(s, p, <<e.op>>) /\ Spells(s, p + 1, e.args)
    <3>1. <<e.op>> \in Seq(Byte) /\ Len(<<e.op>>) = 1
      BY <1>1
    <3>2. Spells(s, p, <<e.op>> \o e.args)
      BY DEF Holds, Opening
    <3> QED
      BY <1>1, <3>1, <3>2, SpelledParts
  <2>2. SubSeq(s, (p + 1) + 1, (p + 1) + Len(e.args)) = e.args
    <3>1. p + 1 \in Nat
      OBVIOUS
    <3> QED
      BY <1>1, <2>1, <3>1, SpelledPiece, Zenon
  <2>3. (p + 1) + 1 = p + 2 /\ (p + 1) + Len(e.args) = rest
    BY <1>2, <1>3
  <2> QED
    BY <2>2, <2>3
<1>8. p + 1 + OperandCount(e.op) = rest /\ p + Len(Encoding(e)) <= Len(s)
  BY <1>1, <1>2, <1>3 DEF Holds
<1>9. CASE HasTarget(e.op)
  <2>1. Rest(e) = <<0, 0>> /\ Len(Rest(e)) = 2 /\ e.op # LOAD
    BY <1>9, LoadHasNoTarget DEF Rest
  <2>2. U16At(s, rest) = t /\ rest + 2 <= Len(s)
    BY <1>5, <1>8, <1>9, <2>1 DEF Holds
  <2>3. DecodeAt(s, p) = [at |-> p, op |-> e.op, args |-> Append(e.args, t),
                          next |-> rest + 2, data |-> <<>>]
    BY <1>6, <1>7, <1>8, <1>9, <2>1, <2>2, Zenon DEF DecodeAt
  <2> QED
    BY <1>1, <1>5, <1>9, <2>1, <2>3 DEF Decoded
<1>10. CASE e.op # LOAD /\ ~HasTarget(e.op)
  <2>1. Rest(e) = <<>> /\ rest + Len(Rest(e)) = rest
    BY <1>10 DEF Rest
  <2>2. DecodeAt(s, p) = [at |-> p, op |-> e.op, args |-> e.args, next |-> rest,
                          data |-> <<>>]
    BY <1>6, <1>7, <1>8, <1>10, <2>1, Zenon DEF DecodeAt
  <2> QED
    BY <1>1, <1>5, <1>10, <2>1, <2>2 DEF Decoded
<1>11. CASE e.op = LOAD
  <2>1. Rest(e) = VarUint(Len(e.data)) \o e.data
    BY <1>11 DEF Rest
  <2>2. Spells(s, rest, VarUint(Len(e.data)) \o e.data)
    BY <1>5, <1>11, <2>1, LoadHasNoTarget DEF Holds
  <2>3. DecodeAt(s, p) = [at |-> p, op |-> LOAD, args |-> e.args,
                          next |-> rest + Len(Rest(e)), data |-> e.data]
    <3>1. rest = p + 3 /\ s[p + 1] = LOAD
      BY <1>6, <1>8, <1>11, LoadOperands
    <3>2. Spells(s, p + 3, VarUint(Len(e.data)) \o e.data)
      BY <2>2, <3>1
    <3>3. DecodeAt(s, p) = [at |-> p, op |-> LOAD, args |-> SubSeq(s, p + 2, p + 3),
                            next |-> p + 3 + Len(VarUint(Len(e.data)) \o e.data),
                            data |-> e.data]
      BY <1>1, <3>1, <3>2, DecodeLoad, Zenon
    <3> QED
      BY <1>7, <2>1, <3>1, <3>3
  <2> QED
    BY <1>5, <1>11, <2>3, LoadHasNoTarget DEF Decoded
<1>12. QED
  BY <1>9, <1>10, <1>11
-----------------------------------------------------------------------------
(* The decoder reads a script from its first byte to its last.               *)

LEMMA BytesAreNumbers == \A b \in Byte : b \in Nat
  BY DEF Byte

\* Whatever the bytes, the next instruction is further on and not past the end.
LEMMA DecoderAdvances ==
    ASSUME NEW s \in Seq(Byte), NEW at \in 0..(Len(s) - 1)
    PROVE  DecodeAt(s, at).next \in (at + 1)..Len(s)
<1>1. at \in Nat /\ Len(s) \in Nat /\ at + 1 <= Len(s)
  OBVIOUS
<1>2. PICK op : op = s[at + 1]
  OBVIOUS
<1>3. PICK n \in 0..3 : n = OperandCount(op)
  BY OperandCountType
<1>4. PICK rest \in Nat : rest = at + 1 + n
  <2> WITNESS at + 1 + n \in Nat
  <2> QED
    BY <1>1
<1>5. at + 1 <= rest /\ at + 1 <= rest + 2
  BY <1>1, <1>4
<1>6. CASE op = LOAD /\ rest + 1 <= Len(s) /\ rest + PrefixSize(s, rest) <= Len(s)
           /\ rest + PrefixSize(s, rest) + LengthAt(s, rest) <= Len(s)
  <2>1. PrefixSize(s, rest) \in Nat
    BY DEF PrefixSize
  <2>2. LengthAt(s, rest) \in Nat
    <3>1. Base \in Nat
      BY BaseAssumption
    <3>2. CASE s[rest + 1] = Base - 3
      <4>1. rest + 3 <= Len(s)
        BY <1>6, <3>2 DEF PrefixSize
      <4>2. rest + 1 + 1 \in 1..Len(s) /\ rest + 1 + 2 \in 1..Len(s)
        BY <1>1, <4>1
      <4>3. s[rest + 1 + 1] \in Byte /\ s[rest + 1 + 2] \in Byte
        BY <4>2
      <4>4. s[rest + 1 + 1] \in Nat /\ s[rest + 1 + 2] \in Nat
        BY <4>3, BytesAreNumbers
      <4>5. \A x, y \in Nat : x + Base * y \in Nat
        BY <3>1
      <4> QED
        BY <3>2, <4>4, <4>5 DEF LengthAt, U16At
    <3>3. CASE s[rest + 1] # Base - 3
      <4>1. rest + 1 \in 1..Len(s)
        BY <1>1, <1>6
      <4>2. s[rest + 1] \in Byte
        BY <4>1
      <4> QED
        BY <3>3, <4>2, BytesAreNumbers DEF LengthAt
    <3> QED
      BY <3>2, <3>3
  <2>3. DecodeAt(s, at).next = rest + PrefixSize(s, rest) + LengthAt(s, rest)
    <3>1. DecodeAt(s, at) =
            [at |-> at, op |-> op, args |-> SubSeq(s, at + 2, rest),
             next |-> rest + PrefixSize(s, rest) + LengthAt(s, rest),
             data |-> SubSeq(s, rest + PrefixSize(s, rest) + 1,
                             rest + PrefixSize(s, rest) + LengthAt(s, rest))]
      BY <1>2, <1>3, <1>4, <1>6, LoadHasNoTarget, Zenon DEF DecodeAt
    <3> QED
      BY <3>1
  <2> QED
    BY <1>1, <1>5, <1>6, <2>1, <2>2, <2>3
<1>7. CASE HasTarget(op) /\ rest + 2 <= Len(s)
  <2>1. op # LOAD
    BY <1>7, LoadHasNoTarget
  <2>2. DecodeAt(s, at) = [at |-> at, op |-> op, next |-> rest + 2, data |-> <<>>,
                           args |-> Append(SubSeq(s, at + 2, rest), U16At(s, rest))]
    BY <1>2, <1>3, <1>4, <1>7, <2>1, Zenon DEF DecodeAt
  <2> QED
    BY <1>1, <1>5, <1>7, <2>2
<1>8. CASE op # LOAD /\ ~HasTarget(op) /\ rest <= Len(s)
  <2>1. DecodeAt(s, at) = [at |-> at, op |-> op, args |-> SubSeq(s, at + 2, rest),
                           next |-> rest, data |-> <<>>]
    BY <1>2, <1>3, <1>4, <1>8, Zenon DEF DecodeAt
  <2> QED
    BY <1>1, <1>5, <1>8, <2>1
<1>9. CASE /\ ~(/\ op = LOAD /\ rest + 1 <= Len(s)
                /\ rest + PrefixSize(s, rest) <= Len(s)
                /\ rest + PrefixSize(s, rest) + LengthAt(s, rest) <= Len(s))
           /\ ~(HasTarget(op) /\ rest + 2 <= Len(s))
           /\ ~(op # LOAD /\ ~HasTarget(op) /\ rest <= Len(s))
  <2>1. DecodeAt(s, at) = [at |-> at, op |-> -1, args |-> <<>>, next |-> Len(s),
                           data |-> <<>>]
    BY <1>2, <1>3, <1>4, <1>9, Zenon DEF DecodeAt
  <2> QED
    BY <1>1, <2>1
<1>10. QED
  BY <1>6, <1>7, <1>8, <1>9

\* A function whose value at a number is made from the one at a larger number
\* exists, up to any bound: it is found from the bound down.
LEMMA Fixpoint ==
    ASSUME NEW N \in Nat, NEW d, \A at \in 0..(N - 1) : d[at].next \in (at + 1)..N
    PROVE  \E g : g = [at \in 0..N |-> IF at = N THEN <<>>
                                       ELSE <<d[at]>> \o g[d[at].next]]
<1> DEFINE value(at, g) == IF at = N THEN <<>> ELSE <<d[at]>> \o g[d[at].next]
           right(m, g) == /\ g = [at \in 0..N |-> g[at]]
                          /\ \A at \in 0..N : N - m <= at => g[at] = value(at, g)
           S == {m \in Nat : \E g : right(m, g)}
<1>1. 0 \in S
  <2> DEFINE g == [at \in 0..N |-> <<>>]
  <2>1. right(0, g)
    OBVIOUS
  <2> QED
    BY <2>1
<1>2. ASSUME NEW m \in Nat, NEW g, right(m, g) PROVE \E h : right(m + 1, h)
  <2>0. /\ g = [x \in 0..N |-> g[x]]
        /\ \A x \in 0..N : N - m <= x => g[x] = value(x, g)
    BY <1>2
  <2>2. CASE m >= N
    <3>1. \A x \in 0..N : g[x] = value(x, g)
      <4> HIDE DEF value
      <4> QED
        BY <2>0, <2>2
    <3>2. right(m + 1, g)
      <4> HIDE DEF value
      <4> QED
        BY <2>0, <3>1
    <3> QED
      BY <3>2
  <2>3. CASE m < N
    <3>1. PICK at \in 0..(N - 1) : at = N - m - 1
      BY <2>3
    <3>2. PICK h : h = [x \in 0..N |-> IF x = at THEN <<d[at]>> \o g[d[at].next] ELSE g[x]]
      OBVIOUS
    <3>3. /\ h[at] = <<d[at]>> \o g[d[at].next]
          /\ \A x \in 0..N : x # at => h[x] = g[x]
      BY <3>1, <3>2
    <3>4. \A x \in at..(N - 1) : d[x].next \in 0..N /\ d[x].next # at
      BY <3>1
    <3>5. h = [x \in 0..N |-> h[x]]
      BY <3>2
    <3>6. ASSUME NEW x \in 0..N, at <= x PROVE h[x] = value(x, h)
      <4>1. CASE x = at
        <5>1. h[d[at].next] = g[d[at].next] /\ at # N
          BY <3>1, <3>3, <3>4
        <5> QED
          BY <3>3, <4>1, <5>1
      <4>2. CASE x # at
        <5>1. N - m <= x
          BY <3>1, <3>6, <4>2
        <5>2. g[x] = value(x, g)
          BY <2>0, <5>1
        <5>3. h[x] = g[x]
          BY <3>3, <4>2
        <5>4. x # N => h[d[x].next] = g[d[x].next]
          <6>1. x # N => d[x].next \in 0..N /\ d[x].next # at
            BY <3>1, <3>4, <3>6
          <6> QED
            BY <3>3, <6>1
        <5> QED
          BY <5>2, <5>3, <5>4
      <4> QED
        BY <4>1, <4>2
    <3>7. right(m + 1, h)
      <4>1. ASSUME NEW x \in 0..N, N - (m + 1) <= x PROVE at <= x
        BY <3>1, <4>1
      <4> HIDE DEF value
      <4> QED
        BY <3>5, <3>6, <4>1
    <3> QED
      BY <3>7
  <2> HIDE DEF right
  <2> QED
    BY <2>2, <2>3
<1>3. ASSUME NEW m \in Nat, m \in S PROVE m + 1 \in S
  <2> HIDE DEF right
  <2>1. PICK g : right(m, g)
    BY <1>3
  <2>2. \E h : right(m + 1, h)
    BY <1>2, <2>1, Zenon
  <2> QED
    BY <2>2
<1>4. \E g : right(N, g)
  <2>1. Nat \subseteq S
    <3> HIDE DEF S
    <3> QED
      BY <1>1, <1>3, NumberInduction
  <2> HIDE DEF right
  <2> QED
    BY <2>1
<1>5. PICK g : right(N, g)
  BY <1>4
<1>6. \A at \in 0..N : g[at] = value(at, g)
  <2>1. \A at \in 0..N : N - N <= at => g[at] = value(at, g)
    BY <1>5
  <2> HIDE DEF value
  <2> QED
    BY <2>1
<1>7. g = [at \in 0..N |-> value(at, g)]
  <2>1. g = [at \in 0..N |-> g[at]]
    BY <1>5
  <2> HIDE DEF value
  <2> QED
    BY <1>6, <2>1
<1>8. QED
  BY <1>7

\* Decoding is reading on from offset 0.
LEMMA DecodeReads ==
    ASSUME NEW s \in Seq(Byte)
    PROVE  \E g : /\ Decode(s) = g[0]
                  /\ \A at \in 0..Len(s) :
                       g[at] = IF at = Len(s) THEN <<>>
                               ELSE <<DecodeAt(s, at)>> \o g[DecodeAt(s, at).next]
<1> DEFINE N == Len(s)
           d == [at \in 0..(N - 1) |-> DecodeAt(s, at)]
<1>1. N \in Nat /\ N = Len(s)
  OBVIOUS
<1>2. \A at \in 0..(N - 1) : d[at] = DecodeAt(s, at)
  OBVIOUS
<1>3. \A at \in 0..(N - 1) : d[at].next \in (at + 1)..N
  BY <1>2, DecoderAdvances
<1> HIDE DEF d, N
<1>4. PICK f : f = [at \in 0..N |-> IF at = N THEN <<>> ELSE <<d[at]>> \o f[d[at].next]]
  BY <1>1, <1>3, Fixpoint
<1>5. \A at \in 0..N : at # N => at \in 0..(N - 1)
  BY <1>1
<1>6. f = [at \in 0..N |-> IF at = N THEN <<>>
                           ELSE <<DecodeAt(s, at)>> \o f[DecodeAt(s, at).next]]
  <2>1. \A at \in 0..N :
          (IF at = N THEN <<>> ELSE <<d[at]>> \o f[d[at].next])
            = IF at = N THEN <<>> ELSE <<DecodeAt(s, at)>> \o f[DecodeAt(s, at).next]
    BY <1>2, <1>5, Zenon
  <2> QED
    BY <1>4, <2>1, Zenon
<1>7. \E g : /\ g = [at \in 0..Len(s) |->
                       IF at = Len(s) THEN <<>>
                       ELSE <<DecodeAt(s, at)>> \o g[DecodeAt(s, at).next]]
             /\ Decode(s) = g[0]
  <2>1. \E g : g = [at \in 0..Len(s) |->
                       IF at = Len(s) THEN <<>>
                       ELSE <<DecodeAt(s, at)>> \o g[DecodeAt(s, at).next]]
    BY <1>1, <1>6
  <2> QED
    BY <2>1, Zenon DEF Decode
<1>8. QED
  <2>1. PICK g : /\ g = [at \in 0..Len(s) |->
                       IF at = Len(s) THEN <<>>
                       ELSE <<DecodeAt(s, at)>> \o g[DecodeAt(s, at).next]]
                 /\ Decode(s) = g[0]
    BY <1>7
  <2>2. \A at \in 0..Len(s) :
          g[at] = IF at = Len(s) THEN <<>>
                  ELSE <<DecodeAt(s, at)>> \o g[DecodeAt(s, at).next]
    BY <2>1, Zenon
  <2> QED
    BY <2>1, <2>2

\* One more element at the front.
LEMMA Prefixed ==
    ASSUME NEW S, NEW x \in S, NEW t \in Seq(S)
    PROVE  /\ <<x>> \o t \in Seq(S) /\ Len(<<x>> \o t) = 1 + Len(t)
           /\ (<<x>> \o t)[1] = x
           /\ \A k \in 1..Len(t) : (<<x>> \o t)[1 + k] = t[k]
<1>1. PICK one \in Seq(S) : one = <<x>>
  <2>1. <<x>> \in Seq(S)
    OBVIOUS
  <2> QED
    BY <2>1, Zenon
<1>2. Len(one) = 1 /\ one[1] = x
  BY <1>1
<1>3. /\ one \o t \in Seq(S) /\ Len(one \o t) = Len(one) + Len(t)
      /\ \A k \in 1..Len(one) : (one \o t)[k] = one[k]
      /\ \A k \in 1..Len(t) : (one \o t)[Len(one) + k] = t[k]
  BY ONLY one \in Seq(S), t \in Seq(S), Parts
<1>4. 1 \in 1..Len(one)
  BY <1>2
<1>5. (one \o t)[1] = x
  BY <1>2, <1>3, <1>4
<1>6. QED
  BY <1>1, <1>2, <1>3, <1>5

\* Offsets from the start of s to its end, at which its decoder reads the n
\* instructions of c, each ending where the next one starts.
Chain(s, n, at, c) ==
    /\ at \in [1..(n + 1) -> 0..Len(s)] /\ at[1] = 0 /\ at[n + 1] = Len(s)
    /\ \A i \in 1..n : /\ at[i] # Len(s) /\ DecodeAt(s, at[i]) = c[i]
                        /\ c[i].next = at[i + 1]

\* A chain of instructions from the first byte to the end is what is decoded.
LEMMA DecodesChain ==
    ASSUME NEW s \in Seq(Byte), NEW n \in Nat, NEW at, NEW c, Chain(s, n, at, c)
    PROVE  Len(Decode(s)) = n /\ \A i \in 1..n : Decode(s)[i] = c[i]
<1>0. /\ at \in [1..(n + 1) -> 0..Len(s)] /\ at[1] = 0 /\ at[n + 1] = Len(s)
      /\ \A i \in 1..n : /\ at[i] # Len(s) /\ DecodeAt(s, at[i]) = c[i]
                          /\ c[i].next = at[i + 1]
  BY DEF Chain
<1>1. PICK g : /\ Decode(s) = g[0]
               /\ \A o \in 0..Len(s) :
                    g[o] = IF o = Len(s) THEN <<>>
                           ELSE <<DecodeAt(s, o)>> \o g[DecodeAt(s, o).next]
  BY DecodeReads
<1> DEFINE C == {c[i] : i \in 1..n}
           from(m) == g[at[n + 1 - m]]
           right(m) == /\ from(m) \in Seq(C) /\ Len(from(m)) = m
                       /\ \A k \in 1..m : from(m)[k] = c[n - m + k]
           S == {m \in Nat : m <= n => right(m)}
<1>2. 0 \in S
  <2>1. Len(s) \in 0..Len(s) /\ n + 1 - 0 = n + 1
    OBVIOUS
  <2>2. from(0) = <<>>
    BY <1>0, <1>1, <2>1
  <2>3. right(0)
    <3>1. <<>> \in Seq(C) /\ Len(<<>>) = 0
      OBVIOUS
    <3>2. 1..0 = {}
      OBVIOUS
    <3> HIDE DEF from, C
    <3>3. from(0) \in Seq(C) /\ Len(from(0)) = 0
      BY <2>2, <3>1
    <3>4. \A k \in 1..0 : from(0)[k] = c[n - 0 + k]
      BY <3>2
    <3> QED
      BY <3>3, <3>4
  <2> HIDE DEF right
  <2> QED
    BY <2>3
<1>3. ASSUME NEW m \in Nat, m + 1 <= n, right(m) PROVE right(m + 1)
  <2>1. PICK i \in 1..n : i = n - m
    BY <1>3
  <2>2. n + 1 - (m + 1) = i /\ n + 1 - m = i + 1 /\ i \in 1..(n + 1) /\ i + 1 \in 1..(n + 1)
    BY <2>1
  <2>3. PICK rest \in Seq(C) : rest = g[at[i + 1]]
    BY <1>3, <2>2
  <2>4. Len(rest) = m /\ \A k \in 1..m : rest[k] = c[i + k]
    BY <1>3, <2>1, <2>2, <2>3
  <2>5. g[at[i]] = <<c[i]>> \o rest
    <3>1. at[i] \in 0..Len(s) /\ at[i] # Len(s) /\ DecodeAt(s, at[i]) = c[i]
          /\ c[i].next = at[i + 1]
      BY <1>0, <2>2
    <3> QED
      BY <1>1, <2>3, <3>1, Zenon
  <2>6. /\ <<c[i]>> \o rest \in Seq(C) /\ Len(<<c[i]>> \o rest) = 1 + m
        /\ (<<c[i]>> \o rest)[1] = c[i]
        /\ \A k \in 1..m : (<<c[i]>> \o rest)[1 + k] = c[i + k]
    <3>1. c[i] \in C
      OBVIOUS
    <3> HIDE DEF C
    <3>2. /\ <<c[i]>> \o rest \in Seq(C) /\ Len(<<c[i]>> \o rest) = 1 + Len(rest)
          /\ (<<c[i]>> \o rest)[1] = c[i]
          /\ \A k \in 1..Len(rest) : (<<c[i]>> \o rest)[1 + k] = rest[k]
      BY <3>1, Prefixed
    <3> QED
      BY <2>4, <3>2
  <2>7. PICK whole : whole = <<c[i]>> \o rest
    OBVIOUS
  <2>8. ASSUME NEW k \in 1..(m + 1) PROVE whole[k] = c[n - (m + 1) + k]
    <3>1. CASE k = 1
      <4>1. n - (m + 1) + k = i
        BY <2>1, <3>1
      <4> QED
        BY <2>6, <2>7, <3>1, <4>1
    <3>2. CASE k # 1
      <4>1. k - 1 \in 1..m /\ 1 + (k - 1) = k /\ i + (k - 1) = n - (m + 1) + k
        BY <2>1, <3>2
      <4> QED
        BY <2>6, <2>7, <4>1
    <3> QED
      BY <3>1, <3>2
  <2>9. from(m + 1) = whole
    BY <2>2, <2>5, <2>7
  <2>10. whole \in Seq(C) /\ Len(whole) = m + 1
    BY <2>6, <2>7
  <2> HIDE DEF from, C
  <2> QED
    BY <2>8, <2>9, <2>10
<1>4. ASSUME NEW m \in Nat, m \in S PROVE m + 1 \in S
  <2>1. m + 1 <= n => right(m + 1)
    <3>1. m + 1 <= n => m <= n
      OBVIOUS
    <3> HIDE DEF right
    <3> QED
      BY <1>3, <1>4, <3>1
  <2> HIDE DEF right
  <2> QED
    BY <2>1
<1>5. Nat \subseteq S
  <2> HIDE DEF S
  <2> QED
    BY <1>2, <1>4, NumberInduction
<1>6. right(n)
  <2> HIDE DEF right
  <2> QED
    BY <1>5
<1>7. from(n) = Decode(s)
  <2>1. n + 1 - n = 1
    OBVIOUS
  <2> QED
    BY <1>0, <1>1, <2>1
<1>8. QED
  <2>1. \A k \in 1..n : n - n + k = k
    OBVIOUS
  <2> HIDE DEF from, C
  <2> QED
    BY <1>6, <1>7, <2>1
-----------------------------------------------------------------------------
(* How the buffer and the two tables lie on the program.                     *)

Defines(e, n) == e.mark # <<>> /\ Lower[e.mark[1]] = n

LastOf(p, i, n) ==
    /\ i \in 1..Len(p) /\ Defines(p[i], n)
    /\ \A k \in (i + 1)..Len(p) : ~Defines(p[k], n)

\* The instructions of p start at the offsets of at and fill the buffer; the
\* patch offsets are those of the jumps among them, two bytes before their ends,
\* and a label is the end of the instruction that defined it last.
Laid(b, j, l, p, at) ==
    /\ at \in [1..(Len(p) + 1) -> 0..Len(b)]
    /\ at[1] = 0 /\ at[Len(p) + 1] = Len(b)
    /\ \A i, k \in 1..(Len(p) + 1) : i < k => at[i] < at[k]
    /\ \A i \in 1..Len(p) : /\ at[i + 1] = at[i] + Len(Encoding(p[i]))
                            /\ Spells(b, at[i], Encoding(p[i]))
    /\ \A i \in 1..Len(p) : p[i].goto # <<>> =>
         at[i + 1] - 2 \in DOMAIN j /\ j[at[i + 1] - 2] = p[i].goto[1]
    /\ \A o \in DOMAIN j : \E i \in 1..Len(p) : p[i].goto # <<>> /\ o = at[i + 1] - 2
    /\ \A n \in DOMAIN l : \E i \in 1..Len(p) : LastOf(p, i, n) /\ l[n] = at[i + 1]

LaidOut(b, j, l, p) == p \in Seq(Written) /\ \E at : Laid(b, j, l, p, at)

\* The tables after one more instruction.
JumpsAfter(b, j, e) ==
    IF e.goto = <<>> THEN j
    ELSE Extended(j, Len(b) + Len(Encoding(e)) - 2, e.goto[1])

LabelsAfter(b, l, e) ==
    IF e.mark = <<>> THEN l
    ELSE Extended(l, Lower[e.mark[1]], Len(b) + Len(Encoding(e)))

\* The part of the invariant that this module adds to IInv.
Layout == taint = {} => LaidOut(buffer, jumps, labels, prog)

\* Every instruction has a byte.
LEMMA EncodingSize ==
    ASSUME NEW e \in Written
    PROVE  /\ Encoding(e) \in Seq(Byte) /\ Len(Encoding(e)) \in Nat /\ Len(Encoding(e)) > 0
           /\ Len(Opening(e)) \in Nat /\ Len(Opening(e)) > 0
           /\ Len(Encoding(e)) = Len(Opening(e)) + Len(Rest(e)) /\ Len(Rest(e)) \in Nat
<1>1. Len(e.args) \in Nat
  BY DEF Written
<1>2. Rest(e) \in Seq(Byte) /\ Encoding(e) \in Seq(Byte)
  BY EncodingFacts
<1>3. Len(Rest(e)) \in Nat
  BY <1>2
<1>4. Len(Opening(e)) = 1 + Len(e.args) /\ Len(Encoding(e)) = 1 + Len(e.args) + Len(Rest(e))
  BY EncodingFacts
<1>5. QED
  BY <1>1, <1>2, <1>3, <1>4

\* Writing one more instruction keeps the layout.
LEMMA Grow ==
    ASSUME NEW b \in Seq(Byte), NEW j, NEW l, NEW p, LaidOut(b, j, l, p),
           NEW e \in Written
    PROVE  LaidOut(b \o Encoding(e), JumpsAfter(b, j, e), LabelsAfter(b, l, e),
                   Append(p, e))
<1>1. PICK at : Laid(b, j, l, p, at)
  BY DEF LaidOut
<1>2. p \in Seq(Written)
  BY DEF LaidOut
<1>3. PICK n \in Nat : n = Len(p)
  BY <1>2
<1>4. PICK size \in Nat : size = Len(b)
  OBVIOUS
<1>5. PICK enc \in Seq(Byte) : enc = Encoding(e)
  BY EncodingSize
<1>6. PICK b2 \in Seq(Byte) : b2 = b \o enc
  <2>1. b \o enc \in Seq(Byte)
    BY ONLY b \in Seq(Byte), enc \in Seq(Byte), Parts
  <2> QED
    BY <2>1, Zenon
<1>7. PICK end \in Nat : end = size + Len(enc)
  BY <1>5
<1>8. end > size /\ Len(b2) = end
  BY <1>4, <1>5, <1>6, <1>7, EncodingSize
<1>9. PICK q \in Seq(Written) : q = Append(p, e)
  <2>1. Append(p, e) \in Seq(Written)
    BY <1>2
  <2> QED
    BY <2>1, Zenon
<1>10. /\ Len(q) = n + 1 /\ q[n + 1] = e
       /\ \A i \in 1..n : q[i] = p[i]
  BY <1>2, <1>3, <1>9
<1>11. PICK at2 : at2 = [i \in 1..(n + 2) |-> IF i = n + 2 THEN end ELSE at[i]]
  OBVIOUS
<1>12. /\ at2[n + 2] = end
       /\ \A i \in 1..(n + 1) : at2[i] = at[i]
  BY <1>11
<1>13. /\ at \in [1..(n + 1) -> 0..size] /\ at[1] = 0 /\ at[n + 1] = size
       /\ \A i, k \in 1..(n + 1) : i < k => at[i] < at[k]
  BY <1>1, <1>3, <1>4 DEF Laid
<1>14. \A i \in 1..(n + 1) : at[i] \in 0..size
  BY <1>13
<1>15. at2 \in [1..(Len(q) + 1) -> 0..Len(b2)] /\ at2[1] = 0 /\ at2[Len(q) + 1] = Len(b2)
  <2>1. ASSUME NEW i \in 1..(n + 2) PROVE at2[i] \in 0..end
    <3>1. CASE i = n + 2
      BY <1>12, <3>1
    <3>2. CASE i # n + 2
      <4>1. i \in 1..(n + 1)
        BY <3>2
      <4>2. at2[i] = at[i] /\ at[i] \in 0..size
        BY <1>12, <1>14, <4>1
      <4> QED
        BY <1>8, <4>2
    <3> QED
      BY <3>1, <3>2
  <2>2. Len(q) + 1 = n + 2 /\ 1 \in 1..(n + 1)
    BY <1>10
  <2> QED
    BY <1>8, <1>11, <1>12, <1>13, <2>1, <2>2
<1>16. \A i, k \in 1..(Len(q) + 1) : i < k => at2[i] < at2[k]
  <2> SUFFICES ASSUME NEW i \in 1..(n + 2), NEW k \in 1..(n + 2), i < k
               PROVE  at2[i] < at2[k]
    BY <1>10
  <2>1. i \in 1..(n + 1) /\ at2[i] = at[i] /\ at[i] \in 0..size
    BY <1>12, <1>14
  <2>2. CASE k = n + 2
    BY <1>8, <1>12, <2>1, <2>2
  <2>3. CASE k # n + 2
    BY <1>12, <1>13, <2>1, <2>3
  <2> QED
    BY <2>2, <2>3
<1>17. ASSUME NEW i \in 1..Len(q)
       PROVE  /\ at2[i + 1] = at2[i] + Len(Encoding(q[i]))
              /\ Spells(b2, at2[i], Encoding(q[i]))
  <2>1. CASE i = n + 1
    <3>1. at2[i + 1] = end /\ at2[i] = size /\ Encoding(q[i]) = enc
      BY <1>5, <1>10, <1>12, <1>13, <2>1
    <3>2. Spells(b2, size, enc)
      <4>1. \A k \in 1..Len(enc) : b2[size + k] = enc[k]
        <5>1. \A k \in 1..Len(enc) : (b \o enc)[Len(b) + k] = enc[k]
          BY ONLY b \in Seq(Byte), enc \in Seq(Byte), Parts
        <5> QED
          BY <1>4, <1>6, <5>1
      <4> QED
        BY <1>7, <1>8, <4>1 DEF Spells
    <3> QED
      BY <1>7, <3>1, <3>2
  <2>2. CASE i # n + 1
    <3>1. i \in 1..n /\ i + 1 \in 1..(n + 1) /\ i \in 1..(n + 1)
      BY <1>10, <2>2
    <3>2. at2[i + 1] = at[i + 1] /\ at2[i] = at[i] /\ q[i] = p[i]
      BY <1>10, <1>12, <3>1
    <3>3. at[i + 1] = at[i] + Len(Encoding(p[i])) /\ Spells(b, at[i], Encoding(p[i]))
      BY <1>1, <1>3, <3>1 DEF Laid
    <3>4. PICK x \in Seq(Byte) : x = Encoding(p[i])
      <4>1. p[i] \in Written
        BY <1>2, <1>3, <3>1
      <4> QED
        BY <4>1, EncodingSize
    <3>5. PICK o \in 0..size : o = at[i]
      BY <1>14, <3>1
    <3>6. Spells(b2, o, x)
      <4>1. o + Len(x) <= size /\ Len(x) \in Nat
        BY <1>4, <3>3, <3>4, <3>5 DEF Spells
      <4>2. ASSUME NEW k \in 1..Len(x) PROVE b2[o + k] = x[k]
        <5>1. o + k \in 1..Len(b)
          BY <1>4, <4>1
        <5>2. b2[o + k] = b[o + k]
          BY <1>6, <5>1
        <5> QED
          BY <3>3, <3>4, <3>5, <5>2 DEF Spells
      <4> QED
        BY <1>8, <4>1, <4>2 DEF Spells
    <3> QED
      BY <3>2, <3>3, <3>4, <3>5, <3>6
  <2> QED
    BY <2>1, <2>2
<1>18. PICK z : z = end - 2
  OBVIOUS
<1>19. /\ e.goto = <<>> => JumpsAfter(b, j, e) = j
       /\ e.goto # <<>> => JumpsAfter(b, j, e) = Extended(j, z, e.goto[1])
  BY <1>4, <1>5, <1>7, <1>18 DEF JumpsAfter
<1>20. \A i \in 1..n : at2[i + 1] = at[i + 1] /\ at[i + 1] \in 0..size /\ at[i + 1] - 2 # z
  <2> SUFFICES ASSUME NEW i \in 1..n
               PROVE  at2[i + 1] = at[i + 1] /\ at[i + 1] \in 0..size /\ at[i + 1] - 2 # z
    OBVIOUS
  <2>1. i + 1 \in 1..(n + 1)
    OBVIOUS
  <2>2. at2[i + 1] = at[i + 1] /\ at[i + 1] \in 0..size
    BY <1>12, <1>14, <2>1
  <2> QED
    BY <1>8, <1>18, <2>2
<1>21. at2[(n + 1) + 1] - 2 = z /\ at2[(n + 1) + 1] = end
  BY <1>12, <1>18
<1>22. ASSUME NEW i \in 1..Len(q), q[i].goto # <<>>
       PROVE  /\ at2[i + 1] - 2 \in DOMAIN JumpsAfter(b, j, e)
              /\ JumpsAfter(b, j, e)[at2[i + 1] - 2] = q[i].goto[1]
  <2>1. CASE i = n + 1
    <3>1. e.goto # <<>> /\ q[i] = e
      BY <1>10, <1>22, <2>1
    <3>2. JumpsAfter(b, j, e) = Extended(j, z, e.goto[1])
      BY <1>19, <3>1
    <3>3. at2[i + 1] - 2 = z
      BY <1>21, <2>1
    <3> QED
      BY <3>1, <3>2, <3>3, Zenon DEF Extended
  <2>2. CASE i # n + 1
    <3>1. i \in 1..n
      BY <1>10, <2>2
    <3>2. q[i] = p[i] /\ p[i].goto # <<>>
      BY <1>10, <1>22, <3>1
    <3>3. at[i + 1] - 2 \in DOMAIN j /\ j[at[i + 1] - 2] = p[i].goto[1]
      BY <1>1, <1>3, <3>1, <3>2 DEF Laid
    <3>4. PICK o : o = at[i + 1] - 2
      OBVIOUS
    <3>5. o # z /\ o = at2[i + 1] - 2
      BY <1>20, <3>1, <3>4
    <3>6. o \in DOMAIN JumpsAfter(b, j, e) /\ JumpsAfter(b, j, e)[o] = j[o]
      BY <1>19, <3>3, <3>4, <3>5, Zenon DEF Extended
    <3> QED
      BY <3>2, <3>3, <3>4, <3>5, <3>6
  <2> QED
    BY <2>1, <2>2
<1>23. ASSUME NEW o \in DOMAIN JumpsAfter(b, j, e)
       PROVE  \E i \in 1..Len(q) : q[i].goto # <<>> /\ o = at2[i + 1] - 2
  <2>1. CASE o = z /\ e.goto # <<>>
    <3>1. n + 1 \in 1..Len(q) /\ q[n + 1].goto # <<>> /\ o = at2[(n + 1) + 1] - 2
      BY <1>10, <1>21, <2>1
    <3> QED
      BY <3>1
  <2>2. CASE ~(o = z /\ e.goto # <<>>)
    <3>1. o \in DOMAIN j
      BY <1>19, <2>2, Zenon DEF Extended
    <3>2. PICK i \in 1..n : p[i].goto # <<>> /\ o = at[i + 1] - 2
      BY <1>1, <1>3, <3>1 DEF Laid
    <3>3. i \in 1..Len(q) /\ q[i].goto # <<>> /\ o = at2[i + 1] - 2
      BY <1>10, <1>20, <3>2
    <3> QED
      BY <3>3
  <2> QED
    BY <2>1, <2>2
<1>24. /\ e.mark = <<>> => LabelsAfter(b, l, e) = l
       /\ e.mark # <<>> => LabelsAfter(b, l, e) = Extended(l, Lower[e.mark[1]], end)
  BY <1>4, <1>5, <1>7 DEF LabelsAfter
<1>25. ASSUME NEW m \in DOMAIN LabelsAfter(b, l, e)
       PROVE  \E i \in 1..Len(q) : LastOf(q, i, m) /\ LabelsAfter(b, l, e)[m] = at2[i + 1]
  <2>1. CASE Defines(e, m)
    <3>1. n + 1 \in 1..Len(q) /\ Defines(q[n + 1], m)
      BY <1>10, <2>1
    <3>2. LastOf(q, n + 1, m)
      <4>1. ((n + 1) + 1)..Len(q) = {}
        BY <1>10
      <4> QED
        BY <3>1, <4>1 DEF LastOf
    <3>3. LabelsAfter(b, l, e)[m] = at2[(n + 1) + 1]
      <4>1. LabelsAfter(b, l, e)[m] = end
        BY <1>24, <2>1, Zenon DEF Defines, Extended
      <4> QED
        BY <1>21, <4>1
    <3> QED
      BY <3>1, <3>2, <3>3
  <2>2. CASE ~Defines(e, m)
    <3>1. m \in DOMAIN l /\ LabelsAfter(b, l, e)[m] = l[m]
      BY <1>24, <2>2, Zenon DEF Defines, Extended
    <3>2. PICK i \in 1..n : LastOf(p, i, m) /\ l[m] = at[i + 1]
      BY <1>1, <1>3, <3>1 DEF Laid
    <3>3. i \in 1..Len(q) /\ Defines(q[i], m)
      BY <1>3, <1>10, <3>2 DEF LastOf
    <3>4. ASSUME NEW k \in (i + 1)..Len(q) PROVE ~Defines(q[k], m)
      <4>1. CASE k = n + 1
        BY <1>10, <2>2, <4>1
      <4>2. CASE k # n + 1
        <5>1. k \in (i + 1)..Len(p) /\ k \in 1..n
          BY <1>3, <1>10, <3>2, <4>2
        <5> QED
          BY <1>10, <3>2, <5>1 DEF LastOf
      <4> QED
        BY <4>1, <4>2
    <3>5. LastOf(q, i, m)
      BY <3>3, <3>4 DEF LastOf
    <3>6. LabelsAfter(b, l, e)[m] = at2[i + 1]
      BY <1>20, <3>1, <3>2
    <3> QED
      BY <3>3, <3>5, <3>6
  <2> QED
    BY <2>1, <2>2
<1>26. Laid(b2, JumpsAfter(b, j, e), LabelsAfter(b, l, e), q, at2)
  BY <1>15, <1>16, <1>17, <1>22, <1>23, <1>25 DEF Laid
<1>27. QED
  BY <1>5, <1>6, <1>9, <1>26 DEF LaidOut
-----------------------------------------------------------------------------
(* Every method keeps the layout.                                            *)

\* The operands of each opcode that a method writes, and which have a target.
LEMMA OperandCounts ==
    /\ \A op \in {PUSH, POP, THROW, EXTCALL, JMPIF, JMPNOT, CALL} : OperandCount(op) = 1
    /\ \A op \in {MOVE, COPY, LOAD} : OperandCount(op) = 2
    /\ \A op \in {NOP, RET, JMP} : OperandCount(op) = 0
    /\ \A op \in {JMP, JMPIF, JMPNOT, CALL} : HasTarget(op)
    /\ \A op \in {NOP, RET, PUSH, POP, THROW, EXTCALL, MOVE, COPY, LOAD} :
         ~HasTarget(op)
    /\ \A op \in {NOP, RET, PUSH, POP, THROW, EXTCALL, MOVE, COPY, JMP, JMPIF, JMPNOT, CALL} :
         op # LOAD
<1> DEFINE one == {PUSH, POP, THROW, EXTCALL, SWITCH, JMPIF, JMPNOT, CALL}
           two == {MOVE, COPY, CTX, LOAD}
           three == {CAST, PUT}
<1>1. \A op \in {PUSH, POP, THROW, EXTCALL, JMPIF, JMPNOT, CALL} :
        op \in one /\ op \notin two /\ op \notin three
  BY DEF NOP, MOVE, COPY, PUSH, POP, CALL, EXTCALL, JMP, JMPIF, JMPNOT, RET,
     THROW, LOAD, CAST, CTX, SWITCH, PUT
<1>2. \A op \in {MOVE, COPY, LOAD} : op \notin one /\ op \in two /\ op \notin three
  BY DEF NOP, MOVE, COPY, PUSH, POP, CALL, EXTCALL, JMP, JMPIF, JMPNOT, RET,
     THROW, LOAD, CAST, CTX, SWITCH, PUT
<1>3. \A op \in {NOP, RET, JMP} : op \notin one /\ op \notin two /\ op \notin three
  BY DEF NOP, MOVE, COPY, PUSH, POP, CALL, EXTCALL, JMP, JMPIF, JMPNOT, RET,
     THROW, LOAD, CAST, CTX, SWITCH, PUT
<1>4. /\ \A op \in {JMP, JMPIF, JMPNOT, CALL} : HasTarget(op)
      /\ \A op \in {NOP, RET, PUSH, POP, THROW, EXTCALL, MOVE, COPY, LOAD} :
           ~HasTarget(op)
  BY DEF HasTarget, JumpOpcodes, NOP, MOVE, COPY, PUSH, POP, CALL, EXTCALL, JMP,
     JMPIF, JMPNOT, RET, THROW, LOAD
<1>5. \A op \in {NOP, RET, PUSH, POP, THROW, EXTCALL, MOVE, COPY, JMP, JMPIF, JMPNOT, CALL} :
        op # LOAD
  BY DEF NOP, MOVE, COPY, PUSH, POP, CALL, EXTCALL, JMP, JMPIF, JMPNOT, RET,
     THROW, LOAD
<1>6. \A op : OperandCount(op) =
                CASE op \in one -> 1 [] op \in two -> 2 [] op \in three -> 3 [] OTHER -> 0
  BY DEF OperandCount
<1> HIDE DEF one, two, three
<1>7. \A op \in {PUSH, POP, THROW, EXTCALL, JMPIF, JMPNOT, CALL} : OperandCount(op) = 1
  BY <1>1, <1>6, Zenon
<1>8. \A op \in {MOVE, COPY, LOAD} : OperandCount(op) = 2
  BY <1>2, <1>6, Zenon
<1>9. \A op \in {NOP, RET, JMP} : OperandCount(op) = 0
  BY <1>3, <1>6, Zenon
<1>10. QED
  BY <1>4, <1>5, <1>7, <1>8, <1>9

\* What a method that writes one whole instruction does.
Grown(e) ==
    /\ buffer' = buffer \o Encoding(e)
    /\ jumps' = JumpsAfter(buffer, jumps, e)
    /\ labels' = LabelsAfter(buffer, labels, e)
    /\ prog' = Append(prog, e)
    /\ taint' = taint

LEMMA GrownKeeps ==
    ASSUME buffer \in Seq(Byte), Layout, NEW e \in Written, Grown(e)
    PROVE  Layout'
<1> SUFFICES ASSUME taint' = {} PROVE LaidOut(buffer', jumps', labels', prog')
  BY DEF Layout
<1>1. LaidOut(buffer, jumps, labels, prog)
  BY DEF Layout, Grown
<1>2. LaidOut(buffer \o Encoding(e), JumpsAfter(buffer, jumps, e),
              LabelsAfter(buffer, labels, e), Append(prog, e))
  BY <1>1, Grow
<1>3. QED
  BY <1>2 DEF Grown

\* A method that raised, or wrote raw bytes, is outside of what the layout says.
LEMMA TaintedKeeps ==
    ASSUME NEW x, taint' = taint \cup {x}
    PROVE  Layout'
  BY DEF Layout

LEMMA SameKeeps ==
    ASSUME Layout, UNCHANGED <<buffer, jumps, labels, prog, taint>>
    PROVE  Layout'
  BY DEF Layout

\* An instruction with neither a label nor a target.
LEMMA PlainWritten ==
    ASSUME NEW op \in Byte, NEW a \in Seq(Byte), NEW d \in Seq(Byte),
           ~HasTarget(op), Len(a) = OperandCount(op), ~TooLong(d), op # LOAD => d = <<>>
    PROVE  /\ Instr(op, a, d) \in Written
           /\ Instr(op, a, d).mark = <<>> /\ Instr(op, a, d).goto = <<>>
           /\ Opening(Instr(op, a, d)) = <<op>> \o a
           /\ Rest(Instr(op, a, d)) = IF op = LOAD THEN VarUint(Len(d)) \o d ELSE <<>>
<1>1. <<>> \in Seq(Labels)
  OBVIOUS
<1>2. Instr(op, a, d) = [op |-> op, args |-> a, data |-> d, mark |-> <<>>, goto |-> <<>>]
  BY DEF Instr
<1>3. PICK e : e = Instr(op, a, d)
  OBVIOUS
<1>4. /\ e.op = op /\ e.args = a /\ e.data = d /\ e.mark = <<>> /\ e.goto = <<>>
      /\ e \in [op : Byte, args : Seq(Byte), data : Seq(Byte),
                mark : Seq(Labels), goto : Seq(Labels)]
  BY <1>1, <1>2, <1>3
<1>5. e \in Written
  BY <1>4 DEF Written
<1>6. Opening(e) = <<op>> \o a
  BY <1>4 DEF Opening
<1>7. Rest(e) = IF op = LOAD THEN VarUint(Len(d)) \o d ELSE <<>>
  BY <1>4 DEF Rest
<1>8. QED
  BY <1>3, <1>4, <1>5, <1>6, <1>7

\* Writing such an instruction keeps the layout, whatever is retained.
LEMMA WriteKeeps ==
    ASSUME buffer \in Seq(Byte), Layout, NEW e \in Written,
           e.mark = <<>>, e.goto = <<>>, NEW x, Write(Encoding(e), <<e>>, x)
    PROVE  Layout'
<1> SUFFICES ASSUME taint' = {} PROVE Layout'
  BY DEF Layout
<1>1. /\ buffer' = buffer \o Encoding(e) /\ jumps' = jumps /\ labels' = labels
      /\ prog' = prog \o <<e>> /\ taint' = taint
  BY DEF Write
<1>2. prog \in Seq(Written)
  BY <1>1 DEF Layout, LaidOut
<1>3. prog' = Append(prog, e)
  BY <1>1, <1>2
<1>4. Grown(e)
  BY <1>1, <1>3 DEF Grown, JumpsAfter, LabelsAfter
<1>5. QED
  BY <1>4, GrownKeeps

\* Whether or not an operand is rejected.
LEMMA InstructionKeeps ==
    ASSUME buffer \in Seq(Byte), Layout, NEW op \in Byte, NEW a \in Seq(Int),
           NEW d \in Seq(Byte),
           ~HasTarget(op), Len(a) = OperandCount(op), ~TooLong(d), op # LOAD => d = <<>>,
           Instruction(op, a, IF op = LOAD THEN VarUint(Len(d)) \o d ELSE <<>>, d)
    PROVE  Layout'
<1> DEFINE tail == IF op = LOAD THEN VarUint(Len(d)) \o d ELSE <<>>
<1>1. PICK k \in 0..Len(a) :
        /\ \A i \in 1..k : a[i] \in Byte
        /\ \/ /\ k = Len(a)
              /\ Write(<<op>> \o a \o tail, <<Instr(op, a, d)>>, NoError)
           \/ RaiseAfter(<<op>> \o SubSeq(a, 1, k))
  BY DEF Instruction
<1>2. CASE k = Len(a) /\ Write(<<op>> \o a \o tail, <<Instr(op, a, d)>>, NoError)
  <2>1. a \in Seq(Byte)
    BY <1>1, <1>2
  <2> DEFINE e == Instr(op, a, d)
  <2>2. /\ e \in Written /\ e.mark = <<>> /\ e.goto = <<>>
        /\ Opening(e) = <<op>> \o a /\ Rest(e) = tail
    BY <2>1, PlainWritten
  <2> HIDE DEF e, tail
  <2>3. Encoding(e) = <<op>> \o a \o tail
    BY <2>2 DEF Encoding
  <2>4. Write(Encoding(e), <<e>>, NoError)
    BY <1>2, <2>3 DEF e
  <2> QED
    BY <2>2, <2>4, WriteKeeps
<1>3. CASE RaiseAfter(<<op>> \o SubSeq(a, 1, k))
  BY <1>3, TaintedKeeps DEF RaiseAfter
<1>4. QED
  BY <1>1, <1>2, <1>3

\* The bytes of an instruction without operands, of a LOAD, and of an EXTCALL.
LEMMA ShortEncodings ==
    /\ \A op \in {NOP, RET} : /\ Instr(op, <<>>, <<>>) \in Written
                              /\ Encoding(Instr(op, <<>>, <<>>)) = <<op>>
    /\ \A r \in Byte : /\ Instr(EXTCALL, <<r>>, <<>>) \in Written
                       /\ Encoding(Instr(EXTCALL, <<r>>, <<>>)) = <<EXTCALL, r>>
    /\ \A r, t \in Byte, d \in Seq(Byte) : ~TooLong(d) =>
         /\ Instr(LOAD, <<r, t>>, d) \in Written
         /\ Encoding(Instr(LOAD, <<r, t>>, d)) = <<LOAD, r, t>> \o (VarUint(Len(d)) \o d)
    /\ \A op, a, d : Instr(op, a, d).mark = <<>> /\ Instr(op, a, d).goto = <<>>
<1>1. <<>> \in Seq(Byte) /\ ~TooLong(<<>>) /\ Len(<<>>) = 0
  BY BaseAssumption DEF TooLong, U16Max
<1>2. ASSUME NEW op \in {NOP, RET}
      PROVE  /\ Instr(op, <<>>, <<>>) \in Written
             /\ Encoding(Instr(op, <<>>, <<>>)) = <<op>>
  <2>1. op \in Byte /\ ~HasTarget(op) /\ OperandCount(op) = 0 /\ op # LOAD
    BY OpcodesAreBytes, OperandCounts
  <2>2. /\ Instr(op, <<>>, <<>>) \in Written
        /\ Opening(Instr(op, <<>>, <<>>)) = <<op>> \o <<>>
        /\ Rest(Instr(op, <<>>, <<>>)) = <<>>
    BY <1>1, <2>1, PlainWritten
  <2>3. (<<op>> \o <<>>) \o <<>> = <<op>>
    OBVIOUS
  <2> QED
    BY <2>2, <2>3 DEF Encoding
<1>3. ASSUME NEW r \in Byte
      PROVE  /\ Instr(EXTCALL, <<r>>, <<>>) \in Written
             /\ Encoding(Instr(EXTCALL, <<r>>, <<>>)) = <<EXTCALL, r>>
  <2>1. EXTCALL \in Byte /\ ~HasTarget(EXTCALL) /\ OperandCount(EXTCALL) = 1 /\ EXTCALL # LOAD
    BY OpcodesAreBytes, OperandCounts
  <2>2. <<r>> \in Seq(Byte) /\ Len(<<r>>) = 1
    OBVIOUS
  <2>3. /\ Instr(EXTCALL, <<r>>, <<>>) \in Written
        /\ Opening(Instr(EXTCALL, <<r>>, <<>>)) = <<EXTCALL>> \o <<r>>
        /\ Rest(Instr(EXTCALL, <<r>>, <<>>)) = <<>>
    BY <1>1, <2>1, <2>2, PlainWritten
  <2>4. (<<EXTCALL>> \o <<r>>) \o <<>> = <<EXTCALL, r>>
    <3>1. EXTCALL \in Int /\ r \in Int
      BY <2>1, BytesAreNumbers
    <3>2. <<EXTCALL>> \o <<r>> = <<EXTCALL, r>>
      BY <3>1, Pair
    <3>3. <<EXTCALL, r>> \in Seq(Byte)
      BY <2>1
    <3> QED
      BY <3>2, <3>3, ConcatEmptySeq
  <2> QED
    BY <2>3, <2>4 DEF Encoding
<1>4. ASSUME NEW r \in Byte, NEW t \in Byte, NEW d \in Seq(Byte), ~TooLong(d)
      PROVE  /\ Instr(LOAD, <<r, t>>, d) \in Written
             /\ Encoding(Instr(LOAD, <<r, t>>, d)) = <<LOAD, r, t>> \o (VarUint(Len(d)) \o d)
  <2>1. LOAD \in Byte /\ ~HasTarget(LOAD) /\ OperandCount(LOAD) = 2
    BY OpcodesAreBytes, OperandCounts
  <2>2. <<r, t>> \in Seq(Byte) /\ Len(<<r, t>>) = 2
    OBVIOUS
  <2>3. /\ Instr(LOAD, <<r, t>>, d) \in Written
        /\ Opening(Instr(LOAD, <<r, t>>, d)) = <<LOAD>> \o <<r, t>>
        /\ Rest(Instr(LOAD, <<r, t>>, d)) = VarUint(Len(d)) \o d
    BY <1>4, <2>1, <2>2, PlainWritten
  <2>4. <<LOAD>> \o <<r, t>> = <<LOAD, r, t>>
    <3>1. LOAD \in Int /\ r \in Int /\ t \in Int
      BY <2>1, BytesAreNumbers
    <3> QED
      BY <3>1, Triple
  <2> QED
    BY <2>3, <2>4 DEF Encoding
<1>5. \A op, a, d : Instr(op, a, d).mark = <<>> /\ Instr(op, a, d).goto = <<>>
  BY DEF Instr
<1>6. QED
  BY <1>2, <1>3, <1>4, <1>5

LEMMA Associative ==
    ASSUME NEW S PROVE \A x, y, z \in Seq(S) : (x \o y) \o z = x \o (y \o z)
  BY ONLY ConcatAssociative

LEMMA BytesAssociate == \A x, y, z \in Seq(Byte) : (x \o y) \o z = x \o (y \o z)
  BY ONLY Associative

LEMMA EntriesAssociate == \A x, y, z \in Seq(Written) : (x \o y) \o z = x \o (y \o z)
  BY ONLY Associative

\* emit_ext_call writes two instructions, one, or part of one.
LEMMA ExtCallKeeps ==
    ASSUME buffer \in Seq(Byte), Layout, NEW method \in Payloads, NEW reg \in Registers,
           EmitExtCall(method, reg)
    PROVE  Layout'
<1> DEFINE load == Instr(LOAD, <<reg, VMTypeString>>, method)
           ext  == Instr(EXTCALL, <<reg>>, <<>>)
<1>1. CASE /\ ~TooLong(method) /\ reg \in Byte
           /\ Write(<<LOAD, reg, VMTypeString>> \o VarUint(Len(method)) \o method
                      \o <<EXTCALL, reg>>, <<load, ext>>, NoError)
  <2> SUFFICES ASSUME taint' = {} PROVE LaidOut(buffer', jumps', labels', prog')
    BY DEF Layout
  <2>1. method \in Seq(Byte) /\ VMTypeString \in Byte
    BY BuilderAssumption, OpcodesAreBytes
  <2>2. /\ load \in Written /\ ext \in Written
        /\ Encoding(load) = <<LOAD, reg, VMTypeString>> \o (VarUint(Len(method)) \o method)
        /\ Encoding(ext) = <<EXTCALL, reg>>
        /\ load.mark = <<>> /\ load.goto = <<>> /\ ext.mark = <<>> /\ ext.goto = <<>>
    <3>1. /\ load \in Written
          /\ Encoding(load) = <<LOAD, reg, VMTypeString>> \o (VarUint(Len(method)) \o method)
      BY <1>1, <2>1, ShortEncodings, Zenon
    <3>2. ext \in Written /\ Encoding(ext) = <<EXTCALL, reg>>
      BY <1>1, ShortEncodings, Zenon
    <3>3. load.mark = <<>> /\ load.goto = <<>>
      BY ShortEncodings, Zenon
    <3>4. ext.mark = <<>> /\ ext.goto = <<>>
      BY ShortEncodings, Zenon
    <3> QED
      BY <3>1, <3>2, <3>3, <3>4
  <2>3. LaidOut(buffer, jumps, labels, prog) /\ prog \in Seq(Written)
    BY <1>1 DEF Layout, LaidOut, Write
  <2> HIDE DEF load, ext
  <2>4. PICK x \in Seq(Byte) : x = Encoding(load)
    BY <2>2, EncodingSize
  <2>5. PICK y \in Seq(Byte) : y = Encoding(ext)
    BY <2>2, EncodingSize
  <2>6. buffer' = (buffer \o x) \o y
    <3>1. /\ <<LOAD, reg, VMTypeString>> \in Seq(Byte)
          /\ VarUint(Len(method)) \in Seq(Byte)
      <4>1. Len(method) \in 0..U16Max
        BY <1>1, <2>1, BaseAssumption DEF TooLong, U16Max
      <4> QED
        BY <1>1, <2>1, <4>1, OpcodesAreBytes, VarUintType
    <3>2. <<LOAD, reg, VMTypeString>> \o VarUint(Len(method)) \o method = x
      BY <2>1, <2>2, <2>4, <3>1, BytesAssociate
    <3>3. buffer' = buffer \o (x \o y)
      BY <1>1, <2>2, <2>5, <3>2 DEF Write
    <3> QED
      BY <3>3, ConcatAssociative
  <2>7. prog' = Append(Append(prog, load), ext)
    <3>1. prog' = prog \o <<load, ext>>
      BY <1>1 DEF Write
    <3>2. <<load>> \in Seq(Written) /\ <<ext>> \in Seq(Written)
      BY <2>2
    <3>3. <<load>> \o <<ext>> = <<load, ext>>
      BY <2>2, Pair
    <3>4. prog \o <<load>> = Append(prog, load) /\ Append(prog, load) \in Seq(Written)
      BY <2>2, <2>3
    <3>5. Append(prog, load) \o <<ext>> = Append(Append(prog, load), ext)
      BY <2>2, <3>4, AppendIsConcat
    <3> QED
      BY <2>3, <3>1, <3>2, <3>3, <3>4, <3>5, ConcatAssociative
  <2>8. LaidOut(buffer \o x, jumps, labels, Append(prog, load))
    <3>1. LaidOut(buffer \o Encoding(load), JumpsAfter(buffer, jumps, load),
                  LabelsAfter(buffer, labels, load), Append(prog, load))
      BY <2>2, <2>3, Grow
    <3> QED
      BY <2>2, <2>4, <3>1 DEF JumpsAfter, LabelsAfter
  <2>9. LaidOut((buffer \o x) \o y, jumps, labels, Append(Append(prog, load), ext))
    <3>1. PICK b \in Seq(Byte) : b = buffer \o x
      <4>1. buffer \o x \in Seq(Byte)
        OBVIOUS
      <4> QED
        BY <4>1, Zenon
    <3>2. PICK p : p = Append(prog, load)
      OBVIOUS
    <3>3. LaidOut(b \o Encoding(ext), JumpsAfter(b, jumps, ext),
                  LabelsAfter(b, labels, ext), Append(p, ext))
      BY <2>2, <2>8, <3>1, <3>2, Grow
    <3> QED
      BY <2>2, <2>5, <3>1, <3>2, <3>3 DEF JumpsAfter, LabelsAfter
  <2> QED
    BY <1>1, <2>6, <2>7, <2>9 DEF Write
<1>2. CASE RaiseAfter(<<LOAD>>)
  BY <1>2, TaintedKeeps DEF RaiseAfter
<1>3. CASE reg \in Byte /\ Write(<<EXTCALL, reg>>, <<ext>>, "load too long")
  <2>1. /\ ext \in Written /\ ext.mark = <<>> /\ ext.goto = <<>>
        /\ Encoding(ext) = <<EXTCALL, reg>>
    BY <1>3, ShortEncodings
  <2> HIDE DEF ext
  <2> QED
    BY <1>3, <2>1, WriteKeeps
<1>4. CASE taint' = taint \cup {"raised"}
  BY <1>4, TaintedKeeps
<1>5. QED
  BY <1>1, <1>2, <1>3, <1>4 DEF EmitExtCall

\* The opcode, its operands and the reserved bytes of a target.
LEMMA PlaceholderKeeps ==
    ASSUME buffer \in Seq(Byte), Layout, NEW op \in {JMP, JMPIF, JMPNOT, CALL},
           NEW a \in Seq(Byte), Len(a) = OperandCount(op), NEW label \in Labels,
           Placeholder(op, a, label)
    PROVE  Layout'
<1>1. PICK e : e = [Instr(op, a, <<>>) EXCEPT !.goto = <<label>>]
  OBVIOUS
<1>2. op \in Byte /\ op # LOAD /\ HasTarget(op)
  BY OpcodesAreBytes, OperandCounts
<1>3. e = [op |-> op, args |-> a, data |-> <<>>, mark |-> <<>>, goto |-> <<label>>]
  BY <1>1 DEF Instr
<1>4. /\ e.op = op /\ e.args = a /\ e.data = <<>> /\ e.mark = <<>>
      /\ e.goto = <<label>>
  BY <1>3
<1>5. e \in Written
  <2>1. /\ <<>> \in Seq(Byte) /\ <<>> \in Seq(Labels) /\ <<label>> \in Seq(Labels)
        /\ <<label>> # <<>>
    OBVIOUS
  <2>2. ~TooLong(<<>>)
    BY BaseAssumption DEF TooLong, U16Max
  <2>3. e \in [op : Byte, args : Seq(Byte), data : Seq(Byte),
               mark : Seq(Labels), goto : Seq(Labels)]
    BY <1>2, <1>3, <2>1
  <2> QED
    BY <1>2, <1>4, <2>1, <2>2, <2>3 DEF Written
<1>6. Encoding(e) = (<<op>> \o a) \o <<0, 0>>
  BY <1>2, <1>4 DEF Encoding, Opening, Rest
<1>7. buffer' = buffer \o Encoding(e)
  <2>1. buffer' = ((buffer \o <<op>>) \o a) \o <<0, 0>>
    BY DEF Placeholder
  <2>2. PICK x \in Seq(Byte) : x = <<op>>
    <3>1. <<op>> \in Seq(Byte)
      BY <1>2
    <3> QED
      BY <3>1, Zenon
  <2>3. PICK z \in Seq(Byte) : z = <<0, 0>>
    <3>1. <<0, 0>> \in Seq(Byte)
      BY OpcodesAreBytes
    <3> QED
      BY <3>1, Zenon
  <2>4. PICK xa \in Seq(Byte) : xa = x \o a
    <3>1. x \o a \in Seq(Byte)
      BY ONLY x \in Seq(Byte), a \in Seq(Byte), Parts
    <3> QED
      BY <3>1, Zenon
  <2>5. (buffer \o x) \o a = buffer \o xa
    BY ONLY buffer \in Seq(Byte), x \in Seq(Byte), a \in Seq(Byte), <2>4, ConcatAssociative
  <2>6. (buffer \o xa) \o z = buffer \o (xa \o z)
    BY ONLY buffer \in Seq(Byte), xa \in Seq(Byte), z \in Seq(Byte), ConcatAssociative
  <2> QED
    BY <1>6, <2>1, <2>2, <2>3, <2>4, <2>5, <2>6
<1>8. Len(buffer) + Len(Encoding(e)) - 2 = PatchOffset(a)
  <2>1. Len(buffer) \in Nat /\ Len(a) \in Nat
    OBVIOUS
  <2>2. Rest(e) = <<0, 0>> /\ Len(Rest(e)) = 2
    BY <1>2, <1>4 DEF Rest
  <2>3. Len(Encoding(e)) = 1 + Len(a) + 2
    BY <1>4, <1>5, <2>2, EncodingFacts
  <2> QED
    BY <2>1, <2>3 DEF PatchOffset
<1>9. jumps' = JumpsAfter(buffer, jumps, e)
  <2>1. e.goto # <<>> /\ e.goto[1] = label
    BY <1>4
  <2> QED
    BY <1>8, <2>1 DEF Placeholder, JumpsAfter
<1>10. Grown(e)
  BY <1>1, <1>4, <1>7, <1>9 DEF Placeholder, Grown, LabelsAfter
<1>11. QED
  BY <1>5, <1>10, GrownKeeps

\* A NOP, and the label after it.
LEMMA LabelKeeps ==
    ASSUME buffer \in Seq(Byte), Layout, NEW label \in Labels, EmitLabel(label)
    PROVE  Layout'
<1>1. PICK e : e = [Instr(NOP, <<>>, <<>>) EXCEPT !.mark = <<label>>]
  OBVIOUS
<1>2. NOP \in Byte /\ NOP # LOAD /\ ~HasTarget(NOP) /\ OperandCount(NOP) = 0
  BY OpcodesAreBytes, OperandCounts
<1>3. e = [op |-> NOP, args |-> <<>>, data |-> <<>>, mark |-> <<label>>, goto |-> <<>>]
  BY <1>1 DEF Instr
<1>4. /\ e.op = NOP /\ e.args = <<>> /\ e.data = <<>> /\ e.mark = <<label>>
      /\ e.goto = <<>>
  BY <1>3
<1>5. e \in Written
  <2>1. /\ <<>> \in Seq(Byte) /\ <<>> \in Seq(Labels) /\ <<label>> \in Seq(Labels)
        /\ Len(<<>>) = 0
    OBVIOUS
  <2>2. ~TooLong(<<>>)
    BY BaseAssumption DEF TooLong, U16Max
  <2>3. e \in [op : Byte, args : Seq(Byte), data : Seq(Byte),
               mark : Seq(Labels), goto : Seq(Labels)]
    BY <1>2, <1>3, <2>1
  <2> QED
    BY <1>2, <1>4, <2>1, <2>2, <2>3 DEF Written
<1>6. Encoding(e) = <<NOP>>
  <2>1. (<<NOP>> \o <<>>) \o <<>> = <<NOP>>
    OBVIOUS
  <2> QED
    BY <1>2, <1>4, <2>1 DEF Encoding, Opening, Rest
<1>7. buffer' = buffer \o Encoding(e) /\ Len(Encoding(e)) = 1
  BY <1>2, <1>6, AppendByte DEF EmitLabel
<1>8. labels' = LabelsAfter(buffer, labels, e)
  <2>1. e.mark # <<>> /\ e.mark[1] = label
    BY <1>4
  <2> QED
    BY <1>7, <2>1 DEF EmitLabel, Labelled, LabelsAfter
<1>9. Grown(e)
  BY <1>1, <1>4, <1>7, <1>8 DEF EmitLabel, Grown, JumpsAfter
<1>10. QED
  BY <1>5, <1>9, GrownKeeps

\* The RET that ends a script is one more instruction.
LEMMA EndKeeps ==
    ASSUME buffer \in Seq(Byte), Layout, EndScript
    PROVE  Layout'
<1>1. PICK e : e = Instr(RET, <<>>, <<>>)
  OBVIOUS
<1>2. e \in Written /\ Encoding(e) = <<RET>> /\ e.mark = <<>> /\ e.goto = <<>>
  BY <1>1, ShortEncodings
<1>3. buffer' = buffer \o Encoding(e)
  BY <1>2, AppendByte, OpcodesAreBytes DEF EndScript
<1>4. Grown(e)
  BY <1>1, <1>2, <1>3 DEF EndScript, Grown, JumpsAfter, LabelsAfter
<1>5. QED
  BY <1>2, <1>4, GrownKeeps

\* A failure that is retained, and one that leaves a method.
LEMMA FailKeeps ==
    ASSUME Layout, NEW e, Fail(e)
    PROVE  Layout'
  BY SameKeeps DEF Fail

\* A timestamp is four bytes, which no length check rejects.
LEMMA TimeBytesShort ==
    ASSUME NEW t \in 0..TimeMax
    PROVE  TimeBytes(t) \in Seq(Byte) /\ Len(TimeBytes(t)) = 4 /\ ~TooLong(TimeBytes(t))
<1>1. TimeBytes(t) \in Seq(Byte)
  BY TimeBytesType
<1>2. Len(TimeBytes(t)) = 4
  <2>1. PICK lo : lo = t % (Base * Base)
    OBVIOUS
  <2>2. PICK hi : hi = t \div (Base * Base)
    OBVIOUS
  <2>3. U16(lo) \o U16(hi) = <<lo % Base, lo \div Base>> \o <<hi % Base, hi \div Base>>
    BY DEF U16
  <2>4. Len(<<lo % Base, lo \div Base>> \o <<hi % Base, hi \div Base>>) = 4
    OBVIOUS
  <2> QED
    BY <2>1, <2>2, <2>3, <2>4 DEF TimeBytes
<1>3. 4 <= U16Max
  <2>1. Base * Base >= 4 * 4
    BY BaseAssumption
  <2> QED
    BY <2>1, BaseAssumption DEF U16Max
<1>4. QED
  BY <1>1, <1>2, <1>3, BaseAssumption DEF TooLong, U16Max

LEMMA PlainKeeps ==
    ASSUME buffer \in Seq(Byte), Layout, Plain
    PROVE  Layout'
<1>1. ASSUME NEW op \in {NOP, RET}, Emit(op) PROVE Layout'
  <2>1. PICK e : e = Instr(op, <<>>, <<>>)
    OBVIOUS
  <2>2. e \in Written /\ Encoding(e) = <<op>>
    BY <2>1, ShortEncodings, Zenon
  <2>3. e.mark = <<>> /\ e.goto = <<>>
    BY <2>1 DEF Instr
  <2>4. Write(Encoding(e), <<e>>, NoError)
    BY <1>1, <2>1, <2>2 DEF Emit
  <2> QED
    BY <2>2, <2>3, <2>4, WriteKeeps
<1>2. ASSUME NEW c \in RawChunks, EmitRaw(c) PROVE Layout'
  BY <1>2, TaintedKeeps DEF EmitRaw
<1>3. ASSUME NEW n \in VarValues, EmitVarBytes(n) PROVE Layout'
  BY <1>3, TaintedKeeps DEF EmitVarBytes, RaiseAfter
<1>4. ASSUME NEW op \in {PUSH, POP, THROW}, NEW r \in Registers, EmitReg(op, r)
      PROVE  Layout'
  <2>1. /\ op \in Byte /\ ~HasTarget(op) /\ OperandCount(op) = 1 /\ op # LOAD
        /\ <<r>> \in Seq(Int) /\ Len(<<r>>) = 1
    BY OpcodesAreBytes, OperandCounts, BuilderAssumption
  <2>2. <<>> \in Seq(Byte) /\ ~TooLong(<<>>)
    BY BaseAssumption DEF TooLong, U16Max
  <2>3. Instruction(op, <<r>>, IF op = LOAD THEN VarUint(Len(<<>>)) \o <<>> ELSE <<>>, <<>>)
    BY <1>4, <2>1 DEF EmitReg
  <2> QED
    BY <2>1, <2>2, <2>3, InstructionKeeps
<1>5. ASSUME NEW op \in {MOVE, COPY}, NEW r \in Registers, NEW s \in Registers,
             EmitRegs(op, r, s)
      PROVE  Layout'
  <2>1. /\ op \in Byte /\ ~HasTarget(op) /\ OperandCount(op) = 2 /\ op # LOAD
        /\ <<r, s>> \in Seq(Int) /\ Len(<<r, s>>) = 2
    BY OpcodesAreBytes, OperandCounts, BuilderAssumption
  <2>2. <<>> \in Seq(Byte) /\ ~TooLong(<<>>)
    BY BaseAssumption DEF TooLong, U16Max
  <2>3. Instruction(op, <<r, s>>, IF op = LOAD THEN VarUint(Len(<<>>)) \o <<>> ELSE <<>>, <<>>)
    BY <1>5, <2>1 DEF EmitRegs
  <2> QED
    BY <2>1, <2>2, <2>3, InstructionKeeps
<1>6. ASSUME NEW r \in Int, NEW t \in Byte, NEW d \in Seq(Byte), ~TooLong(d),
             Instruction(LOAD, <<r, t>>, VarUint(Len(d)) \o d, d)
      PROVE  Layout'
  <2>1. /\ LOAD \in Byte /\ ~HasTarget(LOAD) /\ OperandCount(LOAD) = 2
        /\ <<r, t>> \in Seq(Int) /\ Len(<<r, t>>) = 2
    BY OpcodesAreBytes, OperandCounts DEF Byte
  <2>2. Instruction(LOAD, <<r, t>>, IF LOAD = LOAD THEN VarUint(Len(d)) \o d ELSE <<>>, d)
    BY <1>6
  <2> QED
    BY <1>6, <2>1, <2>2, InstructionKeeps
<1>7. ASSUME NEW r \in Registers, NEW d \in Payloads, NEW t \in LoadTypes,
             EmitLoad(r, d, t)
      PROVE  Layout'
  <2>1. r \in Int /\ t \in Byte /\ d \in Seq(Byte)
    BY BuilderAssumption
  <2>2. \/ Fail("load too long")
        \/ ~TooLong(d) /\ Instruction(LOAD, <<r, t>>, VarUint(Len(d)) \o d, d)
    BY <1>7 DEF EmitLoad
  <2> QED
    BY <1>6, <2>1, <2>2, FailKeeps
<1>8. ASSUME NEW r \in Registers, NEW t \in Times, EmitLoadTime(r, t)
      PROVE  Layout'
  <2>1. \/ Fail("bad timestamp")
        \/ /\ t \in 0..TimeMax
           /\ Instruction(LOAD, <<r, VMTypeTimestamp>>,
                          VarUint(4) \o TimeBytes(t), TimeBytes(t))
    BY <1>8 DEF EmitLoadTime
  <2>2. CASE /\ t \in 0..TimeMax
             /\ Instruction(LOAD, <<r, VMTypeTimestamp>>,
                            VarUint(4) \o TimeBytes(t), TimeBytes(t))
    <3>1. PICK d \in Seq(Byte) : d = TimeBytes(t)
      BY <2>2, TimeBytesShort
    <3>2. Len(d) = 4 /\ ~TooLong(d)
      BY <2>2, <3>1, TimeBytesShort
    <3>3. Instruction(LOAD, <<r, VMTypeTimestamp>>, VarUint(Len(d)) \o d, d)
      BY <2>2, <3>1, <3>2
    <3>4. r \in Int /\ VMTypeTimestamp \in Byte
      BY BuilderAssumption, OpcodesAreBytes
    <3> QED
      BY <1>6, <3>2, <3>3, <3>4
  <2> QED
    BY <2>1, <2>2, FailKeeps
<1>9. ASSUME NEW d \in Payloads, NEW r \in Registers, EmitExtCall(d, r)
      PROVE  Layout'
  BY <1>9, ExtCallKeeps
<1>10. QED
  BY <1>1, <1>2, <1>3, <1>4, <1>5, <1>7, <1>8, <1>9 DEF Plain

LEMMA JumpKeeps ==
    ASSUME buffer \in Seq(Byte), Layout, NEW op \in Byte, NEW l \in Labels,
           NEW r \in Registers, Jump(op, l, r)
    PROVE  Layout'
<1>1. CASE Fail("bad jump opcode")
  BY <1>1, FailKeeps
<1>2. CASE RaiseAfter(<<op>>)
  BY <1>2, TaintedKeeps DEF RaiseAfter
<1>3. CASE /\ op \in JumpOpcodes
           /\ op = JMP \/ r \in Byte
           /\ Placeholder(op, JumpOperands(op, r), l)
  <2>1. op \in {JMP, JMPIF, JMPNOT, CALL} /\ op \in {JMP, JMPIF, JMPNOT}
    BY <1>3 DEF JumpOpcodes
  <2>2. JumpOperands(op, r) \in Seq(Byte) /\ Len(JumpOperands(op, r)) = OperandCount(op)
    <3>1. CASE op = JMP
      BY <3>1, OperandCounts DEF JumpOperands
    <3>2. CASE op # JMP
      <4>1. OperandCount(op) = 1
        BY <2>1, <3>2, OperandCounts
      <4> QED
        BY <1>3, <3>2, <4>1 DEF JumpOperands
    <3> QED
      BY <3>1, <3>2
  <2> QED
    BY <1>3, <2>1, <2>2, PlaceholderKeeps
<1>4. QED
  BY <1>1, <1>2, <1>3 DEF Jump

\* One step of the builder, whatever the method.
LEMMA LayoutStep ==
    ASSUME IInv, Layout, [Low]_vars
    PROVE  Layout'
<1>0. buffer \in Seq(Byte)
  BY DEF IInv, TypeOK
<1>1. CASE Plain
  BY <1>0, <1>1, PlainKeeps
<1>2. CASE \E l \in Labels : EmitLabel(l)
  BY <1>0, <1>2, LabelKeeps
<1>3. ASSUME NEW op \in JumpArguments, NEW l \in Labels, NEW r \in Registers,
             EmitJump(op, l, r) \/ EmitConditionalJump(op, r, l)
      PROVE  Layout'
  <2>1. op \in Byte
    BY BuilderAssumption
  <2> QED
    BY <1>0, <1>3, <2>1, JumpKeeps, FailKeeps DEF EmitJump, EmitConditionalJump
<1>4. ASSUME NEW l \in Labels, NEW n \in RegisterCounts, EmitCall(l, n)
      PROVE  Layout'
  <2>1. CASE Fail("bad register count")
    BY <2>1, FailKeeps
  <2>2. CASE n \in 1..MAX_REGISTER_COUNT /\ Placeholder(CALL, <<n>>, l)
    <3>1. n \in Byte
      BY <2>2, BuilderAssumption DEF Byte
    <3>2. <<n>> \in Seq(Byte) /\ Len(<<n>>) = 1
      BY <3>1
    <3>3. CALL \in {JMP, JMPIF, JMPNOT, CALL} /\ OperandCount(CALL) = 1
      BY OperandCounts
    <3> QED
      BY <1>0, <2>2, <3>2, <3>3, PlaceholderKeeps
  <2> QED
    BY <1>4, <2>1, <2>2 DEF EmitCall
<1>5. CASE EndScript
  BY <1>0, <1>5, EndKeeps
<1>6. CASE ToScript
  BY <1>6, SameKeeps DEF ToScript
<1>7. CASE UNCHANGED vars
  BY <1>7, SameKeeps DEF vars
<1>8. QED
  BY <1>1, <1>2, <1>3, <1>4, <1>5, <1>6, <1>7 DEF Low, Plain

\* A new builder holds no instruction.
LEMMA InitLayout == Init => Layout
<1> SUFFICES ASSUME Init PROVE LaidOut(buffer, jumps, labels, prog)
  BY DEF Layout
<1>1. PICK at : at = [i \in 1..1 |-> 0]
  OBVIOUS
<1>2. /\ prog = <<>> /\ buffer = <<>> /\ DOMAIN jumps = {} /\ DOMAIN labels = {}
      /\ Len(prog) = 0 /\ Len(buffer) = 0 /\ prog \in Seq(Written)
  BY DEF Init
<1>3. 1..Len(prog) = {} /\ Len(prog) + 1 = 1 /\ 0..Len(buffer) = {0}
  BY <1>2
<1>4. at \in [1..(Len(prog) + 1) -> 0..Len(buffer)] /\ at[1] = 0
  BY <1>1, <1>3
<1>5. \A i, k \in 1..(Len(prog) + 1) : ~(i < k)
  BY <1>3
<1>6. Laid(buffer, jumps, labels, prog, at)
  BY <1>2, <1>3, <1>4, <1>5 DEF Laid
<1>7. QED
  BY <1>2, <1>6 DEF LaidOut

\* What the buffer and the two tables hold is the program asked for, whatever
\* methods were called, as long as nothing was raised or written raw.
THEOREM LayoutAlways == Spec => []Layout
<1>1. IInv /\ Layout /\ [Low]_vars => Layout'
  BY LayoutStep
<1>2. QED
  BY <1>1, InitLayout, Inductive, PTL DEF Spec
-----------------------------------------------------------------------------
(* The finished script decodes to the program.                               *)

\* Patching the reserved bytes of other instructions, and the target of this
\* one, leaves this one in the script.
LEMMA PatchedHolds ==
    ASSUME NEW b \in Seq(Byte), NEW s \in Seq(Byte), Len(s) = Len(b),
           NEW p \in Nat, NEW q \in Nat, NEW e \in Written, NEW t, NEW J,
           q = p + Len(Encoding(e)), Spells(b, p, Encoding(e)),
           \A k \in 1..Len(b) : (k - 1 \notin J /\ k - 2 \notin J) => s[k] = b[k],
           \A o \in J : /\ o \in Nat
                        /\ o + 2 <= p \/ o >= q \/ (HasTarget(e.op) /\ o = q - 2),
           HasTarget(e.op) => U16At(s, q - 2) = t
    PROVE  Holds(s, p, e, t)
<1>1. PICK x \in Seq(Byte) : x = Opening(e)
  BY EncodingFacts
<1>2. PICK y \in Seq(Byte) : y = Rest(e)
  BY EncodingFacts
<1>3. PICK m \in Nat : m = Len(x)
  BY <1>1
<1>4. Len(y) \in Nat /\ q = p + (m + Len(y)) /\ Len(b) \in Nat
  <2>1. Len(y) \in Nat /\ Len(b) \in Nat
    OBVIOUS
  <2>2. Len(Encoding(e)) = Len(Opening(e)) + Len(Rest(e))
    BY EncodingSize
  <2>3. Len(Encoding(e)) = m + Len(y)
    BY <1>1, <1>2, <1>3, <2>2
  <2> QED
    BY <2>1, <2>3
<1>5. Spells(b, p, x \o y)
  BY <1>1, <1>2 DEF Encoding
<1>6. Spells(b, p, x) /\ Spells(b, p + m, y)
  BY <1>3, <1>5, SpelledParts
<1>7. p + m <= Len(b) /\ q <= Len(b)
  BY <1>3, <1>4, <1>6 DEF Spells
<1>8. ASSUME HasTarget(e.op) PROVE y = <<0, 0>> /\ Len(y) = 2
  <2>1. e.op # LOAD
    BY <1>8, LoadHasNoTarget
  <2> QED
    BY <1>2, <1>8, <2>1 DEF Rest
<1>9. Spells(s, p, x)
  <2>1. ASSUME NEW k \in 1..m PROVE s[p + k] = x[k]
    <3>1. p + k \in 1..Len(b) /\ p + k <= p + m
      BY <1>7
    <3>2. ASSUME NEW o \in J, o = (p + k) - 1 \/ o = (p + k) - 2 PROVE FALSE
      <4>1. o + 2 > p /\ o < q
        BY <1>4, <3>2
      <4>2. HasTarget(e.op) /\ o = q - 2
        <5>1. o \in Nat /\ (o + 2 <= p \/ o >= q \/ (HasTarget(e.op) /\ o = q - 2))
          OBVIOUS
        <5>2. ~(o + 2 <= p) /\ ~(o >= q)
          BY <4>1, <5>1
        <5> QED
          BY <5>1, <5>2
      <4>3. o = p + m
        <5>1. Len(y) = 2
          BY <1>8, <4>2
        <5>2. q = p + (m + 2)
          BY <1>4, <5>1
        <5> QED
          BY <4>2, <5>2
      <4> QED
        BY <3>2, <4>3
    <3>3. s[p + k] = b[p + k]
      BY <3>1, <3>2
    <3> QED
      BY <1>3, <1>6, <3>3 DEF Spells
  <2> QED
    BY <1>3, <1>7, <2>1 DEF Spells
<1>10. ASSUME ~HasTarget(e.op) PROVE Spells(s, p + m, y)
  <2>1. ASSUME NEW k \in 1..Len(y) PROVE s[(p + m) + k] = y[k]
    <3>1. (p + m) + k \in 1..Len(b) /\ (p + m) + k <= q
      BY <1>4, <1>7
    <3>2. ASSUME NEW o \in J, o = ((p + m) + k) - 1 \/ o = ((p + m) + k) - 2 PROVE FALSE
      <4>1. o \in Nat /\ (o + 2 <= p \/ o >= q)
        BY <1>10
      <4>2. o + 2 > p /\ o < q
        BY <1>4, <3>1, <3>2, <4>1
      <4> QED
        BY <4>1, <4>2, <1>4
    <3>3. s[(p + m) + k] = b[(p + m) + k]
      BY <3>1, <3>2
    <3> QED
      BY <1>6, <3>3 DEF Spells
  <2>2. (p + m) + Len(y) <= Len(s)
    BY <1>4, <1>7
  <2> QED
    BY <2>1, <2>2 DEF Spells
<1>11. ASSUME HasTarget(e.op) PROVE U16At(s, p + m) = t
  <2>0. Len(y) = 2
    BY <1>8, <1>11
  <2>1. q = p + (m + 2)
    BY <1>4, <2>0
  <2>2. p + m = q - 2
    BY <1>3, <2>1, p \in Nat, q \in Nat
  <2> QED
    BY <1>11, <2>2
<1>12. p + Len(Encoding(e)) <= Len(s)
  BY <1>7
<1>13. QED
  BY <1>1, <1>2, <1>3, <1>9, <1>10, <1>11, <1>12 DEF Holds

\* There is one last definition of a label.
LEMMA LastIsLast ==
    ASSUME Len(prog) \in Nat, NEW l, NEW d, LastOf(prog, d, Lower[l])
    PROVE  LastDefinition(l) = d
<1> DEFINE Last(i) ==
             /\ prog[i].mark # <<>> /\ Lower[prog[i].mark[1]] = Lower[l]
             /\ \A j \in (i + 1)..Len(prog) :
                  prog[j].mark = <<>> \/ Lower[prog[j].mark[1]] # Lower[l]
<1>1. d \in 1..Len(prog) /\ Last(d)
  BY DEF LastOf, Defines
<1>2. ASSUME NEW i \in 1..Len(prog), Last(i) PROVE i = d
  <2>1. ~(i < d)
    BY <1>1, <1>2
  <2>2. ~(d < i)
    BY <1>1, <1>2
  <2> QED
    BY <1>1, <2>1, <2>2
<1>3. LastDefinition(l) = CHOOSE i \in 1..Len(prog) : Last(i)
  BY DEF LastDefinition
<1> HIDE DEF Last
<1>4. QED
  BY <1>1, <1>2, <1>3

LEMMA ScriptHolds ==
    ASSUME IInv, Finished, result.kind = "script", prog \in Seq(Written), NEW at,
           Laid(buffer, jumps, labels, prog, at), NEW i \in 1..Len(prog)
    PROVE  Holds(result.bytes, at[i], prog[i], Target(at[i + 1] - 2))
<1>1. PICK n \in Nat : n = Len(prog)
  OBVIOUS
<1>2. buffer \in Seq(Byte) /\ result.bytes \in Seq(Byte) /\ DOMAIN jumps \subseteq Nat
  BY DEF IInv, TypeOK
<1>3. PICK s \in Seq(Byte) : s = result.bytes
  BY <1>2
<1>4. /\ Len(s) = Len(buffer)
      /\ \A k \in 1..Len(buffer) :
           (k - 1 \notin DOMAIN jumps /\ k - 2 \notin DOMAIN jumps) => s[k] = buffer[k]
      /\ \A o \in DOMAIN jumps : s[o + 1] + Base * s[o + 2] = Target(o)
  BY <1>3, ScriptFacts
<1>5. /\ \A k \in 1..(n + 1) : at[k] \in Nat
      /\ \A k, m \in 1..(n + 1) : k < m => at[k] < at[m]
  <2>1. /\ at \in [1..(n + 1) -> 0..Len(buffer)]
        /\ \A k, m \in 1..(n + 1) : k < m => at[k] < at[m]
    BY <1>1 DEF Laid
  <2>2. 0..Len(buffer) \subseteq Nat
    BY <1>2
  <2>3. \A k \in 1..(n + 1) : at[k] \in Nat
    BY <2>1, <2>2
  <2> QED
    BY <2>1, <2>3
<1>6. \A k \in 1..n : prog[k] \in Written /\ at[k + 1] = at[k] + Len(Encoding(prog[k]))
  BY <1>1 DEF Laid
<1>7. PICK p \in Nat : p = at[i]
  BY <1>1, <1>5
<1>8. PICK q \in Nat : q = at[i + 1]
  BY <1>1, <1>5
<1>9. PICK e \in Written : e = prog[i]
  BY <1>1, <1>6
<1>10. q = p + Len(Encoding(e)) /\ Spells(buffer, p, Encoding(e))
  BY <1>1, <1>7, <1>8, <1>9 DEF Laid
<1>11. ASSUME NEW o \in DOMAIN jumps
       PROVE  /\ o \in Nat
              /\ o + 2 <= p \/ o >= q \/ (HasTarget(e.op) /\ o = q - 2)
  <2>0. o \in Nat
    BY <1>2
  <2>1. PICK k \in 1..n : prog[k].goto # <<>> /\ o = at[k + 1] - 2
    BY <1>1 DEF Laid
  <2>2. HasTarget(prog[k].op)
    BY <1>6, <2>1 DEF Written
  <2>3. CASE k = i
    BY <1>8, <1>9, <2>0, <2>1, <2>2, <2>3
  <2>4. CASE k < i
    <3>1. k + 1 \in 1..(n + 1) /\ i \in 1..(n + 1)
      BY <1>1
    <3>2. at[k + 1] <= at[i] /\ at[k + 1] \in Nat
      BY <1>5, <2>4, <3>1
    <3> QED
      BY <1>7, <2>0, <2>1, <3>2
  <2>5. CASE i < k
    <3>1. i + 1 \in 1..(n + 1) /\ k \in 1..(n + 1)
      BY <1>1
    <3>2. at[i + 1] <= at[k] /\ at[k] \in Nat
      BY <1>5, <2>5, <3>1
    <3>3. Len(Encoding(prog[k])) \in Nat /\ Len(Encoding(prog[k])) >= 2
      <4>1. prog[k].op # LOAD
        BY <2>2, LoadHasNoTarget
      <4>2. Rest(prog[k]) = <<0, 0>>
        BY <2>2, <4>1 DEF Rest
      <4>3. Len(Rest(prog[k])) = 2
        BY <4>2
      <4>4. PICK f \in Written : f = prog[k]
        BY <1>6
      <4>5. /\ Len(Opening(f)) \in Nat /\ Len(Encoding(f)) = Len(Opening(f)) + Len(Rest(f))
        BY EncodingSize
      <4> QED
        BY <4>3, <4>4, <4>5
    <3>4. at[k + 1] = at[k] + Len(Encoding(prog[k]))
      BY <1>6
    <3>5. PICK w \in Nat : w = Len(Encoding(prog[k]))
      BY <3>3
    <3>6. PICK r \in Nat : r = at[k]
      BY <3>2
    <3>7. o = (r + w) - 2 /\ w >= 2 /\ q <= r
      BY <1>8, <2>1, <3>2, <3>3, <3>4, <3>5, <3>6
    <3>8. o >= q
      BY <2>0, <3>7
    <3> QED
      BY <2>0, <3>8
  <2> QED
    BY <1>1, <2>3, <2>4, <2>5
<1>12. ASSUME HasTarget(e.op) PROVE U16At(s, q - 2) = Target(q - 2)
  <2>1. q - 2 \in DOMAIN jumps
    <3>1. prog[i].goto # <<>>
      BY <1>9, <1>12 DEF Written
    <3> QED
      BY <1>8, <3>1 DEF Laid
  <2>2. PICK o : o = q - 2
    OBVIOUS
  <2> QED
    BY <1>4, <2>1, <2>2 DEF U16At
<1>13. PICK t : t = Target(q - 2)
  OBVIOUS
<1>14. PICK J : J = DOMAIN jumps
  OBVIOUS
<1>15. Holds(s, p, e, t)
  <2>1. \A k \in 1..Len(buffer) : (k - 1 \notin J /\ k - 2 \notin J) => s[k] = buffer[k]
    BY <1>4, <1>14
  <2>2. \A o \in J : /\ o \in Nat
                     /\ o + 2 <= p \/ o >= q \/ (HasTarget(e.op) /\ o = q - 2)
    BY <1>11, <1>14
  <2>3. HasTarget(e.op) => U16At(s, q - 2) = t
    BY <1>12, <1>13
  <2> QED
    BY <1>2, <1>4, <1>10, <2>1, <2>2, <2>3, PatchedHolds
<1>16. QED
  BY <1>3, <1>7, <1>8, <1>9, <1>13, <1>15

LEMMA ScriptDecodes ==
    ASSUME IInv, Finished, Layout, result.kind = "script", taint = {}
    PROVE  LET code == Decode(result.bytes)
           IN  /\ Len(code) = Len(prog)
               /\ \A i \in 1..Len(prog) :
                    /\ code[i].op = prog[i].op
                    /\ code[i].data = prog[i].data
                    /\ code[i].args =
                         IF prog[i].goto = <<>> THEN prog[i].args
                         ELSE Append(prog[i].args,
                                     code[LastDefinition(prog[i].goto[1]) + 1].at)
<1>1. prog \in Seq(Written) /\ \E at : Laid(buffer, jumps, labels, prog, at)
  BY DEF Layout, LaidOut
<1>2. PICK at : Laid(buffer, jumps, labels, prog, at)
  BY <1>1
<1>3. PICK n \in Nat : n = Len(prog)
  BY <1>1
<1>4. buffer \in Seq(Byte) /\ result.bytes \in Seq(Byte)
  BY DEF IInv, TypeOK
<1>5. PICK s \in Seq(Byte) : s = result.bytes
  BY <1>4
<1>6. Len(s) = Len(buffer) /\ Len(s) \in Nat
  BY <1>5, ScriptFacts
<1>7. /\ at \in [1..(n + 1) -> 0..Len(s)] /\ at[1] = 0 /\ at[n + 1] = Len(s)
      /\ \A i, k \in 1..(n + 1) : i < k => at[i] < at[k]
  BY <1>2, <1>3, <1>6 DEF Laid
<1>8. PICK t : t = [i \in 1..n |-> Target(at[i + 1] - 2)]
  OBVIOUS
<1>9. PICK c : c = [i \in 1..n |-> Decoded(at[i], prog[i], t[i])]
  OBVIOUS
<1>10. ASSUME NEW i \in 1..n
       PROVE  /\ prog[i] \in Written
              /\ c[i] = Decoded(at[i], prog[i], t[i])
              /\ at[i] # Len(s) /\ DecodeAt(s, at[i]) = c[i] /\ c[i].next = at[i + 1]
              /\ c[i].op = prog[i].op /\ c[i].data = prog[i].data /\ c[i].at = at[i]
              /\ HasTarget(prog[i].op) => c[i].args = Append(prog[i].args, t[i])
              /\ ~HasTarget(prog[i].op) => c[i].args = prog[i].args
  <2>1. prog[i] \in Written
    BY <1>1, <1>3
  <2>2. c[i] = Decoded(at[i], prog[i], t[i])
    BY <1>9
  <2>3. at[i] # Len(s) /\ at[i] \in Nat
    <3>1. i \in 1..(n + 1) /\ n + 1 \in 1..(n + 1) /\ i < n + 1
      OBVIOUS
    <3>2. at[i] < at[n + 1] /\ at[i] \in 0..Len(s)
      BY <1>7, <3>1
    <3> QED
      BY <1>6, <1>7, <3>2
  <2>4. Holds(s, at[i], prog[i], t[i])
    <3>1. Holds(s, at[i], prog[i], Target(at[i + 1] - 2))
      BY <1>1, <1>2, <1>3, <1>5, ScriptHolds
    <3> QED
      BY <1>8, <3>1
  <2>5. DecodeAt(s, at[i]) = Decoded(at[i], prog[i], t[i])
    BY <2>1, <2>3, <2>4, DecodeHeld
  <2>6. at[i + 1] = at[i] + Len(Encoding(prog[i]))
    BY <1>2, <1>3 DEF Laid
  <2> QED
    BY <2>1, <2>2, <2>3, <2>5, <2>6 DEF Decoded
<1>11. Len(Decode(s)) = n /\ \A i \in 1..n : Decode(s)[i] = c[i]
  <2>1. Chain(s, n, at, c)
    BY <1>7, <1>10 DEF Chain
  <2> QED
    BY <2>1, DecodesChain
<1>12. ASSUME NEW i \in 1..n, prog[i].goto # <<>>
       PROVE  /\ LastDefinition(prog[i].goto[1]) + 1 \in 1..n
              /\ t[i] = at[LastDefinition(prog[i].goto[1]) + 1]
  <2>1. PICK o : o = at[i + 1] - 2
    OBVIOUS
  <2>2. PICK l : l = prog[i].goto[1]
    OBVIOUS
  <2>3. o \in DOMAIN jumps /\ jumps[o] = l
    BY <1>2, <1>3, <1>12, <2>1, <2>2 DEF Laid
  <2>4. t[i] = Target(o) /\ Target(o) = labels[Lower[l]]
    BY <1>8, <2>1, <2>3 DEF Target
  <2>5. Lower[l] \in DOMAIN labels
    BY <2>3 DEF Finished, Unpatchable, Resolved
  <2>6. PICK d \in 1..n : LastOf(prog, d, Lower[l]) /\ labels[Lower[l]] = at[d + 1]
    BY <1>2, <1>3, <2>5 DEF Laid
  <2>7. labels[Lower[l]] < Len(s)
    BY <1>6, <2>5 DEF Finished
  <2>8. d + 1 \in 1..n
    <3>1. d # n
      BY <1>6, <1>7, <2>6, <2>7
    <3> QED
      BY <3>1
  <2>9. LastDefinition(l) = d
    BY <1>3, <2>6, LastIsLast
  <2> QED
    BY <2>2, <2>4, <2>6, <2>8, <2>9
<1>13. ASSUME NEW i \in 1..n
       PROVE  c[i].args = IF prog[i].goto = <<>> THEN prog[i].args
                          ELSE Append(prog[i].args,
                                      Decode(s)[LastDefinition(prog[i].goto[1]) + 1].at)
  <2>1. HasTarget(prog[i].op) <=> prog[i].goto # <<>>
    BY <1>10 DEF Written
  <2>2. CASE prog[i].goto = <<>>
    BY <1>10, <2>1, <2>2
  <2>3. CASE prog[i].goto # <<>>
    <3>1. PICK d : d = LastDefinition(prog[i].goto[1]) + 1
      OBVIOUS
    <3>2. d \in 1..n /\ t[i] = at[d]
      BY <1>12, <2>3, <3>1
    <3>3. Decode(s)[d].at = at[d]
      BY <1>10, <1>11, <3>2
    <3>4. c[i].args = Append(prog[i].args, t[i])
      BY <1>10, <2>1, <2>3
    <3> QED
      BY <2>3, <3>1, <3>2, <3>3, <3>4
  <2> QED
    BY <2>2, <2>3
<1>14. QED
  BY <1>3, <1>5, <1>10, <1>11, <1>13

\* end_script gives back the program it was asked for: a reader of the finished
\* bytes finds the instructions in order, with their operands and data, and each
\* jump goes to the instruction after the last definition of its label.
THEOREM AlwaysDecodes == Spec => []DecodesToProgram
<1>1. IInv /\ Finished /\ Layout => DecodesToProgram
  BY ScriptDecodes DEF DecodesToProgram
<1>2. QED
  BY <1>1, Inductive, AlwaysFinished, LayoutAlways, PTL
=============================================================================
