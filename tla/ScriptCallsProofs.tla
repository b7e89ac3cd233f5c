-------------------------- MODULE ScriptCallsProofs --------------------------
(* Proofs about ScriptCalls: for any arguments, nested to any depth, and any  *)
(* number of calls, the bytes written are whole instructions, which name only *)
(* registers that the VM has, and an argument that cannot be loaded keeps the *)
(* script from being returned.                                                *)
EXTENDS ScriptCalls, ScriptBuilderProofs

\* The instructions that calls are made of.
CallEntries ==
    {e \in Written : /\ e.mark = <<>> /\ e.goto = <<>> /\ e.op # RET
                     /\ NamedRegisters(e) \subseteq 0..(MAX_REGISTER_COUNT - 1)}

Pieces == [code : Seq(Byte), prog : Seq(CallEntries), err : Errors \cup {NoError}]

\* What a method writes is the encoding of the instructions it says, after
\* whatever has been written before.
Whole(c) ==
    /\ c \in Pieces
    /\ \A b \in Seq(Byte) : \A j, l, p :
         LaidOut(b, j, l, p) => LaidOut(b \o c.code, j, l, p \o c.prog)

\* Nothing went wrong.
Fine(c) == c.err = NoError

LEMMA NothingWhole == \A e \in Errors \cup {NoError} : Whole(Failing(e))
<1> SUFFICES ASSUME NEW e \in Errors \cup {NoError} PROVE Whole(Failing(e))
  OBVIOUS
<1>1. Failing(e) = [code |-> <<>>, prog |-> <<>>, err |-> e]
  BY DEF Failing, Piece
<1>2. Failing(e) \in Pieces
  BY <1>1 DEF Pieces
<1>3. ASSUME NEW b \in Seq(Byte), NEW j, NEW l, NEW p, LaidOut(b, j, l, p)
      PROVE  LaidOut(b \o <<>>, j, l, p \o <<>>)
  <2>1. p \in Seq(Written)
    BY <1>3 DEF LaidOut
  <2>2. b \o <<>> = b /\ p \o <<>> = p
    BY <2>1, ConcatEmptySeq
  <2> QED
    BY <1>3, <2>2
<1>4. QED
  BY <1>1, <1>2, <1>3 DEF Whole

\* One instruction.
LEMMA EntryWhole ==
    ASSUME NEW e \in CallEntries
    PROVE  Whole([code |-> Encoding(e), prog |-> <<e>>, err |-> NoError])
<1> DEFINE c == [code |-> Encoding(e), prog |-> <<e>>, err |-> NoError]
<1>1. e \in Written /\ e.mark = <<>> /\ e.goto = <<>>
  BY DEF CallEntries
<1>2. c \in Pieces
  <2>1. Encoding(e) \in Seq(Byte)
    BY <1>1, EncodingSize
  <2>2. <<e>> \in Seq(CallEntries)
    OBVIOUS
  <2> QED
    BY <2>1, <2>2 DEF Pieces
<1>3. ASSUME NEW b \in Seq(Byte), NEW j, NEW l, NEW p, LaidOut(b, j, l, p)
      PROVE  LaidOut(b \o Encoding(e), j, l, p \o <<e>>)
  <2>1. LaidOut(b \o Encoding(e), JumpsAfter(b, j, e), LabelsAfter(b, l, e), Append(p, e))
    BY <1>1, <1>3, Grow
  <2>2. JumpsAfter(b, j, e) = j /\ LabelsAfter(b, l, e) = l
    BY <1>1 DEF JumpsAfter, LabelsAfter
  <2>3. p \in Seq(Written)
    BY <1>3 DEF LaidOut
  <2>4. Append(p, e) = p \o <<e>>
    BY <1>1, <2>3, AppendIsConcat
  <2> QED
    BY <2>1, <2>2, <2>4
<1>4. c.code = Encoding(e) /\ c.prog = <<e>>
  OBVIOUS
<1>5. QED
  BY <1>2, <1>3, <1>4 DEF Whole

\* One method after another.
LEMMA ChainedWhole ==
    ASSUME NEW c, NEW d, Whole(c), Whole(d)
    PROVE  /\ Whole(c ++ d)
           /\ (c ++ d).prog = c.prog \o d.prog
           /\ Fine(c ++ d) <=> Fine(c) /\ Fine(d)
<1>1. /\ c.code \in Seq(Byte) /\ c.prog \in Seq(CallEntries) /\ c.err \in Errors \cup {NoError}
      /\ d.code \in Seq(Byte) /\ d.prog \in Seq(CallEntries) /\ d.err \in Errors \cup {NoError}
  BY DEF Whole, Pieces
<1>2. /\ (c ++ d).code = c.code \o d.code /\ (c ++ d).prog = c.prog \o d.prog
      /\ (c ++ d).err = IF c.err = NoError THEN d.err ELSE c.err
      /\ c ++ d = [code |-> (c ++ d).code, prog |-> (c ++ d).prog, err |-> (c ++ d).err]
  BY DEF ++, Piece
<1>3. c ++ d \in Pieces
  <2>1. c.code \o d.code \in Seq(Byte)
    BY <1>1, ConcatProperties
  <2>2. c.prog \o d.prog \in Seq(CallEntries)
    BY <1>1, ConcatProperties
  <2> QED
    BY <1>1, <1>2, <2>1, <2>2 DEF Pieces
<1>4. ASSUME NEW b \in Seq(Byte), NEW j, NEW l, NEW p, LaidOut(b, j, l, p)
      PROVE  LaidOut(b \o (c.code \o d.code), j, l, p \o (c.prog \o d.prog))
  <2>1. LaidOut(b \o c.code, j, l, p \o c.prog)
    BY <1>4 DEF Whole
  <2>2. b \o c.code \in Seq(Byte)
    BY <1>1, ConcatProperties
  <2>3. LaidOut((b \o c.code) \o d.code, j, l, (p \o c.prog) \o d.prog)
    BY <2>1, <2>2 DEF Whole
  <2>4. (b \o c.code) \o d.code = b \o (c.code \o d.code)
    BY <1>1, BytesAssociate, Zenon
  <2>5. p \in Seq(Written)
    BY <1>4 DEF LaidOut
  <2>6. c.prog \in Seq(Written) /\ d.prog \in Seq(Written)
    <3>1. CallEntries \subseteq Written
      BY DEF CallEntries
    <3> QED
      BY <1>1, <3>1
  <2>7. (p \o c.prog) \o d.prog = p \o (c.prog \o d.prog)
    BY <2>5, <2>6, EntriesAssociate, Zenon
  <2> QED
    BY <2>3, <2>4, <2>7
<1>5. QED
  BY <1>2, <1>3, <1>4 DEF Whole, Fine
-----------------------------------------------------------------------------
(* The instructions that the calling helpers write.                          *)

CallOpcodes == {PUSH, EXTCALL, SWITCH, CTX, PUT}

LEMMA CallOpcodeFacts ==
    /\ \A op \in CallOpcodes \cup {CAST} :
         op \in Byte /\ ~HasTarget(op) /\ op # LOAD /\ op # RET
    /\ CAST \notin CallOpcodes
    /\ \A op \in {PUSH, EXTCALL, SWITCH} : OperandCount(op) = 1
    /\ OperandCount(CTX) = 2 /\ OperandCount(CAST) = 3 /\ OperandCount(PUT) = 3
    /\ LOAD \in Byte /\ ~HasTarget(LOAD) /\ OperandCount(LOAD) = 2 /\ LOAD # RET
    /\ VMTypeString \in Byte /\ VMTypeNumber \in Byte /\ VMTypeNone \in Byte
    /\ VMTypeTimestamp \in Byte
  BY DEF CallOpcodes, HasTarget, JumpOpcodes, OperandCount, Byte, PUSH, EXTCALL,
         SWITCH, CTX, PUT, CAST, LOAD, RET, JMP, JMPIF, JMPNOT, CALL, POP, THROW,
         MOVE, COPY, VMTypeString, VMTypeNumber, VMTypeNone, VMTypeTimestamp

File == 0..(MAX_REGISTER_COUNT - 1)

\* The registers are bytes, and there are at least three.
LEMMA FileFacts ==
    /\ MAX_REGISTER_COUNT \in Nat /\ MAX_REGISTER_COUNT >= 3
    /\ File \subseteq Byte /\ 0 \in File /\ 1 \in File
    /\ \A r \in File : r \in Nat
  BY BuilderAssumption DEF File, Byte

\* An instruction of registers, and the cast of an array's register.
LEMMA OpWhole ==
    ASSUME NEW op \in CallOpcodes \cup {CAST}, NEW args \in Seq(Byte),
           Len(args) = OperandCount(op),
           \A k \in 1..Len(args) : args[k] \in File \/ (op = CAST /\ k = 3)
    PROVE  /\ Whole(Op(op, args))
           /\ Op(op, args).prog = <<Instr(op, args, <<>>)>> /\ Fine(Op(op, args))
<1>1. op \in Byte /\ ~HasTarget(op) /\ op # LOAD /\ op # RET
  BY CallOpcodeFacts
<1>2. PICK e : e = Instr(op, args, <<>>)
  OBVIOUS
<1>3. /\ e \in Written /\ e.mark = <<>> /\ e.goto = <<>>
      /\ Opening(e) = <<op>> \o args /\ Rest(e) = <<>>
  <2>1. <<>> \in Seq(Byte) /\ ~TooLong(<<>>)
    BY BaseAssumption DEF TooLong, U16Max
  <2> QED
    BY <1>1, <1>2, <2>1, PlainWritten
<1>4. e.op = op /\ e.args = args
  BY <1>2 DEF Instr
<1>5. NamedRegisters(e) \subseteq File
  <2>1. CASE op = CAST
    <3>1. 1 \in 1..Len(args) /\ 2 \in 1..Len(args)
      BY <2>1, CallOpcodeFacts
    <3>2. args[1] \in File /\ args[2] \in File
      BY <3>1
    <3>3. NamedRegisters(e) = {args[1], args[2]}
      BY <1>1, <1>4, <2>1 DEF NamedRegisters
    <3> QED
      BY <3>2, <3>3
  <2>2. CASE op # CAST
    <3>1. NamedRegisters(e) = {args[k] : k \in 1..Len(args)}
      BY <1>1, <1>4, <2>2 DEF NamedRegisters
    <3> QED
      BY <2>2, <3>1
  <2> QED
    BY <2>1, <2>2
<1>6. e \in CallEntries
  BY <1>1, <1>3, <1>4, <1>5 DEF CallEntries, File
<1>7. Encoding(e) = <<op>> \o args
  <2>1. <<op>> \o args \in Seq(Byte)
    BY <1>1, ConcatProperties
  <2> QED
    BY <1>3, <2>1, ConcatEmptySeq DEF Encoding
<1>8. Op(op, args) = [code |-> Encoding(e), prog |-> <<e>>, err |-> NoError]
  <2>1. Op(op, args) = [code |-> <<op>> \o args, prog |-> <<Instr(op, args, <<>>)>>,
                        err |-> NoError]
    BY DEF Op, Piece
  <2> QED
    BY <1>2, <1>7, <2>1
<1>9. QED
  BY <1>2, <1>6, <1>8, EntryWhole DEF Fine

\* Data loaded into a register, or refused because it is too long.
LEMMA LoadWhole ==
    ASSUME NEW reg \in File, NEW type \in Byte, NEW data \in Seq(Byte)
    PROVE  /\ Whole(Load(reg, type, data))
           /\ Fine(Load(reg, type, data)) <=> ~TooLong(data)
           /\ ~TooLong(data) => Load(reg, type, data).prog = <<Instr(LOAD, <<reg, type>>, data)>>
<1>1. CASE TooLong(data)
  <2>1. Load(reg, type, data) = Failing("load too long")
    BY <1>1 DEF Load
  <2>2. "load too long" \in Errors \cup {NoError} /\ NoError # "load too long"
    BY DEF Errors, NoError
  <2>3. Failing("load too long").err = "load too long"
    BY DEF Failing, Piece
  <2> QED
    BY <1>1, <2>1, <2>2, <2>3, NothingWhole DEF Fine
<1>2. CASE ~TooLong(data)
  <2>1. reg \in Byte
    BY FileFacts
  <2>2. PICK e : e = Instr(LOAD, <<reg, type>>, data)
    OBVIOUS
  <2>3. /\ e \in Written
        /\ Encoding(e) = <<LOAD, reg, type>> \o (VarUint(Len(data)) \o data)
    BY <1>2, <2>1, <2>2, ShortEncodings, Zenon
  <2>4. /\ e.op = LOAD /\ e.args = <<reg, type>> /\ e.mark = <<>> /\ e.goto = <<>>
    BY <2>2 DEF Instr
  <2>5. NamedRegisters(e) = {reg}
    <3>1. e.args[1] = reg
      BY <2>4
    <3>2. NamedRegisters(e) = {e.args[1]}
      BY <2>4, CallOpcodeFacts DEF NamedRegisters, LOAD, CAST
    <3> QED
      BY <3>1, <3>2
  <2>6. e \in CallEntries
    BY <2>3, <2>4, <2>5, CallOpcodeFacts DEF CallEntries, File
  <2>7. <<LOAD, reg, type>> \o VarUint(Len(data)) \o data
          = <<LOAD, reg, type>> \o (VarUint(Len(data)) \o data)
    <3>1. Len(data) \in 0..U16Max
      BY <1>2, BaseAssumption DEF TooLong, U16Max
    <3>2. VarUint(Len(data)) \in Seq(Byte)
      BY <3>1, VarUintType
    <3>3. <<LOAD, reg, type>> \in Seq(Byte)
      BY <2>1, OpcodesAreBytes
    <3> QED
      BY <3>2, <3>3, BytesAssociate, Zenon
  <2>8. Load(reg, type, data) = [code |-> Encoding(e), prog |-> <<e>>, err |-> NoError]
    <3>1. Load(reg, type, data)
            = [code |-> <<LOAD, reg, type>> \o VarUint(Len(data)) \o data,
               prog |-> <<Instr(LOAD, <<reg, type>>, data)>>, err |-> NoError]
      BY <1>2 DEF Load, Piece
    <3> QED
      BY <2>2, <2>3, <2>7, <3>1
  <2> QED
    BY <1>2, <2>2, <2>6, <2>8, EntryWhole DEF Fine
<1>3. QED
  BY <1>1, <1>2
-----------------------------------------------------------------------------
(* What the recursive definitions say.  Each is a function whose value at one *)
(* place depends on places nearer to an end; that it exists is shown by       *)
(* approaching it: the functions that are right up to m places from the end.  *)

\* The loop over an array: the cast, then each item, its index and the PUT.
Put(reg, before, item, n) ==
    before ++ item ++ Load(reg + 2, VMTypeNumber, NumberBytes(n - 1))
           ++ Op(PUT, <<reg + 1, reg, reg + 2>>)

Turns(reg, count, items, u) ==
    /\ ArrayCode(reg, count, items) = u[count]
    /\ u[0] = Op(CAST, <<reg, reg, VMTypeNone>>)
    /\ \A n \in 1..count : u[n] = Put(reg, u[n - 1], items[n], n)

LEMMA ArraySteps ==
    ASSUME NEW reg, NEW count \in Nat, NEW items
    PROVE  \E u : Turns(reg, count, items, u)
<1> DEFINE value(n, u) == IF n = 0 THEN Op(CAST, <<reg, reg, VMTypeNone>>)
                          ELSE Put(reg, u[n - 1], items[n], n)
           right(m, u) == \A n \in 0..count : n <= m => u[n] = value(n, u)
           S == {m \in Nat : \E u : right(m, u)}
<1>1. 0 \in S
  <2> DEFINE u == [n \in 0..count |-> value(n, <<>>)]
  <2>1. ASSUME NEW n \in 0..count, n <= 0 PROVE u[n] = value(n, u)
    <3>1. n = 0
      BY <2>1
    <3> QED
      BY <3>1
  <2> QED
    BY <2>1
<1>2. ASSUME NEW m \in Nat, m \in S PROVE m + 1 \in S
  <2>1. PICK u : right(m, u)
    BY <1>2
  <2>2. PICK h : h = [n \in 0..count |-> value(n, u)]
    OBVIOUS
  <2>3. ASSUME NEW n \in 0..count, n <= m + 1 PROVE h[n] = value(n, h)
    <3>1. h[n] = value(n, u)
      BY <2>2, Zenon
    <3>2. CASE n = 0
      BY <3>1, <3>2
    <3>3. CASE n # 0
      <4>1. n - 1 \in 0..count /\ n - 1 <= m
        BY <2>3, <3>3
      <4>2. h[n - 1] = value(n - 1, u) /\ u[n - 1] = value(n - 1, u)
        BY <2>1, <2>2, <4>1, Zenon
      <4>3. value(n, u) = value(n, h)
        BY <4>2, Zenon
      <4> QED
        BY <3>1, <4>3, Zenon
    <3> QED
      BY <3>2, <3>3
  <2>4. right(m + 1, h)
    BY <2>3
  <2> QED
    BY <2>4
<1>3. PICK u : right(count, u)
  <2>1. Nat \subseteq S
    <3> HIDE DEF S
    <3> QED
      BY <1>1, <1>2, NumberInduction
  <2> QED
    BY <2>1
<1>4. PICK g : g = [n \in 0..count |-> value(n, u)]
  OBVIOUS
<1>5. \A n \in 0..count : g[n] = u[n] /\ n <= count
  BY <1>3, <1>4
<1>6. g = [n \in 0..count |-> value(n, g)]
  <2>1. ASSUME NEW n \in 0..count PROVE value(n, u) = value(n, g)
    <3>1. n # 0 => n - 1 \in 0..count
      OBVIOUS
    <3> QED
      BY <1>5, <3>1, Zenon
  <2> QED
    BY <1>4, <2>1, Zenon
<1>7. \E f : /\ f = [n \in 0..count |-> value(n, f)]
             /\ ArrayCode(reg, count, items) = f[count]
  <2>1. \E f : f = [n \in 0..count |-> value(n, f)]
    BY <1>6, Zenon
  <2> QED
    BY <2>1, Zenon DEF ArrayCode, Put
<1>8. QED
  <2>1. PICK f : /\ f = [n \in 0..count |-> value(n, f)]
                 /\ ArrayCode(reg, count, items) = f[count]
    BY <1>7, Zenon
  <2>2. \A n \in 0..count : f[n] = value(n, f)
    BY <2>1, Zenon
  <2>3. f[0] = Op(CAST, <<reg, reg, VMTypeNone>>)
    BY <2>2
  <2>4. \A n \in 1..count : f[n] = Put(reg, f[n - 1], items[n], n)
    <3>1. ASSUME NEW n \in 1..count PROVE f[n] = Put(reg, f[n - 1], items[n], n)
      <4>1. n \in 0..count /\ n # 0
        OBVIOUS
      <4> QED
        BY <2>2, <4>1, Zenon
    <3> QED
      BY <3>1, Zenon
  <2> QED
    BY <2>1, <2>3, <2>4, Zenon DEF Turns

\* The arguments of a call, the last one first.
Push(args, before, n) ==
    before ++ LoadIntoRegister(0, args[Len(args) + 1 - n]) ++ Op(PUSH, <<0>>)

LEMMA MethodArgsSteps ==
    ASSUME NEW args, Len(args) \in Nat
    PROVE  \E u : /\ InsertMethodArgs(args) = u[Len(args)]
                  /\ u[0] = Nothing
                  /\ \A n \in 1..Len(args) : u[n] = Push(args, u[n - 1], n)
<1> DEFINE value(n, u) == IF n = 0 THEN Nothing
                          ELSE Push(args, u[n - 1], n)
           right(m, u) == \A n \in 0..Len(args) : n <= m => u[n] = value(n, u)
           S == {m \in Nat : \E u : right(m, u)}
<1>1. 0 \in S
  <2> DEFINE u == [n \in 0..Len(args) |-> value(n, <<>>)]
  <2>1. ASSUME NEW n \in 0..Len(args), n <= 0 PROVE u[n] = value(n, u)
    <3>1. n = 0
      BY <2>1
    <3> QED
      BY <3>1
  <2> QED
    BY <2>1
<1>2. ASSUME NEW m \in Nat, m \in S PROVE m + 1 \in S
  <2>1. PICK u : right(m, u)
    BY <1>2
  <2>2. PICK h : h = [n \in 0..Len(args) |-> value(n, u)]
    OBVIOUS
  <2>3. ASSUME NEW n \in 0..Len(args), n <= m + 1 PROVE h[n] = value(n, h)
    <3>1. h[n] = value(n, u)
      BY <2>2, Zenon
    <3>2. CASE n = 0
      BY <3>1, <3>2
    <3>3. CASE n # 0
      <4>1. n - 1 \in 0..Len(args) /\ n - 1 <= m
        BY <2>3, <3>3
      <4>2. h[n - 1] = value(n - 1, u) /\ u[n - 1] = value(n - 1, u)
        BY <2>1, <2>2, <4>1, Zenon
      <4>3. value(n, u) = value(n, h)
        BY <4>2, Zenon
      <4> QED
        BY <3>1, <4>3, Zenon
    <3> QED
      BY <3>2, <3>3
  <2>4. right(m + 1, h)
    BY <2>3
  <2> QED
    BY <2>4
<1>3. PICK u : right(Len(args), u)
  <2>1. Nat \subseteq S
    <3> HIDE DEF S
    <3> QED
      BY <1>1, <1>2, NumberInduction
  <2> QED
    BY <2>1
<1>4. PICK g : g = [n \in 0..Len(args) |-> value(n, u)]
  OBVIOUS
<1>5. \A n \in 0..Len(args) : g[n] = u[n] /\ n <= Len(args)
  BY <1>3, <1>4
<1>6. g = [n \in 0..Len(args) |-> value(n, g)]
  <2>1. ASSUME NEW n \in 0..Len(args) PROVE value(n, u) = value(n, g)
    <3>1. n # 0 => n - 1 \in 0..Len(args)
      OBVIOUS
    <3> QED
      BY <1>5, <3>1, Zenon
  <2> QED
    BY <1>4, <2>1, Zenon
<1>7. \E f : /\ f = [n \in 0..Len(args) |-> value(n, f)]
             /\ InsertMethodArgs(args) = f[Len(args)]
  <2>1. \E f : f = [n \in 0..Len(args) |-> value(n, f)]
    BY <1>6, Zenon
  <2> QED
    BY <2>1, Zenon DEF InsertMethodArgs, Push
<1>8. QED
  <2>1. PICK f : /\ f = [n \in 0..Len(args) |-> value(n, f)]
                 /\ InsertMethodArgs(args) = f[Len(args)]
    BY <1>7, Zenon
  <2>2. \A n \in 0..Len(args) : f[n] = value(n, f)
    BY <2>1, Zenon
  <2>3. f[0] = Nothing
    BY <2>2
  <2>4. \A n \in 1..Len(args) : f[n] = Push(args, f[n - 1], n)
    <3>1. ASSUME NEW n \in 1..Len(args) PROVE f[n] = Push(args, f[n - 1], n)
      <4>1. n \in 0..Len(args) /\ n # 0
        OBVIOUS
      <4> QED
        BY <2>2, <4>1, Zenon
    <3> QED
      BY <3>1, Zenon
  <2> QED
    BY <2>1, <2>3, <2>4, Zenon

\* A run, instruction by instruction.
LEMMA RunSteps ==
    ASSUME NEW vm, NEW code, Len(code) \in Nat
    PROVE  \E u : /\ Run(vm, code) = u[Len(code)]
                  /\ u[0] = vm
                  /\ \A n \in 1..Len(code) : u[n] = Step(u[n - 1], code[n])
<1> DEFINE value(n, u) == IF n = 0 THEN vm
                          ELSE Step(u[n - 1], code[n])
           right(m, u) == \A n \in 0..Len(code) : n <= m => u[n] = value(n, u)
           S == {m \in Nat : \E u : right(m, u)}
<1>1. 0 \in S
  <2> DEFINE u == [n \in 0..Len(code) |-> value(n, <<>>)]
  <2>1. ASSUME NEW n \in 0..Len(code), n <= 0 PROVE u[n] = value(n, u)
    <3>1. n = 0
      BY <2>1
    <3> QED
      BY <3>1
  <2> QED
    BY <2>1
<1>2. ASSUME NEW m \in Nat, m \in S PROVE m + 1 \in S
  <2>1. PICK u : right(m, u)
    BY <1>2
  <2>2. PICK h : h = [n \in 0..Len(code) |-> value(n, u)]
    OBVIOUS
  <2>3. ASSUME NEW n \in 0..Len(code), n <= m + 1 PROVE h[n] = value(n, h)
    <3>1. h[n] = value(n, u)
      BY <2>2, Zenon
    <3>2. CASE n = 0
      BY <3>1, <3>2
    <3>3. CASE n # 0
      <4>1. n - 1 \in 0..Len(code) /\ n - 1 <= m
        BY <2>3, <3>3
      <4>2. h[n - 1] = value(n - 1, u) /\ u[n - 1] = value(n - 1, u)
        BY <2>1, <2>2, <4>1, Zenon
      <4>3. value(n, u) = value(n, h)
        BY <4>2, Zenon
      <4> QED
        BY <3>1, <4>3, Zenon
    <3> QED
      BY <3>2, <3>3
  <2>4. right(m + 1, h)
    BY <2>3
  <2> QED
    BY <2>4
<1>3. PICK u : right(Len(code), u)
  <2>1. Nat \subseteq S
    <3> HIDE DEF S
    <3> QED
      BY <1>1, <1>2, NumberInduction
  <2> QED
    BY <2>1
<1>4. PICK g : g = [n \in 0..Len(code) |-> value(n, u)]
  OBVIOUS
<1>5. \A n \in 0..Len(code) : g[n] = u[n] /\ n <= Len(code)
  BY <1>3, <1>4
<1>6. g = [n \in 0..Len(code) |-> value(n, g)]
  <2>1. ASSUME NEW n \in 0..Len(code) PROVE value(n, u) = value(n, g)
    <3>1. n # 0 => n - 1 \in 0..Len(code)
      OBVIOUS
    <3> QED
      BY <1>5, <3>1, Zenon
  <2> QED
    BY <1>4, <2>1, Zenon
<1>7. \E f : /\ f = [n \in 0..Len(code) |-> value(n, f)]
             /\ Run(vm, code) = f[Len(code)]
  <2>1. \E f : f = [n \in 0..Len(code) |-> value(n, f)]
    BY <1>6, Zenon
  <2> QED
    BY <2>1, Zenon DEF Run
<1>8. QED
  <2>1. PICK f : /\ f = [n \in 0..Len(code) |-> value(n, f)]
                 /\ Run(vm, code) = f[Len(code)]
    BY <1>7, Zenon
  <2>2. \A n \in 0..Len(code) : f[n] = value(n, f)
    BY <2>1, Zenon
  <2>3. f[0] = vm
    BY <2>2
  <2>4. \A n \in 1..Len(code) : f[n] = Step(f[n - 1], code[n])
    <3>1. ASSUME NEW n \in 1..Len(code) PROVE f[n] = Step(f[n - 1], code[n])
      <4>1. n \in 0..Len(code) /\ n # 0
        OBVIOUS
      <4> QED
        BY <2>2, <4>1, Zenon
    <3> QED
      BY <3>1, Zenon
  <2> QED
    BY <2>1, <2>3, <2>4, Zenon

-----------------------------------------------------------------------------
(* Arguments, and the registers they are loaded into.                        *)

Kinds == {"bad", "data", "time", "list"}

\* An argument inside an array is a place one register higher.
LEMMA PlaceFacts ==
    ASSUME NEW p \in Places
    PROVE  /\ p[1] \in File /\ p[1] \in Nat /\ p[2] \in Arguments /\ p[2].kind \in Kinds
           /\ p = <<p[1], p[2]>>
           /\ p[2].kind = "data" => p[2].type \in Byte /\ p[2].data \in Seq(Byte)
           /\ p[2].kind = "time" => p[2].at \in Int
           /\ p[2].kind = "list" =>
                /\ p[2].items \in Seq(Arguments) /\ Len(p[2].items) \in Nat
                /\ 2 * Len(p[2].items) <= Base * Base
                /\ p[1] <= LastArrayRegister =>
                     \A i \in 1..Len(p[2].items) : <<p[1] + 1, p[2].items[i]>> \in Places
<1>1. p[1] \in File /\ p[2] \in Arguments /\ p = <<p[1], p[2]>>
  BY DEF Places, File
<1>2. p[1] \in Nat
  BY <1>1, FileFacts
<1>3. /\ p[2].kind \in Kinds
      /\ p[2].kind = "data" => p[2].type \in Byte /\ p[2].data \in Seq(Byte)
      /\ p[2].kind = "time" => p[2].at \in Int
      /\ p[2].kind = "list" => /\ p[2].items \in Seq(Arguments)
                               /\ 2 * Len(p[2].items) <= Base * Base
  BY <1>1, CallsAssumption DEF Kinds
<1>4. ASSUME p[2].kind = "list", p[1] <= LastArrayRegister,
             NEW i \in 1..Len(p[2].items)
      PROVE  <<p[1] + 1, p[2].items[i]>> \in Places
  <2>1. p[2].items[i] \in Arguments
    BY <1>3, <1>4
  <2>2. p[1] + 1 \in File
    BY <1>2, <1>4, FileFacts DEF File, LastArrayRegister
  <2> QED
    BY <2>1, <2>2 DEF Places, File
<1>5. p[2].kind = "list" => Len(p[2].items) \in Nat
  BY <1>3
<1>6. QED
  BY <1>1, <1>2, <1>3, <1>4, <1>5

\* What is written for an argument, given what is written for those inside it.
LoadBody(p, g) ==
    LET r == p[1]
        v == p[2]
    IN  IF v.kind # "list" THEN LoadScalar(r, v)
        ELSE IF r > LastArrayRegister THEN Failing("bad argument")
        ELSE ArrayCode(r, Len(v.items),
                       [n \in 1..Len(v.items) |-> g[<<r + 1, v.items[n]>>]])

\* What is written for each.
Loaded == CHOOSE f : f = [p \in Places |-> LoadBody(p, f)]

LEMMA LoadedLocal ==
    ASSUME NEW p \in Places, NEW g, NEW h, \A q \in Places : q[1] > p[1] => g[q] = h[q]
    PROVE  LoadBody(p, g) = LoadBody(p, h)
<1>1. ASSUME p[2].kind = "list", p[1] <= LastArrayRegister,
             NEW i \in 1..Len(p[2].items)
      PROVE  g[<<p[1] + 1, p[2].items[i]>>] = h[<<p[1] + 1, p[2].items[i]>>]
  <2>1. PICK q \in Places : q = <<p[1] + 1, p[2].items[i]>>
    BY <1>1, PlaceFacts, Zenon
  <2>2. q[1] > p[1]
    BY <2>1, PlaceFacts
  <2> QED
    BY <2>1, <2>2
<1>2. ASSUME p[2].kind = "list", p[1] <= LastArrayRegister
      PROVE  [i \in 1..Len(p[2].items) |-> g[<<p[1] + 1, p[2].items[i]>>]]
               = [i \in 1..Len(p[2].items) |-> h[<<p[1] + 1, p[2].items[i]>>]]
  BY <1>1, <1>2, Zenon
<1>3. p[1] > LastArrayRegister <=> ~(p[1] <= LastArrayRegister)
  BY PlaceFacts, FileFacts DEF LastArrayRegister
<1>4. CASE p[2].kind = "list" /\ p[1] <= LastArrayRegister
  BY <1>2, <1>3, <1>4, Zenon DEF LoadBody
<1>5. CASE ~(p[2].kind = "list" /\ p[1] <= LastArrayRegister)
  BY <1>3, <1>5, Zenon DEF LoadBody
<1>6. QED
  BY <1>4, <1>5, Zenon

LEMMA LoadedIs ==
    /\ \A p \in Places : Loaded[p] = LoadBody(p, Loaded)
    /\ \A reg, arg : LoadIntoRegister(reg, arg) = Loaded[<<reg, arg>>]
<1> DEFINE right(m, g) ==
             \A p \in Places : MAX_REGISTER_COUNT - m <= p[1] => g[p] = LoadBody(p, g)
           S == {m \in Nat : \E g : right(m, g)}
<1>1. 0 \in S
  <2> DEFINE g == [p \in Places |-> 0]
  <2>1. ASSUME NEW p \in Places PROVE ~(MAX_REGISTER_COUNT - 0 <= p[1])
    BY PlaceFacts, FileFacts DEF File
  <2>2. right(0, g)
    BY <2>1, Zenon
  <2> QED
    BY <2>2
<1>2. ASSUME NEW m \in Nat, m \in S PROVE m + 1 \in S
  <2>1. PICK g : right(m, g)
    BY <1>2
  <2>2. PICK h : h = [p \in Places |-> LoadBody(p, g)]
    OBVIOUS
  <2>3. ASSUME NEW p \in Places, MAX_REGISTER_COUNT - (m + 1) <= p[1]
        PROVE  h[p] = LoadBody(p, h)
    <3>1. ASSUME NEW q \in Places, q[1] > p[1] PROVE g[q] = h[q]
      <4>1. MAX_REGISTER_COUNT - m <= q[1]
        BY <2>3, <3>1, PlaceFacts, FileFacts
      <4> QED
        BY <2>1, <2>2, <4>1, Zenon
    <3>2. LoadBody(p, g) = LoadBody(p, h)
      BY <3>1, LoadedLocal
    <3> QED
      BY <2>2, <3>2, Zenon
  <2>4. right(m + 1, h)
    BY <2>3
  <2> QED
    BY <2>4
<1>3. PICK u : right(MAX_REGISTER_COUNT, u)
  <2>1. Nat \subseteq S
    <3> HIDE DEF S
    <3> QED
      BY <1>1, <1>2, NumberInduction
  <2> QED
    BY <2>1, FileFacts
<1>4. PICK g : g = [p \in Places |-> LoadBody(p, u)]
  OBVIOUS
<1>5. ASSUME NEW p \in Places PROVE g[p] = u[p]
  <2>1. MAX_REGISTER_COUNT - MAX_REGISTER_COUNT <= p[1]
    BY PlaceFacts, FileFacts
  <2> QED
    BY <1>3, <1>4, <2>1, Zenon
<1>6. g = [p \in Places |-> LoadBody(p, g)]
  <2>1. ASSUME NEW p \in Places PROVE LoadBody(p, u) = LoadBody(p, g)
    BY <1>5, LoadedLocal
  <2> QED
    BY <1>4, <2>1, Zenon
<1>7. Loaded = [p \in Places |-> LoadBody(p, Loaded)]
  <2>1. \E f : f = [p \in Places |-> LoadBody(p, f)]
    BY <1>6, Zenon
  <2> QED
    BY <2>1, Zenon DEF Loaded
<1>8. \A reg, arg : LoadIntoRegister(reg, arg) = Loaded[<<reg, arg>>]
  BY Zenon DEF LoadIntoRegister, Loaded, LoadBody
<1>9. QED
  BY <1>7, <1>8, Zenon

\* The value of an argument, given the values of those inside it.
DenoteBody(p, g) ==
    LET v == p[2]
    IN  IF v.kind # "list" THEN DenoteScalar(v)
        ELSE IF v.items = <<>> \/ p[1] > LastArrayRegister THEN Unset
        ELSE Struct({<<i - 1, g[<<p[1] + 1, v.items[i]>>]>> :
                       i \in 1..Len(v.items)})

\* The value of each.
Denoted == CHOOSE f : f = [p \in Places |-> DenoteBody(p, f)]

LEMMA DenotedLocal ==
    ASSUME NEW p \in Places, NEW g, NEW h, \A q \in Places : q[1] > p[1] => g[q] = h[q]
    PROVE  DenoteBody(p, g) = DenoteBody(p, h)
<1>1. ASSUME p[2].kind = "list", p[1] <= LastArrayRegister,
             NEW i \in 1..Len(p[2].items)
      PROVE  g[<<p[1] + 1, p[2].items[i]>>] = h[<<p[1] + 1, p[2].items[i]>>]
  <2>1. PICK q \in Places : q = <<p[1] + 1, p[2].items[i]>>
    BY <1>1, PlaceFacts, Zenon
  <2>2. q[1] > p[1]
    BY <2>1, PlaceFacts
  <2> QED
    BY <2>1, <2>2
<1>2. ASSUME p[2].kind = "list", p[1] <= LastArrayRegister
      PROVE  {<<i - 1, g[<<p[1] + 1, p[2].items[i]>>]>> : i \in 1..Len(p[2].items)}
               = {<<i - 1, h[<<p[1] + 1, p[2].items[i]>>]>> : i \in 1..Len(p[2].items)}
  BY <1>1, <1>2, Zenon
<1>3. p[1] > LastArrayRegister <=> ~(p[1] <= LastArrayRegister)
  BY PlaceFacts, FileFacts DEF LastArrayRegister
<1>4. CASE p[2].kind = "list" /\ p[1] <= LastArrayRegister
  BY <1>2, <1>3, <1>4, Zenon DEF DenoteBody
<1>5. CASE ~(p[2].kind = "list" /\ p[1] <= LastArrayRegister)
  BY <1>3, <1>5, Zenon DEF DenoteBody
<1>6. QED
  BY <1>4, <1>5, Zenon

LEMMA DenotedIs ==
    /\ \A p \in Places : Denoted[p] = DenoteBody(p, Denoted)
    /\ \A arg : Denote(arg) = Denoted[<<0, arg>>]
<1> DEFINE right(m, g) ==
             \A p \in Places : MAX_REGISTER_COUNT - m <= p[1] => g[p] = DenoteBody(p, g)
           S == {m \in Nat : \E g : right(m, g)}
<1>1. 0 \in S
  <2> DEFINE g == [p \in Places |-> 0]
  <2>1. ASSUME NEW p \in Places PROVE ~(MAX_REGISTER_COUNT - 0 <= p[1])
    BY PlaceFacts, FileFacts DEF File
  <2>2. right(0, g)
    BY <2>1, Zenon
  <2> QED
    BY <2>2
<1>2. ASSUME NEW m \in Nat, m \in S PROVE m + 1 \in S
  <2>1. PICK g : right(m, g)
    BY <1>2
  <2>2. PICK h : h = [p \in Places |-> DenoteBody(p, g)]
    OBVIOUS
  <2>3. ASSUME NEW p \in Places, MAX_REGISTER_COUNT - (m + 1) <= p[1]
        PROVE  h[p] = DenoteBody(p, h)
    <3>1. ASSUME NEW q \in Places, q[1] > p[1] PROVE g[q] = h[q]
      <4>1. MAX_REGISTER_COUNT - m <= q[1]
        BY <2>3, <3>1, PlaceFacts, FileFacts
      <4> QED
        BY <2>1, <2>2, <4>1, Zenon
    <3>2. DenoteBody(p, g) = DenoteBody(p, h)
      BY <3>1, DenotedLocal
    <3> QED
      BY <2>2, <3>2, Zenon
  <2>4. right(m + 1, h)
    BY <2>3
  <2> QED
    BY <2>4
<1>3. PICK u : right(MAX_REGISTER_COUNT, u)
  <2>1. Nat \subseteq S
    <3> HIDE DEF S
    <3> QED
      BY <1>1, <1>2, NumberInduction
  <2> QED
    BY <2>1, FileFacts
<1>4. PICK g : g = [p \in Places |-> DenoteBody(p, u)]
  OBVIOUS
<1>5. ASSUME NEW p \in Places PROVE g[p] = u[p]
  <2>1. MAX_REGISTER_COUNT - MAX_REGISTER_COUNT <= p[1]
    BY PlaceFacts, FileFacts
  <2> QED
    BY <1>3, <1>4, <2>1, Zenon
<1>6. g = [p \in Places |-> DenoteBody(p, g)]
  <2>1. ASSUME NEW p \in Places PROVE DenoteBody(p, u) = DenoteBody(p, g)
    BY <1>5, DenotedLocal
  <2> QED
    BY <1>4, <2>1, Zenon
<1>7. Denoted = [p \in Places |-> DenoteBody(p, Denoted)]
  <2>1. \E f : f = [p \in Places |-> DenoteBody(p, f)]
    BY <1>6, Zenon
  <2> QED
    BY <2>1, Zenon DEF Denoted
<1>8. \A arg : Denote(arg) = Denoted[<<0, arg>>]
  BY Zenon DEF Denote, Denoted, DenoteBody
<1>9. QED
  BY <1>7, <1>8, Zenon

\* Whether an argument can be loaded, given whether those inside it can.
FitsBody(p, g) ==
    LET v == p[2]
    IN  IF v.kind # "list" THEN LoadableScalar(v)
        ELSE /\ p[1] + 3 <= MAX_REGISTER_COUNT
             /\ \A i \in 1..Len(v.items) : g[<<p[1] + 1, v.items[i]>>]

\* Whether each can.
Fitting == CHOOSE f : f = [p \in Places |-> FitsBody(p, f)]

LEMMA FittingLocal ==
    ASSUME NEW p \in Places, NEW g, NEW h, \A q \in Places : q[1] > p[1] => g[q] = h[q]
    PROVE  FitsBody(p, g) = FitsBody(p, h)
<1>1. ASSUME p[2].kind = "list", p[1] <= LastArrayRegister,
             NEW i \in 1..Len(p[2].items)
      PROVE  g[<<p[1] + 1, p[2].items[i]>>] = h[<<p[1] + 1, p[2].items[i]>>]
  <2>1. PICK q \in Places : q = <<p[1] + 1, p[2].items[i]>>
    BY <1>1, PlaceFacts, Zenon
  <2>2. q[1] > p[1]
    BY <2>1, PlaceFacts
  <2> QED
    BY <2>1, <2>2
<1>2. ASSUME p[2].kind = "list", p[1] + 3 <= MAX_REGISTER_COUNT
      PROVE  (\A i \in 1..Len(p[2].items) : g[<<p[1] + 1, p[2].items[i]>>])
               <=> \A i \in 1..Len(p[2].items) : h[<<p[1] + 1, p[2].items[i]>>]
  <2>1. p[1] <= LastArrayRegister
    BY <1>2, PlaceFacts, FileFacts DEF LastArrayRegister
  <2> QED
    BY <1>1, <1>2, <2>1, Zenon
<1>4. CASE p[2].kind = "list" /\ p[1] + 3 <= MAX_REGISTER_COUNT
  BY <1>2, <1>4, Zenon DEF FitsBody
<1>5. CASE ~(p[2].kind = "list" /\ p[1] + 3 <= MAX_REGISTER_COUNT)
  BY <1>5, Zenon DEF FitsBody
<1>6. QED
  BY <1>4, <1>5, Zenon

LEMMA FittingIs ==
    /\ \A p \in Places : Fitting[p] = FitsBody(p, Fitting)
    /\ \A arg : Loadable(arg) = Fitting[<<0, arg>>]
<1> DEFINE right(m, g) ==
             \A p \in Places : MAX_REGISTER_COUNT - m <= p[1] => g[p] = FitsBody(p, g)
           S == {m \in Nat : \E g : right(m, g)}
<1>1. 0 \in S
  <2> DEFINE g == [p \in Places |-> 0]
  <2>1. ASSUME NEW p \in Places PROVE ~(MAX_REGISTER_COUNT - 0 <= p[1])
    BY PlaceFacts, FileFacts DEF File
  <2>2. right(0, g)
    BY <2>1, Zenon
  <2> QED
    BY <2>2
<1>2. ASSUME NEW m \in Nat, m \in S PROVE m + 1 \in S
  <2>1. PICK g : right(m, g)
    BY <1>2
  <2>2. PICK h : h = [p \in Places |-> FitsBody(p, g)]
    OBVIOUS
  <2>3. ASSUME NEW p \in Places, MAX_REGISTER_COUNT - (m + 1) <= p[1]
        PROVE  h[p] = FitsBody(p, h)
    <3>1. ASSUME NEW q \in Places, q[1] > p[1] PROVE g[q] = h[q]
      <4>1. MAX_REGISTER_COUNT - m <= q[1]
        BY <2>3, <3>1, PlaceFacts, FileFacts
      <4> QED
        BY <2>1, <2>2, <4>1, Zenon
    <3>2. FitsBody(p, g) = FitsBody(p, h)
      BY <3>1, FittingLocal
    <3> QED
      BY <2>2, <3>2, Zenon
  <2>4. right(m + 1, h)
    BY <2>3
  <2> QED
    BY <2>4
<1>3. PICK u : right(MAX_REGISTER_COUNT, u)
  <2>1. Nat \subseteq S
    <3> HIDE DEF S
    <3> QED
      BY <1>1, <1>2, NumberInduction
  <2> QED
    BY <2>1, FileFacts
<1>4. PICK g : g = [p \in Places |-> FitsBody(p, u)]
  OBVIOUS
<1>5. ASSUME NEW p \in Places PROVE g[p] = u[p]
  <2>1. MAX_REGISTER_COUNT - MAX_REGISTER_COUNT <= p[1]
    BY PlaceFacts, FileFacts
  <2> QED
    BY <1>3, <1>4, <2>1, Zenon
<1>6. g = [p \in Places |-> FitsBody(p, g)]
  <2>1. ASSUME NEW p \in Places PROVE FitsBody(p, u) = FitsBody(p, g)
    BY <1>5, FittingLocal
  <2> QED
    BY <1>4, <2>1, Zenon
<1>7. Fitting = [p \in Places |-> FitsBody(p, Fitting)]
  <2>1. \E f : f = [p \in Places |-> FitsBody(p, f)]
    BY <1>6, Zenon
  <2> QED
    BY <2>1, Zenon DEF Fitting
<1>8. \A arg : Loadable(arg) = Fitting[<<0, arg>>]
  BY Zenon DEF Loadable, Fitting, FitsBody
<1>9. QED
  BY <1>7, <1>8, Zenon
-----------------------------------------------------------------------------
(* What is written for the arguments of a call is whole, and fails exactly    *)
(* when one of them cannot be loaded.                                         *)

\* An index has room for its sign, and reads back as it was.
LEMMA NumberBytesFacts ==
    ASSUME NEW n \in Nat, 2 * n < Base * Base
    PROVE  /\ NumberBytes(n) \in Seq(Byte) /\ ~TooLong(NumberBytes(n))
           /\ Signed(NumberBytes(n)) = n
<1>1. Base \in Nat /\ Base > 3 /\ Base <= 256
  BY BaseAssumption, BuilderAssumption
<1>2. CASE 2 * n < Base
  <2>1. NumberBytes(n) = <<n>> /\ n \in Byte
    BY <1>1, <1>2 DEF NumberBytes, Byte
  <2>2. PICK s \in Seq(Byte) : s = <<n>>
    <3>1. <<n>> \in Seq(Byte)
      BY <2>1
    <3> QED
      BY <3>1, Zenon
  <2>3. Len(s) = 1 /\ s[1] = n
    BY <2>2
  <2>4. Signed(s) = n
    BY <1>1, <1>2, <2>3 DEF Signed
  <2>5. ~TooLong(s)
    BY <1>1, <2>3 DEF TooLong, U16Max
  <2> QED
    BY <2>1, <2>2, <2>4, <2>5
<1>3. CASE ~(2 * n < Base)
  <2>1. n \in 0..U16Max
    BY <1>1 DEF U16Max
  <2>2. PICK s \in Seq(Byte) : s = U16(n)
    BY <2>1, U16Type
  <2>3. s[1] + Base * s[2] = n /\ s[1] \in Byte /\ s[2] \in Byte
    BY <2>1, <2>2, U16Type
  <2>4. Len(s) = 2 /\ s[2] = n \div Base
    BY <2>2 DEF U16
  <2>5. 2 * s[2] < Base
    <3>1. PICK q \in Nat : q = s[2]
      BY <2>3, BytesAreNumbers
    <3>2. n >= Base * q
      BY <1>1, <2>3, <3>1, BytesAreNumbers
    <3>3. ASSUME 2 * q >= Base PROVE Base * (2 * q) >= Base * Base
      BY <1>1, <3>1, <3>3
    <3> QED
      BY <1>1, <3>1, <3>2, <3>3
  <2>6. U16At(s, 0) = n
    BY <2>3 DEF U16At
  <2>7. Signed(s) = n
    BY <2>4, <2>5, <2>6 DEF Signed
  <2>8. ~TooLong(s)
    BY <1>1, <2>4 DEF TooLong, U16Max
  <2>9. NumberBytes(n) = s
    BY <1>3, <2>2 DEF NumberBytes
  <2> QED
    BY <2>7, <2>8, <2>9
<1>4. QED
  BY <1>2, <1>3

\* The n-th item of an array in this register.
ItemOf(reg, n) ==
    reg \in File /\ reg <= LastArrayRegister /\ n \in Nat /\ n > 0 /\ 2 * n <= Base * Base

\* Each turn of the loop over an array.
LEMMA PutWhole ==
    ASSUME NEW reg, NEW n, ItemOf(reg, n), NEW before, Whole(before), NEW item, Whole(item)
    PROVE  /\ Whole(Put(reg, before, item, n))
           /\ Fine(Put(reg, before, item, n)) <=> Fine(before) /\ Fine(item)
           /\ Put(reg, before, item, n).prog
                = ((before.prog \o item.prog)
                    \o <<Instr(LOAD, <<reg + 2, VMTypeNumber>>, NumberBytes(n - 1))>>)
                   \o <<Instr(PUT, <<reg + 1, reg, reg + 2>>, <<>>)>>
<1> DEFINE index == Load(reg + 2, VMTypeNumber, NumberBytes(n - 1))
           put == Op(PUT, <<reg + 1, reg, reg + 2>>)
<1>1. reg \in Nat /\ reg \in File /\ reg + 1 \in File /\ reg + 2 \in File
  BY FileFacts DEF File, LastArrayRegister, ItemOf
<1>2. /\ Whole(index) /\ Fine(index)
      /\ index.prog = <<Instr(LOAD, <<reg + 2, VMTypeNumber>>, NumberBytes(n - 1))>>
  <2>1. n - 1 \in Nat /\ 2 * (n - 1) < Base * Base
    BY BaseAssumption DEF ItemOf
  <2>2. NumberBytes(n - 1) \in Seq(Byte) /\ ~TooLong(NumberBytes(n - 1))
    BY <2>1, NumberBytesFacts
  <2> QED
    BY <1>1, <2>2, LoadWhole, CallOpcodeFacts
<1>3. /\ Whole(put) /\ Fine(put)
      /\ put.prog = <<Instr(PUT, <<reg + 1, reg, reg + 2>>, <<>>)>>
  <2>1. PICK args \in Seq(Byte) : args = <<reg + 1, reg, reg + 2>>
    <3>1. reg \in Byte /\ reg + 1 \in Byte /\ reg + 2 \in Byte
      BY <1>1, FileFacts
    <3>2. <<reg + 1, reg, reg + 2>> \in Seq(Byte)
      BY <3>1
    <3> QED
      BY <3>2, Zenon
  <2>2. Len(args) = 3 /\ args[1] \in File /\ args[2] \in File /\ args[3] \in File
    BY <1>1, <2>1
  <2>3. \A k \in 1..Len(args) : args[k] \in File
    BY <2>2
  <2>4. PUT \in CallOpcodes /\ OperandCount(PUT) = 3
    BY CallOpcodeFacts DEF CallOpcodes
  <2> QED
    BY <2>1, <2>2, <2>3, <2>4, OpWhole
<1> HIDE DEF index, put
<1>4. PICK a : a = before ++ item
  OBVIOUS
<1>5. /\ Whole(a) /\ a.prog = before.prog \o item.prog
      /\ Fine(a) <=> Fine(before) /\ Fine(item)
  BY <1>4, ChainedWhole
<1>6. PICK b : b = a ++ index
  OBVIOUS
<1>7. /\ Whole(b) /\ b.prog = a.prog \o index.prog
      /\ Fine(b) <=> Fine(a) /\ Fine(index)
  BY <1>2, <1>5, <1>6, ChainedWhole
<1>8. PICK c : c = b ++ put
  OBVIOUS
<1>9. /\ Whole(c) /\ c.prog = b.prog \o put.prog
      /\ Fine(c) <=> Fine(b) /\ Fine(put)
  BY <1>3, <1>7, <1>8, ChainedWhole
<1>10. Put(reg, before, item, n) = c
  BY <1>4, <1>6, <1>8 DEF Put, index, put
<1>11. QED
  BY <1>2, <1>3, <1>5, <1>7, <1>9, <1>10, Zenon

\* The cast of an array's register.
LEMMA CastWhole ==
    ASSUME NEW reg \in File
    PROVE  LET cast == Op(CAST, <<reg, reg, VMTypeNone>>)
           IN  /\ Whole(cast) /\ Fine(cast)
               /\ cast.prog = <<Instr(CAST, <<reg, reg, VMTypeNone>>, <<>>)>>
<1>1. PICK args \in Seq(Byte) : args = <<reg, reg, VMTypeNone>>
  <2>1. reg \in Byte /\ VMTypeNone \in Byte
    BY FileFacts, CallOpcodeFacts
  <2>2. <<reg, reg, VMTypeNone>> \in Seq(Byte)
    BY <2>1
  <2> QED
    BY <2>2, Zenon
<1>2. Len(args) = 3 /\ args[1] \in File /\ args[2] \in File
  BY <1>1
<1>3. \A k \in 1..Len(args) : args[k] \in File \/ (CAST = CAST /\ k = 3)
  BY <1>2
<1>4. QED
  BY <1>1, <1>2, <1>3, CallOpcodeFacts, OpWhole

LEMMA ArrayWhole ==
    ASSUME NEW reg \in File, reg <= LastArrayRegister, NEW count \in Nat,
           2 * count <= Base * Base, NEW items, \A i \in 1..count : Whole(items[i])
    PROVE  /\ Whole(ArrayCode(reg, count, items))
           /\ Fine(ArrayCode(reg, count, items))
                <=> \A i \in 1..count : Fine(items[i])
<1>1. PICK u : Turns(reg, count, items, u)
  BY ArraySteps
<1> DEFINE right(m) == /\ Whole(u[m])
                       /\ Fine(u[m]) <=> \A i \in 1..m : Fine(items[i])
           S == {m \in Nat : m <= count => right(m)}
<1>2. 0 \in S
  BY <1>1, CastWhole DEF Turns
<1>3. ASSUME NEW m \in Nat, m \in S, m + 1 <= count PROVE right(m + 1)
  <2>1. right(m)
    BY <1>3
  <2>2. PICK n \in 1..count : n = m + 1
    BY <1>3
  <2>3. u[n] = Put(reg, u[m], items[n], n)
    BY <1>1, <2>2 DEF Turns
  <2>4. ItemOf(reg, n)
    BY <2>2, BaseAssumption DEF ItemOf
  <2>5. /\ Whole(u[n])
        /\ Fine(u[n]) <=> Fine(u[m]) /\ Fine(items[n])
    <3>1. Whole(u[m]) /\ Whole(items[n])
      BY <2>1
    <3>2. Whole(Put(reg, u[m], items[n], n))
      BY <2>4, <3>1, PutWhole, Zenon
    <3>3. Fine(Put(reg, u[m], items[n], n)) <=> Fine(u[m]) /\ Fine(items[n])
      BY <2>4, <3>1, PutWhole, Zenon
    <3> QED
      BY <2>3, <3>2, <3>3
  <2>6. (\A i \in 1..n : Fine(items[i]))
          <=> (\A i \in 1..m : Fine(items[i])) /\ Fine(items[n])
    BY <2>2
  <2> QED
    BY <2>1, <2>2, <2>5, <2>6
<1>4. ASSUME NEW m \in Nat, m \in S PROVE m + 1 \in S
  <2> HIDE DEF right
  <2> QED
    BY <1>3, <1>4
<1>5. Nat \subseteq S
  <2> HIDE DEF S
  <2> QED
    BY <1>2, <1>4, NumberInduction
<1>6. right(count)
  <2> HIDE DEF right
  <2> QED
    BY <1>5
<1>7. QED
  BY <1>1, <1>6 DEF Turns

\* An argument that is no array.
LEMMA ScalarWhole ==
    ASSUME NEW p \in Places, p[2].kind # "list"
    PROVE  /\ Whole(LoadScalar(p[1], p[2]))
           /\ Fine(LoadScalar(p[1], p[2])) <=> LoadableScalar(p[2])
<1>1. p[1] \in File /\ p[2].kind \in {"bad", "data", "time"}
  BY PlaceFacts DEF Kinds
<1>2. \A e \in {"bad argument", "bad timestamp"} : Whole(Failing(e)) /\ ~Fine(Failing(e))
  <2>1. ASSUME NEW e \in {"bad argument", "bad timestamp"}
        PROVE  Whole(Failing(e)) /\ ~Fine(Failing(e))
    <3>1. e \in Errors \cup {NoError} /\ e # NoError
      BY DEF Errors, NoError
    <3>2. Failing(e).err = e
      BY DEF Failing, Piece
    <3> QED
      BY <3>1, <3>2, NothingWhole DEF Fine
  <2> QED
    BY <2>1
<1>3. CASE p[2].kind = "bad"
  <2>1. LoadScalar(p[1], p[2]) = Failing("bad argument")
    BY <1>3 DEF LoadScalar
  <2>2. ~LoadableScalar(p[2])
    BY <1>3 DEF LoadableScalar
  <2> QED
    BY <1>2, <2>1, <2>2
<1>4. CASE p[2].kind = "data"
  <2>1. LoadScalar(p[1], p[2]) = Load(p[1], p[2].type, p[2].data)
    BY <1>4 DEF LoadScalar
  <2>2. LoadableScalar(p[2]) <=> ~TooLong(p[2].data)
    BY <1>4 DEF LoadableScalar
  <2>3. p[2].type \in Byte /\ p[2].data \in Seq(Byte)
    BY <1>4, PlaceFacts
  <2>4. /\ Whole(Load(p[1], p[2].type, p[2].data))
        /\ Fine(Load(p[1], p[2].type, p[2].data)) <=> ~TooLong(p[2].data)
    BY <1>1, <2>3, LoadWhole, Zenon
  <2> QED
    BY <2>1, <2>2, <2>4, Zenon
<1>5. CASE p[2].kind = "time"
  <2>1. LoadableScalar(p[2]) <=> p[2].at \in 0..TimeMax
    BY <1>5 DEF LoadableScalar
  <2>2. CASE p[2].at \in 0..TimeMax
    <3>1. LoadScalar(p[1], p[2]) = Load(p[1], VMTypeTimestamp, TimeBytes(p[2].at))
      BY <1>5, <2>2 DEF LoadScalar
    <3>2. TimeBytes(p[2].at) \in Seq(Byte) /\ ~TooLong(TimeBytes(p[2].at))
      BY <2>2, TimeBytesShort
    <3> QED
      BY <1>1, <2>1, <2>2, <3>1, <3>2, LoadWhole, CallOpcodeFacts
  <2>3. CASE ~(p[2].at \in 0..TimeMax)
    <3>1. LoadScalar(p[1], p[2]) = Failing("bad timestamp")
      BY <1>5, <2>3 DEF LoadScalar
    <3> QED
      BY <1>2, <2>1, <2>3, <3>1
  <2> QED
    BY <2>2, <2>3
<1>6. QED
  BY <1>1, <1>3, <1>4, <1>5

\* What is known of a place once it is known of the places inside it.
Settled(p) == Whole(Loaded[p]) /\ (Fine(Loaded[p]) <=> Fitting[p])

LEMMA Settles ==
    ASSUME NEW p \in Places, \A q \in Places : q[1] > p[1] => Settled(q)
    PROVE  Settled(p)
<1>1. Loaded[p] = LoadBody(p, Loaded)
  BY LoadedIs
<1>2. Fitting[p] = FitsBody(p, Fitting)
  BY FittingIs
<1>3. CASE p[2].kind # "list"
  <2>1. Loaded[p] = LoadScalar(p[1], p[2])
    BY <1>1, <1>3 DEF LoadBody
  <2>2. Fitting[p] = LoadableScalar(p[2])
    BY <1>2, <1>3, Zenon DEF FitsBody
  <2> QED
    BY <1>3, <2>1, <2>2, ScalarWhole DEF Settled
<1>4. p[1] + 3 <= MAX_REGISTER_COUNT <=> p[1] <= LastArrayRegister
  BY PlaceFacts, FileFacts DEF LastArrayRegister
<1>5. CASE p[2].kind = "list" /\ ~(p[1] <= LastArrayRegister)
  <2>1. p[1] > LastArrayRegister
    BY <1>5, PlaceFacts, FileFacts DEF LastArrayRegister
  <2>2. Loaded[p] = Failing("bad argument")
    BY <1>1, <1>5, <2>1 DEF LoadBody
  <2>3. ~Fitting[p]
    BY <1>2, <1>4, <1>5, Zenon DEF FitsBody
  <2>4. Whole(Failing("bad argument")) /\ ~Fine(Failing("bad argument"))
    <3>1. "bad argument" \in Errors \cup {NoError} /\ "bad argument" # NoError
      BY DEF Errors, NoError
    <3>2. Failing("bad argument").err = "bad argument"
      BY DEF Failing, Piece
    <3> QED
      BY <3>1, <3>2, NothingWhole DEF Fine
  <2> QED
    BY <2>2, <2>3, <2>4 DEF Settled
<1>6. CASE p[2].kind = "list" /\ p[1] <= LastArrayRegister
  <2>1. PICK count \in Nat : count = Len(p[2].items)
    BY <1>6, PlaceFacts
  <2>2. PICK items : items = [n \in 1..count |-> Loaded[<<p[1] + 1, p[2].items[n]>>]]
    OBVIOUS
  <2>3. ASSUME NEW n \in 1..count
        PROVE  /\ Whole(items[n])
               /\ Fine(items[n]) <=> Fitting[<<p[1] + 1, p[2].items[n]>>]
    <3>1. PICK q \in Places : q = <<p[1] + 1, p[2].items[n]>>
      BY <1>6, <2>1, PlaceFacts, Zenon
    <3>2. q[1] > p[1]
      BY <3>1, PlaceFacts
    <3>3. items[n] = Loaded[q]
      BY <2>2, <3>1
    <3> QED
      BY <3>1, <3>2, <3>3 DEF Settled
  <2>4. Loaded[p] = ArrayCode(p[1], count, items)
    <3>1. ~(p[1] > LastArrayRegister)
      BY <1>6, PlaceFacts, FileFacts DEF LastArrayRegister
    <3> QED
      BY <1>1, <1>6, <2>1, <2>2, <3>1, Zenon DEF LoadBody
  <2>5. /\ Whole(Loaded[p])
        /\ Fine(Loaded[p]) <=> \A i \in 1..count : Fine(items[i])
    <3>1. p[1] \in File /\ 2 * count <= Base * Base
      BY <1>6, <2>1, PlaceFacts
    <3> QED
      BY <1>6, <2>3, <2>4, <3>1, ArrayWhole
  <2>6. Fitting[p] <=> \A i \in 1..count : Fitting[<<p[1] + 1, p[2].items[i]>>]
    BY <1>2, <1>4, <1>6, <2>1, Zenon DEF FitsBody
  <2> QED
    BY <2>3, <2>5, <2>6 DEF Settled
<1>7. QED
  BY <1>3, <1>5, <1>6

\* Loading any argument into any register writes whole instructions, and fails
\* exactly when the argument cannot be loaded there.
LEMMA LoadedWhole == \A p \in Places : Settled(p)
<1> DEFINE right(m) == \A p \in Places : MAX_REGISTER_COUNT - m <= p[1] => Settled(p)
           S == {m \in Nat : right(m)}
<1>1. 0 \in S
  <2>1. ASSUME NEW p \in Places PROVE ~(MAX_REGISTER_COUNT - 0 <= p[1])
    BY PlaceFacts, FileFacts DEF File
  <2> QED
    BY <2>1
<1>2. ASSUME NEW m \in Nat, m \in S PROVE m + 1 \in S
  <2>1. ASSUME NEW p \in Places, MAX_REGISTER_COUNT - (m + 1) <= p[1] PROVE Settled(p)
    <3>1. ASSUME NEW q \in Places, q[1] > p[1] PROVE Settled(q)
      <4>1. MAX_REGISTER_COUNT - m <= q[1]
        BY <2>1, <3>1, PlaceFacts, FileFacts
      <4> QED
        BY <1>2, <4>1
    <3> QED
      BY <3>1, Settles
  <2> QED
    BY <2>1
<1>3. Nat \subseteq S
  <2> HIDE DEF S
  <2> QED
    BY <1>1, <1>2, NumberInduction
<1>4. ASSUME NEW p \in Places PROVE Settled(p)
  <2>1. MAX_REGISTER_COUNT - MAX_REGISTER_COUNT <= p[1]
    BY PlaceFacts, FileFacts
  <2> QED
    BY <1>3, <2>1, FileFacts
<1>5. QED
  BY <1>4

\* All arguments of a call can be loaded.
AllLoadable(args) == \A j \in 1..Len(args) : Loadable(args[j])

\* An instruction of one register.
LEMMA OneRegister ==
    ASSUME NEW op \in {PUSH, EXTCALL, SWITCH}, NEW r \in File
    PROVE  /\ Whole(Op(op, <<r>>)) /\ Fine(Op(op, <<r>>))
           /\ Op(op, <<r>>).prog = <<Instr(op, <<r>>, <<>>)>>
<1>1. PICK args \in Seq(Byte) : args = <<r>>
  <2>1. <<r>> \in Seq(Byte)
    BY FileFacts
  <2> QED
    BY <2>1, Zenon
<1>2. Len(args) = 1 /\ args[1] \in File
  BY <1>1
<1>3. \A k \in 1..Len(args) : args[k] \in File
  BY <1>2
<1>4. op \in CallOpcodes /\ OperandCount(op) = 1
  BY CallOpcodeFacts DEF CallOpcodes
<1>5. QED
  BY <1>1, <1>2, <1>3, <1>4, OpWhole

\* CTX from register 0 to register 1.
LEMMA TwoRegisters == Whole(Op(CTX, <<0, 1>>))
<1>1. PICK regs \in Seq(Byte) : regs = <<0, 1>>
  <2>1. <<0, 1>> \in Seq(Byte)
    BY FileFacts
  <2> QED
    BY <2>1, Zenon
<1>2. Len(regs) = 2 /\ regs[1] \in File /\ regs[2] \in File
  BY <1>1, FileFacts
<1>3. \A k \in 1..Len(regs) : regs[k] \in File
  BY <1>2
<1>4. CTX \in CallOpcodes /\ OperandCount(CTX) = 2
  BY CallOpcodeFacts DEF CallOpcodes
<1>5. QED
  BY <1>1, <1>2, <1>3, <1>4, OpWhole

LEMMA PushWhole ==
    ASSUME NEW args \in Seq(Arguments), NEW n \in 1..Len(args), NEW before, Whole(before)
    PROVE  /\ Whole(Push(args, before, n))
           /\ Fine(Push(args, before, n)) <=> Fine(before) /\ Loadable(args[Len(args) + 1 - n])
<1>1. PICK v \in Arguments : v = args[Len(args) + 1 - n]
  <2>1. Len(args) + 1 - n \in 1..Len(args)
    OBVIOUS
  <2> QED
    BY <2>1
<1>2. PICK c : c = LoadIntoRegister(0, v)
  OBVIOUS
<1>3. Whole(c) /\ (Fine(c) <=> Loadable(v))
  <2>1. <<0, v>> \in Places
    BY FileFacts DEF Places, File
  <2>2. c = Loaded[<<0, v>>] /\ Loadable(v) = Fitting[<<0, v>>]
    BY <1>2, LoadedIs, FittingIs
  <2> QED
    BY <2>1, <2>2, LoadedWhole, Zenon DEF Settled
<1>4. Whole(Op(PUSH, <<0>>)) /\ Fine(Op(PUSH, <<0>>))
  BY OneRegister, FileFacts
<1>5. Whole(before ++ c) /\ (Fine(before ++ c) <=> Fine(before) /\ Fine(c))
  BY <1>3, ChainedWhole
<1>6. PICK d : d = before ++ c
  OBVIOUS
<1>7. PICK e : e = Op(PUSH, <<0>>)
  OBVIOUS
<1>8. Whole(d ++ e) /\ (Fine(d ++ e) <=> Fine(d) /\ Fine(e))
  BY <1>4, <1>5, <1>6, <1>7, ChainedWhole
<1>9. Push(args, before, n) = d ++ e
  BY <1>1, <1>2, <1>6, <1>7 DEF Push
<1>10. QED
  BY <1>1, <1>3, <1>4, <1>5, <1>6, <1>7, <1>8, <1>9

LEMMA MethodArgsWhole ==
    ASSUME NEW args \in Seq(Arguments)
    PROVE  /\ Whole(InsertMethodArgs(args))
           /\ Fine(InsertMethodArgs(args)) <=> AllLoadable(args)
<1>1. PICK count \in Nat : count = Len(args)
  OBVIOUS
<1>2. PICK u : /\ InsertMethodArgs(args) = u[count]
               /\ u[0] = Nothing
               /\ \A n \in 1..count : u[n] = Push(args, u[n - 1], n)
  BY <1>1, MethodArgsSteps
<1> DEFINE right(m) == /\ Whole(u[m])
                       /\ Fine(u[m]) <=> \A j \in (count + 1 - m)..count : Loadable(args[j])
           S == {m \in Nat : m <= count => right(m)}
<1>3. 0 \in S
  <2>1. Nothing = Failing(NoError)
    BY DEF Nothing, Failing
  <2>2. Whole(Nothing) /\ Fine(Nothing)
    BY <2>1, NothingWhole DEF Fine, Nothing, Piece
  <2>3. (count + 1 - 0)..count = {}
    OBVIOUS
  <2> QED
    BY <1>2, <2>2, <2>3
<1>4. ASSUME NEW m \in Nat, m \in S, m + 1 <= count PROVE right(m + 1)
  <2>1. right(m)
    BY <1>4
  <2>2. PICK n \in 1..count : n = m + 1
    BY <1>4
  <2>3. PICK b : b = u[m]
    OBVIOUS
  <2>4. u[n] = Push(args, b, n)
    BY <1>2, <2>2, <2>3
  <2>5. Whole(u[n]) /\ (Fine(u[n]) <=> Fine(b) /\ Loadable(args[count + 1 - n]))
    BY <1>1, <2>1, <2>3, <2>4, PushWhole
  <2>6. (count + 1 - n)..count = ((count + 1 - m)..count) \cup {count + 1 - n}
    BY <2>2
  <2>7. (\A j \in (count + 1 - n)..count : Loadable(args[j]))
          <=> (\A j \in (count + 1 - m)..count : Loadable(args[j]))
                /\ Loadable(args[count + 1 - n])
    BY <2>6, Zenon
  <2> QED
    BY <2>1, <2>2, <2>3, <2>5, <2>7
<1>5. ASSUME NEW m \in Nat, m \in S PROVE m + 1 \in S
  <2> HIDE DEF right
  <2> QED
    BY <1>4, <1>5
<1>6. Nat \subseteq S
  <2> HIDE DEF S
  <2> QED
    BY <1>3, <1>5, NumberInduction
<1>7. right(count)
  <2> HIDE DEF right
  <2> QED
    BY <1>6
<1>8. (count + 1 - count)..count = 1..count
  OBVIOUS
<1>9. QED
  BY <1>1, <1>2, <1>7, <1>8 DEF AllLoadable

\* The two calling helpers: a method that succeeds had arguments that load.
LEMMA LoadText ==
    ASSUME NEW text \in Seq(Byte)
    PROVE  /\ Whole(Load(0, VMTypeString, text))
           /\ Fine(Load(0, VMTypeString, text)) <=> ~TooLong(text)
  BY FileFacts, CallOpcodeFacts, LoadWhole

LEMMA InteropWhole ==
    ASSUME NEW method \in Seq(Byte), NEW args \in Seq(Arguments)
    PROVE  /\ Whole(InteropCode(method, args))
           /\ Fine(InteropCode(method, args)) => AllLoadable(args) /\ ~TooLong(method)
<1>1. PICK a : a = InsertMethodArgs(args)
  OBVIOUS
<1>2. Whole(a) /\ (Fine(a) <=> AllLoadable(args))
  BY <1>1, MethodArgsWhole
<1>3. PICK b : b = Load(0, VMTypeString, method)
  OBVIOUS
<1>4. Whole(b) /\ (Fine(b) <=> ~TooLong(method))
  BY <1>3, LoadText
<1>5. PICK c : c = Op(EXTCALL, <<0>>)
  OBVIOUS
<1>6. Whole(c)
  BY <1>5, OneRegister, FileFacts
<1>7. Whole(a ++ b) /\ (Fine(a ++ b) <=> Fine(a) /\ Fine(b))
  BY <1>2, <1>4, ChainedWhole
<1>8. PICK d : d = a ++ b
  OBVIOUS
<1>9. Whole(d ++ c) /\ (Fine(d ++ c) <=> Fine(d) /\ Fine(c))
  BY <1>6, <1>7, <1>8, ChainedWhole
<1>10. InteropCode(method, args) = d ++ c
  BY <1>1, <1>3, <1>5, <1>8 DEF InteropCode
<1>11. QED
  BY <1>2, <1>4, <1>7, <1>8, <1>9, <1>10

LEMMA ContractWhole ==
    ASSUME NEW contract \in Seq(Byte), NEW method \in Seq(Byte), NEW args \in Seq(Arguments)
    PROVE  /\ Whole(ContractCode(contract, method, args))
           /\ Fine(ContractCode(contract, method, args)) =>
                AllLoadable(args) /\ ~TooLong(method) /\ ~TooLong(contract)
<1>1. PICK a : a = InsertMethodArgs(args)
  OBVIOUS
<1>2. Whole(a) /\ (Fine(a) <=> AllLoadable(args))
  BY <1>1, MethodArgsWhole
<1>3. PICK b : b = Load(0, VMTypeString, method)
  OBVIOUS
<1>4. PICK c : c = Op(PUSH, <<0>>)
  OBVIOUS
<1>5. PICK d : d = Load(0, VMTypeString, contract)
  OBVIOUS
<1>6. PICK e : e = Op(CTX, <<0, 1>>)
  OBVIOUS
<1>7. PICK f : f = Op(SWITCH, <<1>>)
  OBVIOUS
<1>8. /\ Whole(b) /\ Whole(c) /\ Whole(d) /\ Whole(f)
      /\ Fine(b) <=> ~TooLong(method)
      /\ Fine(d) <=> ~TooLong(contract)
  BY <1>3, <1>4, <1>5, <1>7, LoadText, OneRegister, FileFacts
<1>9. Whole(e)
  BY <1>6, TwoRegisters
<1>10. PICK ab : ab = a ++ b
  OBVIOUS
<1>11. Whole(ab) /\ (Fine(ab) => Fine(a) /\ Fine(b))
  BY <1>2, <1>8, <1>10, ChainedWhole
<1>12. PICK abc : abc = ab ++ c
  OBVIOUS
<1>13. Whole(abc) /\ (Fine(abc) => Fine(ab))
  BY <1>8, <1>11, <1>12, ChainedWhole
<1>14. PICK abcd : abcd = abc ++ d
  OBVIOUS
<1>15. Whole(abcd) /\ (Fine(abcd) => Fine(abc) /\ Fine(d))
  BY <1>8, <1>13, <1>14, ChainedWhole
<1>16. PICK abcde : abcde = abcd ++ e
  OBVIOUS
<1>17. Whole(abcde) /\ (Fine(abcde) => Fine(abcd))
  BY <1>9, <1>15, <1>16, ChainedWhole
<1>18. Whole(abcde ++ f) /\ (Fine(abcde ++ f) => Fine(abcde))
  BY <1>8, <1>17, ChainedWhole
<1>19. ContractCode(contract, method, args) = abcde ++ f
  BY <1>1, <1>3, <1>4, <1>5, <1>6, <1>7, <1>10, <1>12, <1>14, <1>16 DEF ContractCode
<1>20. QED
  BY <1>2, <1>8, <1>11, <1>13, <1>15, <1>17, <1>18, <1>19
-----------------------------------------------------------------------------
(* The invariant of a builder that is used through the calling helpers.      *)

Ending == Instr(RET, <<>>, <<>>)

Requests == [contract : Seq(Byte), method : Seq(Byte), args : Seq(Arguments)]

CallInv ==
    /\ taint = {}
    /\ prog \in Seq(CallEntries \cup {Ending})
    /\ requested \in Seq(Requests)
    /\ error = NoError => \A i \in 1..Len(requested) : AllLoadable(requested[i].args)
    /\ result.kind = "script" => error = NoError

\* Everything known of the builder, this module's part included.
Known == IInv /\ Finished /\ Layout /\ CallInv

LEMMA InitKnown == CallInit => Known
<1> SUFFICES ASSUME CallInit PROVE Known
  OBVIOUS
<1>1. Init /\ requested = <<>>
  BY DEF CallInit
<1>2. IInv /\ Layout
  BY <1>1, InitIInv, InitLayout
<1>3. Finished
  BY <1>1 DEF Init, Finished, Self, NoError
<1>4. CallInv
  BY <1>1 DEF Init, CallInv, Self
<1>5. QED
  BY <1>2, <1>3, <1>4 DEF Known

LEMMA StutterKnown == Known /\ UNCHANGED callVars => Known'
<1> SUFFICES ASSUME Known, UNCHANGED callVars PROVE Known'
  OBVIOUS
<1>1. UNCHANGED vars /\ requested' = requested
  BY DEF callVars
<1>2. IInv' /\ Finished' /\ Layout'
  BY <1>1, StutterIInv, FinishedStep, LayoutStep DEF Known
<1>3. CallInv'
  BY <1>1 DEF Known, CallInv, vars
<1>4. QED
  BY <1>2, <1>3 DEF Known

\* Writing a whole piece for a call that has been noted.
LEMMA PieceStep ==
    ASSUME Known, NEW c, Whole(c), NEW q \in Requests,
           c.err = NoError => AllLoadable(q.args),
           Call, Write(c.code, c.prog, c.err), requested' = Append(requested, q)
    PROVE  Known'
<1>1. c.code \in Seq(Byte) /\ c.prog \in Seq(CallEntries) /\ c.err \in Errors \cup {NoError}
  BY DEF Whole, Pieces
<1>2. IInv'
  <2>1. calls' \in 0..MaxCalls
    BY BuilderAssumption DEF Known, Call, IInv, TypeOK
  <2>2. Appends
    BY <1>1, WriteAppends DEF Known, IInv
  <2> QED
    BY <2>1, <2>2, AppendsPreserves DEF Known
<1>3. Finished'
  <2>1. Unfinished(result')
    BY UnfinishedResults DEF Write
  <2> QED
    BY <2>1 DEF Unfinished, Finished
<1>4. Layout'
  <2>1. buffer \in Seq(Byte) /\ LaidOut(buffer, jumps, labels, prog)
    BY DEF Known, IInv, TypeOK, Layout, CallInv
  <2>2. LaidOut(buffer \o c.code, jumps, labels, prog \o c.prog)
    BY <2>1 DEF Whole
  <2> QED
    BY <2>2 DEF Write, Layout
<1>5. CallInv'
  <2>1. taint' = {}
    BY DEF Known, CallInv, Write
  <2>2. prog' \in Seq(CallEntries \cup {Ending})
    <3>1. prog \in Seq(CallEntries \cup {Ending}) /\ c.prog \in Seq(CallEntries \cup {Ending})
      BY <1>1 DEF Known, CallInv
    <3>2. prog \o c.prog \in Seq(CallEntries \cup {Ending})
      BY ONLY <3>1, ConcatProperties
    <3> QED
      BY <3>2 DEF Write
  <2>3. requested' \in Seq(Requests)
    BY DEF Known, CallInv
  <2>4. ASSUME error' = NoError, NEW i \in 1..Len(requested')
        PROVE  AllLoadable(requested'[i].args)
    <3>1. error = NoError /\ c.err = NoError
      BY <2>4 DEF Write, FirstError
    <3>2. requested \in Seq(Requests)
      BY DEF Known, CallInv
    <3>3. CASE i = Len(requested) + 1
      <4>1. requested'[i] = q
        BY <3>2, <3>3
      <4> QED
        BY <3>1, <4>1
    <3>4. CASE i # Len(requested) + 1
      <4>1. i \in 1..Len(requested) /\ requested'[i] = requested[i]
        BY <3>2, <3>4
      <4> QED
        BY <3>1, <4>1 DEF Known, CallInv
    <3> QED
      BY <3>3, <3>4
  <2>5. result'.kind # "script"
    BY DEF Write, Self
  <2> QED
    BY <2>1, <2>2, <2>3, <2>4, <2>5 DEF CallInv
<1>6. QED
  BY <1>2, <1>3, <1>4, <1>5 DEF Known

LEMMA ArgsAreArguments == \A args \in Args : args \in Seq(Arguments)
<1> SUFFICES ASSUME NEW args \in Args PROVE args \in Seq(Arguments)
  OBVIOUS
<1>1. PICK n \in 0..MaxArgs : args \in [1..n -> Values]
  BY DEF Args
<1>2. n \in Nat /\ args \in [1..n -> Arguments]
  BY <1>1, CallsAssumption
<1>3. QED
  BY <1>2

\* One step of the caller.
LEMMA KnownStep == Known /\ [CallNext]_callVars => Known'
<1> SUFFICES ASSUME Known, [CallNext]_callVars PROVE Known'
  OBVIOUS
<1>1. ASSUME NEW m \in Methods, NEW args \in Args, CallInterop(m, args) PROVE Known'
  <2>1. PICK c : c = InteropCode(m, args)
    OBVIOUS
  <2>2. m \in Seq(Byte) /\ args \in Seq(Arguments)
    BY ArgsAreArguments, CallsAssumption
  <2>3. Whole(c) /\ (c.err = NoError => AllLoadable(args))
    BY <2>1, <2>2, InteropWhole DEF Fine
  <2>4. PICK q : q = [contract |-> <<>>, method |-> m, args |-> args]
    OBVIOUS
  <2>5. q \in Requests /\ q.args = args
    BY <2>2, <2>4 DEF Requests
  <2>6. /\ Call /\ Write(c.code, c.prog, c.err)
        /\ requested' = Append(requested, q)
    BY <1>1, <2>1, <2>4 DEF CallInterop, Request
  <2> QED
    BY <2>3, <2>5, <2>6, PieceStep
<1>2. ASSUME NEW k \in Contracts, NEW m \in Methods, NEW args \in Args,
             CallContract(k, m, args)
      PROVE  Known'
  <2>1. PICK c : c = ContractCode(k, m, args)
    OBVIOUS
  <2>2. k \in Seq(Byte) /\ m \in Seq(Byte) /\ args \in Seq(Arguments)
    BY ArgsAreArguments, CallsAssumption
  <2>3. Whole(c) /\ (c.err = NoError => AllLoadable(args))
    BY <2>1, <2>2, ContractWhole DEF Fine
  <2>4. PICK q : q = [contract |-> k, method |-> m, args |-> args]
    OBVIOUS
  <2>5. q \in Requests /\ q.args = args
    BY <2>2, <2>4 DEF Requests
  <2>6. /\ Call /\ Write(c.code, c.prog, c.err)
        /\ requested' = Append(requested, q)
    BY <1>2, <2>1, <2>4 DEF CallContract, Request
  <2> QED
    BY <2>3, <2>5, <2>6, PieceStep
<1>3. CASE CallTextRejected
  <2>1. Fail("bad address") /\ "bad address" \in Errors /\ requested' = requested
    BY <1>3 DEF CallTextRejected, Errors
  <2>2. calls' \in 0..MaxCalls
    <3>1. Call
      BY <1>3 DEF CallTextRejected
    <3> QED
      BY <3>1, BuilderAssumption DEF Known, Call, IInv, TypeOK
  <2>3. IInv'
    BY <2>1, <2>2, FailAppends, AppendsPreserves DEF Known, IInv
  <2>4. Finished'
    <3>1. Unfinished(result')
      BY <2>1, UnfinishedResults DEF Fail
    <3> QED
      BY <3>1 DEF Unfinished, Finished
  <2>5. Layout'
    BY <2>1, FailKeeps DEF Known
  <2>6. CallInv'
    <3>1. error' # NoError /\ result'.kind # "script" /\ UNCHANGED <<taint, prog>>
      BY <2>1 DEF Fail, FirstError, NoError, Errors, Self
    <3> QED
      BY <2>1, <3>1 DEF Known, CallInv
  <2> QED
    BY <2>3, <2>4, <2>5, <2>6 DEF Known
<1>4. CASE EndScript /\ requested' = requested
  <2>1. Low
    BY <1>4 DEF Low
  <2>2. IInv' /\ Finished' /\ Layout'
    BY <2>1, LowStep, FinishedStep, LayoutStep DEF Known
  <2>3. CallInv'
    <3>1. taint' = {} /\ error' = error /\ requested' = requested
      BY <1>4 DEF EndScript, Known, CallInv
    <3>2. prog' \in Seq(CallEntries \cup {Ending})
      <4>1. prog \in Seq(CallEntries \cup {Ending}) /\ prog' = Append(prog, Ending)
        BY <1>4 DEF EndScript, Known, CallInv, Ending
      <4> QED
        BY <4>1
    <3>3. result'.kind = "script" => error' = NoError
      <4>1. error # NoError => result' = Failure(error)
        BY <1>4 DEF EndScript
      <4> QED
        BY <3>1, <4>1 DEF Failure
    <3> QED
      BY <3>1, <3>2, <3>3 DEF Known, CallInv
  <2> QED
    BY <2>2, <2>3 DEF Known
<1>5. CASE UNCHANGED callVars
  BY <1>5, StutterKnown
<1>6. QED
  BY <1>1, <1>2, <1>3, <1>4, <1>5 DEF CallNext

\* The invariant holds whatever is called, in whatever order.
THEOREM AlwaysKnown == CallSpec => []Known
<1>1. QED
  BY InitKnown, KnownStep, PTL DEF CallSpec

\* An argument that cannot be loaded, at any depth of an array, keeps the
\* script from being returned: call_interop and call_contract retain its error,
\* whatever is called after them.
THEOREM BadArgumentsAlwaysRefused == CallSpec => []BadArgumentsRefused
<1>1. Known => BadArgumentsRefused
  BY DEF Known, CallInv, BadArgumentsRefused, AllLoadable
<1>2. QED
  BY <1>1, AlwaysKnown, PTL

\* However deep the arrays are nested, no instruction of a returned script names
\* a register that the VM does not have: _load_into_register stops in time.
THEOREM RegistersAlwaysInFile == CallSpec => []RegistersInFile
<1>1. ASSUME Known, result.kind = "script", NEW i \in 1..Len(Decode(result.bytes))
      PROVE  NamedRegisters(Decode(result.bytes)[i]) \subseteq 0..(MAX_REGISTER_COUNT - 1)
  <2>1. taint = {} /\ prog \in Seq(CallEntries \cup {Ending})
    BY <1>1 DEF Known, CallInv
  <2>2. PICK code : code = Decode(result.bytes)
    OBVIOUS
  <2>3. /\ Len(code) = Len(prog)
        /\ \A k \in 1..Len(prog) :
             code[k].op = prog[k].op /\ (prog[k].goto = <<>> => code[k].args = prog[k].args)
    BY <1>1, <2>1, <2>2, ScriptDecodes, Zenon DEF Known
  <2>4. prog[i] \in CallEntries \cup {Ending}
    BY <1>1, <2>1, <2>2, <2>3
  <2>5. PICK e : e = prog[i]
    OBVIOUS
  <2>6. e.goto = <<>> /\ NamedRegisters(e) \subseteq 0..(MAX_REGISTER_COUNT - 1)
    <3>1. CASE e \in CallEntries
      BY <3>1 DEF CallEntries
    <3>2. CASE e = Ending
      <4>1. e.op = RET /\ e.args = <<>> /\ e.goto = <<>>
        BY <3>2 DEF Ending, Instr
      <4>2. NamedRegisters(e) = {e.args[k] : k \in 1..Len(e.args)}
        BY <4>1, CallOpcodeFacts DEF NamedRegisters, RET, LOAD, CAST
      <4>3. 1..Len(e.args) = {}
        BY <4>1
      <4> QED
        BY <4>1, <4>2, <4>3
    <3> QED
      BY <2>4, <2>5, <3>1, <3>2
  <2>7. code[i].op = e.op /\ code[i].args = e.args
    BY <1>1, <2>2, <2>3, <2>5, <2>6
  <2>8. NamedRegisters(code[i]) = NamedRegisters(e)
    BY <2>7 DEF NamedRegisters
  <2> QED
    BY <2>2, <2>6, <2>8
<1>2. Known => RegistersInFile
  BY <1>1 DEF RegistersInFile
<1>3. QED
  BY <1>2, AlwaysKnown, PTL
=============================================================================
