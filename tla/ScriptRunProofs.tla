---------------------------- MODULE ScriptRunProofs ----------------------------
(* Proofs about ScriptCalls, continued: running a returned script makes the   *)
(* calls that were asked for, for any arguments, nested to any depth.         *)
EXTENDS ScriptCallsProofs

-----------------------------------------------------------------------------
(* Running instructions.                                                     *)

\* The machine after each instruction.
Passes(vm, code, u) ==
    /\ Run(vm, code) = u[Len(code)]
    /\ u[0] = vm
    /\ \A n \in 1..Len(code) : u[n] = Step(u[n - 1], code[n])

LEMMA RunPasses ==
    ASSUME NEW vm, NEW code, Len(code) \in Nat
    PROVE  \E u : Passes(vm, code, u)
<1>1. PICK u : /\ Run(vm, code) = u[Len(code)]
               /\ u[0] = vm
               /\ \A n \in 1..Len(code) : u[n] = Step(u[n - 1], code[n])
  BY RunSteps
<1>2. Passes(vm, code, u)
  BY <1>1 DEF Passes
<1>3. QED
  BY <1>2

LEMMA RunNothing == \A vm : Run(vm, <<>>) = vm
<1> SUFFICES ASSUME NEW vm PROVE Run(vm, <<>>) = vm
  OBVIOUS
<1>1. Len(<<>>) = 0
  OBVIOUS
<1>2. PICK u : Passes(vm, <<>>, u)
  BY <1>1, RunPasses
<1>3. QED
  BY <1>1, <1>2 DEF Passes

\* Only what a decoder reads of an instruction matters.
LEMMA RunAlike ==
    ASSUME NEW vm, NEW n \in Nat, NEW c, NEW d, Len(c) = n, Len(d) = n,
           \A i \in 1..n : /\ c[i].op = d[i].op /\ c[i].args = d[i].args
                           /\ c[i].data = d[i].data
    PROVE  Run(vm, c) = Run(vm, d)
<1>1. PICK u : Passes(vm, c, u)
  BY RunPasses
<1>2. PICK w : Passes(vm, d, w)
  BY RunPasses
<1> DEFINE S == {m \in Nat : m <= n => u[m] = w[m]}
<1>3. 0 \in S
  BY <1>1, <1>2 DEF Passes
<1>4. ASSUME NEW m \in Nat, m \in S PROVE m + 1 \in S
  <2> SUFFICES ASSUME m + 1 <= n PROVE u[m + 1] = w[m + 1]
    OBVIOUS
  <2>1. PICK k \in 1..n : k = m + 1
    OBVIOUS
  <2>2. k - 1 = m /\ u[m] = w[m]
    BY <1>4, <2>1
  <2>3. u[k] = Step(u[m], c[k]) /\ w[k] = Step(w[m], d[k])
    BY <1>1, <1>2, <2>2 DEF Passes
  <2>4. \A x : Step(x, c[k]) = Step(x, d[k])
    BY <2>1, Zenon DEF Step
  <2> QED
    BY <2>1, <2>2, <2>3, <2>4, Zenon
<1>5. Nat \subseteq S
  <2> HIDE DEF S
  <2> QED
    BY <1>3, <1>4, NumberInduction
<1>6. u[n] = w[n]
  BY <1>5
<1>7. QED
  BY <1>1, <1>2, <1>6 DEF Passes

\* One piece of code after another.
LEMMA RunBoth ==
    ASSUME NEW S, NEW vm, NEW c \in Seq(S), NEW d \in Seq(S)
    PROVE  Run(vm, c \o d) = Run(Run(vm, c), d)
<1>1. /\ Len(c) \in Nat /\ Len(d) \in Nat /\ Len(c \o d) = Len(c) + Len(d)
      /\ \A k \in 1..Len(c) : (c \o d)[k] = c[k]
      /\ \A k \in 1..Len(d) : (c \o d)[Len(c) + k] = d[k]
  BY ONLY c \in Seq(S), d \in Seq(S), Parts
<1>2. PICK m \in Nat : m = Len(c)
  BY <1>1
<1>3. PICK n \in Nat : n = Len(d)
  BY <1>1
<1>4. PICK e : e = c \o d
  OBVIOUS
<1>5. Len(e) = m + n /\ Len(e) \in Nat
  BY <1>1, <1>2, <1>3, <1>4
<1>6. PICK u : Passes(vm, c, u)
  BY <1>1, RunPasses
<1>7. PICK w : Passes(Run(vm, c), d, w)
  BY <1>1, RunPasses
<1>8. PICK x : Passes(vm, e, x)
  BY <1>5, RunPasses
<1> DEFINE A == {k \in Nat : k <= m => x[k] = u[k]}
           B == {k \in Nat : k <= n => x[m + k] = w[k]}
<1>9. 0 \in A
  BY <1>6, <1>8 DEF Passes
<1>10. ASSUME NEW k \in Nat, k \in A PROVE k + 1 \in A
  <2> SUFFICES ASSUME k + 1 <= m PROVE x[k + 1] = u[k + 1]
    OBVIOUS
  <2>1. PICK i \in 1..m : i = k + 1
    OBVIOUS
  <2>2. i - 1 = k /\ x[k] = u[k] /\ i \in 1..Len(e) /\ e[i] = c[i]
    BY <1>1, <1>2, <1>4, <1>5, <1>10, <2>1
  <2>3. u[i] = Step(u[k], c[i]) /\ x[i] = Step(x[k], e[i])
    BY <1>2, <1>6, <1>8, <2>2 DEF Passes
  <2> QED
    BY <2>1, <2>2, <2>3, Zenon
<1>11. Nat \subseteq A
  <2> HIDE DEF A
  <2> QED
    BY <1>9, <1>10, NumberInduction
<1>12. x[m] = Run(vm, c)
  BY <1>2, <1>6, <1>11 DEF Passes
<1>13. 0 \in B
  BY <1>7, <1>12 DEF Passes
<1>14. ASSUME NEW k \in Nat, k \in B PROVE k + 1 \in B
  <2> SUFFICES ASSUME k + 1 <= n PROVE x[m + (k + 1)] = w[k + 1]
    OBVIOUS
  <2>1. PICK i \in 1..n : i = k + 1
    OBVIOUS
  <2>2. PICK j \in 1..Len(e) : j = m + i
    BY <1>5
  <2>3. /\ i - 1 = k /\ j - 1 = m + k /\ j = m + (k + 1)
        /\ x[m + k] = w[k] /\ e[j] = d[i]
    <3>1. i - 1 = k /\ j - 1 = m + k /\ j = m + (k + 1)
      BY <2>1, <2>2
    <3>2. x[m + k] = w[k]
      BY <1>14, <2>1
    <3>3. e[j] = d[i]
      BY <1>1, <1>2, <1>3, <1>4, <2>2
    <3> QED
      BY <3>1, <3>2, <3>3
  <2>4. w[i] = Step(w[k], d[i]) /\ x[j] = Step(x[m + k], e[j])
    BY <1>3, <1>7, <1>8, <2>3 DEF Passes
  <2> QED
    BY <2>1, <2>3, <2>4, Zenon
<1>15. Nat \subseteq B
  <2> HIDE DEF B
  <2> QED
    BY <1>13, <1>14, NumberInduction
<1>16. x[m + n] = w[n]
  BY <1>15
<1>17. QED
  BY <1>3, <1>4, <1>5, <1>7, <1>8, <1>16 DEF Passes

LEMMA RunOne ==
    ASSUME NEW vm, NEW e
    PROVE  Run(vm, <<e>>) = Step(vm, e)
<1>1. PICK c : c = <<e>>
  OBVIOUS
<1>2. Len(c) = 1 /\ c[1] = e
  BY <1>1
<1>3. PICK u : Passes(vm, c, u)
  BY <1>2, RunPasses
<1>4. 1 \in 1..Len(c) /\ 1 - 1 = 0
  BY <1>2
<1>5. u[1] = Step(u[0], c[1]) /\ u[0] = vm /\ Run(vm, c) = u[1]
  BY <1>2, <1>3, <1>4 DEF Passes
<1>6. QED
  BY <1>1, <1>2, <1>5
-----------------------------------------------------------------------------
(* One instruction, on a machine that has not met a RET.                     *)

IsVM(vm) ==
    /\ DOMAIN vm = {"regs", "stack", "trace", "running"}
    /\ DOMAIN vm.regs = File
    /\ vm.running = TRUE

\* A register is set and nothing else changes.
Sets(vm, w, reg, value) ==
    /\ IsVM(w)
    /\ w.regs[reg] = value
    /\ \A k \in File : k # reg => w.regs[k] = vm.regs[k]
    /\ w.stack = vm.stack /\ w.trace = vm.trace

LEMMA EntryRuns ==
    ASSUME NEW vm, IsVM(vm), NEW op, NEW args, NEW data
    PROVE  Run(vm, <<Instr(op, args, data)>>) = Exec(vm, op, args, data)
<1>1. PICK e : e = Instr(op, args, data)
  OBVIOUS
<1>2. e.op = op /\ e.args = args /\ e.data = data
  BY <1>1 DEF Instr
<1>3. Run(vm, <<e>>) = Step(vm, e)
  BY RunOne
<1>4. QED
  BY <1>1, <1>2, <1>3 DEF Step, IsVM

LEMMA OpcodesDiffer ==
    /\ LOAD \notin {PUSH, CAST, PUT, CTX, EXTCALL, SWITCH, RET}
    /\ PUSH \notin {LOAD, CAST, PUT, CTX, EXTCALL, SWITCH, RET}
    /\ CAST \notin {LOAD, PUSH, PUT, CTX, EXTCALL, SWITCH, RET}
    /\ PUT \notin {LOAD, PUSH, CAST, CTX, EXTCALL, SWITCH, RET}
    /\ CTX \notin {LOAD, PUSH, CAST, PUT, EXTCALL, SWITCH, RET}
    /\ EXTCALL \notin {LOAD, PUSH, CAST, PUT, CTX, SWITCH, RET}
    /\ SWITCH \notin {LOAD, PUSH, CAST, PUT, CTX, EXTCALL, RET}
    /\ RET \notin {LOAD, PUSH, CAST, PUT, CTX, EXTCALL, SWITCH}
  BY DEF LOAD, PUSH, CAST, PUT, CTX, EXTCALL, SWITCH, RET

\* What the machine makes of a new value in a register.
LEMMA RegisterSet ==
    ASSUME NEW vm, IsVM(vm), NEW reg \in File, NEW value
    PROVE  Sets(vm, [vm EXCEPT !.regs[reg] = value], reg, value)
  BY DEF IsVM, Sets

LEMMA LoadRuns ==
    ASSUME NEW vm, IsVM(vm), NEW reg \in File, NEW type \in Byte, NEW data \in Seq(Byte),
           ~TooLong(data)
    PROVE  Sets(vm, Run(vm, Load(reg, type, data).prog), reg, Scalar(type, data))
<1>1. Load(reg, type, data).prog = <<Instr(LOAD, <<reg, type>>, data)>>
  BY LoadWhole
<1>2. PICK args : args = <<reg, type>>
  OBVIOUS
<1>3. args[1] = reg /\ args[2] = type
  BY <1>2
<1>4. PICK value : value = Scalar(type, data)
  OBVIOUS
<1>5. PICK w : w = [vm EXCEPT !.regs[reg] = value]
  OBVIOUS
<1>6. Sets(vm, w, reg, value)
  BY <1>5, RegisterSet
<1>7. Exec(vm, LOAD, args, data) = w
  BY <1>3, <1>4, <1>5, OpcodesDiffer, Zenon DEF Exec
<1>8. Run(vm, <<Instr(LOAD, args, data)>>) = w
  BY <1>7, EntryRuns, Zenon
<1>9. QED
  BY <1>1, <1>2, <1>4, <1>6, <1>8, Zenon

LEMMA CastRuns ==
    ASSUME NEW vm, IsVM(vm), NEW reg \in File
    PROVE  Sets(vm, Run(vm, Op(CAST, <<reg, reg, VMTypeNone>>).prog), reg, Unset)
<1>1. Op(CAST, <<reg, reg, VMTypeNone>>).prog = <<Instr(CAST, <<reg, reg, VMTypeNone>>, <<>>)>>
  BY CastWhole
<1>2. PICK args : args = <<reg, reg, VMTypeNone>>
  OBVIOUS
<1>3. args[2] = reg
  BY <1>2
<1>4. PICK value : value = Unset
  OBVIOUS
<1>5. PICK w : w = [vm EXCEPT !.regs[reg] = value]
  OBVIOUS
<1>6. Sets(vm, w, reg, value)
  BY <1>5, RegisterSet
<1>7. Exec(vm, CAST, args, <<>>) = w
  BY <1>3, <1>4, <1>5, OpcodesDiffer, Zenon DEF Exec
<1>8. Run(vm, <<Instr(CAST, args, <<>>)>>) = w
  BY <1>7, EntryRuns, Zenon
<1>9. QED
  BY <1>1, <1>2, <1>4, <1>6, <1>8, Zenon

LEMMA PutRuns ==
    ASSUME NEW vm, IsVM(vm), NEW reg \in File, reg + 1 \in File, reg + 2 \in File, NEW index,
           index = Signed(vm.regs[reg + 2].data)
    PROVE  Sets(vm, Run(vm, Op(PUT, <<reg + 1, reg, reg + 2>>).prog), reg,
                Struct({f \in vm.regs[reg].fields : f[1] # index}
                       \cup {<<index, vm.regs[reg + 1]>>}))
<1>1. Op(PUT, <<reg + 1, reg, reg + 2>>).prog = <<Instr(PUT, <<reg + 1, reg, reg + 2>>, <<>>)>>
  BY DEF Op, Piece
<1>2. PICK args : args = <<reg + 1, reg, reg + 2>>
  OBVIOUS
<1>3. args[1] = reg + 1 /\ args[2] = reg /\ args[3] = reg + 2
  BY <1>2
<1>4. PICK value : value = Struct({f \in vm.regs[reg].fields : f[1] # index}
                                  \cup {<<index, vm.regs[reg + 1]>>})
  OBVIOUS
<1>5. PICK w : w = [vm EXCEPT !.regs[reg] = value]
  OBVIOUS
<1>6. Sets(vm, w, reg, value)
  BY <1>5, RegisterSet
<1>7. Exec(vm, PUT, args, <<>>) = w
  BY <1>3, <1>4, <1>5, OpcodesDiffer, Zenon DEF Exec
<1>8. Run(vm, <<Instr(PUT, args, <<>>)>>) = w
  BY <1>7, EntryRuns, Zenon
<1>9. QED
  BY <1>1, <1>2, <1>4, <1>6, <1>8, Zenon

LEMMA CtxRuns ==
    ASSUME NEW vm, IsVM(vm)
    PROVE  Sets(vm, Run(vm, Op(CTX, <<0, 1>>).prog), 1, vm.regs[0])
<1>1. Op(CTX, <<0, 1>>).prog = <<Instr(CTX, <<0, 1>>, <<>>)>>
  BY DEF Op, Piece
<1>2. PICK args : args = <<0, 1>>
  OBVIOUS
<1>3. args[1] = 0 /\ args[2] = 1
  BY <1>2
<1>4. PICK value : value = vm.regs[0]
  OBVIOUS
<1>5. PICK w : w = [vm EXCEPT !.regs[1] = value]
  OBVIOUS
<1>6. Sets(vm, w, 1, value)
  BY <1>5, RegisterSet, FileFacts
<1>7. Exec(vm, CTX, args, <<>>) = w
  BY <1>3, <1>4, <1>5, OpcodesDiffer, Zenon DEF Exec
<1>8. Run(vm, <<Instr(CTX, args, <<>>)>>) = w
  BY <1>7, EntryRuns, Zenon
<1>9. QED
  BY <1>1, <1>2, <1>4, <1>6, <1>8, Zenon

\* The top of the stack is the value of register 0.
LEMMA PushRuns ==
    ASSUME NEW vm, IsVM(vm)
    PROVE  LET w == Run(vm, Op(PUSH, <<0>>).prog)
           IN  IsVM(w) /\ w.stack = <<vm.regs[0]>> \o vm.stack /\ w.trace = vm.trace
<1>1. Op(PUSH, <<0>>).prog = <<Instr(PUSH, <<0>>, <<>>)>>
  BY DEF Op, Piece
<1>2. PICK args : args = <<0>>
  OBVIOUS
<1>3. args[1] = 0
  BY <1>2
<1>4. Exec(vm, PUSH, args, <<>>) = [vm EXCEPT !.stack = <<vm.regs[0]>> \o vm.stack]
  BY <1>3, OpcodesDiffer, Zenon DEF Exec
<1>5. PICK w : w = Run(vm, Op(PUSH, <<0>>).prog)
  OBVIOUS
<1>6. w = [vm EXCEPT !.stack = <<vm.regs[0]>> \o vm.stack]
  BY <1>1, <1>2, <1>4, <1>5, EntryRuns
<1>7. IsVM(w) /\ w.stack = <<vm.regs[0]>> \o vm.stack /\ w.trace = vm.trace
  BY <1>6 DEF IsVM
<1>8. QED
  BY <1>5, <1>7

\* A call takes the stack.
Calls(vm, w, contract, method, args) ==
    /\ IsVM(w)
    /\ w.stack = <<>>
    /\ w.trace = Append(vm.trace, [contract |-> contract, method |-> method, args |-> args])

LEMMA ExtCallRuns ==
    ASSUME NEW vm, IsVM(vm)
    PROVE  Calls(vm, Run(vm, Op(EXTCALL, <<0>>).prog), <<>>, vm.regs[0].data, vm.stack)
<1>1. Op(EXTCALL, <<0>>).prog = <<Instr(EXTCALL, <<0>>, <<>>)>>
  BY DEF Op, Piece
<1>2. PICK args : args = <<0>>
  OBVIOUS
<1>3. args[1] = 0
  BY <1>2
<1>4. PICK q : q = [contract |-> <<>>, method |-> vm.regs[0].data, args |-> vm.stack]
  OBVIOUS
<1>5. Exec(vm, EXTCALL, args, <<>>)
        = [vm EXCEPT !.stack = <<>>, !.trace = Append(vm.trace, q)]
  BY <1>3, <1>4, OpcodesDiffer, Zenon DEF Exec
<1>6. PICK w : w = Run(vm, Op(EXTCALL, <<0>>).prog)
  OBVIOUS
<1>7. w = [vm EXCEPT !.stack = <<>>, !.trace = Append(vm.trace, q)]
  BY <1>1, <1>2, <1>5, <1>6, EntryRuns
<1>8. IsVM(w) /\ w.stack = <<>> /\ w.trace = Append(vm.trace, q)
  BY <1>7 DEF IsVM
<1>9. QED
  BY <1>4, <1>6, <1>8 DEF Calls

LEMMA SwitchRuns ==
    ASSUME NEW vm, IsVM(vm)
    PROVE  Calls(vm, Run(vm, Op(SWITCH, <<1>>).prog), vm.regs[1].data,
                 Head(vm.stack).data, Tail(vm.stack))
<1>1. Op(SWITCH, <<1>>).prog = <<Instr(SWITCH, <<1>>, <<>>)>>
  BY DEF Op, Piece
<1>2. PICK args : args = <<1>>
  OBVIOUS
<1>3. args[1] = 1
  BY <1>2
<1>4. PICK q : q = [contract |-> vm.regs[1].data, method |-> Head(vm.stack).data,
                    args |-> Tail(vm.stack)]
  OBVIOUS
<1>5. Exec(vm, SWITCH, args, <<>>)
        = [vm EXCEPT !.stack = <<>>, !.trace = Append(vm.trace, q)]
  BY <1>3, <1>4, OpcodesDiffer, Zenon DEF Exec
<1>6. PICK w : w = Run(vm, Op(SWITCH, <<1>>).prog)
  OBVIOUS
<1>7. w = [vm EXCEPT !.stack = <<>>, !.trace = Append(vm.trace, q)]
  BY <1>1, <1>2, <1>5, <1>6, EntryRuns
<1>8. IsVM(w) /\ w.stack = <<>> /\ w.trace = Append(vm.trace, q)
  BY <1>7 DEF IsVM
<1>9. QED
  BY <1>4, <1>6, <1>8 DEF Calls
-----------------------------------------------------------------------------
(* Loading an argument puts the value it stands for into its register, and    *)
(* leaves the registers below it alone.                                      *)

\* Running the code of a piece.
After(vm, c) == Run(vm, c.prog)

LEMMA RunChained ==
    ASSUME NEW vm, NEW c, Whole(c), NEW d, Whole(d)
    PROVE  After(vm, c ++ d) = After(After(vm, c), d)
<1>1. c.prog \in Seq(CallEntries) /\ d.prog \in Seq(CallEntries)
  BY DEF Whole, Pieces
<1>2. (c ++ d).prog = c.prog \o d.prog
  BY ChainedWhole
<1>3. QED
  BY <1>1, <1>2, RunBoth DEF After

Fills(vm, w, reg, value) ==
    /\ IsVM(w)
    /\ w.regs[reg] = value
    /\ \A k \in File : k < reg => w.regs[k] = vm.regs[k]
    /\ w.stack = vm.stack /\ w.trace = vm.trace

Loads(c, reg, value) == \A vm : IsVM(vm) => Fills(vm, After(vm, c), reg, value)

\* The first items of an array, in its register.
ArrayValue(n, values) ==
    IF n = 0 THEN Unset ELSE Struct({<<i - 1, values[i]>> : i \in 1..n})

\* One more item: no entry of that index is there yet.
LEMMA ArrayGrows ==
    ASSUME NEW n \in Nat, n > 0, NEW values
    PROVE  Struct({f \in ArrayValue(n - 1, values).fields : f[1] # n - 1}
                  \cup {<<n - 1, values[n]>>}) = ArrayValue(n, values)
<1>1. ArrayValue(n - 1, values).fields = {<<i - 1, values[i]>> : i \in 1..(n - 1)}
  <2>1. CASE n - 1 = 0
    <3>1. ArrayValue(n - 1, values).fields = {}
      BY <2>1 DEF ArrayValue, Unset, Scalar
    <3>2. 1..(n - 1) = {}
      BY <2>1
    <3> QED
      BY <3>1, <3>2
  <2>2. CASE n - 1 # 0
    BY <2>2 DEF ArrayValue, Struct
  <2> QED
    BY <2>1, <2>2
<1>2. {f \in ArrayValue(n - 1, values).fields : f[1] # n - 1}
        = {<<i - 1, values[i]>> : i \in 1..(n - 1)}
  <2>1. \A i \in 1..(n - 1) : <<i - 1, values[i]>>[1] # n - 1
    OBVIOUS
  <2> QED
    BY <1>1, <2>1
<1>3. 1..n = (1..(n - 1)) \cup {n}
  OBVIOUS
<1>4. {<<i - 1, values[i]>> : i \in 1..n}
        = {<<i - 1, values[i]>> : i \in 1..(n - 1)} \cup {<<n - 1, values[n]>>}
  BY <1>3
<1>5. ArrayValue(n, values) = Struct({<<i - 1, values[i]>> : i \in 1..n})
  BY DEF ArrayValue
<1>6. QED
  BY <1>2, <1>4, <1>5

LEMMA PutLoads ==
    ASSUME NEW reg, NEW n, ItemOf(reg, n), NEW before, Whole(before), NEW item, Whole(item),
           NEW values, Loads(before, reg, ArrayValue(n - 1, values)),
           Loads(item, reg + 1, values[n])
    PROVE  Loads(Put(reg, before, item, n), reg, ArrayValue(n, values))
<1> SUFFICES ASSUME NEW vm, IsVM(vm)
             PROVE  Fills(vm, After(vm, Put(reg, before, item, n)), reg,
                          ArrayValue(n, values))
  BY DEF Loads
<1>1. /\ reg \in Nat /\ reg \in File /\ reg + 1 \in File /\ reg + 2 \in File
      /\ n \in Nat /\ n > 0
  BY FileFacts DEF File, LastArrayRegister, ItemOf
<1>2. PICK bytes \in Seq(Byte) :
        bytes = NumberBytes(n - 1) /\ ~TooLong(bytes) /\ Signed(bytes) = n - 1
  <2>1. n - 1 \in Nat /\ 2 * (n - 1) < Base * Base
    BY BaseAssumption DEF ItemOf
  <2> QED
    BY <2>1, NumberBytesFacts
<1>3. PICK index : index = Load(reg + 2, VMTypeNumber, bytes)
  OBVIOUS
<1>4. PICK put : put = Op(PUT, <<reg + 1, reg, reg + 2>>)
  OBVIOUS
<1>5. Whole(index) /\ Whole(put)
  <2>1. Whole(index)
    BY <1>1, <1>2, <1>3, LoadWhole, CallOpcodeFacts
  <2>2. PICK args \in Seq(Byte) : args = <<reg + 1, reg, reg + 2>>
    <3>1. reg \in Byte /\ reg + 1 \in Byte /\ reg + 2 \in Byte
      BY <1>1, FileFacts
    <3>2. <<reg + 1, reg, reg + 2>> \in Seq(Byte)
      BY <3>1
    <3> QED
      BY <3>2, Zenon
  <2>3. Len(args) = 3 /\ args[1] \in File /\ args[2] \in File /\ args[3] \in File
    BY <1>1, <2>2
  <2>4. \A k \in 1..Len(args) : args[k] \in File
    BY <2>3
  <2>5. PUT \in CallOpcodes /\ OperandCount(PUT) = 3
    BY CallOpcodeFacts DEF CallOpcodes
  <2> QED
    BY <1>4, <2>1, <2>2, <2>3, <2>4, <2>5, OpWhole
<1>6. PICK a : a = before ++ item
  OBVIOUS
<1>7. PICK b : b = a ++ index
  OBVIOUS
<1>8. Whole(a) /\ Whole(b) /\ Put(reg, before, item, n) = b ++ put
  <2>1. Whole(a)
    BY <1>6, ChainedWhole
  <2>2. Whole(b)
    BY <1>5, <1>7, <2>1, ChainedWhole
  <2> QED
    BY <1>2, <1>3, <1>4, <1>6, <1>7, <2>1, <2>2 DEF Put
<1>9. PICK v1 : v1 = After(vm, before)
  OBVIOUS
<1>10. PICK v2 : v2 = After(v1, item)
  OBVIOUS
<1>11. PICK v3 : v3 = After(v2, index)
  OBVIOUS
<1>12. PICK v4 : v4 = After(v3, put)
  OBVIOUS
<1>13. After(vm, Put(reg, before, item, n)) = v4
  <2>1. After(vm, b ++ put) = After(After(vm, b), put)
    BY <1>5, <1>8, RunChained
  <2>2. After(vm, a ++ index) = After(After(vm, a), index)
    <3>1. Whole(a) /\ Whole(index)
      BY <1>5, <1>8
    <3> QED
      BY <3>1, RunChained
  <2>3. After(vm, before ++ item) = After(After(vm, before), item)
    BY RunChained
  <2> QED
    BY <1>6, <1>7, <1>8, <1>9, <1>10, <1>11, <1>12, <2>1, <2>2, <2>3
<1>14. Fills(vm, v1, reg, ArrayValue(n - 1, values))
  BY <1>9 DEF Loads
<1>15. Fills(v1, v2, reg + 1, values[n])
  BY <1>10, <1>14 DEF Loads, Fills
<1>16. Sets(v2, v3, reg + 2, Scalar(VMTypeNumber, bytes))
  <2>1. IsVM(v2)
    BY <1>15 DEF Fills
  <2> QED
    BY <1>1, <1>2, <1>3, <1>11, <2>1, LoadRuns, CallOpcodeFacts DEF After
<1>17. /\ IsVM(v3) /\ v3.regs[reg] = ArrayValue(n - 1, values)
       /\ v3.regs[reg + 1] = values[n] /\ v3.regs[reg + 2] = Scalar(VMTypeNumber, bytes)
       /\ \A k \in File : k < reg => v3.regs[k] = vm.regs[k]
       /\ v3.stack = vm.stack /\ v3.trace = vm.trace
  <2>1. v2.regs[reg] = v1.regs[reg] /\ v3.regs[reg] = v2.regs[reg]
    BY <1>1, <1>15, <1>16 DEF Fills, Sets
  <2>2. v3.regs[reg + 1] = v2.regs[reg + 1]
    BY <1>1, <1>16 DEF Sets
  <2>3. ASSUME NEW k \in File, k < reg PROVE v3.regs[k] = vm.regs[k]
    <3>1. k \in Nat /\ k < reg + 1 /\ k # reg + 2
      BY <1>1, <2>3, FileFacts
    <3>2. v3.regs[k] = v2.regs[k]
      BY <1>16, <3>1 DEF Sets
    <3>3. v2.regs[k] = v1.regs[k]
      BY <1>15, <3>1 DEF Fills
    <3>4. v1.regs[k] = vm.regs[k]
      BY <1>14, <2>3 DEF Fills
    <3> QED
      BY <3>2, <3>3, <3>4
  <2> QED
    BY <1>14, <1>15, <1>16, <2>1, <2>2, <2>3 DEF Fills, Sets
<1>18. PICK value : value = Struct({f \in v3.regs[reg].fields : f[1] # n - 1}
                                   \cup {<<n - 1, v3.regs[reg + 1]>>})
  OBVIOUS
<1>19. Sets(v3, v4, reg, value)
  <2>1. n - 1 = Signed(v3.regs[reg + 2].data)
    <3>1. v3.regs[reg + 2].data = bytes
      BY <1>17 DEF Scalar
    <3> QED
      BY <1>2, <3>1
  <2>2. IsVM(v3)
    BY <1>17
  <2> QED
    BY <1>1, <1>4, <1>12, <1>18, <2>1, <2>2, PutRuns DEF After
<1>20. value = ArrayValue(n, values)
  BY <1>1, <1>17, <1>18, ArrayGrows
<1>21. Fills(vm, v4, reg, value)
  <2>1. ASSUME NEW k \in File, k < reg PROVE v4.regs[k] = vm.regs[k]
    <3>1. k # reg
      BY <1>1, <2>1, FileFacts
    <3>2. v4.regs[k] = v3.regs[k]
      BY <1>19, <3>1 DEF Sets
    <3> QED
      BY <1>17, <2>1, <3>2
  <2> QED
    BY <1>17, <1>19, <2>1 DEF Fills, Sets
<1>22. QED
  BY <1>13, <1>20, <1>21

LEMMA ArrayLoads ==
    ASSUME NEW reg \in File, reg <= LastArrayRegister, NEW count \in Nat,
           2 * count <= Base * Base, NEW items, NEW values,
           \A i \in 1..count : Whole(items[i]) /\ Loads(items[i], reg + 1, values[i])
    PROVE  Loads(ArrayCode(reg, count, items), reg, ArrayValue(count, values))
<1>1. PICK u : Turns(reg, count, items, u)
  BY ArraySteps
<1> DEFINE right(m) == Whole(u[m]) /\ Loads(u[m], reg, ArrayValue(m, values))
           S == {m \in Nat : m <= count => right(m)}
<1>2. 0 \in S
  <2>1. PICK c : c = Op(CAST, <<reg, reg, VMTypeNone>>)
    OBVIOUS
  <2>2. u[0] = c /\ Whole(c)
    BY <1>1, <2>1, CastWhole DEF Turns
  <2>3. ArrayValue(0, values) = Unset
    BY DEF ArrayValue
  <2>4. Loads(c, reg, Unset)
    <3>1. ASSUME NEW vm, IsVM(vm) PROVE Fills(vm, After(vm, c), reg, Unset)
      <4>1. PICK w : w = After(vm, c)
        OBVIOUS
      <4>2. Sets(vm, w, reg, Unset)
        BY <2>1, <3>1, <4>1, CastRuns DEF After
      <4>3. \A k \in File : k < reg => k # reg
        BY FileFacts
      <4> QED
        BY <4>1, <4>2, <4>3 DEF Sets, Fills
    <3> QED
      BY <3>1 DEF Loads
  <2> QED
    BY <2>2, <2>3, <2>4
<1>3. ASSUME NEW m \in Nat, m \in S, m + 1 <= count PROVE right(m + 1)
  <2>1. right(m)
    BY <1>3
  <2>2. PICK n \in 1..count : n = m + 1
    BY <1>3
  <2>3. u[n] = Put(reg, u[m], items[n], n)
    BY <1>1, <2>2 DEF Turns
  <2>4. ItemOf(reg, n) /\ n - 1 = m
    BY <2>2, BaseAssumption DEF ItemOf
  <2>5. Whole(items[n]) /\ Loads(items[n], reg + 1, values[n])
    OBVIOUS
  <2>6. PICK b : b = u[m]
    OBVIOUS
  <2>7. PICK e : e = items[n]
    OBVIOUS
  <2>8. Whole(b) /\ Whole(e) /\ Loads(b, reg, ArrayValue(n - 1, values))
        /\ Loads(e, reg + 1, values[n])
    BY <2>1, <2>4, <2>5, <2>6, <2>7
  <2>9. Whole(Put(reg, b, e, n))
    BY <2>4, <2>8, PutWhole, Zenon
  <2>10. Loads(Put(reg, b, e, n), reg, ArrayValue(n, values))
    BY <2>4, <2>8, PutLoads, Zenon
  <2> QED
    BY <2>2, <2>3, <2>6, <2>7, <2>9, <2>10
<1>4. ASSUME NEW m \in Nat, m \in S PROVE m + 1 \in S
  <2> HIDE DEF right
  <2> QED
    BY <1>3, <1>4
<1>5. Nat \subseteq S
  <2> HIDE DEF S
  <2> QED
    BY <1>2, <1>4, NumberInduction
<1>6. right(count)
  <2> HIDE DEF right
  <2> QED
    BY <1>5
<1>7. QED
  BY <1>1, <1>6 DEF Turns

\* An argument that is no array.
LEMMA ScalarLoads ==
    ASSUME NEW p \in Places, p[2].kind # "list", LoadableScalar(p[2])
    PROVE  Loads(LoadScalar(p[1], p[2]), p[1], DenoteScalar(p[2]))
<1>1. p[1] \in File /\ p[2].kind \in {"bad", "data", "time"}
  BY PlaceFacts DEF Kinds
<1>2. ASSUME NEW type \in Byte, NEW data \in Seq(Byte), ~TooLong(data)
      PROVE  Loads(Load(p[1], type, data), p[1], Scalar(type, data))
  <2>1. PICK reg \in File : reg = p[1]
    BY <1>1
  <2>2. ASSUME NEW vm, IsVM(vm)
        PROVE  Fills(vm, After(vm, Load(reg, type, data)), reg, Scalar(type, data))
    <3>1. PICK w : w = After(vm, Load(reg, type, data))
      OBVIOUS
    <3>2. Sets(vm, w, reg, Scalar(type, data))
      BY <1>2, <2>2, <3>1, LoadRuns DEF After
    <3>3. \A k \in File : k < reg => k # reg
      BY FileFacts
    <3> QED
      BY <3>1, <3>2, <3>3 DEF Sets, Fills
  <2> QED
    BY <2>1, <2>2 DEF Loads
<1>3. p[2].kind # "bad"
  BY DEF LoadableScalar
<1>4. CASE p[2].kind = "data"
  <2>1. /\ LoadScalar(p[1], p[2]) = Load(p[1], p[2].type, p[2].data)
        /\ DenoteScalar(p[2]) = Scalar(p[2].type, p[2].data)
    BY <1>4 DEF LoadScalar, DenoteScalar
  <2>2. p[2].type \in Byte /\ p[2].data \in Seq(Byte) /\ ~TooLong(p[2].data)
    BY <1>4, PlaceFacts DEF LoadableScalar
  <2> QED
    BY <1>2, <2>1, <2>2
<1>5. CASE p[2].kind = "time"
  <2>1. p[2].at \in 0..TimeMax
    BY <1>5 DEF LoadableScalar
  <2>2. /\ LoadScalar(p[1], p[2]) = Load(p[1], VMTypeTimestamp, TimeBytes(p[2].at))
        /\ DenoteScalar(p[2]) = Scalar(VMTypeTimestamp, TimeBytes(p[2].at))
    BY <1>5, <2>1 DEF LoadScalar, DenoteScalar
  <2>3. TimeBytes(p[2].at) \in Seq(Byte) /\ ~TooLong(TimeBytes(p[2].at))
    BY <2>1, TimeBytesShort
  <2> QED
    BY <1>2, <2>2, <2>3, CallOpcodeFacts
<1>6. QED
  BY <1>1, <1>3, <1>4, <1>5

\* What is known of a place once it is known of the places inside it.
Faithful(p) == Fitting[p] => Loads(Loaded[p], p[1], Denoted[p])

LEMMA StaysFaithful ==
    ASSUME NEW p \in Places, \A q \in Places : q[1] > p[1] => Faithful(q)
    PROVE  Faithful(p)
<1> SUFFICES ASSUME Fitting[p] PROVE Loads(Loaded[p], p[1], Denoted[p])
  BY DEF Faithful
<1>1. Loaded[p] = LoadBody(p, Loaded) /\ Denoted[p] = DenoteBody(p, Denoted)
  BY LoadedIs, DenotedIs
<1>2. Fitting[p] = FitsBody(p, Fitting)
  BY FittingIs
<1>3. CASE p[2].kind # "list"
  <2>1. Loaded[p] = LoadScalar(p[1], p[2]) /\ Denoted[p] = DenoteScalar(p[2])
    BY <1>1, <1>3 DEF LoadBody, DenoteBody
  <2>2. LoadableScalar(p[2])
    BY <1>2, <1>3, Zenon DEF FitsBody
  <2> QED
    BY <1>3, <2>1, <2>2, ScalarLoads
<1>4. CASE p[2].kind = "list"
  <2>1. p[1] + 3 <= MAX_REGISTER_COUNT
    BY <1>2, <1>4, Zenon DEF FitsBody
  <2>2. p[1] <= LastArrayRegister /\ ~(p[1] > LastArrayRegister)
    BY <2>1, PlaceFacts, FileFacts DEF LastArrayRegister
  <2>3. PICK count \in Nat : count = Len(p[2].items)
    BY <1>4, PlaceFacts
  <2>4. PICK items : items = [n \in 1..count |-> Loaded[<<p[1] + 1, p[2].items[n]>>]]
    OBVIOUS
  <2>5. PICK values : values = [n \in 1..count |-> Denoted[<<p[1] + 1, p[2].items[n]>>]]
    OBVIOUS
  <2>6. \A i \in 1..count : Fitting[<<p[1] + 1, p[2].items[i]>>]
    BY <1>2, <1>4, <2>3, Zenon DEF FitsBody
  <2>7. ASSUME NEW n \in 1..count
        PROVE  Whole(items[n]) /\ Loads(items[n], p[1] + 1, values[n])
    <3>1. PICK q \in Places : q = <<p[1] + 1, p[2].items[n]>>
      BY <1>4, <2>2, <2>3, PlaceFacts, Zenon
    <3>2. q[1] > p[1] /\ q[1] = p[1] + 1
      BY <3>1, PlaceFacts
    <3>3. items[n] = Loaded[q] /\ values[n] = Denoted[q] /\ Fitting[q]
      BY <2>4, <2>5, <2>6, <3>1
    <3>4. Faithful(q) /\ Settled(q)
      BY <3>2, LoadedWhole
    <3>5. Loads(items[n], p[1] + 1, values[n])
      BY <3>2, <3>3, <3>4 DEF Faithful
    <3> QED
      BY <3>3, <3>4, <3>5 DEF Settled
  <2>8. Loaded[p] = ArrayCode(p[1], count, items)
    BY <1>1, <1>4, <2>2, <2>3, <2>4, Zenon DEF LoadBody
  <2>9. Denoted[p] = ArrayValue(count, values)
    <3>1. p[2].items = <<>> <=> count = 0
      BY <1>4, <2>3, PlaceFacts, EmptySeq
    <3>2. CASE count = 0
      BY <1>1, <1>4, <3>1, <3>2, Zenon DEF DenoteBody, ArrayValue
    <3>3. CASE count # 0
      <4>1. Denoted[p] = Struct({<<i - 1, Denoted[<<p[1] + 1, p[2].items[i]>>]>> : i \in 1..count})
        BY <1>1, <1>4, <2>2, <2>3, <3>1, <3>3, Zenon DEF DenoteBody
      <4>2. {<<i - 1, Denoted[<<p[1] + 1, p[2].items[i]>>]>> : i \in 1..count}
              = {<<i - 1, values[i]>> : i \in 1..count}
        BY <2>5
      <4> QED
        BY <3>3, <4>1, <4>2 DEF ArrayValue
    <3> QED
      BY <3>2, <3>3
  <2>10. p[1] \in File /\ 2 * count <= Base * Base
    BY <1>4, <2>3, PlaceFacts
  <2>11. Loads(ArrayCode(p[1], count, items), p[1], ArrayValue(count, values))
    BY <2>2, <2>7, <2>10, ArrayLoads
  <2> QED
    BY <2>8, <2>9, <2>11
<1>5. QED
  BY <1>3, <1>4

LEMMA AlwaysFaithful == \A p \in Places : Faithful(p)
<1> DEFINE right(m) == \A p \in Places : MAX_REGISTER_COUNT - m <= p[1] => Faithful(p)
           S == {m \in Nat : right(m)}
<1>1. 0 \in S
  <2>1. ASSUME NEW p \in Places PROVE ~(MAX_REGISTER_COUNT - 0 <= p[1])
    BY PlaceFacts, FileFacts DEF File
  <2> QED
    BY <2>1
<1>2. ASSUME NEW m \in Nat, m \in S PROVE m + 1 \in S
  <2>1. ASSUME NEW p \in Places, MAX_REGISTER_COUNT - (m + 1) <= p[1] PROVE Faithful(p)
    <3>1. ASSUME NEW q \in Places, q[1] > p[1] PROVE Faithful(q)
      <4>1. MAX_REGISTER_COUNT - m <= q[1]
        BY <2>1, <3>1, PlaceFacts, FileFacts
      <4> QED
        BY <1>2, <4>1
    <3> QED
      BY <3>1, StaysFaithful
  <2> QED
    BY <2>1
<1>3. Nat \subseteq S
  <2> HIDE DEF S
  <2> QED
    BY <1>1, <1>2, NumberInduction
<1>4. ASSUME NEW p \in Places PROVE Faithful(p)
  <2>1. MAX_REGISTER_COUNT - MAX_REGISTER_COUNT <= p[1]
    BY PlaceFacts, FileFacts
  <2> QED
    BY <1>3, <2>1, FileFacts
<1>5. QED
  BY <1>4
-----------------------------------------------------------------------------
(* A call pushes its arguments, last one first, and finds them on the stack.  *)

\* The last m arguments are on the stack.
Stacked(w, V, args, m) ==
    /\ w.stack \in Seq(V) /\ Len(w.stack) = m
    /\ \A j \in 1..m : w.stack[j] = Denote(args[Len(args) - m + j])

LEMMA PushStacks ==
    ASSUME NEW vm, NEW V, NEW args \in Seq(Arguments), AllLoadable(args),
           \A j \in 1..Len(args) : Denote(args[j]) \in V,
           NEW n \in 1..Len(args), NEW before, Whole(before),
           IsVM(After(vm, before)), Stacked(After(vm, before), V, args, n - 1)
    PROVE  LET w == After(vm, Push(args, before, n))
           IN  /\ IsVM(w) /\ Stacked(w, V, args, n)
               /\ w.trace = After(vm, before).trace
<1>1. PICK k \in 1..Len(args) : k = Len(args) + 1 - n
  <2>1. Len(args) + 1 - n \in 1..Len(args)
    OBVIOUS
  <2> QED
    BY <2>1
<1>2. PICK v \in Arguments : v = args[k]
  OBVIOUS
<1>3. PICK c : c = LoadIntoRegister(0, v)
  OBVIOUS
<1>4. Whole(c) /\ Loads(c, 0, Denote(v))
  <2>1. PICK p \in Places : p = <<0, v>>
    <3>1. <<0, v>> \in Places
      BY FileFacts DEF Places, File
    <3> QED
      BY <3>1
  <2>2. c = Loaded[p] /\ Loadable(v) = Fitting[p] /\ Denote(v) = Denoted[p] /\ p[1] = 0
    BY <1>3, <2>1, LoadedIs, FittingIs, DenotedIs
  <2>3. Loadable(v)
    BY <1>2 DEF AllLoadable
  <2>4. Whole(Loaded[p]) /\ Faithful(p)
    BY LoadedWhole, AlwaysFaithful DEF Settled
  <2> QED
    BY <2>2, <2>3, <2>4 DEF Faithful
<1>5. PICK e : e = Op(PUSH, <<0>>)
  OBVIOUS
<1>6. Whole(e)
  BY <1>5, OneRegister, FileFacts
<1>7. PICK d : d = before ++ c
  OBVIOUS
<1>8. Whole(d)
  BY <1>4, <1>7, ChainedWhole
<1>9. Push(args, before, n) = d ++ e
  BY <1>1, <1>2, <1>3, <1>5, <1>7 DEF Push
<1>10. PICK v1 : v1 = After(vm, before)
  OBVIOUS
<1>11. PICK v2 : v2 = After(v1, c)
  OBVIOUS
<1>12. PICK v3 : v3 = After(v2, e)
  OBVIOUS
<1>13. After(vm, Push(args, before, n)) = v3
  <2>1. After(vm, d ++ e) = After(After(vm, d), e)
    BY <1>6, <1>8, RunChained
  <2>2. After(vm, before ++ c) = After(After(vm, before), c)
    BY <1>4, RunChained
  <2> QED
    BY <1>7, <1>9, <1>10, <1>11, <1>12, <2>1, <2>2
<1>14. Fills(v1, v2, 0, Denote(v))
  BY <1>4, <1>10, <1>11 DEF Loads
<1>15. /\ IsVM(v3) /\ v3.trace = v1.trace
       /\ v3.stack = <<Denote(v)>> \o v1.stack
  <2>1. IsVM(v2) /\ v2.regs[0] = Denote(v) /\ v2.stack = v1.stack /\ v2.trace = v1.trace
    BY <1>14 DEF Fills
  <2>2. IsVM(v3) /\ v3.stack = <<v2.regs[0]>> \o v2.stack /\ v3.trace = v2.trace
    BY <1>5, <1>12, <2>1, PushRuns DEF After
  <2> QED
    BY <2>1, <2>2
<1>16. PICK s \in Seq(V) : s = v1.stack
  BY <1>10 DEF Stacked
<1>17. PICK t \in Seq(V) : t = <<Denote(v)>>
  <2>1. <<Denote(v)>> \in Seq(V)
    BY <1>2
  <2> QED
    BY <2>1, Zenon
<1>18. Len(t) = 1 /\ t[1] = Denote(v)
  BY <1>17
<1>19. PICK r : r = t \o s
  OBVIOUS
<1>20. /\ r \in Seq(V) /\ Len(r) = Len(t) + Len(s)
       /\ \A j \in 1..Len(t) : r[j] = t[j]
       /\ \A j \in 1..Len(s) : r[Len(t) + j] = s[j]
  <2>1. t \in Seq(V) /\ s \in Seq(V)
    OBVIOUS
  <2> QED
    BY ONLY <1>19, <2>1, Parts
<1>21. Len(s) = n - 1 /\ \A j \in 1..(n - 1) : s[j] = Denote(args[Len(args) - (n - 1) + j])
  BY <1>10, <1>16 DEF Stacked
<1>22. ASSUME NEW j \in 1..n PROVE r[j] = Denote(args[Len(args) - n + j])
  <2>1. Len(args) \in Nat /\ n \in Nat /\ j \in Nat
    OBVIOUS
  <2>2. CASE j = 1
    <3>1. Len(args) - n + j = k /\ 1 \in 1..Len(t)
      BY <1>1, <1>18, <2>1, <2>2
    <3> QED
      BY <1>2, <1>18, <1>20, <2>2, <3>1
  <2>3. CASE j # 1
    <3>1. PICK i \in 1..(n - 1) : i = j - 1
      BY <2>1, <2>3
    <3>2. Len(t) + i = j /\ Len(args) - (n - 1) + i = Len(args) - n + j /\ i \in 1..Len(s)
      BY <1>18, <1>21, <2>1, <3>1
    <3>3. r[j] = s[i] /\ s[i] = Denote(args[Len(args) - (n - 1) + i])
      BY <1>20, <1>21, <3>2
    <3> QED
      BY <3>2, <3>3
  <2> QED
    BY <2>2, <2>3
<1>23. Len(r) = n
  BY <1>18, <1>20, <1>21
<1>24. v3.stack = r
  BY <1>15, <1>16, <1>17, <1>19
<1>25. Stacked(v3, V, args, n)
  BY <1>20, <1>22, <1>23, <1>24 DEF Stacked
<1>26. QED
  BY <1>10, <1>13, <1>15, <1>25

Denotations(args) == [j \in 1..Len(args) |-> Denote(args[j])]

LEMMA ArgsRuns ==
    ASSUME NEW args \in Seq(Arguments), AllLoadable(args),
           NEW vm, IsVM(vm), vm.stack = <<>>
    PROVE  LET w == After(vm, InsertMethodArgs(args))
           IN  /\ IsVM(w) /\ w.trace = vm.trace
               /\ w.stack = Denotations(args)
<1> DEFINE V == {Denote(args[j]) : j \in 1..Len(args)}
<1>0. \A j \in 1..Len(args) : Denote(args[j]) \in V
  OBVIOUS
<1> HIDE DEF V
<1>1. PICK count \in Nat : count = Len(args)
  OBVIOUS
<1>2. PICK u : /\ InsertMethodArgs(args) = u[count]
               /\ u[0] = Nothing
               /\ \A n \in 1..count : u[n] = Push(args, u[n - 1], n)
  BY <1>1, MethodArgsSteps
<1> DEFINE right(m) == /\ Whole(u[m]) /\ IsVM(After(vm, u[m]))
                       /\ Stacked(After(vm, u[m]), V, args, m)
                       /\ After(vm, u[m]).trace = vm.trace
           S == {m \in Nat : m <= count => right(m)}
<1>3. 0 \in S
  <2>1. Nothing = Failing(NoError) /\ Nothing.prog = <<>>
    BY DEF Nothing, Failing, Piece
  <2>2. Whole(Nothing)
    BY <2>1, NothingWhole
  <2>3. After(vm, Nothing) = vm
    BY <2>1, RunNothing DEF After
  <2>4. Stacked(vm, V, args, 0)
    BY DEF Stacked
  <2> QED
    BY <1>2, <2>2, <2>3, <2>4
<1>4. ASSUME NEW m \in Nat, m \in S, m + 1 <= count PROVE right(m + 1)
  <2>1. right(m)
    BY <1>4
  <2>2. PICK n \in 1..count : n = m + 1
    BY <1>4
  <2>3. PICK b : b = u[m]
    OBVIOUS
  <2>4. u[n] = Push(args, b, n) /\ n - 1 = m
    BY <1>2, <2>2, <2>3
  <2>5. Whole(b) /\ IsVM(After(vm, b)) /\ Stacked(After(vm, b), V, args, n - 1)
        /\ After(vm, b).trace = vm.trace
    BY <2>1, <2>3, <2>4
  <2>6. Whole(Push(args, b, n))
    BY <1>1, <2>5, PushWhole
  <2>7. /\ IsVM(After(vm, Push(args, b, n))) /\ Stacked(After(vm, Push(args, b, n)), V, args, n)
        /\ After(vm, Push(args, b, n)).trace = After(vm, b).trace
    BY <1>0, <1>1, <2>5, PushStacks
  <2> QED
    BY <2>2, <2>4, <2>5, <2>6, <2>7
<1>5. ASSUME NEW m \in Nat, m \in S PROVE m + 1 \in S
  <2> HIDE DEF right
  <2> QED
    BY <1>4, <1>5
<1>6. Nat \subseteq S
  <2> HIDE DEF S
  <2> QED
    BY <1>3, <1>5, NumberInduction
<1>7. right(count)
  <2> HIDE DEF right
  <2> QED
    BY <1>6
<1>8. PICK w : w = After(vm, InsertMethodArgs(args))
  OBVIOUS
<1>9. IsVM(w) /\ w.trace = vm.trace /\ Stacked(w, V, args, count)
  BY <1>2, <1>7, <1>8
<1>10. w.stack = Denotations(args)
  <2>1. PICK s \in Seq(V) : s = w.stack
    BY <1>9 DEF Stacked
  <2>2. Len(s) = count /\ \A j \in 1..count : s[j] = Denote(args[j])
    <3>1. \A j \in 1..count : count - count + j = j
      OBVIOUS
    <3> QED
      BY <1>1, <1>9, <2>1, <3>1 DEF Stacked
  <2>3. s = [j \in 1..count |-> s[j]]
    BY <2>2
  <2>4. s = [j \in 1..count |-> Denote(args[j])]
    BY <2>2, <2>3
  <2> QED
    BY <1>1, <2>1, <2>4 DEF Denotations
<1>11. QED
  BY <1>8, <1>9, <1>10
-----------------------------------------------------------------------------
(* Running a whole call.                                                     *)

LEMMA OnTop ==
    ASSUME NEW V, NEW x \in V, NEW s \in Seq(V)
    PROVE  Head(<<x>> \o s) = x /\ Tail(<<x>> \o s) = s
<1>1. PICK t \in Seq(V) : t = <<x>>
  <2>1. <<x>> \in Seq(V)
    OBVIOUS
  <2> QED
    BY <2>1, Zenon
<1>2. Len(t) = 1 /\ t[1] = x
  BY <1>1
<1>3. PICK r : r = t \o s
  OBVIOUS
<1>4. /\ r \in Seq(V) /\ Len(r) = 1 + Len(s) /\ r[1] = x
      /\ \A k \in 1..Len(s) : r[1 + k] = s[k]
  <2>1. t \in Seq(V) /\ s \in Seq(V)
    OBVIOUS
  <2>2. /\ r \in Seq(V) /\ Len(r) = Len(t) + Len(s)
        /\ \A k \in 1..Len(t) : r[k] = t[k]
        /\ \A k \in 1..Len(s) : r[Len(t) + k] = s[k]
    BY ONLY <1>3, <2>1, Parts
  <2> QED
    BY <1>2, <2>2
<1>5. Head(r) = x
  BY <1>4
<1>6. Tail(r) = s
  <2>1. Tail(r) \in Seq(V) /\ Len(Tail(r)) = Len(s)
    BY <1>4
  <2>2. \A k \in 1..Len(s) : Tail(r)[k] = s[k]
    BY <1>4
  <2> QED
    BY <2>1, <2>2
<1>7. QED
  BY <1>1, <1>3, <1>5, <1>6

LEMMA LoadTextRuns ==
    ASSUME NEW vm, IsVM(vm), NEW text \in Seq(Byte), ~TooLong(text)
    PROVE  LET w == After(vm, Load(0, VMTypeString, text))
           IN  /\ IsVM(w) /\ w.regs[0] = Scalar(VMTypeString, text) /\ w.regs[0].data = text
               /\ w.stack = vm.stack /\ w.trace = vm.trace
<1>1. PICK w : w = After(vm, Load(0, VMTypeString, text))
  OBVIOUS
<1>2. Sets(vm, w, 0, Scalar(VMTypeString, text))
  BY <1>1, LoadRuns, FileFacts, CallOpcodeFacts DEF After
<1>3. Scalar(VMTypeString, text).data = text
  BY DEF Scalar
<1>4. /\ IsVM(w) /\ w.regs[0] = Scalar(VMTypeString, text) /\ w.regs[0].data = text
      /\ w.stack = vm.stack /\ w.trace = vm.trace
  BY <1>2, <1>3 DEF Sets
<1>5. QED
  BY <1>1, <1>4

LEMMA InteropRuns ==
    ASSUME NEW method \in Seq(Byte), NEW args \in Seq(Arguments),
           Fine(InteropCode(method, args)), NEW vm, IsVM(vm), vm.stack = <<>>
    PROVE  Calls(vm, After(vm, InteropCode(method, args)), <<>>, method, Denotations(args))
<1>1. AllLoadable(args) /\ ~TooLong(method)
  BY InteropWhole
<1>2. PICK a : a = InsertMethodArgs(args)
  OBVIOUS
<1>3. PICK b : b = Load(0, VMTypeString, method)
  OBVIOUS
<1>4. PICK c : c = Op(EXTCALL, <<0>>)
  OBVIOUS
<1>5. Whole(a) /\ Whole(b) /\ Whole(c)
  BY <1>2, <1>3, <1>4, MethodArgsWhole, LoadText, OneRegister, FileFacts
<1>6. PICK ab : ab = a ++ b
  OBVIOUS
<1>7. Whole(ab)
  BY <1>5, <1>6, ChainedWhole
<1>8. InteropCode(method, args) = ab ++ c
  BY <1>2, <1>3, <1>4, <1>6 DEF InteropCode
<1>9. PICK v1 : v1 = After(vm, a)
  OBVIOUS
<1>10. PICK v2 : v2 = After(v1, b)
  OBVIOUS
<1>11. PICK v3 : v3 = After(v2, c)
  OBVIOUS
<1>12. After(vm, InteropCode(method, args)) = v3
  <2>1. After(vm, a ++ b) = After(After(vm, a), b)
    BY <1>5, RunChained
  <2>2. After(vm, ab ++ c) = After(After(vm, ab), c)
    BY <1>5, <1>7, RunChained
  <2> QED
    BY <1>6, <1>8, <1>9, <1>10, <1>11, <2>1, <2>2
<1>13. IsVM(v1) /\ v1.trace = vm.trace /\ v1.stack = Denotations(args)
  BY <1>1, <1>2, <1>9, ArgsRuns
<1>14. IsVM(v2) /\ v2.regs[0].data = method /\ v2.stack = v1.stack /\ v2.trace = v1.trace
  BY <1>1, <1>3, <1>10, <1>13, LoadTextRuns
<1>15. Calls(v2, v3, <<>>, v2.regs[0].data, v2.stack)
  BY <1>4, <1>11, <1>14, ExtCallRuns DEF After
<1>16. Calls(vm, v3, <<>>, method, Denotations(args))
  BY <1>13, <1>14, <1>15 DEF Calls
<1>17. QED
  BY <1>12, <1>16

LEMMA ContractRuns ==
    ASSUME NEW contract \in Seq(Byte), NEW method \in Seq(Byte), NEW args \in Seq(Arguments),
           Fine(ContractCode(contract, method, args)), NEW vm, IsVM(vm), vm.stack = <<>>
    PROVE  Calls(vm, After(vm, ContractCode(contract, method, args)),
                 contract, method, Denotations(args))
<1>1. AllLoadable(args) /\ ~TooLong(method) /\ ~TooLong(contract)
  BY ContractWhole
<1>2. PICK a : a = InsertMethodArgs(args)
  OBVIOUS
<1>3. PICK b : b = Load(0, VMTypeString, method)
  OBVIOUS
<1>4. PICK c : c = Op(PUSH, <<0>>)
  OBVIOUS
<1>5. PICK d : d = Load(0, VMTypeString, contract)
  OBVIOUS
<1>6. PICK e : e = Op(CTX, <<0, 1>>)
  OBVIOUS
<1>7. PICK f : f = Op(SWITCH, <<1>>)
  OBVIOUS
<1>8. Whole(a) /\ Whole(b) /\ Whole(c) /\ Whole(d) /\ Whole(e) /\ Whole(f)
  <2>1. Whole(a) /\ Whole(b) /\ Whole(d)
    BY <1>2, <1>3, <1>5, MethodArgsWhole, LoadText
  <2>2. Whole(c) /\ Whole(f) /\ Whole(e)
    BY <1>4, <1>6, <1>7, OneRegister, FileFacts, TwoRegisters
  <2> QED
    BY <2>1, <2>2
<1>9. PICK ab : ab = a ++ b
  OBVIOUS
<1>10. PICK abc : abc = ab ++ c
  OBVIOUS
<1>11. PICK abcd : abcd = abc ++ d
  OBVIOUS
<1>12. PICK abcde : abcde = abcd ++ e
  OBVIOUS
<1>13. Whole(ab)
  BY <1>8, <1>9, ChainedWhole
<1>14. Whole(abc)
  BY <1>8, <1>10, <1>13, ChainedWhole
<1>15. Whole(abcd)
  BY <1>8, <1>11, <1>14, ChainedWhole
<1>16. Whole(abcde)
  BY <1>8, <1>12, <1>15, ChainedWhole
<1>17. ContractCode(contract, method, args) = abcde ++ f
  BY <1>2, <1>3, <1>4, <1>5, <1>6, <1>7, <1>9, <1>10, <1>11, <1>12 DEF ContractCode
<1>18. PICK v1 : v1 = After(vm, a)
  OBVIOUS
<1>19. PICK v2 : v2 = After(v1, b)
  OBVIOUS
<1>20. PICK v3 : v3 = After(v2, c)
  OBVIOUS
<1>21. PICK v4 : v4 = After(v3, d)
  OBVIOUS
<1>22. PICK v5 : v5 = After(v4, e)
  OBVIOUS
<1>23. PICK v6 : v6 = After(v5, f)
  OBVIOUS
<1>24. After(vm, ContractCode(contract, method, args)) = v6
  <2>1. After(vm, ab) = v2
    <3>1. After(vm, a ++ b) = After(After(vm, a), b)
      BY <1>8, RunChained
    <3> QED
      BY <1>9, <1>18, <1>19, <3>1
  <2>2. After(vm, abc) = v3
    <3>1. After(vm, ab ++ c) = After(After(vm, ab), c)
      BY <1>8, <1>13, RunChained
    <3> QED
      BY <1>10, <1>20, <2>1, <3>1
  <2>3. After(vm, abcd) = v4
    <3>1. After(vm, abc ++ d) = After(After(vm, abc), d)
      BY <1>8, <1>14, RunChained
    <3> QED
      BY <1>11, <1>21, <2>2, <3>1
  <2>4. After(vm, abcde) = v5
    <3>1. After(vm, abcd ++ e) = After(After(vm, abcd), e)
      BY <1>8, <1>15, RunChained
    <3> QED
      BY <1>12, <1>22, <2>3, <3>1
  <2>5. After(vm, abcde ++ f) = After(After(vm, abcde), f)
    BY <1>8, <1>16, RunChained
  <2> QED
    BY <1>17, <1>23, <2>4, <2>5
<1> DEFINE top == Scalar(VMTypeString, method)
           V == {Denote(args[j]) : j \in 1..Len(args)} \cup {top}
<1>25. IsVM(v1) /\ v1.trace = vm.trace /\ v1.stack = Denotations(args)
  BY <1>1, <1>2, <1>18, ArgsRuns
<1>26. IsVM(v2) /\ v2.regs[0] = top /\ v2.stack = v1.stack /\ v2.trace = v1.trace
  BY <1>1, <1>3, <1>19, <1>25, LoadTextRuns
<1>27. IsVM(v3) /\ v3.stack = <<top>> \o v2.stack /\ v3.trace = v2.trace
  <2>1. v3 = Run(v2, Op(PUSH, <<0>>).prog)
    BY <1>4, <1>20 DEF After
  <2>2. IsVM(v3) /\ v3.stack = <<v2.regs[0]>> \o v2.stack /\ v3.trace = v2.trace
    BY <1>26, <2>1, PushRuns
  <2> QED
    BY <1>26, <2>2
<1>28. IsVM(v4) /\ v4.regs[0].data = contract /\ v4.stack = v3.stack /\ v4.trace = v3.trace
  BY <1>1, <1>5, <1>21, <1>27, LoadTextRuns
<1>29. IsVM(v5) /\ v5.regs[1] = v4.regs[0] /\ v5.stack = v4.stack /\ v5.trace = v4.trace
  <2>1. v5 = Run(v4, Op(CTX, <<0, 1>>).prog)
    BY <1>6, <1>22 DEF After
  <2> QED
    BY <1>28, <2>1, CtxRuns DEF Sets
<1>30. Head(v5.stack).data = method /\ Tail(v5.stack) = Denotations(args)
  <2>1. v5.stack = <<top>> \o Denotations(args)
    BY <1>25, <1>26, <1>27, <1>28, <1>29
  <2>2. Denotations(args) \in Seq(V)
    BY DEF Denotations
  <2>3. top \in V /\ top.data = method
    BY DEF Scalar
  <2>4. Head(v5.stack) = top /\ Tail(v5.stack) = Denotations(args)
    <3> HIDE DEF V, top
    <3> QED
      BY <2>1, <2>2, <2>3, OnTop
  <2> QED
    BY <2>3, <2>4
<1>31. Calls(v5, v6, v5.regs[1].data, Head(v5.stack).data, Tail(v5.stack))
  BY <1>7, <1>23, <1>29, SwitchRuns DEF After
<1>32. v5.regs[1].data = contract /\ v5.trace = vm.trace
  BY <1>25, <1>26, <1>27, <1>28, <1>29
<1>33. Calls(vm, v6, contract, method, Denotations(args))
  BY <1>30, <1>31, <1>32 DEF Calls
<1>34. QED
  BY <1>24, <1>33
-----------------------------------------------------------------------------
(* What has been written so far makes the calls asked for so far.            *)

Expected == [i \in 1..Len(requested) |-> Meant(requested[i])]

Unended(code) == \A i \in 1..Len(code) : code[i].op # RET

\* The machine is ready for another call, and has made these.
Ready(w, made) == IsVM(w) /\ w.stack = <<>> /\ w.trace = made

RunInv ==
    /\ (error = NoError /\ Unended(prog)) => Ready(Run(Boot, prog), Expected)
    /\ (result.kind = "script" /\ EndedOnce) => Run(Boot, prog).trace = Expected

LEMMA InitRun == CallInit => RunInv
<1> SUFFICES ASSUME CallInit PROVE RunInv
  OBVIOUS
<1>1. prog = <<>> /\ requested = <<>> /\ result.kind # "script"
  BY DEF CallInit, Init, Self
<1>2. PICK b : b = Boot
  OBVIOUS
<1>3. IsVM(b) /\ b.stack = <<>> /\ b.trace = <<>>
  BY <1>2 DEF IsVM, Boot, File
<1>4. Run(Boot, prog) = b
  BY <1>1, <1>2, RunNothing
<1>5. Expected = <<>>
  BY <1>1 DEF Expected
<1>6. QED
  BY <1>1, <1>3, <1>4, <1>5 DEF RunInv, Ready

LEMMA ExpectedGrows ==
    ASSUME requested \in Seq(Requests), NEW q \in Requests,
           requested' = Append(requested, q)
    PROVE  Expected' = Append(Expected, Meant(q))
<1>1. PICK n \in Nat : n = Len(requested)
  OBVIOUS
<1>2. PICK r : r = requested'
  OBVIOUS
<1>3. Len(r) = n + 1 /\ r[n + 1] = q /\ \A i \in 1..n : r[i] = requested[i]
  BY <1>1, <1>2
<1>4. Expected = [i \in 1..n |-> Meant(requested[i])]
  BY <1>1 DEF Expected
<1>5. Expected' = [i \in 1..(n + 1) |-> Meant(r[i])]
  BY <1>2, <1>3 DEF Expected, Meant
<1> DEFINE V == {Meant(r[i]) : i \in 1..(n + 1)}
<1>6. PICK s \in Seq(V) : s = [i \in 1..n |-> Meant(r[i])]
  <2>1. [i \in 1..n |-> Meant(r[i])] \in Seq(V)
    <3>1. \A i \in 1..n : i \in 1..(n + 1)
      OBVIOUS
    <3> QED
      BY <3>1
  <2> QED
    BY <2>1, Zenon
<1>7. Len(s) = n /\ \A i \in 1..n : s[i] = Meant(r[i])
  BY <1>6
<1>8. Expected = s
  BY <1>3, <1>4, <1>6
<1>9. PICK v \in V : v = Meant(q)
  <2>1. n + 1 \in 1..(n + 1)
    OBVIOUS
  <2> QED
    BY <1>3, <2>1
<1> HIDE DEF V
<1>10. PICK t \in Seq(V) : t = Append(s, v)
  <2>1. Append(s, v) \in Seq(V)
    OBVIOUS
  <2> QED
    BY <2>1, Zenon
<1>11. Len(t) = n + 1 /\ t[n + 1] = v /\ \A i \in 1..n : t[i] = s[i]
  BY <1>7, <1>10
<1>12. \A i \in 1..(n + 1) : t[i] = Meant(r[i])
  <2>1. \A i \in 1..(n + 1) : i = n + 1 \/ i \in 1..n
    OBVIOUS
  <2> QED
    BY <1>3, <1>7, <1>9, <1>11, <2>1
<1>13. t = [i \in 1..(n + 1) |-> Meant(r[i])]
  <2>1. t = [i \in 1..(n + 1) |-> t[i]]
    BY <1>11
  <2> QED
    BY <1>12, <2>1
<1>14. QED
  BY <1>5, <1>8, <1>9, <1>10, <1>13

\* Writing the code of a call that has been noted.
LEMMA CallRunStep ==
    ASSUME Known, RunInv, NEW c, Whole(c), NEW q \in Requests,
           Write(c.code, c.prog, c.err), requested' = Append(requested, q),
           Fine(c) => \A vm : IsVM(vm) /\ vm.stack = <<>> =>
             Calls(vm, After(vm, c), q.contract, q.method, Denotations(q.args))
    PROVE  RunInv'
<1>1. /\ prog \in Seq(CallEntries \cup {Ending}) /\ requested \in Seq(Requests)
      /\ c.prog \in Seq(CallEntries \cup {Ending})
  <2>1. c.prog \in Seq(CallEntries)
    BY DEF Whole, Pieces
  <2> QED
    BY <2>1 DEF Known, CallInv
<1>2. prog' = prog \o c.prog /\ result'.kind # "script"
  BY DEF Write, Self
<1>3. ASSUME error' = NoError, Unended(prog') PROVE Ready(Run(Boot, prog'), Expected')
  <2>1. error = NoError /\ Fine(c)
    BY <1>3 DEF Write, FirstError, Fine
  <2>2. Unended(prog)
    <3>1. \A i \in 1..Len(prog) : i \in 1..Len(prog') /\ prog'[i] = prog[i]
      <4>1. /\ Len(prog \o c.prog) = Len(prog) + Len(c.prog)
            /\ \A i \in 1..Len(prog) : (prog \o c.prog)[i] = prog[i]
        BY ONLY <1>1, Parts
      <4>2. Len(prog) \in Nat /\ Len(c.prog) \in Nat
        BY <1>1
      <4> QED
        BY <1>2, <4>1, <4>2
    <3> QED
      BY <1>3, <3>1 DEF Unended
  <2>3. PICK v : v = Run(Boot, prog)
    OBVIOUS
  <2>4. IsVM(v) /\ v.stack = <<>> /\ v.trace = Expected
    BY <2>1, <2>2, <2>3 DEF RunInv, Ready
  <2>5. PICK w : w = After(v, c)
    OBVIOUS
  <2>6. Run(Boot, prog') = w
    <3>1. Run(Boot, prog \o c.prog) = Run(Run(Boot, prog), c.prog)
      BY <1>1, RunBoth
    <3> QED
      BY <1>2, <2>3, <2>5, <3>1 DEF After
  <2>7. Calls(v, w, q.contract, q.method, Denotations(q.args))
    BY <2>1, <2>4, <2>5
  <2>8. Meant(q) = [contract |-> q.contract, method |-> q.method, args |-> Denotations(q.args)]
    BY DEF Meant, Denotations
  <2>9. IsVM(w) /\ w.stack = <<>> /\ w.trace = Append(v.trace, Meant(q))
    BY <2>7, <2>8 DEF Calls
  <2>10. Expected' = Append(Expected, Meant(q))
    BY <1>1, ExpectedGrows
  <2> QED
    BY <2>4, <2>6, <2>9, <2>10 DEF Ready
<1>4. QED
  BY <1>2, <1>3 DEF RunInv

\* The RET changes nothing but whether the machine goes on.
LEMMA EndRuns ==
    ASSUME NEW vm, IsVM(vm)
    PROVE  Run(vm, <<Ending>>).trace = vm.trace
<1>1. PICK args : args = <<>>
  OBVIOUS
<1>2. Run(vm, <<Instr(RET, args, <<>>)>>) = Exec(vm, RET, args, <<>>)
  BY EntryRuns
<1>3. Exec(vm, RET, args, <<>>) = [vm EXCEPT !.running = FALSE]
  BY OpcodesDiffer, Zenon DEF Exec
<1>4. [vm EXCEPT !.running = FALSE].trace = vm.trace
  BY DEF IsVM
<1>5. QED
  BY <1>1, <1>2, <1>3, <1>4 DEF Ending

LEMMA EndRunStep ==
    ASSUME Known, RunInv, EndScript, requested' = requested
    PROVE  RunInv'
<1>1. prog \in Seq(CallEntries \cup {Ending}) /\ prog' = Append(prog, Ending)
  BY DEF EndScript, Known, CallInv, Ending
<1>2. /\ Len(prog) \in Nat /\ Len(prog') = Len(prog) + 1 /\ prog'[Len(prog) + 1] = Ending
      /\ \A i \in 1..Len(prog) : prog'[i] = prog[i]
  BY <1>1
<1>3. ~Unended(prog')
  <2>1. Len(prog) + 1 \in 1..Len(prog') /\ Ending.op = RET
    BY <1>2 DEF Ending, Instr
  <2> QED
    BY <1>2, <2>1 DEF Unended
<1>4. Expected' = Expected
  BY DEF Expected, Meant
<1>5. ASSUME result'.kind = "script", EndedOnce' PROVE Run(Boot, prog').trace = Expected'
  <2>1. error = NoError
    <3>1. error # NoError => result' = Failure(error)
      BY DEF EndScript
    <3> QED
      BY <1>5, <3>1 DEF Failure
  <2>2. Unended(prog)
    <3>1. \A i \in 1..Len(prog) : i \in 1..(Len(prog') - 1)
      BY <1>2
    <3> QED
      BY <1>2, <1>5, <3>1 DEF Unended, EndedOnce
  <2>3. PICK v : v = Run(Boot, prog)
    OBVIOUS
  <2>4. IsVM(v) /\ v.trace = Expected
    BY <2>1, <2>2, <2>3 DEF RunInv, Ready
  <2>5. Run(Boot, prog') = Run(v, <<Ending>>)
    <3>1. PICK d \in Seq(CallEntries \cup {Ending}) : d = <<Ending>>
      <4>1. <<Ending>> \in Seq(CallEntries \cup {Ending})
        OBVIOUS
      <4> QED
        BY <4>1, Zenon
    <3>2. prog' = prog \o d
      BY <1>1, <3>1, AppendIsConcat
    <3>3. Run(Boot, prog \o d) = Run(Run(Boot, prog), d)
      BY <1>1, RunBoth
    <3> QED
      BY <2>3, <3>1, <3>2, <3>3
  <2>6. Run(v, <<Ending>>).trace = v.trace
    BY <2>4, EndRuns
  <2> QED
    BY <1>4, <2>4, <2>5, <2>6
<1>6. QED
  BY <1>3, <1>5 DEF RunInv

LEMMA RunStep == Known /\ RunInv /\ [CallNext]_callVars => RunInv'
<1> SUFFICES ASSUME Known, RunInv, [CallNext]_callVars PROVE RunInv'
  OBVIOUS
<1>1. ASSUME NEW m \in Methods, NEW args \in Args, CallInterop(m, args) PROVE RunInv'
  <2>1. PICK c : c = InteropCode(m, args)
    OBVIOUS
  <2>2. m \in Seq(Byte) /\ args \in Seq(Arguments)
    BY ArgsAreArguments, CallsAssumption
  <2>3. PICK q : q = [contract |-> <<>>, method |-> m, args |-> args]
    OBVIOUS
  <2>4. q \in Requests /\ q.contract = <<>> /\ q.method = m /\ q.args = args
    BY <2>2, <2>3 DEF Requests
  <2>5. Write(c.code, c.prog, c.err) /\ requested' = Append(requested, q)
    BY <1>1, <2>1, <2>3 DEF CallInterop, Request
  <2>6. Whole(c)
    BY <2>1, <2>2, InteropWhole
  <2>7. ASSUME Fine(c), NEW vm, IsVM(vm), vm.stack = <<>>
        PROVE  Calls(vm, After(vm, c), q.contract, q.method, Denotations(q.args))
    <3>1. Calls(vm, After(vm, c), <<>>, m, Denotations(args))
      BY <2>1, <2>2, <2>7, InteropRuns
    <3> QED
      BY <2>4, <3>1
  <2> QED
    BY <2>4, <2>5, <2>6, <2>7, CallRunStep
<1>2. ASSUME NEW k \in Contracts, NEW m \in Methods, NEW args \in Args,
             CallContract(k, m, args)
      PROVE  RunInv'
  <2>1. PICK c : c = ContractCode(k, m, args)
    OBVIOUS
  <2>2. k \in Seq(Byte) /\ m \in Seq(Byte) /\ args \in Seq(Arguments)
    BY ArgsAreArguments, CallsAssumption
  <2>3. PICK q : q = [contract |-> k, method |-> m, args |-> args]
    OBVIOUS
  <2>4. q \in Requests /\ q.contract = k /\ q.method = m /\ q.args = args
    BY <2>2, <2>3 DEF Requests
  <2>5. Write(c.code, c.prog, c.err) /\ requested' = Append(requested, q)
    BY <1>2, <2>1, <2>3 DEF CallContract, Request
  <2>6. Whole(c)
    BY <2>1, <2>2, ContractWhole
  <2>7. ASSUME Fine(c), NEW vm, IsVM(vm), vm.stack = <<>>
        PROVE  Calls(vm, After(vm, c), q.contract, q.method, Denotations(q.args))
    <3>1. Calls(vm, After(vm, c), k, m, Denotations(args))
      BY <2>1, <2>2, <2>7, ContractRuns
    <3> QED
      BY <2>4, <3>1
  <2> QED
    BY <2>4, <2>5, <2>6, <2>7, CallRunStep
<1>3. CASE CallTextRejected
  <2>1. error' # NoError /\ result'.kind # "script"
    BY <1>3 DEF CallTextRejected, Fail, FirstError, NoError, Self
  <2> QED
    BY <2>1 DEF RunInv
<1>4. CASE EndScript /\ requested' = requested
  BY <1>4, EndRunStep
<1>5. CASE UNCHANGED callVars
  <2>1. UNCHANGED <<error, prog, result, requested>>
    BY <1>5 DEF callVars, vars
  <2>2. Expected' = Expected /\ (Unended(prog))' = Unended(prog) /\ EndedOnce' = EndedOnce
    BY <2>1 DEF Expected, Meant, Unended, EndedOnce
  <2> QED
    BY <2>1, <2>2 DEF RunInv, Ready
<1>6. QED
  BY <1>1, <1>2, <1>3, <1>4, <1>5 DEF CallNext

\* What is returned decodes to what was written, which is all that running reads.
LEMMA ReturnedRuns ==
    ASSUME Known, result.kind = "script"
    PROVE  Run(Boot, Decode(result.bytes)) = Run(Boot, prog)
<1>1. taint = {} /\ prog \in Seq(CallEntries \cup {Ending})
  BY DEF Known, CallInv
<1>2. PICK n \in Nat : n = Len(prog)
  BY <1>1
<1>3. PICK code : code = Decode(result.bytes)
  OBVIOUS
<1>4. /\ Len(code) = Len(prog)
      /\ \A k \in 1..Len(prog) :
           /\ code[k].op = prog[k].op /\ code[k].data = prog[k].data
           /\ prog[k].goto = <<>> => code[k].args = prog[k].args
  BY <1>1, <1>3, ScriptDecodes, Zenon DEF Known
<1>5. ASSUME NEW k \in 1..Len(prog) PROVE prog[k].goto = <<>>
  <2>1. PICK e \in CallEntries \cup {Ending} : e = prog[k]
    BY <1>1
  <2>2. e.goto = <<>>
    BY DEF CallEntries, Ending, Instr
  <2> QED
    BY <2>1, <2>2
<1>6. \A k \in 1..n : /\ code[k].op = prog[k].op /\ code[k].args = prog[k].args
                      /\ code[k].data = prog[k].data
  BY <1>2, <1>4, <1>5
<1>7. QED
  BY <1>2, <1>3, <1>4, <1>6, RunAlike

\* Running a returned script makes exactly the calls that were asked for, in
\* their order, each finding its arguments on the stack with the first on top
\* and arrays complete: call_interop, call_contract and _load_into_register.
THEOREM AlwaysExecutesRequestedCalls == CallSpec => []ExecutesRequestedCalls
<1>1. Known /\ RunInv => ExecutesRequestedCalls
  BY ReturnedRuns DEF RunInv, ExecutesRequestedCalls, Expected
<1>2. CallSpec => []RunInv
  BY AlwaysKnown, InitRun, RunStep, PTL DEF CallSpec
<1>3. QED
  BY <1>1, <1>2, AlwaysKnown, PTL
=============================================================================
