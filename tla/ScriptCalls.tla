----------------------------- MODULE ScriptCalls -----------------------------
(***************************************************************************)
(* The calling helpers of vm.ScriptBuilder: call_interop, call_contract    *)
(* and the named helpers over them, with the recursive register            *)
(* allocation of _load_into_register.  What a script means is read off a   *)
(* small model of the VM that runs it: registers, one stack, and the       *)
(* external calls it makes.                                                *)
(***************************************************************************)
EXTENDS ScriptBuilder

CONSTANTS
    Values,     \* Python arguments that are passed, see below
    Arguments,  \* those, and the items of the arrays among them at any depth
    MaxArgs,    \* bound: arguments of one call
    Methods,    \* encoded method names
    Contracts   \* encoded contract names

\* The index of an item is a number of at most two bytes (NumberBytes).
ASSUME CallsAssumption ==
    /\ Values \subseteq Arguments
    /\ \A v \in Arguments :
         \/ v.kind = "bad"
         \/ v.kind = "data" /\ v.type \in Byte /\ v.data \in Seq(Byte)
         \/ v.kind = "time" /\ v.at \in Int
         \/ /\ v.kind = "list" /\ v.items \in Seq(Arguments)
            /\ 2 * Len(v.items) <= Base * Base
    /\ MaxArgs \in Nat
    /\ \A m \in Methods \cup Contracts : m \in Seq(Byte)

VARIABLE requested  \* history: the calls the caller asked for

callVars == <<vars, requested>>

\* A Python argument: kind "data" has a VM type and encoded bytes; "time" has
\* seconds; "list" has items; "bad" is None or an unsupported type.
DataValue(type, data) == [kind |-> "data", type |-> type, data |-> data]
TimeValue(t) == [kind |-> "time", at |-> t]
ListValue(items) == [kind |-> "list", items |-> items]
BadValue == [kind |-> "bad"]

VMTypeNone == 0
VMTypeNumber == 3

\* A slip of NumberBytes: no room for the sign.
NumberBytesUnsigned(n) == IF n < Base THEN <<n>> ELSE U16(n)

\* _big_int_to_csharp_bytes of an array index: the fewest bytes that leave
\* room for the sign.
NumberBytes(n) == IF 2 * n < Base THEN <<n>> ELSE U16(n)

\* What a method writes: bytes, the instructions they are, the first failure.
Piece(code, entries, err) == [code |-> code, prog |-> entries, err |-> err]

Nothing == Piece(<<>>, <<>>, NoError)

Failing(e) == Piece(<<>>, <<>>, e)

a ++ b == Piece(a.code \o b.code, a.prog \o b.prog,
                IF a.err = NoError THEN b.err ELSE a.err)

Op(op, args) == Piece(<<op>> \o args, <<Instr(op, args, <<>>)>>, NoError)

Load(reg, type, data) ==
    IF TooLong(data) THEN Failing("load too long")
    ELSE Piece(<<LOAD, reg, type>> \o VarUint(Len(data)) \o data,
               <<Instr(LOAD, <<reg, type>>, data)>>, NoError)

\* A slip of LastArrayRegister: one register too many.
LastArrayRegisterOff == MAX_REGISTER_COUNT - 2

\* An array uses its own register and the two above it.
LastArrayRegister == MAX_REGISTER_COUNT - 3

\* The loop of _load_into_register over an array of this many items, given what
\* loading each of them into the register above writes.
ArrayCode(reg, count, items) ==
    LET upto[n \in 0..count] ==
          IF n = 0 THEN Op(CAST, <<reg, reg, VMTypeNone>>)
          ELSE upto[n - 1] ++ items[n]
                           ++ Load(reg + 2, VMTypeNumber, NumberBytes(n - 1))
                           ++ Op(PUT, <<reg + 1, reg, reg + 2>>)
    IN  upto[count]

\* A register, which is how many arrays are around it, and an argument.
Places == (0..(MAX_REGISTER_COUNT - 1)) \X Arguments

\* _load_into_register of an argument that is no array.
LoadScalar(reg, v) ==
    CASE v.kind = "bad" -> Failing("bad argument")
      [] v.kind = "data" -> Load(reg, v.type, v.data)
      [] v.kind = "time" -> IF v.at \in 0..TimeMax
                            THEN Load(reg, VMTypeTimestamp, TimeBytes(v.at))
                            ELSE Failing("bad timestamp")

\* _load_into_register: what it writes for an argument.
LoadIntoRegister(reg, arg) ==
    LET load[p \in Places] ==
          LET r == p[1]
              v == p[2]
          IN  IF v.kind # "list" THEN LoadScalar(r, v)
              ELSE IF r > LastArrayRegister THEN Failing("bad argument")
              ELSE ArrayCode(r, Len(v.items),
                             [n \in 1..Len(v.items) |-> load[<<r + 1, v.items[n]>>]])
    IN  load[<<reg, arg>>]

\* _insert_method_args: last argument first, each through register 0.
InsertMethodArgs(args) ==
    LET last[n \in 0..Len(args)] ==
          IF n = 0 THEN Nothing
          ELSE last[n - 1] ++ LoadIntoRegister(0, args[Len(args) + 1 - n])
                           ++ Op(PUSH, <<0>>)
    IN  last[Len(args)]

InteropCode(method, args) ==
    InsertMethodArgs(args) ++ Load(0, VMTypeString, method) ++ Op(EXTCALL, <<0>>)

ContractCode(contract, method, args) ==
    InsertMethodArgs(args)
    ++ Load(0, VMTypeString, method) ++ Op(PUSH, <<0>>)
    ++ Load(0, VMTypeString, contract)
    ++ Op(CTX, <<0, 1>>) ++ Op(SWITCH, <<1>>)

Request(contract, method, args) ==
    requested' = Append(requested,
                   [contract |-> contract, method |-> method, args |-> args])

\* call_interop, and the Runtime.* helpers over it.
CallInterop(method, args) ==
    LET c == InteropCode(method, args) IN
    /\ Call
    /\ Write(c.code, c.prog, c.err)
    /\ Request(<<>>, method, args)

\* call_contract, and the gas, stake and NFT helpers over it.
CallContract(contract, method, args) ==
    LET c == ContractCode(contract, method, args) IN
    /\ Call
    /\ Write(c.code, c.prog, c.err)
    /\ Request(contract, method, args)

\* The *_text helpers when Address.from_text rejects one of their addresses:
\* nothing has been written, and the exception becomes the retained error.
\* With good addresses they are the helper they name.
CallTextRejected ==
    /\ Call
    /\ Fail("bad address")
    /\ UNCHANGED requested

Args == UNION {[1..n -> Values] : n \in 0..MaxArgs}

CallInit == Init /\ requested = <<>>

CallNext ==
    \/ \E m \in Methods, args \in Args : CallInterop(m, args)
    \/ \E c \in Contracts, m \in Methods, args \in Args : CallContract(c, m, args)
    \/ CallTextRejected
    \/ EndScript /\ UNCHANGED requested

CallSpec == CallInit /\ [][CallNext]_callVars
-----------------------------------------------------------------------------
(* The VM: registers hold values, a struct being the set of its entries.   *)

Scalar(type, data) == [type |-> type, data |-> data, fields |-> {}]
Struct(fields) == [type |-> 1, data |-> <<>>, fields |-> fields]
Unset == Scalar(VMTypeNone, <<>>)

\* regs, stack, the external calls made so far, and whether a RET is to come.
Boot == [regs |-> [r \in 0..(MAX_REGISTER_COUNT - 1) |-> Unset],
         stack |-> <<>>, trace |-> <<>>, running |-> TRUE]

\* The number that the bytes of an index, one or two, stand for: little-endian
\* two's complement.
Signed(bytes) ==
    LET n == Len(bytes)
        magnitude == IF n = 1 THEN bytes[1] ELSE U16At(bytes, 0)
    IN  IF 2 * bytes[n] < Base THEN magnitude ELSE magnitude - Base^n

Exec(vm, op, args, data) ==
    LET r(k) == vm.regs[args[k]]
        Set(k, value) == [vm EXCEPT !.regs[args[k]] = value]
        Calling(contract, method, arguments) ==
            [vm EXCEPT !.stack = <<>>,
                       !.trace = Append(@, [contract |-> contract, method |-> method,
                                            args |-> arguments])]
    IN  CASE op = LOAD -> Set(1, Scalar(args[2], data))
          [] op = PUSH -> [vm EXCEPT !.stack = <<r(1)>> \o @]
          [] op = CAST -> Set(2, Unset)
          [] op = PUT ->
               LET index == Signed(r(3).data)
               IN  Set(2, Struct({f \in r(2).fields : f[1] # index}
                                 \cup {<<index, r(1)>>}))
          [] op = CTX -> Set(2, r(1))
          [] op = EXTCALL -> Calling(<<>>, r(1).data, vm.stack)
          [] op = SWITCH -> Calling(r(1).data, Head(vm.stack).data, Tail(vm.stack))
          [] op = RET -> [vm EXCEPT !.running = FALSE]
          [] OTHER -> vm

Step(vm, i) == IF vm.running THEN Exec(vm, i.op, i.args, i.data) ELSE vm

Run(vm, code) ==
    LET after[n \in 0..Len(code)] ==
          IF n = 0 THEN vm ELSE Step(after[n - 1], code[n])
    IN  after[Len(code)]

\* The VM value an argument stands for.  (A bad one, and an array nested deeper
\* than the registers allow, stand for none: see Loadable.)
DenoteScalar(v) ==
    CASE v.kind = "data" -> Scalar(v.type, v.data)
      [] v.kind = "time" -> Scalar(VMTypeTimestamp, TimeBytes(v.at))
      [] v.kind = "bad" -> Unset

Denote(arg) ==
    LET value[p \in Places] ==
          LET v == p[2]
          IN  IF v.kind # "list" THEN DenoteScalar(v)
              ELSE IF v.items = <<>> \/ p[1] > LastArrayRegister THEN Unset
              ELSE Struct({<<i - 1, value[<<p[1] + 1, v.items[i]>>]>> :
                             i \in 1..Len(v.items)})
    IN  value[<<0, arg>>]

\* The call that the VM makes for a request.
Meant(q) ==
    [contract |-> q.contract, method |-> q.method,
     args |-> [j \in 1..Len(q.args) |-> Denote(q.args[j])]]

\* No end_script before the last one has written a RET, which stops the VM.
EndedOnce == \A i \in 1..(Len(prog) - 1) : prog[i].op # RET

\* Running a finished script makes exactly the requested calls, in order,
\* each finding its arguments on the stack first argument on top, arrays
\* complete at every depth.  (call_interop, call_contract, the array code.)
ExecutesRequestedCalls ==
    (result.kind = "script" /\ EndedOnce) =>
        Run(Boot, Decode(result.bytes)).trace =
            [i \in 1..Len(requested) |-> Meant(requested[i])]

\* The operands of an instruction that are registers: the last one of LOAD and
\* of CAST is a type.
NamedRegisters(ins) ==
    CASE ins.op = LOAD -> {ins.args[1]}
      [] ins.op = CAST -> {ins.args[1], ins.args[2]}
      [] OTHER -> {ins.args[k] : k \in 1..Len(ins.args)}

\* However deep the arrays, no instruction of a finished script names a
\* register that the VM frame does not have (the limit in _load_into_register).
RegistersInFile ==
    result.kind = "script" =>
        LET code == Decode(result.bytes) IN
        \A i \in 1..Len(code) : NamedRegisters(code[i]) \subseteq 0..(MAX_REGISTER_COUNT - 1)

\* Can the argument be loaded?  (p[1]: the arrays around what is loaded.)
LoadableScalar(v) ==
    CASE v.kind = "data" -> ~TooLong(v.data)
      [] v.kind = "time" -> v.at \in 0..TimeMax
      [] v.kind = "bad" -> FALSE

Loadable(arg) ==
    LET fits[p \in Places] ==
          LET v == p[2]
          IN  IF v.kind # "list" THEN LoadableScalar(v)
              ELSE /\ p[1] + 3 <= MAX_REGISTER_COUNT
                   /\ \A i \in 1..Len(v.items) : fits[<<p[1] + 1, v.items[i]>>]
    IN  fits[<<0, arg>>]

\* An argument that cannot be loaded at any depth keeps the whole script from
\* being returned, although the instructions around it are still written.
BadArgumentsRefused ==
    result.kind = "script" =>
        \A i \in 1..Len(requested) :
            \A j \in 1..Len(requested[i].args) : Loadable(requested[i].args[j])
=============================================================================
