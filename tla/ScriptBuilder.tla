---------------------------- MODULE ScriptBuilder ----------------------------
(***************************************************************************)
(* vm.ScriptBuilder: the incremental bytecode builder.  One action per     *)
(* public method that changes the builder; a behaviour is one builder used *)
(* by one caller, who may catch an exception and go on.                    *)
(*                                                                         *)
(* Jumps are written as two zero bytes and patched when the script is      *)
(* finished, from a table of patch offsets and a table of label offsets.   *)
(* A rejected argument is either retained as the builder's first error     *)
(* (_fail) or raised from the middle of a method (_byte), which leaves the *)
(* bytes already written in the buffer.                                    *)
(***************************************************************************)
EXTENDS ScriptVM

CONSTANTS
    Registers,      \* register operands a caller passes, valid or not
    Labels,         \* label spellings
    Lower,          \* str.lower() on those spellings
    Payloads,       \* data passed to emit_load and friends, as bytes
    LoadTypes,      \* VMType operands of a LOAD
    Times,          \* unix seconds passed to emit_load_time
    RegisterCounts, \* register counts passed to emit_call
    JumpArguments,  \* opcodes passed to emit_jump and emit_conditional_jump
    RawChunks,      \* byte strings passed to emit_raw
    VarValues,      \* integers passed to emit_var_bytes
    MAX_REGISTER_COUNT, \* registers of a VM frame (32 in the code)
    MaxCalls        \* bound: builder methods called in one behaviour

ASSUME BuilderAssumption ==
    /\ Registers \subseteq Int
    /\ Lower \in [Labels -> Labels]
    /\ \A d \in Payloads : d \in Seq(Byte)
    /\ LoadTypes \subseteq Byte
    /\ Times \subseteq Int
    /\ RegisterCounts \subseteq Int
    /\ JumpArguments \subseteq Byte
    /\ \A c \in RawChunks : c \in Seq(Byte)
    /\ VarValues \subseteq Int
    /\ MAX_REGISTER_COUNT \in 3..255
    /\ MaxCalls \in Nat
    /\ Base <= 256

VARIABLES
    buffer,     \* _writer: the bytes emitted so far
    jumps,      \* _jump_locations: patch offset -> label as spelled
    labels,     \* _label_locations: lower-case label -> offset
    error,      \* _error: the first retained error
    result,     \* what the last call gave its caller
    prog,       \* history: the instructions the caller asked for
    taint,      \* history: {"raw"} and/or {"raised"}
    calls       \* number of methods called so far

vars == <<buffer, jumps, labels, error, result, prog, taint, calls>>

NoError == "none"
Errors == {"load too long", "bad timestamp", "bad jump opcode",
           "bad register count", "bad argument", "bad address"}
EndErrors == {"missing label", "target overflow", "bad patch offset"}

\* Outcomes of a call: the builder itself, an exception, a script, an error.
Self == [kind |-> "self", bytes |-> <<>>, err |-> NoError]
Raises == [kind |-> "raised", bytes |-> <<>>, err |-> NoError]
Done(kind, b) == [kind |-> kind, bytes |-> b, err |-> NoError]
Failure(e) == [kind |-> "error", bytes |-> <<>>, err |-> e]


Init ==
    /\ buffer = <<>>
    /\ jumps = << >>
    /\ labels = << >>
    /\ error = NoError
    /\ result = Self
    /\ prog = <<>>
    /\ taint = {}
    /\ calls = 0

\* An instruction the caller asked for.  mark: the label it defines; goto:
\* the label whose offset is its last operand; <<>> for neither.
Instr(op, args, data) ==
    [op |-> op, args |-> args, data |-> data, mark |-> <<>>, goto |-> <<>>]

Call == calls < MaxCalls /\ calls' = calls + 1

\* A slip of FirstError: the last message is kept.
LastError(e) == e

\* _fail: the first message is kept, later ones are dropped.
FirstError(e) == IF error = NoError THEN e ELSE error

Fail(e) ==
    /\ error' = FirstError(e)
    /\ result' = Self
    /\ UNCHANGED <<buffer, jumps, labels, prog, taint>>

\* An exception that leaves a method after it has written some bytes.
RaiseAfter(bytes) ==
    /\ buffer' = buffer \o bytes
    /\ taint' = taint \cup {"raised"}
    /\ result' = Raises
    /\ UNCHANGED <<jumps, labels, error, prog>>

\* A slip of Write: the failure of an argument is forgotten.
WriteForgetful(code, entries, e) ==
    /\ buffer' = buffer \o code
    /\ prog' = prog \o entries
    /\ result' = Self
    /\ UNCHANGED <<jumps, labels, error, taint>>

\* Whole instructions written by a method that also may have failed (e).
Write(code, entries, e) ==
    /\ buffer' = buffer \o code
    /\ prog' = prog \o entries
    /\ error' = IF e = NoError THEN error ELSE FirstError(e)
    /\ result' = Self
    /\ UNCHANGED <<jumps, labels, taint>>

\* A slip of Instruction: operands are not range-checked.
InstructionUnchecked(op, operands, tail, data) ==
    Write(<<op>> \o operands \o tail, <<Instr(op, operands, data)>>, NoError)

\* emit(op) followed by a _byte for each operand: write_u8 raises at the
\* first operand that is no byte, after the opcode and the operands before
\* it have been written.  tail is what the method writes once they are.
Instruction(op, operands, tail, data) ==
    \E k \in 0..Len(operands) :
        /\ \A i \in 1..k : operands[i] \in Byte
        /\ \/ /\ k = Len(operands)
              /\ Write(<<op>> \o operands \o tail,
                       <<Instr(op, operands, data)>>, NoError)
           \/ /\ k < Len(operands)
              /\ operands[k + 1] \notin Byte
              /\ RaiseAfter(<<op>> \o SubSeq(operands, 1, k))

-----------------------------------------------------------------------------
(* Plain instructions.                                                     *)

Emit(op) == Call /\ Write(<<op>>, <<Instr(op, <<>>, <<>>)>>, NoError)

\* Also emit() of an opcode whose operands the caller writes by hand.
EmitRaw(chunk) ==
    /\ Call
    /\ buffer' = buffer \o chunk
    /\ taint' = taint \cup {"raw"}
    /\ result' = Self
    /\ UNCHANGED <<jumps, labels, error, prog>>

TimeMax == Base * Base * Base * Base - 1

\* write_u32_le, and write_u64_le
TimeBytes(t) == U16(t % (Base * Base)) \o U16(t \div (Base * Base))
LongBytes(n) == TimeBytes(n % (TimeMax + 1)) \o TimeBytes(n \div (TimeMax + 1))
LongMax == (TimeMax + 1) * (TimeMax + 1) - 1

\* write_var_uint of any number that eight bytes hold.
AnyVarUint(n) ==
    IF n <= U16Max THEN VarUint(n)
    ELSE IF n <= TimeMax THEN <<Base - 2>> \o TimeBytes(n)
    ELSE <<Base - 1>> \o LongBytes(n)

\* A number that eight bytes do not hold raises behind its mark.
EmitVarBytes(n) ==
    /\ Call
    /\ \/ n < 0 /\ RaiseAfter(<<>>)
       \/ n > LongMax /\ RaiseAfter(<<Base - 1>>)
       \/ /\ n \in 0..LongMax
          /\ buffer' = buffer \o AnyVarUint(n)
          /\ taint' = taint \cup {"raw"}
          /\ result' = Self
          /\ UNCHANGED <<jumps, labels, error, prog>>

\* emit_push, emit_pop, emit_throw
EmitReg(op, reg) == Call /\ Instruction(op, <<reg>>, <<>>, <<>>)

\* emit_move, emit_copy
EmitRegs(op, src, dst) == Call /\ Instruction(op, <<src, dst>>, <<>>, <<>>)

TooLong(data) == Len(data) > U16Max

\* emit_load, and emit_load_string, _bool and _number on encoded data.
EmitLoad(reg, data, type) ==
    /\ Call
    /\ \/ TooLong(data) /\ Fail("load too long")
       \/ /\ ~TooLong(data)
          /\ Instruction(LOAD, <<reg, type>>, VarUint(Len(data)) \o data, data)

VMTypeString == 4
VMTypeTimestamp == 5

EmitLoadTime(reg, t) ==
    /\ Call
    /\ \/ t \notin 0..TimeMax /\ Fail("bad timestamp")
       \/ /\ t \in 0..TimeMax
          /\ Instruction(LOAD, <<reg, VMTypeTimestamp>>,
                         VarUint(4) \o TimeBytes(t), TimeBytes(t))

\* emit_ext_call: a LOAD that is too long fails, and the EXTCALL that follows
\* it in the call chain is still emitted.
EmitExtCall(method, reg) ==
    LET load == Instr(LOAD, <<reg, VMTypeString>>, method)
        ext  == Instr(EXTCALL, <<reg>>, <<>>)
    IN  /\ Call
        /\ \/ /\ ~TooLong(method) /\ reg \in Byte
              /\ Write(<<LOAD, reg, VMTypeString>> \o VarUint(Len(method)) \o method
                         \o <<EXTCALL, reg>>, <<load, ext>>, NoError)
           \/ /\ ~TooLong(method) /\ reg \notin Byte
              /\ RaiseAfter(<<LOAD>>)
           \/ /\ TooLong(method) /\ reg \in Byte
              /\ Write(<<EXTCALL, reg>>, <<ext>>, "load too long")
           \/ /\ TooLong(method) /\ reg \notin Byte
              /\ buffer' = Append(buffer, EXTCALL)
              /\ error' = FirstError("load too long")
              /\ taint' = taint \cup {"raised"}
              /\ result' = Raises
              /\ UNCHANGED <<jumps, labels, prog>>

-----------------------------------------------------------------------------
(* Labels and jumps.                                                       *)

Extended(f, x, y) ==
    [z \in DOMAIN f \cup {x} |-> IF z = x THEN y ELSE f[z]]

\* A slip of Labelled: a label defined again stays where it was.
LabelledOnce(label) ==
    IF Lower[label] \in DOMAIN labels THEN labels
    ELSE Extended(labels, Lower[label], Len(buffer) + 1)

Labelled(label) == Extended(labels, Lower[label], Len(buffer) + 1)

\* emit_label: a NOP, and the label is where the byte after it will be.  A
\* label defined again moves.
EmitLabel(label) ==
    /\ Call
    /\ buffer' = Append(buffer, NOP)
    /\ labels' = Labelled(label)
    /\ prog' = Append(prog, [Instr(NOP, <<>>, <<>>) EXCEPT !.mark = <<label>>])
    /\ result' = Self
    /\ UNCHANGED <<jumps, error, taint>>

\* A slip of PatchOffset: taken before the opcode is written.
PatchOffsetEarly(operands) == Len(buffer) + Len(operands)

PatchOffset(operands) == Len(buffer) + 1 + Len(operands)

\* The opcode, its operands and two zero bytes to be patched.
Placeholder(op, operands, label) ==
    /\ buffer' = buffer \o <<op>> \o operands \o <<0, 0>>
    /\ jumps' = Extended(jumps, PatchOffset(operands), label)
    /\ prog' = Append(prog, [Instr(op, operands, <<>>) EXCEPT !.goto = <<label>>])
    /\ result' = Self
    /\ UNCHANGED <<labels, error, taint>>

JumpOperands(op, reg) == IF op = JMP THEN <<>> ELSE <<reg>>

Jump(op, label, reg) ==
    \/ op \notin JumpOpcodes /\ Fail("bad jump opcode")
    \/ /\ op \in JumpOpcodes
       /\ op = JMP \/ reg \in Byte
       /\ Placeholder(op, JumpOperands(op, reg), label)
    \/ /\ op \in JumpOpcodes
       /\ op # JMP /\ reg \notin Byte
       /\ RaiseAfter(<<op>>)

EmitJump(op, label, reg) == Call /\ Jump(op, label, reg)

EmitConditionalJump(op, reg, label) ==
    /\ Call
    /\ \/ op \notin {JMPIF, JMPNOT} /\ Fail("bad jump opcode")
       \/ op \in {JMPIF, JMPNOT} /\ Jump(op, label, reg)

EmitCall(label, count) ==
    /\ Call
    /\ \/ count \notin 1..MAX_REGISTER_COUNT /\ Fail("bad register count")
       \/ /\ count \in 1..MAX_REGISTER_COUNT
          /\ Placeholder(CALL, <<count>>, label)

-----------------------------------------------------------------------------
(* Finishing a script.                                                     *)

\* The loop of to_script over the patch table, in ascending offset order (the
\* order in which the offsets were recorded): the first entry that cannot be
\* patched stops it.
Resolved(l) == Lower[l] \in DOMAIN labels

Target(o) == labels[Lower[jumps[o]]]

Unpatchable(o, size) ==
    \/ ~Resolved(jumps[o])
    \/ o + 1 >= size
    \/ Resolved(jumps[o]) /\ Target(o) > U16Max

PatchError(o, size) ==
    CASE ~Resolved(jumps[o]) -> "missing label"
      [] Resolved(jumps[o]) /\ o + 1 >= size -> "bad patch offset"
      [] OTHER -> "target overflow"

\* A slip of Patch: it writes one byte too far on.
PatchShifted(code) ==
    [i \in 1..Len(code) |->
        CASE i - 2 \in DOMAIN jumps -> U16(Target(i - 2))[1]
          [] i - 3 \in DOMAIN jumps -> U16(Target(i - 3))[2]
          [] OTHER -> code[i]]

\* The finished copy of the buffer: the two bytes at every patch offset.
Patch(code) ==
    [i \in 1..Len(code) |->
        CASE i - 1 \in DOMAIN jumps -> U16(Target(i - 1))[1]
          [] i - 2 \in DOMAIN jumps -> U16(Target(i - 2))[2]
          [] OTHER -> code[i]]

Finish(code, kind) ==
    \/ /\ \A o \in DOMAIN jumps : ~Unpatchable(o, Len(code))
       /\ result' = Done(kind, Patch(code))
    \/ \E o \in DOMAIN jumps :
         /\ Unpatchable(o, Len(code))
         /\ \A p \in DOMAIN jumps : p < o => ~Unpatchable(p, Len(code))
         /\ result' = Failure(PatchError(o, Len(code)))

\* A slip of EndScript: the script is taken before the RET is emitted.
EndScriptNoRet ==
    /\ Call
    /\ buffer' = Append(buffer, RET)
    /\ prog' = Append(prog, Instr(RET, <<>>, <<>>))
    /\ \/ error # NoError /\ result' = Failure(error)
       \/ error = NoError /\ Finish(buffer, "script")
    /\ UNCHANGED <<jumps, labels, error, taint>>

\* end_script_with_error (end_script raises the error it returns): the RET is
\* emitted first, so the buffer grows even when an error is returned.
EndScript ==
    /\ Call
    /\ buffer' = Append(buffer, RET)
    /\ prog' = Append(prog, Instr(RET, <<>>, <<>>))
    /\ \/ error # NoError /\ result' = Failure(error)
       \/ error = NoError /\ Finish(Append(buffer, RET), "script")
    /\ UNCHANGED <<jumps, labels, error, taint>>

\* to_script is public too: no RET, and the retained error is not looked at.
ToScript ==
    /\ Call
    /\ Finish(buffer, "patched")
    /\ UNCHANGED <<buffer, jumps, labels, error, prog, taint>>

Low ==
    \/ \E op \in {NOP, RET} : Emit(op)
    \/ \E c \in RawChunks : EmitRaw(c)
    \/ \E n \in VarValues : EmitVarBytes(n)
    \/ \E op \in {PUSH, POP, THROW}, r \in Registers : EmitReg(op, r)
    \/ \E op \in {MOVE, COPY}, r, s \in Registers : EmitRegs(op, r, s)
    \/ \E r \in Registers, d \in Payloads, t \in LoadTypes : EmitLoad(r, d, t)
    \/ \E r \in Registers, t \in Times : EmitLoadTime(r, t)
    \/ \E d \in Payloads, r \in Registers : EmitExtCall(d, r)
    \/ \E l \in Labels : EmitLabel(l)
    \/ \E op \in JumpArguments, l \in Labels, r \in Registers :
         EmitJump(op, l, r) \/ EmitConditionalJump(op, r, l)
    \/ \E l \in Labels, n \in RegisterCounts : EmitCall(l, n)
    \/ EndScript
    \/ ToScript

Spec == Init /\ [][Low]_vars

-----------------------------------------------------------------------------
(* Properties.                                                             *)

\* TypeOK: the buffer holds bytes and the two tables offsets, whatever a
\* caller passed.
TypeOK ==
    /\ buffer \in Seq(Byte)
    /\ DOMAIN jumps \subseteq Nat
    /\ \A o \in DOMAIN jumps : jumps[o] \in Labels
    /\ DOMAIN labels \subseteq Labels
    /\ \A l \in DOMAIN labels : labels[l] \in Nat
    /\ error \in Errors \cup {NoError}
    /\ result.kind \in {"self", "raised", "script", "patched", "error"}
    /\ result.bytes \in Seq(Byte)
    /\ result.err \in Errors \cup EndErrors \cup {NoError}
    /\ taint \subseteq {"raw", "raised"}
    /\ calls \in 0..MaxCalls

\* Every recorded patch offset addresses two reserved zero bytes that end
\* inside the buffer, and no two of them overlap: to_script writes only into
\* bytes that emit_jump and emit_call reserved, whatever was emitted since.
PatchesReserved ==
    /\ \A o \in DOMAIN jumps :
         /\ o + 2 <= Len(buffer)
         /\ buffer[o + 1] = 0 /\ buffer[o + 2] = 0
    /\ \A o, p \in DOMAIN jumps : o < p => o + 2 <= p

\* Every label is one past a NOP of its own (emit_label), and that NOP is
\* never a byte that a patch will overwrite: both are the byte 0.
LabelsAfterNop ==
    \A l \in DOMAIN labels :
        /\ labels[l] \in 1..Len(buffer)
        /\ buffer[labels[l]] = NOP
        /\ \A o \in DOMAIN jumps : labels[l] \notin {o + 1, o + 2}

\* The two tables to_script patches from are sound.
PatchTable == PatchesReserved /\ LabelsAfterNop

\* to_script's range check on a patch offset can never fail.
PatchOffsetsValid == result.err # "bad patch offset"

\* A finished script is the buffer with nothing changed but jump operands:
\* patching works on a copy and moves no other byte.
PatchFrame ==
    result.kind \in {"script", "patched"} =>
        /\ Len(result.bytes) = Len(buffer)
        /\ \A i \in 1..Len(buffer) :
             (i - 1 \notin DOMAIN jumps /\ i - 2 \notin DOMAIN jumps)
                 => result.bytes[i] = buffer[i]

\* In a script that end_script returns, each jump operand is the offset of a
\* byte of the script that follows a NOP: control never leaves the script,
\* even for a label defined last, because RET follows it.
JumpsLandInside ==
    result.kind = "script" =>
        \A o \in DOMAIN jumps :
            LET t == result.bytes[o + 1] + Base * result.bytes[o + 2]
            IN  t \in 1..(Len(result.bytes) - 1) /\ result.bytes[t] = NOP

\* Where the label of a jump was defined last.
LastDefinition(l) ==
    CHOOSE i \in 1..Len(prog) :
        /\ prog[i].mark # <<>> /\ Lower[prog[i].mark[1]] = Lower[l]
        /\ \A j \in (i + 1)..Len(prog) :
             prog[j].mark = <<>> \/ Lower[prog[j].mark[1]] # Lower[l]

\* The script is the program: decoding the finished bytes gives exactly the
\* instructions the caller asked for, in order, each jump going to the
\* instruction after the last definition of its label whatever its letter
\* case.  Holds for callers that write no raw bytes and saw no exception.
DecodesToProgram ==
    (result.kind = "script" /\ taint = {}) =>
        LET code == Decode(result.bytes)
        IN  /\ Len(code) = Len(prog)
            /\ \A i \in 1..Len(prog) :
                 /\ code[i].op = prog[i].op
                 /\ code[i].data = prog[i].data
                 /\ code[i].args =
                      IF prog[i].goto = <<>> THEN prog[i].args
                      ELSE Append(prog[i].args,
                                  code[LastDefinition(prog[i].goto[1]) + 1].at)

\* Once a method has failed, every end_script reports that first failure and
\* no later one, and gives no script, whatever is called in between.
FirstErrorReported ==
    [][error # NoError =>
        /\ error' = error
        /\ result'.kind # "script"
        /\ (prog' # prog /\ result'.kind = "error") => result'.err = error]_vars
=============================================================================
