------------------------------ MODULE ScriptVM ------------------------------
(***************************************************************************)
(* The instruction set of the Phantasma VM as phantasma_py/vm.py emits it. *)
(* The VM itself is not part of the repository: the operand layout of each *)
(* opcode is read off the builder methods that write it, and the decoder   *)
(* below is the reader those bytes are meant for.                          *)
(*                                                                         *)
(* Offsets inside a script are 0-based, as in Python; the TLA+ sequence    *)
(* that holds the bytes is 1-based, so offset o is script[o + 1].          *)
(***************************************************************************)
EXTENDS Integers, Sequences

CONSTANT Base   \* values of one byte of a multi-byte integer (256 in the code)

ASSUME BaseAssumption == Base \in Nat /\ Base > 3

Byte == 0..255

\* vm.Opcode: the members that the builder's own methods emit.
NOP == 0
MOVE == 1
COPY == 2
PUSH == 3
POP == 4
CALL == 6
EXTCALL == 7
JMP == 8
JMPIF == 9
JMPNOT == 10
RET == 11
THROW == 12
LOAD == 13
CAST == 14
CTX == 45
SWITCH == 46
PUT == 47

JumpOpcodes == {JMP, JMPIF, JMPNOT}

\* write_u16_le, the form of a jump operand and of a long length prefix.
U16(n) == <<n % Base, n \div Base>>

U16Max == Base * Base - 1

\* BinaryWriter.write_var_uint for the lengths a LOAD can carry (at most
\* 0xFFFF): one byte below 0xFD, otherwise the marker 0xFD and two bytes.
VarUint(n) == IF n < Base - 3 THEN <<n>> ELSE <<Base - 3>> \o U16(n)

-----------------------------------------------------------------------------
(* The decoder.  Operand bytes that follow an opcode, before any jump      *)
(* target; LOAD is followed by its length and data.                        *)

OperandCount(op) ==
    CASE op \in {PUSH, POP, THROW, EXTCALL, SWITCH, JMPIF, JMPNOT, CALL} -> 1
      [] op \in {MOVE, COPY, CTX, LOAD} -> 2
      [] op \in {CAST, PUT} -> 3
      [] OTHER -> 0

HasTarget(op) == op \in JumpOpcodes \cup {CALL}

U16At(script, o) == script[o + 1] + Base * script[o + 2]

\* A length prefix: its size, and the length it gives.
PrefixSize(script, o) == IF script[o + 1] = Base - 3 THEN 3 ELSE 1

LengthAt(script, o) ==
    IF script[o + 1] = Base - 3 THEN U16At(script, o + 1) ELSE script[o + 1]

\* One decoded instruction: where it starts, its opcode, its operands (a jump
\* target last), its data, and the offset of the instruction after it.  One
\* that the script ends in the middle of has opcode -1 and is the last.
DecodeAt(script, at) ==
    LET op    == script[at + 1]
        rest  == at + 1 + OperandCount(op)
        args  == SubSeq(script, at + 2, rest)
        start == rest + PrefixSize(script, rest)
        end   == start + LengthAt(script, rest)
    IN  CASE /\ op = LOAD /\ rest + 1 <= Len(script)
             /\ start <= Len(script) /\ end <= Len(script) ->
               [at |-> at, op |-> op, args |-> args, next |-> end,
                data |-> SubSeq(script, start + 1, end)]
          [] HasTarget(op) /\ rest + 2 <= Len(script) ->
               [at |-> at, op |-> op, args |-> Append(args, U16At(script, rest)),
                next |-> rest + 2, data |-> <<>>]
          [] op # LOAD /\ ~HasTarget(op) /\ rest <= Len(script) ->
               [at |-> at, op |-> op, args |-> args, next |-> rest, data |-> <<>>]
          [] OTHER ->
               [at |-> at, op |-> -1, args |-> <<>>, next |-> Len(script), data |-> <<>>]

\* The instructions of a script, read from offset 0 to its end.
Decode(script) ==
    LET from[at \in 0..Len(script)] ==
            IF at = Len(script) THEN <<>>
            ELSE <<DecodeAt(script, at)>> \o from[DecodeAt(script, at).next]
    IN  from[0]
=============================================================================
