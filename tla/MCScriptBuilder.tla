--------------------------- MODULE MCScriptBuilder ---------------------------
(* Instances of ScriptBuilder for TLC.  With Base = 4 a two-byte operand     *)
(* holds 0..15, so that scripts longer than it can address are reachable,    *)
(* and lengths of 1 and more take the long form of the length prefix.        *)
EXTENDS ScriptBuilder

MCLabels == {"done", "DONE", ""}
MCLower == [l \in MCLabels |-> IF l = "DONE" THEN "done" ELSE l]

\* Empty data, data whose bytes are opcodes, and data one byte too long.
MCPayloads == {<<>>, <<JMP, RET>>, [i \in 1..16 |-> 7]}
\* A lone LOAD opcode: the escape hatch can write half an instruction.
MCRaw == {<<LOAD>>}
\* Each form of a number, and one too large for the last.
MCVarValues == {-1, 0, 9, 16, 256, 65536}
MCTimes == {-1, 255, 256}

\* From the third call on, only scripts of labels, jumps and loads go on: the
\* data of two loads pushes offsets past 15.
JumpScript ==
    calls < 3 \/ /\ error = NoError /\ taint = {}
                 /\ \A i \in 1..Len(prog) :
                      \/ prog[i].mark # <<>> \/ prog[i].goto # <<>>
                      \/ prog[i].op = LOAD /\ prog[i].args = <<1, 2>>
=============================================================================
