---------------------------- MODULE MCScriptCalls ----------------------------
(* Calls with arguments nested as deep as the register limit allows and one  *)
(* deeper; the file has 5 registers, so an array may start in registers 0..2.*)
EXTENDS ScriptCalls

Number(n) == DataValue(VMTypeNumber, <<n>>)
Word == DataValue(VMTypeString, <<7, 11>>)

\* Three items, so that the last index needs a sign byte; an empty array.
Triple == ListValue(<<TimeValue(255), ListValue(<<>>), Word>>)
\* Arrays in registers 0, 1 and 2, with items after the inner array.
Depth3 == ListValue(<<Number(0), ListValue(<<ListValue(<<Number(1), Word>>), Word>>)>>)
\* One deeper: the innermost array would start in register 3.
Depth4 == ListValue(<<ListValue(<<ListValue(<<ListValue(<<Word>>)>>)>>)>>)
Spoiled == ListValue(<<Word, ListValue(<<BadValue>>), TimeValue(256)>>)

MCValues == {Word, Triple, Depth3, Depth4, Spoiled}

\* The items of an array, one level down.
Items(v) == IF v.kind = "list" THEN {v.items[i] : i \in 1..Len(v.items)} ELSE {}
Within(s) == s \cup UNION {Items(v) : v \in s}
MCArguments == Within(Within(Within(Within(MCValues))))

MCMethods == {<<1>>}
MCContracts == {<<2, 7>>}
MCLower == << >>
=============================================================================
