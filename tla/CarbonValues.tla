---------------------------- MODULE CarbonValues ----------------------------
(***************************************************************************)
(* Carbon's VM values: dynamic variables, structs and struct arrays, with  *)
(* and without a schema, and the schemas themselves, written and read back *)
(* with the codec of CarbonWire.                                           *)
(*                                                                         *)
(* An integer of w bytes has Base^w values.  A name is a number, ordered   *)
(* as the strings are.  A zero-terminated string is a blob; one with a     *)
(* zero byte in it is a blob of some length whose id is 0.                 *)
(***************************************************************************)
EXTENDS CarbonWire, SequencesExt

\* VMType: the lowest bit says array.
DYNAMIC == 0
BYTES == 2
STRUCT == 4
INT8 == 6
INT16 == 8
INT32 == 10
INT64 == 12
INT256 == 14
BYTES16 == 16
BYTES32 == 18
BYTES64 == 20
VM_STRING == 22
ArrayOf(t) == t + 1
IsArray(t) == t % 2 = 1
Element(t) == t - 1
VMTypes == 0..ArrayOf(VM_STRING)

Width == INT8 :> 1 @@ INT16 :> 2 @@ INT32 :> 4 @@ INT64 :> 8
         @@ BYTES16 :> 16 @@ BYTES32 :> 32 @@ BYTES64 :> 64
Integers == {INT8, INT16, INT32, INT64}
FixedBytes == {BYTES16, BYTES32, BYTES64}

\* VMDynamicVariable; VMNamedDynamicVariable; a struct is a sequence of those.
Var(type, data) == [type |-> type, data |-> data]
Named(name, var) == [name |-> name, var |-> var]

\* VMNamedVariableSchema and VMStructSchema; NoSchema is Python's None.
SchemaField(name, type, def) == [name |-> name, type |-> type, def |-> def]
Schema(fields, extras) == [given |-> TRUE, fields |-> fields, extras |-> extras]
NoSchema == [given |-> FALSE, fields |-> <<>>, extras |-> FALSE]

HasDef(t) == t \in {STRUCT, ArrayOf(STRUCT)}

\* VMStructArray
StructArray(schema, structs) == [schema |-> schema, structs |-> structs]

\* _default_vm_value, as write_static writes it.
Default(t) ==
    CASE t = DYNAMIC -> Var(ArrayOf(DYNAMIC), <<>>)
      [] t = ArrayOf(STRUCT) -> StructArray(Schema(<<>>, FALSE), <<>>)
      [] t = STRUCT \/ (IsArray(t) /\ t # ArrayOf(STRUCT)) -> <<>>
      [] t \in {BYTES, VM_STRING} -> Empty
      [] t \in Integers \cup FixedBytes \cup {INT256} -> 0

\* VMDynamicStruct._sort, which is stable.
Sorted(fields) ==
    LET Insert(out, f) ==
          LET low == SelectSeq(out, LAMBDA g : g.name <= f.name)
              high == SelectSeq(out, LAMBDA g : g.name > f.name)
          IN  Append(low, f) \o high
    IN  FoldLeft(Insert, <<>>, fields)

Has(fields, name) == \E i \in 1..Len(fields) : fields[i].name = name

\* VMDynamicStruct.get: the first of that name.
Get(fields, name) == SelectSeq(fields, LAMBDA f : f.name = name)[1].var

Each(Op(_), seq) == WriteRow([i \in 1..Len(seq) |-> Op(seq[i])])

Counted(Op(_), seq) == Cell(4, Len(seq)) ++ Each(Op, seq)

-----------------------------------------------------------------------------
(* Writing.                                                                *)

WriteName(name) == WriteText(Blob(1, name))

WriteStringZ(b) == When(b.n = 0 \/ b.id # 0, WriteRaw(b) ++ Cell(1, 0))

WriteScalar(t, v) ==
    CASE t = BYTES -> WriteByteArray(v)
      [] t = INT8 -> Cell(1, v % Modulus(1))
      [] t \in Integers \ {INT8} ->
           When(v = AsSigned(v % Modulus(Width[t]), Width[t]), Cell(Width[t], v))
      [] t = INT256 -> WriteBigInt(v)
      [] t \in FixedBytes -> Cell(Width[t], v)
      [] t = VM_STRING -> WriteStringZ(v)

RECURSIVE WriteSchema(_)
WriteSchema(schema) ==
    Counted(LAMBDA f :
              WriteName(f.name) ++ Cell(1, f.type)
              ++ (IF HasDef(f.type) THEN WriteSchema(f.def) ELSE Written(<<>>)),
            schema.fields)
    ++ Cell(1, IF schema.extras THEN 1 ELSE 0)

RECURSIVE WriteStatic(_, _, _)

\* VMDynamicVariable.write_carbon: the type, and the value without a schema.
WriteVar(var) == Cell(1, var.type) ++ WriteStatic(var, var.type, NoSchema)

WriteNamed(fields) ==
    Counted(LAMBDA f : WriteName(f.name) ++ WriteVar(f.var), fields)

Extras(fields, schema) ==
    SelectSeq(fields, LAMBDA f : ~Has(schema.fields, f.name))

\* VMDynamicStruct.write_with_schema.  A field that is missing is written as
\* the default of its type, and so is one of another type (write_static).
\* When all fields were found the extras are not looked for.
WriteStruct(fields, schema) ==
    IF ~schema.given THEN WriteNamed(Sorted(fields))
    ELSE Each(LAMBDA f :
                WriteStatic(IF Has(fields, f.name) THEN Get(fields, f.name)
                            ELSE Var(f.type, Default(f.type)), f.type, f.def),
              schema.fields)
         ++ (IF ~schema.extras THEN Written(<<>>)
             ELSE IF /\ \A i \in 1..Len(schema.fields) : Has(fields, schema.fields[i].name)
                     /\ Len(fields) = Len(schema.fields)
                  THEN Cell(4, 0)
                  ELSE WriteNamed(Extras(fields, schema)))

WriteStructArray(array, schema) ==
    LET used == IF schema.given THEN schema
                ELSE IF array.schema.fields # <<>> THEN array.schema ELSE NoSchema
    IN  Cell(4, Len(array.structs))
        ++ (IF schema.given THEN Written(<<>>) ELSE WriteSchema(array.schema))
        ++ Each(LAMBDA fields : WriteStruct(fields, used), array.structs)

\* The value write_static writes for a variable where type t is wanted.
Stored(var, t) == IF var.type = t THEN var.data ELSE Default(t)

WriteStatic(var, t, schema) ==
    LET v == Stored(var, t) IN
    CASE t = DYNAMIC -> WriteVar(v)
      [] t = STRUCT -> WriteStruct(v, schema)
      [] t = ArrayOf(DYNAMIC) -> Counted(WriteVar, v)
      [] t = ArrayOf(STRUCT) -> WriteStructArray(v, schema)
      [] IsArray(t) /\ Element(t) \notin {DYNAMIC, STRUCT} ->
           Counted(LAMBDA x : WriteScalar(Element(t), x), v)
      [] ~IsArray(t) /\ t \notin {DYNAMIC, STRUCT} -> WriteScalar(t, v)

-----------------------------------------------------------------------------
(* Reading.                                                                *)

ReadName(s) == Map(ReadText(s), LAMBDA b : b.id)

Ends(s) == s # <<>> /\ Head(s).w = 1 /\ Head(s).v = 0

ReadStringZ(s) ==
    IF Ends(s) THEN Got(Empty, Tail(s))
    ELSE If(Len(s) > 1 /\ Ends(Tail(s)),
            Got(Blob(Head(s).w, Head(s).v), Tail(Tail(s))))

ReadScalar(t, s) ==
    CASE t = BYTES -> ReadByteArray(s)
      [] t = INT8 -> Map(Take(1, s), LAMBDA u : AsSigned(u, 1))
      [] t \in (Integers \ {INT8}) \cup FixedBytes -> Take(Width[t], s)
      [] t = INT256 -> ReadBigInt(s)
      [] t = VM_STRING -> ReadStringZ(s)

ReadArray(ReadOne(_), s) ==
    Then(ReadLength(s), LAMBDA n, rest : Repeat(n, rest, ReadOne))

RECURSIVE ReadSchema(_)

\* A slip of ReadSchemaField: an array of structs is read without its schema.
ReadSchemaFieldPlain(s) ==
    Then(ReadName(s), LAMBDA name, rest :
      Then(Take(1, rest), LAMBDA t, more :
        If(t \in VMTypes,
           IF t = STRUCT
           THEN Map(ReadSchema(more), LAMBDA def : SchemaField(name, t, def))
           ELSE Got(SchemaField(name, t, NoSchema), more))))

\* A struct type is always read with a schema, an empty one if none was given.
ReadSchemaField(s) ==
    Then(ReadName(s), LAMBDA name, rest :
      Then(Take(1, rest), LAMBDA t, more :
        If(t \in VMTypes,
           IF HasDef(t)
           THEN Map(ReadSchema(more), LAMBDA def : SchemaField(name, t, def))
           ELSE Got(SchemaField(name, t, NoSchema), more))))

ReadSchema(s) ==
    Then(ReadArray(ReadSchemaField, s), LAMBDA fields, rest :
        Map(Take(1, rest), LAMBDA flags : Schema(fields, flags % 2 = 1)))

RECURSIVE ReadStatic(_, _, _)

ReadVar(s) ==
    Then(Take(1, s), LAMBDA t, rest :
        If(t \in VMTypes,
           Map(ReadStatic(t, NoSchema, rest), LAMBDA v : Var(t, v))))

ReadNamed(s) ==
    ReadArray(LAMBDA r :
        Then(ReadName(r), LAMBDA name, rest :
            Map(ReadVar(rest), LAMBDA var : Named(name, var))), s)

\* The fields of a schema one after the other, and the extras behind them.
ReadStruct(schema, s) ==
    IF ~schema.given THEN Map(ReadNamed(s), Sorted)
    ELSE LET fields == schema.fields
             ReadOne(f, r) ==
               Map(ReadStatic(f.type, f.def, r), LAMBDA v : Named(f.name, Var(f.type, v)))
         IN  Map(Then(ReadRow([i \in 1..Len(fields) |->
                                [r \in Stream |-> ReadOne(fields[i], r)]], s),
                      LAMBDA out, rest :
                        IF schema.extras
                        THEN Map(ReadNamed(rest), LAMBDA more : out \o more)
                        ELSE Got(out, rest)),
                 Sorted)

ReadStructArray(schema, s) ==
    Then(ReadLength(s), LAMBDA n, rest :
      Then(IF schema.given THEN Got(schema, rest) ELSE ReadSchema(rest), LAMBDA own, more :
        LET used == IF schema.given \/ own.fields # <<>> THEN own ELSE NoSchema
        IN  Map(Repeat(n, more, LAMBDA r : ReadStruct(used, r)),
                LAMBDA structs : StructArray(own, structs))))

ReadStatic(t, schema, s) ==
    CASE t = DYNAMIC -> ReadVar(s)
      [] t = STRUCT -> ReadStruct(schema, s)
      [] t = ArrayOf(DYNAMIC) -> ReadArray(ReadVar, s)
      [] t = ArrayOf(STRUCT) -> ReadStructArray(schema, s)
      [] IsArray(t) /\ Element(t) \notin {DYNAMIC, STRUCT} ->
           ReadArray(LAMBDA r : ReadScalar(Element(t), r), s)
      [] ~IsArray(t) /\ t \notin {DYNAMIC, STRUCT} -> ReadScalar(t, s)
=============================================================================
