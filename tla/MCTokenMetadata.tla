-------------------------- MODULE MCTokenMetadata --------------------------
\* Schemas, ids and metadata for model-checking TokenMetadata.
EXTENDS TokenMetadata

A == 30
B == 32
C == 34

Other(name) == name + 1     \* the same name in another case
Inner == Schema(<<Plain(A, INT16), Plain(B, VM_STRING)>>, FALSE)
InnerOpen == Schema(<<Plain(A, INT16)>>, TRUE)

Words == Blob(5, 3)
Hex == Blob(32, 2)
Num(n) == Given("int", n)
Txt(b) == Given("text", b)

StandardTexts ==
    <<<<NAME, Txt(Words)>>, <<DESCRIPTION, Txt(Hex)>>, <<IMAGE_URL, Txt(Words)>>,
      <<INFO_URL, Txt(Words)>>, <<ROYALTIES, Num(7)>>>>

Declarations(fields) == [series |-> MetadataFields, rom |-> fields, ram |-> <<>>]

\* One further field of each type, a field in another case, and a second id;
\* a ROM field of every kind without its definition.
MCFieldLists ==
    {Declarations(<<Plain(C, t)>>) : t \in VMTypes \ {STRUCT, ArrayOf(STRUCT)}}
    \cup {Declarations(<<Plain(Other(ROM), INT32)>>),
          Declarations(<<Plain(META_ID, INT8)>>),
          [series |-> <<>>, rom |-> MetadataFields, ram |-> <<Plain(A, INT8)>>],
          [series |-> <<>>, rom |-> <<>>, ram |-> <<>>],
          [series |-> <<Plain(NAME, INT8)>> \o MetadataFields, rom |-> <<>>, ram |-> <<>>]}

WithRom(fields, extras) ==
    [Standard(TRUE) EXCEPT !.rom = Schema(NftFields \o fields, extras)]

MCOwnSchemas ==
    {WithRom(<<SchemaField(C, t, def)>>, extras) :
        t \in {STRUCT, ArrayOf(STRUCT)}, def \in {Inner, InnerOpen}, extras \in BOOLEAN}
    \cup {[Standard(TRUE) EXCEPT !.rom = Schema(<<Plain(META_ID, INT8), Plain(ROM, BYTES)>>, FALSE)]}

Raw(a, b) == <<Named(A, Var(INT16, a)), Named(B, Var(VM_STRING, b))>>

Integral == {-1, 0, 3, 4, 5, 15, 16, 255, 256}
Scalars ==
    {Num(n) : n \in Integral \cup {-32768, 65535, 65536}}
    \cup {Txt(b) : b \in {Empty, Blob(3, BlankId), Blob(4, 0), Words, Hex, Blob(31, 4)}}
    \cup {Given("bytes", Blob(n, 5)) : n \in {1, 16, 32, 64}}
    \cup {Given("none", 0), Given("var", Var(INT16, -3)),
          Given("var", Var(STRUCT, <<Named(A, Var(INT256, 9)), Named(B, Var(DYNAMIC, Var(BYTES, Words)))>>))}

Structs ==
    {Given("struct", Raw(3, Words)), Given("struct", <<Named(A, Var(INT16, 3)), Named(C, Var(INT8, 1))>>)}
    \cup {Given("map", m) :
            m \in {<<<<B, Txt(Words)>>, <<A, Num(255)>>>>, <<<<A, Num(1)>>>>,
                   <<<<Other(A), Num(1)>>, <<B, Txt(Words)>>>>,
                   <<<<A, Num(2)>>, <<B, Txt(Words)>>, <<C, Num(2)>>>>}}

Lists ==
    {Given("list", <<>>)} \cup {Given("list", <<x>>) : x \in Scalars \cup Structs}
    \cup {Given("list", <<Num(1), Num(5)>>), Given("list", <<Txt(Words), Txt(Hex)>>),
          Given("list", <<Given("map", <<<<A, Num(2)>>, <<B, Txt(Words)>>>>), Given("struct", Raw(0, Hex))>>),
          Given("array", StructArray(Inner, <<Raw(1, Words), Raw(2, Hex)>>))}

Values == Scalars \cup Structs \cup Lists

MCMetadata ==
    {StandardTexts, Append(StandardTexts, <<ROM, Txt(Hex)>>), <<>>,
     [StandardTexts EXCEPT ![3] = <<Other(IMAGE_URL), Txt(Words)>>],
     Append(StandardTexts, <<Other(ROM), Num(1)>>), <<<<Other(ROM), Num(1)>>>>}
    \cup {<<<<C, x>>>> : x \in Values}
    \cup {<<<<ROM, Given("bytes", Blob(2, 4))>>, <<C, Num(1)>>>>}

MCIds == {0, 65535}

Texts == {Words, Blob(3, BlankId), Empty}
MCTokenFields ==
    {<<<<NAME, n>>, <<ICON, i>>, <<URL, u>>, <<DESCRIPTION, Words>>>> :
        n \in Texts, u \in Texts, i \in {Words, Blob(90, IconId)}}
    \cup {<<<<URL, Words>>, <<NAME, Words>>, <<DESCRIPTION, Hex>>, <<C, Empty>>, <<ICON, Blob(90, IconId)>>>>,
          <<<<NAME, Words>>, <<ICON, Blob(90, IconId)>>, <<URL, Words>>>>}

\* SDK objects that do not fit the schema, a plain value for a dynamic field,
\* and a declared struct type, which has no definition.
LooseOwnSchemas ==
    {WithRom(<<SchemaField(C, STRUCT, Inner)>>, FALSE), WithRom(<<Plain(C, DYNAMIC)>>, FALSE),
     WithRom(<<Plain(C, STRUCT)>>, FALSE), WithRom(<<Plain(C, INT8), Plain(C, INT32)>>, FALSE)}
LooseMetadata ==
    {<<<<C, x>>>> : x \in Scalars
        \cup {Given("struct", <<Named(A, Var(VM_STRING, Words)), Named(B, Var(VM_STRING, Words))>>)}}
=============================================================================
