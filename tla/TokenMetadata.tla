--------------------------- MODULE TokenMetadata ---------------------------
(***************************************************************************)
(* Token schemas and the metadata written with them: the standard schemas, *)
(* schemas from public field declarations, their verification, and the     *)
(* builders of series metadata, NFT ROMs, Phantasma NFT ROMs and token     *)
(* metadata.  A token's schemas are published once; what is built later is *)
(* read with the published ones, which the bytes do not carry.             *)
(*                                                                         *)
(* Names 2n and 2n + 1 are one name in two cases.  A text is a blob: one   *)
(* whose id is BlankId is only white space, one with an even id is hex.    *)
(***************************************************************************)
EXTENDS CarbonValues

CONSTANTS
    FieldLists,     \* public declarations: [series, rom, ram] of fields
    OwnSchemas,     \* schemas a caller makes itself
    Ids,            \* Phantasma ids of series and NFTs
    Metadata,       \* metadata a caller supplies: sequences of <<name, value>>
    TokenFields     \* fields of a token: sequences of <<name, text>>

VARIABLES
    schemas,    \* the TokenSchemas in the caller's hands
    published,  \* the ones the token was created with, as they are read
    job,        \* what a builder was asked for
    built,      \* the bytes it returned
    seen        \* what those bytes read as

vars == <<schemas, published, job, built, seen>>

-----------------------------------------------------------------------------
\* Names, of fields and of properties.
META_ID == 2
MODE == 4
ROM == 6
NAME == 8
DESCRIPTION == 10
IMAGE_URL == 12
INFO_URL == 14
ROYALTIES == 16
ICON == 18
URL == 20

Lower(name) == 2 * (name \div 2)

BlankId == 1
IconId == 3
Blank(text) == text.n = 0 \/ text.id = BlankId
HexBytes(text) == Blob((text.n + 1) \div 2, text.id)
IsHex(text) == ~Blank(text) /\ text.id # 0 /\ text.id % 2 = 0

Plain(name, type) == SchemaField(name, type, NoSchema)

SeriesFields == <<Plain(META_ID, INT256), Plain(MODE, INT8), Plain(ROM, BYTES)>>
NftFields == <<Plain(META_ID, INT256), Plain(ROM, BYTES)>>
MetadataFields ==
    <<Plain(NAME, VM_STRING), Plain(DESCRIPTION, VM_STRING),
      Plain(IMAGE_URL, VM_STRING), Plain(INFO_URL, VM_STRING),
      Plain(ROYALTIES, INT32)>>

TokenSchemas(series, rom, ram) == [series |-> series, rom |-> rom, ram |-> ram]
NoSchemas == TokenSchemas(NoSchema, NoSchema, NoSchema)

\* prepare_standard_token_schemas
Standard(shared) ==
    LET extra(wanted) == IF wanted THEN MetadataFields ELSE <<>>
    IN  TokenSchemas(Schema(SeriesFields \o extra(shared), FALSE),
                     Schema(NftFields \o extra(~shared), FALSE),
                     Schema(<<>>, TRUE))

FromFields(d) ==
    TokenSchemas(Schema(SeriesFields \o d.series, FALSE),
                 Schema(NftFields \o d.rom, FALSE),
                 Schema(d.ram, d.ram = <<>>))

\* A slip of Declares: the type is not compared.
DeclaresName(fields, expected) == Has(fields, expected.name)

\* The first field of the expected name has the expected type.
Declares(fields, expected) ==
    /\ Has(fields, expected.name)
    /\ SelectSeq(fields, LAMBDA f : f.name = expected.name)[1].type = expected.type

\* verify_token_schemas
Verified(s) ==
    /\ \A f \in ToSet(MetadataFields) : Declares(s.series.fields \o s.rom.fields, f)
    /\ \A f \in ToSet(SeriesFields) : Declares(s.series.fields, f)
    /\ \A f \in ToSet(NftFields) : Declares(s.rom.fields, f)

\* TokenSchemas.write_carbon and read_carbon
WriteSchemas(s) == WriteSchema(s.series) ++ WriteSchema(s.rom) ++ WriteSchema(s.ram)

ReadSchemas(cells) ==
    Whole(Then(ReadSchema(cells), LAMBDA series, rest :
            Then(ReadSchema(rest), LAMBDA rom, more :
              Map(ReadSchema(more), LAMBDA ram : TokenSchemas(series, rom, ram)))))

-----------------------------------------------------------------------------
(* Coercion.  A supplied value is a Python object of some kind:            *)
(* "none", "int", "text", "bytes", "var" (VMDynamicVariable), "struct"     *)
(* (VMDynamicStruct), "map" (a mapping, or its list of pairs), "array"     *)
(* (VMStructArray), "list".                                                *)

Given(kind, v) == [kind |-> kind, v |-> v]

Ok(v) == [ok |-> TRUE, v |-> v]
Bad == [ok |-> FALSE, v |-> <<>>]
Accept(test, v) == IF test THEN Ok(v) ELSE Bad

All(results) ==
    IF \E i \in 1..Len(results) : ~results[i].ok THEN Bad
    ELSE Ok([i \in 1..Len(results) |-> results[i].v])

\* _find_metadata_field: a name in another case is refused.
Find(md, name) ==
    LET exact == SelectSeq(md, LAMBDA p : p[1] = name)
    IN  CASE exact # <<>> -> Ok(Given("found", exact[1][2]))
          [] exact = <<>> /\ \E i \in 1..Len(md) : Lower(md[i][1]) = Lower(name) -> Bad
          [] OTHER -> Ok(Given("missing", 0))

EnsureBytes(x) ==
    CASE x.kind = "bytes" -> Ok(x.v)
      [] x.kind = "text" -> Accept(IsHex(x.v), HexBytes(x.v))
      [] OTHER -> Bad

\* A number may be given signed or unsigned.
InRange(x, modulus) == x.kind = "int" /\ 2 * x.v >= -modulus /\ x.v < modulus

\* A slip of CoerceInteger: the value is narrowed to the type's low byte.
CoerceIntegerNarrow(t, x) ==
    IF InRange(x, Modulus(Width[t])) THEN Ok(x.v % Modulus(1)) ELSE Bad

CoerceInteger(t, x) ==
    LET modulus == Modulus(Width[t])
    IN  IF ~InRange(x, modulus) THEN Bad
        ELSE Ok(IF t = INT8 \/ 2 * x.v < modulus THEN x.v ELSE x.v - modulus)

CoerceFixed(t, x) ==
    LET b == EnsureBytes(x) IN IF b.ok THEN Accept(b.v.n = Width[t], b.v.id) ELSE Bad

RECURSIVE Coerce(_, _, _)

CoerceEach(t, def, x) ==
    IF x.kind # "list" THEN Bad
    ELSE All([i \in 1..Len(x.v) |-> Coerce(t, def, x.v[i])])

\* _metadata_dynamic_fields_for_schema: one value for each field that has no
\* default; names the schema does not have are not looked at.
FieldsFor(fields, defaults, md) ==
    LET wanted == SelectSeq(fields, LAMBDA f : ~Has(defaults, f.name))
        Field(f) ==
          LET r == Find(md, f.name)
          IN  IF ~r.ok \/ r.v.kind = "missing" THEN Bad
              ELSE LET c == Coerce(f.type, f.def, r.v.v)
                   IN  Accept(c.ok, Named(f.name, Var(f.type, c.v)))
    IN  All([i \in 1..Len(wanted) |-> Field(wanted[i])])

\* _coerce_metadata_struct: a VMDynamicStruct is taken as it is.
CoerceStruct(def, x) ==
    CASE x.kind = "struct" -> Ok(x.v)
      [] def.given /\ (x.kind = "map" \/ (x.kind = "list" /\ x.v = <<>>)) ->
           IF \A i \in 1..Len(x.v) :
                \E f \in ToSet(def.fields) : Lower(f.name) = Lower(x.v[i][1])
           THEN FieldsFor(def.fields, <<>>, x.v) ELSE Bad
      [] OTHER -> Bad

CoerceStructArray(def, x) ==
    IF x.kind = "array" THEN Ok(x.v)
    ELSE LET structs == CoerceEach(STRUCT, def, x)
         IN  Accept(structs.ok /\ def.given, StructArray(def, structs.v))

\* _coerce_metadata_value
Coerce(t, def, x) ==
    IF x.kind = "none" THEN Bad
    ELSE CASE t = BYTES -> EnsureBytes(x)
           [] t = VM_STRING -> IF x.kind = "text" THEN Accept(~Blank(x.v), x.v) ELSE Bad
           [] t \in Integers -> CoerceInteger(t, x)
           [] t = INT256 -> IF InRange(x, Word) THEN Ok(x.v) ELSE Bad
           [] t \in FixedBytes -> CoerceFixed(t, x)
           [] t = STRUCT -> CoerceStruct(def, x)
           [] t = ArrayOf(STRUCT) -> CoerceStructArray(def, x)
           [] t = ArrayOf(DYNAMIC) ->
                IF /\ x.kind = "list"
                   /\ \A i \in 1..Len(x.v) : x.v[i].kind = "var"
                THEN Ok([i \in 1..Len(x.v) |-> x.v[i].v]) ELSE Bad
           [] IsArray(t) /\ Element(t) \notin {DYNAMIC, STRUCT} ->
                CoerceEach(Element(t), NoSchema, x)
           \* A plain value is kept; write_static then takes the default instead.
           [] t = DYNAMIC ->
                Ok(IF x.kind = "var" THEN x.v ELSE Default(DYNAMIC))

-----------------------------------------------------------------------------
(* The builders: each returns bytes or raises.                             *)

\* _metadata_bytes
RomBytes(md) ==
    LET r == Find(md, ROM)
    IN  IF ~r.ok THEN Bad
        ELSE IF r.v.kind = "missing" THEN Ok(Empty) ELSE EnsureBytes(r.v.v)

WithSchema(own, defaults, schema, md) ==
    LET fields == FieldsFor(schema.fields, defaults, md)
    IN  IF fields.ok THEN WriteStruct(own \o fields.v, schema) ELSE Refuse

SeriesMetadata(schema, id, md) ==
    LET rom == RomBytes(md)
        mode == IF rom.ok /\ rom.v.n > 0 THEN 1 ELSE 0
    IN  IF ~rom.ok THEN Refuse
        ELSE WithSchema(<<Named(META_ID, Var(INT256, id)), Named(MODE, Var(INT8, mode)),
                          Named(ROM, Var(BYTES, rom.v))>>,
                        SeriesFields, schema, md)

\* build_series_info: always the standard schema.
SeriesInfoMetadata(id) == SeriesMetadata(Standard(FALSE).series, id, <<>>)

NftRom(schema, id, md) ==
    LET rom == RomBytes(md)
    IN  IF ~rom.ok THEN Refuse
        ELSE WithSchema(<<Named(META_ID, Var(INT256, id)), Named(ROM, Var(BYTES, rom.v))>>,
                        NftFields, schema, md)

Reserved(name) == Lower(name) \in {META_ID, ROM}

\* build_phantasma_nft_public_mint_schema
PublicMintSchema(schema) ==
    [schema EXCEPT !.fields = SelectSeq(@, LAMBDA f : ~Reserved(f.name))]

PhantasmaNftRom(schema, md) ==
    IF md = <<>> \/ \E i \in 1..Len(md) : Reserved(md[i][1]) THEN Refuse
    ELSE WithSchema(<<>>, <<>>, PublicMintSchema(schema), md)

\* A slip of TokenMetadataBytes: a text of white space counts as given.
TokenMetadataUnstripped(fields) ==
    IF /\ \A name \in {NAME, ICON, URL, DESCRIPTION} :
            \E i \in 1..Len(fields) : fields[i][1] = name /\ fields[i][2].n > 0
       /\ \A i \in 1..Len(fields) : fields[i][1] = ICON => fields[i][2].id = IconId
    THEN WriteStruct([i \in 1..Len(fields) |->
                        Named(fields[i][1], Var(VM_STRING, fields[i][2]))], NoSchema)
    ELSE Refuse

\* build_token_metadata, of a dict
TokenMetadataBytes(fields) ==
    IF /\ \A name \in {NAME, ICON, URL, DESCRIPTION} :
            \E i \in 1..Len(fields) : fields[i][1] = name /\ ~Blank(fields[i][2])
       /\ \A i \in 1..Len(fields) : fields[i][1] = ICON => fields[i][2].id = IconId
    THEN WriteStruct([i \in 1..Len(fields) |->
                        Named(fields[i][1], Var(VM_STRING, fields[i][2]))], NoSchema)
    ELSE Refuse

-----------------------------------------------------------------------------
NoJob == [kind |-> "none", id |-> 0, md |-> <<>>, read |-> FALSE]

Init ==
    /\ schemas = NoSchemas /\ published = Fails
    /\ job = NoJob /\ built = Refuse /\ seen = Fails

TakeSchemas(s) ==
    /\ schemas = NoSchemas
    /\ schemas' = s
    /\ UNCHANGED <<published, job, built, seen>>

PrepareStandard(shared) == TakeSchemas(Standard(shared))

BuildFromFields(d) == Verified(FromFields(d)) /\ TakeSchemas(FromFields(d))

\* TokenSchemas made by hand; the builders do not verify them.
MakeByHand(s) == TakeSchemas(s)

\* serialize_token_schemas, and the reading of what the token carries
Publish ==
    /\ schemas # NoSchemas /\ ~published.ok
    /\ WriteSchemas(schemas).ok
    /\ published' = ReadSchemas(WriteSchemas(schemas).cells)
    /\ UNCHANGED <<schemas, job, built, seen>>

Build(kind, id, md, result) ==
    /\ job = NoJob
    /\ result.ok
    /\ job' = [kind |-> kind, id |-> id, md |-> md, read |-> FALSE]
    /\ built' = result
    /\ UNCHANGED <<schemas, published, seen>>

BuildSeriesMetadata(id, md) ==
    schemas # NoSchemas /\ Build("series", id, md, SeriesMetadata(schemas.series, id, md))

BuildSeriesInfo(id) ==
    schemas # NoSchemas /\ Build("info", id, <<>>, SeriesInfoMetadata(id))

BuildNftRom(id, md) ==
    schemas # NoSchemas /\ Build("nft", id, md, NftRom(schemas.rom, id, md))

BuildPhantasmaNftRom(md) ==
    schemas # NoSchemas /\ Build("phantasma", 0, md, PhantasmaNftRom(schemas.rom, md))

BuildTokenMetadata(fields) == Build("token", 0, fields, TokenMetadataBytes(fields))

\* The published schema that what was built is read with.
ReadSchemaOf(kind) ==
    CASE kind \in {"series", "info"} -> published.v.series
      [] kind = "nft" -> published.v.rom
      [] kind = "phantasma" -> PublicMintSchema(published.v.rom)
      [] kind = "token" -> NoSchema

ReadBack ==
    /\ built.ok /\ ~job.read
    /\ published.ok \/ job.kind = "token"
    /\ seen' = Whole(ReadStruct(ReadSchemaOf(job.kind), built.cells))
    /\ job' = [job EXCEPT !.read = TRUE]
    /\ UNCHANGED <<schemas, published, built>>

Next ==
    \/ \E shared \in BOOLEAN : PrepareStandard(shared)
    \/ \E d \in FieldLists : BuildFromFields(d)
    \/ \E s \in OwnSchemas : MakeByHand(s)
    \/ Publish
    \/ \E id \in Ids : BuildSeriesInfo(id)
    \/ \E id \in Ids, md \in Metadata : BuildSeriesMetadata(id, md) \/ BuildNftRom(id, md)
    \/ \E md \in Metadata : BuildPhantasmaNftRom(md)
    \/ \E fields \in TokenFields : BuildTokenMetadata(fields)
    \/ ReadBack

Spec == Init /\ [][Next]_vars
-----------------------------------------------------------------------------
(* Properties.                                                             *)

SamePublished(s, p) ==
    /\ p.extras = s.extras /\ Len(p.fields) = Len(s.fields)
    /\ \A i \in 1..Len(s.fields) :
          p.fields[i].name = s.fields[i].name /\ p.fields[i].type = s.fields[i].type

\* The schemas a token carries are read as the ones it was created with, field
\* by field in their order; only a struct without a definition becomes one
\* with an empty definition.
PublishedAsMade ==
    (schemas # NoSchemas /\ WriteSchemas(schemas).ok) =>
        LET p == ReadSchemas(WriteSchemas(schemas).cells)
        IN  p.ok /\ SamePublished(schemas.series, p.v.series)
                 /\ SamePublished(schemas.rom, p.v.rom)
                 /\ SamePublished(schemas.ram, p.v.ram)

\* Is y, read where type t was wanted, the supplied value x?  Integers agree
\* modulo their width, since a number may be supplied unsigned.
RECURSIVE Agrees(_, _, _, _)

Congruent(a, b, modulus) == (a - b) % modulus = 0

SuppliedBytes(x) == IF x.kind = "text" THEN HexBytes(x.v) ELSE x.v

Names(md, name) == \E i \in 1..Len(md) : md[i][1] = name
First(md, name) == SelectSeq(md, LAMBDA p : p[1] = name)[1][2]

StructAgrees(def, x, y) ==
    IF x.kind \in {"map", "list"}
    THEN \A f \in ToSet(def.fields) : Agrees(f.type, f.def, First(x.v, f.name), Get(y, f.name))
    ELSE /\ Len(x.v) = Len(y)
         /\ \A f \in ToSet(x.v) :
              /\ Has(y, f.name)
              /\ f.var.type = Get(y, f.name).type
              /\ f.var.data = Get(y, f.name).data

Agrees(t, def, x, y) ==
    CASE t \in Integers -> Congruent(x.v, y.data, Modulus(Width[t]))
      [] t = INT256 -> Congruent(x.v, y.data, Word)
      [] t = BYTES -> y.data = SuppliedBytes(x)
      [] t \in FixedBytes -> y.data = SuppliedBytes(x).id
      [] t = VM_STRING -> y.data = x.v
      [] t = STRUCT -> StructAgrees(def, x, y.data)
      [] t = DYNAMIC -> x.kind = "var" /\ x.v.type = y.data.type /\ x.v.data = y.data.data
      [] t = ArrayOf(STRUCT) ->
           LET items == IF x.kind = "list" THEN x.v
                        ELSE [i \in 1..Len(x.v.structs) |-> Given("struct", x.v.structs[i])]
           IN  /\ Len(items) = Len(y.data.structs)
               /\ \A i \in 1..Len(items) : StructAgrees(def, items[i], y.data.structs[i])
      [] IsArray(t) /\ t # ArrayOf(STRUCT) ->
           /\ Len(x.v) = Len(y.data)
           /\ \A i \in 1..Len(x.v) :
                IF t = ArrayOf(DYNAMIC)
                THEN x.v[i].v.type = y.data[i].type /\ x.v[i].v.data = y.data[i].data
                ELSE Agrees(Element(t), NoSchema, x.v[i], Var(Element(t), y.data[i]))

\* The values that coercion does not look into: SDK objects made by the caller.
\* Such a struct has the fields of its definition, each of the type named there.
StructFits(def, fields) ==
    /\ def.given
    /\ \A f \in ToSet(def.fields) : Has(fields, f.name)
    /\ \A g \in ToSet(fields) :
         IF Has(def.fields, g.name)
         THEN \A f \in ToSet(def.fields) : f.name = g.name => f.type = g.var.type
         ELSE def.extras

SdkStructs(x) ==
    CASE x.kind = "struct" -> <<x.v>>
      [] x.kind = "array" -> x.v.structs
      [] x.kind = "list" -> FoldLeft(LAMBDA out, y : IF y.kind = "struct" THEN Append(out, y.v) ELSE out,
                                     <<>>, x.v)
      [] OTHER -> <<>>

Conforms(f, x) ==
    /\ f.type = DYNAMIC => x.kind = "var"
    /\ HasDef(f.type) => \A i \in 1..Len(SdkStructs(x)) : StructFits(f.def, SdkStructs(x)[i])

Conforming(schema, md) ==
    /\ \A i, j \in 1..Len(schema.fields) :
          schema.fields[i].name = schema.fields[j].name => i = j
    /\ \A f \in ToSet(schema.fields) : Names(md, f.name) => Conforms(f, First(md, f.name))

\* The schema a builder wrote with, and the fields the caller supplies of it.
SchemaOf(kind) ==
    CASE kind = "series" -> schemas.series
      [] kind = "nft" -> schemas.rom
      [] kind = "phantasma" -> PublicMintSchema(schemas.rom)

OwnFields(kind) ==
    CASE kind = "series" -> SeriesFields
      [] kind = "nft" -> NftFields
      [] kind = "phantasma" -> <<>>

Supplied(kind) == {f \in ToSet(SchemaOf(kind).fields) : ~Has(OwnFields(kind), f.name)}

BySchema == {"series", "nft", "phantasma"}

\* What was built is read, and each field has the value supplied under its
\* exact name.
AllAgree ==
    /\ seen.ok
    /\ \A f \in Supplied(job.kind) :
         /\ Has(seen.v, f.name) /\ Names(job.md, f.name)
         /\ Agrees(f.type, f.def, First(job.md, f.name), Get(seen.v, f.name))

\* What a builder returned is read, with the schemas the token was created
\* with, as the values that were supplied, whatever Python form they had and
\* whether numbers were given signed or unsigned, provided that the schema
\* names no field twice and SDK objects among the values fit it.
ReadsAsSupplied ==
    (job.read /\ job.kind \in BySchema /\ Conforming(SchemaOf(job.kind), job.md)) =>
        AllAgree

\* docs/carbon.md: "The SDK validates required metadata fields and schema
\* types before serializing": the same without the proviso.
TypesValidated == (job.read /\ job.kind \in BySchema) => AllAgree

\* In a token whose schemas verify_token_schemas accepts, every series and
\* every NFT has the id and the ROM it was built with.  build_series_info does
\* not look at the token's schemas, so it serves only tokens whose series have
\* the standard fields.  And no Phantasma NFT is minted with a field that the
\* chain sets itself, in whatever case it is spelled.
IdentityKept ==
    /\ (/\ job.read /\ job.kind \in {"series", "nft", "info"} /\ Verified(schemas)
        /\ IF job.kind = "info" THEN schemas.series = Standard(FALSE).series
           ELSE Conforming(SchemaOf(job.kind), job.md)) =>
           /\ seen.ok
           /\ Get(seen.v, META_ID).type = INT256
           /\ Congruent(Get(seen.v, META_ID).data, job.id, Word)
           /\ Get(seen.v, ROM).data = RomBytes(job.md).v
    /\ (job.read /\ job.kind = "phantasma" /\ seen.ok) =>
           \A f \in ToSet(seen.v) : Lower(f.name) \notin {META_ID, ROM}

\* A token's metadata is read as it was given, with its four mandatory texts.
TokenMetadataKept ==
    (job.read /\ job.kind = "token") =>
        /\ seen.ok /\ Len(seen.v) = Len(job.md)
        /\ \A i \in 1..Len(job.md) : Get(seen.v, job.md[i][1]).data = job.md[i][2]
        /\ \A name \in {NAME, ICON, URL, DESCRIPTION} :
              Has(seen.v, name) /\ ~Blank(Get(seen.v, name).data)
=============================================================================
