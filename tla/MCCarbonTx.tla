---------------------------- MODULE MCCarbonTx ----------------------------
\* Messages, calls and records for model-checking CarbonTx and CarbonCalls.
EXTENDS CarbonCalls

Record(class, data) == [class |-> class, data |-> data]
Call(method, args) == [method |-> method, args |-> args]
Order(item, fees, expiry) ==
    [item |-> item, fees |-> fees, expiry |-> expiry,
     max_data |-> 1, sender |-> 1]

Sections(ss) == [args |-> Empty, sections |-> ss]
Section(offset, args) == [offset |-> offset, args |-> args]

\* Values on both sides of each boundary of a kind of field.
Amounts == {-40000, -32768, -9, -8, 7, 8, 32767, 40000, 65528, 65535, 65536}

Samples(f) ==
    CASE f.kind = "int" /\ f.width = 32 -> {1, 2}
      [] f.kind = "int" /\ f.width # 32 -> {0, Top}
      [] f.kind = "text" -> {Empty, Blob(255, 1)}
      [] f.kind = "bytes" -> {Empty, Blob(200, 1)}
      [] f.kind = "intx" -> Amounts
      [] f.kind = "sections" ->
           {[args |-> Empty, sections |-> <<>>], [args |-> Blob(3, 1), sections |-> <<>>],
            Sections(<<Section(-1, Empty)>>),
            Sections(<<Section(0, Blob(2, 1)), Section(-2, Blob(4, 2)), Section(3, Empty)>>)}
      [] f.kind = "list" -> {<<>>}

RECURSIVE Product(_)
Product(layout) ==
    IF layout = <<>> THEN {<<>>}
    ELSE {<<v>> \o vs : v \in Samples(Head(layout)), vs \in Product(Tail(layout))}

SomeCall == <<1, 0, Sections(<<Section(2, Blob(2, 1)), Section(-1, Empty)>>)>>
OtherCall == <<0, 1, [args |-> Blob(3, 1), sections |-> <<>>]>>
SomeTransfer == <<1, 2, 0, Top>>
SomeMint == <<0, 2, 8>>
SomeNft == <<Top, 1, 0, Blob(200, 1), Empty>>

Bodies(t) ==
    CASE t = CALL_MULTI -> {<<<<>>>>, <<<<SomeCall>>>>, <<<<OtherCall, SomeCall>>>>}
      [] t = TRADE ->
           {<<<<>>, <<>>, <<>>, <<>>, <<>>, <<>>>>,
            <<<<SomeTransfer>>, <<>>, <<SomeMint, SomeMint>>, <<>>, <<SomeNft>>, <<>>>>,
            <<<<>>, <<SomeTransfer>>, <<>>, <<SomeMint>>, <<>>, <<<<1, 2, 0>>>>>>}
      [] t = TRANSFER_NON_FUNGIBLE_MULTI ->
           {<<a, 1, l>> : a \in {1, 2}, l \in {<<>>, <<<<0>>>>, <<<<0>>, <<Top>>>>}}
      [] t = TRANSFER_NON_FUNGIBLE_MULTI_GAS_PAYER ->
           {<<1, a, 1, l>> : a \in {1, 2}, l \in {<<>>, <<<<0>>>>, <<<<0>>, <<Top>>>>}}
      [] OTHER -> Product(Payload(t))

Ordinary(t) == <<t, 0, Top, 0, 1, Blob(255, 1)>>
Heads(t) == {Ordinary(t), <<t, -Top - 1, 0, Top, 2, Empty>>}

\* Calls and scripts as large as the default envelopes, and by a byte larger.
Lean(t) == <<t, 0, 0, Top, 2, Empty>>
LargeMessages ==
    {[head |-> Lean(CALL), body |-> <<c[1], c[2], [args |-> Blob(c[3], 1), sections |-> <<>>]>>] :
       c \in {<<0, 1, 342>>, <<0, 1, 343>>, <<1, 2, 3926>>, <<1, 2, 3927>>,
              <<1, 6, 1878>>, <<1, 6, 1879>>}}
    \cup {[head |-> Lean(PHANTASMA), body |-> <<Empty, Empty, Blob(n, 1)>>] : n \in {860, 861}}

\* Every payload with an ordinary head, every head field out of range once, and
\* a call that sets a register whose offset is out of range.
MCMessages ==
    UNION {{[head |-> h, body |-> b] : h \in Heads(t), b \in Bodies(t)} : t \in TxTypes}
    \cup {[head |-> [Ordinary(TRANSFER_FUNGIBLE) EXCEPT ![i] = Top + 1],
           body |-> <<1, 0, 0>>] : i \in 2..4}
    \cup {[head |-> Ordinary(CALL), body |-> <<1, 0, Sections(<<Section(-Top - 2, Empty)>>)>>]}
    \cup LargeMessages

-----------------------------------------------------------------------------
(* Calls with arguments, and records of the chain.                         *)

AnySchema == Schema(<<SchemaField(1, INT8, NoSchema), SchemaField(2, VM_STRING, NoSchema)>>, TRUE)
Instance == Var(INT64, 1)
SomeMetadata == <<Named(2, Var(VM_STRING, Blob(3, 1))), Named(1, Var(INT8, -1))>>
SomeSeries == <<0, Top, 1, Blob(5, 1), AnySchema, Schema(<<>>, FALSE)>>
Token(flags, symbol, schemas) == <<7, flags, 8, 1, symbol, Blob(9, 1), schemas>>
Symbol(n) == Blob(n, 1)
Bytes(n) == Blob(n, 1)
PhantasmaNft(id) == <<id, Bytes(3), Empty>>

MCSupplied ==
    {Call(<<TOKEN, 0>>, <<1, 2, 0, 8>>), Call(<<TOKEN, 1>>, <<1, 2, 0, <<<<1>>, <<Top>>>>>>),
     Call(<<TOKEN, 2>>, Token(0, Symbol(4), Bytes(6))),
     Call(<<TOKEN, 2>>, Token(3, Symbol(4), Empty)),
     Call(<<TOKEN, 3>>, <<0, 1, -9>>), Call(<<TOKEN, 4>>, <<0, 1, 32767>>),
     Call(<<TOKEN, 8>>, <<0, 1, <<<<1, Bytes(3), Empty>>, <<Top, Empty, Bytes(1)>>>>>>),
     Call(<<TOKEN, 9>>, <<0, 1, <<>>>>),
     Call(<<TOKEN, 21>>, <<0>> \o SomeSeries \o <<2, <<<<Bytes(3)>>, <<Empty>>>>, <<>>>>),
     Call(<<TOKEN, 23>>, <<0, SomeMetadata>>), Call(<<TOKEN, 25>>, <<17>>),
     Call(<<TOKEN, 26>>, <<0, 1, Bytes(4)>>),
     Call(<<MARKET, 0>>, <<1, 0, 1, 2, 8, -1>>),
     Call(<<MARKET, 1>>, <<1, Symbol(4), Instance, Symbol(3), 7, 0>>),
     Call(<<MARKET, 2>>, <<0, 1>>), Call(<<MARKET, 3>>, <<Symbol(4), Instance>>),
     Call(<<MARKET, 4>>, <<1, 0, 1>>), Call(<<MARKET, 5>>, <<1, Symbol(4), Instance>>),
     Call(<<MARKET, 6>>, <<0>>), Call(<<MARKET, 7>>, <<0, 1>>),
     Call(<<MARKET, 8>>, <<Symbol(4), Instance>>)}

Count(n) == [i \in 1..n |-> i % (Top + 1)]

MCKept ==
    {Record(ChainConfig, <<1, 0, 0, 0, Top, 1, 0>>),
     Record(GasConfig, <<0>> \o Count(18) \o Count(10)),
     Record(GasConfig, <<1>> \o Count(18) \o Count(10)),
     Record(GasConfig, <<2>> \o Count(18) \o Defaults(GasConfig)),
     Record(TokenInfo, Token(1, Symbol(4), Empty)),
     Record(TokenInfo, Token(2, Symbol(4), Bytes(6))),
     Record(SeriesInfo, SomeSeries), Record(NFTMintInfo, <<1, Bytes(3), Empty>>),
     Record(TokenListing, <<0, 1, 0, 8, 0, Top>>), Record(MarketConfig, <<1, Top, 2, 3>>),
     Record(CreateTokenResult, <<Top>>), Record(CreateTokenSeriesResult, <<1>>),
     Record(MintNonFungibleResult, <<<<<<1>>, <<2>>>>>>),
     Record(MintNonFungibleResult, <<<<>>>>),
     Record(MintPhantasmaNonFungibleResult, <<<<<<1, 2>>, <<2, 0>>>>>>)}

Fees(base, multiplier, symbol) ==
    [gas_fee_base |-> base, fee_multiplier |-> multiplier,
     gas_fee_create_token_base |-> 0, gas_fee_create_token_symbol |-> symbol,
     gas_fee_create_series_base |-> 1]

\* Prices whose product passes the largest amount for one caller and not for
\* the other.
MCOrders ==
    [create_token |->
       {Order([max_supply |-> s, is_nft |-> nft, decimals |-> 8, owner |-> 1, symbol |-> Symbol(n),
               metadata |-> Bytes(9), token_schemas |-> t], Fees(1, 1, 4), e) :
          s \in {7, 8}, nft \in BOOLEAN, n \in {0, 1, 2, 70}, t \in {Empty, Bytes(6)}, e \in {0, 2}},
     create_token_series |->
       {Order(<<0>> \o SomeSeries, Fees(b, 1, 0), 0) : b \in {1, 3}},
     mint_phantasma_non_fungible |->
       {Order(<<0, 2, tokens>>, Fees(1, 2, 0), 0) :
          tokens \in {<<>>, <<PhantasmaNft(-9)>>, <<PhantasmaNft(7), PhantasmaNft(8)>>}},
     mint_non_fungible |->
       {Order(<<0, 2, 1, Bytes(3), Empty>>, Fees(1, 2, 0), 0)}]
=============================================================================
