----------------------------- MODULE CarbonCalls -----------------------------
(***************************************************************************)
(* The records that Carbon calls and answers are made of: the arguments of *)
(* the token and market contracts, token, series and NFT descriptions, the *)
(* chain's configurations and the results of a call.  A token builder puts *)
(* arguments into a transaction, CarbonTx carries it to the chain, and the *)
(* contract reads the arguments with the class of its method.  The other   *)
(* way round a record is fetched from the chain and read by the SDK, and   *)
(* its bytes may be cut short or extended.                                 *)
(***************************************************************************)
EXTENDS CarbonTx, CarbonValues

CONSTANTS
    Supplied,   \* calls made by hand: [method, args]
    Kept,       \* records the chain may answer with: [class, data]
    Orders,     \* for each token builder, how it may be called
    Soon        \* now_unix_millis() + 60 * 1000 when a transaction is built

VARIABLES
    record,     \* the object that was written: its class and the values of its fields
    image,      \* its bytes
    handed,     \* the bytes its reader gets
    made        \* what the reader makes of them

callVars == <<record, image, handed, made>>
allVars == <<vars, callVars>>

-----------------------------------------------------------------------------
(* The classes: kinds of field beside those of CarbonWire, the fields that *)
(* are always written, and those of the second part.                       *)

StructSchema == [kind |-> "schema"]     \* VMStructSchema
DynamicStruct == [kind |-> "struct"]    \* VMDynamicStruct
DynamicVariable == [kind |-> "var"]     \* VMDynamicVariable
ListingType == Ranged(1, 0, 0)

Times(n, kind) == [i \in 1..n |-> kind]

\* A class is the sequence of the fields it always writes.
ChainConfig == Times(4, Byte) \o Times(3, U32)
GasConfig == Times(4, Byte) \o <<U32>> \o Times(13, U64) \o <<Byte>>
TokensConfig == <<Byte>>
TokenInfo == <<IntX, Byte, Byte, Bytes32, Text, ByteArray>>
SeriesInfo == <<U32, U32, Bytes32, ByteArray, StructSchema, StructSchema>>
NFTMintInfo == <<U32, ByteArray, ByteArray>>
MintNonFungibleArgs == <<U64, Bytes32, ListOf(NFTMintInfo)>>
CreateTokenSeriesArgs == <<U64>> \o SeriesInfo
CreateMintedTokenSeriesArgs ==
    <<U64>> \o SeriesInfo \o <<Bytes32, ListOf(<<ByteArray>>), ListOf(<<ByteArray>>)>>
PhantasmaNFTMintInfo == <<IntX, ByteArray, ByteArray>>
MintPhantasmaNonFungibleArgs == <<U64, Bytes32, ListOf(PhantasmaNFTMintInfo)>>
PhantasmaNFTMintResult == <<Bytes32, U64>>
MintFungibleArgs == <<U64, Bytes32, IntX>>
TransferFungibleArgs == <<Bytes32, Bytes32, U64, IntX>>
TransferNonFungibleArgs == <<Bytes32, Bytes32, U64, ListOf(<<U64>>)>>
BurnFungibleArgs == <<U64, Bytes32, IntX>>
BurnNonFungibleArgs == <<U64, Bytes32, ListOf(<<U64>>)>>
UpdateTokenMetadataArgs == <<U64, DynamicStruct>>
UpdateSeriesMetadataArgs == <<U64, U32, ByteArray>>
TokenListing == <<ListingType, Bytes32, U64, IntX, Integer(8), Integer(8)>>
MarketConfig == Times(3, U64) \o <<U32>>
MarketSellTokenArgs == <<Bytes32, U64, U64, U64, IntX, Integer(8)>>
MarketSellTokenByIDArgs == <<Bytes32, Text, DynamicVariable, Text, IntX, Integer(8)>>
MarketCancelSaleArgs == <<U64, U64>>
MarketCancelSaleByIDArgs == <<Text, DynamicVariable>>
MarketBuyTokenArgs == <<Bytes32, U64, U64>>
MarketBuyTokenByIDArgs == <<Bytes32, Text, DynamicVariable>>
MarketGetTokenListingCountArgs == <<U64>>
MarketGetTokenListingInfoArgs == <<U64, U64>>
MarketGetTokenListingInfoByIDArgs == <<Text, DynamicVariable>>

\* The results of the four builders' calls.
CreateTokenResult == <<U64>>
CreateTokenSeriesResult == <<U32>>
MintNonFungibleResult == <<ListOf(<<U64>>)>>
MintPhantasmaNonFungibleResult == <<ListOf(PhantasmaNFTMintResult)>>

\* What the version or the flags of a first part may announce.
SecondPart(class) ==
    CASE class = GasConfig -> <<U64, U64, Byte, U64, Byte>> \o Times(5, U64)
      [] class = TokenInfo -> <<ByteArray>>
      [] class \notin {GasConfig, TokenInfo} -> <<>>

NON_FUNGIBLE == 2

HasSecondPart(class, first) ==
    \/ class = GasConfig /\ first[1] # 0
    \/ class = TokenInfo /\ (first[2] \div NON_FUNGIBLE) % 2 = 1

DefaultOf(kind) == IF kind = ByteArray THEN Empty ELSE 0

FirstOf(r) == SubSeq(r.data, 1, Len(r.class))
SecondOf(r) == SubSeq(r.data, Len(r.class) + 1, Len(r.data))

-----------------------------------------------------------------------------
(* write_carbon and read_carbon of the classes.                            *)

WriteKind(kind, v) ==
    CASE kind = StructSchema -> WriteSchema(v)
      [] kind = DynamicStruct -> WriteStruct(v, NoSchema)
      [] kind = DynamicVariable -> WriteVar(v)
      [] OTHER -> WriteField(kind, v)

ReadKind(kind, s) ==
    CASE kind = StructSchema -> ReadSchema(s)
      [] kind = DynamicStruct -> ReadStruct(NoSchema, s)
      [] kind = DynamicVariable -> ReadVar(s)
      [] kind = ListingType -> Then(Take(1, s), LAMBDA v, rest : If(v = 0, Got(v, rest)))
      [] OTHER -> ReadField(kind, s)

WriteAll(kinds, vs) ==
    WriteRow([i \in 1..Len(kinds) |-> WriteKind(kinds[i], vs[i])])

ReadAll(kinds, s) ==
    ReadRow([i \in 1..Len(kinds) |-> [r \in Stream |-> ReadKind(kinds[i], r)]], s)

WriteRecord(r) ==
    WriteAll(r.class, FirstOf(r))
    ++ (IF HasSecondPart(r.class, r.data)
        THEN WriteAll(SecondPart(r.class), SecondOf(r)) ELSE Written(<<>>))

Defaults(class) ==
    [i \in 1..Len(SecondPart(class)) |-> DefaultOf(SecondPart(class)[i])]

\* A slip of ReadRecord: a second part that is missing is taken for defaults.
ReadRecordLenient(class, s) ==
    Whole(Then(ReadAll(class, s), LAMBDA first, rest :
        IF HasSecondPart(class, first) /\ rest # <<>>
        THEN Map(ReadAll(SecondPart(class), rest), LAMBDA second : first \o second)
        ELSE Got(first \o Defaults(class), rest)))

ReadRecord(class, s) ==
    Whole(Then(ReadAll(class, s), LAMBDA first, rest :
        IF HasSecondPart(class, first)
        THEN Map(ReadAll(SecondPart(class), rest), LAMBDA second : first \o second)
        ELSE Got(first \o Defaults(class), rest)))

-----------------------------------------------------------------------------
(* The token builders, with the flat FeeOptions.                           *)

MARKET == 4

\* The class a contract reads the arguments of a method with.
ArgumentsOf ==
    <<TOKEN, 0>> :> TransferFungibleArgs @@ <<TOKEN, 1>> :> TransferNonFungibleArgs
    @@ <<TOKEN, CREATE_TOKEN>> :> TokenInfo @@ <<TOKEN, 3>> :> MintFungibleArgs
    @@ <<TOKEN, 4>> :> BurnFungibleArgs @@ <<TOKEN, CREATE_TOKEN_SERIES>> :> CreateTokenSeriesArgs
    @@ <<TOKEN, 8>> :> MintNonFungibleArgs @@ <<TOKEN, 9>> :> BurnNonFungibleArgs
    @@ <<TOKEN, 21>> :> CreateMintedTokenSeriesArgs
    @@ <<TOKEN, 23>> :> UpdateTokenMetadataArgs @@ <<TOKEN, 25>> :> TokensConfig
    @@ <<TOKEN, 26>> :> UpdateSeriesMetadataArgs
    @@ <<TOKEN, 27>> :> MintPhantasmaNonFungibleArgs
    @@ <<MARKET, 0>> :> MarketSellTokenArgs @@ <<MARKET, 1>> :> MarketSellTokenByIDArgs
    @@ <<MARKET, 2>> :> MarketCancelSaleArgs @@ <<MARKET, 3>> :> MarketCancelSaleByIDArgs
    @@ <<MARKET, 4>> :> MarketBuyTokenArgs @@ <<MARKET, 5>> :> MarketBuyTokenByIDArgs
    @@ <<MARKET, 6>> :> MarketGetTokenListingCountArgs
    @@ <<MARKET, 7>> :> MarketGetTokenListingInfoArgs
    @@ <<MARKET, 8>> :> MarketGetTokenListingInfoByIDArgs

\* FeeOptions.calculate_max_gas, its variants for a symbol and for a series.
MaxGas(f, count) == f.gas_fee_base * f.fee_multiplier * count

Halved(price, length) ==
    LET shift == IF length = 0 THEN 0 ELSE length - 1
    IN  IF shift < 64 THEN price \div 2^shift ELSE 0

MaxGasForSymbol(f, symbol) ==
    (f.gas_fee_base + f.gas_fee_create_token_base
       + Halved(f.gas_fee_create_token_symbol, symbol.n)) * f.fee_multiplier

MaxGasForSeries(f) == (f.gas_fee_base + f.gas_fee_create_series_base) * f.fee_multiplier

BuiltHead(type, order, max_gas) ==
    <<type, IF order.expiry = 0 THEN Soon ELSE order.expiry, max_gas,
      order.max_data, order.sender, Empty>>

\* The argument bytes of a call, kept aside as image.
Arguments(cells) == [args |-> Blob(Size(cells), 1), sections |-> <<>>]

-----------------------------------------------------------------------------
NoRecord == [class |-> <<>>, data |-> <<>>]

CallInit == Init /\ record = NoRecord /\ image = <<>> /\ handed = <<>> /\ made = Fails

Fresh == msg = NoMsg /\ record = NoRecord

\* A call of a method with these values of its arguments.
WithArguments(method, data, head) ==
    LET r == [class |-> ArgumentsOf[method], data |-> data]
        w == WriteRecord(r)
    IN  /\ Fresh /\ w.ok
        /\ record' = r
        /\ image' = w.cells
        /\ msg' = [head |-> head, body |-> method \o <<Arguments(w.cells)>>]
        /\ UNCHANGED <<witnesses, issued, wire, arrived, seen, handed, made>>

\* A call message made by hand.
BuildCall(call) ==
    WithArguments(call.method, call.args, <<CALL, Soon, 1, 1, 1, Empty>>)

\* build_token_info: an NFT's supply is of 64 bits and its schemas are given;
\* a wider supply of another token sets a flag.
BIG_FUNGIBLE == 1

TokenInfoAllowed(t) ==
    /\ 0 < t.symbol.n /\ t.symbol.n <= 255
    /\ t.is_nft => Is8ByteSafe(t.max_supply) /\ t.token_schemas # Empty

TokenInfoFor(t) ==
    <<t.max_supply,
      IF t.is_nft THEN NON_FUNGIBLE ELSE IF Is8ByteSafe(t.max_supply) THEN 0 ELSE BIG_FUNGIBLE,
      t.decimals, t.owner, t.symbol, t.metadata, t.token_schemas>>

BuildCreateToken(order) ==
    /\ TokenInfoAllowed(order.item)
    /\ WithArguments(<<TOKEN, CREATE_TOKEN>>, TokenInfoFor(order.item),
                     BuiltHead(CALL, order, MaxGasForSymbol(order.fees, order.item.symbol)))

BuildCreateTokenSeries(order) ==
    WithArguments(<<TOKEN, CREATE_TOKEN_SERIES>>, order.item,
                  BuiltHead(CALL, order, MaxGasForSeries(order.fees)))

\* No NFT to mint is no count to offer for.
BuildMintPhantasmaNonFungible(order) ==
    /\ order.item[3] # <<>>
    /\ WithArguments(<<TOKEN, 27>>, order.item,
                     BuiltHead(CALL, order, MaxGas(order.fees, Len(order.item[3]))))

\* build_mint_non_fungible_tx: no call, but a payload of its own.
BuildMintNonFungible(order) ==
    /\ Fresh
    /\ Build([head |-> BuiltHead(MINT_NON_FUNGIBLE, order, MaxGas(order.fees, 1)),
              body |-> order.item])
    /\ UNCHANGED callVars

\* The contract reads its arguments from the transaction that arrived.
Execute ==
    /\ record # NoRecord /\ seen.ok /\ handed = <<>>
    /\ seen.v.msg.body[3].args.id = 1
    /\ handed' = image
    /\ made' = ReadRecord(ArgumentsOf[SubSeq(seen.v.msg.body, 1, 2)], image)
    /\ UNCHANGED <<vars, record, image>>

\* A record of the chain, as the SDK gets it.
Fetch(r) ==
    /\ Fresh
    /\ record' = r
    /\ image' = WriteRecord(r).cells
    /\ WriteRecord(r).ok
    /\ handed' \in Arrivals(image')
    /\ made' = ReadRecord(r.class, handed')
    /\ UNCHANGED vars

CallNext ==
    \/ \E m \in Messages : Fresh /\ Build(m) /\ UNCHANGED callVars
    \/ \E k \in Keys : (SignTxMsg(k) \/ Cosign(k)) /\ UNCHANGED callVars
    \/ Send /\ UNCHANGED callVars
    \/ Receive /\ UNCHANGED callVars
    \/ \E call \in Supplied : BuildCall(call)
    \/ \E order \in Orders.create_token : BuildCreateToken(order)
    \/ \E order \in Orders.create_token_series : BuildCreateTokenSeries(order)
    \/ \E order \in Orders.mint_phantasma_non_fungible :
         BuildMintPhantasmaNonFungible(order)
    \/ \E order \in Orders.mint_non_fungible : BuildMintNonFungible(order)
    \/ Execute
    \/ \E r \in Kept : Fetch(r)

CallSpec == CallInit /\ [][CallNext]_allVars
-----------------------------------------------------------------------------
(* Properties.                                                             *)

MeantKind(kind, v) == IF kind = DynamicStruct THEN Sorted(v) ELSE v

\* What the written form keeps of a record: a second part only where the first
\* one announces it.
MeantRecord(r) ==
    [i \in 1..Len(r.class) |-> MeantKind(r.class[i], r.data[i])]
    \o (IF HasSecondPart(r.class, r.data) THEN SecondOf(r) ELSE Defaults(r.class))

\* What the contract, or the SDK, makes of the bytes of a record is what the
\* other side wrote, with no part of it taken for another; if they were cut or
\* extended they are refused, although a configuration of version 0 is a prefix
\* of one of version 1, and a token without schemas is a prefix of one with
\* them.
RecordsAsSupplied ==
    /\ made.ok => handed = image /\ made.v = MeantRecord(record)
    /\ (handed # <<>> /\ handed = image) => made.ok
=============================================================================
