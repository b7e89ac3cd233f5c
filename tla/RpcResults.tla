----------------------------- MODULE RpcResults -----------------------------
(***************************************************************************)
(* The result classes of rpc.py and their lenient decoding: a field that   *)
(* is a list, a nested object or a value that decodes itself is decoded,   *)
(* any other is passed through as it arrived.                              *)
(*                                                                         *)
(* The types are those of WireShapes; <<"event">> is an extended event,    *)
(* and <<"again", name>> a class that is met again inside itself.          *)
(***************************************************************************)
EXTENDS ExtendedEvents, FiniteSets

Zero == StrOr("0")
Zeros(names) == [f \in names |-> Zero]
OptInts(names) == [f \in names |-> Optional(Integer)]
Event == <<"event", {}, Null>>
Again(name) == <<"again", name, Null>>

BalanceResult == Shape("BalanceResult",
  Texts({"chain", "symbol"}) @@ Zeros({"amount"}) @@ Ints({"decimals"})
  @@ [ids |-> Optional(ListOf(Str))])

InteropResult == Shape("InteropResult", Texts({"local", "external"}))
PlatformResult == Shape("PlatformResult",
  Texts({"platform", "chain", "fuel"}) @@ [tokens |-> ListOf(Str), interop |-> ListOf(InteropResult)])
GovernanceResult == Shape("GovernanceResult", Texts({"name", "value"}))
TokenPropertyResult == Shape("TokenPropertyResult", Texts({"key"}) @@ [value |-> VmField])
OrganizationResult == Shape("OrganizationResult",
  OptTexts({"name", "owner", "carbonOwner", "memberCount"}) @@ [metadata |-> ListOf(TokenPropertyResult)])
OrganizationMemberResult == Shape("OrganizationMemberResult",
  OptTexts({"address", "carbonAddress"}) @@ [isMember |-> Flag] @@ OptInts({"memberTime"}))

StakeResult == Shape("StakeResult", Zeros({"amount", "unclaimed"}) @@ Ints({"time"}))
ArchiveResult == Shape("ArchiveResult",
  OptTexts({"name", "hash", "encryption"}) @@ Ints({"time", "size", "blockCount"})
  @@ [missingBlocks |-> Optional(ListOf(Integer)), owners |-> Optional(ListOf(Str))])
StorageResult == Shape("StorageResult",
  Ints({"available", "used"}) @@ Texts({"avatar"}) @@ [archives |-> ListOf(ArchiveResult)])
AccountInfoResult == Shape("AccountInfoResult", Texts({"address", "name"}) @@ [stake |-> StakeResult])
AccountResult == Shape("AccountResult",
  Texts({"address", "name", "validator"}) @@ Zeros({"stake", "unclaimed"}) @@ OptTexts({"relay"})
  @@ [stakes |-> StakeResult, storage |-> StorageResult, balances |-> ListOf(BalanceResult),
      txs |-> Optional(ListOf(Str))])

LeaderboardRowResult == Shape("LeaderboardRowResult", Texts({"address", "value"}))
LeaderboardResult == Shape("LeaderboardResult",
  OptTexts({"name"}) @@ [rows |-> Optional(ListOf(LeaderboardRowResult))])
ChainResult == Shape("ChainResult",
  OptTexts({"name", "address", "parent", "organization"}) @@ Ints({"height"})
  @@ [contracts |-> Optional(ListOf(Str)), dapps |-> Optional(ListOf(Str))])

GasConfigDataResult == Shape("GasConfigDataResult",
  Ints({"version", "maxNameLength", "maxTokenSymbolLength", "feeShift", "maxStructureSize",
        "gasBurnRatioShift"})
  @@ OptTexts({"feeMultiplier", "gasTokenId", "dataTokenId", "minimumGasOffer", "dataEscrowPerRow",
        "gasFeeTransfer", "gasFeeQuery", "gasFeeCreateTokenBase", "gasFeeCreateTokenSymbol",
        "gasFeeCreateTokenSeries", "gasFeePerByte", "gasFeeRegisterName", "gasBurnRatioMul",
        "minimumGasBill", "gasProducerRatioMul", "gasDappRatioMul", "policyFeeCreateTokenBase",
        "policyFeeCreateTokenSymbol", "policyFeeCreateTokenSeries", "policyFeeRegisterName",
        "legacyDataEscrowPerRow"})
  @@ OptInts({"gasProducerRatioShift", "gasDappRatioShift"}))
GasConfigResult == Shape("GasConfigResult",
  Ints({"gasModelVersion", "blockRateTarget", "expiryWindow"})
  @@ [gasConfig |-> Optional(GasConfigDataResult)] @@ OptInts({"unitsPerBlockDataByte"}))

EstimateTransactionResult == Shape("EstimateTransactionResult",
  [wouldAbort |-> Flag] @@ Texts({"abortReason"})
  @@ OptTexts({"gasBillKcalBase", "dataRows", "dataEscrowAtoms", "dataRefundAtoms",
               "recommendedMaxGas", "recommendedMaxData"}))

-----------------------------------------------------------------------------
(* Transactions and blocks.                                                *)

EventResult == Shape("EventResult", Texts({"address", "contract", "kind", "name", "data"}))
OracleResult == Shape("OracleResult", Texts({"url", "content"}))
SignatureResult == Shape("SignatureResult", Texts({"kind", "data"}))

TransactionResult == Shape("TransactionResult",
  Texts({"hash", "chainAddress", "blockHash", "script", "payload", "carbonTxData", "state", "result",
         "sender", "gasPayer", "gasTarget", "gasPrice", "gasLimit"})
  @@ Ints({"timestamp", "blockHeight", "carbonTxType", "expiration"}) @@ Zeros({"fee"})
  @@ OptTexts({"debugComment"})
  @@ [events |-> ListOf(EventResult), extendedEvents |-> ListOf(Event),
      signatures |-> ListOf(SignatureResult)])

AddressTransactionsResult == Shape("AddressTransactionsResult",
  Texts({"address"}) @@ [txs |-> ListOf(TransactionResult)])

BlockResult == Shape("BlockResult",
  Texts({"hash", "previousHash", "chainAddress", "validatorAddress"})
  @@ Ints({"timestamp", "height", "protocol"}) @@ Zeros({"reward"}) @@ OptTexts({"producerAddress"})
  @@ [txs |-> ListOf(TransactionResult), events |-> Optional(ListOf(EventResult)),
      oracles |-> Optional(ListOf(OracleResult))])

ScriptResult == Shape("ScriptResult",
  OptTexts({"result", "error", "state", "gas"})
  @@ [events |-> ListOf(EventResult), results |-> ListOf(Str), oracles |-> ListOf(OracleResult)])

-----------------------------------------------------------------------------
(* Tokens, contracts, markets.  A struct schema has fields whose schemas   *)
(* can be structs again.                                                   *)

VMVariableSchemaResult == Shape("VMVariableSchemaResult",
  Texts({"type"}) @@ [schema |-> Optional(Again("VMStructSchemaResult"))])
VMNamedVariableSchemaResult == Shape("VMNamedVariableSchemaResult",
  Texts({"name"}) @@ [schema |-> VMVariableSchemaResult])
VMStructSchemaResult == Shape("VMStructSchemaResult",
  [fields |-> ListOf(VMNamedVariableSchemaResult)] @@ Ints({"flags"}))
TokenSchemasResult == Shape("TokenSchemasResult",
  [seriesMetadata |-> VMStructSchemaResult, rom |-> VMStructSchemaResult, ram |-> VMStructSchemaResult])

ABIParameterResult == Shape("ABIParameterResult", Texts({"name", "type"}))
ABIMethodResult == Shape("ABIMethodResult",
  Texts({"name", "returnType"}) @@ [parameters |-> ListOf(ABIParameterResult)])
ABIEventResult == Shape("ABIEventResult",
  Texts({"name", "returnType", "description"}) @@ Ints({"value"}))
ContractResult == Shape("ContractResult",
  Texts({"name", "address", "script"}) @@ OptTexts({"owner"})
  @@ [methods |-> Optional(ListOf(ABIMethodResult)), events |-> Optional(ListOf(ABIEventResult))])

TokenExternalResult == Shape("TokenExternalResult", Texts({"platform", "hash"}))
TokenPriceResult == Shape("TokenPriceResult",
  Ints({"timestamp"}) @@ Zeros({"open", "high", "low", "close"}))
TokenSeriesResult == Shape("TokenSeriesResult",
  Texts({"seriesId", "carbonTokenId", "carbonSeriesId", "ownerAddress"})
  @@ Zeros({"maxMint", "mintCount", "currentSupply", "maxSupply"})
  @@ OptTexts({"burnedSupply", "mode", "script"})
  @@ [methods |-> Optional(ListOf(ABIMethodResult)), metadata |-> ListOf(TokenPropertyResult)])
TokenResult == Shape("TokenResult",
  Texts({"symbol", "name", "address", "owner", "flags", "carbonId"}) @@ Ints({"decimals"})
  @@ Zeros({"currentSupply", "maxSupply", "burnedSupply"}) @@ OptTexts({"script"})
  @@ [series |-> ListOf(TokenSeriesResult), metadata |-> Optional(ListOf(TokenPropertyResult)),
      tokenSchemas |-> Optional(TokenSchemasResult),
      external |-> Optional(ListOf(TokenExternalResult)), price |-> Optional(ListOf(TokenPriceResult))])
TokenDataResult == Shape("TokenDataResult",
  Texts({"id", "series", "carbonTokenId", "carbonSeriesId", "carbonNftAddress", "mint", "chainName",
         "ownerAddress", "creatorAddress", "ram", "rom", "status"})
  @@ [infusion |-> ListOf(TokenPropertyResult), properties |-> ListOf(TokenPropertyResult)])

AuctionResult == Shape("AuctionResult",
  Texts({"creatorAddress", "chainAddress", "baseSymbol", "quoteSymbol", "tokenId", "type", "rom",
         "ram", "currentWinner"})
  @@ Ints({"startDate", "endDate"}) @@ Zeros({"price", "endPrice", "extensionPeriod", "listingFee"}))
BuildInfoResult == Shape("BuildInfoResult", Texts({"version", "commit", "buildTimeUtc"}))
PhantasmaVMConfigResult == Shape("PhantasmaVMConfigResult",
  [isStored |-> Flag] @@ Ints({"featureLevel"})
  @@ Zeros({"gasConstructor", "gasNexus", "gasOrganization", "gasAccount", "gasLeaderboard",
            "gasStandard", "gasOracle", "fuelPerContractDeploy"}))
NexusResult == Shape("NexusResult",
  OptTexts({"name"}) @@ Ints({"protocol"})
  @@ [platforms |-> Optional(ListOf(PlatformResult)), tokens |-> Optional(ListOf(TokenResult)),
      chains |-> Optional(ListOf(ChainResult)), governance |-> Optional(ListOf(GovernanceResult)),
      organizations |-> Optional(ListOf(Str))])

-----------------------------------------------------------------------------
(* _decode_dataclass and _decode_value.  Raises is the set of exceptions   *)
(* the decoding can stop with; without any, Taken is the decoded value.    *)
(* The Python name of a field is looked up first.                          *)

TakenFrom(members, f) ==
  IF PythonName(f) \in DOMAIN members THEN members[PythonName(f)] ELSE members[f]

Falsy(v) ==
  v \in {Null, Bool(FALSE), Num(0), Text(""), List(<< >>), Obj(<< >>)}

\* "value or []" iterated: a text gives its characters (here the texts are
\* one character long), an object its keys, a falsy value nothing.
Iterable(v) == Falsy(v) \/ KindOf(v) \in {"list", "text", "obj"}
Items(v) ==
  IF Falsy(v) THEN << >>
  ELSE IF KindOf(v) = "list" THEN Body(v)
  ELSE IF KindOf(v) = "text" THEN << v >>
  ELSE [i \in 1..Cardinality(DOMAIN Body(v)) |-> Text("key")]

ResultClass(type) == IF type[1] = "again" THEN VMStructSchemaResult ELSE type

RECURSIVE Raises(_, _), Taken(_, _)

Raises(type, v) ==
  CASE type[1] = "list" ->
         IF Iterable(v) THEN UNION {Raises(type[2], Items(v)[i]) : i \in DOMAIN Items(v)}
                        ELSE {"TypeError"}
    [] type[1] = "opt" -> IF v = Null THEN {} ELSE Raises(type[2], v)
    [] type[1] \in {"shape", "again"} ->
         LET members == FieldsOf(ResultClass(type))
         IN  IF KindOf(v) # "obj" THEN {"RPCError"}
             ELSE UNION {Raises(members[f], TakenFrom(Body(v), f)) :
                           f \in {g \in DOMAIN members : Given(Body(v), g)}}
    [] OTHER -> {}

Taken(type, v) ==
  CASE type[1] = "vm"    -> FromWire(v)
    [] type[1] = "event" -> EventFromWire(v)
    [] type[1] = "list"  -> List([i \in DOMAIN Items(v) |-> Taken(type[2], Items(v)[i])])
    [] type[1] = "opt"   -> IF v = Null THEN Null ELSE Taken(type[2], v)
    [] type[1] \in {"shape", "again"} ->
         LET class == ResultClass(type)
         IN  <<"object", NameOf(class),
               [f \in DOMAIN FieldsOf(class) |->
                  IF Given(Body(v), f) THEN Taken(FieldsOf(class)[f], TakenFrom(Body(v), f))
                                       ELSE Default(FieldsOf(class)[f])]>>
    [] OTHER -> v

=============================================================================
