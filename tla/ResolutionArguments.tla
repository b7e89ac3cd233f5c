------------------------ MODULE ResolutionArguments -------------------------
(***************************************************************************)
(* special_resolution_arguments.py: the shape of the arguments of every    *)
(* call a special resolution can carry, the table from module and method   *)
(* to shape, and the decoding that falls back to the JSON kept verbatim.   *)
(***************************************************************************)
EXTENDS WireShapes

-----------------------------------------------------------------------------
(* Fallback shapes.                                                        *)

RawArguments == Shape("RawArguments", Texts({"rawArgs"}))
UnrecognizedArguments(v) == Raw("UnrecognizedArguments", v)

-----------------------------------------------------------------------------
(* The governance module.  The tail of a gas configuration is there only   *)
(* when the configuration declares version 1 or later.                     *)

GasConfigArguments == Shape("GasConfigArguments",
  Texts({"version", "maxNameLength", "maxTokenSymbolLength", "feeShift", "maxStructureSize",
         "feeMultiplier", "gasTokenId", "dataTokenId", "minimumGasOffer", "dataEscrowPerRow",
         "gasFeeTransfer", "gasFeeQuery", "gasFeeCreateTokenBase", "gasFeeCreateTokenSymbol",
         "gasFeeCreateTokenSeries", "gasFeePerByte", "gasFeeRegisterName", "gasBurnRatioMul",
         "gasBurnRatioShift"})
  @@ OptTexts({"minimumGasBill", "gasProducerRatioMul", "gasProducerRatioShift", "gasDappRatioMul",
         "gasDappRatioShift", "policyFeeCreateTokenBase", "policyFeeCreateTokenSymbol",
         "policyFeeCreateTokenSeries", "policyFeeRegisterName", "legacyDataEscrowPerRow"}))

ChainConfigArguments == Shape("ChainConfigArguments",
  Texts({"version", "reserved1", "reserved2", "reserved3", "allowedTxTypes", "expiryWindow",
         "blockRateTarget"}))

NestedResolutionArguments == Shape("NestedResolutionArguments", Texts({"resolutionId"}))
MetadataArguments == Shape("MetadataArguments", [metadata |-> DictOf(VmField)])
ConsensusNode == Shape("ConsensusNode", Texts({"id", "type"}))
NodeConfigArguments == Shape("NodeConfigArguments", [nodes |-> ListOf(ConsensusNode)])
RegisterNameArguments == Shape("RegisterNameArguments", Texts({"address", "name"}))
AddressArguments == Shape("AddressArguments", Texts({"address"}))
NameArguments == Shape("NameArguments", Texts({"name"}))

-----------------------------------------------------------------------------
(* The phantasma_vm module.                                                *)

ExecuteScriptArguments == Shape("ExecuteScriptArguments", Texts({"maxGas", "gasFrom", "script"}))

RegisterTokenContractArguments == Shape("RegisterTokenContractArguments",
  Texts({"tokenId", "symbol", "script", "abi"}) @@ OptTexts({"token"}))

DeployContractArguments == Shape("DeployContractArguments",
  Texts({"from", "contractName", "script", "abi"}))

PhantasmaVmConfigArguments == Shape("PhantasmaVmConfigArguments",
  Texts({"featureLevel", "gasConstructor", "gasNexus", "gasOrganization", "gasAccount",
         "gasLeaderboard", "gasStandard", "gasOracle", "fuelPerContractDeploy"}))

ContractStorageRow == Shape("ContractStorageRow", Texts({"key", "value"}))

ContractStorageTable == Shape("ContractStorageTable",
  Texts({"name"}) @@ [rows |-> ListOf(ContractStorageRow)])

ImportedContract == Shape("ImportedContract",
  Texts({"name", "address", "owner", "script", "abi"})
  @@ [rootVariables |-> ListOf(ContractStorageRow), tables |-> ListOf(ContractStorageTable)])

ImportContractsArguments == Shape("ImportContractsArguments",
  [contractsCount |-> StrOr("0"), contracts |-> ListOf(ImportedContract)])

SeriesSupplement == Shape("SeriesSupplement",
  Texts({"token", "tokenId", "phantasmaSeriesId", "maxSupply", "mintCount", "mode", "script", "abi",
         "rom"}))

SeriesMintCountRepair == Shape("SeriesMintCountRepair",
  Texts({"token", "tokenId", "phantasmaSeriesId", "importedLiveCount", "script", "abi"}))

RepairSeriesArguments == Shape("RepairSeriesArguments",
  [supplementsCount |-> StrOr("0"), supplements |-> ListOf(SeriesSupplement),
   repairsCount |-> StrOr("0"), repairs |-> ListOf(SeriesMintCountRepair)])

TokenRepair == Shape("TokenRepair",
  Texts({"token", "tokenId", "symbol", "script", "abi", "tokenFlags", "repairMask"}))

RepairTokenArguments == Shape("RepairTokenArguments",
  [repairsCount |-> StrOr("0"), repairs |-> ListOf(TokenRepair)])

-----------------------------------------------------------------------------
(* The token module.  Most shapes extend the reference to a token.         *)

TokenReferenceArguments == Shape("TokenReferenceArguments", Texts({"token", "tokenId"}))

TokenCall(name, members) == Shape(name, FieldsOf(TokenReferenceArguments) @@ members)

TokenSeriesReferenceArguments == TokenCall("TokenSeriesReferenceArguments", Texts({"seriesId"}))
SymbolArguments == Shape("SymbolArguments", Texts({"symbol"}))
TransferFungibleArguments == TokenCall("TransferFungibleArguments", Texts({"from", "to", "amount"}))
TransferNonFungibleArguments == TokenCall("TransferNonFungibleArguments",
  Texts({"from", "to"}) @@ [instanceIds |-> ListOf(Str)])
MintFungibleArguments == TokenCall("MintFungibleArguments", Texts({"to", "amount"}))
BurnFungibleArguments == TokenCall("BurnFungibleArguments", Texts({"from", "amount"}))
BalanceArguments == TokenCall("BalanceArguments", Texts({"address"}))

CreateTokenArguments == Shape("CreateTokenArguments",
  Texts({"symbol", "owner", "maxSupply", "decimals", "flags"})
  @@ [metadata |-> Optional(DictOf(VmField))] @@ OptTexts({"tokenSchemas"}))

TokenSeriesArguments == TokenCall("TokenSeriesArguments",
  Texts({"owner", "maxMint", "maxSupply"})
  @@ [metadata |-> Optional(DictOf(VmField))] @@ OptTexts({"seriesId", "metadataRaw"}))

CreateMintedTokenSeriesArguments == Shape("CreateMintedTokenSeriesArguments",
  FieldsOf(TokenSeriesArguments)
  @@ Texts({"recipient"}) @@ [roms |-> ListOf(Str), rams |-> ListOf(Str)])

NftMint == Shape("NftMint", Texts({"seriesId", "rom", "ram"}))
PhantasmaNftMint == Shape("PhantasmaNftMint", Texts({"phantasmaSeriesId", "rom", "ram"}))
MintNonFungibleArguments == TokenCall("MintNonFungibleArguments",
  Texts({"owner"}) @@ [tokens |-> ListOf(NftMint)])
MintPhantasmaNonFungibleArguments == TokenCall("MintPhantasmaNonFungibleArguments",
  Texts({"owner"}) @@ [tokens |-> ListOf(PhantasmaNftMint)])
BurnNonFungibleArguments == TokenCall("BurnNonFungibleArguments",
  Texts({"address"}) @@ [instanceIds |-> ListOf(Str)])
NonFungibleInfoArguments == TokenCall("NonFungibleInfoArguments", Texts({"instanceId", "getSchemas"}))
NonFungibleInfoByRomIdArguments == TokenCall("NonFungibleInfoByRomIdArguments",
  Texts({"romId", "getSchemas"}))
SeriesInfoByMetaIdArguments == TokenCall("SeriesInfoByMetaIdArguments", Texts({"romId"}))
TokensConfigArguments == Shape("TokensConfigArguments",
  Texts({"flags"}) @@ [flagsNames |-> ListOf(Str)])
UpdateTokenMetadataArguments == TokenCall("UpdateTokenMetadataArguments",
  [metadata |-> Optional(DictOf(VmField))])
UpdateSeriesMetadataArguments == TokenCall("UpdateSeriesMetadataArguments",
  Texts({"seriesId", "metadata"}))

-----------------------------------------------------------------------------
(* Module and method to the shape of that call's arguments.                *)

GovernanceShapes ==
  [SetGasConfig |-> GasConfigArguments,         SetChainConfig |-> ChainConfigArguments,
   SpecialResolution |-> NestedResolutionArguments, SetMetadata |-> MetadataArguments,
   SetNodeConfig |-> NodeConfigArguments,       RegisterName |-> RegisterNameArguments,
   LookupName |-> AddressArguments,             LookupAddress |-> NameArguments]

PhantasmaVmShapes ==
  [ExecuteScript |-> ExecuteScriptArguments,    RegisterTokenContract |-> RegisterTokenContractArguments,
   DeployContract |-> DeployContractArguments,  IsContractDeployed |-> NameArguments,
   SetConfig |-> PhantasmaVmConfigArguments,    ImportContracts |-> ImportContractsArguments,
   RepairSeries |-> RepairSeriesArguments,      RepairToken |-> RepairTokenArguments]

TokenShapes ==
  [TransferFungible |-> TransferFungibleArguments,    TransferNonFungible |-> TransferNonFungibleArguments,
   CreateToken |-> CreateTokenArguments,              MintFungible |-> MintFungibleArguments,
   BurnFungible |-> BurnFungibleArguments,            GetBalance |-> BalanceArguments,
   CreateTokenSeries |-> TokenSeriesArguments,        DeleteTokenSeries |-> TokenSeriesReferenceArguments,
   MintNonFungible |-> MintNonFungibleArguments,      BurnNonFungible |-> BurnNonFungibleArguments,
   GetNonFungibleInfo |-> NonFungibleInfoArguments,
   GetNonFungibleInfoByRomId |-> NonFungibleInfoByRomIdArguments,
   GetSeriesInfo |-> TokenSeriesReferenceArguments,   GetSeriesInfoByMetaId |-> SeriesInfoByMetaIdArguments,
   GetTokenInfo |-> TokenReferenceArguments,          GetTokenInfoBySymbol |-> SymbolArguments,
   GetTokenSupply |-> TokenReferenceArguments,        GetSeriesSupply |-> TokenSeriesReferenceArguments,
   GetTokenIdBySymbol |-> SymbolArguments,            GetBalances |-> AddressArguments,
   CreateMintedTokenSeries |-> CreateMintedTokenSeriesArguments,
   ApplyInflation |-> TokenReferenceArguments,        UpdateTokenMetadata |-> UpdateTokenMetadataArguments,
   GetNextTokenInflation |-> TokenReferenceArguments, SetTokensConfig |-> TokensConfigArguments,
   UpdateSeriesMetadata |-> UpdateSeriesMetadataArguments,
   MintPhantasmaNonFungible |-> MintPhantasmaNonFungibleArguments]

ARGUMENT_SHAPES ==
  [governance |-> GovernanceShapes, phantasma_vm |-> PhantasmaVmShapes, token |-> TokenShapes]

Modelled(module, method) ==
  module \in DOMAIN ARGUMENT_SHAPES /\ method \in DOMAIN ARGUMENT_SHAPES[module]

\* decode_shape with its ShapeMismatch caught: the shape, or the JSON as it is.
ShapeOrRaw(shape, v) == IF Fits(shape, v) THEN Read(shape, v) ELSE UnrecognizedArguments(v)

\* A slip of ShapeOfCall: the shape is chosen by the method alone, a raw dump or not.
ShapeOfCallByName(module, method, v) ==
  IF Modelled(module, method) THEN ARGUMENT_SHAPES[module][method] ELSE RawArguments

\* A raw dump is recognised by its content before the method is looked up.
ShapeOfCall(module, method, v) ==
  IF "rawArgs" \in DOMAIN Body(v) THEN RawArguments ELSE ARGUMENT_SHAPES[module][method]

decode_special_resolution_arguments(module, method, v) ==
  IF v = Null THEN Null
  ELSE IF KindOf(v) = "obj" /\ ("rawArgs" \in DOMAIN Body(v) \/ Modelled(module, method))
         THEN ShapeOrRaw(ShapeOfCall(module, method, v), v)
         ELSE UnrecognizedArguments(v)

=============================================================================
