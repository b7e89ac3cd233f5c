----------------------------- MODULE RpcMethods -----------------------------
(***************************************************************************)
(* The typed methods of PhantasmaRPC (rpc.py): the request each one makes  *)
(* of its arguments, and how the node's answer becomes its result.         *)
(***************************************************************************)
EXTENDS RpcResults, FiniteSetsExt

CONSTANTS
  Numeral,     \* the number int() makes of a text
  DigitTexts   \* the texts that isdigit() accepts, superscripts among them

Absent == Null     \* None as an argument

-----------------------------------------------------------------------------
(* The methods: the names of the parameters in their order, and how the    *)
(* result is read.                                                         *)

Method(params, how, class) == [params |-> params, how |-> how, class |-> class]
Plain == <<"str", {}, Null>>
Checked == <<"check", "addressType">>
PageOf == <<"account", "symbol", "tokenId", "pageSize", "cursor">>

AccountMethods ==
  [getPlatforms |-> Method(<< >>, "list", PlatformResult),
   getAccountInfo |-> Method(<<"address">> \o Checked, "one", AccountInfoResult),
   getAccountInfos |-> Method(<<"addresses">> \o Checked, "list", AccountInfoResult),
   getAccount |-> Method(<<"address", "extended">> \o Checked, "one", AccountResult),
   getAccounts |-> Method(<<"addresses", "extended">> \o Checked, "list", AccountResult),
   lookUpName |-> Method(<<"name">>, "text", Plain),
   getAddressTransactions |-> Method(<<"address", "page", "pageSize">>, "page", AddressTransactionsResult),
   getAddressTransactionCount |-> Method(<<"address", "chain">>, "count", Plain)]

ChainMethods ==
  [getBlockByHeight |-> Method(<<"chain", "height">>, "one", BlockResult),
   getBlockHeight |-> Method(<<"chain">>, "count", Plain),
   getBlockTransactionCountByHash |-> Method(<<"chain", "hash">>, "count", Plain),
   getBlockByHash |-> Method(<<"hash">>, "one", BlockResult),
   getLatestBlock |-> Method(<<"chain">>, "one", BlockResult),
   getTransactionByBlockHashAndIndex |-> Method(<<"chain", "hash", "index">>, "one", TransactionResult),
   getTransaction |-> Method(<<"hash">>, "one", TransactionResult),
   getChains |-> Method(<<"extended">>, "list", ChainResult),
   getChain |-> Method(<<"name", "extended">>, "one", ChainResult),
   getGasConfig |-> Method(<< >>, "one", GasConfigResult),
   estimateTransaction |-> Method(<<"tx">>, "one", EstimateTransactionResult),
   getNexus |-> Method(<<"extended">>, "one", NexusResult),
   getContract |-> Method(<<"chain", "name">>, "one", ContractResult),
   getContractByAddress |-> Method(<<"chain", "address">>, "one", ContractResult),
   getContracts |-> Method(<<"chain", "extended">>, "list", ContractResult)]

TokenMethods ==
  [getOrganization |-> Method(<<"name", "memberCount">>, "one", OrganizationResult),
   getOrganizations |-> Method(<<"pageSize", "cursor", "memberCount">>, "cursor", OrganizationResult),
   getOrganizationMembers |->
     Method(<<"name", "pageSize", "cursor", "memberTime">>, "cursor", OrganizationMemberResult),
   getOrganizationMember |-> Method(<<"name", "address">> \o Checked, "one", OrganizationMemberResult),
   getLeaderboard |-> Method(<<"name">>, "one", LeaderboardResult),
   getToken |-> Method(<<"symbol", "extended", "tokenId">>, "one", TokenResult),
   getTokens |-> Method(<<"extended", "owner", "addressType">>, "list", TokenResult),
   getTokenData |-> Method(<<"symbol", "id">>, "one", TokenDataResult),
   getTokenBalance |-> Method(<<"address", "symbol", "chain">> \o Checked, "one", BalanceResult),
   getTokenSeries |-> Method(<<"symbol", "tokenId", "pageSize", "cursor">>, "cursor", TokenSeriesResult),
   getTokenSeriesById |-> Method(<<"symbol", "tokenId", "seriesId", "carbonSeriesId">>, "one", TokenSeriesResult),
   getTokenNFTs |->
     Method(<<"tokenId", "carbonSeriesId", "pageSize", "cursor", "extended", "seriesId">>, "cursor", TokenDataResult)]

HoldingMethods ==
  [getAccountFungibleTokens |-> Method(PageOf \o Checked, "cursor", BalanceResult),
   getAccountNFTs |->
     Method(<<"account", "symbol", "tokenId", "carbonSeriesId", "pageSize", "cursor", "extended">> \o Checked,
            "cursor", TokenDataResult),
   getAccountOwnedTokens |-> Method(PageOf \o Checked, "cursor", TokenResult),
   getAccountOwnedTokenSeries |-> Method(PageOf \o Checked, "cursor", TokenSeriesResult)]

OtherMethods ==
  [getAuctionsCount |-> Method(<<"chain", "symbol">>, "count", Plain),
   getAuctions |-> Method(<<"chain", "symbol", "page", "pageSize">>, "pages", AuctionResult),
   getAuction |-> Method(<<"chain", "symbol", "id">>, "one", AuctionResult),
   getNFT |-> Method(<<"symbol", "id", "extended">>, "one", TokenDataResult),
   getNFTs |-> Method(<<"symbol", "ids", "extended">>, "list", TokenDataResult),
   getArchive |-> Method(<<"hash">>, "one", ArchiveResult),
   writeArchive |-> Method(<<"hash", "index", "content">>, "flag", Plain),
   readArchive |-> Method(<<"hash", "index">>, "text", Plain),
   invokeRawScript |-> Method(<<"chain", "script">>, "one", ScriptResult),
   sendRawTransaction |-> Method(<<"tx">>, "hash", Plain),
   sendCarbonTransaction |-> Method(<<"tx">>, "hash", Plain),
   getVersion |-> Method(<< >>, "one", BuildInfoResult),
   getPhantasmaVmConfig |-> Method(<<"chain">>, "one", PhantasmaVMConfigResult)]

Methods == AccountMethods @@ ChainMethods @@ TokenMethods @@ HoldingMethods @@ OtherMethods

-----------------------------------------------------------------------------
(* What the request carries: one value per parameter.  One the program     *)
(* leaves out has its default, None for some; Nones are trimmed from the   *)
(* end.  Lists of addresses or ids are given joined.                       *)

Defaults ==
  [chain |-> Text("main"), cursor |-> Text(""), extended |-> Bool(TRUE), pageSize |-> Num(100),
   tokenId |-> Num(0), carbonSeriesId |-> Num(0), seriesId |-> Text(""), symbol |-> Text(""),
   memberCount |-> Bool(FALSE), memberTime |-> Bool(TRUE), name |-> Text("main")]

DefaultOf(method, p) ==
  CASE p = "extended" /\ method \in {"getAccount", "getAccounts"} -> Bool(FALSE)
    [] p = "pageSize" /\ method \in {"getOrganizations", "getOrganizationMembers"} -> Num(10)
    [] p = "check" /\ method \in DOMAIN HoldingMethods -> Bool(FALSE)
    [] p = "check" /\ method = "getOrganizationMember" -> Bool(TRUE)
    [] p = "addressType" /\ method = "getOrganizationMember" -> Text("Phantasma")
    [] OTHER -> IF p \in DOMAIN Defaults THEN Defaults[p] ELSE Absent

ArgumentOf(method, arguments, p) ==
  IF p \in DOMAIN arguments THEN arguments[p] ELSE DefaultOf(method, p)

\* A slip of OptionalParams: every None is left out, not only the last ones.
OptionalParamsAll(values) == SelectSeq(values, LAMBDA v : v # Absent)

OptionalParams(values) ==
  LET given == {i \in DOMAIN values : values[i] # Absent}
  IN  SubSeq(values, 1, IF given = {} THEN 0 ELSE Max(given))

RequestOf(method, arguments) ==
  LET params == Methods[method].params
  IN  OptionalParams([i \in DOMAIN params |-> ArgumentOf(method, arguments, params[i])])

-----------------------------------------------------------------------------
(* How whole answers are read.                                             *)

\* _coerce_int: int(value), with TypeError and ValueError as RPCError.  No
\* counter or version here is a number with a fraction.
Countable(v) ==
  \/ KindOf(v) \in {"num", "bool"}
  \/ KindOf(v) = "text" /\ Body(v) \in DOMAIN Numeral
CoerceInt(v) ==
  CASE KindOf(v) = "num"  -> v
    [] KindOf(v) = "bool" -> Num(IF Body(v) THEN 1 ELSE 0)
    [] KindOf(v) = "text" -> Num(Numeral[Body(v)])

\* _coerce_bool; the texts are lowered first.
FlagTexts == [true |-> TRUE, false |-> FALSE] @@ ("1" :> TRUE) @@ ("0" :> FALSE)
Flaggable(v) == KindOf(v) \in {"bool", "num"} \/ (KindOf(v) = "text" /\ Body(v) \in DOMAIN FlagTexts)
CoerceBool(v) ==
  CASE KindOf(v) = "bool" -> v
    [] KindOf(v) = "num"  -> Bool(Body(v) # 0)
    [] KindOf(v) = "text" -> Bool(FlagTexts[Body(v)])

\* _decode_list: None is an empty list.
ListRaises(class, v) ==
  CASE KindOf(v) = "null" -> {}
    [] KindOf(v) = "list" -> UNION {Raises(class, Body(v)[i]) : i \in DOMAIN Body(v)}
    [] OTHER -> {"RPCError"}
DecodeList(class, v) ==
  IF v = Null THEN << >> ELSE [i \in DOMAIN Body(v) |-> Taken(class, Body(v)[i])]

\* _decode_paginated, _decode_paginated_list: a member that is missing has
\* a default; one that is there, null too, must count.
Counters == {"page", "pageSize", "total", "totalPages"}
Counter(v, f) == IF Given(Body(v), f) THEN Value(Body(v), f) ELSE Num(0)
MemberOr(v, f, default) == IF f \in DOMAIN Body(v) THEN Body(v)[f] ELSE default
Wrong(bad) == IF bad THEN {"RPCError"} ELSE {}
PageRaises(v) == Wrong(\E f \in Counters : ~Countable(Counter(v, f)))

\* str(); how a list or an object is worded is left out.
StrOf(v) ==
  CASE KindOf(v) = "num"  -> Text(ToString(Body(v)))
    [] KindOf(v) = "bool" -> Text(IF Body(v) THEN "True" ELSE "False")
    [] KindOf(v) = "null" -> Text("None")
    [] KindOf(v) \in {"text", "real"} -> Text(Body(v))
    [] OTHER -> Text("worded")

\* _extract_hash_result: a text, or an object with a hash and no error.
HashGiven(v) ==
  \/ KindOf(v) = "text"
  \/ KindOf(v) = "obj" /\ "hash" \in DOMAIN Body(v) /\ Falsy(MemberOr(v, "error", Null))
HashOf(v) == IF KindOf(v) = "text" THEN v ELSE StrOf(Body(v).hash)

AnswerRaises(method, v) ==
  LET how   == Methods[method].how
      class == Methods[method].class
  IN  CASE how = "one"    -> Raises(class, v)
        [] how = "list"   -> ListRaises(class, v)
        [] how = "count"  -> Wrong(~Countable(v))
        [] how = "flag"   -> Wrong(~Flaggable(v))
        [] how = "text"   -> {}
        [] how = "hash"   -> Wrong(~HashGiven(v))
        [] how \in {"page", "pages", "cursor"} /\ KindOf(v) # "obj" -> {"RPCError"}
        [] how = "page"   /\ KindOf(v) = "obj" ->
             PageRaises(v) \cup Raises(class, MemberOr(v, "result", Obj(<< >>)))
        [] how = "pages"  /\ KindOf(v) = "obj" ->
             PageRaises(v) \cup ListRaises(class, MemberOr(v, "result", List(<< >>)))
        [] how = "cursor" /\ KindOf(v) = "obj" ->
             ListRaises(class, MemberOr(v, "result", List(<< >>)))

\* A slip of CursorOf: str() of a cursor that is not there.
CursorOfAny(v) == StrOf(v)

\* A cursor that is there becomes its text.
CursorOf(v) == IF v = Null THEN Null ELSE StrOf(v)

Decode(method, v) ==
  LET how   == Methods[method].how
      class == Methods[method].class
      counters == [f \in Counters |-> CoerceInt(Counter(v, f))]
  IN  CASE how = "one"    -> Taken(class, v)
        [] how = "list"   -> List(DecodeList(class, v))
        [] how = "count"  -> CoerceInt(v)
        [] how = "flag"   -> CoerceBool(v)
        [] how = "text"   -> StrOf(v)
        [] how = "hash"   -> HashOf(v)
        [] how = "page"   -> <<"object", "PaginatedResult",
                               counters @@ [result |-> Taken(class, MemberOr(v, "result", Obj(<< >>)))]>>
        [] how = "pages"  -> <<"object", "PaginatedResult",
                               counters @@ [result |-> List(DecodeList(class, MemberOr(v, "result", Null)))]>>
        [] how = "cursor" -> <<"object", "CursorPaginatedResult",
                               [result |-> List(DecodeList(class, MemberOr(v, "result", Null))),
                                cursor |-> CursorOf(MemberOr(v, "cursor", Null))]>>

-----------------------------------------------------------------------------
(* GasConfigResult.to_gas_config and EstimateTransactionResult             *)
(* .to_fee_estimate.  A conversion is <<"ok", numbers>>, one per price, or *)
(* <<"raises", exception>>.  Fields that are JSON numbers are not parsed.  *)

ParseRaises(v) ==
  CASE KindOf(v) = "null" -> {"RPCError"}
    [] KindOf(v) # "text" /\ KindOf(v) # "null" -> {"AttributeError"}
    [] KindOf(v) = "text" -> IF Body(v) \notin DigitTexts THEN {"RPCError"}
                             ELSE IF Body(v) \notin DOMAIN Numeral THEN {"ValueError"} ELSE {}

PricesV1 ==
  {"feeMultiplier", "gasTokenId", "dataTokenId", "minimumGasOffer", "dataEscrowPerRow",
   "gasFeeTransfer", "gasFeeQuery", "gasFeeCreateTokenBase", "gasFeeCreateTokenSymbol",
   "gasFeeCreateTokenSeries", "gasFeePerByte", "gasFeeRegisterName", "gasBurnRatioMul"}
PricesV2 ==
  {"minimumGasBill", "gasProducerRatioMul", "gasDappRatioMul", "policyFeeCreateTokenBase",
   "policyFeeCreateTokenSymbol", "policyFeeCreateTokenSeries", "policyFeeRegisterName",
   "legacyDataEscrowPerRow"}
ShiftsV2 == {"gasProducerRatioShift", "gasDappRatioShift"}

\* version >= 1; True counts as 1.
Ordered(v) == KindOf(v) \in {"num", "bool"}
IsV2(config) ==
  IF KindOf(config.version) = "bool" THEN Body(config.version) ELSE Body(config.version) >= 1
\* A slip of PricesOf: the prices of the first version only.
PricesOfV1(config) == PricesV1

PricesOf(config) == PricesV1 \cup (IF IsV2(config) THEN PricesV2 ELSE {})

Parsed(members, names) ==
  LET failures == UNION {ParseRaises(members[f]) : f \in names}
  IN  IF failures = {} THEN <<"ok", [f \in names |-> Numeral[Body(members[f])]]>>
                       ELSE <<"raises", CHOOSE e \in failures : TRUE>>

to_gas_config(result) ==
  LET config == Decoded(Decoded(result).gasConfig)
  IN  IF Decoded(result).gasConfig = Null THEN <<"raises", "RPCError">>
      ELSE IF ~Ordered(config.version) THEN <<"raises", "TypeError">>
      ELSE IF IsV2(config) /\ \E f \in ShiftsV2 : config[f] = Null THEN <<"raises", "RPCError">>
      ELSE Parsed(config, PricesOf(config))

to_fee_estimate(result) ==
  LET estimate == Decoded(result)
  IN  IF ~Falsy(estimate.wouldAbort) THEN <<"raises", "RPCError">>
      ELSE Parsed(estimate, {"recommendedMaxGas", "recommendedMaxData", "gasBillKcalBase"})

=============================================================================
