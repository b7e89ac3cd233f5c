---------------------------- MODULE MCRpcAnswers ----------------------------
(***************************************************************************)
(* RpcAnswers on small answers.  Every method is answered with a full      *)
(* object of its class, and with one member left out, null, or of another  *)
(* type; extended events, calls and VM values are given one by one.        *)
(***************************************************************************)
EXTENDS RpcAnswers

\* The wire names of one word, with which Python spells the field too.
MCOneWord ==
  {"id", "ids", "key", "name", "type", "to", "abi", "rom", "ram", "roms", "rams", "mode", "rows",
   "data", "kind", "hash", "fee", "flags", "nodes", "token", "owner", "price", "value", "state",
   "stake", "calls", "symbol", "amount", "script", "tables", "tokens", "method", "module",
   "result", "address", "seller", "buyer", "version", "balances", "contract", "contracts",
   "repairs", "metadata", "decimals", "recipient", "supplements", "description", "arguments",
   "chain", "page", "total", "cursor", "events", "stakes", "storage", "txs", "series", "time",
   "used", "height", "archives", "available", "avatar", "chains", "close", "commit", "content",
   "dapps", "encryption", "error", "expiration", "external", "fields", "fuel", "gas",
   "governance", "high", "infusion", "inner", "interop", "local", "low", "methods", "mint",
   "open", "oracles", "organization", "organizations", "owners", "parameters", "parent",
   "payload", "platform", "platforms", "properties", "protocol", "relay", "results", "reward",
   "schema", "sender", "signatures", "size", "some", "status", "timestamp", "unclaimed", "url",
   "validator"}

MCNumeral == ("0" :> 0) @@ ("1" :> 1) @@ ("5" :> 5) @@ ("eastern 3" :> 3)
MCDigitTexts == DOMAIN MCNumeral \cup {"superscript 2"}
MCNewMembers == {"addedLater"}

-----------------------------------------------------------------------------
(* Characters: digits and a minus of one byte, a letter, one of two bytes  *)
(* and one of four that takes a pair of UTF-16 units; and the words the    *)
(* code writes whole.  Base is 16.                                         *)

MCDigitValue ==
  ("0" :> 0) @@ ("1" :> 1) @@ ("2" :> 2) @@ ("3" :> 3) @@ ("4" :> 4) @@ ("5" :> 5) @@ ("6" :> 6)
  @@ ("7" :> 7) @@ ("8" :> 8) @@ ("9" :> 9)
MCUtf8 ==
  [c \in DOMAIN MCDigitValue |-> <<MCDigitValue[c]>>]
  @@ ("-" :> <<10>>) @@ ("x" :> <<11>>) @@ ("accented" :> <<12, 8>>) @@ ("emoji" :> <<14, 8, 9, 8>>)
  @@ ("true" :> <<12, 1>>) @@ ("false" :> <<12, 2>>) @@ ("Null" :> <<12, 3>>)
MCUtf16 ==
  [c \in DOMAIN MCDigitValue |-> <<MCDigitValue[c]>>]
  @@ ("-" :> <<10>>) @@ ("x" :> <<11>>) @@ ("accented" :> <<200>>) @@ ("emoji" :> <<216, 220>>)
  @@ ("true" :> <<21>>) @@ ("false" :> <<22>>) @@ ("Null" :> <<23>>)
MCCharacters == DOMAIN MCUtf8

N(n) == <<"NUMBER", n>>
MCObjects ==
  {VM!NoneObject} \cup {N(n) : n \in {-129, -128, -8, -1, 0, 7, 8, 127, 128, 255, 256}}
  \cup {<<"STRING", t>> : t \in {<< >>, <<"5">>, <<"-", "1", "0">>, <<"x", "accented">>, <<"emoji", "7">>}}
  \cup {<<"BOOL", b>> : b \in BOOLEAN} \cup {<<"ENUM", 0>>, <<"ENUM", 15>>}
  \cup {<<"TIMESTAMP", t>> : t \in {0, 32767, 32768, 65535}}
  \cup {<<"BYTES", b>> : b \in {<< >>, <<0>>, <<8>>, <<13, 15>>, [i \in 1..14 |-> i % 3]}}
  \cup {<<"OBJECT", b>> : b \in {<<1, 2, 3, 4>>, <<9, 9, 9>>, <<1, 2, 3, 4, 5>>, << >>}}
  \cup {<<"STRUCT", p>> :
          p \in {<< >>, <<<<N(0), N(216)>>, <<N(1), N(220)>>>>, <<<<N(1), N(11)>>, <<N(0), N(5)>>>>,
                 <<<<N(0), N(-1)>>>>, <<<<N(0), N(256)>>>>,
                 <<<<<<"STRING", <<"x">>>>, <<"OBJECT", <<9, 9, 9>>>>>>,
                   <<<<"STRING", <<"5">>>>, <<"STRUCT", <<<<N(0), <<"BOOL", TRUE>>>>>>>>>>>>}}

-----------------------------------------------------------------------------
(* Answers.                                                                *)

RECURSIVE Sample(_)

\* A value of a type, every field of a shape given.
Sample(type) ==
  CASE type[1] = "str"   -> Text("5")
    [] type[1] = "int"   -> Num(5)
    [] type[1] = "bool"  -> Bool(TRUE)
    [] type[1] = "vm"    -> Obj([inner |-> List(<<Text("a"), Num(1), Bool(TRUE), Null>>)])
    [] type[1] = "opt"   -> Sample(type[2])
    [] type[1] = "list"  -> List(<<Sample(type[2]), Sample(type[2])>>)
    [] type[1] = "dict"  -> Obj([some |-> Sample(type[2])])
    [] type[1] = "event" -> Obj([kind |-> Text("TokenCreate"), data |-> Sample(TokenCreateData)])
    [] type[1] = "again" -> Obj([flags |-> Num(1), fields |-> List(<< >>)])
    [] type[1] = "shape" -> Obj(Each(Sample, FieldsOf(type)))

With(members, f, v) == [g \in DOMAIN members |-> IF g = f THEN v ELSE members[g]]

\* One field left out, null, of another type, or under its Python name; a
\* member more; or something else altogether.
OddFor(type) == IF type[1] \in {"int", "str"} THEN Bool(FALSE) ELSE Num(5)
Renamed(members, f) ==
  [k \in ((DOMAIN members) \ {f}) \cup {PythonName(f)} |-> IF k \in DOMAIN members THEN members[k] ELSE members[f]]
Variations(shape) ==
  LET full == Body(Sample(shape))
  IN  {Obj(full), Obj(full @@ [addedLater |-> Text("a")]), Obj(<< >>), Num(5), Null}
      \cup UNION {{Obj([g \in (DOMAIN full) \ {f} |-> full[g]]),
                   Obj(With(full, f, Null)),
                   Obj(With(full, f, OddFor(FieldsOf(shape)[f]))),
                   Obj(Renamed(full, f))} : f \in DOMAIN full}

TheCall(module, method, arguments) ==
  Obj([moduleId |-> Num(1), module |-> Text(module), methodId |-> Num(0), method |-> Text(method),
       arguments |-> arguments])
Resolution(calls) == Obj([resolutionId |-> Num(4), calls |-> List(calls)])
EventOf(kind, data) == Obj([address |-> Text("a"), contract |-> Text("a"), kind |-> kind, data |-> data])
ResolutionEvent(call1) == EventOf(Text("SpecialResolution"), Resolution(<<call1>>))

RawDump == Obj([rawArgs |-> Text("ff")])

AllCalls ==
  UNION {{TheCall(module, method, v) :
            v \in Variations(ARGUMENT_SHAPES[module][method]) \cup {RawDump, Obj([rawArgs |-> Num(5)]), Text("a")}} :
         <<module, method>> \in
           UNION {{m} \X (DOMAIN ARGUMENT_SHAPES[m]) : m \in DOMAIN ARGUMENT_SHAPES}}
OtherCalls ==
  {TheCall("market", "SellToken", Obj([price |-> Num(5)])), TheCall("token", "MintLater", RawDump),
   Obj([module |-> Text("token"), method |-> Text("GetBalances"), moduleId |-> Text("a")]),
   Obj([module |-> Text("governance"), method |-> Text("SpecialResolution"),
        arguments |-> Obj([resolutionId |-> Text("5")]),
        calls |-> List(<<TheCall("token", "MintFungible", Obj([to |-> Text("a")])),
                         TheCall("token", "MintFungible", RawDump)>>)])}
Events ==
  {ResolutionEvent(c) : c \in AllCalls \cup OtherCalls}
  \cup {EventOf(Text("SpecialResolution"), d) :
          d \in {Obj([resolutionId |-> Num(4), calls |-> Num(5), description |-> Num(5)]),
                 Obj([resolutionId |-> Num(4), description |-> Text("a"), calls |-> List(<< >>)]),
                 Obj([resolutionId |-> Text("5"), calls |-> List(<<Num(5)>>)]), Num(5)}}
  \cup UNION {{EventOf(Text(kind), v) : v \in Variations(EVENT_SHAPES[kind])} : kind \in DOMAIN EVENT_SHAPES}
  \cup {EventOf(Text("Later"), Obj([some |-> Num(5)])), EventOf(Num(5), Obj([symbol |-> Text("a")]))}

TransactionWith(event) == Obj([hash |-> Text("a"), extendedEvents |-> List(<<event>>)])

Row(symbol, amount) == Obj([symbol |-> Text(symbol), amount |-> Text(amount), chain |-> Text("main")])
AccountWith(all) == Obj([address |-> Text("a"), balances |-> all])
Accounts ==
  {AccountWith(List(all)) :
     all \in {<< >>, <<Row("SOUL", "5")>>, <<Row("KCAL", "1"), Row("SOUL", "5")>>,
              <<Row("SOUL", "1"), Row("SOUL", "5")>>, <<Obj([symbol |-> Text("KCAL")])>>}}
  \cup {AccountWith(Null), Obj([address |-> Text("a")])}

Price(text) == Text(text)
GasConfigs ==
  LET full   == With(Body(Sample(GasConfigDataResult)), "version", Num(1))
      config(members) == Obj([gasModelVersion |-> Num(2), gasConfig |-> Obj(members)])
  IN  {config(With(full, f, v)) :
         f \in PricesV1 \cup PricesV2,
         v \in {Null, Text(""), Text("x"), Num(5), Text("1"), Text("eastern 3"), Text("superscript 2")}}
      \cup {config([g \in (DOMAIN full) \ {f} |-> full[g]]) :
              f \in PricesV1 \cup PricesV2 \cup ShiftsV2}
      \cup {config([g \in (DOMAIN full) \ (PricesV2 \cup ShiftsV2) |->
                      IF g = "version" THEN Num(0) ELSE full[g]]),
            config(With(full, "version", Text("1"))), Obj([gasModelVersion |-> Num(2)])}
Estimates ==
  LET full == With(Body(Sample(EstimateTransactionResult)), "wouldAbort", Bool(FALSE))
  IN  {Obj(full), Obj(With(full, "wouldAbort", Bool(TRUE)))}
      \cup {Obj(With(full, f, v)) :
              f \in {"recommendedMaxGas", "recommendedMaxData", "gasBillKcalBase"},
              v \in {Null, Text(""), Text("x"), Text("1"), Text("superscript 2")}}

Page(members) == Obj(members @@ [page |-> Num(1), pageSize |-> Text("5"), total |-> Num(1), totalPages |-> Num(1)])

MCAnswers(method) ==
  LET how   == Methods[method].how
      class == Methods[method].class
  IN  CASE method = "getTransaction" -> {TransactionWith(e) : e \in Events} \cup Variations(class)
        [] method = "getAccount" -> Accounts
        [] method = "getGasConfig" -> GasConfigs
        [] method = "estimateTransaction" -> Estimates
        [] method = "invokeRawScript" -> {Obj([result |-> Text("hex")])}
        [] how \in {"count", "flag", "text"} ->
             {Num(5), Text("1"), Text("x"), Bool(TRUE), Null, Obj(<< >>)}
        [] how = "hash" ->
             {Text("5"), Text(""), Num(5), Null, Obj(<< >>)}
             \cup {Obj([hash |-> h, error |-> e]) : h \in {Text("5"), Num(5), Null}, e \in {Null, Text(""), Text("x")}}
             \cup {Obj([hash |-> Text("5")]), Obj([error |-> Text("x")]), Obj([later |-> Num(1)])}
        [] how = "list" -> {List(<<v>>) : v \in Variations(class)} \cup {Null, Num(5)}
        [] how = "page" ->
             {Page([result |-> v]) : v \in Variations(class)} \cup {Page(<< >>), Num(5), Obj([total |-> Null])}
        [] how = "pages" ->
             {Page([result |-> List(<<v>>)]) : v \in Variations(class)}
             \cup {Page(<< >>), Num(5), Obj([total |-> Text("x")])}
        [] how = "cursor" ->
             {Obj([result |-> List(<<v>>), cursor |-> Text("a")]) : v \in Variations(class)}
             \cup {Obj(<< >>), Num(5), Obj([cursor |-> Num(5)])}
        [] OTHER -> Variations(class)

MCRows(account, type) ==
  IF account # Text("a") THEN << >>
  ELSE IF type = Text("Ethereum") THEN <<Row("SOUL", "1"), Row("KCAL", "5"), Row("X", "1")>>
  ELSE <<Row("SOUL", "5"), Row("KCAL", "1"), Row("X", "5"), Row("Y", "1")>>
MCBadPages == {Num(5), Obj([result |-> Text("x"), cursor |-> Text("2")]), Obj([result |-> List(<<Num(5)>>)])}

-----------------------------------------------------------------------------
(* The calls: a listing of either kind of address, with and without the    *)
(* argument in front of the address type; every other method with all the  *)
(* arguments, without the last two, and with the last one alone of them.   *)

Walks ==
  {[method |-> Listing,
    arguments |-> [account |-> Text("a"), pageSize |-> Num(2), cursor |-> Text("")] @@ more] :
     more \in {<< >>, [check |-> Bool(TRUE)], [addressType |-> Text("Ethereum")],
               [check |-> Bool(TRUE), addressType |-> Text("Ethereum")]}}
MCRequests ==
  Walks \cup UNION {{[method |-> m, arguments |-> [p \in {Methods[m].params[i] : i \in DOMAIN Methods[m].params} \ left |-> Text("a")]] :
                       left \in {{}, {"check", "owner"}, {"check", "addressType"}, {"check", "owner", "addressType"}}} :
                     m \in (DOMAIN Methods) \ {Listing}}

\* One method alone, for what the repository says of it.
MCTransactions == {[method |-> "getTransaction", arguments |-> << >>]}

MCSymbols == {Text("SOUL"), Text("KCAL")}

=============================================================================
