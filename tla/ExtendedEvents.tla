--------------------------- MODULE ExtendedEvents ---------------------------
(***************************************************************************)
(* extended_events.py: the typed payload of an extended transaction event. *)
(* The kind of the event decides the shape of its data, and inside a       *)
(* special resolution the module and method of each call that of its       *)
(* arguments; whatever is not modelled, or does not match, is kept as JSON.*)
(***************************************************************************)
EXTENDS ResolutionArguments

TokenCreateData == Shape("TokenCreateData",
  Texts({"symbol", "maxSupply"}) @@ Ints({"decimals", "carbonTokenId"})
  @@ [isNonFungible |-> Flag, metadata |-> DictOf(Str)])

TokenSeriesCreateData == Shape("TokenSeriesCreateData",
  Texts({"symbol", "seriesId", "owner"})
  @@ Ints({"maxMint", "maxSupply", "carbonTokenId", "carbonSeriesId"})
  @@ [metadata |-> DictOf(Str)])

MarketOrderData == Shape("MarketOrderData",
  Texts({"baseSymbol", "quoteSymbol", "tokenId", "seller", "buyer", "price", "endPrice", "type"})
  @@ Ints({"carbonBaseTokenId", "carbonQuoteTokenId", "carbonInstanceId", "startDate", "endDate"}))

EVENT_SHAPES ==
  [TokenCreate |-> TokenCreateData, TokenSeriesCreate |-> TokenSeriesCreateData,
   OrderCreated |-> MarketOrderData, OrderCancelled |-> MarketOrderData,
   OrderFilled |-> MarketOrderData]

UnknownEventData(v) == Raw("UnknownEventData", v)

-----------------------------------------------------------------------------
(* The lenient readers of an envelope: a member of another type, like an   *)
(* absent one (.get gives None), falls back to the default.                *)

Member(v, f) == IF f \in DOMAIN Body(v) THEN Body(v)[f] ELSE Null

WireStr(v) == IF KindOf(v) = "text" THEN v ELSE Text("")
WireInt(v) == IF KindOf(v) = "num" THEN v ELSE Num(0)

RECURSIVE CallFromWire(_)

WireCalls(v) == IF KindOf(v) = "list" THEN List(Each(CallFromWire, Body(v))) ELSE List(<< >>)

MakeCall(moduleId, module, methodId, method, arguments, calls) ==
  Object("SpecialResolutionCall",
    [moduleId |-> moduleId, module |-> module, methodId |-> methodId, method |-> method,
     arguments |-> arguments, calls |-> calls])

\* SpecialResolutionCall.from_wire
CallFromWire(v) ==
  IF KindOf(v) # "obj"
    THEN MakeCall(Num(0), Text(""), Num(0), Text(""), Null, List(<< >>))
    ELSE LET module == WireStr(Member(v, "module"))
             method == WireStr(Member(v, "method"))
         IN  MakeCall(WireInt(Member(v, "moduleId")), module, WireInt(Member(v, "methodId")), method,
                  decode_special_resolution_arguments(Body(module), Body(method),
                                                      Member(v, "arguments")),
                  WireCalls(Member(v, "calls")))

\* SpecialResolutionData.from_wire
ResolutionFromWire(v) ==
  LET envelope == IF KindOf(v) = "obj" THEN v ELSE Obj(<< >>)
      description == Member(envelope, "description")
  IN  Object("SpecialResolutionData",
        [resolutionId |-> WireInt(Member(envelope, "resolutionId")),
         description  |-> IF KindOf(description) = "text" THEN description ELSE Null,
         calls        |-> WireCalls(Member(envelope, "calls"))])

decode_event_data(kind, v) ==
  IF v = Null THEN Null
  ELSE IF kind = "SpecialResolution" THEN ResolutionFromWire(v)
  ELSE IF kind \in DOMAIN EVENT_SHAPES /\ Fits(EVENT_SHAPES[kind], v)
         THEN Read(EVENT_SHAPES[kind], v)
         ELSE UnknownEventData(v)

\* EventExResult.from_wire: the kind is read before the data.
EventFromWire(v) ==
  LET envelope == IF KindOf(v) = "obj" THEN v ELSE Obj(<< >>)
      kind == WireStr(Member(envelope, "kind"))
  IN  Object("EventExResult",
        [address |-> WireStr(Member(envelope, "address")),
         contract |-> WireStr(Member(envelope, "contract")),
         kind |-> kind,
         data |-> decode_event_data(Body(kind), Member(envelope, "data"))])

=============================================================================
