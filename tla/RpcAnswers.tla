----------------------------- MODULE RpcAnswers -----------------------------
(***************************************************************************)
(* A program that calls one typed method of PhantasmaRPC and uses what it  *)
(* gets: the request is sent, the node answers, the answer is decoded, and *)
(* then the program                                                        *)
(*   - looks up balances in an account (getAccount),                       *)
(*   - reads the VM object a script returned and casts it (invokeRawScript)*)
(*   - takes the prices of a gas configuration or an estimate,             *)
(*   - asks for the next page of a listing until there is no cursor left.  *)
(* A call can fail on the way (JsonRpcClient) or in the decoding; the      *)
(* program then makes it again, MaxFailures times at most.                 *)
(***************************************************************************)
EXTENDS RpcMethods, Integers

CONSTANTS
  Requests,      \* the calls: records of a method and its arguments
  Answers(_),    \* the answers the node can give to a method
  Rows(_, _),    \* the rows of an account's listing, by address and its type
  BadPages,      \* answers to a page request that no node means
  Symbols, Decimals,
  Objects,       \* the VM objects scripts return
  Base, MaxArraySize, Characters,                           \* as in BinaryCodec
  AddressBytes, HashBytes, Utf8, Utf16, DigitValue, Minus,  \* as in VMObjects
  MaxLookups, MaxCasts, MaxFailures

ASSUME AnswersAssumption ==
  /\ Base \in Nat /\ Base > 11 /\ Base % 2 = 0
  /\ \A n \in {MaxArraySize, AddressBytes, HashBytes, MaxLookups, MaxCasts, MaxFailures} : n \in Nat

VM == INSTANCE VMObjects

VARIABLES
  phase,    \* ready, sent, answered, decoded, done or failed
  call,     \* the method and the arguments
  request,  \* the parameters on the wire
  answer,   \* the node's JSON
  result,   \* the decoded object; lookups change it
  found,    \* the row the last lookup gave, with its symbol; or what the prices
            \* converted to, an exception among them
  rows,     \* the rows of the pages so far
  stored,   \* the object the script left, and the bytes that arrived
  trail,    \* the object read, and the one after each cast
  failures, lookups

vars == <<phase, call, request, answer, result, found, rows, stored, trail, failures, lookups>>

Listing == "getAccountFungibleTokens"

Init ==
  /\ phase = "ready"
  /\ call \in Requests
  /\ request = << >> /\ answer = Null /\ result = Null /\ found = << >> /\ rows = << >>
  /\ stored = << >> /\ trail = << >> /\ failures = 0 /\ lookups = 0

-----------------------------------------------------------------------------
(* The request, and the node, which reads the parameters by their place.   *)

Send ==
  /\ phase = "ready"
  /\ phase' = "sent"
  /\ request' = RequestOf(call.method, call.arguments)
  /\ UNCHANGED <<call, answer, result, found, rows, stored, trail, failures, lookups>>

Place(method, p) == CHOOSE i \in DOMAIN Methods[method].params : Methods[method].params[i] = p
Heard(p) ==
  LET i == Place(call.method, p) IN IF i <= Len(request) THEN request[i] ELSE Absent

\* Where a cursor points in the listing; the empty one to its start.
Offsets == 0..10
Known(cursor) == cursor = Text("") \/ \E n \in Offsets : cursor = Text(ToString(n))
Offset(cursor) == IF cursor = Text("") THEN 0 ELSE CHOOSE n \in Offsets : cursor = Text(ToString(n))

\* The last page has an empty cursor, a null one, or none.
Pages ==
  LET all  == Rows(Heard("account"), Heard("addressType"))
      from == Offset(Heard("cursor"))
      next == from + Body(Heard("pageSize"))
  IN  IF next < Len(all)
        THEN {Obj([result |-> List(SubSeq(all, from + 1, next)), cursor |-> Text(ToString(next))])}
        ELSE {Obj([result |-> List(SubSeq(all, from + 1, Len(all)))] @@ end) :
                end \in {[cursor |-> Text("")], [cursor |-> Null], << >>}}

NodeAnswers ==
  IF call.method = Listing THEN Pages \cup (IF failures < MaxFailures THEN BadPages ELSE {})
                           ELSE Answers(call.method)

Answerable == call.method = Listing => Known(Heard("cursor"))

Answer ==
  /\ phase = "sent"
  /\ Answerable
  /\ answer' \in NodeAnswers
  /\ phase' = "answered"
  /\ UNCHANGED <<call, request, result, found, rows, stored, trail, failures, lookups>>

\* The call fails: an error from the node, or from the transport.  A cursor
\* that the node never gave out fails each time.
Counted == IF failures < MaxFailures THEN failures + 1 ELSE failures

Fail ==
  /\ phase = "sent"
  /\ Answerable => failures < MaxFailures
  /\ phase' = "ready"
  /\ failures' = Counted
  /\ UNCHANGED <<call, request, answer, result, found, rows, stored, trail, lookups>>

-----------------------------------------------------------------------------
(* Decoding.                                                               *)

Stops(method, v) == AnswerRaises(method, v) # {}

DecodingFails ==
  /\ phase = "answered"
  /\ Stops(call.method, answer)
  /\ phase' = IF failures < MaxFailures THEN "ready" ELSE "failed"
  /\ failures' = Counted
  /\ UNCHANGED <<call, request, answer, result, found, rows, stored, trail, lookups>>

DecodeAnswer ==
  /\ phase = "answered"
  /\ call.method # Listing
  /\ ~Stops(call.method, answer)
  /\ phase' = "decoded"
  /\ result' = Decode(call.method, answer)
  /\ UNCHANGED <<call, request, answer, found, rows, stored, trail, failures, lookups>>

\* A page: its rows are kept, and its cursor goes into the next request,
\* unless it is empty.
TakePage ==
  /\ phase = "answered"
  /\ call.method = Listing
  /\ ~Stops(call.method, answer)
  /\ LET page == Decoded(Decode(call.method, answer))
     IN  /\ rows' = rows \o Body(page.result)
         /\ IF Falsy(page.cursor)
              THEN phase' = "done" /\ UNCHANGED call
              ELSE phase' = "ready" /\ call' = [call EXCEPT !.arguments.cursor = page.cursor]
  /\ UNCHANGED <<request, answer, result, found, stored, trail, failures, lookups>>

-----------------------------------------------------------------------------
(* AccountResult.get_token_balance: the first row of the symbol, or a zero *)
(* row that is appended to the balances.                                   *)

SymbolOf(row) == Decoded(row).symbol
ZeroRow(symbol, decimals) ==
  Object("BalanceResult",
    [chain |-> Text("main"), amount |-> Text("0"), symbol |-> symbol, decimals |-> Num(decimals),
     ids |-> Null])
RowFor(balances, symbol, decimals) ==
  LET named == {i \in DOMAIN balances : SymbolOf(balances[i]) = symbol}
  IN  IF named = {} THEN ZeroRow(symbol, decimals)
      ELSE balances[CHOOSE i \in named : \A j \in named : i <= j]
\* A slip of BalancesAfter: the zero row goes in front, whether or not the symbol is there.
BalancesAfterFront(balances, symbol, decimals) == <<ZeroRow(symbol, decimals)>> \o balances

BalancesAfter(balances, symbol, decimals) ==
  IF \E i \in DOMAIN balances : SymbolOf(balances[i]) = symbol THEN balances
  ELSE Append(balances, ZeroRow(symbol, decimals))

LookUp ==
  /\ phase = "decoded" /\ call.method = "getAccount" /\ lookups < MaxLookups
  /\ \E symbol \in Symbols, decimals \in Decimals :
       LET balances == Body(Decoded(result).balances)
       IN  /\ found' = <<symbol, RowFor(balances, symbol, decimals)>>
           /\ result' = [result EXCEPT ![3].balances = List(BalancesAfter(balances, symbol, decimals))]
  /\ lookups' = lookups + 1
  /\ UNCHANGED <<phase, call, request, answer, rows, stored, trail, failures>>

-----------------------------------------------------------------------------
(* ScriptResult.decode_result, and VMObject.cast_to.  The bytes can arrive *)
(* whole, cut, or with one more.                                           *)

Arrivals(o) ==
  LET bytes == VM!WriteObject(o)
  IN  {bytes, Append(bytes, 0)} \cup {SubSeq(bytes, 1, n) : n \in 0..(Len(bytes) - 1)}

ReadResult ==
  /\ phase = "decoded" /\ call.method = "invokeRawScript" /\ trail = << >>
  /\ \E o \in Objects : \E bytes \in Arrivals(o) :
       LET r == VM!FromBytes(bytes)
       IN  /\ stored' = <<o, bytes>>
           /\ trail' = IF VM!Succeeds(r) THEN <<r[2]>> ELSE << >>
           /\ phase' = IF VM!Succeeds(r) THEN "decoded" ELSE "failed"
  /\ UNCHANGED <<call, request, answer, result, found, rows, failures, lookups>>

\* Not cast further: the base64 text of a struct, and to NUMBER what is longer
\* than NumberBytes.
NumberBytes == 4
Opaque(o) == VM!TypeOf(o) = "STRING" /\ VM!DataOf(o) # << >> /\ VM!DataOf(o)[1] = "base64"
Long(o) == VM!TypeOf(o) \in {"BYTES", "STRING"} /\ Len(VM!DataOf(o)) > NumberBytes

Cast ==
  /\ phase = "decoded" /\ trail # << >> /\ Len(trail) <= MaxCasts
  /\ ~Opaque(trail[Len(trail)])
  /\ \E i \in DOMAIN VM!Types :
       /\ VM!Types[i] = "NUMBER" => ~Long(trail[Len(trail)])
       /\ LET r == VM!CastTo(trail[Len(trail)], VM!Types[i])
          IN  IF VM!Succeeds(r) THEN trail' = Append(trail, r[2]) /\ UNCHANGED phase
                                ELSE phase' = "failed" /\ UNCHANGED trail
  /\ UNCHANGED <<call, request, answer, result, found, rows, stored, failures, lookups>>

-----------------------------------------------------------------------------
(* The prices of a gas configuration, or of an estimate.                   *)

Convert ==
  /\ phase = "decoded" /\ call.method \in {"getGasConfig", "estimateTransaction"}
  /\ found = << >>
  /\ LET prices == IF call.method = "getGasConfig" THEN to_gas_config(result) ELSE to_fee_estimate(result)
     IN  /\ found' = prices
         /\ phase' = IF prices[1] = "ok" THEN "done" ELSE "failed"
  /\ UNCHANGED <<call, request, answer, result, rows, stored, trail, failures, lookups>>

Next ==
  \/ Send \/ Answer \/ Fail \/ DecodingFails \/ DecodeAnswer \/ TakePage
  \/ LookUp \/ ReadResult \/ Cast \/ Convert

\* A walk through a listing: the program goes on with it, and every request is
\* answered or fails.
Walk ==
  /\ call.method = Listing
  /\ Send \/ Answer \/ Fail \/ DecodingFails \/ TakePage

Spec == Init /\ [][Next]_vars /\ WF_vars(Walk)

-----------------------------------------------------------------------------
(* What was answered and what is written back.                             *)

CONSTANT NewMembers   \* members that only a newer node writes

\* The JSON text of a scalar: VM values are written as texts whatever they were.
Shown(v) ==
  CASE KindOf(v) = "num"  -> ToString(Body(v))
    [] KindOf(v) = "bool" -> IF Body(v) THEN "true" ELSE "false"
    [] OTHER -> Body(v)
Scalar(v) == KindOf(v) \in {"text", "num", "real", "bool"}

SpelledIn(w, k) == {f \in DOMAIN Body(w) : f = k \/ PythonName(f) = k}

Part(v, k) == IF KindOf(v) = "obj" THEN Member(v, k) ELSE Null
Entries(v, k) == IF KindOf(Part(v, k)) = "list" THEN Body(Part(v, k)) ELSE << >>

\* An envelope is read leniently: a member that has the kind of value it reads
\* is kept, and each other is its default.
EnvelopeKept(defaults, v, w) ==
  \A k \in DOMAIN defaults :
    Part(w, k) = IF KindOf(Part(v, k)) = KindOf(defaults[k]) THEN Part(v, k) ELSE defaults[k]

EventEnvelope == [address |-> Text(""), contract |-> Text(""), kind |-> Text("")]
CallEnvelope == [moduleId |-> Num(0), module |-> Text(""), methodId |-> Num(0), method |-> Text("")]
\* A special resolution's, whose description may be absent.
ResolutionKept(v, w) ==
  /\ EnvelopeKept([resolutionId |-> Num(0)], v, w)
  /\ Part(w, "description") =
       IF KindOf(Part(v, "description")) = "text" THEN Part(v, "description") ELSE Null

RECURSIVE Agrees(_, _, _), CallsKept(_, _, _)

\* The calls of a special resolution, and those of a resolution inside it.
CallsKept(v, w, left) ==
  /\ Len(w) = Len(v)
  /\ \A i \in DOMAIN v :
       /\ EnvelopeKept(CallEnvelope, v[i], w[i])
       /\ Agrees(Part(v[i], "arguments"), Part(w[i], "arguments"), left)
       /\ CallsKept(Entries(v[i], "calls"), Entries(w[i], "calls"), left)

DataKept(v, w, left) ==
  IF Part(v, "kind") = Text("SpecialResolution") /\ Part(v, "data") # Null
    THEN /\ ResolutionKept(Part(v, "data"), Part(w, "data"))
         /\ CallsKept(Entries(Part(v, "data"), "calls"), Entries(Part(w, "data"), "calls"), left)
    ELSE Agrees(Part(v, "data"), Part(w, "data"), left)

EventKept(v, w, left) == EnvelopeKept(EventEnvelope, v, w) /\ DataKept(v, w, left)

\* Every member answered, but those in left, is written back with the value it
\* had.  A null is left out, or is the empty text or list that stands for it.
Agrees(v, w, left) ==
  CASE v = Null -> w \in {Null, Text(""), List(<< >>)}
    [] KindOf(v) = "obj" ->
         /\ KindOf(w) = "obj"
         /\ \A k \in (DOMAIN Body(v)) \ left :
              \/ SpelledIn(w, k) = {} /\ Body(v)[k] = Null
              \/ \E f \in SpelledIn(w, k) :
                   IF f = "extendedEvents" /\ KindOf(Body(v)[k]) = "list"
                     THEN /\ Len(Body(Body(w)[f])) = Len(Body(Body(v)[k]))
                          /\ \A i \in DOMAIN Body(Body(v)[k]) :
                               EventKept(Body(Body(v)[k])[i], Body(Body(w)[f])[i], left)
                     ELSE Agrees(Body(v)[k], Body(w)[f], left)
    [] KindOf(v) = "list" ->
         /\ KindOf(w) = "list" /\ Len(Body(w)) = Len(Body(v))
         /\ \A i \in DOMAIN Body(v) : Agrees(Body(v)[i], Body(w)[i], left)
    [] OTHER -> Scalar(v) /\ Scalar(w) /\ Shown(w) = Shown(v)

Fresh == phase = "decoded" /\ lookups = 0 /\ trail = << >>

EventsAnswered == Entries(answer, "extendedEvents")
EventsRead == Body(Decoded(result).extendedEvents)

\* What is carried raw is the JSON answered, members of a newer node included.
RawIsWhole(object, member, v) ==
  KindOf(Decoded(object)[member]) = "raw" => Part(Written(object), member) = Part(v, member)
ResolutionsRead == {i \in DOMAIN EventsRead : Decoded(EventsRead[i]).kind = Text("SpecialResolution")
                                              /\ Decoded(EventsRead[i]).data # Null}
CallsRead(i) == Body(Decoded(Decoded(EventsRead[i]).data).calls)
CallsAnswered(i) == Entries(Part(EventsAnswered[i], "data"), "calls")

\* The members that this SDK has a field for are decoded with the value they
\* were answered with; the data of an event and the arguments of a call are
\* typed with every field they came with, or kept raw, as the JSON answered, and
\* a raw dump never becomes a shape with empty fields.  In the envelope of an
\* event, a special resolution or a call, a member with another kind of value
\* than it reads is the default and no other is disturbed.  What is typed may
\* lack the NewMembers, which no field stands for (AddedDataKept).  An event that
\* is written back is decoded to the same object again.  The hash of a
\* submission is the one the node wrote, "None" for a null one, and there is
\* none with an error.  (_decode_dataclass, decode_shape, decode_event_data,
\* decode_special_resolution_arguments, _extract_hash_result.)
AnswerKept ==
  Fresh =>
    /\ Methods[call.method].how \in {"one", "list", "page", "pages", "cursor"} =>
         Agrees(answer, Written(result), NewMembers)
    /\ (Methods[call.method].how = "hash" /\ KindOf(answer) = "text") => result = answer
    /\ (Methods[call.method].how = "hash" /\ KindOf(answer) = "obj") =>
         /\ Falsy(Member(answer, "error"))
         /\ IF Member(answer, "hash") = Null THEN result = Text("None")
            ELSE Agrees(Member(answer, "hash"), result, {})
    /\ call.method = "getTransaction" =>
         /\ \A i \in DOMAIN EventsRead :
              /\ EventFromWire(Written(EventsRead[i])) = EventsRead[i]
              /\ RawIsWhole(EventsRead[i], "data", EventsAnswered[i])
         /\ \A i \in ResolutionsRead : \A j \in DOMAIN CallsRead(i) :
              RawIsWhole(CallsRead(i)[j], "arguments", CallsAnswered(i)[j])

\* What special_resolution_arguments.py:16 says: "data answered by a node newer
\* than the SDK is never silently lost".  A member that a newer node adds to a
\* modelled shape is.
AddedDataKept ==
  (Fresh /\ call.method = "getTransaction") =>
    \A i \in DOMAIN EventsRead : DataKept(EventsAnswered[i], Written(EventsRead[i]), {})

\* However often balances were looked up before, every symbol has the amount
\* the node answered for it, and none that it did not mention has any: the zero
\* rows get_token_balance appends (rpc.py:168) hide no row.
AmountAnswered(symbol) ==
  LET all   == Items(Member(answer, "balances"))
      named == {i \in DOMAIN all : Member(all[i], "symbol") = symbol}
      first == all[CHOOSE i \in named : \A j \in named : i <= j]
  IN  IF named = {} THEN Text("0") ELSE MemberOr(first, "amount", Text("0"))

LookupsKeepAmounts ==
  lookups > 0 =>
    /\ Decoded(found[2]).symbol = found[1]
    /\ Decoded(found[2]).amount = AmountAnswered(found[1])
    /\ \A symbol \in Symbols :
         Decoded(RowFor(Body(Decoded(result).balances), symbol, 0)).amount = AmountAnswered(symbol)

\* A configuration or an estimate that is taken has every price the version
\* the node states calls for, each the number the node wrote: none is zeroed
\* because it was missing or unreadable.  What is not taken raises RPCError, as
\* the docstrings say, but for a price or a version that is no text or number,
\* and for a text that isdigit() accepts and int() does not read.
\* (to_gas_config, to_fee_estimate, _parse_u64.)
Section == IF call.method = "getGasConfig" THEN Value(Body(answer), "gasConfig") ELSE answer
PricesDue ==
  IF call.method # "getGasConfig" THEN {"recommendedMaxGas", "recommendedMaxData", "gasBillKcalBase"}
  ELSE IF Given(Body(Section), "version") /\ Value(Body(Section), "version") # Num(0)
         THEN PricesV1 \cup PricesV2 ELSE PricesV1

Unreadable(v) ==
  \/ KindOf(v) \notin {"text", "null"}
  \/ KindOf(v) = "text" /\ Body(v) \in DigitTexts \ DOMAIN Numeral
Unforeseen ==
  IF call.method # "getGasConfig" THEN \E f \in PricesDue : Unreadable(Decoded(result)[f])
  ELSE LET config == Decoded(result).gasConfig
       IN  /\ config # Null
           /\ \/ KindOf(Decoded(config).version) \notin {"num", "bool"}
              \/ \E f \in PricesDue : Unreadable(Decoded(config)[f])

PricesKept ==
  /\ (phase = "done" /\ call.method # Listing) =>
       \A f \in PricesDue :
         /\ f \in DOMAIN found[2]
         /\ Given(Body(Section), f)
         /\ Numeral[Body(Value(Body(Section), f))] = found[2][f]
  /\ (phase = "failed" /\ found # << >> /\ ~Unforeseen) => found[2] = "RPCError"

\* What becomes of an object that is written and read: an OBJECT that is no
\* address comes back as the BYTES of its payload (vm.py:120).
RECURSIVE Restored(_)
Restored(o) ==
  LET data == VM!DataOf(o)
  IN  CASE VM!TypeOf(o) = "OBJECT" /\ Len(data) # AddressBytes -> <<"BYTES", VM!VarBytes(data)>>
        [] VM!TypeOf(o) = "STRUCT" ->
             <<"STRUCT", [i \in DOMAIN data |-> <<Restored(data[i][1]), Restored(data[i][2])>>]>>
        [] OTHER -> o

\* The object a script left is read as it was; bytes that were cut or have
\* something after their end are refused, wherever the cut is.
ObjectsKept ==
  stored # << >> =>
    IF stored[2] = VM!WriteObject(stored[1])
      THEN trail # << >> /\ VM!Same(trail[1], Restored(stored[1]))
      ELSE trail = << >>

\* A cast to another type and back gives the object again, where the other
\* type can hold it; and the number of an object is the same through its bytes.
\* Two casts lose more: an empty text has no units, and a time from 2038 on
\* has the sign bit of its four bytes set.
Invertible(o, type) ==
  \/ VM!TypeOf(o) = "NUMBER" /\ type \in {"BYTES", "STRING"}
  \/ VM!TypeOf(o) = "STRING" /\ type = "BYTES"
  \/ VM!TypeOf(o) = "STRING" /\ type = "STRUCT" /\ VM!DataOf(o) # << >>
  \/ VM!TypeOf(o) = "BOOL" /\ type \in {"BYTES", "NUMBER"}
SameNumber(o) ==
  \/ VM!TypeOf(o) \in {"ENUM", "BOOL", "NUMBER"}
  \/ VM!TypeOf(o) = "TIMESTAMP" /\ 2 * VM!DataOf(o) < VM!Power(4)

CastsAgree ==
  \A i \in 1..(Len(trail) - 2) :
    LET before == trail[i]  between == trail[i + 1]  after == trail[i + 2]
    IN  /\ (VM!TypeOf(after) = VM!TypeOf(before) /\ Invertible(before, VM!TypeOf(between)))
             => VM!Same(before, after)
        /\ (SameNumber(before) /\ VM!TypeOf(between) = "BYTES" /\ VM!TypeOf(after) = "NUMBER")
             => VM!Ok(VM!DataOf(after)) = VM!AsNumber(before)

\* The node reads every parameter, in its place, as the program gave it or left
\* it to its default (_optional_params); and the rows taken from a listing are
\* those of the account and the kind of address asked for, in the node's order,
\* each once whatever page was asked for again, and all when the walk ends.
Asked(p) == ArgumentOf(call.method, call.arguments, p)
AskedRows == Rows(Asked("account"), Asked("addressType"))

AnsweredAsAsked ==
  /\ phase \in {"sent", "answered"} =>
       \A i \in DOMAIN Methods[call.method].params :
         LET p == Methods[call.method].params[i] IN Heard(p) = Asked(p)
  /\ call.method = Listing =>
       /\ Len(rows) <= Len(AskedRows)
       /\ \A i \in DOMAIN rows : rows[i] = Taken(BalanceResult, AskedRows[i])
       /\ phase = "done" => Len(rows) = Len(AskedRows)

\* A walk ends, with all rows, however the last page says that it is the last.
WalkEnds == (call.method = Listing) ~> (phase = "done")

=============================================================================
