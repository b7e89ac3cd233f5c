------------------------------ MODULE NativeFee ------------------------------
(***************************************************************************)
(* The Tier-1 fee estimator of carbon.py.  A wallet asks estimate_native_  *)
(* fee for an offer under a gas configuration, then sends a transaction    *)
(* that uses no more than it quoted for; the chain bills what was really   *)
(* used with the billing formula the estimator mirrors, and rejects the    *)
(* transaction if the offer does not cover the bill.                       *)
(*                                                                         *)
(* Every amount is an integer of Bits bits that saturates (64 in the code).*)
(***************************************************************************)
EXTENDS Integers

CONSTANTS
    Bits,       \* width of the chain's integers
    MaxShift,   \* bound: the largest shift that is ever computed
    Configs,    \* gas configurations of the chain
    Requests,   \* calls of estimate_native_fee
    Usages      \* what a transaction turns out to use

VARIABLES
    quote,      \* the estimator's answer, with the terms it was made of
    settled     \* what the chain billed

vars == <<quote, settled>>

FungibleKinds == {"transfer_fungible", "mint_fungible", "burn_fungible"}
InstanceKinds == {"transfer_non_fungible", "mint_non_fungible", "burn_non_fungible"}
ProductKinds == {"create_token", "create_token_series", "register_name"}
Kinds == FungibleKinds \cup InstanceKinds \cup ProductKinds \cup {"script"}

Prices == {"fee_multiplier", "minimum_gas_offer", "minimum_gas_bill",
           "data_escrow_per_row", "gas_fee_transfer", "gas_fee_per_byte",
           "gas_fee_create_token_base", "gas_fee_create_token_symbol",
           "gas_fee_create_token_series", "gas_fee_register_name",
           "policy_fee_create_token_base", "policy_fee_create_token_symbol",
           "policy_fee_create_token_series", "policy_fee_register_name"}

U64Max == 2^Bits - 1

ASSUME FeeAssumption ==
    /\ Bits \in Nat \ {0}
    /\ MaxShift \in Nat /\ Bits <= MaxShift
    /\ \A s \in 0..MaxShift : 2^s \in Nat \ {0}
    /\ \A c \in Configs :
         /\ {"version", "fee_shift", "max_token_symbol_length", "max_name_length"}
              \cup Prices \subseteq DOMAIN c
         /\ c.version \in Nat /\ c.fee_shift \in Nat
         /\ c.max_token_symbol_length \in Nat /\ c.max_name_length \in Nat
         /\ \A p \in Prices : c[p] \in 0..U64Max
    /\ \A q \in Requests :
         /\ q \in [kind : Kinds, count : Int, symbol_length : Int, name_length : Int,
                   envelope_bytes : Int, payload_bytes : Nat, fresh_rows : Int,
                   rom_ram_bytes : Nat, script_units_allowance : Nat]
         /\ q.symbol_length <= MaxShift /\ q.name_length <= MaxShift
    /\ Usages \subseteq [envelope : Nat, payload : Nat, events : Nat, rows : Nat,
                         units : Nat, symbol_length : 1..MaxShift]

Lesser(a, b) == IF a <= b THEN a ELSE b
Greater(a, b) == IF a >= b THEN a ELSE b

ShiftRight(n, s) == n \div 2^s

\* _mul_shift: an oversized shift gives 0, an oversized product saturates.
MulShift(n, c) ==
    IF c.fee_shift >= Bits THEN 0
    ELSE Lesser(ShiftRight(n * c.fee_multiplier, c.fee_shift), U64Max)

V2(c) == c.version >= 1

-----------------------------------------------------------------------------
(* The terms of an estimate.                                               *)

\* _symbol_shift on a length over the chain's maximum, or below zero.
BadLength(length, max) == length < 0 \/ (max > 0 /\ length - 1 >= max)

\* The ValueErrors of estimate_native_fee.
Refused(q, c) ==
    \/ q.count < 1
    \/ q.kind = "create_token" /\ BadLength(q.symbol_length, c.max_token_symbol_length)
    \/ q.kind = "register_name" /\ (q.name_length <= 0
                                    \/ BadLength(q.name_length, c.max_name_length))

\* A price that halves with each character after the first; a symbol whose
\* length was not given adds nothing.
SymbolPart(price, length) ==
    IF length = 0 THEN 0 ELSE ShiftRight(price, length - 1)

WorkUnits(q, c) ==
    CASE q.kind \in FungibleKinds -> c.gas_fee_transfer
      [] q.kind \in InstanceKinds -> c.gas_fee_transfer * q.count
      [] q.kind = "script" -> q.script_units_allowance
      [] q.kind \in ProductKinds /\ V2(c) -> 0
      [] q.kind = "create_token" /\ ~V2(c) ->
           c.gas_fee_create_token_base
             + SymbolPart(c.gas_fee_create_token_symbol, q.symbol_length)
      [] q.kind = "create_token_series" /\ ~V2(c) -> c.gas_fee_create_token_series
      [] q.kind = "register_name" /\ ~V2(c) ->
           SymbolPart(c.gas_fee_register_name, q.name_length)

PolicyFee(q, c) ==
    CASE q.kind = "create_token" /\ V2(c) ->
           c.policy_fee_create_token_base
             + SymbolPart(c.policy_fee_create_token_symbol, q.symbol_length)
      [] q.kind = "create_token_series" /\ V2(c) -> c.policy_fee_create_token_series
      [] q.kind = "register_name" /\ V2(c) ->
           SymbolPart(c.policy_fee_register_name, q.name_length)
      [] q.kind \notin ProductKinds \/ ~V2(c) -> 0

\* _default_fresh_rows and _default_envelope_bytes, for a caller that did not
\* measure; a fresh_rows of 0 is a measurement, an envelope_bytes of 0 is not.
Rows(q) ==
    IF q.fresh_rows >= 0 THEN q.fresh_rows
    ELSE CASE q.kind \in {"transfer_fungible", "mint_fungible"} -> 1
           [] q.kind = "transfer_non_fungible" -> q.count + 1
           [] q.kind = "mint_non_fungible" ->
                q.count * (2 + (q.rom_ram_bytes + 1023) \div 1024) + 1
           [] q.kind \in {"burn_fungible", "burn_non_fungible"} -> 0
           [] q.kind = "create_token" -> 8
           [] q.kind \in {"create_token_series", "script"} -> 4
           [] q.kind = "register_name" -> 2

Envelope(q) ==
    IF q.envelope_bytes > 0 THEN q.envelope_bytes
    ELSE CASE q.kind \in FungibleKinds \cup {"register_name"} -> 512
           [] q.kind \in {"transfer_non_fungible", "burn_non_fungible"} ->
                512 + 8 * q.count
           [] q.kind = "mint_non_fungible" -> 512 + q.count * (64 + q.rom_ram_bytes)
           [] q.kind = "create_token" -> 4096
           [] q.kind = "create_token_series" -> 2048
           [] q.kind = "script" -> 1024

EventBytes(q) == IF q.kind = "script" THEN 512 ELSE 0

RoundUp(n, step) == IF n % step = 0 THEN n ELSE n + (step - (n % step))

UnitsPerByte == 25  \* GAS_MODEL_V2_UNITS_PER_BLOCK_DATA_BYTE

-----------------------------------------------------------------------------
(* The billing formulas of the two gas models.                             *)

\* Scaled units and the policy fee, at least the minimum bill.
Floored(units, policy, c) ==
    Greater(Lesser(MulShift(units, c) + policy, U64Max), c.minimum_gas_bill)

BillV2(units, envelope, events, rows, policy, c) ==
    Floored(units + (envelope + events + rows) * UnitsPerByte, policy, c)

\* Scaled units and the price of the data.
Priced(units, data, c) ==
    Lesser(MulShift(units, c) + data * c.gas_fee_per_byte, U64Max)

BillV1(units, payload, events, rows, c) == Priced(units, payload + events + rows, c)

\* A slip of OfferV2: the floor is forgotten.
OfferV2NoFloor(q, c) ==
    LET padded == BillV2(WorkUnits(q, c), RoundUp(Envelope(q), 128), EventBytes(q),
                         Rows(q), PolicyFee(q, c), c)
    IN  Lesser(padded + padded \div 4, U64Max)

\* max_gas under v2: the bill of a rounded-up envelope and a quarter more, at
\* least both minimums.
OfferV2(q, c) ==
    LET padded == BillV2(WorkUnits(q, c), RoundUp(Envelope(q), 128), EventBytes(q),
                         Rows(q), PolicyFee(q, c), c)
    IN  Greater(Lesser(padded + padded \div 4, U64Max),
                Greater(c.minimum_gas_bill, c.minimum_gas_offer))

\* A slip of OfferV1: rows and events are not block data.
OfferV1NoRows(q, c) ==
    Lesser(2 * c.minimum_gas_offer + MulShift(WorkUnits(q, c), c)
             + q.payload_bytes * c.gas_fee_per_byte, U64Max)

\* max_gas under v1: the bill with at least 1 KiB of data, and twice the
\* minimum offer.
OfferV1(q, c) ==
    LET data == Greater(q.payload_bytes + EventBytes(q) + Rows(q), 1024)
    IN  Lesser(2 * c.minimum_gas_offer + MulShift(WorkUnits(q, c), c)
                 + data * c.gas_fee_per_byte, U64Max)

Offer(q, c) == IF V2(c) THEN OfferV2(q, c) ELSE OfferV1(q, c)

Escrow(rows, c) == Lesser(rows * c.data_escrow_per_row, U64Max)

Expected(q, c) ==
    IF V2(c)
    THEN BillV2(WorkUnits(q, c), Envelope(q), EventBytes(q), Rows(q), PolicyFee(q, c), c)
    ELSE BillV1(WorkUnits(q, c), q.payload_bytes, EventBytes(q), Rows(q), c)

NoQuote == [made |-> FALSE]

EstimateNativeFee(q, c) ==
    [made |-> TRUE, request |-> q, config |-> c, max_gas |-> Offer(q, c),
     max_data |-> Escrow(Rows(q), c), expected_gas_bill |-> Expected(q, c)]

-----------------------------------------------------------------------------
Unsettled == [done |-> FALSE]

Init == quote = NoQuote /\ settled = Unsettled

Estimate(q, c) ==
    /\ quote = NoQuote
    /\ ~Refused(q, c)
    /\ quote' = EstimateNativeFee(q, c)
    /\ UNCHANGED settled

\* What a transaction may use and still be the one that was quoted for.  The
\* envelope may round up, the block data under v1 may reach 1 KiB, and the
\* symbol has the stated length, if one was stated.
Within(u, q, c) ==
    /\ u.rows <= Rows(q)
    /\ q.kind = "script" => u.units <= q.script_units_allowance
    /\ u.events <= EventBytes(q)
    /\ q.kind = "create_token" => q.symbol_length \in {0, u.symbol_length}
    /\ IF V2(c)
       THEN u.envelope <= RoundUp(Envelope(q), 128)
       ELSE u.payload + u.events + u.rows
              <= Greater(q.payload_bytes + EventBytes(q) + Rows(q), 1024)

\* The chain's bill: the work is fixed by the operation, except a script's.
Settle(u) ==
    /\ quote.made /\ ~settled.done
    /\ LET c == quote.config
           q == [quote.request EXCEPT !.symbol_length = u.symbol_length]
           units == IF q.kind = "script" THEN u.units ELSE WorkUnits(q, c)
       IN  /\ Within(u, quote.request, c)
           /\ settled' =
                [done |-> TRUE,
                 bill |-> IF V2(c)
                          THEN BillV2(units, u.envelope, u.events, u.rows,
                                      PolicyFee(q, c), c)
                          ELSE BillV1(units, u.payload, u.events, u.rows, c),
                 escrow |-> Escrow(u.rows, c)]
    /\ UNCHANGED quote

Next ==
    \/ \E q \in Requests, c \in Configs : Estimate(q, c)
    \/ \E u \in Usages : Settle(u)

Spec == Init /\ [][Next]_vars
-----------------------------------------------------------------------------
(* Properties.                                                             *)

SymbolStated(q) == q.kind = "create_token" => q.symbol_length # 0

\* The offer covers the bill and the storage escrow of every transaction that
\* keeps within what was quoted for, in both gas models, at every rounding
\* and saturation.  For create_token the symbol's length must be stated.
OfferCoversBill ==
    (settled.done /\ SymbolStated(quote.request)) =>
        settled.bill <= quote.max_gas /\ settled.escrow <= quote.max_data

\* The offer and the expected bill are amounts the chain can hold, and the
\* offer reaches both minimums that make the chain reject a transaction.
OfferAdmissible ==
    quote.made =>
        /\ quote.max_gas \in 0..U64Max
        /\ quote.expected_gas_bill <= quote.max_gas
        /\ quote.max_data \in 0..U64Max
        /\ quote.max_gas >= quote.config.minimum_gas_offer
        /\ V2(quote.config) => quote.max_gas >= quote.config.minimum_gas_bill

\* The docstring of estimate_native_fee: "Defaults produce a safe
\* single-signer estimate", so an offer quoted with the default symbol_length
\* covers the bill too.
DefaultsSafe == settled.done => settled.bill <= quote.max_gas
=============================================================================
