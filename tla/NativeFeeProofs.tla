--------------------------- MODULE NativeFeeProofs ---------------------------
(* Proofs about NativeFee: for every configuration, request and use within   *)
(* what was quoted for, the offer covers the bill.  The argument is that     *)
(* every step of the billing formulas is monotonic, saturation included.     *)
EXTENDS NativeFee, TLAPS

\* Integer division, for any positive divisor.
LEMMA DivFacts ==
    ASSUME NEW n \in Nat, NEW d \in Nat \ {0}
    PROVE  /\ n \div d \in Nat
           /\ n % d \in 0..(d - 1)
           /\ n = d * (n \div d) + (n % d)
  OBVIOUS

\* More is never less after division.
LEMMA DivMonotonic ==
    ASSUME NEW a \in Nat, NEW b \in Nat, a <= b, NEW d \in Nat \ {0}
    PROVE  a \div d <= b \div d
<1> DEFINE p == a \div d
           q == b \div d
<1>1. p \in Nat /\ q \in Nat /\ a >= d * p /\ b <= d * q + (d - 1)
  BY DivFacts
<1> HIDE DEF p, q
<1>2. ASSUME p > q PROVE FALSE
  <2>1. p >= q + 1
    BY <1>1, <1>2
  <2>2. d * p >= d * (q + 1)
    BY <1>1, <2>1
  <2>3. d * (q + 1) = d * q + d
    BY <1>1
  <2> QED
    BY <1>1, <2>2, <2>3
<1>3. QED
  BY <1>1, <1>2 DEF p, q

\* More is never less after multiplication.
LEMMA TimesMonotonic ==
    ASSUME NEW a \in Nat, NEW b \in Nat, a <= b, NEW m \in Nat
    PROVE  a * m \in Nat /\ b * m \in Nat /\ a * m <= b * m
  OBVIOUS

\* The largest amount is one.
LEMMA U64MaxType == U64Max \in Nat
<1>1. 2^Bits \in Nat \ {0}
  BY FeeAssumption
<1>2. QED
  BY <1>1 DEF U64Max

\* What is known of a configuration.
LEMMA ConfigFacts ==
    ASSUME NEW c \in Configs
    PROVE  /\ c.version \in Nat /\ c.fee_shift \in Nat
           /\ \A p \in Prices : c[p] \in Nat /\ c[p] <= U64Max
           /\ c.fee_multiplier \in Nat /\ c.gas_fee_per_byte \in Nat
           /\ c.data_escrow_per_row \in Nat /\ c.gas_fee_transfer \in Nat
           /\ c.minimum_gas_bill \in 0..U64Max
           /\ c.minimum_gas_offer \in 0..U64Max
           /\ c.gas_fee_create_token_base \in Nat
           /\ c.gas_fee_create_token_symbol \in Nat
           /\ c.gas_fee_create_token_series \in Nat
           /\ c.gas_fee_register_name \in Nat
           /\ c.policy_fee_create_token_base \in Nat
           /\ c.policy_fee_create_token_symbol \in Nat
           /\ c.policy_fee_create_token_series \in Nat
           /\ c.policy_fee_register_name \in Nat
<1>1. /\ c.version \in Nat /\ c.fee_shift \in Nat
      /\ \A p \in Prices : c[p] \in 0..U64Max
  BY FeeAssumption
<1>2. QED
  BY <1>1, U64MaxType DEF Prices

\* _mul_shift gives an amount, and never less for more.
LEMMA MulShiftMonotonic ==
    ASSUME NEW c \in Configs, NEW a \in Nat, NEW b \in Nat, a <= b
    PROVE  /\ MulShift(a, c) \in 0..U64Max /\ MulShift(b, c) \in 0..U64Max
           /\ MulShift(a, c) <= MulShift(b, c)
<1>1. U64Max \in Nat /\ c.fee_shift \in Nat /\ c.fee_multiplier \in Nat
  BY U64MaxType, ConfigFacts
<1>2. CASE c.fee_shift >= Bits
  BY <1>1, <1>2 DEF MulShift
<1>3. CASE ~(c.fee_shift >= Bits)
  <2> DEFINE d == 2^c.fee_shift
             x == (a * c.fee_multiplier) \div d
             y == (b * c.fee_multiplier) \div d
  <2>1. d \in Nat \ {0}
    <3>1. c.fee_shift \in 0..MaxShift
      BY <1>1, <1>3, FeeAssumption
    <3> QED
      BY <3>1, FeeAssumption
  <2>2. MulShift(a, c) = Lesser(x, U64Max) /\ MulShift(b, c) = Lesser(y, U64Max)
    BY <1>3 DEF MulShift, ShiftRight
  <2> HIDE DEF d
  <2>3. x \in Nat /\ y \in Nat /\ x <= y
    BY <1>1, <2>1, TimesMonotonic, DivMonotonic, DivFacts
  <2> HIDE DEF x, y
  <2> QED
    BY <1>1, <2>2, <2>3 DEF Lesser
<1>4. QED
  BY <1>2, <1>3

\* The price of a symbol of admissible length is an amount.
LEMMA SymbolPartType ==
    ASSUME NEW price \in Nat, NEW length \in 0..MaxShift
    PROVE  SymbolPart(price, length) \in Nat
<1>1. CASE length = 0
  BY <1>1 DEF SymbolPart
<1>2. CASE length # 0
  <2> DEFINE d == 2^(length - 1)
  <2>1. d \in Nat \ {0}
    <3>1. length - 1 \in 0..MaxShift
      BY <1>2, FeeAssumption
    <3> QED
      BY <3>1, FeeAssumption
  <2>2. SymbolPart(price, length) = price \div d
    BY <1>2 DEF SymbolPart, ShiftRight
  <2> HIDE DEF d
  <2> QED
    BY <2>1, <2>2, DivFacts
<1>3. QED
  BY <1>1, <1>2

\* Rounding an envelope up gives at least the envelope.
LEMMA RoundUpFacts ==
    ASSUME NEW n \in Nat, NEW step \in Nat \ {0}
    PROVE  RoundUp(n, step) \in Nat /\ RoundUp(n, step) >= n
<1>1. n % step \in 0..(step - 1)
  BY DivFacts
<1>2. QED
  BY <1>1 DEF RoundUp

\* The v2 bill is an amount, and never less for more work and bytes.
LEMMA FlooredMonotonic ==
    ASSUME NEW c \in Configs, NEW a \in Nat, NEW b \in Nat, a <= b, NEW policy \in Nat
    PROVE  /\ Floored(a, policy, c) \in 0..U64Max
           /\ Floored(b, policy, c) \in 0..U64Max
           /\ Floored(a, policy, c) <= Floored(b, policy, c)
<1>1. /\ MulShift(a, c) \in 0..U64Max /\ MulShift(b, c) \in 0..U64Max
      /\ MulShift(a, c) <= MulShift(b, c)
  BY MulShiftMonotonic
<1>2. c.minimum_gas_bill \in 0..U64Max /\ U64Max \in Nat
  BY ConfigFacts, U64MaxType
<1>3. QED
  BY <1>1, <1>2 DEF Floored, Greater, Lesser

\* So is the v1 bill.
LEMMA PricedMonotonic ==
    ASSUME NEW c \in Configs, NEW u \in Nat, NEW v \in Nat, u <= v,
           NEW a \in Nat, NEW b \in Nat, a <= b
    PROVE  /\ Priced(u, a, c) \in 0..U64Max
           /\ Priced(v, b, c) \in 0..U64Max
           /\ Priced(u, a, c) <= Priced(v, b, c)
<1>1. /\ MulShift(u, c) \in 0..U64Max /\ MulShift(v, c) \in 0..U64Max
      /\ MulShift(u, c) <= MulShift(v, c)
  BY MulShiftMonotonic
<1> DEFINE x == a * c.gas_fee_per_byte
           y == b * c.gas_fee_per_byte
<1>2. x \in Nat /\ y \in Nat /\ x <= y
  BY ConfigFacts, TimesMonotonic
<1>3. /\ Priced(u, a, c) = Lesser(MulShift(u, c) + x, U64Max)
      /\ Priced(v, b, c) = Lesser(MulShift(v, c) + y, U64Max)
  BY DEF Priced
<1> HIDE DEF x, y
<1>4. QED
  BY <1>1, <1>2, <1>3, U64MaxType DEF Lesser

-----------------------------------------------------------------------------
(* The terms of an estimate are amounts.                                    *)

\* What is known of a request that is not refused.
LEMMA RequestFacts ==
    ASSUME NEW q \in Requests, NEW c \in Configs, ~Refused(q, c)
    PROVE  /\ q.kind \in Kinds /\ q.count \in Nat
           /\ q.fresh_rows \in Int /\ q.envelope_bytes \in Int
           /\ q.payload_bytes \in Nat /\ q.rom_ram_bytes \in Nat
           /\ q.script_units_allowance \in Nat
           /\ q.kind = "create_token" => q.symbol_length \in 0..MaxShift
           /\ q.kind = "register_name" => q.name_length \in 0..MaxShift
<1>1. /\ q.kind \in Kinds /\ q.count \in Int
      /\ q.fresh_rows \in Int /\ q.envelope_bytes \in Int
      /\ q.symbol_length \in Int /\ q.symbol_length <= MaxShift
      /\ q.name_length \in Int /\ q.name_length <= MaxShift
      /\ q.payload_bytes \in Nat /\ q.rom_ram_bytes \in Nat
      /\ q.script_units_allowance \in Nat
  BY FeeAssumption
<1>2. MaxShift \in Nat
  BY FeeAssumption
<1>3. QED
  BY <1>1, <1>2 DEF Refused, BadLength

\* Work units and policy fees, whichever the gas model.
LEMMA WorkTypes ==
    ASSUME NEW q, NEW c \in Configs,
           q.kind \in Kinds, q.count \in Nat, q.script_units_allowance \in Nat,
           q.kind = "create_token" => q.symbol_length \in 0..MaxShift,
           q.kind = "register_name" => q.name_length \in 0..MaxShift
    PROVE  WorkUnits(q, c) \in Nat /\ PolicyFee(q, c) \in Nat
<1>1. q.kind = "create_token" =>
        /\ SymbolPart(c.gas_fee_create_token_symbol, q.symbol_length) \in Nat
        /\ SymbolPart(c.policy_fee_create_token_symbol, q.symbol_length) \in Nat
  BY SymbolPartType, ConfigFacts
<1>2. q.kind = "register_name" =>
        /\ SymbolPart(c.gas_fee_register_name, q.name_length) \in Nat
        /\ SymbolPart(c.policy_fee_register_name, q.name_length) \in Nat
  BY SymbolPartType, ConfigFacts
<1>3. c.gas_fee_transfer * q.count \in Nat
  BY ConfigFacts
<1>4. CASE q.kind \in FungibleKinds
  BY <1>4, ConfigFacts
     DEF WorkUnits, PolicyFee, FungibleKinds, InstanceKinds, ProductKinds
<1>5. CASE q.kind \in InstanceKinds
  BY <1>3, <1>5 DEF WorkUnits, PolicyFee, FungibleKinds, InstanceKinds, ProductKinds
<1>6. CASE q.kind = "script"
  BY <1>6 DEF WorkUnits, PolicyFee, FungibleKinds, InstanceKinds, ProductKinds
<1>7. CASE q.kind = "create_token"
  BY <1>1, <1>7, ConfigFacts
     DEF WorkUnits, PolicyFee, FungibleKinds, InstanceKinds, ProductKinds
<1>8. CASE q.kind = "create_token_series"
  BY <1>8, ConfigFacts
     DEF WorkUnits, PolicyFee, FungibleKinds, InstanceKinds, ProductKinds
<1>9. CASE q.kind = "register_name"
  BY <1>2, <1>9 DEF WorkUnits, PolicyFee, FungibleKinds, InstanceKinds, ProductKinds
<1>10. QED
  BY <1>4, <1>5, <1>6, <1>7, <1>8, <1>9
     DEF Kinds, FungibleKinds, InstanceKinds, ProductKinds

\* The default and the measured sizes are numbers of bytes and rows.
LEMMA SizeTypes ==
    ASSUME NEW q, q.kind \in Kinds, q.count \in Nat, q.rom_ram_bytes \in Nat,
           q.fresh_rows \in Int, q.envelope_bytes \in Int
    PROVE  Rows(q) \in Nat /\ Envelope(q) \in Nat /\ EventBytes(q) \in Nat
<1>1. (q.rom_ram_bytes + 1023) \div 1024 \in Nat
  BY DivFacts
<1>2. /\ q.count * (2 + (q.rom_ram_bytes + 1023) \div 1024) + 1 \in Nat
      /\ 8 * q.count \in Nat /\ q.count * (64 + q.rom_ram_bytes) \in Nat
  <2> DEFINE k == (q.rom_ram_bytes + 1023) \div 1024
  <2>1. k \in Nat
    BY <1>1
  <2> HIDE DEF k
  <2>2. q.count * (2 + k) \in Nat /\ q.count * (64 + q.rom_ram_bytes) \in Nat
    BY <2>1
  <2> QED
    BY <2>2 DEF k
<1>3. EventBytes(q) \in Nat
  BY DEF EventBytes
<1>4. Rows(q) \in Nat
  BY <1>2 DEF Rows, Kinds, FungibleKinds, InstanceKinds, ProductKinds
<1>5. Envelope(q) \in Nat
  BY <1>2 DEF Envelope, Kinds, FungibleKinds, InstanceKinds, ProductKinds
<1>6. QED
  BY <1>3, <1>4, <1>5

-----------------------------------------------------------------------------
\* An offer is an amount that covers the expected bill and both minimums.
LEMMA OfferFacts ==
    ASSUME NEW q \in Requests, NEW c \in Configs, ~Refused(q, c)
    PROVE  /\ Offer(q, c) \in 0..U64Max
           /\ Expected(q, c) <= Offer(q, c)
           /\ Escrow(Rows(q), c) \in 0..U64Max
           /\ Offer(q, c) >= c.minimum_gas_offer
           /\ V2(c) => Offer(q, c) >= c.minimum_gas_bill
<1> DEFINE units == WorkUnits(q, c)
           policy == PolicyFee(q, c)
           rows == Rows(q)
           events == EventBytes(q)
           envelope == Envelope(q)
           rounded == RoundUp(Envelope(q), 128)
           padded == BillV2(units, rounded, events, rows, policy, c)
           sum == q.payload_bytes + EventBytes(q) + Rows(q)
           data == Greater(sum, 1024)
<1>1. /\ units \in Nat /\ policy \in Nat /\ rows \in Nat /\ events \in Nat
      /\ envelope \in Nat /\ rounded \in Nat /\ envelope <= rounded
      /\ q.payload_bytes \in Nat
  BY RequestFacts, WorkTypes, SizeTypes, RoundUpFacts
<1>2. /\ U64Max \in Nat /\ c.minimum_gas_bill \in 0..U64Max
      /\ c.minimum_gas_offer \in 0..U64Max /\ c.data_escrow_per_row \in Nat
      /\ c.gas_fee_per_byte \in Nat
  BY U64MaxType, ConfigFacts
<1>3. Escrow(rows, c) \in 0..U64Max
  <2>1. rows * c.data_escrow_per_row \in Nat
    BY <1>1, <1>2
  <2> QED
    BY <1>2, <2>1 DEF Escrow, Lesser
<1>4. CASE V2(c)
  <2>1. /\ padded \in 0..U64Max
        /\ BillV2(units, envelope, events, rows, policy, c) <= padded
        /\ BillV2(units, envelope, events, rows, policy, c) \in 0..U64Max
    <3> DEFINE a == units + (envelope + events + rows) * UnitsPerByte
               b == units + (rounded + events + rows) * UnitsPerByte
    <3>1. a \in Nat /\ b \in Nat /\ a <= b
      BY <1>1 DEF UnitsPerByte
    <3>2. /\ padded = Floored(b, policy, c)
          /\ BillV2(units, envelope, events, rows, policy, c) = Floored(a, policy, c)
      BY DEF BillV2
    <3> HIDE DEF a, b, padded
    <3> QED
      BY <1>1, <3>1, <3>2, FlooredMonotonic
  <2>2. /\ Offer(q, c) = Greater(Lesser(padded + padded \div 4, U64Max),
                                 Greater(c.minimum_gas_bill, c.minimum_gas_offer))
        /\ Expected(q, c) = BillV2(units, envelope, events, rows, policy, c)
    BY <1>4 DEF Offer, OfferV1, OfferV2, Expected
  <2> HIDE DEF padded
  <2>3. padded \div 4 \in Nat
    BY <1>2, <2>1, DivFacts
  <2> QED
    BY <1>2, <1>3, <2>1, <2>2, <2>3 DEF Greater, Lesser
<1>5. CASE ~V2(c)
  <2>1. data \in Nat /\ sum \in Nat /\ sum <= data
    BY <1>1 DEF Greater
  <2>2. /\ Offer(q, c) = Lesser(2 * c.minimum_gas_offer + MulShift(units, c)
                                  + data * c.gas_fee_per_byte, U64Max)
        /\ Expected(q, c) = Priced(units, q.payload_bytes + events + rows, c)
    BY <1>5 DEF Offer, OfferV1, OfferV2, Expected, BillV1
  <2>3. MulShift(units, c) \in 0..U64Max /\ data * c.gas_fee_per_byte \in Nat
    BY <1>1, <1>2, <2>1, MulShiftMonotonic
  <2>4. /\ Expected(q, c) \in 0..U64Max
        /\ Expected(q, c) <= Lesser(MulShift(units, c) + data * c.gas_fee_per_byte, U64Max)
    <3>1. Expected(q, c) \in 0..U64Max /\ Expected(q, c) <= Priced(units, data, c)
      <4> HIDE DEF data, units
      <4>1. sum = q.payload_bytes + events + rows
        OBVIOUS
      <4>2. Expected(q, c) = Priced(units, sum, c)
        BY <2>2, <4>1
      <4> HIDE DEF sum
      <4> QED
        BY <1>1, <2>1, <4>2, PricedMonotonic
    <3> QED
      BY <3>1 DEF Priced
  <2> HIDE DEF data, units
  <2> QED
    BY <1>2, <1>3, <1>5, <2>2, <2>3, <2>4 DEF Lesser
<1>6. QED
  BY <1>4, <1>5

\* A transaction within what was quoted for is covered.
LEMMA OfferSuffices ==
    ASSUME NEW q \in Requests, NEW c \in Configs, ~Refused(q, c),
           NEW u \in Usages, Within(u, q, c), SymbolStated(q),
           NEW k, k = (IF q.kind = "script" THEN u.units
                       ELSE WorkUnits([q EXCEPT !.symbol_length = u.symbol_length], c))
    PROVE  /\ V2(c) =>
                BillV2(k, u.envelope, u.events, u.rows,
                       PolicyFee([q EXCEPT !.symbol_length = u.symbol_length], c), c)
                  <= Offer(q, c)
           /\ ~V2(c) => BillV1(k, u.payload, u.events, u.rows, c) <= Offer(q, c)
           /\ Escrow(u.rows, c) <= Escrow(Rows(q), c)
<1> DEFINE a == [q EXCEPT !.symbol_length = u.symbol_length]
           rounded == RoundUp(Envelope(q), 128)
           padded == BillV2(WorkUnits(q, c), rounded, EventBytes(q), Rows(q),
                            PolicyFee(q, c), c)
           data == Greater(q.payload_bytes + EventBytes(q) + Rows(q), 1024)
<1>1. /\ WorkUnits(q, c) \in Nat /\ PolicyFee(q, c) \in Nat
      /\ Rows(q) \in Nat /\ EventBytes(q) \in Nat
      /\ Envelope(q) \in Nat /\ rounded \in Nat /\ q.payload_bytes \in Nat
  BY RequestFacts, WorkTypes, SizeTypes, RoundUpFacts
<1>2. /\ u.envelope \in Nat /\ u.payload \in Nat /\ u.events \in Nat
      /\ u.rows \in Nat /\ u.units \in Nat
      /\ u.rows <= Rows(q) /\ u.events <= EventBytes(q)
  BY FeeAssumption DEF Within
\* The stated symbol is the symbol, so the work and the policy fee are the quoted ones.
<1>3. WorkUnits(a, c) = WorkUnits(q, c) /\ PolicyFee(a, c) = PolicyFee(q, c)
  <2>1. /\ a.kind = q.kind /\ a.count = q.count /\ a.name_length = q.name_length
        /\ a.script_units_allowance = q.script_units_allowance
        /\ a.symbol_length = u.symbol_length
    BY FeeAssumption
  <2>2. q.kind = "create_token" => a.symbol_length = q.symbol_length
    BY <2>1 DEF Within, SymbolStated
  <2> HIDE DEF a
  <2>3. WorkUnits(a, c) = WorkUnits(q, c)
    <3>1. CASE q.kind = "create_token"
      BY <2>1, <2>2, <3>1 DEF WorkUnits
    <3>2. CASE q.kind # "create_token"
      BY <2>1, <3>2, RequestFacts
         DEF WorkUnits, Kinds, FungibleKinds, InstanceKinds, ProductKinds
    <3> QED
      BY <3>1, <3>2
  <2>4. PolicyFee(a, c) = PolicyFee(q, c)
    <3>1. CASE q.kind = "create_token"
      BY <2>1, <2>2, <3>1 DEF PolicyFee
    <3>2. CASE q.kind # "create_token"
      BY <2>1, <3>2, RequestFacts
         DEF PolicyFee, Kinds, FungibleKinds, InstanceKinds, ProductKinds
    <3> QED
      BY <3>1, <3>2
  <2> QED
    BY <2>3, <2>4
<1> HIDE DEF a
<1>4. k \in Nat /\ k <= WorkUnits(q, c)
  <2>1. CASE q.kind = "script"
    <3>1. WorkUnits(q, c) = q.script_units_allowance
      BY <2>1 DEF WorkUnits, FungibleKinds, InstanceKinds, ProductKinds
    <3> QED
      BY <1>2, <2>1, <3>1 DEF Within
  <2>2. CASE q.kind # "script"
    BY <1>1, <1>3, <2>2 DEF a
  <2> QED
    BY <2>1, <2>2
<1>5. /\ U64Max \in Nat /\ c.minimum_gas_bill \in 0..U64Max
      /\ c.minimum_gas_offer \in 0..U64Max /\ c.data_escrow_per_row \in Nat
      /\ c.gas_fee_per_byte \in Nat
  BY U64MaxType, ConfigFacts
<1>6. ASSUME V2(c)
      PROVE  BillV2(k, u.envelope, u.events, u.rows, PolicyFee(a, c), c) <= Offer(q, c)
  <2>1. u.envelope <= rounded
    BY <1>6 DEF Within
  <2>2. /\ padded \in 0..U64Max
        /\ BillV2(k, u.envelope, u.events, u.rows, PolicyFee(q, c), c) <= padded
        /\ BillV2(k, u.envelope, u.events, u.rows, PolicyFee(q, c), c) \in 0..U64Max
    <3> DEFINE x == k + (u.envelope + u.events + u.rows) * UnitsPerByte
               y == WorkUnits(q, c) + (rounded + EventBytes(q) + Rows(q)) * UnitsPerByte
    <3>1. x \in Nat /\ y \in Nat /\ x <= y
      BY <1>1, <1>2, <1>4, <2>1 DEF UnitsPerByte
    <3>2. /\ padded = Floored(y, PolicyFee(q, c), c)
          /\ BillV2(k, u.envelope, u.events, u.rows, PolicyFee(q, c), c)
               = Floored(x, PolicyFee(q, c), c)
      BY DEF BillV2
    <3> HIDE DEF x, y, padded
    <3> QED
      BY <1>1, <3>1, <3>2, FlooredMonotonic
  <2>3. Offer(q, c) = Greater(Lesser(padded + padded \div 4, U64Max),
                              Greater(c.minimum_gas_bill, c.minimum_gas_offer))
    BY <1>6 DEF Offer, OfferV1, OfferV2
  <2> HIDE DEF padded
  <2>4. padded \div 4 \in Nat
    BY <1>5, <2>2, DivFacts
  <2> QED
    BY <1>3, <1>5, <2>2, <2>3, <2>4 DEF Greater, Lesser
<1>7. ASSUME ~V2(c)
      PROVE  BillV1(k, u.payload, u.events, u.rows, c) <= Offer(q, c)
  <2>1. data \in Nat /\ u.payload + u.events + u.rows <= data
    BY <1>1, <1>7 DEF Within, Greater
  <2>2. Offer(q, c) = Lesser(2 * c.minimum_gas_offer + MulShift(WorkUnits(q, c), c)
                               + data * c.gas_fee_per_byte, U64Max)
    BY <1>7 DEF Offer, OfferV1, OfferV2
  <2>3. data * c.gas_fee_per_byte \in Nat
    BY <1>5, <2>1
  <2> HIDE DEF data
  <2>4. /\ BillV1(k, u.payload, u.events, u.rows, c) \in 0..U64Max
        /\ BillV1(k, u.payload, u.events, u.rows, c) <= Priced(WorkUnits(q, c), data, c)
        /\ MulShift(WorkUnits(q, c), c) \in 0..U64Max
    <3> DEFINE used == u.payload + u.events + u.rows
    <3>1. used \in Nat /\ used <= data
      BY <1>2, <2>1
    <3>2. BillV1(k, u.payload, u.events, u.rows, c) = Priced(k, used, c)
      BY DEF BillV1
    <3> HIDE DEF used
    <3> QED
      BY <1>1, <1>4, <2>1, <3>1, <3>2, PricedMonotonic, MulShiftMonotonic
  <2> QED
    BY <1>5, <2>2, <2>3, <2>4 DEF Lesser, Priced
<1>8. Escrow(u.rows, c) <= Escrow(Rows(q), c)
  <2>1. /\ u.rows * c.data_escrow_per_row \in Nat
        /\ Rows(q) * c.data_escrow_per_row \in Nat
        /\ u.rows * c.data_escrow_per_row <= Rows(q) * c.data_escrow_per_row
    BY <1>1, <1>2, <1>5, TimesMonotonic
  <2> QED
    BY <1>5, <2>1 DEF Escrow, Lesser
<1>9. QED
  BY <1>6, <1>7, <1>8 DEF a

-----------------------------------------------------------------------------
\* A quote is the estimator's, for a request that it did not refuse; nothing
\* is settled without one.
QuoteInv ==
    /\ \/ quote = NoQuote
       \/ \E q \in Requests, c \in Configs :
            ~Refused(q, c) /\ quote = EstimateNativeFee(q, c)
    /\ quote = NoQuote => settled = Unsettled
    /\ settled = Unsettled \/ settled.done

FeeInv == QuoteInv /\ OfferCoversBill /\ OfferAdmissible

\* What can be read off an estimate.
LEMMA EstimateFields ==
    ASSUME NEW q, NEW c
    PROVE  /\ EstimateNativeFee(q, c).made
           /\ EstimateNativeFee(q, c).request = q
           /\ EstimateNativeFee(q, c).config = c
           /\ EstimateNativeFee(q, c).max_gas = Offer(q, c)
           /\ EstimateNativeFee(q, c).max_data = Escrow(Rows(q), c)
           /\ EstimateNativeFee(q, c).expected_gas_bill = Expected(q, c)
           /\ EstimateNativeFee(q, c) # NoQuote
           /\ ~NoQuote.made /\ ~Unsettled.done
  BY DEF EstimateNativeFee, NoQuote, Unsettled

\* Estimating and settling keep the invariant.
LEMMA FeeInductive == Spec => []FeeInv
<1>1. Init => FeeInv
  BY EstimateFields DEF Init, FeeInv, QuoteInv, OfferCoversBill, OfferAdmissible
<1>2. FeeInv /\ [Next]_vars => FeeInv'
  <2> SUFFICES ASSUME FeeInv, [Next]_vars PROVE FeeInv'
    OBVIOUS
  <2>1. ASSUME NEW q \in Requests, NEW c \in Configs, Estimate(q, c) PROVE FeeInv'
    <3>1. /\ quote' = EstimateNativeFee(q, c) /\ ~Refused(q, c)
          /\ settled' = Unsettled
      BY <2>1 DEF Estimate, FeeInv, QuoteInv
    <3>2. QuoteInv'
      BY <3>1, EstimateFields DEF QuoteInv
    <3>3. OfferCoversBill'
      BY <3>1, EstimateFields DEF OfferCoversBill
    <3>4. OfferAdmissible'
      BY <3>1, EstimateFields, OfferFacts, U64MaxType, ConfigFacts DEF OfferAdmissible
    <3> QED
      BY <3>2, <3>3, <3>4 DEF FeeInv
  <2>2. ASSUME NEW u \in Usages, Settle(u) PROVE FeeInv'
    <3>1. quote.made /\ quote' = quote
      BY <2>2 DEF Settle
    <3>2. PICK q \in Requests, c \in Configs :
            ~Refused(q, c) /\ quote = EstimateNativeFee(q, c)
      BY <3>1, EstimateFields DEF FeeInv, QuoteInv
    <3>3. quote.request = q /\ quote.config = c
      BY <3>2, EstimateFields
    <3> DEFINE a == [q EXCEPT !.symbol_length = u.symbol_length]
               k == IF q.kind = "script" THEN u.units ELSE WorkUnits(a, c)
    <3>4. a.kind = q.kind
      BY FeeAssumption
    <3>5. /\ Within(u, q, c)
          /\ settled' =
               [done |-> TRUE,
                bill |-> IF V2(c)
                         THEN BillV2(k, u.envelope, u.events, u.rows, PolicyFee(a, c), c)
                         ELSE BillV1(k, u.payload, u.events, u.rows, c),
                escrow |-> Escrow(u.rows, c)]
      BY <2>2, <3>3, <3>4 DEF Settle
    <3>6. SymbolStated(q) =>
            settled'.bill <= Offer(q, c) /\ settled'.escrow <= Escrow(Rows(q), c)
      BY <3>2, <3>5, OfferSuffices
    <3>7. settled'.done
      BY <3>5
    <3>8. OfferCoversBill'
      BY <3>1, <3>2, <3>6, EstimateFields DEF OfferCoversBill
    <3>9. QuoteInv'
      BY <3>1, <3>2, <3>7, EstimateFields DEF QuoteInv
    <3>10. OfferAdmissible'
      BY <3>1 DEF FeeInv, OfferAdmissible
    <3> QED
      BY <3>8, <3>9, <3>10 DEF FeeInv
  <2>3. CASE UNCHANGED vars
    BY <2>3 DEF vars, FeeInv, QuoteInv, OfferCoversBill, OfferAdmissible
  <2> QED
    BY <2>1, <2>2, <2>3 DEF Next
<1>3. QED
  BY <1>1, <1>2, PTL DEF Spec

\* For every configuration and request, the max_gas and max_data that
\* estimate_native_fee offers cover every transaction within the quote.
THEOREM OfferAlwaysCovers == Spec => []OfferCoversBill
<1>1. FeeInv => OfferCoversBill
  BY DEF FeeInv
<1>2. QED
  BY FeeInductive, <1>1, PTL

\* Every offer is an amount the chain can hold and reaches its minimums.
THEOREM OfferAlwaysAdmissible == Spec => []OfferAdmissible
<1>1. FeeInv => OfferAdmissible
  BY DEF FeeInv
<1>2. QED
  BY FeeInductive, <1>1, PTL
=============================================================================
