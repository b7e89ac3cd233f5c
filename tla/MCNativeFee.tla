---------------------------- MODULE MCNativeFee ----------------------------
(* Instances of NativeFee for TLC: 17-bit amounts, so that a few thousand    *)
(* bytes at 25 units saturate, and prices around the interesting corners.    *)
EXTENDS NativeFee

Config(version, multiplier, shift, price, floor) ==
    [version |-> version, fee_shift |-> shift, fee_multiplier |-> multiplier,
     max_token_symbol_length |-> 4, max_name_length |-> 0,
     minimum_gas_offer |-> 10, minimum_gas_bill |-> floor,
     data_escrow_per_row |-> price, gas_fee_transfer |-> 10,
     gas_fee_per_byte |-> price,
     gas_fee_create_token_base |-> 40, gas_fee_create_token_symbol |-> 1001,
     gas_fee_create_token_series |-> 25, gas_fee_register_name |-> 999,
     policy_fee_create_token_base |-> 100, policy_fee_create_token_symbol |-> 70001,
     policy_fee_create_token_series |-> 250, policy_fee_register_name |-> 70001]

\* No scaling, scaling up and down, an oversized shift, a high floor.
MCConfigs ==
    {Config(v, m, s, p, f) : v \in {0, 1}, m \in {1, 3}, s \in {0, 2, 17},
                             p \in {50}, f \in {0, 90000}}

Request(kind, count, length, envelope, rows, payload) ==
    [kind |-> kind, count |-> count, symbol_length |-> length, name_length |-> length,
     envelope_bytes |-> envelope, payload_bytes |-> payload, fresh_rows |-> rows,
     rom_ram_bytes |-> 1025, script_units_allowance |-> 50]

MCRequests ==
    {Request(k, n, l, e, r, 0) : k \in Kinds, n \in {0, 2}, l \in {-1, 1, 3, 5},
                                 e \in {0, 129}, r \in {-1, 0}}
    \cup {Request("transfer_fungible", 1, 0, 0, -1, 1100)}

UnstatedSymbol == {Request("create_token", 1, 0, 0, -1, 0)}

Usage(envelope, payload, events, rows, units, length) ==
    [envelope |-> envelope, payload |-> payload, events |-> events, rows |-> rows,
     units |-> units, symbol_length |-> length]

\* Nothing, everything that fits, and sizes at the two rounding boundaries.
MCUsages ==
    {Usage(e, p, v, r, u, l) : e \in {0, 256, 4096}, p \in {0, 1024, 1101},
                               v \in {0, 512}, r \in {0, 1, 8}, u \in {50},
                               l \in {1, 3}}
=============================================================================
