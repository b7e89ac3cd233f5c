------------------------------ MODULE CarbonTx ------------------------------
(***************************************************************************)
(* Carbon transactions: TxMsg and its seventeen payloads, SignedTxMsg and  *)
(* its three witness layouts, signing, and the sizes the fee estimator     *)
(* assumes of them.  A wallet builds a message, it is signed by one or     *)
(* more keys, serialized and sent; a stream arrives whole, cut short or    *)
(* with bytes added, and is deserialized.                                  *)
(*                                                                         *)
(* Addresses and keys are numbers, an address being that of its key.  A    *)
(* signature on the wire is a number too: its index in issued.             *)
(***************************************************************************)
EXTENDS CarbonWire

CONSTANTS
    Messages,       \* messages the caller may build
    Keys,           \* keys that may sign
    MaxWitnesses,   \* bound: witnesses of one message
    Losses          \* bound: how many bytes of a field a cut may take off

VARIABLES
    msg,        \* the TxMsg
    witnesses,  \* of the SignedTxMsg
    issued,     \* history: what each signature was made over, and by whom
    wire,       \* serialize() of the SignedTxMsg
    arrived,    \* the stream handed to deserialize()
    seen        \* its SignedTxMsg

vars == <<msg, witnesses, issued, wire, arrived, seen>>

-----------------------------------------------------------------------------
(* TxType, and the layout of each payload class.                           *)

CALL == 0
CALL_MULTI == 1
TRADE == 2
TRANSFER_FUNGIBLE == 3
TRANSFER_FUNGIBLE_GAS_PAYER == 4
TRANSFER_NON_FUNGIBLE_SINGLE == 5
TRANSFER_NON_FUNGIBLE_SINGLE_GAS_PAYER == 6
TRANSFER_NON_FUNGIBLE_MULTI == 7
TRANSFER_NON_FUNGIBLE_MULTI_GAS_PAYER == 8
MINT_FUNGIBLE == 9
BURN_FUNGIBLE == 10
BURN_FUNGIBLE_GAS_PAYER == 11
MINT_NON_FUNGIBLE == 12
BURN_NON_FUNGIBLE == 13
BURN_NON_FUNGIBLE_GAS_PAYER == 14
PHANTASMA == 15
PHANTASMA_RAW == 16

TxTypes == CALL..PHANTASMA_RAW

SingleWitness == {TRANSFER_FUNGIBLE, TRANSFER_NON_FUNGIBLE_SINGLE,
                  TRANSFER_NON_FUNGIBLE_MULTI, MINT_FUNGIBLE, BURN_FUNGIBLE,
                  MINT_NON_FUNGIBLE, BURN_NON_FUNGIBLE}
GasPayer == {TRANSFER_FUNGIBLE_GAS_PAYER, TRANSFER_NON_FUNGIBLE_SINGLE_GAS_PAYER,
             TRANSFER_NON_FUNGIBLE_MULTI_GAS_PAYER, BURN_FUNGIBLE_GAS_PAYER,
             BURN_NON_FUNGIBLE_GAS_PAYER}
WitnessArray == {CALL, CALL_MULTI, TRADE, PHANTASMA}

\* Modules and methods that a call names.
GOVERNANCE == 0
TOKEN == 1
CREATE_TOKEN == 2
CREATE_TOKEN_SERIES == 6

U32 == Unsigned(4)
U64 == Unsigned(8)

TxMsgCall == <<U32, U32, ArgSections>>
Transfer == <<Bytes32, U64, U64>>
TransferMulti == <<Bytes32, U64, ListOf(<<U64>>)>>
TransferGasPayer == <<Bytes32>> \o Transfer
TransferMultiGasPayer == <<Bytes32>> \o TransferMulti
TxMsgMintFungible == <<U64, Bytes32, IntX>>
TxMsgBurnFungible == <<U64, IntX>>
TxMsgMintNonFungible == <<U64, Bytes32, U32, ByteArray, ByteArray>>
TxMsgBurnNonFungible == <<U64, U64>>
BurnNonFungibleGasPayer == <<U64, Bytes32, U64>>
TxMsgTrade == <<ListOf(TransferGasPayer), ListOf(TransferGasPayer),
                ListOf(TxMsgMintFungible), ListOf(TxMsgMintFungible),
                ListOf(TxMsgMintNonFungible), ListOf(BurnNonFungibleGasPayer)>>
TxMsgPhantasma == <<Text, Text, ByteArray>>

\* _read_payload
Payload(type) ==
    CASE type = CALL -> TxMsgCall
      [] type = CALL_MULTI -> <<ListOf(TxMsgCall)>>
      [] type = TRADE -> TxMsgTrade
      [] type \in {TRANSFER_FUNGIBLE, TRANSFER_NON_FUNGIBLE_SINGLE} -> Transfer
      [] type \in {TRANSFER_FUNGIBLE_GAS_PAYER, TRANSFER_NON_FUNGIBLE_SINGLE_GAS_PAYER} ->
           TransferGasPayer
      [] type = TRANSFER_NON_FUNGIBLE_MULTI -> TransferMulti
      [] type = TRANSFER_NON_FUNGIBLE_MULTI_GAS_PAYER -> TransferMultiGasPayer
      [] type \in {MINT_FUNGIBLE, BURN_FUNGIBLE_GAS_PAYER} -> TxMsgMintFungible
      [] type = BURN_FUNGIBLE -> TxMsgBurnFungible
      [] type = MINT_NON_FUNGIBLE -> TxMsgMintNonFungible
      [] type = BURN_NON_FUNGIBLE -> TxMsgBurnNonFungible
      [] type = BURN_NON_FUNGIBLE_GAS_PAYER -> BurnNonFungibleGasPayer
      [] type = PHANTASMA -> TxMsgPhantasma
      [] type = PHANTASMA_RAW -> <<ByteArray>>

\* type, expiry, max_gas, max_data, gas_from, payload
HeadLayout == <<Byte, Integer(8), U64, U64, Bytes32, Text>>

\* A message: its head fields and the fields of its payload class.
Type(m) == m.head[1]
GasFrom(m) == m.head[5]

\* _payload_from_address
FromAddress(m) == m.body[2]

ASSUME TxAssumption ==
    /\ \A m \in Messages :
         /\ AreFields(HeadLayout, m.head) /\ Type(m) \in TxTypes
         /\ AreFields(Payload(Type(m)), m.body)
    /\ Keys \subseteq 0..Top
    /\ MaxWitnesses \in 0..Top
    /\ Losses \subseteq Nat \ {0}

-----------------------------------------------------------------------------
(* TxMsg and SignedTxMsg on the wire.                                      *)

Serialize(m) == Write(HeadLayout, m.head) ++ Write(Payload(Type(m)), m.body)

ReadMsg(s) ==
    Then(Read(HeadLayout, s), LAMBDA head, rest :
        If(head[1] \in TxTypes,
           Map(Read(Payload(head[1]), rest),
               LAMBDA body : [head |-> head, body |-> body])))

Signatures(ws) == Write([i \in 1..Len(ws) |-> Bytes64],
                        [i \in 1..Len(ws) |-> ws[i].signature])

\* A slip of PayerSigned: the payer's address is not compared.
PayerUnchecked(m, ws, n) == Len(ws) = n

\* The writer's check of the layouts that carry no addresses.
PayerSigned(m, ws, n) == Len(ws) = n /\ ws[1].address = GasFrom(m)

WriteWitnesses(m, ws) ==
    CASE Type(m) \in SingleWitness -> When(PayerSigned(m, ws, 1), Signatures(ws))
      [] Type(m) \in GasPayer -> When(PayerSigned(m, ws, 2), Signatures(ws))
      [] Type(m) \in WitnessArray ->
           Write(<<ListOf(<<Bytes32, Bytes64>>)>>,
                 <<[i \in 1..Len(ws) |-> <<ws[i].address, ws[i].signature>>]>>)
      [] Type(m) = PHANTASMA_RAW -> When(ws = <<>>, Written(<<>>))

\* SignedTxMsg.write_carbon
SerializeSigned(m, ws) == Serialize(m) ++ WriteWitnesses(m, ws)

Witness(address, signature) == [address |-> address, signature |-> signature]

\* Whose the second signature of a gas-payer layout is taken to be.
SecondWitness(m) == FromAddress(m)

ReadWitnesses(m, s) ==
    CASE Type(m) \in SingleWitness ->
           Map(Take(64, s), LAMBDA v : <<Witness(GasFrom(m), v)>>)
      [] Type(m) \in GasPayer ->
           Map(Read(<<Bytes64, Bytes64>>, s),
               LAMBDA v : <<Witness(GasFrom(m), v[1]), Witness(SecondWitness(m), v[2])>>)
      [] Type(m) \in WitnessArray ->
           Map(Read(<<ListOf(<<Bytes32, Bytes64>>)>>, s),
               LAMBDA v : [i \in 1..Len(v[1]) |-> Witness(v[1][i][1], v[1][i][2])])
      [] Type(m) = PHANTASMA_RAW -> Got(<<>>, s)

ReadSigned(s) ==
    Then(ReadMsg(s), LAMBDA m, rest :
        Map(ReadWitnesses(m, rest), LAMBDA ws : [msg |-> m, witnesses |-> ws]))

\* A slip of Deserialize: what is left over is ignored.
DeserializeLoosely(s) == ReadSigned(s)

Deserialize(s) == Whole(ReadSigned(s))

-----------------------------------------------------------------------------
NoMsg == [head |-> <<>>, body |-> <<>>]

Init ==
    /\ msg = NoMsg /\ witnesses = <<>> /\ issued = <<>>
    /\ wire = Refuse /\ arrived = <<>> /\ seen = Fails

Build(m) ==
    /\ msg = NoMsg
    /\ msg' = m
    /\ UNCHANGED <<witnesses, issued, wire, arrived, seen>>

\* One signature by k over serialize(msg), which raises if msg is not writable.
SignWith(k, ws) ==
    /\ msg # NoMsg /\ wire = Refuse
    /\ Serialize(msg).ok
    /\ issued' = Append(issued, [by |-> k, over |-> Serialize(msg).cells])
    /\ witnesses' = Append(ws, Witness(k, Len(issued) + 1))
    /\ UNCHANGED <<msg, wire, arrived, seen>>

\* sign_tx_msg: a SignedTxMsg with this witness alone, whatever the type.
SignTxMsg(k) == Len(issued) < MaxWitnesses /\ SignWith(k, <<>>)

\* A caller that makes a SignedTxMsg with several witnesses itself.
Cosign(k) == Len(issued) < MaxWitnesses /\ witnesses # <<>> /\ SignWith(k, witnesses)

Send ==
    /\ msg # NoMsg /\ wire = Refuse
    /\ SerializeSigned(msg, witnesses).ok
    /\ wire' = SerializeSigned(msg, witnesses)
    /\ UNCHANGED <<msg, witnesses, issued, arrived, seen>>

\* Whole, cut off after some bytes, or with a byte after the end.
Cut(s, n) ==
    {SubSeq(s, 1, n)} \cup
    (IF n < Len(s)
     THEN {Append(SubSeq(s, 1, n), [s[n + 1] EXCEPT !.w = @ - lost]) :
             lost \in {l \in Losses : l < s[n + 1].w}}
     ELSE {})

Arrivals(s) == {Append(s, [w |-> 1, v |-> 0])} \cup UNION {Cut(s, n) : n \in 0..Len(s)}

Receive ==
    /\ wire.ok /\ arrived = <<>>
    /\ \E s \in Arrivals(wire.cells) \ {<<>>} :
         arrived' = s /\ seen' = Deserialize(s)
    /\ UNCHANGED <<msg, witnesses, issued, wire>>

Next ==
    \/ \E m \in Messages : Build(m)
    \/ \E k \in Keys : SignTxMsg(k) \/ Cosign(k)
    \/ Send \/ Receive

Spec == Init /\ [][Next]_vars
-----------------------------------------------------------------------------
(* Properties.                                                             *)

\* A stream that lost or gained bytes on its way is never read as a
\* transaction.  (CarbonReader's bounds checks, read_length, assert_eof.)
IntactOrRefused == seen.ok => arrived = wire.cells

Meant(m) ==
    [head |-> MeantFields(HeadLayout, m.head), body |-> MeantFields(Payload(Type(m)), m.body)]

\* A transaction that arrives whole is read, and is the message that was
\* signed; each signature is the one given at its place.  An amount outside
\* Int256 is another one on the wire, or none that is read.
ReadAsSigned ==
    (arrived # <<>> /\ arrived = wire.cells /\ AmountsFit(Payload(Type(msg)), msg.body)) =>
        /\ seen.ok
        /\ seen.v.msg = Meant(msg)
        /\ [i \in 1..Len(witnesses) |-> witnesses[i].signature] =
           [i \in 1..Len(seen.v.witnesses) |-> seen.v.witnesses[i].signature]

\* Does the signature, as read, verify for the address it is attributed to?
Verifies(w, m) ==
    LET s == issued[w.signature]
    IN  s.by = w.address /\ Written(s.over) = Serialize(m)

\* Every signature that is read verifies for the address it is attributed to,
\* although most layouts carry no address; the one exception is a gas-payer
\* transaction the caller had cosigned by another than its from_address,
\* which the writer does not compare.
SignaturesVerify ==
    seen.ok =>
        \A i \in 1..Len(seen.v.witnesses) :
            \/ Verifies(seen.v.witnesses[i], seen.v.msg)
            \/ /\ Type(msg) \in GasPayer /\ i = 2
               /\ witnesses[2].address # FromAddress(msg)

-----------------------------------------------------------------------------
(* The sizes the fee estimator works with.                                 *)

\* A slip of EnvelopeBytesFor: an array without its length.
EnvelopeBytesNoLength(type, length, count) ==
    length + (IF type \in WitnessArray THEN 96 ELSE 64) * count

\* envelope_bytes_for
EnvelopeBytesFor(type, length, count) ==
    IF type \in WitnessArray THEN length + 4 + 96 * count ELSE length + 64 * count

\* An envelope measured with envelope_bytes_for is the size of the signed
\* transaction, to the byte: the native types with a signature or two, and CALL
\* and PHANTASMA with any number of witnesses.
EnvelopeExact ==
    (wire.ok /\ Type(msg) \in SingleWitness \cup GasPayer \cup {CALL, PHANTASMA}) =>
        Size(wire.cells) =
            EnvelopeBytesFor(Type(msg), Size(Serialize(msg).cells), Len(witnesses))

Fee == INSTANCE NativeFee WITH
          Bits <- 8, MaxShift <- 8, Configs <- {}, Requests <- {}, Usages <- {},
          quote <- msg, settled <- msg

Request(kind, count, rom_ram_bytes) ==
    [kind |-> kind, count |-> count, rom_ram_bytes |-> rom_ram_bytes, envelope_bytes |-> 0]

\* The estimator's request for a message of a native type.
FeeRequest(m) ==
    Request(CASE Type(m) = TRANSFER_FUNGIBLE -> "transfer_fungible"
              [] Type(m) = MINT_FUNGIBLE -> "mint_fungible"
              [] Type(m) = BURN_FUNGIBLE -> "burn_fungible"
              [] Type(m) = MINT_NON_FUNGIBLE -> "mint_non_fungible"
              [] Type(m) = BURN_NON_FUNGIBLE -> "burn_non_fungible"
              [] OTHER -> "transfer_non_fungible",
            IF Type(m) = TRANSFER_NON_FUNGIBLE_MULTI THEN Len(m.body[3]) ELSE 1,
            IF Type(m) = MINT_NON_FUNGIBLE THEN m.body[4].n + m.body[5].n ELSE 0)

\* The other kinds: a name is registered, a token or a series created with a
\* call (governance method numbers are not in the SDK), and a script rides
\* PHANTASMA.
KindsRiding(m) ==
    CASE Type(m) = PHANTASMA -> {"script"}
      [] Type(m) = CALL ->
           {k \in {"register_name", "create_token", "create_token_series"} :
              \/ k = "register_name" /\ m.body[1] = GOVERNANCE
              \/ k = "create_token" /\ m.body[1] = TOKEN /\ m.body[2] = CREATE_TOKEN
              \/ k = "create_token_series" /\ m.body[1] = TOKEN
                                           /\ m.body[2] = CREATE_TOKEN_SERIES}
      [] OTHER -> {}

DefaultEnvelope(kind) == Fee!Envelope(Request(kind, 1, 0))

-----------------------------------------------------------------------------
(* What the default envelopes hold.                                        *)

\* A message of a native type with one signature, whatever it carries: a
\* payload of up to 255 bytes, any amount, all its instances, its rom and ram.
NativeEnvelopesSuffice ==
    (wire.ok /\ Type(msg) \in SingleWitness) =>
        Size(wire.cells) <= Fee!Envelope(FeeRequest(msg))

\* The bytes of a message that its caller decides on: the payload, and the
\* arguments of a call, or the nexus, the chain and the script.
Freight(m) ==
    m.head[6].n + (IF Type(m) = CALL THEN m.body[3].args.n
                   ELSE m.body[1].n + m.body[2].n + m.body[3].n)

\* How much of that each default leaves room for.
Room(kind) ==
    CASE kind = "create_token" -> 3926
      [] kind = "create_token_series" -> 1878
      [] kind = "register_name" -> 342
      [] kind = "script" -> 860

\* The default of a kind that rides CALL or PHANTASMA is a constant: it holds a
\* message with one witness, and arguments that are plain bytes, up to that
\* size and not beyond it.
RidingEnvelopesBounded ==
    (wire.ok /\ Len(witnesses) = 1) =>
        \A kind \in KindsRiding(msg) :
            (Type(msg) = CALL => msg.body[3].sections = <<>>) =>
                (Size(wire.cells) <= DefaultEnvelope(kind) <=> Freight(msg) <= Room(kind))

\* What the estimator takes for the size of a signed transaction: its very
\* size, if the message was measured; a size that is enough, for each native
\* type with one signature; and for the kinds that ride CALL or PHANTASMA, one
\* that is enough exactly up to Room bytes.  (envelope_bytes_for,
\* _default_envelope_bytes.)
EnvelopesMeasured == EnvelopeExact /\ NativeEnvelopesSuffice /\ RidingEnvelopesBounded
=============================================================================
