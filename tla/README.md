# A TLA+ model of Phantasma-Py

Phantasma-Py is the Python SDK of the Phantasma chain: it builds VM scripts,
Carbon transactions and token metadata, signs and estimates them, and talks to
a node over JSON-RPC. This directory models the parts of it that keep state,
take steps, or have a reader on the other side whose understanding must agree
with what was written. TLC checks small instances; TLAPS proves six of the
components for every value of their parameters. `PROJECT.json` maps each
definition to the source lines it stands for.

The source is `src/src/phantasma_py/`; paths below are relative to it.

## 1. Inventory

### 1.1 The parts and what they keep

| Part | Code | State | Operations |
|---|---|---|---|
| Script builder, emitters and labels | `vm.py` 291-642 | a growing buffer, a map from patch offsets to labels, a map from labels to offsets, the first retained error | `emit*`, `emit_label`, `emit_jump`, `emit_call`, `to_script`, `end_script`, `end_script_with_error` |
| Script builder, calling helpers | `vm.py` 420-633 | none of its own; registers and the stack of the VM that runs the script | `call_interop`, `call_contract`, some thirty named helpers, the recursive argument loader |
| JSON-RPC client | `rpc.py` 745-900 | the shared counter `_next_id`, the session; per call a request, a response and the bytes read | `call`, `_read_response_text`, `_read_response_body` |
| Typed RPC methods and results | `rpc.py` 60-740, 880-1655 | result objects; `get_token_balance` changes one | one `call` each, the trimming of its parameters, and a decoding of its answer; the cursor of a listing; `to_gas_config`, `to_fee_estimate`, `decode_result` |
| Native fee estimator | `carbon.py` 2165-2420 | none; a quote outlives the call and is settled by the chain | `estimate_native_fee`, `envelope_bytes_for` |
| Carbon codec | `carbon.py` 80-360, 3400-3427 | a writer's buffer, a reader's position | fixed-width, length-prefixed, text, `IntX` and array fields |
| Carbon transactions | `carbon.py` 1547-2103 | `TxMsg`, `SignedTxMsg` with its witnesses | serialize, deserialize, `sign_tx_msg` |
| Module-call arguments, gas and chain configuration, token and market records | `carbon.py` 876-1545 | records | serialize and deserialize |
| VM values, schemas and token metadata | `carbon.py` 533-875, 2426-2594, 2917-3400 | schemas, dynamic values | schema builders, `verify_token_schemas`, metadata and ROM builders, coercion |
| Token transaction builders and result parsers | `carbon.py` 2104-2160, 2595-2890 | none | build a `TxMsg`, sign it, parse the hex of a call's result |
| VM-script transactions and their submission | `transaction.py`, `rpc.py` 1472-1504 | the `Transaction`: content, payload, signatures | `to_bytes`, `from_bytes`, `sign`, `is_signed_by`, `mine`, `send_raw_transaction`, `sign_and_send_*` |
| Binary codec, `VMObject`, `VmValue` | `binary.py`, `vm.py` 88-290, `vm_value.py` | reader position, value trees | `read`, `write`, `cast_to`, `as_*`; JSON to and from VM values |
| Extended events, special resolutions | `extended_events.py`, `special_resolution_arguments.py` | decoded trees | strict shapes with a fallback that keeps the JSON; the way back |
| Keys, addresses, hashes, text encodings | `crypto.py`, `encoding.py` | none | base-58, WIF and address texts, address kinds, Ed25519, SHA-256, hex |

### 1.2 How they interact

A script builder's result becomes the script of a `Transaction`; that is mined,
signed, serialized and handed to `JsonRpcClient.call`, whose request and answer
may be lost, late or mixed up, so callers retry. Several holders may sign one
`Transaction`: each passes its bytes to the next. Answers come back as JSON and
become result objects, some of which hold a VM object, an extended event or
the prices the estimator starts from. The other path builds a
Carbon `TxMsg`: its payload may hold a VM script, a module call whose arguments
are themselves Carbon records, or a token's schemas and metadata; the estimator
chooses `max_gas` and `max_data` from the sizes the codec will produce, so it
depends on the witness layouts; `sign_tx_msg` signs `serialize(msg)` and the
witness layout of the type decides which addresses travel with the signatures
and which the reader fills in. Nothing is persisted and no callback runs; the
only state that threads share is a client object, and in it only `_next_id` changes.

### 1.3 What is hard in it

* *Interleaving.* `_next_id` is read, read again and written without a lock.
* *A peer that misbehaves.* A response may be endless, cut off, not JSON, of
  another id, or both a result and an error; the connection must be released
  on each way out.
* *Deferred resolution.* Jumps are recorded with their labels as spelled and
  patched when a script is finished, possibly several times, with labels
  redefined in between. An error is retained while later calls still append;
  another kind of error is raised from the middle of an instruction.
* *A reader that sees less than the writer knew.* Most witness layouts carry
  no addresses, a token's metadata is read with schemas published earlier, a
  script is decoded by opcode tables.
* *Boundaries of width.* Compact integers change form at eight bytes, array
  indices need a sign byte, amounts saturate at 64 bits under two gas models,
  jump targets stop at 65535, registers at 31.
* *Retries.* Submitting again after a lost answer must not execute twice, for
  an object that each attempt signs again or that is mined in between.
* *Values that fall through.* A default that means "worst case" in one place
  and "nothing" in another; a value of the wrong type that becomes a default.
* *Answers of other versions.* A node may leave a member out, add one, write
  null, or dump a call it does not know; a price that is missing must not
  become zero, and a raw dump must not become an object with empty fields.
* *Paging.* A listing ends with an empty cursor, a null one or none, and a page
  is asked for again after a failure.
* *Texts people type.* An address text has no checksum.

`PROJECT.json` lists these as hazards with the line where each one bites and
the properties that would catch it going wrong.

### 1.4 What makes each part correct

* Script builder: a script that is handed out is the program that was asked for.
* Calling helpers: running it makes the calls asked for, with their arguments.
* Client: a call comes back, with a failure or the answer to that call.
* Estimator: an offer covers the bill of whatever stays within the quote.
* Transactions: what is read is what was signed, whole, and each signature
  verifies for the address it is attributed to.
* Metadata: what is read with the published schemas is what was supplied.
* Submission: one intention is executed once, however often it is sent.
* Hand-over: the next holder has the transaction whole, and knows who signed it.
* Answers: nothing the node answered is lost or made up on the way to the
  caller, and a walk through a listing ends with the rows asked for.
* Texts: a text that is accepted names one key or one address.

## 2. The modules

| Module | Models | Kind |
|---|---|---|
| `ScriptVM` | the instruction layouts, number encodings and the decoder the bytes are meant for | operators |
| `ScriptBuilder` | the builder, one action per emitter and finisher | state machine |
| `ScriptCalls` | calling helpers on top of the builder, and the VM that runs the script | extends `ScriptBuilder` |
| `RequestReply` | what a caller relies on: a call returns its own answer or fails | abstract specification |
| `JsonRpcClient` | `call`, step by step, for several threads and a hostile endpoint | state machine, implements `RequestReply` |
| `NativeFee` | the estimator, the chain's bill, and what lies between | state machine |
| `CarbonInt` | compact integers in two's complement | operators |
| `CarbonWire` | the codec: fields, layouts, writing and reading | operators |
| `CarbonTx` | messages, witnesses, signing, a stream that may be cut | state machine, uses `NativeFee` |
| `CarbonValues` | schemas, dynamic values and structs on the wire | operators |
| `CarbonCalls` | the records that calls and answers are made of, the token builders | state machine, extends `CarbonTx` |
| `TokenMetadata` | schemas published, metadata built and read with them | state machine |
| `TxSubmission` | building, mining, signing, submitting and retrying | state machine |
| `BinaryCodec` | numbers, lengths, byte arrays and texts, written one after another and read off the front | operators |
| `KeysAndAddresses` | base-58, addresses and WIF texts | operators |
| `TxExchange` | holders passing on the bytes of a transaction, and entering texts | state machine, extends `TxSubmission` |
| `VMObjects` | the VM's values: binary form, reading, writing, casts | operators |
| `WireShapes` | JSON values, VM values in them, the strict decoder of shapes | operators |
| `ResolutionArguments`, `ExtendedEvents` | the shapes of call arguments and events, and the fallback | operators |
| `RpcResults` | the result classes and their lenient decoder | operators |
| `RpcMethods` | the typed methods: their requests, and how each answer is decoded | operators |
| `RpcAnswers` | a program that calls a typed method and uses its answer | state machine |
| `ScriptBuilderProofs` | theorems about `ScriptBuilder`, and about the decoder of `ScriptVM` | proofs |
| `ScriptCallsProofs`, `ScriptRunProofs` | theorems about `ScriptCalls`, over those of the builder; the second extends the first | proofs |
| `JsonRpcClientProofs`, `NativeFeeProofs`, `TxSubmissionProofs` | theorems about these components | proofs |
| `TxExchangeProofs` | theorems about `TxExchange`, over those of `TxSubmission`, with those about `BinaryCodec` and `KeysAndAddresses` | proofs |
| `CarbonTxProofs` | theorems about `CarbonTx`, with those about the numbers of `CarbonInt` and the fields of `CarbonWire` | proofs |
| `MC*` | the instances for TLC | instances |

Composition: `ScriptCalls` extends the builder it calls; `CarbonTx` instantiates
`NativeFee` to compare the estimator's sizes with the codec's; `CarbonCalls`
extends `CarbonTx`, which carries a builder's call to the contract that reads
its arguments; `TokenMetadata` reaches the codec through `CarbonValues`;
`JsonRpcClient` instantiates `RequestReply` under a refinement mapping;
`TxExchange` extends `TxSubmission` and `KeysAndAddresses`, and writes its
transactions with `BinaryCodec`, which `KeysAndAddresses` and `VMObjects`
extend; `RpcAnswers` extends
`WireShapes`, `ResolutionArguments`, `ExtendedEvents`, `RpcResults` and
`RpcMethods`, one above the other, and instantiates `VMObjects`.

In several modules a definition is followed or preceded by *a slip of* it: the
same operator with a plausible mistake (a dropped guard, an offset one byte
off, a missing sign byte). No specification uses a slip. Substituting it for
the definition makes the property named in `PROJECT.json` fail, which shows
that the property depends on that line of the code.

### 2.1 ScriptVM, ScriptBuilder

State: `buffer` is `_writer`'s bytes, `jumps` is `_jump_locations`, `labels` is
`_label_locations`, `error` is `_error`; `result` is what the last call gave
its caller. History: `prog`, the instructions asked for, and `taint`, which
says whether raw bytes were written or an exception left a method half way.
A byte is 0..255; a digit of a two-byte number is below `Base` (256 in the
code, 4 in the runs), so the overflow of jump targets and the long form of a
length prefix are reached by scripts of a dozen bytes. `Instruction` follows
`emit` and `_byte`: an operand out of range raises *after* the opcode and the
operands before it were written, while `_fail` retains its message and writes
nothing. `PatchError` follows the loop of `to_script` in the order of offsets.
The VM is not in the repository; its decoder is read off the builder's layouts.

### 2.2 ScriptCalls

`LoadIntoRegister` is `_load_into_register`: an array takes its register and
the two above, its items are put under number keys whose bytes come from
`_big_int_to_csharp_bytes`. The recursion over an argument is a recursive
function of `Places`, the pairs of a register and an argument: each array around
an item takes one register, so the register is also the depth. `Values` are the
arguments passed and `Arguments` those and the items in them. An index is a
number of one or two bytes (`CallsAssumption` bounds an array accordingly, at
32768 items for `Base` = 256); the code has no such limit.

`ExecutesRequestedCalls` runs the decoded script (`Run`, `Exec`) on a model of
registers and one stack, and compares the calls it makes with `Meant`, the calls
that were asked for. The VM stops at the first RET, so the property is about a
builder that was not used on after `end_script` (`EndedOnce`). `emit_load`'s
failures are collected, as in the code, while everything around them is still
written.

### 2.3 JsonRpcClient and RequestReply

One action per step of `call`: two reads and a write of `_next_id`, the post,
the headers, each chunk, the end of the body, the `finally`, the verdict. The
endpoint chooses any response to any request it has seen, of any length and
any of the shapes the code tells apart. `TransportError` is `session.post`
raising; `StreamError` is a failure while the body is read.

### 2.4 NativeFee

`Estimate` is `estimate_native_fee` with every term under both gas models;
`Settle` is the chain's bill for a transaction that used no more than was
quoted. Integers have `Bits` bits and saturate (64 in the code; 17 in the runs,
where a few thousand bytes at 25 units per byte reach the top).

### 2.5 CarbonInt, CarbonWire, CarbonTx

A stream is a sequence of cells, a cell being some bytes of one field with
their width in bytes; so a field can be cut between any two of its bytes while
its content stays one value. A layout is a sequence of field kinds, and
`Write` and `Read` interpret it; every payload class of the code is a layout.
A field is an *item* (a number, bytes, a text, an amount, a call's sections) or
a list of objects, whose fields are items. What is written one after the other
is a row (`WriteRow`); what is read so, a row of readers (`ReadRow`), a reader
being a function of the stream; an array is `Repeat`. `WriteWitnesses` and
`ReadWitnesses` are the three layouts of `SignedTxMsg`. Signatures are indices
into `issued`, which remembers who signed what. `Receive` hands the reader the
stream whole, cut, or with a byte added. A cut takes off whole cells and then
any of `Losses` bytes of the next one. `AmountsFit` says that every amount of a
message is inside Int256; others wrap or are refused.

`CarbonCalls` gives each argument and configuration class as the sequence of its
field kinds; `GasConfig` and `TokenInfo` have a second part that a version or a
flag in the first announces. `record` is the object written, `image` its bytes,
`handed` what its reader gets and `made` what the reader makes of it. A token
builder puts an image into a call message, `CarbonTx` signs, sends and cuts
it, and `Execute` reads it with the class of the method it was sent to;
`Fetch` is the other direction, a record of the chain read by the SDK.

### 2.6 CarbonValues, TokenMetadata

The type codes, flags and the three ways a value is written (typed, dynamic,
static with the default for a value of another type) follow `VMDynamicVariable`.
Metadata values are Python objects by kind (integer, text, bytes, mapping, SDK
struct, ...); coercion is `_coerce_metadata_value` with its helpers. Texts are
blobs with an identity and a length, some of them hex, some blank. `published`
is what a reader of the chain has; `ReadBack` decodes with it.

### 2.7 TxSubmission

`tx` is a `Transaction` that is kept between attempts, `attempts` are the calls
to the node, `chain` those the chain executed. The chain takes a transaction
once, while it has not expired and the sender has signed it. The hash leaves
signatures out, `mine` starts from the payload the transaction has, and
`sign_and_send_transaction` builds a new transaction for each call.
`Writable` is the range check of `to_bytes`, which every call that needs the
bytes makes before it changes anything.

### 2.8 BinaryCodec, KeysAndAddresses, TxExchange

`BinaryCodec` is `binary.py`: a length is one byte, or a marker and two, four
or eight bytes, and is refused above `MaxArraySize`. A text is written as the
bytes of its characters; `FromUtf` takes them off the front again.

Bytes are digits of `Base`, texts are sequences of characters over an alphabet
of `Alphabet`'s length; base-58 is the conversion between the two, with the
zeros in front kept one for one. Texts are typed with `Letters`, of which the
alphabet is a part; `Entries` are the texts a holder may type, each with what it
is the text of, if anything. `HandOver` writes the transaction with
`ToBytes` and reads what arrives with `FromBytes`; `TakeUp` goes on with the
transaction read. `Enter` is a key or an address typed in. A signature is bytes
that tell its key and the content it covers, so `VerifiedBy` is
`Ed25519Signature.verify` under the assumption that Ed25519 does what it
promises. A WIF checksum is one byte computed from the payload.

### 2.9 VMObjects

An object is its type and its data, a struct the pairs of its dictionary in
their order. `ReadObject` follows `VMObject.read` branch by branch, the read of
an OBJECT that becomes BYTES included; `CastTo` follows `cast_to` and the four
`as_*` methods. UTF-8 and UTF-16 are tables over a few characters, one of two
bytes and one of a surrogate pair among them.

### 2.10 WireShapes to RpcAnswers

JSON values are tagged tuples. A shape maps the wire names of a dataclass's
fields to their types; `Fits` says that `decode_shape` raises no
`ShapeMismatch`, `Read` gives what it returns, and `Written` is
`shape_to_wire`. The table `ARGUMENT_SHAPES` has the calls of the code's table,
one for one. `RpcResults` has the classes of `rpc.py` that a method returns,
decoded by the lenient `_decode_dataclass`, which checks no scalar: `Raises`
says which exceptions may leave it, `Taken` what it returns. A method is its
parameters, how its answer is decoded and the class of the result.

`RpcAnswers` runs one method: `Send`, the node's `Answer` or a failure, the
decoding, and then what a program does with the result: `LookUp` for an
account, `ReadResult` and `Cast` for a script's result, `Convert` for prices,
and `TakePage` for a listing, which sends the next request with the cursor it
got. The node reads parameters by their place.

## 3. The runs

All with `tlc -workers 2 -config <cfg> <module>`.

| Run | Configuration | What it shows |
|---|---|---|
| `script_builder` | `MCScriptBuilder.cfg` | every order of three emitter calls with operands on both sides of each limit, and of five calls of labels, jumps and loads, with labels redefined, spelled in another case, missing, and beyond the address space: reserved bytes never overlap and labels follow their NOP (`PatchTable`), patching touches only what was reserved, jumps land after their label, a returned script is the program, the first error is the one reported |
| `script_calls` | `MCScriptCalls.cfg` | up to two calls and the end, two arguments each, nested arrays up to and beyond the register limit: running the script makes the calls asked for |
| `one_caller` | `MCOneCaller.cfg` | one thread, three calls: own answer, and the refinement of `RequestReply` with its liveness |
| `two_callers` | `MCTwoCallers.cfg` | two threads, a call each: a result is only accepted with the id that call sent, responses are closed on every way out, every call returns |
| `native_fee` | `MCNativeFee.cfg` | all kinds of operation under 24 configurations, with usages at the rounding boundaries: the offer covers the bill, and is one the chain admits |
| `fee_defaults` | `MCFeeDefaults.cfg` | *violated:* finding 1 |
| `carbon_tx` | `MCCarbonTx.cfg` | all seventeen payloads with boundary values, one or two signatures, every field cut off whole, or short by one or seven bytes, and one extension; calls made by hand and by the builders, read by their contract; records of every class fetched whole, cut and extended, in both versions; the sizes the estimator assumes (`EnvelopesMeasured`) |
| `token_metadata` | `MCTokenMetadata.cfg` | a field of every VM type, with every kind of value, through each builder; a token's own metadata |
| `loose_values` | `MCLooseValues.cfg` | *violated:* finding 2 |
| `tx_submission` | `MCTxExchange.cfg` | a transaction mined, signed and handed on in any order, its bytes whole, cut anywhere or one longer; every address and key text with one character more, less or another; then two submissions of one script in any order around it |
| `rpc_answers` | `MCRpcAnswers.cfg` | every typed method with all its arguments, without the optional ones at the end, and with only the last of those, answered with a full object, with one member missing, null, of another type, renamed or new, and with something else; submissions answered with hashes, errors and both; every event and call shape; every VM object whole, cut, extended and cast twice; prices of both versions with one bad; a listing walked with failures |
| `newer_node` | `MCNewerNode.cfg` | *violated:* finding 3 |

### 3.1 Bounds

* `MaxCalls` (builder): three calls of any kind; the state constraint
  `JumpScript` lets only scripts of labels, jumps and loads go on to five. An
  error needs a failing call, a call after it and the end; a redefined label
  needs a jump, two labels and the end. `Base` = 4 brings every numeric limit
  within those calls; the operators take no decision on `Base` itself. The
  lengths given to `emit_var_bytes` are one of each form, and one on each side. With it,
  a script of more than 15 bytes holds a target that does not fit its operand.
* `MAX_REGISTER_COUNT` = 5 in `script_calls`: arrays fit at depth 3, not at 4.
* `MaxCalls` (client): three calls of one thread, so that a stale answer can be
  one or two calls old; one call of each of two threads, which race on the
  counter and may send the same id. What holds for more calls of more threads
  is the subject of the proofs. `max_response_bytes` and `MaxChunk` are such
  that a body can end below, at and above the limit, in one chunk or several.
* `Bits`, `MaxShift` (fees): 17-bit amounts; TLC computes with 32 bits, and
  products stay below that. The configurations cross both gas models with no
  scaling, scaling up and down, a shift as wide as the amounts, and a minimum
  bill above most bills; some prices are odd, so that halving them rounds.
* `Base` = 4, two digits for eight bytes and eight for 32 (Carbon): the
  boundary between the two forms, and that of Int256, are each met on both sides.
* The amounts of `carbon_tx` are next to zero, to the eight-byte limit, to the
  limits of Int256 and to those of 256 bits without a sign, on both sides.
* `Losses` = {1, 7}: of a cell that is cut, the last byte is missing, or all
  but one of a field of eight. Cells that are missing whole are not bounded.
  The theorems of 4.6 are about every set of losses.
* `MaxWitnesses` = 2: no layout but the array holds more, and the array is
  written element by element.
* `Kept`, `Supplied`, `Orders` (records): one record of each class with values
  next to a boundary, both versions of a gas configuration, tokens with and
  without schemas; a record that is cut is refused at every byte.
* `Base` = 16, `AddressBytes` = 4, `HashBytes` = 3 (answers): a length of 13
  takes the longer form, and an object of 14 bytes has it; numbers stand on
  both sides of each sign byte. `NumberBytes` = 4 keeps TLC's integers below
  32 bits. `MaxCasts` = 2 is there and back; `MaxLookups` = 3 a symbol that is
  there, one that is not, and one of them again; `MaxFailures` = 2 is a page
  asked for three times; pages of two rows out of three or four.
* `Base` = 16 and an alphabet of six (texts): a public key of two bytes, a
  private one of one, one key with a zero in front, so that every part of a
  text can be off by one; the alphabet holds all three prefixes and "1". The
  script of 13 bytes has a length of the longer form. `MaxArraySize` is 64,
  above every length that is written and below some that a damaged stream
  announces. `Letters` are the alphabet, "0", which is outside it, and what
  null is spelled with. `MaxExpiration` is 65535,
  with one expiration beyond it. Bytes are handed on, and texts entered, before
  the first submission only: what follows does not look at either.
* `MaxNonce`, `MaxTime`, `MaxSignatures`, `MaxAttempts` (submission):
  two attempts are a call and its retry, and the third signature is one that
  neither made. A transaction that was mined may be executed twice, so with two
  attempts the run shows `BuiltExecutedOnce` for one that is signed again, not for
  one mined again; the theorem `BuiltAlwaysOnce` has any number of attempts;
  the clock passes the expiration; four nonces hold one that does
  for the smaller difficulty only and one that does for both.

`CHECK_DEADLOCK FALSE` is set everywhere because each specification ends: a
client's thread has made its calls, a builder's caller stops, a message has
arrived.

### 3.2 Fairness

`JsonRpcClient` states weak fairness of `Step(t)`, the steps of a
thread that is *inside* a call. Python threads are scheduled, and a wait for
the network ends because `session.post` is given a timeout, which also bounds
the wait between two reads. Starting a call is not fair: a caller may stop.
The endpoint is not fair either; it need not answer, nor end its body. That a
call returns all the same rests on the size limit, and `CallsReturn` fails if
the limit is dropped.
The timeout is 30 seconds unless the constructor is given another one.

The fairness condition is on the thread, not on each action: `ReadChunk` is
not obliged to be followed by `EndOfBody`.

`RpcAnswers` states weak fairness of `Walk`, the steps of a program that walks
through a listing: the program goes on, each of its calls returns (`CallsReturn`
of the client), and calls fail `MaxFailures` times at most. `WalkEnds` says
nothing of a node that fails for ever.

### 3.3 Findings

1. *An unsafe default.* `estimate_native_fee`'s docstring calls its defaults
   safe; with the default `symbol_length` the price of the symbol is left out.
2. *Loose values.* `docs/carbon.md` says schema types are validated before
   serializing; inside an SDK struct, or in a `Dynamic` field, a value of
   another type is silently replaced by a default.
3. *A newer node's members.* `special_resolution_arguments.py:16` says data
   answered by a newer node is "never silently lost"; `decode_shape` ignores the
   members that no field declares, so arguments or data that match a modelled
   shape and have one member more lose it.

Four more disagreements are stated by what the properties say of the code, and
have no run of their own.

* *Transport failures.* `docs/rpc.md` says transport failures raise `RPCError`;
  `session.post` is outside the `try`, so they leave `call` as exceptions of
  requests (`TransportError`, whose outcome is of a kind of its own).
* *Envelopes that are too small.* `_default_envelope_bytes` calls its defaults
  "conservative single-witness envelope defaults per kind". That of
  CREATE_TOKEN, CREATE_TOKEN_SERIES, REGISTER_NAME and SCRIPT is a constant,
  and a call's arguments or a script have no largest size: `EnvelopesMeasured`
  says up to how many bytes each is enough, and that it is not beyond (a token
  with an icon of 4000 bytes is).
* *Special resolutions that do not match.* `extended_events.py:17` says a
  payload that does not match its shape falls back to the raw carrier;
  `SpecialResolutionData.from_wire` and `SpecialResolutionCall.from_wire` read
  what they can, and put 0, None or an empty list for the rest. `AnswerKept`
  says for which members (`EnvelopeKept`, `ResolutionKept`).
* *A price that is no number.* `to_gas_config` says it raises `RPCError` on
  malformed numeric strings. `isdigit` is true of a superscript two, `int` is
  not able to read it, and the caller gets a `ValueError`. `PricesKept` says
  which failures are no `RPCError` (`Unforeseen`).

Some limits of the checked properties are worth knowing; they are what the code
does, and the properties leave them out by name.

* `DecodesToProgram` holds for a caller who saw no exception. An operand outside
  0..255 raises from `write_u8` after its opcode was written, and unlike the
  failures that go through `_fail` it is not retained: a caller who catches it
  and goes on gets, from `end_script`, a script in which later bytes are taken
  for the operands.
* An amount outside Int256 but of at most 256 bits is written modulo 2^256
  (`_big_int_word`, `carbon.py:3400`). It is read as another amount, or it is
  refused by the reader (`IntXValue`), so the transaction cannot be read;
  `ReadAsSigned` is about messages whose amounts fit. `IntactOrRefused` and
  `SignaturesVerify` are about the others too: what is read of them is read
  from the bytes that were signed.
* `build_series_info` writes the standard series fields whatever the schemas
  declare; `IdentityKept` is about the series that have them.
* `CastsAgree` leaves out an empty text cast to a struct, which has no units
  to come back from, and the number of a time from 2038 on, whose four bytes
  are read with a sign.
* An OBJECT that is no address comes back from its bytes as BYTES, with the
  inner length in front (`vm.py:120`); so the 32-byte branch of `as_number` is
  never taken for an object that was read. `ObjectsKept` states it.
* `AnswerKept` lets typed data and arguments lack the members of finding 3
  (`NewMembers`); what is carried raw has them. A null may come back as an empty
  text or list.
* A submission answered with a null hash gives the text `None`, which `AnswerKept`
  states. A text answered for a list of texts becomes the list of its characters;
  no answer of the run has one.
* `LookupsKeepAmounts` is about looking symbols up. The zero row that a lookup
  appends stays in `balances`, where a program that goes through the list finds it.
* `TextsNameOne` is about the three kinds an address may have. One of the kind
  INVALID prints a text beginning with "P" that `from_text` refuses. An address
  text has no checksum, so a mistyped one of the right length and kind is accepted.

## 4. Proofs

Assumptions are the named `ASSUME`s of the modules; they say no more than the
sets the parameters range over and the limits the code's constructors enforce.
TLC evaluates each on every run.

### 4.1 ScriptBuilder (`ScriptBuilderProofs`)

For every set of labels, operands, payloads, any number of calls, any digit
base up to 256:

* `TypeCorrect`, `PatchTableSound`: the two parts of the inductive invariant
  `IInv`, the type of the state and `PatchTable`. They are proved together:
  that two jumps do not overlap rests on every earlier one ending inside the
  buffer, and that a label keeps its NOP on jumps reserving only bytes that
  were appended after it.
* `NeverBadOffset`: follows from `PatchTable`; the error branch is dead.
* `PatchFrameAlways`, `JumpsAlwaysLandInside`: from `Finished`, which ties a
  finished script to the buffer it was made from, and is shown over `IInv`.
* `FirstErrorAlways`: a retained error stays, and is what a finisher reports.
* `AlwaysDecodes`: a returned script decodes to the program asked for, jumps
  with their labels' addresses filled in, unless `taint` says otherwise.

Most actions only append to the buffer, so one lemma (`AppendsPreserves`)
carries them; labels, placeholders and the finishers have one lemma each.

`AlwaysDecodes` needs to know where each instruction lies, which no variable
says. `LayoutAlways` is that invariant: there are offsets `at` at which the
encodings of the instructions of `prog` are spelled in the buffer, one after
the other and filling it; the patch table holds exactly the last two bytes of
the instructions that jump, each with its label; and an entry of the label
table is the end of the instruction that defined the label last. `Grow` is its
step for one more instruction, whatever it is; each emitter is then shown to
append the encoding of the instruction it was asked for. The finisher's patches
(`PatchedHolds`) change the placeholder of one instruction and no other byte.

The decoder is a recursive function of the offset. Its existence is proved by
induction in the form of a set (`NumberInduction`: a set of numbers with 0 and
the successor of each member is all of them), the set of the sizes up to which
it exists (`Fixpoint`), because `DecodeAt` always goes forward; that it reads
back the layout is the same induction over the instructions (`DecodesChain`).

### 4.2 ScriptCalls (`ScriptCallsProofs`, `ScriptRunProofs`)

For any arguments, arrays nested to any depth, any number of calls in any order,
any size of the register file from 3 on, any digit base:

* `BadArgumentsAlwaysRefused`: an argument that cannot be loaded, at any depth,
  keeps the script from being returned.
* `RegistersAlwaysInFile`: a returned script names only registers of the file.
* `AlwaysExecutesRequestedCalls`: running a returned script makes exactly the
  calls asked for, in order, each with its arguments.

*What is written.* A method writes a piece: bytes, the instructions they are,
and an error or none. `Whole` says that the bytes are the encoding of those
instructions wherever they are appended, and that the instructions are of the
kinds that calls are made of, with registers of the file. A piece of one
instruction is whole (`EntryWhole`), two whole pieces one after the other are
(`ChainedWhole`), hence the code of an array, of an argument, of a call
(`InteropWhole`, `ContractWhole`). `Known` is the invariant: that of the builder,
its layout, and `CallInv`: the instructions are of those kinds, and while no
error is retained every argument passed could be loaded.

*Recursion.* The loader, the value an argument stands for and whether it can be
loaded are recursive functions of `Places`. That such a function exists
(`LoadedIs`, `DenotedIs`, `FittingIs`) is shown by approaching it: the set of the
numbers m for which some function is right on the m highest registers holds 0 and
the successor of each member. What is true of every place (`Settles`,
`StaysFaithful`) follows by the same descent through the registers.

*What is run.* One lemma for each instruction says what it makes of a machine
(`LoadRuns` to `SwitchRuns`); `RunBoth`, that code run after other code goes on
where that one stopped. `Loads` says of a piece that it puts a value into its
register and leaves the registers below alone, which is what an outer array needs
of an inner one (`PutLoads`, `ArrayLoads`, with `NumberBytesFacts`: the bytes of an
index stand for that index). `ArgsRuns` is the same for the arguments on the
stack, and `InteropRuns` and `ContractRuns` for a call. The invariant `RunInv`
says that as long as no error is retained and no RET written, running what has
been written makes the calls asked for so far and leaves the stack empty, ready
for the next. `ReturnedRuns` takes it to the decoded script, through the decoder's
theorem of 4.1.

### 4.3 JsonRpcClient (`JsonRpcClientProofs`)

* `TypeCorrect`, `AcceptedAlwaysMatches`: for any number of threads. `IInv`
  adds to them `Begun`, that a thread inside a call has begun one.
* `IdsAlwaysUnique`, `AlwaysOwnAnswer`: under `OneCaller`. The strengthening
  `IdInv` follows the id through `call`: the counter is above every id sent;
  between the read and the write of it the id in hand is the counter; until
  the post that id is above every id sent; after it, the request is among
  those sent. No run checks uniqueness by itself; `OwnAnswer` fails without it.
* `CallsImplementService`: initial states and steps map to those of
  `RequestReply`; each step is a step of the service or a stutter. The
  liveness half of the refinement stays with TLC.
* `ResponsesAlwaysClosed`: for any number of threads, a response is open
  exactly while its call reads it, on each way out.

### 4.4 NativeFee (`NativeFeeProofs`)

* `OfferAlwaysCovers`, `OfferAlwaysAdmissible`: for every width, configuration,
  request and usage. The argument is monotonicity: of multiplication, of the
  quotient by a power of two, of saturation, and hence of each billing formula
  in the sizes it is given; `Within` says the usage is below the sizes of the
  offer. `FeeInv` ties a quote to the request and configuration it was made for.

### 4.5 TxSubmission (`TxSubmissionProofs`)

For any keys, expirations and difficulties, any amount of work for each nonce,
any number of attempts, in the module's own specification:

* `SignersAlwaysKnown`: `is_signed_by` tells who signed the transaction as it
  is. The invariant `SignersListed` says that the signatures that a transaction
  carries are all that were made, those undone by mining included.
* `WorkAlwaysKept`: mining for less and signing keep the work.
* `FreshAlwaysOnce`, `BuiltAlwaysOnce`: what is submitted again is executed
  once. `ExecutedDiffer` says that the chain takes no hash twice. From
  `FreshContents`, two calls with one expiration made the same hash; from
  `OneTransaction`, the submissions of a built transaction differ in their
  payload at most, which is 0 or the least nonce for a difficulty that was asked
  for, so that there are no more executions than difficulties and one.

The run checks the same properties on `TxExchange`, which adds the holders;
`ExchangeImplements` of 4.7 makes the theorems hold there too.

### 4.6 CarbonTx (`CarbonTxProofs`)

For any set of messages of the seventeen types (`TxAssumption`: their fields
have the types that the dataclasses declare, while numbers may be of any size),
any keys, any number of witnesses, any losses, any base and number of digits
for which eight and 32 bytes are a whole number of digits
(`CarbonIntAssumption`):

* `NothingElseRead`: a stream that lost or gained bytes is not read.
* `TransactionsRead`: a transaction that arrives whole is read as it was signed.
* `SignaturesKept`: a signature verifies for the address it is attributed to.
* `EnvelopesHold`: the sizes that the estimator assumes. Measured with
  `envelope_bytes_for`, the envelope is the size of the signed transaction, for
  the native types and their gas-payer forms, for CALL and for PHANTASMA. The
  default is enough for a native type with one signature, whatever it carries.
  For the kinds that ride CALL or PHANTASMA with one witness it is enough exactly
  as long as the payload and the arguments, or the payload, nexus, chain and
  script, are at most `Room` bytes: 342 for a name, 3926 for a token, 1878 for a
  series, 860 for a script; arguments in sections (`MsgCallArgSections`) are not
  in the statement. That the room is limited at all is told in 3.3.
* `TxAlways`: the inductive invariant `TxInv` they follow from. It has to say
  what the properties do not: a witness is a signature of its own address over
  the message as it is now, what was sent is the serialization of message and
  witnesses, and what is seen is what `Deserialize` makes of an arrival. It
  says `IsMessage(msg)`, not that the message is one of `Messages`.

*Numbers.* `PowerFunction` to `WordFacts` are about the powers of the base;
`BigIntPacked`, that the fewest digits are chosen that hold the number;
`SafeIntXRead` and `BigIntXRead`, what each form is read as; `IntXExact`, that
an amount that fits is read as it was; `IntXAgain`, that whatever is read of
an amount is written as the same bytes again, which the signature rests on.

*Streams.* `IsCut` says that a stream is a proper part of another. A part of
two streams, one after the other, is a part of the first, or the first and a
part of the second (`CutOfParts`). `Reads(f, c, v)` says that a reader makes v
of the cells c whatever follows them, leaves what follows, and fails on every
part of c; `Refuses(f, c)`, that it fails on c and on its parts. One or the other is
shown of each kind of field, then of rows of them (`RowReadsIf`, by induction over the
row in the form of a set of numbers), so of items, lists, objects, messages
and the three layouts of witnesses (`ItemReads` to `WitnessesReads`). A length
is checked against the bytes that are left; that an array is read at all needs
that each of its objects takes a byte at least (`RowAtMost`, with `Layouts` for
the lists of the payload classes).

*Delivery.* `Delivered` puts it together: of all arrivals, the reader takes
only the whole one. `SignedReadOf` is what it makes of it: for
`TransactionsRead` it is the message that was meant (`ObjectExact`); for
`SignaturesKept` it serializes to the bytes that were signed (`MsgAgain`), also
where an amount wrapped. The sizes are counted piece by piece (`RowSizes` to
`BodySizes`) and compared with both estimates.

The theorems are about the module's own specification. The run checks the same
properties under `CallSpec`, which adds the messages that the token builders
make and the records inside calls; that those messages are of the type
`TxAssumption` asks for stays with TLC.

### 4.7 TxExchange (`TxExchangeProofs`)

For any number of holders and hand-overs, any base above 4, any script, payload,
names and characters, and for texts of any length over any alphabet:

* `ExchangeImplements`: `ExchangeSpec => Spec`. What holders do who hand a
  transaction over, and go on with what they read, one holder may do; so the
  theorems of 4.5 are about the holders as well.
* `AlwaysHandedOverWhole`: what `to_bytes` wrote is read by `from_bytes` as the
  same transaction; a part of it, or it with a byte added, is refused.
* `SignersAlwaysRecognised`: of what was read, `is_signed_by` is true for the
  address text of a key exactly if that key signed the transaction as it is, and
  false for an address of another kind with the same key.
* `TextsAlwaysNameOne`: a text that is accepted is the one text of what it is
  read as, the null address apart, and the text of a key or of an address is
  read as that; an address of the kind INVALID is refused.

`ExchangeAssumption` has what the argument needs of the constants. Lengths are
within `MaxArraySize`, and that, the expirations, nonces and numbers of
signatures are below 2^32; the bytes of one character do not begin with those of another, which
UTF-8 is made for; different keys have different public keys; the characters of
the alphabet differ, and a text for "no address" does not begin like an address.
One part is a restriction: the caller's payload is not the four bytes that `mine`
writes for a nonce. With such a payload a signature made before mining would
cover the transaction after it.

*The invariant* `ExchangeInv` adds three parts to that of 4.5. `InBounds`: every
signature covers a content with the expiration the transaction has; without
it an earlier expiration, too wide for four bytes, might be one that a signature covers,
and two contents would be signed over the same bytes. `MailIsOfNow`: what is in
the mail is the transaction as it is now, as it was damaged on the way, and
what `FromBytes` makes of it, because every other action empties the mail.
`EntryIsRead`: the same of the text entered last. `TakeUp` is then a stutter of
`Spec`: what was read is `tx` (`MailRestored`), and in general
`ExchangeStepIsStep`.

*Numbers.* The recursive functions of the codec exist by induction in the form
of a set (`Recursion`, `Made`); division gives digits, and the digits give the
number back, with as many zeros as are asked for (`DigitsOfNumber`,
`ZerosInFront`, `LittleEndianBack`). So a change of base and back is the
identity on bytes and on texts, zeros in front kept (`ConvertedBack`,
`Base58Back`, `Base58Text`); with the prefixes, lengths and checks around it
this gives `AddressRead`, `AddressOfText`, `KeyRead` and `KeyOfText`.

*Fields.* Each form of a length, a byte array, a text and a signature is shown
to be read back whatever follows it, and no part of it to be read
(`UintIsRead`, `BytesAreRead`, `TextBack`, `SignatureField`). `RowIsRead`
carries that to the fields of a transaction one after the other, and
`SignaturesAreRead` to the signatures behind them; `WholeIsRead` and
`ArrivalsRead` put them together. `MessageTells`: different contents are signed
over different bytes.

### 4.8 Checked and not proved

* The records inside calls (`RecordsAsSupplied`), metadata (the four properties
  of `TokenMetadata`) and answers (the six of `RpcAnswers`): what is written
  and read there is nested to any depth, and these modules (`CarbonValues` and
  its users, `VMObjects`, `WireShapes`, `RpcResults`) follow it with recursive
  operators, which the prover cannot take.
* Liveness: `CallsReturn`, `WalkEnds`, the liveness half of the refinement.

## 5. Not modelled

* Result classes that no method returns (`CrowdsaleResult`, `DappResult`,
  `ChannelResult`, `ReceiptResult`, `PeerResult`, `ValidatorResult`,
  `SwapResult`), `convert_decimals`, and the flags read from a token's text.
* Numbers: JSON's infinities and fractional counters, and what `int()` makes of
  blanks, underscores and a plus sign. A `Decimal` of other digits is there.
* The base64 text of a struct is not cast further.
* `crypto.py`, `encoding.py`: hexadecimal texts, `Address.from_hash`,
  `from_public_key` for keys of 33 and 64 bytes. That Ed25519 and SHA-256 do
  what they promise is assumed.
* Carbon: the packing of NFT addresses and instance ids (`get_nft_address`,
  `unpack_nft_instance_id`), the letters `check_token_symbol` allows (its
  limits of length are there), schemas from JSON text.
* `__init__.py`, `_version.py`, `errors.py`: names, a version, classes of
  exceptions. Nothing in them changes state.
* The node, the chain and the network: modelled as what may happen to a
  request and as the rules the code relies on (a bill is computed with the
  mirrored formula; a transaction is executed once and before it expires;
  parameters are read by their place).
* Wording of errors, logging, `repr`.

## 6. Plan

Order of work, the most important behaviour first; items marked done are in
this directory.

1. done: `ScriptVM`, `ScriptBuilder` and its proofs; `ScriptCalls`.
2. done: `RequestReply`, `JsonRpcClient` and its proofs.
3. done: `NativeFee` and its proofs.
4. done: `CarbonInt`, `CarbonWire`, `CarbonTx`; `CarbonValues`, `TokenMetadata`.
5. done: `TxSubmission`.
6. done: `CarbonCalls`, with the token builders and `build_token_info`.
7. done: `WireShapes`, `ResolutionArguments`, `ExtendedEvents`, `RpcResults`,
   `RpcMethods`, `RpcAnswers`.
8. done: `VMObjects`; `KeysAndAddresses` and `TxExchange`.
9. next: composing `TxSubmission` with `JsonRpcClient`: retries over a client
   whose answers may be mixed up; an abstract specification "executed at most
   once, and reported correctly" that the composition implements.
10. next: schemas from JSON text.
11. done: the theorems about `TxSubmission`, `FirstErrorAlways`,
    `ResponsesAlwaysClosed`, `AlwaysDecodes`.
12. done: `ScriptCalls` without recursive operators, and its theorems.
13. done: the Carbon codec without recursive operators, and the theorems about
    `CarbonTx`.
14. done: the codec and the texts without recursive operators, and the theorems
    about `TxExchange`.
15. next: the refinement of item 9; that a built call message is one of those
    `CarbonTxProofs` is about, so that its theorems hold under `CallSpec`; the
    records of `CarbonCalls` with `RowReads` and its kin.
