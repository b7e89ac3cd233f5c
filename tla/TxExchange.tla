----------------------------- MODULE TxExchange -----------------------------
(***************************************************************************)
(* A transaction that several holders sign before it is submitted.  Each   *)
(* hands the bytes of the transaction to the next, who reads them back and *)
(* tells by the address texts it was given who has signed.  The bytes may  *)
(* be cut short, extended, or written without the signatures; keys and     *)
(* addresses are entered as texts, which may be mistyped.                  *)
(***************************************************************************)
EXTENDS TxSubmission, KeysAndAddresses

CONSTANTS
  Utf8,                       \* the UTF-8 bytes of each of Characters
  SignatureBytes,             \* SIGNATURE_LENGTH (64)
  NexusName, ChainName, Script, Payload,
  PrivateKey,                 \* the private key of each of Keys
  PublicKey(_),               \* the public key of a private one: Ed25519
  Letters,                    \* what texts of keys and addresses are typed with
  Entries                     \* texts a holder may enter, and what they are the texts of

\* What the network gives and takes is within the lengths that read_var_bytes
\* accepts; the bytes of a character tell where it ends; a payload that the
\* caller gave is not that of a nonce; different keys have different public ones.
ASSUME ExchangeAssumption ==
  LET Bytes == Seq(0..(Base - 1))
  IN  /\ Base \in Nat /\ Base > 4 /\ Keys \subseteq Nat
      /\ \A n \in {MaxArraySize, MaxExpiration, MaxNonce, MaxSignatures} :
           n \in Nat /\ n < Power(4)
      /\ \A c \in Characters : Utf8[c] \in Bytes /\ Utf8[c] # << >>
      /\ \A c, d \in Characters : c # d => ~Starts(Utf8[c], Utf8[d])
      /\ \A name \in {NexusName, ChainName} :
           name \in Seq(Characters) /\ Len(Encoded(Utf8, name)) <= MaxArraySize
      /\ \A bytes \in {Script, Payload} : bytes \in Bytes /\ Len(bytes) <= MaxArraySize
      /\ 4 <= MaxArraySize /\ \A n \in 1..MaxNonce : LittleEndian(n, 4) # Payload
      /\ SignatureBytes \in 3..MaxArraySize /\ PublicBytes \in Nat /\ PrivateBytes \in Nat
      /\ Alphabet \in Seq(Letters) /\ Len(Alphabet) > 1 /\ {"P", "S", "X"} \subseteq Letters
      /\ \A i, j \in DOMAIN Alphabet : i # j => Alphabet[i] # Alphabet[j]
      /\ \A k \in Keys : /\ PublicKey(PrivateKey[k]) \in Bytes
                         /\ Len(PublicKey(PrivateKey[k])) = PublicBytes
      /\ \A k, l \in Keys : k # l => PublicKey(PrivateKey[k]) # PublicKey(PrivateKey[l])
      /\ <<"NULL">> \in NullTexts
      /\ \A text \in NullTexts : text # << >> => text[1] \notin {"P", "S", "X"}
      /\ \A e \in Entries :
           /\ e.as \in {"key", "address"} /\ e.text \in Seq(Letters)
           /\ e.of # << >> =>
                /\ e.of \in Bytes
                /\ e.as = "key" =>
                     /\ Len(e.of) = PrivateBytes /\ e.text = KeyToWif(e.of)
                     /\ Check(WifPayload(e.of)) \in 0..(Base - 1)
                /\ e.as = "address" =>
                     Len(e.of) = AddressLength /\ e.text = AddressText(e.of)

VARIABLES
  mail,    \* the transaction written, the bytes that came, and how they read
  entry    \* the text entered last, and how it reads

exchangeVars == <<mail, entry>>

-----------------------------------------------------------------------------
(* The bytes of a Transaction.  The payload is what the caller gave, until *)
(* mine replaces it by a nonce of four bytes.  A signature is a number of  *)
(* bytes that tell its key and the content it covers.                      *)

PayloadBytes(nonce) == IF nonce = 0 THEN Payload ELSE LittleEndian(nonce, 4)
SignatureData(s) ==
  LET bytes == <<s.by, s.over.content.expiration, s.over.content.payload>>
  IN  bytes \o [i \in 1..(SignatureBytes - Len(bytes)) |-> 0]

ED25519 == 1

WriteField(kind, v) ==
  CASE kind = "text"      -> VarBytes(Encoded(Utf8, v))
    [] kind = "bytes"     -> VarBytes(v)
    [] kind = "u32"       -> LittleEndian(v, 4)
    [] kind = "signature" -> <<ED25519>> \o VarBytes(v)

WriteFields(kinds, values) ==
  LET bytes[i \in 0..Len(kinds)] ==
        IF i = 0 THEN << >> ELSE bytes[i - 1] \o WriteField(kinds[i], values[i])
  IN  bytes[Len(kinds)]

FieldKinds == <<"text", "text", "bytes", "u32", "bytes">>
FieldsOf(t) ==
  <<NexusName, ChainName, Script, t.content.expiration, PayloadBytes(t.content.payload)>>

SignatureKinds(count) == [i \in 1..count |-> "signature"]
SignaturesOf(t) == [i \in DOMAIN t.signatures |-> SignatureData(t.signatures[i])]

\* to_bytes(with_signatures=False)
Message(t) == WriteFields(FieldKinds, FieldsOf(t))

\* to_bytes()
ToBytes(t) ==
  Message(t) \o VarUint(Len(t.signatures))
  \o WriteFields(SignatureKinds(Len(t.signatures)), SignaturesOf(t))

\* from_bytes: fields off the front, one after another.
TakeField(kind, bytes) ==
  CASE kind = "u32"   -> TakeNumber(bytes, 4)
    [] kind = "bytes" -> TakeVarBytes(bytes)
    [] kind = "text"  ->
         Then(TakeVarBytes(bytes), LAMBDA raw, rest :
           LET text == FromUtf(Utf8, raw)
           IN  IF Succeeds(text) THEN Ok(<<text[2], rest>>) ELSE text)
    [] kind = "signature" ->
         Then(TakeNumber(bytes, 1), LAMBDA algorithm, rest :
           IF algorithm # ED25519 THEN Raise("ValueError")
           ELSE Then(TakeVarBytes(rest), LAMBDA data, more :
                  IF Len(data) # SignatureBytes THEN Raise("CryptoError") ELSE Ok(<<data, more>>)))

TakeFields(kinds, bytes) ==
  LET taken[i \in 0..Len(kinds)] ==
        IF i = 0 THEN Ok(<<<< >>, bytes>>)
        ELSE Then(taken[i - 1], LAMBDA values, rest :
               Then(TakeField(kinds[i], rest), LAMBDA v, more : Ok(<<Append(values, v), more>>)))
  IN  taken[Len(kinds)]

TakeSignatures(bytes) ==
  Then(TakeVarUint(bytes), LAMBDA count, rest : TakeFields(SignatureKinds(count), rest))

AllFields(bytes) ==
  Then(TakeFields(FieldKinds, bytes), LAMBDA fields, rest :
    Then(TakeSignatures(rest), LAMBDA signatures, left : Ok(<<<<fields, signatures>>, left>>)))

\* A slip of FromBytes: what follows the last signature is not looked at.
FromBytesLoose(bytes) == Then(AllFields(bytes), LAMBDA read, left : Ok(read))

FromBytes(bytes) ==
  Then(AllFields(bytes), LAMBDA read, left :
    IF left = << >> THEN Ok(read) ELSE Raise("SerializationError"))

\* The transaction that has these fields and signatures.
SignatureRead(data) ==
  [by |-> data[1], over |-> [content |-> Content(data[2], data[3]), signatures |-> <<>>]]
Restored(read) ==
  [content |-> Content(read[1][4], IF read[1][5] = Payload THEN 0 ELSE FromLittleEndian(read[1][5])),
   signatures |-> [i \in DOMAIN read[2] |-> SignatureRead(read[2][i])]]

-----------------------------------------------------------------------------
(* Who signed: Ed25519Signature.verify with the address of a holder.       *)

PublicOf(k) == PublicKey(PrivateKey[k])

\* A slip of VerifiedBy: an address of any kind is taken for a public key.
VerifiedByAnyKind(t, address) ==
  \E i \in DOMAIN t.signatures :
    SubSeq(address, 3, Len(address)) = PublicOf(t.signatures[i].by)
    /\ Message(t.signatures[i].over) = Message(t)

VerifiedBy(t, address) ==
  /\ Kind(address) = "user"
  /\ \E i \in DOMAIN t.signatures :
       /\ SubSeq(address, 3, Len(address)) = PublicOf(t.signatures[i].by)
       /\ Message(t.signatures[i].over) = Message(t)

\* The address of a holder, as the others read it from its text.
AddressTextOf(k) == AddressText(AddressFromPublicKey(PublicOf(k)))

-----------------------------------------------------------------------------
\* Before the first submission; while a mail or an entry is looked at, nothing
\* else happens.
AtRest == mail = << >> /\ entry = << >>
Before == AtRest /\ attempts = <<>> /\ clock = 1

ExchangeInit == Init /\ mail = << >> /\ entry = << >>

\* What may come of bytes: all, a part from the front, or one byte more.
Arrivals(bytes) ==
  {SubSeq(bytes, 1, n) : n \in 0..Len(bytes)} \cup {Append(bytes, b) : b \in {0, 1}}

HandOver ==
  /\ Before /\ tx # NoTx /\ Writable(tx)
  /\ \E bytes \in Arrivals(ToBytes(tx)) :
       mail' = [came |-> bytes, wrote |-> tx, read |-> FromBytes(bytes)]
  /\ UNCHANGED <<vars, entry>>

\* The next holder goes on with what it read, or asks for the bytes again.
TakeUp ==
  /\ mail # << >>
  /\ tx' = IF Succeeds(mail.read) THEN Restored(mail.read[2]) ELSE tx
  /\ mail' = << >>
  /\ UNCHANGED <<clock, asked, signers, attempts, chain, entry>>

Enter ==
  /\ Before /\ tx = NoTx
  /\ \E e \in Entries :
       entry' = [as |-> e.as, of |-> e.of, text |-> e.text,
                 read |-> IF e.as = "key" THEN KeyFromWif(e.text)
                                          ELSE AddressFromText(e.text)]
  /\ UNCHANGED <<vars, mail>>

Done ==
  /\ entry # << >>
  /\ entry' = << >>
  /\ UNCHANGED <<vars, mail>>

ExchangeNext ==
  \/ \E e \in Expirations : AtRest /\ Compose(e) /\ UNCHANGED exchangeVars
  \/ \E k \in Keys : AtRest /\ Sign(k) /\ UNCHANGED exchangeVars
  \/ \E k \in Keys : AtRest /\ SignAndSendBuilt(k) /\ UNCHANGED exchangeVars
  \/ \E d \in Difficulties : AtRest /\ Mine(d) /\ UNCHANGED exchangeVars
  \/ AtRest /\ SendRawTransaction /\ UNCHANGED exchangeVars
  \/ \E k \in Keys, e \in Expirations : AtRest /\ SignAndSend(k, e) /\ UNCHANGED exchangeVars
  \/ \E i \in 1..Len(attempts) : AtRest /\ Arrive(i) /\ UNCHANGED exchangeVars
  \/ AtRest /\ Tick /\ UNCHANGED exchangeVars
  \/ HandOver
  \/ TakeUp
  \/ Enter
  \/ Done

ExchangeSpec == ExchangeInit /\ [][ExchangeNext]_<<vars, exchangeVars>>
-----------------------------------------------------------------------------
(* Properties.                                                             *)

\* The next holder has the transaction whole, with every signature in its
\* order, or is told that the bytes are damaged: no part of the bytes, such as
\* those that were signed, and nothing longer passes for a transaction.
\* (Transaction.to_bytes, Transaction.from_bytes, assert_eof.)
HandedOverWhole ==
  mail # << >> =>
    IF mail.came = ToBytes(mail.wrote) THEN mail.read = Ok(<<FieldsOf(mail.wrote), SignaturesOf(mail.wrote)>>)
                                       ELSE ~Succeeds(mail.read)

\* The next holder, who knows the others by the texts of their addresses,
\* recognises exactly those who signed the transaction as it is now, and
\* nobody by an address of another kind with the same bytes.
\* (Address.text, Address.from_text, Ed25519Signature.verify.)
SignersRecognised ==
  (mail # << >> /\ Succeeds(mail.read)) =>
    LET t == Restored(mail.read[2])
    IN  /\ \A k \in Keys, kind \in {0, 2, 3} : ~VerifiedBy(t, <<kind, 0>> \o PublicOf(k))
        /\ \A k \in Keys :
             LET address == AddressFromText(AddressTextOf(k))
             IN  /\ Succeeds(address)
                 /\ VerifiedBy(t, address[2]) <=> [by |-> k, over |-> Unsigned(t)] \in signers

\* A text that is accepted is the one text of what it is read as, so that no
\* two texts name one key or one address, whatever bytes it has in front and
\* whatever its prefix; only the null address has several.  And the text of a
\* key, or of an address of one of the three kinds, is accepted as that.
\* (decode_base58, Address.from_text, PhantasmaKeys.from_wif.)
TextsNameOne ==
  entry # << >> =>
    /\ Succeeds(entry.read) =>
         \/ entry.as = "key" /\ entry.text = KeyToWif(entry.read[2])
         \/ entry.as = "address" /\ \/ entry.text = AddressText(entry.read[2])
                                    \/ entry.read[2] = NullAddress
    /\ entry.of # << >> =>
         IF entry.as = "address" /\ Kind(entry.of) = "invalid"
           THEN ~Succeeds(entry.read) ELSE entry.read = Ok(entry.of)

=============================================================================
