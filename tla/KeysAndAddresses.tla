-------------------------- MODULE KeysAndAddresses --------------------------
(***************************************************************************)
(* Base-58 texts (encoding.py), addresses and their texts, private keys    *)
(* and their WIF texts, and the verification of a signature (crypto.py).   *)
(*                                                                         *)
(* A text is a sequence of characters; Alphabet lists those of the        *)
(* base-58 alphabet in the order of their value, and the prefixes "P", "S" *)
(* and "X" are among them.                                                 *)
(***************************************************************************)
EXTENDS BinaryCodec

CONSTANTS
  Alphabet,       \* BASE58_ALPHABET; its first character is "1"
  PublicBytes,    \* PUBLIC_KEY_LENGTH (32)
  PrivateBytes,   \* PRIVATE_KEY_LENGTH (32)
  Check(_),       \* the first four bytes of _double_sha256, as one byte
  NullTexts       \* texts that stand for no address: none, empty, "null" in any case

Zeros(n) == [i \in 1..n |-> 0]

\* How many of the first elements are e: what lstrip(e) takes away.
Leading(seq, e) ==
  CHOOSE n \in 0..Len(seq) : /\ \A i \in 1..n : seq[i] = e
                             /\ n < Len(seq) => seq[n + 1] # e

\* Digits of a number, the first the most significant, none for 0.
Digits(n, base) ==
  LET q == Quotients(n, base, n)
      k == CHOOSE k \in 0..n : q[k] = 0 /\ \A j \in 0..(k - 1) : q[j] # 0
  IN  [i \in 1..k |-> q[k - i] % base]

Radix == Len(Alphabet)
ValueOf(c) == (CHOOSE i \in DOMAIN Alphabet : Alphabet[i] = c) - 1

\* The same bytes in another base; a zero in front stays one.
Converted(digits, from, to) ==
  Zeros(Leading(digits, 0)) \o Digits(NumberOf(digits, from), to)

EncodeBase58(bytes) ==
  LET digits == Converted(bytes, Base, Radix)
  IN  [i \in DOMAIN digits |-> Alphabet[digits[i] + 1]]

DecodeBase58(text) ==
  IF text = << >> \/ \E i \in DOMAIN text : \A j \in DOMAIN Alphabet : Alphabet[j] # text[i]
    THEN Raise("EncodingError")
    ELSE Ok(Converted([i \in DOMAIN text |-> ValueOf(text[i])], Radix, Base))

-----------------------------------------------------------------------------
(* Addresses.                                                              *)

AddressLength == PublicBytes + 2
NullAddress == Zeros(AddressLength)

Kind(address) ==
  CASE address = NullAddress \/ address[1] = 2 -> "system"
    [] address[1] >= 3 -> "interop"
    [] address[1] = 1 -> "user"
    [] OTHER -> "invalid"

\* Address.text: a kind of its own has no prefix of its own.
PrefixOf(address) ==
  CASE Kind(address) = "system" -> "S"
    [] Kind(address) = "interop" -> "X"
    [] OTHER -> "P"

AddressText(address) ==
  IF address = NullAddress THEN <<"NULL">> ELSE <<PrefixOf(address)>> \o EncodeBase58(address)

\* A slip of PrefixFits: the prefix has only to be one of the three.
PrefixKnown(prefix, address) == prefix \in {"P", "S", "X"}

PrefixFits(prefix, address) ==
  \/ prefix = "P" /\ Kind(address) = "user"
  \/ prefix = "S" /\ Kind(address) = "system"
  \/ prefix = "X" /\ Kind(address) = "interop"

AddressFromText(text) ==
  IF text \in NullTexts THEN Ok(NullAddress)
  ELSE IF Len(text) < 2 THEN Raise("CryptoError")
  ELSE LET data == DecodeBase58(Tail(text))
       IN  IF ~Succeeds(data) THEN data
           ELSE IF Len(data[2]) = AddressLength /\ PrefixFits(Head(text), data[2])
                  THEN data ELSE Raise("CryptoError")

AddressFromPublicKey(public) == <<1, 0>> \o public

-----------------------------------------------------------------------------
(* Keys.  Half of Base is the byte 0x80.                                   *)

WifPayload(private) == <<Base \div 2>> \o private \o <<1>>

KeyToWif(private) ==
  EncodeBase58(WifPayload(private) \o <<Check(WifPayload(private))>>)

KeyFromWif(text) ==
  LET data    == DecodeBase58(text)
      payload == SubSeq(data[2], 1, Len(data[2]) - 1)
      private == SubSeq(data[2], 2, PrivateBytes + 1)
  IN  IF text = << >> THEN Raise("CryptoError")
      ELSE IF ~Succeeds(data) THEN data
      ELSE IF /\ Len(data[2]) = PrivateBytes + 3
              /\ data[2][Len(data[2])] = Check(payload)
              /\ payload = WifPayload(private)
             THEN Ok(private) ELSE Raise("CryptoError")

=============================================================================
