---------------------------- MODULE MCTxExchange ----------------------------
(***************************************************************************)
(* TxSubmission and TxExchange on a small instance.  Base is 16, so that   *)
(* a length of 13 or more takes the longer form; the alphabet of texts has *)
(* six characters; public keys have two bytes and private keys one.        *)
(***************************************************************************)
EXTENDS TxExchange, SequencesExt

\* Difficulties of the first payloads.
MCWork == [payload \in 0..4 |-> <<0, 1, 0, 1, 3>>[payload + 1]]

\* A letter of one byte, and one of two.
MCCharacters == {"x", "accented"}
MCUtf8 == ("x" :> <<11>>) @@ ("accented" :> <<12, 8>>)
MCNexusName == <<"x">>
MCChainName == <<"accented", "x">>
MCScript == [i \in 1..13 |-> i % 3]
MCPayload == <<5>>

MCAlphabet == <<"1", "P", "S", "X", "a", "b">>
MCNullTexts == {<< >>, <<"NULL">>, <<"null">>}
MCCheck(bytes) == (bytes[1] + 3 * bytes[2] + 5) % 16
MCPrivateKey == <<0, 9>>

\* The second public key begins with a zero.
MCPublicKey(private) == IF private = 0 THEN <<7, 14>> ELSE <<0, private>>

Private(k) == <<MCPrivateKey[k]>>

Addresses ==
  {NullAddress} \cup {<<1, 0>> \o PublicOf(k) : k \in Keys}
  \cup {<<kind, 0, 0, 1>> : kind \in {0, 2, 3, 15}} \cup {<<1, 9, 0, 0>>, <<0, 1, 0, 0>>}

Of(as, bytes, text) == [as |-> as, of |-> bytes, text |-> text]

\* A text with a character more or less, or another in its place.
Mistyped(text) ==
  {Front(text), Tail(text), <<"1">> \o text, <<text[1], "1">> \o Tail(text), Append(text, "1"), text}
  \cup {[text EXCEPT ![i] = c] : i \in DOMAIN text, c \in {"0", "1", "P", "S", "X", "b"}}

MCEntries ==
  {Of("address", a, AddressText(a)) : a \in Addresses}
  \cup {Of("key", Private(k), KeyToWif(Private(k))) : k \in Keys}
  \cup UNION {{Of("address", << >>, t) : t \in Mistyped(AddressText(a))} :
                a \in Addresses \ {NullAddress}}
  \cup UNION {{Of("key", << >>, t) : t \in Mistyped(KeyToWif(Private(k)))} : k \in Keys}
  \cup {Of("address", << >>, t) : t \in MCNullTexts \cup {<<"S", "1", "1", "1", "1">>, <<"P">>}}
=============================================================================
