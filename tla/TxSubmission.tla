---------------------------- MODULE TxSubmission ----------------------------
(***************************************************************************)
(* Building, mining, signing and submitting a VM script transaction, with  *)
(* the retries of a caller whose request or answer was lost or was late.   *)
(*                                                                         *)
(* One script is submitted, as a Transaction object that is kept between   *)
(* attempts (send_raw_transaction, sign_and_send_built_transaction) or     *)
(* afresh for each attempt (sign_and_send_transaction).  The chain is the  *)
(* environment: it takes a transaction once, while it has not expired, if  *)
(* the sender signed it.                                                   *)
(***************************************************************************)
EXTENDS Integers, Sequences, FiniteSets

CONSTANTS
    Keys,           \* keys that may sign
    Sender,         \* the one the script needs
    Expirations,    \* values for "expiration", 0 being None or 0
    MaxExpiration,  \* 2^32 - 1: to_bytes raises above it
    Ttl,            \* sign_and_send_transaction's 20 minutes
    Work,           \* difficulty of the hash with payload 0 (the caller's), 1, 2, ...
    MaxNonce,       \* bound: nonces that mine needs at most
    Difficulties,   \* arguments of mine
    MaxTime,        \* bound: seconds
    MaxSignatures,  \* bound: signatures of the object
    MaxAttempts     \* bound: submissions

ASSUME TxSubmissionAssumption ==
    /\ Sender \in Keys /\ Ttl \in Nat \ {0} /\ MaxTime \in Nat
    /\ MaxExpiration \in Nat /\ MaxTime + Ttl <= MaxExpiration
    /\ Expirations \subseteq Nat /\ Difficulties \subseteq Nat
    \* mine ends
    /\ MaxNonce \in Nat /\ Work \in [0..MaxNonce -> Nat]
    /\ \A d \in Difficulties : \E n \in 1..MaxNonce : Work[n] >= d

VARIABLES
    clock,      \* int(time.time())
    tx,         \* the Transaction object
    asked,      \* history: difficulties it was mined for
    signers,    \* history: who signed it, and what
    attempts,   \* submissions, arrived or still under way
    chain       \* attempts that were executed, in order

vars == <<clock, tx, asked, signers, attempts, chain>>

-----------------------------------------------------------------------------
Content(expiration, payload) == [expiration |-> expiration, payload |-> payload]

\* to_bytes(with_signatures=False)
Unsigned(t) == [t EXCEPT !.signatures = <<>>]

\* A slip of Hash: the signatures are hashed too.
HashOfAll(t) == t

Hash(t) == Unsigned(t)

\* to_bytes raises for an expiration of more than 32 bits.
Writable(t) == t.content.expiration <= MaxExpiration

Difficulty(t) == Work[Hash(t).content.payload]

\* sign
SignedWith(t, k) ==
    [t EXCEPT !.signatures = Append(@, [by |-> k, over |-> Unsigned(t)])]

\* A slip of IsSignedBy: only the first signature is looked at.
IsSignedByFirst(t, k) ==
    t.signatures # <<>> /\ t.signatures[1] = [by |-> k, over |-> Unsigned(t)]

IsSignedBy(t, k) ==
    \E i \in 1..Len(t.signatures) : t.signatures[i] = [by |-> k, over |-> Unsigned(t)]

WithPayload(t, nonce) == [t EXCEPT !.content.payload = nonce]

FirstNonce(t, d) ==
    CHOOSE n \in 1..MaxNonce :
        /\ Difficulty(WithPayload(t, n)) >= d
        /\ \A earlier \in 1..(n - 1) : Difficulty(WithPayload(t, earlier)) < d

\* A slip of Mined: the payload the transaction has is not tried.
MinedAfresh(t, d) == WithPayload(t, FirstNonce(t, d))

\* mine: nothing to do for 0, or if the hash will do as it is.
Mined(t, d) == IF Difficulty(t) >= d THEN t ELSE WithPayload(t, FirstNonce(t, d))

NoTx == [content |-> Content(0, 0), signatures |-> <<>>]

-----------------------------------------------------------------------------
Init ==
    /\ clock = 1 /\ tx = NoTx /\ asked = {} /\ signers = {}
    /\ attempts = <<>> /\ chain = <<>>

Compose(expiration) ==
    /\ tx = NoTx /\ expiration # 0
    /\ tx' = [NoTx EXCEPT !.content = Content(expiration, 0)]
    /\ UNCHANGED <<clock, asked, signers, attempts, chain>>

Record(k) == signers' = signers \cup {[by |-> k, over |-> Unsigned(tx)]}

Sign(k) ==
    /\ tx # NoTx /\ Writable(tx) /\ Len(tx.signatures) < MaxSignatures
    /\ tx' = SignedWith(tx, k)
    /\ Record(k)
    /\ UNCHANGED <<clock, asked, attempts, chain>>

Mine(d) ==
    /\ tx # NoTx /\ (d > 0 => Writable(tx))
    /\ tx' = Mined(tx, d)
    /\ asked' = asked \cup {d}
    /\ UNCHANGED <<clock, signers, attempts, chain>>

\* call("sendRawTransaction", ...) with what to_bytes gives now.
Submit(how, t, expiration) ==
    /\ Len(attempts) < MaxAttempts
    /\ attempts' = Append(attempts,
         [how |-> how, tx |-> t, given |-> expiration, at |-> clock, arrived |-> FALSE])
    /\ UNCHANGED <<clock, asked, chain>>

SendRawTransaction ==
    /\ tx # NoTx /\ Writable(tx)
    /\ Submit("raw", tx, 0)
    /\ UNCHANGED <<tx, signers>>

\* Each attempt adds a signature to the object.
SignAndSendBuilt(k) ==
    /\ tx # NoTx /\ Writable(tx) /\ Len(tx.signatures) < MaxSignatures
    /\ tx' = SignedWith(tx, k)
    /\ Record(k)
    /\ Submit("built", tx', 0)

\* A slip of ExpirationFor: the argument is ignored.
ExpirationAlwaysNew(given) == clock + Ttl

ExpirationFor(given) == IF given = 0 THEN clock + Ttl ELSE given

\* sign_and_send_transaction
SignAndSend(k, given) ==
    LET t == [NoTx EXCEPT !.content = Content(ExpirationFor(given), 0)]
    IN  /\ Writable(t)
        /\ Submit("fresh", SignedWith(t, k), given)
        /\ UNCHANGED <<tx, signers>>

-----------------------------------------------------------------------------
(* The environment: the network, the chain and time.                       *)

Executed == {chain[i] : i \in 1..Len(chain)}

Taken(t) ==
    /\ clock <= t.content.expiration
    /\ IsSignedBy(t, Sender)
    /\ \A i \in Executed : Hash(attempts[i].tx) # Hash(t)

\* In any order, and at any time; what is lost just never arrives.
Arrive(i) ==
    /\ ~attempts[i].arrived
    /\ attempts' = [attempts EXCEPT ![i].arrived = TRUE]
    /\ chain' = IF Taken(attempts[i].tx) THEN Append(chain, i) ELSE chain
    /\ UNCHANGED <<clock, tx, asked, signers>>

Tick ==
    /\ clock < MaxTime
    /\ clock' = clock + 1
    /\ UNCHANGED <<tx, asked, signers, attempts, chain>>

Next ==
    \/ \E e \in Expirations : Compose(e)
    \/ \E k \in Keys : Sign(k) \/ SignAndSendBuilt(k)
    \/ \E d \in Difficulties : Mine(d)
    \/ SendRawTransaction
    \/ \E k \in Keys, e \in Expirations : SignAndSend(k, e)
    \/ \E i \in 1..Len(attempts) : Arrive(i)
    \/ Tick

Spec == Init /\ [][Next]_vars
-----------------------------------------------------------------------------
(* Properties.                                                             *)

\* A built transaction that is sent again, signed again each time and mined
\* again for a difficulty it was mined for, is executed once; it can be
\* executed again only after it was mined for another difficulty.
\* (Transaction.hash leaves the signatures out; mine starts from the payload.)
BuiltExecutedOnce ==
    Cardinality({i \in Executed : attempts[i].how \in {"built", "raw"}})
        <= 1 + Cardinality(asked \ {0})

\* sign_and_send_transaction called again with the same expiration is executed
\* once; without one (or with 0) only a call in another second is another
\* transaction.
FreshExecutedOnce ==
    \A i, j \in {n \in Executed : attempts[n].how = "fresh"} :
        (i # j /\ attempts[i].given = attempts[j].given) =>
            attempts[i].given = 0 /\ attempts[i].at # attempts[j].at

\* is_signed_by tells exactly who signed the transaction as it is now: mining
\* undoes the signatures made before, signing undoes nothing.
SignersKnown ==
    \A k \in Keys : IsSignedBy(tx, k) <=> [by |-> k, over |-> Unsigned(tx)] \in signers

\* Signing, and mining for less, never loses the work done.
WorkKept == \A d \in asked : Difficulty(tx) >= d
=============================================================================
