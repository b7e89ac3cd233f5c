-------------------------- MODULE TxSubmissionProofs --------------------------
(* Proofs about TxSubmission, for any keys, expirations, difficulties and     *)
(* bounds: what is submitted again is executed once, the signers of the       *)
(* transaction are known, and mined work is kept.                             *)
EXTENDS TxSubmission, TLAPS, FiniteSetTheorems, SequenceTheorems

(* The types of the values.                                                  *)

Contents == [expiration : Nat, payload : 0..MaxNonce]
Hashes == [content : Contents, signatures : {<<>>}]
Signatures == [by : Keys, over : Hashes]
Transactions == [content : Contents, signatures : Seq(Signatures)]
Submissions ==
    [how : {"raw", "built", "fresh"}, tx : Transactions, given : Nat, at : Nat,
     arrived : BOOLEAN]

\* A transaction's hash is its content, and its signatures do not enter into it.
LEMMA HashFacts ==
    ASSUME NEW t \in Transactions
    PROVE  /\ Hash(t) = [content |-> t.content, signatures |-> <<>>]
           /\ Unsigned(t) = Hash(t)
           /\ Hash(t) \in Hashes
           /\ Difficulty(t) = Work[t.content.payload]
           /\ Difficulty(t) \in Nat
<1>1. Unsigned(t) = [content |-> t.content, signatures |-> <<>>]
  BY DEF Unsigned, Transactions
<1>2. t.content \in Contents /\ t.content.payload \in 0..MaxNonce
  BY DEF Transactions, Contents
<1>3. QED
  BY <1>1, <1>2, TxSubmissionAssumption DEF Hash, Hashes, Difficulty

\* Signing adds one signature and leaves the content.
LEMMA SignedFacts ==
    ASSUME NEW t \in Transactions, NEW k \in Keys
    PROVE  /\ SignedWith(t, k) \in Transactions
           /\ SignedWith(t, k).content = t.content
           /\ SignedWith(t, k).signatures
                = Append(t.signatures, [by |-> k, over |-> Unsigned(t)])
<1>1. [by |-> k, over |-> Unsigned(t)] \in Signatures
  BY HashFacts DEF Signatures
<1>2. SignedWith(t, k) = [content |-> t.content, signatures |->
                            Append(t.signatures, [by |-> k, over |-> Unsigned(t)])]
  BY DEF SignedWith, Transactions
<1>3. QED
  BY <1>1, <1>2 DEF Transactions

\* A nonce replaces the payload and leaves the expiration and the signatures.
LEMMA PayloadFacts ==
    ASSUME NEW t \in Transactions, NEW n \in 0..MaxNonce
    PROVE  /\ WithPayload(t, n) \in Transactions
           /\ WithPayload(t, n).content = Content(t.content.expiration, n)
           /\ WithPayload(t, n).signatures = t.signatures
           /\ Difficulty(WithPayload(t, n)) = Work[n]
<1>1. t.content = [expiration |-> t.content.expiration, payload |-> t.content.payload]
  BY DEF Transactions, Contents
<1>2. WithPayload(t, n) =
        [content |-> Content(t.content.expiration, n), signatures |-> t.signatures]
  BY <1>1 DEF WithPayload, Transactions, Content
<1>3. Content(t.content.expiration, n) \in Contents
  BY DEF Transactions, Contents, Content
<1>4. WithPayload(t, n) \in Transactions
  BY <1>2, <1>3 DEF Transactions
<1>5. WithPayload(t, n).content.payload = n
  BY <1>2 DEF Content
<1>6. QED
  BY <1>2, <1>4, <1>5, HashFacts
-----------------------------------------------------------------------------
(* Mining.                                                                   *)

\* The first nonce that does for d; the transaction does not matter to it.
Reaches(n, d) == Work[n] >= d /\ \A earlier \in 1..(n - 1) : Work[earlier] < d
LeastNonce(d) == CHOOSE n \in 1..MaxNonce : Reaches(n, d)

\* mine ends, with the first nonce that does.
LEMMA LeastNonceFacts ==
    ASSUME NEW d \in Difficulties
    PROVE  LeastNonce(d) \in 1..MaxNonce /\ Reaches(LeastNonce(d), d)
<1> DEFINE enough == {n \in 1..MaxNonce : Work[n] >= d}
<1>1. enough \subseteq Nat /\ enough # {}
  BY TxSubmissionAssumption
<1>2. PICK least \in enough : \A n \in enough : ~(<<n, least>> \in OpToRel(<, Nat))
  BY <1>1, NatLessThanWellFounded, WFMin
<1>3. \A n \in enough : ~(n < least)
  BY <1>1, <1>2 DEF OpToRel
<1>4. Reaches(least, d) /\ least \in 1..MaxNonce
  <2>1. d \in Nat /\ Work \in [0..MaxNonce -> Nat] /\ MaxNonce \in Nat
    BY TxSubmissionAssumption
  <2>2. ASSUME NEW n \in 1..(least - 1) PROVE Work[n] < d
    BY <1>3, <2>1, <2>2
  <2> QED
    BY <2>2 DEF Reaches
<1>5. QED
  BY <1>4 DEF LeastNonce

LEMMA FirstNonceIsLeast ==
    ASSUME NEW t \in Transactions, NEW d \in Difficulties
    PROVE  FirstNonce(t, d) = LeastNonce(d)
<1>1. \A n \in 1..MaxNonce : Difficulty(WithPayload(t, n)) = Work[n]
  BY PayloadFacts, TxSubmissionAssumption
<1>2. ASSUME NEW n \in 1..MaxNonce
      PROVE  (/\ Difficulty(WithPayload(t, n)) >= d
              /\ \A earlier \in 1..(n - 1) : Difficulty(WithPayload(t, earlier)) < d)
             <=> Reaches(n, d)
  <2>1. \A earlier \in 1..(n - 1) : earlier \in 1..MaxNonce
    BY TxSubmissionAssumption
  <2> QED
    BY <1>1, <2>1 DEF Reaches
<1>3. QED
  BY <1>2 DEF FirstNonce, LeastNonce

\* A mined transaction has the difficulty asked for and at least what it had.
\* It has its old payload or the first nonce for a difficulty above 0.
LEMMA MinedFacts ==
    ASSUME NEW t \in Transactions, NEW d \in Difficulties
    PROVE  /\ Mined(t, d) \in Transactions
           /\ Mined(t, d).signatures = t.signatures
           /\ Mined(t, d).content.expiration = t.content.expiration
           /\ Difficulty(Mined(t, d)) >= d
           /\ Difficulty(Mined(t, d)) >= Difficulty(t)
           /\ \/ Mined(t, d).content.payload = t.content.payload
              \/ d # 0 /\ Mined(t, d).content.payload = LeastNonce(d)
<1>1. Difficulty(t) \in Nat /\ d \in Nat
  BY HashFacts, TxSubmissionAssumption
<1>2. CASE Difficulty(t) >= d
  BY <1>1, <1>2 DEF Mined
<1>3. CASE ~(Difficulty(t) >= d)
  <2>1. Mined(t, d) = WithPayload(t, LeastNonce(d))
    BY <1>3, FirstNonceIsLeast DEF Mined
  <2>2. LeastNonce(d) \in 0..MaxNonce /\ Work[LeastNonce(d)] \in Nat
        /\ Work[LeastNonce(d)] >= d
    BY LeastNonceFacts, TxSubmissionAssumption DEF Reaches
  <2>3. Mined(t, d).content = Content(t.content.expiration, LeastNonce(d))
    BY <2>1, <2>2, PayloadFacts
  <2> QED
    BY <1>1, <1>3, <2>1, <2>2, <2>3, PayloadFacts DEF Content
<1>4. QED
  BY <1>2, <1>3
-----------------------------------------------------------------------------
(* The invariant.                                                            *)

Types ==
    /\ clock \in Nat
    /\ tx \in Transactions
    /\ asked \subseteq Difficulties /\ IsFiniteSet(asked)
    /\ attempts \in Seq(Submissions)
    /\ chain \in Seq(1..Len(attempts))

\* Who signed, and what, is what the signatures say.
SignersListed == signers = {tx.signatures[i] : i \in 1..Len(tx.signatures)}

\* There is no transaction until one is composed, with an expiration.
Unused == tx.content.expiration = 0 => tx = NoTx /\ asked = {}

\* The payloads that a transaction mined for these difficulties can have.
Nonces == {LeastNonce(d) : d \in asked \ {0}}

\* All submissions of the built transaction differ in their payload at most.
OfOneTransaction(t) ==
    /\ t.content.expiration = tx.content.expiration
    /\ t.content.payload \in {0} \cup Nonces

OneTransaction ==
    /\ tx.content.payload \in {0} \cup Nonces
    /\ \A i \in 1..Len(attempts) :
         attempts[i].how \in {"raw", "built"} =>
            tx # NoTx /\ OfOneTransaction(attempts[i].tx)

\* What sign_and_send_transaction builds.
FreshContents ==
    \A i \in 1..Len(attempts) :
        attempts[i].how = "fresh" =>
            attempts[i].tx.content =
                Content(IF attempts[i].given = 0 THEN attempts[i].at + Ttl
                                                 ELSE attempts[i].given, 0)

\* The chain takes no transaction twice.
ExecutedDiffer ==
    \A i, j \in Executed : i # j => Hash(attempts[i].tx) # Hash(attempts[j].tx)

IInv ==
    /\ Types /\ SignersListed /\ Unused /\ WorkKept
    /\ OneTransaction /\ FreshContents /\ ExecutedDiffer

\* There is a transaction exactly when it has an expiration.
LEMMA InUse ==
    ASSUME Unused
    PROVE  tx # NoTx <=> tx.content.expiration # 0
  BY DEF Unused, NoTx, Content

LEMMA InitIInv == Init => IInv
<1> SUFFICES ASSUME Init PROVE IInv
  OBVIOUS
<1>1. NoTx \in Transactions /\ NoTx.signatures = <<>> /\ NoTx.content = Content(0, 0)
  BY TxSubmissionAssumption DEF NoTx, Transactions, Contents, Content
<1>2. Types
  BY <1>1, FS_EmptySet DEF Init, Types
<1>3. SignersListed /\ Unused /\ WorkKept
  BY <1>1 DEF Init, SignersListed, Unused, WorkKept
<1>4. OneTransaction /\ FreshContents /\ ExecutedDiffer
  BY <1>1 DEF Init, OneTransaction, FreshContents, ExecutedDiffer, Executed, Content
<1>5. QED
  BY <1>2, <1>3, <1>4 DEF IInv

\* What is executed was submitted.
LEMMA ExecutedSubmitted ==
    ASSUME Types
    PROVE  Executed \subseteq 1..Len(attempts) /\ Len(attempts) \in Nat
  BY DEF Types, Executed

LEMMA AttemptTypes ==
    ASSUME Types, NEW i \in 1..Len(attempts)
    PROVE  attempts[i] \in Submissions /\ attempts[i].tx \in Transactions
<1>1. attempts[i] \in Submissions
  BY ElementOfSeq DEF Types
<1>2. QED
  BY <1>1 DEF Submissions

\* A submission adds one attempt and changes none, and executes nothing.
LEMMA SubmitFacts ==
    ASSUME Types, NEW how \in {"raw", "built", "fresh"}, NEW t \in Transactions,
           NEW given \in Nat, Submit(how, t, given)
    PROVE  /\ attempts' \in Seq(Submissions)
           /\ Len(attempts') = Len(attempts) + 1
           /\ \A i \in 1..Len(attempts) : attempts'[i] = attempts[i]
           /\ LET new == attempts'[Len(attempts) + 1]
              IN  new.how = how /\ new.tx = t /\ new.given = given /\ new.at = clock
           /\ clock' = clock /\ asked' = asked
           /\ chain' \in Seq(1..Len(attempts'))
           /\ ExecutedDiffer => ExecutedDiffer'
<1> DEFINE new == [how |-> how, tx |-> t, given |-> given, at |-> clock, arrived |-> FALSE]
<1>1. new \in Submissions /\ attempts \in Seq(Submissions)
  BY DEF Submissions, Types
<1>2. attempts' = Append(attempts, new) /\ clock' = clock /\ asked' = asked /\ chain' = chain
  BY DEF Submit
<1>3. /\ new.how = how /\ new.tx = t /\ new.given = given /\ new.at = clock
  OBVIOUS
<1> HIDE DEF new
<1>4. /\ attempts' \in Seq(Submissions)
      /\ Len(attempts') = Len(attempts) + 1
      /\ \A i \in 1..Len(attempts) : attempts'[i] = attempts[i]
      /\ attempts'[Len(attempts) + 1] = new
  BY <1>1, <1>2
<1>5. chain' \in Seq(1..Len(attempts'))
  <2>1. 1..Len(attempts) \subseteq 1..Len(attempts') /\ chain \in Seq(1..Len(attempts))
    BY <1>1, <1>4 DEF Types
  <2> QED
    BY <1>2, <2>1, SeqMonotonic
<1>6. Executed' = Executed
  BY <1>2 DEF Executed
<1>7. ExecutedDiffer => ExecutedDiffer'
  <2> SUFFICES ASSUME ExecutedDiffer, NEW i \in Executed, NEW j \in Executed, i # j
               PROVE  Hash(attempts'[i].tx) # Hash(attempts'[j].tx)
    BY <1>6 DEF ExecutedDiffer, Hash, Unsigned
  <2>1. attempts'[i] = attempts[i] /\ attempts'[j] = attempts[j]
    BY <1>4, ExecutedSubmitted
  <2> QED
    BY <2>1 DEF ExecutedDiffer
<1>8. QED
  BY <1>2, <1>3, <1>4, <1>5, <1>7

\* An arrival changes no attempt but for its having arrived, and executes it
\* only if nothing of the same hash was executed.
LEMMA ArriveFacts ==
    ASSUME Types, ExecutedDiffer, NEW n \in 1..Len(attempts), Arrive(n)
    PROVE  /\ attempts' \in Seq(Submissions)
           /\ Len(attempts') = Len(attempts)
           /\ \A i \in 1..Len(attempts) :
                /\ attempts'[i].how = attempts[i].how
                /\ attempts'[i].tx = attempts[i].tx
                /\ attempts'[i].given = attempts[i].given
                /\ attempts'[i].at = attempts[i].at
           /\ chain' \in Seq(1..Len(attempts'))
           /\ ExecutedDiffer'
<1>1. attempts' = [attempts EXCEPT ![n] = [@ EXCEPT !.arrived = TRUE]]
  BY DEF Arrive
<1>2. attempts \in Seq(Submissions) /\ attempts[n] \in Submissions
  BY DEF Types
<1>3. [attempts[n] EXCEPT !.arrived = TRUE] \in Submissions
  BY <1>2 DEF Submissions
<1>4. attempts' \in Seq(Submissions) /\ Len(attempts') = Len(attempts)
  BY <1>1, <1>2, <1>3
<1>5. \A i \in 1..Len(attempts) :
        /\ attempts'[i].how = attempts[i].how
        /\ attempts'[i].tx = attempts[i].tx
        /\ attempts'[i].given = attempts[i].given
        /\ attempts'[i].at = attempts[i].at
  BY <1>1, <1>2 DEF Submissions
<1>6. /\ chain' \in Seq(1..Len(attempts))
      /\ \/ Executed' = Executed
         \/ Executed' = Executed \cup {n} /\ Taken(attempts[n].tx)
  <2>1. chain \in Seq(1..Len(attempts))
    BY DEF Types
  <2>2. CASE Taken(attempts[n].tx)
    <3>1. chain' = Append(chain, n)
      BY <2>2 DEF Arrive
    <3>2. /\ chain' \in Seq(1..Len(attempts)) /\ Len(chain') = Len(chain) + 1
          /\ \A i \in 1..Len(chain) : chain'[i] = chain[i]
          /\ chain'[Len(chain) + 1] = n
      BY <2>1, <3>1
    <3>3. 1..Len(chain') = 1..Len(chain) \cup {Len(chain) + 1}
      BY <2>1, <3>2
    <3>4. Executed' = Executed \cup {n}
      BY <3>2, <3>3 DEF Executed
    <3> QED
      BY <2>2, <3>2, <3>4
  <2>3. CASE ~Taken(attempts[n].tx)
    BY <2>1, <2>3 DEF Arrive, Executed
  <2> QED
    BY <2>2, <2>3
<1>7. ExecutedDiffer'
  <2> SUFFICES ASSUME NEW i \in Executed', NEW j \in Executed', i # j
               PROVE  Hash(attempts'[i].tx) # Hash(attempts'[j].tx)
    BY DEF ExecutedDiffer, Hash, Unsigned
  <2>1. Executed \subseteq 1..Len(attempts)
    BY ExecutedSubmitted
  <2>2. attempts'[i].tx = attempts[i].tx /\ attempts'[j].tx = attempts[j].tx
    BY <1>5, <1>6, <2>1
  <2>3. Hash(attempts[i].tx) # Hash(attempts[j].tx)
    BY <1>6 DEF ExecutedDiffer, Taken
  <2> QED
    BY <2>2, <2>3
<1>8. QED
  BY <1>4, <1>5, <1>6, <1>7
-----------------------------------------------------------------------------
(* Every step keeps the invariant.                                           *)

\* Signing adds to the signatures what Record adds to the signers.
LEMMA SigningKeeps ==
    ASSUME IInv, NEW k \in Keys, tx # NoTx, tx' = SignedWith(tx, k), Record(k), asked' = asked
    PROVE  /\ tx' \in Transactions /\ tx'.content = tx.content
           /\ SignersListed' /\ Unused' /\ WorkKept'
<1> DEFINE new == [by |-> k, over |-> Unsigned(tx)]
<1>1. tx \in Transactions /\ tx.signatures \in Seq(Signatures)
  BY DEF IInv, Types, Transactions
<1>2. /\ tx' \in Transactions /\ tx'.content = tx.content
      /\ tx'.signatures = Append(tx.signatures, new)
  BY <1>1, SignedFacts
<1>3. new \in Signatures
  BY <1>1, HashFacts DEF Signatures
<1>4. SignersListed'
  <2>1. signers' = signers \cup {new} /\ signers = {tx.signatures[i] : i \in 1..Len(tx.signatures)}
    BY DEF Record, IInv, SignersListed
  <2> HIDE DEF new
  <2>2. /\ Len(tx'.signatures) = Len(tx.signatures) + 1
        /\ \A i \in 1..Len(tx.signatures) : tx'.signatures[i] = tx.signatures[i]
        /\ tx'.signatures[Len(tx.signatures) + 1] = new
    BY <1>1, <1>2, <1>3
  <2>3. 1..Len(tx'.signatures) = 1..Len(tx.signatures) \cup {Len(tx.signatures) + 1}
    BY <1>1, <2>2
  <2> QED
    BY <2>1, <2>2, <2>3 DEF SignersListed
<1>5. Unused'
  BY <1>2, InUse DEF IInv, Unused
<1>6. WorkKept'
  <2>1. Difficulty(tx') = Work[tx'.content.payload] /\ Difficulty(tx) = Work[tx.content.payload]
    BY <1>1, <1>2, HashFacts
  <2> QED
    BY <1>2, <2>1 DEF IInv, WorkKept, Difficulty, Hash, Unsigned
<1>7. QED
  BY <1>2, <1>4, <1>5, <1>6

\* A submission of the transaction as it is, or of a fresh one.
LEMMA SubmittingKeeps ==
    ASSUME IInv, NEW how \in {"raw", "built", "fresh"}, NEW t \in Transactions,
           NEW given \in Nat, Submit(how, t, given), tx'.content = tx.content,
           how # "fresh" => tx # NoTx /\ t.content = tx.content,
           how = "fresh" => t.content = Content(ExpirationFor(given), 0)
    PROVE  /\ attempts' \in Seq(Submissions) /\ chain' \in Seq(1..Len(attempts'))
           /\ clock' = clock /\ asked' = asked
           /\ OneTransaction' /\ FreshContents' /\ ExecutedDiffer'
<1> DEFINE last == Len(attempts) + 1
<1>1. Types /\ Unused /\ OneTransaction /\ FreshContents /\ ExecutedDiffer
  BY DEF IInv
<1>2. /\ attempts' \in Seq(Submissions) /\ Len(attempts') = last
      /\ \A i \in 1..Len(attempts) : attempts'[i] = attempts[i]
      /\ attempts'[last].how = how /\ attempts'[last].tx = t
      /\ attempts'[last].given = given /\ attempts'[last].at = clock
      /\ clock' = clock /\ asked' = asked
      /\ chain' \in Seq(1..Len(attempts')) /\ ExecutedDiffer'
  BY <1>1, SubmitFacts
<1>3. 1..Len(attempts') = 1..Len(attempts) \cup {last}
  BY <1>1, <1>2, ExecutedSubmitted
<1> HIDE DEF last
<1>4. OneTransaction'
  <2>1. Nonces' = Nonces /\ tx.content.payload \in {0} \cup Nonces
    BY <1>1, <1>2 DEF Nonces, OneTransaction
  <2>2. tx # NoTx => tx' # NoTx
    BY <1>1, InUse DEF NoTx, Content
  <2>3. \A i \in 1..Len(attempts) :
          attempts[i].how \in {"raw", "built"} => tx # NoTx /\ OfOneTransaction(attempts[i].tx)
    BY <1>1 DEF OneTransaction
  <2>4. \A u : OfOneTransaction(u) <=> OfOneTransaction(u)'
    BY <2>1 DEF OfOneTransaction
  <2>5. how # "fresh" => OfOneTransaction(t)
    BY <2>1 DEF OfOneTransaction
  <2> QED
    BY <1>2, <1>3, <2>1, <2>2, <2>3, <2>4, <2>5 DEF OneTransaction, OfOneTransaction
<1>5. FreshContents'
  BY <1>1, <1>2, <1>3 DEF FreshContents, ExpirationFor
<1>6. QED
  BY <1>2, <1>4, <1>5

\* What is submitted keeps its invariants when only the transaction, the
\* difficulties or the clock change.
LEMMA SubmissionsKept ==
    ASSUME IInv, UNCHANGED <<attempts, chain>>, asked \subseteq asked',
           tx # NoTx => tx' # NoTx /\ tx'.content.expiration = tx.content.expiration,
           tx'.content.payload \in {0} \cup Nonces'
    PROVE  /\ attempts' \in Seq(Submissions) /\ chain' \in Seq(1..Len(attempts'))
           /\ OneTransaction' /\ FreshContents' /\ ExecutedDiffer'
<1>1. Nonces \subseteq Nonces'
  BY DEF Nonces
<1>2. OneTransaction'
  BY <1>1 DEF IInv, OneTransaction, OfOneTransaction
<1>3. FreshContents'
  BY DEF IInv, FreshContents, Content
<1>4. ExecutedDiffer'
  BY DEF IInv, ExecutedDiffer, Executed, Hash, Unsigned
<1>5. QED
  BY <1>2, <1>3, <1>4 DEF IInv, Types

LEMMA ComposeStep ==
    ASSUME IInv, NEW e \in Expirations, Compose(e)
    PROVE  IInv'
<1>1. /\ tx = NoTx /\ e \in Nat \ {0} /\ tx' = [content |-> Content(e, 0), signatures |-> <<>>]
      /\ UNCHANGED <<clock, asked, signers, attempts, chain>>
  BY TxSubmissionAssumption DEF Compose, NoTx
<1>2. tx' \in Transactions /\ tx'.content = Content(e, 0) /\ tx'.signatures = <<>>
  BY <1>1, TxSubmissionAssumption DEF Transactions, Contents, Content
<1>3. NoTx.content.expiration = 0 /\ NoTx.signatures = <<>>
  BY DEF NoTx, Content
<1>4. asked' = {} /\ Unused' /\ WorkKept'
  BY <1>1, <1>2, <1>3 DEF IInv, Unused, WorkKept, Content
<1>5. SignersListed'
  BY <1>1, <1>2, <1>3 DEF IInv, SignersListed
<1>6. tx'.content.payload \in {0} \cup Nonces'
  BY <1>2 DEF Content
<1>7. QED
  BY <1>1, <1>2, <1>4, <1>5, <1>6, SubmissionsKept DEF IInv, Types

LEMMA SignStep ==
    ASSUME IInv, NEW k \in Keys, Sign(k)
    PROVE  IInv'
<1>1. /\ tx # NoTx /\ tx' = SignedWith(tx, k) /\ Record(k)
      /\ UNCHANGED <<clock, asked, attempts, chain>>
  BY DEF Sign
<1>2. tx' \in Transactions /\ tx'.content = tx.content /\ SignersListed' /\ Unused' /\ WorkKept'
  BY <1>1, SigningKeeps
<1>3. tx' # NoTx
  BY <1>1, <1>2, InUse DEF IInv, NoTx, Content
<1>4. tx'.content.payload \in {0} \cup Nonces'
  BY <1>1, <1>2 DEF IInv, OneTransaction, Nonces
<1>5. QED
  BY <1>1, <1>2, <1>3, <1>4, SubmissionsKept DEF IInv, Types

LEMMA MineStep ==
    ASSUME IInv, NEW d \in Difficulties, Mine(d)
    PROVE  IInv'
<1>1. /\ tx # NoTx /\ tx' = Mined(tx, d) /\ asked' = asked \cup {d}
      /\ UNCHANGED <<clock, signers, attempts, chain>>
      /\ tx \in Transactions
  BY DEF Mine, IInv, Types
<1>2. /\ tx' \in Transactions /\ tx'.signatures = tx.signatures
      /\ tx'.content.expiration = tx.content.expiration
      /\ Difficulty(tx') >= d /\ Difficulty(tx') >= Difficulty(tx)
      /\ tx'.content.payload \in {tx.content.payload} \cup (IF d = 0 THEN {} ELSE {LeastNonce(d)})
  BY <1>1, MinedFacts
<1>3. tx' # NoTx /\ Unused'
  BY <1>1, <1>2, InUse DEF IInv, Unused, NoTx, Content
<1>4. SignersListed'
  BY <1>1, <1>2 DEF IInv, SignersListed
<1>5. WorkKept'
  <2>1. Difficulty(tx') \in Nat /\ Difficulty(tx) \in Nat /\ d \in Nat
        /\ \A c \in asked : c \in Nat /\ Difficulty(tx) >= c
    BY <1>1, <1>2, HashFacts, TxSubmissionAssumption DEF IInv, Types, WorkKept
  <2>2. \A c \in asked' : Difficulty(tx') >= c
    BY <1>1, <1>2, <2>1
  <2> QED
    BY <2>2 DEF WorkKept, Difficulty, Hash, Unsigned
<1>6. tx'.content.payload \in {0} \cup Nonces'
  BY <1>1, <1>2 DEF IInv, OneTransaction, Nonces
<1>7. asked' \subseteq Difficulties /\ IsFiniteSet(asked')
  BY <1>1, FS_AddElement DEF IInv, Types
<1>8. QED
  BY <1>1, <1>2, <1>3, <1>4, <1>5, <1>6, <1>7, SubmissionsKept DEF IInv, Types

LEMMA SendRawStep ==
    ASSUME IInv, SendRawTransaction
    PROVE  IInv'
<1>1. tx # NoTx /\ Submit("raw", tx, 0) /\ UNCHANGED <<tx, signers>>
  BY DEF SendRawTransaction
<1>2. /\ attempts' \in Seq(Submissions) /\ chain' \in Seq(1..Len(attempts'))
      /\ clock' = clock /\ asked' = asked
      /\ OneTransaction' /\ FreshContents' /\ ExecutedDiffer'
  BY <1>1, SubmittingKeeps DEF IInv, Types
<1>3. SignersListed' /\ Unused' /\ WorkKept'
  BY <1>1, <1>2 DEF IInv, SignersListed, Unused, WorkKept, Difficulty, Hash, Unsigned
<1>4. QED
  BY <1>1, <1>2, <1>3 DEF IInv, Types

LEMMA SignAndSendBuiltStep ==
    ASSUME IInv, NEW k \in Keys, SignAndSendBuilt(k)
    PROVE  IInv'
<1>1. tx # NoTx /\ tx' = SignedWith(tx, k) /\ Record(k) /\ Submit("built", tx', 0)
  BY DEF SignAndSendBuilt
<1>2. asked' = asked
  BY <1>1 DEF Submit
<1>3. tx' \in Transactions /\ tx'.content = tx.content /\ SignersListed' /\ Unused' /\ WorkKept'
  BY <1>1, <1>2, SigningKeeps
<1>4. /\ attempts' \in Seq(Submissions) /\ chain' \in Seq(1..Len(attempts'))
      /\ clock' = clock
      /\ OneTransaction' /\ FreshContents' /\ ExecutedDiffer'
  BY <1>1, <1>3, SubmittingKeeps
<1>5. QED
  BY <1>2, <1>3, <1>4 DEF IInv, Types

LEMMA SignAndSendStep ==
    ASSUME IInv, NEW k \in Keys, NEW given \in Expirations, SignAndSend(k, given)
    PROVE  IInv'
<1> DEFINE t == [NoTx EXCEPT !.content = Content(ExpirationFor(given), 0)]
<1>1. Submit("fresh", SignedWith(t, k), given) /\ UNCHANGED <<tx, signers>>
  BY DEF SignAndSend
<1>2. given \in Nat /\ ExpirationFor(given) \in Nat
  BY TxSubmissionAssumption DEF ExpirationFor, IInv, Types
<1>3. t \in Transactions /\ t.content = Content(ExpirationFor(given), 0)
  <2>1. t = [content |-> Content(ExpirationFor(given), 0), signatures |-> <<>>]
    BY DEF NoTx
  <2>2. Content(ExpirationFor(given), 0) \in Contents
    BY <1>2, TxSubmissionAssumption DEF Contents, Content
  <2> HIDE DEF t
  <2>3. <<>> \in Seq(Signatures)
    OBVIOUS
  <2> QED
    BY <2>1, <2>2, <2>3 DEF Transactions
<1> HIDE DEF t
<1>4. SignedWith(t, k) \in Transactions /\ SignedWith(t, k).content = t.content
  BY <1>3, SignedFacts
<1>5. /\ attempts' \in Seq(Submissions) /\ chain' \in Seq(1..Len(attempts'))
      /\ clock' = clock /\ asked' = asked
      /\ OneTransaction' /\ FreshContents' /\ ExecutedDiffer'
  BY <1>1, <1>2, <1>3, <1>4, SubmittingKeeps
<1>6. SignersListed' /\ Unused' /\ WorkKept'
  BY <1>1, <1>5 DEF IInv, SignersListed, Unused, WorkKept, Difficulty, Hash, Unsigned
<1>7. QED
  BY <1>1, <1>5, <1>6 DEF IInv, Types

LEMMA ArriveStep ==
    ASSUME IInv, NEW n \in 1..Len(attempts), Arrive(n)
    PROVE  IInv'
<1>1. UNCHANGED <<clock, tx, asked, signers>>
  BY DEF Arrive
<1>2. /\ attempts' \in Seq(Submissions) /\ Len(attempts') = Len(attempts)
      /\ \A i \in 1..Len(attempts) :
           /\ attempts'[i].how = attempts[i].how /\ attempts'[i].tx = attempts[i].tx
           /\ attempts'[i].given = attempts[i].given /\ attempts'[i].at = attempts[i].at
      /\ chain' \in Seq(1..Len(attempts')) /\ ExecutedDiffer'
  BY ArriveFacts DEF IInv
<1>3. OneTransaction'
  BY <1>1, <1>2 DEF IInv, OneTransaction, OfOneTransaction, Nonces
<1>4. FreshContents'
  BY <1>2 DEF IInv, FreshContents, Content
<1>5. SignersListed' /\ Unused' /\ WorkKept'
  BY <1>1 DEF IInv, SignersListed, Unused, WorkKept, Difficulty, Hash, Unsigned
<1>6. QED
  BY <1>1, <1>2, <1>3, <1>4, <1>5 DEF IInv, Types

\* Time passes, or nothing happens.
LEMMA IdleStep ==
    ASSUME IInv, Tick \/ UNCHANGED vars
    PROVE  IInv'
<1>1. UNCHANGED <<tx, asked, signers, attempts, chain>> /\ clock' \in Nat
  BY DEF Tick, vars, IInv, Types
<1>2. SignersListed' /\ Unused' /\ WorkKept'
  BY <1>1 DEF IInv, SignersListed, Unused, WorkKept, Difficulty, Hash, Unsigned
<1>3. tx'.content.payload \in {0} \cup Nonces'
  BY <1>1 DEF IInv, OneTransaction, Nonces
<1>4. OneTransaction' /\ FreshContents' /\ ExecutedDiffer'
  BY <1>1, <1>3, SubmissionsKept
<1>5. QED
  BY <1>1, <1>2, <1>4 DEF IInv, Types

LEMMA Inductive == Spec => []IInv
<1>1. IInv /\ [Next]_vars => IInv'
  <2> SUFFICES ASSUME IInv, [Next]_vars PROVE IInv'
    OBVIOUS
  <2> QED
    BY ComposeStep, SignStep, MineStep, SendRawStep, SignAndSendBuiltStep, SignAndSendStep,
       ArriveStep, IdleStep DEF Next
<1>2. QED
  BY InitIInv, <1>1, PTL DEF Spec
-----------------------------------------------------------------------------
(* The properties.                                                           *)

\* is_signed_by tells exactly who signed the transaction as it is now.
THEOREM SignersAlwaysKnown == Spec => []SignersKnown
<1>1. IInv => SignersKnown
  BY DEF IInv, SignersListed, SignersKnown, IsSignedBy
<1>2. QED
  BY <1>1, Inductive, PTL

\* Signing, and mining for less, never loses the work done by mine.
THEOREM WorkAlwaysKept == Spec => []WorkKept
<1>1. IInv => WorkKept
  BY DEF IInv
<1>2. QED
  BY <1>1, Inductive, PTL

\* sign_and_send_transaction called again with the same expiration, or again in
\* the same second, is executed once.
THEOREM FreshAlwaysOnce == Spec => []FreshExecutedOnce
<1>1. IInv => FreshExecutedOnce
  <2> SUFFICES ASSUME IInv, NEW i \in Executed, NEW j \in Executed,
                      attempts[i].how = "fresh", attempts[j].how = "fresh",
                      i # j, attempts[i].given = attempts[j].given
               PROVE  attempts[i].given = 0 /\ attempts[i].at # attempts[j].at
    BY DEF FreshExecutedOnce
  <2>1. i \in 1..Len(attempts) /\ j \in 1..Len(attempts)
    BY ExecutedSubmitted DEF IInv
  <2>2. attempts[i].tx \in Transactions /\ attempts[j].tx \in Transactions
    BY <2>1, AttemptTypes DEF IInv
  <2>3. attempts[i].tx.content # attempts[j].tx.content
    BY <2>2, HashFacts DEF IInv, ExecutedDiffer
  <2> QED
    BY <2>1, <2>3 DEF IInv, FreshContents
<1>2. QED
  BY <1>1, Inductive, PTL

\* As many payloads as difficulties above 0 the transaction was mined for, and
\* the one it had.
LEMMA NoncesCount ==
    ASSUME Types
    PROVE  /\ IsFiniteSet({0} \cup Nonces) /\ IsFiniteSet(asked \ {0})
           /\ Cardinality({0} \cup Nonces) \in Nat
           /\ Cardinality({0} \cup Nonces) <= 1 + Cardinality(asked \ {0})
<1> DEFINE mined == asked \ {0}
           nonce == [d \in mined |-> LeastNonce(d)]
<1>1. IsFiniteSet(mined) /\ Cardinality(mined) \in Nat
  BY FS_RemoveElement, FS_CardinalityType DEF Types
<1>2. nonce \in Surjection(mined, Nonces)
  BY DEF Nonces, Surjection
<1>3. IsFiniteSet(Nonces) /\ Cardinality(Nonces) <= Cardinality(mined) /\ Cardinality(Nonces) \in Nat
  BY <1>1, <1>2, FS_Surjection, FS_CardinalityType
<1>4. /\ IsFiniteSet(Nonces \cup {0})
      /\ Cardinality(Nonces \cup {0}) \in {Cardinality(Nonces), Cardinality(Nonces) + 1}
  BY <1>3, FS_AddElement
<1>5. {0} \cup Nonces = Nonces \cup {0}
  OBVIOUS
<1> HIDE DEF mined
<1>6. /\ IsFiniteSet({0} \cup Nonces)
      /\ Cardinality({0} \cup Nonces) \in {Cardinality(Nonces), Cardinality(Nonces) + 1}
  BY <1>4, <1>5
<1>7. Cardinality({0} \cup Nonces) \in Nat /\ Cardinality({0} \cup Nonces) <= 1 + Cardinality(mined)
  BY <1>1, <1>3, <1>6
<1>8. QED
  BY <1>1, <1>6, <1>7 DEF mined

\* A built transaction that is sent, signed and mined again is executed once
\* for every difficulty it was mined for, and once more.
THEOREM BuiltAlwaysOnce == Spec => []BuiltExecutedOnce
<1>1. IInv => BuiltExecutedOnce
  <2> SUFFICES ASSUME IInv PROVE BuiltExecutedOnce
    OBVIOUS
  <2> DEFINE ofBuilt == {i \in Executed : attempts[i].how \in {"built", "raw"}}
             payload == [i \in ofBuilt |-> attempts[i].tx.content.payload]
  <2>1. Types /\ OneTransaction /\ ExecutedDiffer
    BY DEF IInv
  <2>2. \A i \in ofBuilt : /\ attempts[i].tx \in Transactions
                           /\ OfOneTransaction(attempts[i].tx)
    <3> SUFFICES ASSUME NEW i \in ofBuilt
                 PROVE  attempts[i].tx \in Transactions /\ OfOneTransaction(attempts[i].tx)
      OBVIOUS
    <3>1. i \in 1..Len(attempts)
      BY <2>1, ExecutedSubmitted
    <3> QED
      BY <2>1, <3>1, AttemptTypes DEF OneTransaction
  <2>3. payload \in [ofBuilt -> {0} \cup Nonces]
    BY <2>2 DEF OfOneTransaction
  <2>4. ASSUME NEW i \in ofBuilt, NEW j \in ofBuilt, payload[i] = payload[j]
        PROVE  i = j
    <3> SUFFICES ASSUME i # j PROVE FALSE
      OBVIOUS
    <3>1. Hash(attempts[i].tx) # Hash(attempts[j].tx)
      BY <2>1 DEF ExecutedDiffer
    <3>2. /\ attempts[i].tx \in Transactions /\ attempts[j].tx \in Transactions
          /\ attempts[i].tx.content.expiration = attempts[j].tx.content.expiration
          /\ attempts[i].tx.content.payload = attempts[j].tx.content.payload
      BY <2>2, <2>4 DEF OfOneTransaction
    <3>3. attempts[i].tx.content = attempts[j].tx.content
      BY <3>2 DEF Transactions, Contents
    <3> QED
      BY <3>1, <3>2, <3>3, HashFacts
  <2>5. payload \in Injection(ofBuilt, {0} \cup Nonces)
    BY <2>3, <2>4 DEF Injection, IsInjective
  <2>6. IsFiniteSet({0} \cup Nonces)
    BY <2>1, NoncesCount
  <2>7. IsFiniteSet(ofBuilt) /\ Cardinality(ofBuilt) <= Cardinality({0} \cup Nonces)
    BY <2>5, <2>6, FS_Injection
  <2>8. Cardinality(ofBuilt) \in Nat /\ Cardinality(asked \ {0}) \in Nat
    BY <2>1, <2>7, NoncesCount, FS_CardinalityType
  <2>9. Cardinality(ofBuilt) <= 1 + Cardinality(asked \ {0})
    BY <2>1, <2>7, <2>8, NoncesCount
  <2> QED
    BY <2>9 DEF BuiltExecutedOnce
<1>2. QED
  BY <1>1, Inductive, PTL
=============================================================================
