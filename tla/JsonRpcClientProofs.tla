------------------------- MODULE JsonRpcClientProofs -------------------------
(* Proofs about JsonRpcClient: for any number of threads, calls and any size *)
(* limit, that an accepted answer carries the id of the call; for a single   *)
(* caller, that it is the answer to that very call.                          *)
EXTENDS JsonRpcClient, TLAPS

\* A thread inside call() has begun a call and holds an id.
Begun ==
    \A t \in Threads :
        pc[t] # "idle" => request_id[t] \in Nat /\ calls[t] \in 1..MaxCalls

IInv == TypeOK /\ Begun /\ AcceptedIdMatches

\* A new client satisfies the invariant.
LEMMA InitIInv == Init => IInv
<1> SUFFICES ASSUME Init PROVE IInv
  OBVIOUS
<1>1. NoOutcome \in Outcomes
  BY DEF NoOutcome, Outcomes, Kinds
<1>2. TypeOK
  BY <1>1, ClientAssumption DEF Init, TypeOK, Locations, None
<1>3. Begun
  BY DEF Init, Begun
<1>4. AcceptedIdMatches
  BY DEF Init, AcceptedIdMatches, Answered, NoOutcome
<1>5. QED
  BY <1>2, <1>3, <1>4 DEF IInv

\* Failures are outcomes, and none of them is an answer.
LEMMA RaisedFacts ==
    ASSUME NEW k \in {"rpc error", "transport"}
    PROVE  /\ Raised(k) \in Outcomes
           /\ Raised(k).kind = k
           /\ Raised(k) # NoOutcome
<1>1. Raised(k).kind = k /\ NoOutcome.kind = "none"
  BY DEF Raised, NoOutcome
<1>2. Raised(k) \in Outcomes
  BY DEF Raised, Outcomes, Kinds
<1>3. QED
  BY <1>1, <1>2

\* Accepted answers are outcomes too.
LEMMA AnswerFacts ==
    ASSUME NEW k \in {"result", "server error"}, NEW r, r.for \in sent
    PROVE  /\ Answer(k, r) \in Outcomes
           /\ Answer(k, r).kind = k /\ Answer(k, r).for = r.for
           /\ Answer(k, r) # NoOutcome
<1>1. Answer(k, r).kind = k /\ Answer(k, r).for = r.for /\ NoOutcome.kind = "none"
  BY DEF Answer, NoOutcome
<1>2. Answer(k, r) \in Outcomes
  BY DEF Answer, Outcomes, Kinds
<1>3. QED
  BY <1>1, <1>2

\* What a verdict can be, for a response that the endpoint may have sent.
LEMMA VerdictFacts ==
    ASSUME TypeOK, NEW t \in Threads
    PROVE  /\ Verdict(t) \in Outcomes
           /\ Verdict(t) # NoOutcome
           /\ Verdict(t).kind \in {"result", "server error"} =>
                /\ Verdict(t).for \in sent
                /\ Verdict(t).for.id = request_id[t]
<1> DEFINE r == response[t]
<1>1. r = NoResponse \/ r \in Responses
  BY DEF TypeOK
<1>2. r.body \in {"error", "error and result", "result"} => r.for \in sent
  <2>1. CASE r = NoResponse
    BY <2>1 DEF NoResponse
  <2>2. CASE r \in [body : {"oversized", "not json", "not object", "no id"},
                    for : {NoRequest}]
    BY <2>2
  <2>3. CASE r \in [body : {"neither", "error", "error and result", "result"},
                    for : sent]
    BY <2>3
  <2> HIDE DEF r
  <2> QED
    BY <1>1, <2>1, <2>2, <2>3 DEF Responses
<1>3. \/ Verdict(t) = Raised("rpc error")
      \/ /\ r.body \in {"error", "error and result"} /\ r.for.id = request_id[t]
         /\ Verdict(t) = Answer("server error", r)
      \/ /\ r.body = "result" /\ r.for.id = request_id[t]
         /\ Verdict(t) = Answer("result", r)
  BY DEF Verdict
<1> HIDE DEF r
<1>4. CASE Verdict(t) = Raised("rpc error")
  BY <1>4, RaisedFacts
<1>5. CASE /\ r.body \in {"error", "error and result"} /\ r.for.id = request_id[t]
           /\ Verdict(t) = Answer("server error", r)
  BY <1>2, <1>5, AnswerFacts
<1>6. CASE /\ r.body = "result" /\ r.for.id = request_id[t]
           /\ Verdict(t) = Answer("result", r)
  BY <1>2, <1>6, AnswerFacts
<1>7. QED
  BY <1>3, <1>4, <1>5, <1>6

\* The endpoint's requests only accumulate, so what was a response or an
\* outcome stays one.
LEMMA Monotone ==
    ASSUME sent \subseteq sent'
    PROVE  Responses \subseteq Responses' /\ Outcomes \subseteq Outcomes'
  BY DEF Responses, Outcomes

\* Steps of one thread.
LEMMA StepIInv ==
    ASSUME IInv, NEW t \in Threads, ReadId(t) \/ Step(t)
    PROVE  IInv'
<1> USE DEF Goto
<1>0. /\ TypeOK /\ Begun /\ AcceptedIdMatches
      /\ NoOutcome \in Outcomes /\ NoOutcome.kind = "none"
      /\ \A k \in {"rpc error", "transport"} :
           Raised(k) \in Outcomes /\ Raised(k).kind = k
  BY RaisedFacts DEF IInv, NoOutcome, Outcomes, Kinds
<1>1. CASE ReadId(t)
  <2>1. Responses \subseteq Responses' /\ Outcomes \subseteq Outcomes'
    BY <1>1, Monotone DEF ReadId
  <2>2. TypeOK'
    <3>1. pc' \in [Threads -> Locations] /\ pc \in [Threads -> Locations]
      BY <1>0, <1>1 DEF ReadId, TypeOK, Locations
    <3>2. outcome' \in [Threads -> Outcomes']
      BY <1>0, <1>1, <2>1 DEF ReadId, TypeOK
    <3>3. response' \in [Threads -> Responses' \cup {NoResponse}]
      BY <1>0, <1>1, <2>1 DEF ReadId, TypeOK
    <3>4. total' \in [Threads -> 0..max_response_bytes]
      BY <1>0, <1>1, ClientAssumption DEF ReadId, TypeOK
    <3>5. /\ calls' \in [Threads -> 0..MaxCalls]
          /\ request_id' \in [Threads -> Nat \cup {None}]
      <4>1. calls[t] \in 0..MaxCalls /\ _next_id \in Nat
        BY <1>0 DEF TypeOK
      <4>2. calls[t] < MaxCalls
        BY <1>1 DEF ReadId
      <4>3. calls[t] + 1 \in 0..MaxCalls
        BY <4>1, <4>2, ClientAssumption
      <4> QED
        BY <1>0, <1>1, <4>1, <4>3 DEF ReadId, TypeOK
    <3>6. _next_id' \in Nat /\ loaded' \in [Threads -> Nat \cup {None}]
      BY <1>0, <1>1 DEF ReadId, TypeOK, None
    <3>7. sent' \subseteq [by : Threads, call : 1..MaxCalls, id : Nat]
      BY <1>0, <1>1 DEF ReadId, TypeOK, Begun
    <3>8. open' \subseteq Threads
      BY <1>0, <1>1 DEF ReadId, TypeOK
    <3> QED
      BY <3>1, <3>2, <3>3, <3>4, <3>5, <3>6, <3>7, <3>8 DEF TypeOK
  <2>3. Begun'
    <3>1. calls[t] \in 0..MaxCalls /\ _next_id \in Nat
      BY <1>0 DEF TypeOK
    <3>2. calls[t] < MaxCalls
      BY <1>1 DEF ReadId
    <3>3. calls[t] + 1 \in 1..MaxCalls
      BY <3>1, <3>2, ClientAssumption
    <3> QED
      BY <1>0, <1>1, <3>1, <3>3 DEF ReadId, TypeOK, Begun
  <2>4. AcceptedIdMatches'
    BY <1>0, <1>1 DEF ReadId, TypeOK, AcceptedIdMatches, Answered
  <2>5. QED
    BY <2>2, <2>3, <2>4 DEF IInv
<1>2. CASE LoadId(t)
  <2>1. Responses \subseteq Responses' /\ Outcomes \subseteq Outcomes'
    BY <1>2, Monotone DEF LoadId
  <2>2. TypeOK'
    BY <1>0, <1>2, <2>1, ClientAssumption DEF LoadId, TypeOK, Begun, Locations
  <2>3. Begun'
    BY <1>0, <1>2, ClientAssumption DEF LoadId, TypeOK, Begun
  <2>4. AcceptedIdMatches'
    BY <1>0, <1>2 DEF LoadId, TypeOK, AcceptedIdMatches, Answered
  <2>5. QED
    BY <2>2, <2>3, <2>4 DEF IInv
<1>3. CASE StoreId(t)
  <2>1. Responses \subseteq Responses' /\ Outcomes \subseteq Outcomes'
    BY <1>3, Monotone DEF StoreId
  <2>2. TypeOK'
    <3>1. pc' \in [Threads -> Locations] /\ pc \in [Threads -> Locations]
      BY <1>0, <1>3 DEF StoreId, TypeOK, Locations
    <3>2. outcome' \in [Threads -> Outcomes']
      BY <1>0, <1>3, <2>1 DEF StoreId, TypeOK
    <3>3. response' \in [Threads -> Responses' \cup {NoResponse}]
      BY <1>0, <1>3, <2>1 DEF StoreId, TypeOK
    <3>4. total' \in [Threads -> 0..max_response_bytes]
      BY <1>0, <1>3, ClientAssumption DEF StoreId, TypeOK
    <3>5. /\ calls' \in [Threads -> 0..MaxCalls]
          /\ request_id' \in [Threads -> Nat \cup {None}]
      BY <1>0, <1>3, ClientAssumption DEF StoreId, TypeOK
    <3>6. _next_id' \in Nat /\ loaded' \in [Threads -> Nat \cup {None}]
      <4>1. loaded[t] \in Nat \cup {None}
        BY <1>0 DEF TypeOK
      <4>2. loaded[t] + 1 \in Nat
        BY <4>1 DEF None
      <4> QED
        BY <1>0, <1>3, <4>2 DEF StoreId, TypeOK
    <3>7. sent' \subseteq [by : Threads, call : 1..MaxCalls, id : Nat]
      BY <1>0, <1>3 DEF StoreId, TypeOK, Begun
    <3>8. open' \subseteq Threads
      BY <1>0, <1>3 DEF StoreId, TypeOK
    <3> QED
      BY <3>1, <3>2, <3>3, <3>4, <3>5, <3>6, <3>7, <3>8 DEF TypeOK
  <2>3. Begun'
    BY <1>0, <1>3, ClientAssumption DEF StoreId, None, TypeOK, Begun
  <2>4. AcceptedIdMatches'
    BY <1>0, <1>3 DEF StoreId, None, TypeOK, AcceptedIdMatches, Answered
  <2>5. QED
    BY <2>2, <2>3, <2>4 DEF IInv
<1>4. CASE Post(t)
  <2>1. Responses \subseteq Responses' /\ Outcomes \subseteq Outcomes'
    BY <1>4, Monotone DEF Post
  <2>2. TypeOK'
    <3>1. pc' \in [Threads -> Locations] /\ pc \in [Threads -> Locations]
      BY <1>0, <1>4 DEF Post, Mine, TypeOK, Locations
    <3>2. outcome' \in [Threads -> Outcomes']
      BY <1>0, <1>4, <2>1 DEF Post, Mine, TypeOK
    <3>3. response' \in [Threads -> Responses' \cup {NoResponse}]
      BY <1>0, <1>4, <2>1 DEF Post, Mine, TypeOK
    <3>4. total' \in [Threads -> 0..max_response_bytes]
      BY <1>0, <1>4, ClientAssumption DEF Post, Mine, TypeOK
    <3>5. /\ calls' \in [Threads -> 0..MaxCalls]
          /\ request_id' \in [Threads -> Nat \cup {None}]
      BY <1>0, <1>4, ClientAssumption DEF Post, Mine, TypeOK
    <3>6. _next_id' \in Nat /\ loaded' \in [Threads -> Nat \cup {None}]
      BY <1>0, <1>4 DEF Post, Mine, TypeOK, None
    <3>7. sent' \subseteq [by : Threads, call : 1..MaxCalls, id : Nat]
      <4>1. Mine(t) \in [by : Threads, call : 1..MaxCalls, id : Nat]
        BY <1>0, <1>4 DEF Post, Mine, Begun
      <4> QED
        BY <1>0, <1>4, <4>1 DEF Post, TypeOK
    <3>8. open' \subseteq Threads
      BY <1>0, <1>4 DEF Post, Mine, TypeOK
    <3> QED
      BY <3>1, <3>2, <3>3, <3>4, <3>5, <3>6, <3>7, <3>8 DEF TypeOK
  <2>3. Begun'
    BY <1>0, <1>4, ClientAssumption DEF Post, Mine, TypeOK, Begun
  <2>4. AcceptedIdMatches'
    BY <1>0, <1>4 DEF Post, Mine, TypeOK, AcceptedIdMatches, Answered
  <2>5. QED
    BY <2>2, <2>3, <2>4 DEF IInv
<1>5. CASE TransportError(t)
  <2>1. Responses \subseteq Responses' /\ Outcomes \subseteq Outcomes'
    BY <1>5, Monotone DEF TransportError
  <2>2. TypeOK'
    BY <1>0, <1>5, <2>1, ClientAssumption DEF TransportError, Ends, TypeOK, Begun, Locations
  <2>3. Begun'
    BY <1>0, <1>5, ClientAssumption DEF TransportError, Ends, TypeOK, Begun
  <2>4. AcceptedIdMatches'
    BY <1>0, <1>5 DEF TransportError, Ends, TypeOK, AcceptedIdMatches, Answered
  <2>5. QED
    BY <2>2, <2>3, <2>4 DEF IInv
<1>6. CASE Respond(t)
  <2>1. Responses \subseteq Responses' /\ Outcomes \subseteq Outcomes'
    BY <1>6, Monotone DEF Respond
  <2>2. TypeOK'
    BY <1>0, <1>6, <2>1, ClientAssumption DEF Respond, TypeOK, Begun, Locations
  <2>3. Begun'
    BY <1>0, <1>6, ClientAssumption DEF Respond, TypeOK, Begun
  <2>4. AcceptedIdMatches'
    BY <1>0, <1>6 DEF Respond, TypeOK, AcceptedIdMatches, Answered
  <2>5. QED
    BY <2>2, <2>3, <2>4 DEF IInv
<1>7. CASE CheckLength(t)
  <2>1. Responses \subseteq Responses' /\ Outcomes \subseteq Outcomes'
    BY <1>7, Monotone DEF CheckLength
  <2>2. TypeOK'
    BY <1>0, <1>7, <2>1, ClientAssumption DEF CheckLength, GiveUp, TypeOK, Begun, Locations
  <2>3. Begun'
    BY <1>0, <1>7, ClientAssumption DEF CheckLength, GiveUp, TypeOK, Begun
  <2>4. AcceptedIdMatches'
    BY <1>0, <1>7 DEF CheckLength, GiveUp, TypeOK, AcceptedIdMatches, Answered
  <2>5. QED
    BY <2>2, <2>3, <2>4 DEF IInv
<1>8. CASE ReadChunk(t)
  <2>1. Responses \subseteq Responses' /\ Outcomes \subseteq Outcomes'
    BY <1>8, Monotone DEF ReadChunk
  <2>2. TypeOK'
    <3>1. pc' \in [Threads -> Locations] /\ pc \in [Threads -> Locations]
      BY <1>0, <1>8 DEF ReadChunk, GiveUp, TypeOK, Locations
    <3>2. outcome' \in [Threads -> Outcomes']
      BY <1>0, <1>8, <2>1 DEF ReadChunk, GiveUp, TypeOK
    <3>3. response' \in [Threads -> Responses' \cup {NoResponse}]
      BY <1>0, <1>8, <2>1 DEF ReadChunk, GiveUp, TypeOK
    <3>4. total' \in [Threads -> 0..max_response_bytes]
      <4>1. ASSUME NEW size \in 1..MaxChunk, total[t] + size <= max_response_bytes
            PROVE  total[t] + size \in 0..max_response_bytes
        <5>1. total[t] \in 0..max_response_bytes
          BY <1>0 DEF TypeOK
        <5> QED
          BY <4>1, <5>1, ClientAssumption
      <4> QED
        BY <1>0, <1>8, <4>1 DEF ReadChunk, TypeOK
    <3>5. /\ calls' \in [Threads -> 0..MaxCalls]
          /\ request_id' \in [Threads -> Nat \cup {None}]
      BY <1>0, <1>8, ClientAssumption DEF ReadChunk, GiveUp, TypeOK
    <3>6. _next_id' \in Nat /\ loaded' \in [Threads -> Nat \cup {None}]
      BY <1>0, <1>8 DEF ReadChunk, GiveUp, TypeOK, None
    <3>7. sent' \subseteq [by : Threads, call : 1..MaxCalls, id : Nat]
      BY <1>0, <1>8 DEF ReadChunk, GiveUp, TypeOK, Begun
    <3>8. open' \subseteq Threads
      BY <1>0, <1>8 DEF ReadChunk, GiveUp, TypeOK
    <3> QED
      BY <3>1, <3>2, <3>3, <3>4, <3>5, <3>6, <3>7, <3>8 DEF TypeOK
  <2>3. Begun'
    BY <1>0, <1>8, ClientAssumption DEF ReadChunk, GiveUp, TypeOK, Begun
  <2>4. AcceptedIdMatches'
    BY <1>0, <1>8 DEF ReadChunk, GiveUp, TypeOK, AcceptedIdMatches, Answered
  <2>5. QED
    BY <2>2, <2>3, <2>4 DEF IInv
<1>9. CASE EndOfBody(t)
  <2>1. Responses \subseteq Responses' /\ Outcomes \subseteq Outcomes'
    BY <1>9, Monotone DEF EndOfBody
  <2>2. TypeOK'
    BY <1>0, <1>9, <2>1, ClientAssumption DEF EndOfBody, GiveUp, TypeOK, Begun, Locations
  <2>3. Begun'
    BY <1>0, <1>9, ClientAssumption DEF EndOfBody, GiveUp, TypeOK, Begun
  <2>4. AcceptedIdMatches'
    BY <1>0, <1>9 DEF EndOfBody, GiveUp, TypeOK, AcceptedIdMatches, Answered
  <2>5. QED
    BY <2>2, <2>3, <2>4 DEF IInv
<1>10. CASE StreamError(t)
  <2>1. Responses \subseteq Responses' /\ Outcomes \subseteq Outcomes'
    BY <1>10, Monotone DEF StreamError
  <2>2. TypeOK'
    BY <1>0, <1>10, <2>1, ClientAssumption DEF StreamError, GiveUp, TypeOK, Begun, Locations
  <2>3. Begun'
    BY <1>0, <1>10, ClientAssumption DEF StreamError, GiveUp, TypeOK, Begun
  <2>4. AcceptedIdMatches'
    BY <1>0, <1>10 DEF StreamError, GiveUp, TypeOK, AcceptedIdMatches, Answered
  <2>5. QED
    BY <2>2, <2>3, <2>4 DEF IInv
<1>11. CASE Close(t)
  <2>1. Responses \subseteq Responses' /\ Outcomes \subseteq Outcomes'
    BY <1>11, Monotone DEF Close
  <2>2. TypeOK'
    <3>1. pc' \in [Threads -> Locations] /\ pc \in [Threads -> Locations]
      BY <1>0, <1>11 DEF Close, Forget, TypeOK, Locations
    <3>2. outcome' \in [Threads -> Outcomes']
      BY <1>0, <1>11, <2>1 DEF Close, Forget, TypeOK
    <3>3. response' \in [Threads -> Responses' \cup {NoResponse}]
      BY <1>0, <1>11, <2>1 DEF Close, Forget, TypeOK
    <3>4. total' \in [Threads -> 0..max_response_bytes]
      <4>1. 0 \in 0..max_response_bytes
        BY ClientAssumption
      <4> QED
        BY <1>0, <1>11, <4>1 DEF Close, Forget, TypeOK
    <3>5. /\ calls' \in [Threads -> 0..MaxCalls]
          /\ request_id' \in [Threads -> Nat \cup {None}]
      BY <1>0, <1>11, ClientAssumption DEF Close, Forget, TypeOK
    <3>6. _next_id' \in Nat /\ loaded' \in [Threads -> Nat \cup {None}]
      BY <1>0, <1>11 DEF Close, Forget, TypeOK, None
    <3>7. sent' \subseteq [by : Threads, call : 1..MaxCalls, id : Nat]
      BY <1>0, <1>11 DEF Close, Forget, TypeOK, Begun
    <3>8. open' \subseteq Threads
      BY <1>0, <1>11 DEF Close, Forget, TypeOK
    <3> QED
      BY <3>1, <3>2, <3>3, <3>4, <3>5, <3>6, <3>7, <3>8 DEF TypeOK
  <2>3. Begun'
    BY <1>0, <1>11, ClientAssumption DEF Close, Forget, TypeOK, Begun
  <2>4. AcceptedIdMatches'
    BY <1>0, <1>11 DEF Close, Forget, TypeOK, AcceptedIdMatches, Answered
  <2>5. QED
    BY <2>2, <2>3, <2>4 DEF IInv
<1>12. CASE Validate(t)
  <2>1. Responses \subseteq Responses' /\ Outcomes \subseteq Outcomes'
    BY <1>12, Monotone DEF Validate
  <2>2. TypeOK'
    <3>1. pc' \in [Threads -> Locations] /\ pc \in [Threads -> Locations]
      BY <1>0, <1>12 DEF Validate, Forget, Ends, TypeOK, Locations
    <3>2. outcome' \in [Threads -> Outcomes']
      BY <1>0, <1>12, <2>1, VerdictFacts DEF Validate, Forget, Ends, TypeOK
    <3>3. response' \in [Threads -> Responses' \cup {NoResponse}]
      BY <1>0, <1>12, <2>1 DEF Validate, Forget, Ends, TypeOK
    <3>4. total' \in [Threads -> 0..max_response_bytes]
      <4>1. 0 \in 0..max_response_bytes
        BY ClientAssumption
      <4> QED
        BY <1>0, <1>12, <4>1 DEF Validate, Forget, Ends, TypeOK
    <3>5. /\ calls' \in [Threads -> 0..MaxCalls]
          /\ request_id' \in [Threads -> Nat \cup {None}]
      BY <1>0, <1>12, ClientAssumption DEF Validate, Forget, Ends, TypeOK
    <3>6. _next_id' \in Nat /\ loaded' \in [Threads -> Nat \cup {None}]
      BY <1>0, <1>12 DEF Validate, Forget, Ends, TypeOK, None
    <3>7. sent' \subseteq [by : Threads, call : 1..MaxCalls, id : Nat]
      BY <1>0, <1>12 DEF Validate, Forget, Ends, TypeOK, Begun
    <3>8. open' \subseteq Threads
      BY <1>0, <1>12 DEF Validate, Forget, Ends, TypeOK
    <3> QED
      BY <3>1, <3>2, <3>3, <3>4, <3>5, <3>6, <3>7, <3>8 DEF TypeOK
  <2>3. Begun'
    BY <1>0, <1>12, ClientAssumption DEF Validate, Forget, Ends, TypeOK, Begun
  <2>4. AcceptedIdMatches'
    BY <1>0, <1>12, VerdictFacts DEF Validate, Forget, Ends, TypeOK, AcceptedIdMatches, Answered
  <2>5. QED
    BY <2>2, <2>3, <2>4 DEF IInv
<1>13. QED
  BY <1>1, <1>2, <1>3, <1>4, <1>5, <1>6, <1>7, <1>8, <1>9, <1>10, <1>11,
     <1>12 DEF Step

\* The inductive invariant holds in every state.
LEMMA Inductive == Spec => []IInv
<1>1. IInv /\ [Next]_vars => IInv'
  <2> SUFFICES ASSUME IInv, [Next]_vars PROVE IInv'
    OBVIOUS
  <2>1. CASE Next
    BY <2>1, StepIInv DEF Next
  <2>2. CASE UNCHANGED vars
    BY <2>2 DEF vars, IInv, TypeOK, Begun, AcceptedIdMatches, Answered,
                Responses, Outcomes
  <2>3. QED
    BY <2>1, <2>2
<1>2. QED
  BY InitIInv, <1>1, PTL DEF Spec

\* Every variable of the client keeps its type: in particular no body ever
\* counts past max_response_bytes, and no response or outcome carries a
\* request that was not sent.
THEOREM TypeCorrect == Spec => []TypeOK
<1>1. IInv => TypeOK
  BY DEF IInv
<1>2. QED
  BY Inductive, <1>1, PTL

\* With any number of threads, the answer a call accepts carries this call's
\* id and was made for a request that was sent.
THEOREM AcceptedAlwaysMatches == Spec => []AcceptedIdMatches
<1>1. IInv => AcceptedIdMatches
  BY DEF IInv
<1>2. QED
  BY Inductive, <1>1, PTL

\* One thread's step opens a response only as it gets one, and closes it on
\* every way on from there.
LEMMA StepClosed ==
    ASSUME TypeOK, ResponsesClosed, NEW t \in Threads, ReadId(t) \/ Step(t)
    PROVE  ResponsesClosed'
<1> DEFINE Held == {"headers", "reading", "closing"}
<1>1. /\ pc \in [Threads -> Locations]
      /\ \A u \in Threads : u \in open <=> pc[u] \in Held
  BY DEF TypeOK, ResponsesClosed
<1> SUFFICES \A u \in Threads : u \in open' <=> pc'[u] \in Held
  BY DEF ResponsesClosed
<1> USE DEF Goto
<1>2. CASE \/ ReadId(t) \/ LoadId(t) \/ StoreId(t) \/ Post(t) \/ TransportError(t)
  <2>1. open' = open
    BY <1>2 DEF ReadId, LoadId, StoreId, Post, TransportError
  <2>2. \E to \in Locations \ Held : pc' = [pc EXCEPT ![t] = to]
    BY <1>2 DEF ReadId, LoadId, StoreId, Post, TransportError, Ends, Locations
  <2>3. pc[t] \notin Held
    BY <1>2 DEF ReadId, LoadId, StoreId, Post, TransportError
  <2> QED
    BY <1>1, <2>1, <2>2, <2>3
<1>3. CASE Respond(t)
  BY <1>1, <1>3 DEF Respond
<1>4. CASE CheckLength(t) \/ ReadChunk(t) \/ EndOfBody(t) \/ StreamError(t)
  <2>1. open' = open
    BY <1>4 DEF CheckLength, ReadChunk, EndOfBody, StreamError
  <2>2. pc' = pc \/ \E to \in Held : pc' = [pc EXCEPT ![t] = to]
    BY <1>4 DEF CheckLength, ReadChunk, EndOfBody, StreamError, GiveUp
  <2>3. pc[t] \in Held
    BY <1>4 DEF CheckLength, ReadChunk, EndOfBody, StreamError, GiveUp
  <2> QED
    BY <1>1, <2>1, <2>2, <2>3
<1>5. CASE Close(t)
  <2>1. open' = open \ {t}
    BY <1>5 DEF Close
  <2>2. \E to \in Locations \ Held : pc' = [pc EXCEPT ![t] = to]
    BY <1>5 DEF Close, Locations
  <2> QED
    BY <1>1, <2>1, <2>2
<1>6. CASE Validate(t)
  BY <1>1, <1>6 DEF Validate, Ends
<1>7. QED
  BY <1>2, <1>3, <1>4, <1>5, <1>6 DEF Step

\* For any number of threads, a response is open only while call() is handling
\* it: no way out of call(), whatever the endpoint sent, leaves one open.
THEOREM ResponsesAlwaysClosed == Spec => []ResponsesClosed
<1>1. Init => ResponsesClosed
  BY DEF Init, ResponsesClosed
<1>2. TypeOK /\ ResponsesClosed /\ [Next]_vars => ResponsesClosed'
  <2> SUFFICES ASSUME TypeOK, ResponsesClosed, [Next]_vars PROVE ResponsesClosed'
    OBVIOUS
  <2>1. CASE Next
    BY <2>1, StepClosed DEF Next
  <2>2. CASE UNCHANGED vars
    BY <2>2 DEF vars, ResponsesClosed
  <2> QED
    BY <2>1, <2>2
<1>3. QED
  BY TypeCorrect, <1>1, <1>2, PTL DEF Spec

-----------------------------------------------------------------------------
(* One caller: the counter is then read, loaded and stored without another  *)
(* thread between, so ids only grow.                                        *)

OneCaller == \A s, t \in Threads : s = t

Waiting == {"posted", "headers", "reading", "closing", "parsed"}

\* Where the ids are, at each point of call().
IdInv ==
    /\ \A p \in sent : p.id < _next_id
    /\ \A t \in Threads :
        /\ pc[t] \in {"claimed", "loaded"} => request_id[t] = _next_id
        /\ pc[t] = "loaded" => loaded[t] = _next_id
        /\ pc[t] = "ready" => /\ request_id[t] < _next_id
                              /\ \A p \in sent : p.id < request_id[t]
        /\ pc[t] \in Waiting => Mine(t) \in sent

OneInv == IInv /\ IdInv /\ IdsUnique /\ OwnAnswer

\* A new client satisfies the invariant of one caller.
LEMMA InitOneInv == Init => OneInv
<1> SUFFICES ASSUME Init PROVE OneInv
  OBVIOUS
<1>1. IdInv
  BY DEF Init, IdInv, Waiting
<1>2. IdsUnique
  BY DEF Init, IdsUnique
<1>3. OwnAnswer
  BY DEF Init, OwnAnswer, Answered, NoOutcome
<1>4. QED
  BY InitIInv, <1>1, <1>2, <1>3 DEF OneInv

\* One caller's steps keep its ids in order: the counter it read is the one it
\* stores, since no other thread comes between.
LEMMA StepOneInv ==
    ASSUME OneCaller, OneInv, NEW t \in Threads, ReadId(t) \/ Step(t)
    PROVE  OneInv'
<1> USE DEF Goto
<1>0. /\ IInv /\ IInv' /\ TypeOK /\ Begun /\ IdInv /\ IdsUnique /\ OwnAnswer
      /\ \A u \in Threads : u = t
  BY StepIInv DEF OneInv, IInv, OneCaller
<1>a. /\ _next_id \in Nat
      /\ request_id[t] \in Nat \cup {None}
      /\ \A p \in sent : p.id \in Nat
      /\ pc[t] # "idle" => request_id[t] \in Nat
  BY <1>0 DEF TypeOK, Begun
<1>b. /\ DOMAIN pc = Threads /\ DOMAIN calls = Threads /\ DOMAIN request_id = Threads
      /\ DOMAIN loaded = Threads /\ DOMAIN outcome = Threads
      /\ DOMAIN response = Threads
  BY <1>0 DEF TypeOK
<1>c. /\ NoOutcome.kind = "none"
      /\ \A k \in {"rpc error", "transport"} : Raised(k).kind = k
  BY DEF NoOutcome, Raised
<1>1. CASE ReadId(t)
  <2>1. IdInv'
    BY <1>0, <1>a, <1>b, <1>1 DEF ReadId, IdInv, Waiting, TypeOK
  <2>2. IdsUnique'
    BY <1>0, <1>1 DEF ReadId, IdsUnique
  <2>3. OwnAnswer'
    BY <1>0, <1>b, <1>c, <1>1 DEF ReadId, OwnAnswer, Answered
  <2> QED
    BY <1>0, <2>1, <2>2, <2>3 DEF OneInv
<1>2. CASE LoadId(t)
  <2>1. IdInv'
    BY <1>0, <1>a, <1>b, <1>2 DEF LoadId, IdInv, Waiting
  <2>2. IdsUnique' /\ OwnAnswer'
    BY <1>0, <1>2 DEF LoadId, IdsUnique, OwnAnswer, Answered
  <2> QED
    BY <1>0, <2>1, <2>2 DEF OneInv
<1>3. CASE StoreId(t)
  <2>1. IdInv'
    BY <1>0, <1>a, <1>b, <1>3 DEF StoreId, IdInv, Waiting
  <2>2. IdsUnique' /\ OwnAnswer'
    BY <1>0, <1>3 DEF StoreId, IdsUnique, OwnAnswer, Answered
  <2> QED
    BY <1>0, <2>1, <2>2 DEF OneInv
<1>4. CASE Post(t)
  <2>1. Mine(t).id = request_id[t] /\ Mine(t)' = Mine(t)
    BY <1>4 DEF Post, Mine
  <2>2. /\ request_id[t] < _next_id
        /\ \A p \in sent : p.id < request_id[t] /\ p.id < _next_id
    BY <1>0, <1>4 DEF Post, IdInv
  <2>3. IdInv'
    BY <1>0, <1>a, <1>b, <1>4, <2>1, <2>2 DEF Post, IdInv, Waiting
  <2>4. IdsUnique'
    BY <1>0, <1>a, <1>4, <2>1, <2>2 DEF Post, IdsUnique
  <2>5. OwnAnswer'
    BY <1>0, <1>4 DEF Post, OwnAnswer, Answered
  <2> QED
    BY <1>0, <2>3, <2>4, <2>5 DEF OneInv
<1>5. CASE TransportError(t)
  <2>1. IdInv'
    BY <1>0, <1>b, <1>5 DEF TransportError, Ends, IdInv, Waiting
  <2>2. IdsUnique'
    BY <1>0, <1>5 DEF TransportError, IdsUnique
  <2>3. OwnAnswer'
    BY <1>0, <1>b, <1>c, <1>5 DEF TransportError, Ends, OwnAnswer, Answered
  <2> QED
    BY <1>0, <2>1, <2>2, <2>3 DEF OneInv
<1>6. CASE \/ Respond(t) \/ CheckLength(t) \/ ReadChunk(t) \/ EndOfBody(t)
           \/ StreamError(t) \/ Close(t)
  <2>1. /\ UNCHANGED <<_next_id, calls, request_id, loaded, sent>>
        /\ pc[t] \in Waiting
        /\ \/ UNCHANGED pc
           \/ \E to \in Waiting \cup {"idle"} : pc' = [pc EXCEPT ![t] = to]
        /\ \/ UNCHANGED outcome
           \/ outcome' = [outcome EXCEPT ![t] = Raised("rpc error")]
    BY <1>6 DEF Respond, CheckLength, ReadChunk, EndOfBody, StreamError, Close,
                GiveUp, Waiting
  <2>2. IdInv'
    BY <1>0, <1>b, <2>1 DEF IdInv, Waiting, Mine
  <2>3. IdsUnique'
    BY <1>0, <2>1 DEF IdsUnique
  <2>4. OwnAnswer'
    BY <1>0, <1>b, <1>c, <2>1 DEF OwnAnswer, Answered
  <2> QED
    BY <1>0, <2>2, <2>3, <2>4 DEF OneInv
<1>7. CASE Validate(t)
  <2>1. IdInv'
    BY <1>0, <1>b, <1>7 DEF Validate, Ends, IdInv, Waiting
  <2>2. IdsUnique'
    BY <1>0, <1>7 DEF Validate, IdsUnique
  <2>3. ASSUME Verdict(t).kind \in {"result", "server error"}
        PROVE  Verdict(t).for.by = t /\ Verdict(t).for.call = calls[t]
    <3>1. Verdict(t).for \in sent /\ Verdict(t).for.id = request_id[t]
      BY <1>0, <2>3, VerdictFacts
    <3>2. Mine(t) \in sent /\ Mine(t).id = request_id[t]
      BY <1>0, <1>7 DEF Validate, Ends, IdInv, Waiting, Mine
    <3>3. Verdict(t).for = Mine(t)
      BY <1>0, <3>1, <3>2 DEF IdsUnique
    <3> QED
      BY <3>3 DEF Mine
  <2>4. OwnAnswer'
    BY <1>0, <1>b, <1>7, <2>3 DEF Validate, Ends, OwnAnswer, Answered
  <2> QED
    BY <1>0, <2>1, <2>2, <2>4 DEF OneInv
<1>8. QED
  BY <1>1, <1>2, <1>3, <1>4, <1>5, <1>6, <1>7 DEF Step

\* The invariant of one caller holds in every state.
LEMMA OneInductive == ASSUME OneCaller PROVE Spec => []OneInv
<1>1. OneInv /\ [Next]_vars => OneInv'
  <2> SUFFICES ASSUME OneInv, [Next]_vars PROVE OneInv'
    OBVIOUS
  <2>1. CASE Next
    BY <2>1, StepOneInv, OneCaller DEF Next
  <2>2. CASE UNCHANGED vars
    BY <2>2 DEF vars, OneInv, IInv, TypeOK, Begun, AcceptedIdMatches, Answered,
                Responses, Outcomes, IdInv, IdsUnique, OwnAnswer, Mine, Waiting
  <2>3. QED
    BY <2>1, <2>2
<1>2. QED
  BY InitOneInv, <1>1, PTL DEF Spec

\* With one caller no id is given to two requests.
THEOREM IdsAlwaysUnique == ASSUME OneCaller PROVE Spec => []IdsUnique
<1>1. OneInv => IdsUnique
  BY DEF OneInv
<1>2. QED
  BY OneInductive, <1>1, PTL

\* With one caller, whatever stale or mixed-up responses the endpoint sends,
\* an answer that call() accepts is the answer to that call.
THEOREM AlwaysOwnAnswer == ASSUME OneCaller PROVE Spec => []OwnAnswer
<1>1. OneInv => OwnAnswer
  BY DEF OneInv
<1>2. QED
  BY OneInductive, <1>1, PTL

-----------------------------------------------------------------------------
(* One caller's steps are those of the request/reply service.  (That each   *)
(* call returns is the run's, not a theorem: it needs fairness.)            *)

Busy == [u \in Threads |-> pc[u] # "idle"]
Reply == [u \in Threads |->
            IF pc[u] = "idle" /\ Answered(u) THEN outcome[u].for.call ELSE 0]

\* A new client is an idle service.
LEMMA ServiceInit == Init => Service!Init
<1> SUFFICES ASSUME Init PROVE Service!Init
  OBVIOUS
<1>1. Busy = [u \in Threads |-> FALSE]
  BY DEF Init, Busy
<1>2. Reply = [u \in Threads |-> 0]
  BY DEF Init, Reply, Answered, NoOutcome
<1>3. calls = [u \in Threads |-> 0]
  BY DEF Init
<1>4. QED
  BY <1>1, <1>2, <1>3 DEF Service!Init, Busy, Reply

\* Beginning a call, staying inside it, and leaving it.
LEMMA ServiceStep ==
    ASSUME OneInv, OneInv', NEW t \in Threads, ReadId(t) \/ Step(t)
    PROVE  Service!Next \/ UNCHANGED <<Busy, calls, Reply>>
<1> USE DEF Goto
<1>1. /\ DOMAIN pc = Threads /\ DOMAIN outcome = Threads
      /\ calls \in [Threads -> 0..MaxCalls]
      /\ OwnAnswer' /\ OwnAnswer
  BY DEF OneInv, IInv, TypeOK
<1>2. CASE ReadId(t)
  <2>1. Busy' = [Busy EXCEPT ![t] = TRUE] /\ ~Busy[t]
    BY <1>1, <1>2 DEF ReadId, Busy
  <2>2. calls' = [calls EXCEPT ![t] = @ + 1] /\ calls[t] < MaxCalls
    BY <1>2 DEF ReadId
  <2>3. Reply' = [Reply EXCEPT ![t] = 0]
    BY <1>1, <1>2 DEF ReadId, Reply, Answered
  <2>4. Service!Begin(t)
    BY <2>1, <2>2, <2>3 DEF Service!Begin, Busy, Reply
  <2> QED
    BY <2>4 DEF Service!Next
<1>3. CASE Step(t)
  <2>1. /\ UNCHANGED calls
        /\ pc[t] # "idle"
        /\ \/ UNCHANGED pc
           \/ \E to \in Locations : pc' = [pc EXCEPT ![t] = to]
        /\ \/ UNCHANGED outcome
           \/ \E o : outcome' = [outcome EXCEPT ![t] = o]
    BY <1>3 DEF Step, LoadId, StoreId, Post, TransportError, Respond, CheckLength,
                ReadChunk, EndOfBody, StreamError, Close, Validate, Ends, GiveUp,
                Locations
  <2>2. CASE pc'[t] # "idle"
    <3>1. Busy' = Busy
      BY <1>1, <2>1, <2>2 DEF Busy
    <3>2. Reply' = Reply
      BY <1>1, <2>1, <2>2 DEF Reply, Answered
    <3> QED
      BY <2>1, <3>1, <3>2
  <2>3. CASE pc'[t] = "idle"
    <3>1. Busy[t] /\ Busy' = [Busy EXCEPT ![t] = FALSE]
      BY <1>1, <2>1, <2>3 DEF Busy
    <3>2. PICK answer \in {0, calls[t]} : Reply' = [Reply EXCEPT ![t] = answer]
      <4>1. Reply'[t] \in {0, calls[t]}
        BY <1>1, <2>1 DEF Reply, Answered, OwnAnswer
      <4>2. \A u \in Threads \ {t} : Reply'[u] = Reply[u]
        BY <1>1, <2>1 DEF Reply, Answered
      <4>3. Reply' = [Reply EXCEPT ![t] = Reply'[t]]
        BY <4>2 DEF Reply
      <4> QED
        BY <4>1, <4>3
    <3>3. Service!Return(t)
      BY <2>1, <3>1, <3>2 DEF Service!Return, Busy, Reply
    <3> QED
      BY <3>3 DEF Service!Next
  <2> QED
    BY <2>2, <2>3
<1>4. QED
  BY <1>2, <1>3

\* One caller sees a request/reply service: every step of call(), and of an
\* endpoint that answers as it likes, begins a call, ends one with a failure
\* or with that call's answer, or is not seen.
THEOREM CallsImplementService ==
    ASSUME OneCaller
    PROVE  Spec => Service!Init /\ [][Service!Next]_(Service!vars)
<1>1. Init => Service!Init
  BY ServiceInit
<1>2. OneInv /\ OneInv' /\ [Next]_vars => [Service!Next]_(Service!vars)
  <2> SUFFICES ASSUME OneInv, OneInv', [Next]_vars
               PROVE  Service!Next \/ UNCHANGED Service!vars
    OBVIOUS
  <2>1. CASE Next
    <3>1. Service!Next \/ UNCHANGED <<Busy, calls, Reply>>
      BY <2>1, ServiceStep DEF Next
    <3> QED
      BY <3>1 DEF Service!vars, Busy, Reply
  <2>2. CASE UNCHANGED vars
    BY <2>2 DEF vars, Service!vars, Answered
  <2> QED
    BY <2>1, <2>2
<1>3. QED
  BY OneInductive, <1>1, <1>2, PTL DEF Spec
=============================================================================
