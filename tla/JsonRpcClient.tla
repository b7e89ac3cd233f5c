---------------------------- MODULE JsonRpcClient ----------------------------
(***************************************************************************)
(* rpc.JsonRpcClient.call, run by several threads that share one client,   *)
(* against an HTTP endpoint that may lose a request, break off a response, *)
(* send one of any length and shape, or send the answer to another request *)
(* (a stale or mixed-up response from a cache or proxy).                   *)
(*                                                                         *)
(* A request is known by <<thread, number of the call>>.  The endpoint     *)
(* answers with the id of the request it answers, or with no id.           *)
(***************************************************************************)
EXTENDS Integers

CONSTANTS
    Threads,            \* callers sharing the client
    max_response_bytes, \* the client's limit, in units of the smallest chunk
    MaxChunk,           \* largest chunk iter_content yields, in those units
    MaxCalls            \* bound: calls per thread

ASSUME ClientAssumption ==
    /\ max_response_bytes \in Nat \ {0}     \* else the constructor raises
    /\ MaxChunk \in Nat \ {0}
    /\ MaxCalls \in Nat

VARIABLES
    _next_id,   \* the shared counter
    pc,         \* where each thread is in call()
    calls,      \* calls begun by each thread
    request_id, \* the thread's local request_id
    loaded,     \* the counter value its += has read
    sent,       \* history: requests that reached the endpoint
    open,       \* threads whose response is not closed
    response,   \* the response being handled: headers and body
    total,      \* body bytes read so far
    outcome     \* what call() returned or raised last

vars == <<_next_id, pc, calls, request_id, loaded, sent, open, response,
          total, outcome>>

None == -1

\* The request a thread is making.
Mine(t) == [by |-> t, call |-> calls[t], id |-> request_id[t]]

\* A response that cannot be accepted: its Content-Length is over the limit,
\* its body is not JSON, not an object, or has no id (absent or null).
\* Otherwise it echoes the id of the request it answers, and has an error, a
\* result, both or neither.  The HTTP status only words the RPCError.
NoRequest == [by |-> None, call |-> 0, id |-> None]
NoResponse == [body |-> "none", for |-> NoRequest]

Responses ==
    [body : {"oversized", "not json", "not object", "no id"}, for : {NoRequest}]
    \cup [body : {"neither", "error", "error and result", "result"}, for : sent]

\* kind: "result" and "server error" carry an answer; "rpc error" is an
\* RPCError of the client's own; "transport" is an exception of requests.
NoOutcome == [kind |-> "none", for |-> NoRequest]
Raised(kind) == [kind |-> kind, for |-> NoRequest]
Answer(kind, r) == [kind |-> kind, for |-> r.for]

Init ==
    /\ _next_id = 0
    /\ pc = [t \in Threads |-> "idle"]
    /\ calls = [t \in Threads |-> 0]
    /\ request_id = [t \in Threads |-> None]
    /\ loaded = [t \in Threads |-> None]
    /\ sent = {}
    /\ open = {}
    /\ response = [t \in Threads |-> NoResponse]
    /\ total = [t \in Threads |-> 0]
    /\ outcome = [t \in Threads |-> NoOutcome]

Goto(t, from, to) == pc[t] = from /\ pc' = [pc EXCEPT ![t] = to]

Ends(t, from, o) ==
    /\ Goto(t, from, "idle")
    /\ outcome' = [outcome EXCEPT ![t] = o]

-----------------------------------------------------------------------------
(* Claiming an id: request_id = str(_next_id); _next_id += 1.  Nothing      *)
(* keeps another thread out between the two reads and the write.            *)

ReadId(t) ==
    /\ Goto(t, "idle", "claimed")
    /\ calls[t] < MaxCalls
    /\ calls' = [calls EXCEPT ![t] = @ + 1]
    /\ request_id' = [request_id EXCEPT ![t] = _next_id]
    /\ outcome' = [outcome EXCEPT ![t] = NoOutcome]
    /\ UNCHANGED <<_next_id, loaded, sent, open, response, total>>

LoadId(t) ==
    /\ Goto(t, "claimed", "loaded")
    /\ loaded' = [loaded EXCEPT ![t] = _next_id]
    /\ UNCHANGED <<_next_id, calls, request_id, sent, open, response, total, outcome>>

\* A slip of StoreId: the counter is written back as it was read.
StoreIdUnchanged(t) ==
    /\ Goto(t, "loaded", "ready")
    /\ _next_id' = loaded[t]
    /\ loaded' = [loaded EXCEPT ![t] = None]
    /\ UNCHANGED <<calls, request_id, sent, open, response, total, outcome>>

StoreId(t) ==
    /\ Goto(t, "loaded", "ready")
    /\ _next_id' = loaded[t] + 1
    /\ loaded' = [loaded EXCEPT ![t] = None]
    /\ UNCHANGED <<calls, request_id, sent, open, response, total, outcome>>

-----------------------------------------------------------------------------
(* session.post, which is outside the try statement.                       *)

Post(t) ==
    /\ Goto(t, "ready", "posted")
    /\ sent' = sent \cup {Mine(t)}
    /\ UNCHANGED <<_next_id, calls, request_id, loaded, open, response, total, outcome>>

\* Refused, reset or timed out, before or after the request arrived.
TransportError(t) ==
    /\ pc[t] \in {"ready", "posted"}
    /\ Ends(t, pc[t], Raised("transport"))
    /\ UNCHANGED <<_next_id, calls, request_id, loaded, sent, open, response, total>>

\* The endpoint's headers arrive, with the whole of the response it will send.
Respond(t) ==
    /\ Goto(t, "posted", "headers")
    /\ \E r \in Responses : response' = [response EXCEPT ![t] = r]
    /\ open' = open \cup {t}
    /\ UNCHANGED <<_next_id, calls, request_id, loaded, sent, total, outcome>>

-----------------------------------------------------------------------------
(* _read_response_text, and the except clauses around it.                  *)

\* The body is given up: the outcome is set, and finally will close.
GiveUp(t, from) ==
    /\ Goto(t, from, "closing")
    /\ outcome' = [outcome EXCEPT ![t] = Raised("rpc error")]

CheckLength(t) ==
    /\ \/ response[t].body = "oversized" /\ GiveUp(t, "headers")
       \/ /\ response[t].body # "oversized"
          /\ Goto(t, "headers", "reading")
          /\ UNCHANGED outcome
    /\ UNCHANGED <<_next_id, calls, request_id, loaded, sent, open, response, total>>

\* Slips of ReadChunk: no limit; only the last chunk is counted.
ReadChunkUnlimited(t) ==
    /\ pc[t] = "reading"
    /\ \E size \in 1..MaxChunk : total' = [total EXCEPT ![t] = @ + size]
    /\ UNCHANGED <<pc, outcome>>
    /\ UNCHANGED <<_next_id, calls, request_id, loaded, sent, open, response>>

ReadChunkUncounted(t) ==
    /\ pc[t] = "reading"
    /\ \E size \in 1..MaxChunk :
         \/ size > max_response_bytes /\ GiveUp(t, "reading") /\ UNCHANGED total
         \/ /\ size <= max_response_bytes
            /\ total' = [total EXCEPT ![t] = size]
            /\ UNCHANGED <<pc, outcome>>
    /\ UNCHANGED <<_next_id, calls, request_id, loaded, sent, open, response>>

\* A chunk is counted before it is kept.  Past the limit, the count is no
\* longer distinguished.  An empty chunk is skipped: it is a stuttering step.
ReadChunk(t) ==
    /\ pc[t] = "reading"
    /\ \E size \in 1..MaxChunk :
         \/ /\ total[t] + size > max_response_bytes
            /\ GiveUp(t, "reading")
            /\ UNCHANGED total
         \/ /\ total[t] + size <= max_response_bytes
            /\ total' = [total EXCEPT ![t] = @ + size]
            /\ UNCHANGED <<pc, outcome>>
    /\ UNCHANGED <<_next_id, calls, request_id, loaded, sent, open, response>>

\* The stream ends: the body is decoded and parsed.
EndOfBody(t) ==
    /\ \/ response[t].body = "not json" /\ GiveUp(t, "reading")
       \/ /\ response[t].body # "not json"
          /\ Goto(t, "reading", "closing")
          /\ UNCHANGED outcome
    /\ UNCHANGED <<_next_id, calls, request_id, loaded, sent, open, response, total>>

\* The connection breaks, or a read times out, inside the try statement.
StreamError(t) ==
    /\ GiveUp(t, "reading")
    /\ UNCHANGED <<_next_id, calls, request_id, loaded, sent, open, response, total>>

\* finally: the response is closed, then the exception goes on or the body
\* is looked at.
Forget(t) ==
    /\ response' = [response EXCEPT ![t] = NoResponse]
    /\ total' = [total EXCEPT ![t] = 0]

\* A slip of Close: the response is closed only when its body was fine.
CloseOnSuccess(t) ==
    /\ open' = IF outcome[t] = NoOutcome THEN open \ {t} ELSE open
    /\ \/ outcome[t] # NoOutcome /\ Goto(t, "closing", "idle") /\ Forget(t)
       \/ /\ outcome[t] = NoOutcome
          /\ Goto(t, "closing", "parsed")
          /\ UNCHANGED <<response, total>>
    /\ UNCHANGED <<_next_id, calls, request_id, loaded, sent, outcome>>

Close(t) ==
    /\ open' = open \ {t}
    /\ \/ outcome[t] # NoOutcome /\ Goto(t, "closing", "idle") /\ Forget(t)
       \/ /\ outcome[t] = NoOutcome
          /\ Goto(t, "closing", "parsed")
          /\ UNCHANGED <<response, total>>
    /\ UNCHANGED <<_next_id, calls, request_id, loaded, sent, outcome>>

\* Slips of Verdict: any id is accepted; an error is raised before the id is
\* compared.
VerdictAnyId(t) ==
    LET r == response[t] IN
    IF r.body \in {"error", "error and result"} THEN Answer("server error", r)
    ELSE IF r.body = "result" THEN Answer("result", r)
    ELSE Raised("rpc error")

VerdictErrorFirst(t) ==
    LET r == response[t] IN
    IF r.body \in {"error", "error and result"} THEN Answer("server error", r)
    ELSE IF r.body = "result" /\ r.for.id = request_id[t] THEN Answer("result", r)
    ELSE Raised("rpc error")

\* The checks on the parsed body, in their order: an object, an id, the id of
\* this request, a truthy error, a result.
Verdict(t) ==
    LET r == response[t] IN
    IF r.body \in {"not object", "no id"} \/ r.for.id # request_id[t]
    THEN Raised("rpc error")
    ELSE IF r.body \in {"error", "error and result"} THEN Answer("server error", r)
    ELSE IF r.body = "result" THEN Answer("result", r)
    ELSE Raised("rpc error")

Validate(t) ==
    /\ Ends(t, "parsed", Verdict(t))
    /\ Forget(t)
    /\ UNCHANGED <<_next_id, calls, request_id, loaded, sent, open>>

-----------------------------------------------------------------------------
\* A thread inside call(): its own steps, and the endpoint or the timeout.
Step(t) ==
    \/ LoadId(t) \/ StoreId(t) \/ Post(t)
    \/ TransportError(t) \/ Respond(t)
    \/ CheckLength(t) \/ ReadChunk(t) \/ EndOfBody(t) \/ StreamError(t)
    \/ Close(t) \/ Validate(t)

Next == \E t \in Threads : ReadId(t) \/ Step(t)

\* Every thread runs, and the timeout passed to post() bounds each wait for
\* headers or for the next bytes; nothing promises that the endpoint answers,
\* or that it ever ends its body.
Fairness == \A t \in Threads : WF_vars(Step(t))

Spec == Init /\ [][Next]_vars
FairSpec == Spec /\ Fairness
-----------------------------------------------------------------------------
(* Properties.                                                             *)

Locations == {"idle", "claimed", "loaded", "ready", "posted", "headers",
              "reading", "closing", "parsed"}

Kinds == {"none", "result", "server error", "rpc error", "transport"}

Outcomes == [kind : Kinds, for : sent \cup {NoRequest}]

\* TypeOK: no body counts past the limit, and no response or outcome carries
\* a request that was not sent.
TypeOK ==
    /\ _next_id \in Nat
    /\ pc \in [Threads -> Locations]
    /\ calls \in [Threads -> 0..MaxCalls]
    /\ request_id \in [Threads -> Nat \cup {None}]
    /\ loaded \in [Threads -> Nat \cup {None}]
    /\ sent \subseteq [by : Threads, call : 1..MaxCalls, id : Nat]
    /\ open \subseteq Threads
    /\ response \in [Threads -> Responses \cup {NoResponse}]
    /\ total \in [Threads -> 0..max_response_bytes]
    /\ outcome \in [Threads -> Outcomes]

\* No way out of call() leaves the response open, whether the body was
\* oversized, broken off, not JSON, or fine (the finally clause).
ResponsesClosed ==
    \A t \in Threads :
        t \in open <=> pc[t] \in {"headers", "reading", "closing"}

Answered(t) == outcome[t].kind \in {"result", "server error"}

\* With any number of threads: what a call accepts answers a request that
\* carried this call's id, and that had been sent.
AcceptedIdMatches ==
    \A t \in Threads :
        Answered(t) => outcome[t].for \in sent /\ outcome[t].for.id = request_id[t]

\* With one caller: what a call accepts, result or server error, answers
\* that call.  A stale response to an earlier call is always rejected.
OwnAnswer ==
    \A t \in Threads :
        Answered(t) => outcome[t].for.by = t /\ outcome[t].for.call = calls[t]

\* With one caller no id is used twice, so an id names one request for ever.
IdsUnique == \A p, q \in sent : p.id = q.id => p = q

\* A call always comes back, even when the endpoint streams without end: the
\* size limit stops it.
CallsReturn == \A t \in Threads : (pc[t] # "idle") ~> (pc[t] = "idle")

\* How the client's state shows as a service's.
Service == INSTANCE RequestReply WITH
    Callers <- Threads,
    busy <- [t \in Threads |-> pc[t] # "idle"],
    count <- calls,
    reply <- [t \in Threads |->
                IF pc[t] = "idle" /\ Answered(t) THEN outcome[t].for.call ELSE 0]

\* ServiceSpec: one caller's calls are a request/reply service, each returning
\* with a failure or with its own answer.
ServiceSpec == Service!Spec
=============================================================================
