---------------------------- MODULE RequestReply ----------------------------
(***************************************************************************)
(* What a caller of JsonRpcClient.call relies on: every call comes back,   *)
(* with a failure or with an answer to that very call, never with an       *)
(* answer to another one.                                                  *)
(***************************************************************************)
EXTENDS Naturals

CONSTANTS Callers, MaxCalls

VARIABLES
    busy,   \* is the caller inside a call
    count,  \* calls begun so far
    reply   \* what the last call gave: the number of the call it answers,
            \* or 0 when it failed or has not come back

vars == <<busy, count, reply>>

Init ==
    /\ busy = [c \in Callers |-> FALSE]
    /\ count = [c \in Callers |-> 0]
    /\ reply = [c \in Callers |-> 0]

Begin(c) ==
    /\ ~busy[c]
    /\ count[c] < MaxCalls
    /\ busy' = [busy EXCEPT ![c] = TRUE]
    /\ count' = [count EXCEPT ![c] = @ + 1]
    /\ reply' = [reply EXCEPT ![c] = 0]

Return(c) ==
    /\ busy[c]
    /\ busy' = [busy EXCEPT ![c] = FALSE]
    /\ \E answer \in {0, count[c]} : reply' = [reply EXCEPT ![c] = answer]
    /\ UNCHANGED count

Next == \E c \in Callers : Begin(c) \/ Return(c)

Spec == Init /\ [][Next]_vars /\ \A c \in Callers : WF_vars(Return(c))
=============================================================================
