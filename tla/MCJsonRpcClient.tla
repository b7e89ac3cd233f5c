--------------------------- MODULE MCJsonRpcClient ---------------------------
(* Instances of JsonRpcClient for TLC: one caller making several calls, and  *)
(* two callers sharing the client.                                           *)
EXTENDS JsonRpcClient
=============================================================================
