--------------------------- MODULE MCJsonRpcClient ---------------------------
(* JsonRpcClient instantiated for TLC: Empty and Event are model values. *)
EXTENDS JsonRpcClient
=============================================================================
