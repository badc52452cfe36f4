---------------------------- MODULE HttpOutputMC ----------------------------
(* A small instance of HttpOutput for TLC. *)
EXTENDS HttpOutput

MCPrefixLen == [n \in 1 .. BufLen |-> IF n < 4 THEN 1 ELSE 2]
=============================================================================
