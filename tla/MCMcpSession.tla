---------------------------- MODULE MCMcpSession ----------------------------
(***************************************************************************)
(* Sessions for TLC: three calls of one client on stdio, and one call each *)
(* of two clients over HTTP that number their requests apart or, as        *)
(* clients do, both from 1.                                                *)
(***************************************************************************)
EXTENDS McpSession

Numbering(a, b) == [c \in Clients |-> IF c = "ann" THEN a ELSE b]

Shared == {[transport |-> "http", ids |-> Numbering({1}, {1})]}
MCSessions == Shared \cup
  {[transport |-> "stdio", ids |-> Numbering({1, 2, 3}, {})],
   [transport |-> "http", ids |-> Numbering({1}, {2})]}

=============================================================================
