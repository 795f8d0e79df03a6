--------------------------- MODULE MCP2pListener ---------------------------
(* Instances of P2pListener for TLC. *)
EXTENDS P2pListener

CONSTANTS s1, s2, p1, p2, j1

=============================================================================
