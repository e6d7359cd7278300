--------------------------- MODULE MCSptpExchange ---------------------------
(* Small instances of SptpExchange. *)
EXTENDS SptpExchange

CONSTANTS h1, h2
=============================================================================
