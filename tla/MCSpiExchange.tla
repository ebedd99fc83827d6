--------------------------- MODULE MCSpiExchange ---------------------------
(***************************************************************************)
(* Model-checking instance of SpiExchange.                                 *)
(***************************************************************************)
EXTENDS SpiExchange

Anything == SUBSET AllHazards
=============================================================================
