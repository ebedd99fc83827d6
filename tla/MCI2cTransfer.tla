--------------------------- MODULE MCI2cTransfer ---------------------------
(***************************************************************************)
(* Model-checking instance of I2cTransfer: every disturbance, alone, with  *)
(* each other one, and all of them at once.                                *)
(***************************************************************************)
EXTENDS I2cTransfer, FiniteSets

Anything == {s \in SUBSET AllHazards : Cardinality(s) <= 2} \cup {AllHazards}
=============================================================================
