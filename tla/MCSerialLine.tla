---------------------------- MODULE MCSerialLine ----------------------------
(***************************************************************************)
(* Model-checking instance of SerialLine.                                  *)
(***************************************************************************)
EXTENDS SerialLine

Anything == SUBSET AllHazards
=============================================================================
