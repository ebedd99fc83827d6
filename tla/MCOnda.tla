------------------------------- MODULE MCOnda -------------------------------
(***************************************************************************)
(* Instances of Onda for TLC, with integers of 16 bits: 66 * 1000 does not *)
(* fit and leaves a period shorter than the timer routine, 65556 is 20     *)
(* when it has been parsed.                                                *)
(***************************************************************************)
EXTENDS Onda

Steady   == {{}}
=============================================================================
