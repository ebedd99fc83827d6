----------------------------- MODULE MCOndaWave -----------------------------
(***************************************************************************)
(* Instances of OndaWave for TLC: which disturbances the environment may   *)
(* produce in each run.                                                    *)
(***************************************************************************)
EXTENDS OndaWave

Anything == SUBSET AllHazards
OtherPin == {{"other_pin"}}
Nesting  == {{"nesting"}}

=============================================================================
