------------------------------ MODULE MmcSlot -------------------------------
(***************************************************************************)
(* What the card slot promises the layers above: a card that is found is   *)
(* identified, then either in use or rejected until it is taken out, and   *)
(* the verdict is never changed in between.  mmc_media_check, mmc_ident_irq*)
(* and the control thread keep this promise together (module MmcIdent).    *)
(***************************************************************************)
VARIABLE phase

Phases == {"empty", "identifying", "ready", "invalid"}

Init == phase = "empty"

Detect == phase = "empty"       /\ phase' = "identifying"
Accept == phase = "identifying" /\ phase' = "ready"
Reject == phase = "identifying" /\ phase' = "invalid"
Lose   == phase # "empty"       /\ phase' = "empty"

Next == Detect \/ Accept \/ Reject \/ Lose

SafeSpec == Init /\ [][Next]_phase
=============================================================================
