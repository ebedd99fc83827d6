--------------------------- MODULE SlotLifeProofs ---------------------------
(***************************************************************************)
(* What follows from the life of the slot alone, whoever implements it:    *)
(* the verdicts are those of MmcSlot, and a card that waits for one is     *)
(* being identified.                                                       *)
(***************************************************************************)
EXTENDS SlotLife, TLAPS

\* The next card cannot come into an identification of the last one.
LEMMA InitSound == ASSUME LifeInit PROVE LifeInv
  BY DEF LifeInit, LifeInv, Underway, Slot!Init

\* Each step that can bring the next card, or a verdict, is one that finds the
\* slot's work done.
LEMMA StepSound == ASSUME LifeInv, [LifeNext]_life PROVE LifeInv'
<1> USE DEF LifeInv, Underway
<1>1. CASE Move
  BY <1>1 DEF Move
<1>2. CASE Found \/ Lost
  BY <1>2 DEF Found, Lost, Slot!Detect, Slot!Lose
<1>3. CASE Withdraws
  BY <1>3 DEF Withdraws
<1>4. CASE StartsNot \/ Starts
  BY <1>4 DEF StartsNot, Starts
<1>5. CASE Accepts
  BY <1>5 DEF Accepts, Slot!Accept
<1>6. CASE Ends \/ Fails
  BY <1>6 DEF Ends, Fails
<1>7. CASE Failed
  BY <1>7 DEF Failed, Slot!Reject
<1>8. CASE Serves
  BY <1>8 DEF Serves
<1>9. CASE UNCHANGED life
  BY <1>9 DEF life
<1> QED
  BY <1>1, <1>2, <1>3, <1>4, <1>5, <1>6, <1>7, <1>8, <1>9 DEF LifeNext

\* Whatever the user, the bus and the threads do, a removal that is on its way
\* is about a slot that is empty, a card whose identification goes on finds the
\* state its answers are taken in, a verdict ends the identification, and a card
\* without a verdict has one under way (mmc_ident_irq, mmc_control_thread).
THEOREM Sound == LifeSpec => []LifeInv
<1>1. LifeInit => LifeInv
  BY InitSound
<1>2. LifeInv /\ [LifeNext]_life => LifeInv'
  BY StepSound
<1> QED
  BY <1>1, <1>2, PTL DEF LifeSpec

\* The life of the slot keeps the promise of MmcSlot: a verdict is given once,
\* and stands until the card is taken out.
THEOREM Promised == LifeSpec => Slot!SafeSpec
<1>1. LifeInit => Slot!Init
  BY DEF LifeInit
<1>2. ASSUME LifeInv, [LifeNext]_life PROVE [Slot!Next]_phase
  <2>1. CASE Found \/ Lost \/ Accepts \/ Failed
    BY <1>2, <2>1
      DEF Found, Lost, Accepts, Failed, Slot!Next, Slot!Detect, Slot!Accept, Slot!Reject, Slot!Lose
  <2>2. CASE ~(Found \/ Lost \/ Accepts \/ Failed)
    BY <1>2, <2>2
      DEF LifeNext, Move, Withdraws, StartsNot, Starts, Ends, Fails, Serves, life
  <2> QED
    BY <2>1, <2>2
<1> QED
  BY <1>1, <1>2, Sound, PTL DEF LifeSpec, Slot!SafeSpec
=============================================================================
