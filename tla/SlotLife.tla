------------------------------ MODULE SlotLife ------------------------------
(***************************************************************************)
(* What the identification of cards (module MmcIdent) promises the request *)
(* path (module MmcRequest) that shares the slot's record ext with it: how *)
(* ext->state changes under a request, when the slot's phase does, and     *)
(* that an identification that began is under way until it has a verdict   *)
(* or its card is gone.                                                    *)
(***************************************************************************)
VARIABLES
    present,    \* a card is in the slot
    phase,      \* what the flags of ext tell of it (MmcSlot)
    removal,    \* a CARD_REMOVAL pulse is on the control channel
    state,      \* ext->state
    run         \* where the identification is: on its way to its first command,
                \* a command or a restart is going on, or it is failing

life == <<present, phase, removal, state, run>>

Slot == INSTANCE MmcSlot

LifeInit ==
    /\ present \in BOOLEAN /\ Slot!Init
    /\ removal = FALSE /\ state = "IDLE" /\ run = "none"

\* The user.  The next card comes when the driver is done with the last one.
Move ==
    /\ present \/ (phase = "empty" /\ ~removal /\ run = "none")
    /\ present' = ~present
    /\ UNCHANGED <<phase, removal, state, run>>

\* mmc_media_check(), or mmc_creat_threads() at startup: a card is found ...
Found ==
    /\ present /\ Slot!Detect
    /\ run' = "starting"
    /\ UNCHANGED <<present, removal, state>>

\* ... or given up, and powering down takes the command in flight with it.
Lost ==
    /\ ~present /\ Slot!Lose
    /\ removal' = TRUE
    /\ run' = IF run = "going" THEN "none" ELSE run
    /\ UNCHANGED <<present, state>>

\* The control thread; another pulse may have come behind this one.
Withdraws ==
    /\ removal
    /\ removal' \in BOOLEAN /\ state' = "IDLE"
    /\ UNCHANGED <<present, phase, run>>

\* mmc_ident_start() finds the slot empty, or sends the first command; its
\* caller then stores the state, maybe after a removal took the command back.
StartsNot ==
    /\ run = "starting" /\ ~present
    /\ run' = "none"
    /\ UNCHANGED <<present, phase, removal, state>>

Starts ==
    /\ run = "starting"
    /\ state' = "IDENT"
    /\ run' = "going" \/ (~present /\ run' = "none")
    /\ UNCHANGED <<present, phase, removal>>

\* mmc_ident_irq() with the last answer.
Accepts ==
    /\ run = "going" /\ state = "IDENT" /\ present
    /\ Slot!Accept
    /\ run' = "none" /\ state' \in {"IDLE", "DATA"}
    /\ UNCHANGED <<present, removal>>

\* An answer is taken for unexpected only behind a removal.
Ends ==
    /\ run = "going" /\ ~present
    /\ run' = "none"
    /\ UNCHANGED <<present, phase, removal, state>>

\* A stage fails, or the restart finds the slot empty.
Fails ==
    /\ run = "going" /\ (state = "IDENT" \/ ~present)
    /\ run' = "failing"
    /\ UNCHANGED <<present, phase, removal, state>>

\* mmc_ident_irq() after it looked at the slot again.
Failed ==
    /\ run = "failing"
    /\ run' = "none" /\ state' = "IDLE"
    /\ \/ present /\ Slot!Reject /\ UNCHANGED removal
       \/ ~present /\ phase' = "empty" /\ removal' = (removal \/ phase # "empty")
    /\ UNCHANGED present

\* Requests use the state while the card is in use.
Serves ==
    /\ phase = "ready"
    /\ state' \in {"IDLE", "DATA"}
    /\ UNCHANGED <<present, phase, removal, run>>

LifeNext ==
    \/ Move \/ Found \/ Lost \/ Withdraws \/ StartsNot \/ Starts
    \/ Accepts \/ Ends \/ Fails \/ Failed \/ Serves

LifeSpec == LifeInit /\ [][LifeNext]_life

\* While a card is in, the promise the requests that wait for it rest on.
Underway == present /\ phase = "identifying" => run # "none"

LifeInv ==
    /\ removal => ~present /\ phase = "empty"
    /\ present /\ run = "going" => state = "IDENT"
    /\ present /\ phase = "empty" => run = "none"
    /\ phase \in {"ready", "invalid"} => run = "none"
    /\ phase = "ready" => state # "IDENT"
    /\ state = "DATA" => phase = "ready" \/ removal
    /\ Underway
=============================================================================
