----------------------------- MODULE MCMmcIdent -----------------------------
(***************************************************************************)
(* Instances of MmcIdent for TLC.                                          *)
(***************************************************************************)
EXTENDS MmcIdent

\* A user who waits until the driver is done with the last card, a user who
\* swaps cards between two polls, a noisy bus, a late control thread, and what
\* comes together of them; a timer that polls before the driver is attached; a
\* user who is back before the driver is done; and a slot whose pin cannot
\* always be read.
Anything == SUBSET {"fast_swap", "late_store", "noise"}
                \cup {{"early_poll"}, {"fast_return"}, {"bad_read"}}
Swap     == {{"fast_swap"}}
=============================================================================
