---------------------------- MODULE MCMmcRequest ----------------------------
(***************************************************************************)
(* Instances of MmcRequest for TLC: a request answered at once, one of a   *)
(* single block and one of three, moved two blocks at a time.              *)
(***************************************************************************)
EXTENDS MmcRequest, TLC

CONSTANTS inquiry, short, long

MCSize == inquiry :> 0 @@ short :> 1 @@ long :> 3
MCAt  == inquiry :> 0 @@ short :> 5 @@ long :> 7
LongSize == long :> 3
LongAt  == long :> 7
=============================================================================
