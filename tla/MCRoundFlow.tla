------------------------------ MODULE MCRoundFlow ------------------------------
(* One brief that meets the contract and one that does not. *)
EXTENDS RoundFlow, TLC
CONSTANTS bv, bx
MCBrief == {bv, bx}
MCValid == {bv}
MCApproval == {"approved", "needs_fix"}
MCAction == {"dispatch", "hold"}
=============================================================================
