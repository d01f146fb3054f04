-------------------------- MODULE MCCoverageProved --------------------------
(***************************************************************************)
(* The methods of MCCoverage, with the assumptions Coverage_proofs makes:  *)
(* TLC evaluates them on this instance.                                    *)
(***************************************************************************)
EXTENDS MCCoverage, Coverage_proofs
=============================================================================
