-------------------------- MODULE MCPointsToProved --------------------------
(***************************************************************************)
(* The programs of MCPointsTo, with the assumptions PointsTo_proofs makes: *)
(* TLC evaluates them on this instance.                                    *)
(***************************************************************************)
EXTENDS MCPointsTo, PointsTo_proofs
=============================================================================
