------------------------ MODULE MCPullResultsProved ------------------------
(***************************************************************************)
(* The blocks of MCPullResults, with the assumption PullResults_proofs     *)
(* makes of their operators: TLC evaluates it on this instance.            *)
(***************************************************************************)
EXTENDS MCPullResults, PullResults_proofs
=============================================================================
