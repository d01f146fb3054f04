-------------------------- MODULE SimplifyBranches --------------------------
(***************************************************************************)
(* If_simplification: a branch on a variable that negates another becomes  *)
(* a branch on the other with its successors switched.                     *)
(***************************************************************************)
EXTENDS SSA

VARIABLES
  visiting,    \* the blocks CFG_visitor has not come to
  simplified   \* the branches that were changed, each with the block of the "!"

simplifyVars == <<visiting, simplified>>

SimplifyTypeOK ==
  /\ visiting \subseteq Present(cfg)
  /\ simplified \subseteq (Present(cfg) \ visiting) \X Present(cfg)
  /\ pc = "simplified" => visiting = {}

SimplifyInit == visiting = {} /\ simplified = {}

StartSimplifying ==
  /\ pc = "done"
  /\ pc' = "simplify"
  /\ visiting' = {b \in Present(cfg) : IsBranch(cfg, b)}
  /\ UNCHANGED <<cfg, below, parent, df, todo, phis, path, renamed, stacks, reads, args, simplified>>

Switched(d) == CASE d = "true" -> "false" [] d = "false" -> "true" [] OTHER -> d

(* Mutated form of BranchOn: the successors stay as they were. *)
BranchOnOnly(g, b, x) == [g EXCEPT !.stmt[b].rhs = x]

(* switch_successors, and the branch's new variable. *)
BranchOn(g, b, x) ==
  [stmt |-> [g.stmt EXCEPT ![b].rhs = x],
   edges |-> (g.edges \ Leaving(g, b)) \cup {[e EXCEPT !.direction = Switched(@)] : e \in Leaving(g, b)}]

(* visit_branch_block looks at the statement in the block of the           *)
(* definition, which need not be the definition, and at nothing between    *)
(* it and the branch.                                                      *)
Simplify(b) ==
  /\ pc = "simplify"
  /\ b \in visiting
  /\ visiting' = visiting \ {b}
  /\ LET x == cfg.stmt[b].rhs
         v == reads[<<b, x>>]
         s == cfg.stmt[v[2]]
     IN IF v[1] = "use"
        THEN pc' = "unreachable" /\ UNCHANGED <<cfg, simplified>>
        ELSE /\ pc' = pc
             /\ IF s.op = "not" /\ s.rhs # x
                THEN cfg' = BranchOn(cfg, b, s.rhs) /\ simplified' = simplified \cup {<<b, v[2]>>}
                ELSE UNCHANGED <<cfg, simplified>>
  /\ UNCHANGED <<below, parent, df, todo, phis, path, renamed, stacks, reads, args>>

StopSimplifying ==
  /\ pc = "simplify"
  /\ visiting = {}
  /\ pc' = "simplified"
  /\ UNCHANGED <<cfg, below, parent, df, todo, phis, path, renamed, stacks, reads, args, simplifyVars>>

SimplifyNext ==
  \/ StartSimplifying
  \/ \E b \in Blocks : Simplify(b)
  \/ StopSimplifying
=============================================================================
