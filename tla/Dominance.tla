----------------------------- MODULE Dominance -----------------------------
(***************************************************************************)
(* calculate_dominance (Dominance.cpp), from Entry over the edges of the   *)
(* graph or from Exit against them.  D gives for each block the blocks it  *)
(* dominates, which the code has as a tree.                                *)
(***************************************************************************)
EXTENDS FlowGraph

Reverse(g) ==
  [g EXCEPT !.edges = {[source |-> e.target, target |-> e.source, direction |-> e.direction] : e \in @}]

(* The graphs reverse dominance does not fail for. *)
Connected(g) ==
  /\ g \in Graph /\ Consistent(g)
  /\ Reach(g, Entry, {}) = Present(g) /\ Reach(Reverse(g), Exit, {}) = Present(g)

(* lengauer_tarjan_dominator_tree *)
Dominated(g, root) ==
  [a \in Present(g) |-> IF a = root THEN Present(g) ELSE Present(g) \ Reach(g, root, {a})]

Idominator(D, b) ==
  CHOOSE a \in DOMAIN D \ {b} :
    b \in D[a] /\ \A c \in DOMAIN D \ {b} : b \in D[c] => a \in D[c]

(* Mutated form of Df: no walk up the tree. *)
DfOfPredecessors(g, D, root, r) ==
  {n \in Present(g) \ {root} : r \in Predecessors(g, n) /\ r # n /\ r # Idominator(D, n)}

(* df: from each predecessor of n, up the tree of immediate dominators,    *)
(* until the walk meets n's own or n itself.                               *)
Df(g, D, root, r) ==
  {n \in Present(g) \ {root} :
     /\ Idominator(D, n) \notin D[r]
     /\ \E p \in Predecessors(g, n) :
          p \in D[r] /\ (p \in D[n] => n \notin D[r])}
=============================================================================
