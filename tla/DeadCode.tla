------------------------------ MODULE DeadCode ------------------------------
(***************************************************************************)
(* DCE (Dead_code_elimination.cpp): what others see is marked, then what   *)
(* it needs, and what has no mark is swept away.                           *)
(***************************************************************************)
EXTENDS SSA

VARIABLES
  marked,   \* bb_marks
  marking,  \* the marked blocks whose needs are not marked yet
  against   \* reverse_dominance: the tree and its frontiers

dceVars == <<marked, marking, against>>

DeadCodeTypeOK ==
  /\ marked \subseteq Present(cfg)
  /\ marking \subseteq marked
  /\ pc \in {"sweep", "swept"} => marking = {} /\ {Entry, Exit} \subseteq marked

DeadCodeInit ==
  /\ marked = {}
  /\ marking = {}
  /\ against = << >>

IsCritical(g, b) == b \in {Entry, Exit} \/ g.stmt[b].op \in {"print", "return"}

StartMarking ==
  /\ pc = "done"
  /\ pc' = "mark"
  /\ marked' = {b \in Present(cfg) : IsCritical(cfg, b)}
  /\ marking' = marked'
  /\ \E back \in {Reverse(cfg)} : \E D \in {Dominated(back, Exit)} :
       against' = [idominated |-> D, rdf |-> [b \in Present(cfg) |-> Df(back, D, Exit, b)]]
  /\ UNCHANGED <<cfg, below, parent, df, todo, phis, path, renamed, stacks, reads, args>>

(* Mutated form of Defining: a phi is not looked behind. *)
DefiningUnlessPhi(x, v) == {w[2] : w \in {w \in {v} : w[1] \in {"def", "may"}}}

(* mark_def: the blocks that define a version, through the phis, whose own *)
(* blocks are not marked.                                                  *)
Defining(x, v) ==
  LET There == {v} \cup {args[a] : a \in {a \in DOMAIN args : a[3] = x}}
      Closed == {S \in SUBSET There :
                   v \in S /\ \A w \in S : w[1] = "phi" => Behind(x, w) \subseteq S}
  IN {w[2] : w \in {w \in There : w[1] \in {"def", "may"} /\ \A S \in Closed : w \in S}}

Needs(b) == (UNION {Defining(x, reads[<<b, x>>]) : x \in UsesAt(cfg, b)}) \cup against.rdf[b]

(* mark_entire_block; the order of its calls does not matter. *)
Mark(b) ==
  /\ pc = "mark"
  /\ b \in marking
  /\ marked' = marked \cup Needs(b)
  /\ marking' = (marking \ {b}) \cup (Needs(b) \ marked)
  /\ UNCHANGED <<ssaVars, against>>

(* Mutated form of StartSweeping: what some marked blocks need is not      *)
(* marked.                                                                 *)
StartSweepingEarly ==
  /\ pc = "mark"
  /\ pc' = "sweep"
  /\ UNCHANGED <<cfg, below, parent, df, todo, phis, path, renamed, stacks, reads, args, dceVars>>

StartSweeping ==
  /\ pc = "mark"
  /\ marking = {}
  /\ pc' = "sweep"
  /\ UNCHANGED <<cfg, below, parent, df, todo, phis, path, renamed, stacks, reads, args, dceVars>>

-----------------------------------------------------------------------------
(* A block that was swept is an Empty_block from then on, and counts. *)
IsMarked(b) == b \in marked \cup {Entry, Exit} \/ cfg.stmt[b] = Empty

(* Mutated form of Nearest: up the tree of dominators. *)
NearestBefore(b) ==
  LET before == {a \in Present(cfg) : b \in below[a] /\ IsMarked(a)}
  IN CHOOSE a \in before : \A c \in before : a \in below[c]

(* The nearest marked postdominator. *)
Nearest(b) ==
  LET after == {a \in Present(cfg) : b \in against.idominated[a] /\ IsMarked(a)}
  IN CHOOSE a \in after : \A c \in after : a \in against.idominated[c]

(* Mutated form of Swept: a branch is removed as a statement is. *)
SweptAsStatement(b) == RemoveBlock(cfg, b)

Swept(b) == IF IsBranch(cfg, b) THEN RemoveBranch(cfg, b, Nearest(b)) ELSE RemoveBlock(cfg, b)

Sweep(b) ==
  /\ pc = "sweep"
  /\ b \in Present(cfg) /\ ~IsMarked(b)
  /\ cfg' = Swept(b)
  /\ UNCHANGED <<pc, below, parent, df, todo, phis, path, renamed, stacks, reads, args, dceVars>>

StopSweeping ==
  /\ pc = "sweep"
  /\ \A b \in Present(cfg) : IsMarked(b)
  /\ pc' = "swept"
  /\ UNCHANGED <<cfg, below, parent, df, todo, phis, path, renamed, stacks, reads, args, dceVars>>

DeadCodeNext ==
  \/ StartMarking
  \/ \E b \in Blocks : Mark(b) \/ Sweep(b)
  \/ StartSweeping
  \/ StopSweeping
=============================================================================
