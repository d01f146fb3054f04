----------------------------- MODULE FlowGraph -----------------------------
(***************************************************************************)
(* The control-flow graph of one method as the local optimisations see it: *)
(* a statement in each block, edges between blocks, and the edits CFG.cpp  *)
(* offers.  A variable holds a Boolean, which is what a branch tells       *)
(* apart.  All passes edit the one graph.                                  *)
(***************************************************************************)
EXTENDS Naturals, FiniteSets

CONSTANTS
  Blocks,        \* the vertices a graph may have
  Entry, Exit,   \* the Entry_block and the Exit_block
  Vars           \* the variables of the method

ASSUME BlocksAssumption ==
  IsFiniteSet(Blocks) /\ Entry \in Blocks /\ Exit \in Blocks /\ Entry # Exit

VARIABLES
  pc,   \* what is being done to the method
  cfg   \* CFG::bs

Statement ==
  [op : {"empty", "return"}]                        \* empty: an Empty_block
    \cup [op : {"set"}, lhs : Vars, value : BOOLEAN]  \* $x = true;
    \cup [op : {"copy", "not"}, lhs : Vars, rhs : Vars]
    \cup [op : {"may"}, lhs : Vars, rhs : Vars]       \* true to $$p, if $p says $lhs
    \cup [op : {"print", "branch"}, rhs : Vars]

Empty == [op |-> "empty"]

(* The directions true and false are for the edges that leave a branch. *)
Directions == {"true", "false", "none"}
Edge == [source : Blocks, target : Blocks, direction : Directions]
Graph == [stmt : [Blocks -> Statement], edges : SUBSET Edge]

Leaving(g, b) == {e \in g.edges : e.source = b}
Entering(g, b) == {e \in g.edges : e.target = b}
Successors(g, b) == {e.target : e \in Leaving(g, b)}
Predecessors(g, b) == {e.source : e \in Entering(g, b)}
Present(g) == {Entry} \cup {e.source : e \in g.edges} \cup {e.target : e \in g.edges}
IsBranch(g, b) == g.stmt[b].op = "branch"
Towards(g, b, d) == (CHOOSE e \in Leaving(g, b) : e.direction = d).target

(* CFG::consistency_check, and what get_true_successor, get_false_successor *)
(* and get_successor assert of the blocks they are called on.              *)
Consistent(g) ==
  /\ Leaving(g, Exit) = {} /\ Entering(g, Entry) = {}
  /\ \A b \in Present(g) \ {Exit} :
       IF IsBranch(g, b)
       THEN /\ Cardinality(Leaving(g, b)) = 2
            /\ {e.direction : e \in Leaving(g, b)} = {"true", "false"}
       ELSE /\ Cardinality(Leaving(g, b)) = 1
            /\ {e.direction : e \in Leaving(g, b)} = {"none"}

(* The blocks a walk from b gets to without entering Avoided: the ones in  *)
(* every set that such a walk never leaves.                                *)
Reach(g, b, Avoided) ==
  LET There == {b} \cup {e.target : e \in g.edges}
      Closed == {S \in SUBSET There :
                   b \in S /\ \A e \in g.edges : e.source \in S => e.target \in S \cup Avoided}
  IN {c \in There : \A S \in Closed : c \in S}

-----------------------------------------------------------------------------
(* The edits.  replace_bb_with_empty keeps the vertex and its edges. *)
ReplaceWithEmpty(g, b) == [g EXCEPT !.stmt[b] = Empty]

RemoveBlock(g, b) == ReplaceWithEmpty(g, b)

RemoveBranch(g, b, successor) ==
  ReplaceWithEmpty(
    [g EXCEPT !.edges = (@ \ Leaving(g, b)) \cup
       {[source |-> b, target |-> successor, direction |-> "none"]}], b)

SetBranchDirection(g, b, d) == RemoveBranch(g, b, Towards(g, b, d))

(* clear_vertex and remove_vertex; a graph may lose its exit block. *)
RipOut(g, S) ==
  [stmt |-> [b \in Blocks |-> IF b \in S THEN Empty ELSE g.stmt[b]],
   edges |-> {e \in g.edges : e.source \notin S /\ e.target \notin S}]

-----------------------------------------------------------------------------
(* What a statement does to the variables of a run. *)
Effect(s, store) ==
  CASE s.op = "set"  -> [store EXCEPT ![s.lhs] = s.value]
    [] s.op = "copy" -> [store EXCEPT ![s.lhs] = store[s.rhs]]
    [] s.op = "not"  -> [store EXCEPT ![s.lhs] = ~store[s.rhs]]
    [] s.op = "may"  -> [store EXCEPT ![s.lhs] = @ \/ store[s.rhs]]
    [] OTHER         -> store

Taken(g, p) ==
  {e \in Leaving(g, p.at) :
     IsBranch(g, p.at) => e.direction = IF p.store[g.stmt[p.at].rhs] THEN "true" ELSE "false"}

After(g, p) ==
  [at |-> (CHOOSE e \in Taken(g, p) : TRUE).target, store |-> Effect(g.stmt[p.at], p.store)]

(* A run is heard of when it prints and when it ends. *)
IsHeard(g, p) == p.at = Exit \/ g.stmt[p.at].op = "print"
=============================================================================
