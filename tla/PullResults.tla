---------------------------- MODULE PullResults ----------------------------
(***************************************************************************)
(* Whole_program::pull_results and the visit of the block that follows it: *)
(* the solutions after the predecessors are merged one by one, in whatever *)
(* order the list of predecessors has, the variables that exist on some    *)
(* paths only are then merged with NULL, and the statement is interpreted. *)
(*                                                                         *)
(* AnalyseFunction takes all this as one step with the solution            *)
(* MeetSolutions of the predecessors.                                      *)
(***************************************************************************)
EXTENDS ValueLattice

CONSTANTS
  Preds,      \* the predecessors whose edges are executable
  Given,      \* the solutions they may have
  Statements  \* the statements the block may hold

ASSUME PredsAssumption ==
  /\ Preds # {}
  /\ Given \subseteq Solution
  /\ Statements \subseteq Statement

VARIABLES
  outs,            \* the solution after each predecessor
  todo,            \* the predecessors not merged yet
  possible_nulls,  \* the variables still to be merged with NULL
  ins,             \* the solution before the block
  stmt,            \* the statement of the block
  out              \* the solution after the block, once visited

vars == <<outs, todo, possible_nulls, ins, stmt, out>>

NotVisited == [y \in {} |-> NoLit]

PullTypeOK ==
  /\ outs \in [Preds -> Solution]
  /\ todo \subseteq Preds
  /\ possible_nulls \subseteq Vars
  /\ ins \in Solution
  /\ stmt \in Statement \cup {NoLit}
  /\ out \in Solution

-----------------------------------------------------------------------------
(* Mutated form of PossibleNulls. *)
PossibleNullsNone(o) == {}

(* get_possible_nulls: the variables with an index node after one          *)
(* predecessor and none after another.                                     *)
PossibleNulls(o) ==
  {x \in Vars : \E p, q \in DOMAIN o : x \in DOMAIN o[p] /\ x \notin DOMAIN o[q]}

(* Lattice_map::merge: a variable missing from one side is TOP there. *)
Merge(s, t) ==
  [x \in DOMAIN s \cup DOMAIN t |->
     IF x \notin DOMAIN s THEN t[x]
     ELSE IF x \notin DOMAIN t THEN s[x]
     ELSE Meet(s[x], t[x])]

(* get_possible_nulls and pull_init. *)
Init ==
  /\ outs \in [Preds -> Given]
  /\ todo = Preds
  /\ possible_nulls = PossibleNulls(outs)
  /\ ins = NotVisited
  /\ stmt = NoLit
  /\ out = NotVisited

(* pull_first_pred and pull_pred. *)
PullPred(p) ==
  /\ todo' = todo \ {p}
  /\ ins' = Merge(ins, outs[p])
  /\ UNCHANGED <<outs, possible_nulls, stmt, out>>

PullPossibleNull(x) ==
  /\ todo = {}
  /\ possible_nulls' = possible_nulls \ {x}
  /\ ins' = Assign(ins, x, Meet(ins[x], Literal(Null)))
  /\ UNCHANGED <<outs, todo, stmt, out>>

VisitBlock ==
  /\ todo = {} /\ possible_nulls = {} /\ stmt = NoLit
  /\ stmt' \in Statements
  /\ out' = Interpret(stmt', ins)
  /\ UNCHANGED <<outs, todo, possible_nulls, ins>>

Next ==
  \/ \E p \in todo : PullPred(p)
  \/ \E x \in possible_nulls : PullPossibleNull(x)
  \/ VisitBlock

Spec == Init /\ [][Next]_vars

-----------------------------------------------------------------------------
Pulled == todo = {} /\ possible_nulls = {}

(* Whatever the order of the predecessors and of the possible NULLs, the   *)
(* result is the one solution AnalyseFunction merges them into.            *)
PulledMeet == Pulled => ins = MeetSolutions({outs[p] : p \in Preds})

(* No run of the program escapes: a store some predecessor's solution      *)
(* allows, literals and types, is allowed before the block, and what the   *)
(* statement makes of it is allowed after the block.                       *)
Foreseen ==
  Pulled => \A p \in Preds : \A m \in TypeGamma(outs[p]) :
    /\ m \in TypeGamma(ins)
    /\ stmt # NoLit => Execute(stmt, m) \subseteq TypeGamma(out)

(* What is once allowed of a variable stays allowed while results are      *)
(* pulled: cells only move down the lattice, so the order cannot matter.   *)
OnlyWidens ==
  [][\A x \in DOMAIN ins : \A v \in Values :
       LiteralHolds(ins[x], v) /\ TypeHolds(ins[x], v) =>
         x \in DOMAIN ins' /\ LiteralHolds(ins[x]', v) /\ TypeHolds(ins[x]', v)]_vars
=============================================================================
