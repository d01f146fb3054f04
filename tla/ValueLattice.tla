---------------------------- MODULE ValueLattice ----------------------------
(***************************************************************************)
(* The lattice of Value_analysis: for each variable that may exist, the    *)
(* literal it is known to hold, or else the types it may have; the merge   *)
(* of predecessors done by pull_results and Absval_cell::meet; and what    *)
(* the statements that assign scalars do to it.                            *)
(*                                                                         *)
(* Each variable is its own index node: a scalar that takes part in no     *)
(* reference (module PointsTo models references).                          *)
(***************************************************************************)
EXTENDS FiniteSets

CONSTANTS
  Vars,
  Values,      \* PHP's scalars, as far as the model tells them apart
  Null,        \* NULL, the value of a variable that does not exist
  Types,
  TypeOf,      \* the type of each value
  NoLit,       \* the literal of an Abstract_value that has none
  TrueValues,  \* the values PHP::is_true accepts
  Ops,         \* binary operators with a literal operand, unary operators, ++
  Fold,        \* Fold[o][v]: the result of o on v, as PHP::fold_* computes it
  ResultTypes  \* ResultTypes[o][t]: what get_bin_op_type and the others say of it

ASSUME ValueAssumption ==
  /\ Null \in Values /\ NoLit \notin Values
  /\ TrueValues \subseteq Values \ {Null}
  /\ TypeOf \in [Values -> Types]
  /\ Fold \in [Ops -> [Values -> Values]]
  /\ ResultTypes \in [Ops -> [Types -> SUBSET Types]]

-----------------------------------------------------------------------------
(* Abstract_value.  A NULL type set, about which nothing is known, is the  *)
(* set of all types.                                                       *)
Absval ==
  {a \in [lit : Values \cup {NoLit}, types : SUBSET Types] :
     a.lit # NoLit => a.types = {TypeOf[a.lit]}}
Literal(v) == [lit |-> v, types |-> {TypeOf[v]}]
Typed(ts) == [lit |-> NoLit, types |-> ts]

known_true(a) == a.lit # NoLit /\ a.lit \in TrueValues
known_false(a) == a.lit # NoLit /\ a.lit \notin TrueValues

(* Abstract_value::equals returns on the literals: its comparison of the   *)
(* types is never reached.                                                 *)
EqualAbsvals(a, b) == a.lit = b.lit

(* A mutated form of Meet, refused by PullTypeOK. *)
MeetKeepsLiteral(a, b) == [lit |-> a.lit, types |-> a.types \cup b.types]

(* Absval_cell::meet, for cells neither of which is TOP. *)
Meet(a, b) ==
  IF a.lit # NoLit /\ a.lit = b.lit THEN Literal(a.lit) ELSE Typed(a.types \cup b.types)

(* A mutated form of MeetCells, refused by ContextsTypeOK. *)
MeetCellsKeepsLiteral(C) == [lit |-> (CHOOSE c \in C : TRUE).lit, types |-> UNION {c.types : c \in C}]

(* meet over the cells of several predecessors, in any order. *)
MeetCells(C) ==
  IF \E v \in Values : \A c \in C : c.lit = v
    THEN Literal(CHOOSE v \in Values : \A c \in C : c.lit = v)
    ELSE Typed(UNION {c.types : c \in C})

-----------------------------------------------------------------------------
(* A solution: the variables whose index node exists, with their cells. *)
Solution == UNION {[D -> Absval] : D \in SUBSET Vars}

(* get_abstract_value: a variable without index node reads the UNKNOWN     *)
(* field of the symbol table, which holds NULL.                            *)
Read(s, x) == IF x \in DOMAIN s THEN s[x] ELSE Literal(Null)

(* What pull_results makes of the predecessors' solutions, step by step in *)
(* module PullResults: a variable that exists after some of them only is   *)
(* possibly NULL.                                                          *)
MeetSolutions(S) ==
  [x \in UNION {DOMAIN s : s \in S} |-> MeetCells({Read(s, x) : s \in S})]

(* solution_changed.  Aliasing compares the points-to graphs, which have   *)
(* an index node for each variable; Value_analysis compares the cells.     *)
SameSolution(s, t) ==
  /\ DOMAIN s = DOMAIN t
  /\ \A x \in DOMAIN s : EqualAbsvals(s[x], t[x])

Assign(s, x, a) == [y \in DOMAIN s \cup {x} |-> IF y = x THEN a ELSE s[y]]

-----------------------------------------------------------------------------
(* The statements.  A branch tests var; a call to a modelled function      *)
(* assigns a value of known types.                                         *)
Statement ==
  [op : {"skip", "die", "trigger_error"}]
    \cup [op : {"unset", "branch"}, var : Vars]
    \cup [op : {"literal"}, var : Vars, value : Values]
    \cup [op : {"call"}, var : Vars, types : SUBSET Types \ {{}}]
    \cup [op : {"copy"}, var : Vars, rhs : Vars]
    \cup [op : {"operator"}, var : Vars, rhs : Vars, operator : Ops]

(* A mutated form of Apply, refused by Foreseen: the result keeps the types *)
(* of the operand.                                                          *)
ApplyKeepsTypes(o, a) ==
  IF a.lit # NoLit THEN Literal(Fold[o][a.lit]) ELSE a

(* visit_bin_op, visit_unary_op and, with var = rhs, visit_pre_op. *)
Apply(o, a) ==
  IF a.lit # NoLit
    THEN Literal(Fold[o][a.lit])
    ELSE Typed(UNION {ResultTypes[o][t] : t \in a.types})

Interpret(stmt, s) ==
  CASE stmt.op = "literal" -> Assign(s, stmt.var, Literal(stmt.value))
    [] stmt.op = "call" -> Assign(s, stmt.var, Typed(stmt.types))
    [] stmt.op = "copy" -> Assign(s, stmt.var, Read(s, stmt.rhs))
    [] stmt.op = "operator" -> Assign(s, stmt.var, Apply(stmt.operator, Read(s, stmt.rhs)))
    [] stmt.op = "unset" -> [x \in DOMAIN s \ {stmt.var} |-> s[x]]
    [] OTHER -> s

(* The types claimed of o's results are right. *)
WellTyped(o) == \A v \in Values : TypeOf[Fold[o][v]] \in ResultTypes[o][TypeOf[v]]

-----------------------------------------------------------------------------
(* PHP's own semantics of the same statements. *)
Store == [Vars -> Values]

Execute(stmt, m) ==
  CASE stmt.op = "literal" -> {[m EXCEPT ![stmt.var] = stmt.value]}
    [] stmt.op = "call" -> {[m EXCEPT ![stmt.var] = v] : v \in {w \in Values : TypeOf[w] \in stmt.types}}
    [] stmt.op = "copy" -> {[m EXCEPT ![stmt.var] = m[stmt.rhs]]}
    [] stmt.op = "operator" -> {[m EXCEPT ![stmt.var] = Fold[stmt.operator][m[stmt.rhs]]]}
    [] stmt.op = "unset" -> {[m EXCEPT ![stmt.var] = Null]}
    [] OTHER -> {m}

(* The stores a solution stands for, by the literals it knows, and by the  *)
(* types as well.                                                          *)
LiteralHolds(a, v) == a.lit # NoLit => v = a.lit
TypeHolds(a, v) == TypeOf[v] \in a.types

LiteralGamma(s) == {m \in Store : \A x \in Vars : LiteralHolds(Read(s, x), m[x])}
TypeGamma(s) ==
  {m \in LiteralGamma(s) : \A x \in Vars : TypeHolds(Read(s, x), m[x])}
=============================================================================
