------------------------------ MODULE PointsTo ------------------------------
(***************************************************************************)
(* Aliasing and Points_to over one symbol table of scalars, with the run   *)
(* of the PHP program beside it: which variables are references to the     *)
(* same value, and what each may hold.                                     *)
(*                                                                         *)
(* An index node stands for each variable that may exist, and the node     *)
(* UNKNOWN for all the others.  A statement names its variables, or it is  *)
(* a $$x whose name the analysis does not know, written UNKNOWN here; a    *)
(* $$x whose name is known literally is treated as that variable.          *)
(*                                                                         *)
(* Two branches may be analysed side by side, of which the run takes one,  *)
(* and are merged where they join.                                         *)
(***************************************************************************)
EXTENDS ValueLattice, Naturals

CONSTANTS
  Unknown,       \* the index node UNKNOWN, one of Vars
  Programs,      \* what a method may be made of: see Program
  MaxStatements  \* bounds the statements of a path

ASSUME UnknownAssumption == Unknown \in Vars

Names == Vars \ {Unknown}

PHPStatement ==
  [op : {"literal"}, lhs : Vars, value : Values]
    \cup [op : {"copy", "ref"}, lhs : Vars, rhs : Vars]
    \cup [op : {"unset"}, lhs : Vars]

(* The variables that exist when the method starts, the statements it may  *)
(* hold, and the command-line flag that turns killing off.                 *)
Program == [defined : SUBSET Names, statements : SUBSET PHPStatement,
            flow_insensitive : BOOLEAN]

ASSUME ProgramsAssumption == Programs \subseteq Program

VARIABLES
  program,
  pc,       \* "straight", "branches", or "exception": the analysis gave up
  ptg,      \* the graph after the statements the run has executed
  other,    \* the graph at the end of the branch the run does not take
  alias,    \* the pairs of variables that are references to the same value
  val,      \* the value of each variable, NULL when it does not exist
  executed  \* the number of statements analysed

vars == <<program, pc, ptg, other, alias, val, executed>>

-----------------------------------------------------------------------------
(* Points_to_impl: the index nodes with their cells, and the reference     *)
(* edges, each in both directions.  A scalar index node points to its own  *)
(* value node only.                                                        *)
Graph ==
  {g \in [cells : Solution, possible : SUBSET (Vars \X Vars), definite : SUBSET (Vars \X Vars)] :
     /\ Unknown \in DOMAIN g.cells
     /\ g.possible \cap g.definite = {}
     /\ \A e \in g.possible \cup g.definite :
          e[1] # e[2] /\ e[1] \in DOMAIN g.cells /\ e[2] \in DOMAIN g.cells
     /\ \A e \in g.possible : <<e[2], e[1]>> \in g.possible
     /\ \A e \in g.definite : <<e[2], e[1]>> \in g.definite}

fields(g) == DOMAIN g.cells
references(g) == g.possible \cup g.definite

PointsToTypeOK ==
  /\ program \in Programs
  /\ pc \in {"straight", "branches", "exception"}
  /\ ptg \in Graph /\ other \in Graph
  /\ alias \subseteq Names \X Names
  /\ val \in [Names -> Values]
  /\ executed \in 0..MaxStatements

(* get_named_indices: UNKNOWN is every field of the symbol table. *)
NamedIndices(g, n) == IF n = Unknown THEN fields(g) ELSE {n}

(* is_killable, for a symbol table that is not abstract. *)
Killable(I) == ~program.flow_insensitive /\ \E x \in Names : I = {x}

(* A variable without index node reads UNKNOWN. *)
IndexOf(g, x) == IF x \in fields(g) THEN x ELSE Unknown
Cell(g, x) == g.cells[IndexOf(g, x)]
CellOf(g, I) == MeetCells({Cell(g, x) : x \in I})

(* The nodes a set of edges leads to from I, I itself included. *)
Closure(edges, I) == I \cup {e[2] : e \in {d \in edges : d[1] \in I}}
Both(S, T) == (S \X T) \cup (T \X S)
Without(edges, x) == {e \in edges : e[1] # x /\ e[2] # x}
Distinct(edges) == {e \in edges : e[1] # e[2]}

-----------------------------------------------------------------------------
(* Mutated forms of Write, RemoveField and CombineCerts, refused by        *)
(* ValuesCovered, PointsToTypeOK and ReferencesCovered.                    *)
WriteForgetsReferences(g, n, a) ==
  [cells |-> Assign(g.cells, n, a), possible |-> g.possible, definite |-> g.definite]
RemoveFieldOnly(g, x) ==
  [cells |-> [y \in fields(g) \ {x} |-> g.cells[y]],
   possible |-> g.possible, definite |-> g.definite]
CombineCertsEither(g, h) == g.definite \cup h.definite

(* assign_path_scalar, and the second half of assign_path_by_copy: cell a  *)
(* is written to each index and to what it references.  A DEFINITE         *)
(* reference of a killable index is killed first.                          *)
Write(g, n, a) ==
  LET lhss == NamedIndices(g, n)
      killed == IF Killable(lhss) THEN Closure(g.definite, lhss) ELSE {}
      written == Closure(references(g), lhss)
  IN [cells |-> [x \in fields(g) \cup lhss |->
        IF x \in killed \/ x \notin fields(g) THEN a
        ELSE IF x \in written THEN Meet(g.cells[x], a)
        ELSE g.cells[x]],
      possible |-> g.possible,
      definite |-> g.definite]

(* remove_field *)
RemoveField(g, x) ==
  [cells |-> [y \in fields(g) \ {x} |-> g.cells[y]],
   possible |-> Without(g.possible, x),
   definite |-> Without(g.definite, x)]

(* visit_unset *)
Unset(g, n) ==
  IF Killable(NamedIndices(g, n)) THEN RemoveField(g, n) ELSE Write(g, n, Literal(Null))

-----------------------------------------------------------------------------
(* assign_path_by_ref.  A variable on the right that does not exist is     *)
(* created; fake then refers to the right-hand sides and to what they      *)
(* refer to, and the left-hand sides refer to all that fake does.          *)
CreateFields(g, I) ==
  [cells |-> [x \in fields(g) \cup I |-> Cell(g, x)],
   possible |-> g.possible,
   definite |-> g.definite]

FakeDefinite(g, rhss) == IF Killable(rhss) THEN Closure(g.definite, rhss) ELSE {}
FakeReferences(g, rhss) == Closure(references(g), rhss)

(* A killable left-hand side x is no longer what it was. *)
Bind(g, x, def, all, a) ==
  LET k == RemoveField(g, x) IN
  [cells |-> Assign(k.cells, x, a),
   definite |-> k.definite \cup Both({x}, def \ {x}),
   possible |-> k.possible \cup Both({x}, all \ (def \cup {x}))]

(* Otherwise each of them may now be any of the others. *)
MayBind(g, lhss, all, a) ==
  [cells |-> [x \in fields(g) \cup lhss |->
     IF x \notin lhss THEN g.cells[x]
     ELSE IF x \in fields(g) THEN Meet(g.cells[x], a) ELSE a],
   definite |-> g.definite,
   possible |-> g.possible \cup Distinct(Both(lhss, lhss \cup all))]

Refer(g, l, r) ==
  LET lhss == NamedIndices(g, l)
      rhss == NamedIndices(g, r)
      created == CreateFields(g, rhss)
      all == FakeReferences(created, rhss)
      a == CellOf(created, rhss)
  IN IF Killable(lhss)
       THEN Bind(created, l, FakeDefinite(created, rhss), all, a)
       ELSE MayBind(created, lhss, all, a)

(* add_reference: "Combining reference edges of different certainty        *)
(* unsupported".  The references to fake count too.                        *)
CertaintiesClash(g, l, r) ==
  LET lhss == NamedIndices(g, l)
      rhss == NamedIndices(g, r)
      all == FakeReferences(g, rhss)
  IN /\ ~Killable(lhss)
     /\ \/ lhss \cap FakeDefinite(g, rhss) # {}
        \/ Both(lhss, lhss \cup all) \cap g.definite # {}

AfterStatement(g, s) ==
  CASE s.op = "literal" -> Write(g, s.lhs, Literal(s.value))
    [] s.op = "copy" -> Write(g, s.lhs, CellOf(g, NamedIndices(g, s.rhs)))
    [] s.op = "ref" -> Refer(g, s.lhs, s.rhs)
    [] s.op = "unset" -> Unset(g, s.lhs)

GivesUp(g, s) == s.op = "ref" /\ CertaintiesClash(g, s.lhs, s.rhs)

-----------------------------------------------------------------------------
(* merge_references: an edge is DEFINITE when both graphs have it DEFINITE. *)
CombineCerts(g, h) == g.definite \cap h.definite

(* Points_to_impl::merge, the merge of the cells, and the possible NULLs. *)
MergeGraphs(g, h) ==
  [cells |-> MeetSolutions({g.cells, h.cells}),
   definite |-> CombineCerts(g, h),
   possible |-> (references(g) \cup references(h)) \ CombineCerts(g, h)]

-----------------------------------------------------------------------------
(* The run of the program.  An operand denotes one of these variables. *)
Denoted(n) == IF n = Unknown THEN Names ELSE {n}

(* Variable x becomes a reference to y: all that was said of x is now said *)
(* of y.                                                                   *)
Rename(x, y, p) == IF p = x THEN y ELSE p

SetValue(x, v) ==
  /\ val' = [y \in Names |-> IF <<x, y>> \in alias THEN v ELSE val[y]]
  /\ UNCHANGED alias

MakeReference(x, y) ==
  /\ alias' = {e \in Names \X Names : <<Rename(x, y, e[1]), Rename(x, y, e[2])>> \in alias}
  /\ val' = [p \in Names |-> val[Rename(x, y, p)]]

Forget(x) ==
  /\ alias' = Without(alias, x) \cup {<<x, x>>}
  /\ val' = [p \in Names |-> IF p = x THEN Null ELSE val[p]]

Execution(s) ==
  \E x \in Denoted(s.lhs) :
    \/ s.op = "literal" /\ SetValue(x, s.value)
    \/ s.op = "copy" /\ \E y \in Denoted(s.rhs) : SetValue(x, val[y])
    \/ s.op = "ref" /\ \E y \in Denoted(s.rhs) : MakeReference(x, y)
    \/ s.op = "unset" /\ Forget(x)

-----------------------------------------------------------------------------
InitialGraph(D) ==
  [cells |-> [x \in D \cup {Unknown} |-> IF x = Unknown THEN Literal(Null) ELSE Typed(Types)],
   possible |-> {},
   definite |-> {}]

Init ==
  /\ program \in Programs
  /\ pc = "straight"
  /\ ptg = InitialGraph(program.defined)
  /\ other = ptg
  /\ alias = {e \in Names \X Names : e[1] = e[2]}
  /\ val \in {m \in [Names -> Values] : \A x \in Names \ program.defined : m[x] = Null}
  /\ executed = 0

(* The analysis of a statement, which the run executes. *)
Visit(s) ==
  /\ pc # "exception" /\ executed < MaxStatements
  /\ executed' = executed + 1
  /\ IF GivesUp(ptg, s)
       THEN pc' = "exception" /\ UNCHANGED <<ptg, alias, val>>
       ELSE ptg' = AfterStatement(ptg, s) /\ Execution(s) /\ UNCHANGED pc
  /\ UNCHANGED <<program, other>>

(* The analysis of a statement of the branch the run does not take. *)
VisitOther(s) ==
  /\ pc = "branches" /\ executed < MaxStatements
  /\ executed' = executed + 1
  /\ IF GivesUp(other, s)
       THEN pc' = "exception" /\ UNCHANGED other
       ELSE other' = AfterStatement(other, s) /\ UNCHANGED pc
  /\ UNCHANGED <<program, ptg, alias, val>>

Fork ==
  /\ pc = "straight"
  /\ pc' = "branches"
  /\ other' = ptg
  /\ UNCHANGED <<program, ptg, alias, val, executed>>

Join ==
  /\ pc = "branches"
  /\ pc' = "straight"
  /\ ptg' = MergeGraphs(ptg, other)
  /\ other' = ptg'
  /\ UNCHANGED <<program, alias, val, executed>>

Next ==
  \/ \E s \in program.statements : Visit(s) \/ VisitOther(s)
  \/ Fork
  \/ Join

Spec == Init /\ [][Next]_vars

-----------------------------------------------------------------------------
(* What the transformer writes into the program of a variable is so: the   *)
(* cell of its index node, or of UNKNOWN, allows the value it has.         *)
ValuesCovered ==
  pc # "exception" => \A x \in Names :
    LiteralHolds(Cell(ptg, x), val[x]) /\ TypeHolds(Cell(ptg, x), val[x])

(* Two variables that are references to the same value have an edge, and   *)
(* those a DEFINITE edge joins are always such.                            *)
ReferencesCovered ==
  pc # "exception" => \A x, y \in Names : x # y =>
    /\ <<x, y>> \in alias => <<IndexOf(ptg, x), IndexOf(ptg, y)>> \in references(ptg)
    /\ <<x, y>> \in ptg.definite => <<x, y>> \in alias
=============================================================================
