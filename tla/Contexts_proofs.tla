-------------------------- MODULE Contexts_proofs --------------------------
(***************************************************************************)
(* The results of all calls, merged and written into the method, keep what *)
(* each call does -- for any method, any calls, any values and any order   *)
(* of the worklist.  What Coverage_proofs shows of one analysis is used    *)
(* for each call in turn: C is that module with the lattice of             *)
(* Value_analysis, whose solutions stand for stores by the literals they   *)
(* know.                                                                   *)
(***************************************************************************)
EXTENDS Contexts, FiniteSetTheorems, WellFoundedInduction, TLAPS

C == INSTANCE Coverage_proofs WITH
       Solutions <- Solution,
       EntrySolutions <- UNION {{Bound(fs, cs[i]) : fs \in FormalLists, i \in 1..Len(cs)} :
                                  cs \in CallLists},
       MeetAll <- MeetSolutions,
       Transfer <- LAMBDA b, s : Interpret(b.stmt, s),
       Same <- SameSolution,
       KnownTrue <- LAMBDA b, s : known_true(Read(s, b.stmt.var)),
       KnownFalse <- LAMBDA b, s : known_false(Read(s, b.stmt.var)),
       Stores <- Store, Stops <- Dies,
       Exec <- LAMBDA b, m : Execute(b.stmt, m),
       Gamma <- LiteralGamma,
       at <- run.at, store <- run.store

-----------------------------------------------------------------------------
(* The operations of the lattice give cells, and solutions. *)
LEMMA LiteralCell == \A v \in Values : Literal(v) \in Absval /\ LiteralHolds(Literal(v), v)
  BY ValueAssumption DEF Literal, Absval, LiteralHolds

LEMMA TypedCell == \A T \in SUBSET Types : Typed(T) \in Absval
  BY DEF Typed, Absval

(* A cell with a literal is determined by it. *)
LEMMA CellShape ==
  \A a \in Absval : /\ a.types \in SUBSET Types
                    /\ a.lit # NoLit => a.lit \in Values /\ a.types = {TypeOf[a.lit]}
  BY DEF Absval

LEMMA MeetCellsCell ==
  ASSUME NEW K \in SUBSET Absval
  PROVE  MeetCells(K) \in Absval
<1>1. UNION {c.types : c \in K} \in SUBSET Types
  BY CellShape
<1> QED  BY <1>1, LiteralCell, TypedCell DEF MeetCells

LEMMA MeetCellsOfLiteral ==
  ASSUME NEW K \in SUBSET Absval, K # {}, NEW v \in Values, \A c \in K : c.lit = v
  PROVE  MeetCells(K) = Literal(v)
<1>1. (CHOOSE w \in Values : \A c \in K : c.lit = w) = v
  OBVIOUS
<1> QED BY <1>1 DEF MeetCells

LEMMA ApplyCell ==
  ASSUME NEW o \in Ops, NEW a \in Absval
  PROVE  Apply(o, a) \in Absval
<1>1. CASE a.lit # NoLit
  <2>1. Fold[o][a.lit] \in Values
    BY <1>1, CellShape, ValueAssumption
  <2> QED  BY <1>1, <2>1, LiteralCell DEF Apply
<1>2. CASE a.lit = NoLit
  <2>1. UNION {ResultTypes[o][t] : t \in a.types} \in SUBSET Types
    BY CellShape, ValueAssumption
  <2> QED  BY <1>2, <2>1, TypedCell DEF Apply
<1> QED  BY <1>1, <1>2

LEMMA SolutionShape ==
  ASSUME NEW s \in Solution
  PROVE  /\ DOMAIN s \subseteq Vars
         /\ \A x \in DOMAIN s : s[x] \in Absval
         /\ \A x \in Vars : Read(s, x) \in Absval
  BY LiteralCell, ValueAssumption DEF Solution, Read

LEMMA MakeSolution ==
  ASSUME NEW D \in SUBSET Vars, NEW s \in [D -> Absval]
  PROVE  s \in Solution
  BY DEF Solution

LEMMA AssignSolution ==
  ASSUME NEW s \in Solution, NEW y \in Vars, NEW a \in Absval
  PROVE  Assign(s, y, a) \in Solution
<1>1. \A x \in DOMAIN s \cup {y} : (IF x = y THEN a ELSE s[x]) \in Absval
  BY SolutionShape
<1>2. DOMAIN s \cup {y} \in SUBSET Vars
  BY SolutionShape
<1>3. Assign(s, y, a) \in [DOMAIN s \cup {y} -> Absval]
  BY <1>1 DEF Assign
<1> QED BY <1>2, <1>3, MakeSolution

-----------------------------------------------------------------------------
(* The order in which the solutions of a block follow each other: a        *)
(* variable that exists stays, and the literal it is known to hold is      *)
(* forgotten or stays.  Types have no part in it, nor in what is said of   *)
(* an operator's: Fold may be claimed to give any.                         *)
Fades(s, t) ==
  /\ DOMAIN s \subseteq DOMAIN t
  /\ \A x \in Vars : Read(t, x).lit = NoLit \/ Read(s, x).lit = Read(t, x).lit

Fading == {p \in Solution \X Solution : Fades(p[1], p[2])}

(* How far a solution has come: two steps for each variable. *)
Faded(s) == {x \in Vars : Read(s, x).lit = NoLit}
Height == [s \in Solution |-> Cardinality(DOMAIN s) + Cardinality(Faded(s))]

LEMMA InFading ==
  ASSUME NEW s \in Solution, NEW t \in Solution
  PROVE  <<s, t>> \in Fading <=> Fades(s, t)
BY DEF Fading

LEMMA FadesOrder ==
  /\ \A s \in Solution : Fades(s, s)
  /\ \A s, t, u \in Solution : Fades(s, t) /\ Fades(t, u) => Fades(s, u)
BY DEF Fades

(* A merged cell knows a literal if, and only if, all cells know it. *)
LEMMA MeetCellsKnows ==
  ASSUME NEW K \in SUBSET Absval, K # {}, NEW v, v # NoLit
  PROVE  MeetCells(K).lit = v <=> \A c \in K : c.lit = v
<1>1. ASSUME \A c \in K : c.lit = v PROVE MeetCells(K).lit = v
  <2>1. v \in Values
    BY <1>1, CellShape
  <2> QED  BY <1>1, <2>1, MeetCellsOfLiteral DEF Literal
<1>2. ASSUME MeetCells(K).lit = v PROVE \A c \in K : c.lit = v
  <2>1. PICK w \in Values : \A c \in K : c.lit = w
    BY <1>2 DEF MeetCells, Typed
  <2>2. MeetCells(K).lit = w
    BY <2>1, MeetCellsOfLiteral DEF Literal
  <2> QED  BY <1>2, <2>1, <2>2
<1> QED  BY <1>1, <1>2

(* What the merge of solutions knows of a variable, all of them know.      *)
LEMMA MeetKnows ==
  ASSUME NEW S \in SUBSET Solution, S # {}, NEW x \in Vars, NEW v, v # NoLit
  PROVE  Read(MeetSolutions(S), x).lit = v <=> \A s \in S : Read(s, x).lit = v
<1> DEFINE K == {Read(s, x) : s \in S}
<1>1. K \in SUBSET Absval /\ K # {}
  BY SolutionShape
<1>2. (\A c \in K : c.lit = v) <=> \A s \in S : Read(s, x).lit = v
  OBVIOUS
<1>3. CASE x \in UNION {DOMAIN s : s \in S}
  <2>1. Read(MeetSolutions(S), x) = MeetCells(K)
    BY <1>3 DEF MeetSolutions, Read
  <2> HIDE DEF K
  <2> QED  BY <1>1, <1>2, <2>1, MeetCellsKnows
<1>4. CASE x \notin UNION {DOMAIN s : s \in S}
  <2>1. Read(MeetSolutions(S), x) = Literal(Null)
    BY <1>4 DEF MeetSolutions, Read
  <2>2. \A s \in S : Read(s, x) = Literal(Null)
    BY <1>4 DEF Read
  <2> QED  BY <2>1, <2>2
<1> QED  BY <1>3, <1>4

LEMMA MeetFades ==
  ASSUME NEW S \in SUBSET Solution, NEW T \in SUBSET Solution, S # {},
         \A s \in S : \E t \in T : Fades(s, t)
  PROVE  Fades(MeetSolutions(S), MeetSolutions(T))
<1>1. T # {}
  OBVIOUS
<1>2. DOMAIN MeetSolutions(S) \subseteq DOMAIN MeetSolutions(T)
  BY DEF MeetSolutions, Fades
<1>3. ASSUME NEW x \in Vars, NEW v, v = Read(MeetSolutions(T), x).lit, v # NoLit
      PROVE  Read(MeetSolutions(S), x).lit = v
  <2>1. \A t \in T : Read(t, x).lit = v
    BY <1>1, <1>3, MeetKnows
  <2>2. \A s \in S : Read(s, x).lit = v
    BY <1>3, <2>1 DEF Fades
  <2> QED  BY <1>3, <2>2, MeetKnows
<1> QED  BY <1>2, <1>3 DEF Fades

LEMMA AssignFades ==
  ASSUME NEW s \in Solution, NEW t \in Solution, Fades(s, t), NEW y \in Vars,
         NEW a, NEW b, b.lit = NoLit \/ a.lit = b.lit
  PROVE  Fades(Assign(s, y, a), Assign(t, y, b))
<1>1. DOMAIN Assign(s, y, a) \subseteq DOMAIN Assign(t, y, b)
  BY DEF Assign, Fades
<1>2. ASSUME NEW x \in Vars
      PROVE  \/ Read(Assign(t, y, b), x).lit = NoLit
             \/ Read(Assign(s, y, a), x).lit = Read(Assign(t, y, b), x).lit
  <2>1. CASE x = y
    BY <2>1 DEF Assign, Read
  <2>2. CASE x # y
    <3>1. /\ Read(Assign(s, y, a), x) = Read(s, x)
          /\ Read(Assign(t, y, b), x) = Read(t, x)
      BY <2>2 DEF Assign, Read
    <3> QED  BY <3>1 DEF Fades
  <2> QED  BY <2>1, <2>2
<1> QED  BY <1>1, <1>2 DEF Fades

(* Each statement keeps the order. *)
LEMMA InterpretFades ==
  ASSUME NEW st \in Statement, NEW s \in Solution, NEW t \in Solution, Fades(s, t)
  PROVE  Fades(Interpret(st, s), Interpret(st, t))
<1>1. CASE st.op = "literal"
  <2>1. st.var \in Vars
    BY <1>1 DEF Statement
  <2>2. \A u : Interpret(st, u) = Assign(u, st.var, Literal(st.value))
    BY <1>1 DEF Interpret
  <2> QED  BY <2>1, <2>2, AssignFades
<1>2. CASE st.op = "call"
  <2>1. st.var \in Vars
    BY <1>2 DEF Statement
  <2>2. \A u : Interpret(st, u) = Assign(u, st.var, Typed(st.types))
    BY <1>2 DEF Interpret
  <2> QED  BY <2>1, <2>2, AssignFades
<1>3. CASE st.op = "copy"
  <2>1. st.var \in Vars /\ st.rhs \in Vars
    BY <1>3 DEF Statement
  <2>2. \A u : Interpret(st, u) = Assign(u, st.var, Read(u, st.rhs))
    BY <1>3 DEF Interpret
  <2>3. Read(t, st.rhs).lit = NoLit \/ Read(s, st.rhs).lit = Read(t, st.rhs).lit
    BY <2>1 DEF Fades
  <2> QED  BY <2>1, <2>2, <2>3, AssignFades
<1>4. CASE st.op = "operator"
  <2>1. st.var \in Vars /\ st.rhs \in Vars
    BY <1>4 DEF Statement
  <2> DEFINE o == st.operator
             a == Apply(o, Read(s, st.rhs))
             b == Apply(o, Read(t, st.rhs))
  <2>2. Interpret(st, s) = Assign(s, st.var, a) /\ Interpret(st, t) = Assign(t, st.var, b)
    BY <1>4 DEF Interpret
  <2>3. Read(t, st.rhs).lit = NoLit \/ Read(s, st.rhs).lit = Read(t, st.rhs).lit
    BY <2>1 DEF Fades
  <2>4. b.lit = NoLit \/ a.lit = b.lit
    BY <2>3 DEF Apply, Literal, Typed
  <2> HIDE DEF a, b
  <2> QED  BY <2>1, <2>2, <2>4, AssignFades
<1>5. CASE st.op = "unset"
  <2>1. \A u : Interpret(st, u) = [x \in DOMAIN u \ {st.var} |-> u[x]]
    BY <1>5 DEF Interpret
  <2>2. \A u, x : Read(Interpret(st, u), x) =
                    IF x = st.var THEN Literal(Null) ELSE Read(u, x)
    <3> SUFFICES ASSUME NEW u, NEW x
                 PROVE  Read(Interpret(st, u), x) =
                          IF x = st.var THEN Literal(Null) ELSE Read(u, x)
      OBVIOUS
    <3>1. PICK v : v = Interpret(st, u)
      OBVIOUS
    <3>2. DOMAIN v = DOMAIN u \ {st.var} /\ \A y \in DOMAIN v : v[y] = u[y]
      BY <2>1, <3>1
    <3> QED  BY <3>1, <3>2 DEF Read
  <2>3. DOMAIN Interpret(st, s) \subseteq DOMAIN Interpret(st, t)
    BY <2>1 DEF Fades
  <2> QED  BY <2>2, <2>3 DEF Fades
<1>6. CASE st.op \notin {"literal", "call", "copy", "operator", "unset"}
  BY <1>6 DEF Interpret
<1> QED  BY <1>1, <1>2, <1>3, <1>4, <1>5, <1>6

(* The order rises at most twice for each variable, and solution_changed   *)
(* sees every rise.                                                        *)
LEMMA HeightBound ==
  ASSUME IsFiniteSet(Vars), NEW s \in Solution
  PROVE  /\ DOMAIN s \in SUBSET Vars /\ Faded(s) \in SUBSET Vars
         /\ IsFiniteSet(DOMAIN s) /\ IsFiniteSet(Faded(s))
         /\ Cardinality(Vars) \in Nat
         /\ Height[s] \in 0..(2 * Cardinality(Vars))
<1>1. DOMAIN s \in SUBSET Vars /\ Faded(s) \in SUBSET Vars
  BY SolutionShape DEF Faded
<1>2. /\ IsFiniteSet(DOMAIN s) /\ Cardinality(DOMAIN s) <= Cardinality(Vars)
      /\ IsFiniteSet(Faded(s)) /\ Cardinality(Faded(s)) <= Cardinality(Vars)
  BY <1>1, FS_Subset
<1>3. Cardinality(DOMAIN s) \in Nat /\ Cardinality(Faded(s)) \in Nat /\ Cardinality(Vars) \in Nat
  BY <1>2, FS_CardinalityType
<1>4. Height[s] = Cardinality(DOMAIN s) + Cardinality(Faded(s))
  BY DEF Height
<1> QED  BY <1>1, <1>2, <1>3, <1>4

LEMMA HeightRises ==
  ASSUME IsFiniteSet(Vars), NEW s \in Solution, NEW t \in Solution, Fades(s, t)
  PROVE  /\ Height[s] <= Height[t]
         /\ ~SameSolution(t, s) => Height[s] < Height[t]
<1>1. DOMAIN s \in SUBSET DOMAIN t /\ Faded(s) \in SUBSET Faded(t)
  BY DEF Fades, Faded
<1>2. /\ IsFiniteSet(DOMAIN t) /\ IsFiniteSet(Faded(t))
      /\ DOMAIN s \subseteq Vars
  BY HeightBound
<1>3. /\ Cardinality(DOMAIN s) <= Cardinality(DOMAIN t)
      /\ Cardinality(DOMAIN t) = Cardinality(DOMAIN s) => DOMAIN t = DOMAIN s
      /\ IsFiniteSet(DOMAIN s)
  BY <1>1, <1>2, FS_Subset
<1>4. /\ Cardinality(Faded(s)) <= Cardinality(Faded(t))
      /\ Cardinality(Faded(t)) = Cardinality(Faded(s)) => Faded(t) = Faded(s)
      /\ IsFiniteSet(Faded(s))
  BY <1>1, <1>2, FS_Subset
<1>5. /\ Cardinality(DOMAIN s) \in Nat /\ Cardinality(DOMAIN t) \in Nat
      /\ Cardinality(Faded(s)) \in Nat /\ Cardinality(Faded(t)) \in Nat
  BY <1>2, <1>3, <1>4, FS_CardinalityType
<1>6. /\ Height[s] = Cardinality(DOMAIN s) + Cardinality(Faded(s))
      /\ Height[t] = Cardinality(DOMAIN t) + Cardinality(Faded(t))
  BY DEF Height
<1>7. DOMAIN t = DOMAIN s /\ Faded(t) = Faded(s) => SameSolution(t, s)
  <2> SUFFICES ASSUME DOMAIN t = DOMAIN s, Faded(t) = Faded(s), NEW x \in DOMAIN t
               PROVE  t[x].lit = s[x].lit
    BY DEF SameSolution, EqualAbsvals
  <2>1. x \in Vars /\ Read(t, x) = t[x] /\ Read(s, x) = s[x]
    BY <1>2 DEF Read
  <2>2. t[x].lit = NoLit <=> s[x].lit = NoLit
    <3>1. x \in Faded(t) <=> x \in Faded(s)
      OBVIOUS
    <3> QED  BY <2>1, <3>1 DEF Faded
  <2> QED  BY <2>1, <2>2 DEF Fades
<1> QED  BY <1>3, <1>4, <1>5, <1>6, <1>7

-----------------------------------------------------------------------------
(* A solution stands for the stores that have the literals it knows. *)
LEMMA InLiteralGamma ==
  ASSUME NEW s, NEW m
  PROVE  m \in LiteralGamma(s) <=> m \in Store /\ StandsFor(s, m)
  BY DEF LiteralGamma, StandsFor

(* A merged cell knows a literal only if all cells know it. *)
LEMMA MeetCellsLiteral ==
  ASSUME NEW K, NEW c \in K, MeetCells(K).lit # NoLit
  PROVE  c.lit = MeetCells(K).lit
<1>1. \E v \in Values : \A d \in K : d.lit = v
  BY DEF MeetCells, Typed
<1>2. PICK v \in Values : v = CHOOSE w \in Values : \A d \in K : d.lit = w
  BY <1>1
<1>3. \A d \in K : d.lit = v
  BY <1>1, <1>2
<1>4. MeetCells(K).lit = v
  BY <1>1, <1>2 DEF MeetCells, Literal
<1> QED BY <1>3, <1>4

(* The merge of pull_results is a solution, and stands for all that one of *)
(* the solutions merged stands for.                                        *)
LEMMA MeetSolutionsCovers ==
  ASSUME NEW S \in SUBSET Solution, S # {}
  PROVE  /\ MeetSolutions(S) \in Solution
         /\ \A s \in S : LiteralGamma(s) \subseteq LiteralGamma(MeetSolutions(S))
<1> DEFINE D == UNION {DOMAIN s : s \in S}
           Cells(x) == {Read(s, x) : s \in S}
<1>1. D \in SUBSET Vars
  BY SolutionShape
<1>2. \A x \in Vars : Cells(x) \in SUBSET Absval /\ Cells(x) # {}
  BY SolutionShape
<1>3. MeetSolutions(S) = [x \in D |-> MeetCells(Cells(x))]
  BY DEF MeetSolutions
<1>4. \A x \in D : MeetCells(Cells(x)) \in Absval
  BY <1>1, <1>2, MeetCellsCell
<1>5. MeetSolutions(S) \in Solution
  <2> HIDE DEF D, Cells
  <2> QED BY <1>1, <1>3, <1>4, MakeSolution
<1>6. ASSUME NEW s \in S, NEW m \in LiteralGamma(s), NEW x \in Vars
      PROVE  LiteralHolds(Read(MeetSolutions(S), x), m[x])
  <2>1. LiteralHolds(Read(s, x), m[x])
    BY <1>6, InLiteralGamma DEF StandsFor
  <2>2. CASE x \in D
    <3>1. Read(MeetSolutions(S), x) = MeetCells(Cells(x)) /\ Read(s, x) \in Cells(x)
      BY <1>3, <2>2 DEF Read
    <3> HIDE DEF Cells
    <3> QED BY <2>1, <3>1, MeetCellsLiteral DEF LiteralHolds
  <2>3. CASE x \notin D
    BY <1>3, <2>1, <2>3 DEF Read
  <2> QED BY <2>2, <2>3
<1>7. ASSUME NEW s \in S, NEW m \in LiteralGamma(s)
      PROVE  m \in LiteralGamma(MeetSolutions(S))
  BY <1>6, <1>7, InLiteralGamma DEF StandsFor
<1> QED BY <1>5, <1>7

(* Assigning a cell whose literal is right. *)
LEMMA AssignStandsFor ==
  ASSUME NEW s \in Solution, NEW m \in LiteralGamma(s), NEW y \in Vars,
         NEW a, NEW v \in Values, LiteralHolds(a, v)
  PROVE  [m EXCEPT ![y] = v] \in LiteralGamma(Assign(s, y, a))
<1>1. m \in Store /\ \A x \in Vars : LiteralHolds(Read(s, x), m[x])
  BY InLiteralGamma DEF StandsFor
<1>2. [m EXCEPT ![y] = v] \in Store
  BY <1>1 DEF Store
<1>3. \A x \in Vars : LiteralHolds(Read(Assign(s, y, a), x), [m EXCEPT ![y] = v][x])
  <2> TAKE x \in Vars
  <2>1. CASE x = y
    BY <2>1, <1>1 DEF Assign, Read, Store
  <2>2. CASE x # y
    <3>1. Read(Assign(s, y, a), x) = Read(s, x)
      BY <2>2 DEF Assign, Read
    <3>2. [m EXCEPT ![y] = v][x] = m[x]
      BY <2>2, <1>1 DEF Store
    <3> QED BY <3>1, <3>2, <1>1
  <2> QED BY <2>1, <2>2
<1> QED BY <1>2, <1>3, InLiteralGamma DEF StandsFor

(* The statements: whatever an execution leaves, the solution stands for. *)
LEMMA InterpretStandsFor ==
  ASSUME NEW st \in Statement, NEW s \in Solution
  PROVE  /\ Interpret(st, s) \in Solution
         /\ \A m \in LiteralGamma(s) : Execute(st, m) \subseteq LiteralGamma(Interpret(st, s))
<1>0. \A m \in LiteralGamma(s) : m \in Store /\ \A x \in Vars : LiteralHolds(Read(s, x), m[x])
  BY InLiteralGamma DEF StandsFor
<1>1. CASE st.op = "literal"
  <2>1. st.var \in Vars /\ st.value \in Values
    BY <1>1 DEF Statement
  <2>2. /\ Interpret(st, s) = Assign(s, st.var, Literal(st.value))
        /\ \A m : Execute(st, m) = {[m EXCEPT ![st.var] = st.value]}
    BY <1>1 DEF Interpret, Execute
  <2>3. Literal(st.value) \in Absval /\ LiteralHolds(Literal(st.value), st.value)
    BY <2>1, LiteralCell
  <2> QED BY <2>1, <2>2, <2>3, AssignSolution, AssignStandsFor
<1>2. CASE st.op = "call"
  <2>1. st.var \in Vars /\ st.types \in SUBSET Types
    BY <1>2 DEF Statement
  <2>2. /\ Interpret(st, s) = Assign(s, st.var, Typed(st.types))
        /\ \A m : Execute(st, m) =
             {[m EXCEPT ![st.var] = v] : v \in {w \in Values : TypeOf[w] \in st.types}}
    BY <1>2 DEF Interpret, Execute
  <2>3. Typed(st.types) \in Absval /\ \A v \in Values : LiteralHolds(Typed(st.types), v)
    BY <2>1, TypedCell DEF LiteralHolds, Typed
  <2> QED BY <2>1, <2>2, <2>3, AssignSolution, AssignStandsFor
<1>3. CASE st.op = "copy"
  <2>1. st.var \in Vars /\ st.rhs \in Vars
    BY <1>3 DEF Statement
  <2>2. /\ Interpret(st, s) = Assign(s, st.var, Read(s, st.rhs))
        /\ \A m : Execute(st, m) = {[m EXCEPT ![st.var] = m[st.rhs]]}
    BY <1>3 DEF Interpret, Execute
  <2>3. Read(s, st.rhs) \in Absval
    BY <2>1, SolutionShape
  <2>4. \A m \in LiteralGamma(s) : m[st.rhs] \in Values /\ LiteralHolds(Read(s, st.rhs), m[st.rhs])
    BY <1>0, <2>1 DEF Store
  <2> QED BY <2>1, <2>2, <2>3, <2>4, AssignSolution, AssignStandsFor
<1>4. CASE st.op = "operator"
  <2>1. st.var \in Vars /\ st.rhs \in Vars /\ st.operator \in Ops
    BY <1>4 DEF Statement
  <2> DEFINE o == st.operator
             a == Read(s, st.rhs)
  <2>2. /\ Interpret(st, s) = Assign(s, st.var, Apply(o, a))
        /\ \A m : Execute(st, m) = {[m EXCEPT ![st.var] = Fold[o][m[st.rhs]]]}
    BY <1>4 DEF Interpret, Execute
  <2>3. a \in Absval
    BY <2>1, SolutionShape
  <2>4. Apply(o, a) \in Absval
    BY <2>1, <2>3, ApplyCell
  <2>5. \A m \in LiteralGamma(s) :
          Fold[o][m[st.rhs]] \in Values /\ LiteralHolds(Apply(o, a), Fold[o][m[st.rhs]])
    <3> TAKE m \in LiteralGamma(s)
    <3>1. m[st.rhs] \in Values /\ LiteralHolds(a, m[st.rhs])
      BY <1>0, <2>1 DEF Store
    <3>2. Fold[o][m[st.rhs]] \in Values
      BY <2>1, <3>1, ValueAssumption
    <3>3. CASE a.lit # NoLit
      BY <3>1, <3>2, <3>3 DEF Apply, LiteralHolds, Literal
    <3>4. CASE a.lit = NoLit
      BY <3>2, <3>4 DEF Apply, LiteralHolds, Typed
    <3> QED BY <3>2, <3>3, <3>4
  <2> HIDE DEF o, a
  <2> QED BY <2>1, <2>2, <2>4, <2>5, AssignSolution, AssignStandsFor
<1>5. CASE st.op = "unset"
  <2>1. st.var \in Vars
    BY <1>5 DEF Statement
  <2> DEFINE t == [x \in DOMAIN s \ {st.var} |-> s[x]]
  <2>2. Interpret(st, s) = t /\ \A m : Execute(st, m) = {[m EXCEPT ![st.var] = Null]}
    BY <1>5 DEF Interpret, Execute
  <2>3. DOMAIN s \ {st.var} \in SUBSET Vars /\ t \in [DOMAIN s \ {st.var} -> Absval]
    BY SolutionShape
  <2>4. t \in Solution
    BY <2>3, MakeSolution
  <2>5. ASSUME NEW m \in LiteralGamma(s)
        PROVE  [m EXCEPT ![st.var] = Null] \in LiteralGamma(t)
    <3>1. [m EXCEPT ![st.var] = Null] \in Store
      BY <1>0, <2>1, ValueAssumption DEF Store
    <3>2. \A x \in Vars : LiteralHolds(Read(t, x), [m EXCEPT ![st.var] = Null][x])
      <4> TAKE x \in Vars
      <4>1. CASE x = st.var
        <5>1. Read(t, x) = Literal(Null) /\ [m EXCEPT ![st.var] = Null][x] = Null
          BY <4>1, <1>0 DEF Read, Store
        <5> QED BY <5>1 DEF LiteralHolds, Literal
      <4>2. CASE x # st.var
        <5>1. Read(t, x) = Read(s, x) /\ [m EXCEPT ![st.var] = Null][x] = m[x]
          BY <4>2, <1>0 DEF Read, Store
        <5> QED BY <5>1, <1>0
      <4> QED BY <4>1, <4>2
    <3> QED BY <3>1, <3>2, InLiteralGamma DEF StandsFor
  <2> QED BY <2>2, <2>4, <2>5
<1>6. CASE st.op \notin {"literal", "call", "copy", "operator", "unset"}
  BY <1>6 DEF Interpret, Execute
<1> QED BY <1>1, <1>2, <1>3, <1>4, <1>5, <1>6

(* Solutions that compare equal know the same literals. *)
LEMMA SameSolutionExact ==
  ASSUME NEW s, NEW t, SameSolution(s, t)
  PROVE  /\ \A x : Read(s, x).lit = Read(t, x).lit
         /\ LiteralGamma(s) = LiteralGamma(t)
<1>1. \A x : Read(s, x).lit = Read(t, x).lit
  BY DEF SameSolution, EqualAbsvals, Read
<1>2. LiteralGamma(s) = LiteralGamma(t)
  BY <1>1 DEF LiteralGamma, LiteralHolds
<1> QED BY <1>1, <1>2

-----------------------------------------------------------------------------
(* What forward_bind gives the formal parameters is a solution. *)
LEMMA BoundSolution ==
  ASSUME NEW fs \in FormalLists, NEW cs \in CallLists, NEW i \in 1..Len(cs)
  PROVE  Bound(fs, cs[i]) \in Solution
<1> DEFINE n == Len(cs[i])
           bound == 1..(IF n < Len(fs) THEN n + 1 ELSE n)
           D == {fs[k] : k \in bound}
           Cell(x) == IF \E k \in 1..n : fs[k] = x
                        THEN cs[i][CHOOSE k \in 1..n : fs[k] = x]
                        ELSE Literal(Default[x])
<1>1. /\ fs \in Seq(Vars) /\ cs[i] \in Seq(Absval) /\ n <= Len(fs)
      /\ n \in Nat /\ Len(fs) \in Nat
  BY CallAssumption
<1>2. bound \subseteq 1..Len(fs)
  BY <1>1
<1>3. D \in SUBSET Vars
  <2> HIDE DEF bound
  <2> QED BY <1>1, <1>2
<1>4. Bound(fs, cs[i]) = [x \in D |-> Cell(x)]
  BY DEF Bound
<1>5. ASSUME NEW x \in D PROVE Cell(x) \in Absval
  <2>1. CASE \E k \in 1..n : fs[k] = x
    <3>1. PICK k \in 1..n : k = CHOOSE j \in 1..n : fs[j] = x
      BY <2>1
    <3>2. Cell(x) = cs[i][k]
      BY <2>1, <3>1
    <3> QED BY <1>1, <3>2
  <2>2. CASE ~ \E k \in 1..n : fs[k] = x
    BY <2>2, <1>3, LiteralCell, CallAssumption
  <2> QED BY <2>1, <2>2
<1> HIDE DEF D, Cell
<1> QED BY <1>3, <1>4, <1>5, MakeSolution

(* Here the module C is instantiated with, what it assumes is true. *)
LEMMA CFGAssumptionHolds == C!CFGAssumption
BY MethodAssumption DEF C!CFGAssumption, C!ConsistentCFG, F!ConsistentCFG, C!Edge, F!Edge,
   C!Directions, F!Directions, C!Leaving, F!Leaving, C!Entering, F!Entering, C!Towards, F!Towards

LEMMA SolutionAssumptionHolds == C!SolutionAssumption
<1>1. UNION {{Bound(fs, cs[i]) : fs \in FormalLists, i \in 1..Len(cs)} : cs \in CallLists}
        \subseteq Solution
  BY BoundSolution
<1>2. \A S \in SUBSET Solution : S # {} => MeetSolutions(S) \in Solution
  BY MeetSolutionsCovers
<1>3. \A b \in Blocks, s \in Solution : Interpret(b.stmt, s) \in Solution
  BY InterpretStandsFor, MethodAssumption
<1> QED BY <1>1, <1>2, <1>3 DEF C!SolutionAssumption

LEMMA StoresAssumptionHolds == C!StoresAssumption
BY CallAssumption DEF C!StoresAssumption, Store

LEMMA BranchVariable == \A b \in Branches : b \in Blocks /\ b.stmt.var \in Vars
<1> SUFFICES ASSUME NEW b \in Branches PROVE b \in Blocks /\ b.stmt.var \in Vars
  OBVIOUS
<1>1. b \in Blocks /\ b.stmt \in Statement /\ b.stmt.op = "branch"
  BY MethodAssumption
<1> QED BY <1>1 DEF Statement

LEMMA LatticeAssumptionHolds == C!LatticeAssumption
<1>1. \A s \in Solution : LiteralGamma(s) \subseteq Store
  BY DEF LiteralGamma
<1>2. \A S \in SUBSET Solution : \A s \in S : LiteralGamma(s) \subseteq LiteralGamma(MeetSolutions(S))
  BY MeetSolutionsCovers
<1>3. \A b \in Blocks, s \in Solution, m \in Store :
        m \in LiteralGamma(s) => Execute(b.stmt, m) \subseteq LiteralGamma(Interpret(b.stmt, s))
  BY InterpretStandsFor, MethodAssumption
<1>4. ASSUME NEW b \in Branches, NEW s \in Solution, NEW m \in Store, m \in LiteralGamma(s)
      PROVE  /\ known_true(Read(s, b.stmt.var)) => IsTrue(b, m)
             /\ known_false(Read(s, b.stmt.var)) => ~IsTrue(b, m)
  <2>1. LiteralHolds(Read(s, b.stmt.var), m[b.stmt.var])
    BY <1>4, InLiteralGamma, BranchVariable DEF StandsFor
  <2> QED BY <2>1 DEF LiteralHolds, known_true, known_false, IsTrue
<1> QED BY <1>1, <1>2, <1>3, <1>4 DEF C!LatticeAssumption, C!LatticeIsSound

LEMMA StopsAssumptionHolds == C!StopsAssumption
BY DEF C!StopsAssumption

LEMMA SameAssumptionHolds == C!SameAssumption
<1>1. ASSUME NEW s \in Solution, NEW t \in Solution, SameSolution(s, t)
      PROVE  /\ LiteralGamma(s) \subseteq LiteralGamma(t)
             /\ \A b \in Branches :
                  /\ known_true(Read(t, b.stmt.var)) => known_true(Read(s, b.stmt.var))
                  /\ known_false(Read(t, b.stmt.var)) => known_false(Read(s, b.stmt.var))
  BY <1>1, SameSolutionExact DEF known_true, known_false
<1> QED BY <1>1 DEF C!SameAssumption, C!SameIsExact

(* So what it proves may be used. *)
LEMMA AnalysisStep == C!AnalysisInv /\ [C!Next]_C!vars /\ UNCHANGED given => C!AnalysisInv'
BY CFGAssumptionHolds, SolutionAssumptionHolds, StoresAssumptionHolds, LatticeAssumptionHolds,
   StopsAssumptionHolds, SameAssumptionHolds, C!AnalysisStep

LEMMA IterationVisits ==
  ASSUME C!AnalysisInv, pc = "loop", NEW e \in queue,
         C!VisitBranch(e) \/ C!VisitStatement(e) \/ C!VisitExit(e)
  PROVE  C!Visit(e.target, Interpret(e.target.stmt, C!Pull(e.target)))
BY CFGAssumptionHolds, SolutionAssumptionHolds, StoresAssumptionHolds, LatticeAssumptionHolds,
   StopsAssumptionHolds, SameAssumptionHolds, C!IterationVisits

LEMMA VisitFacts ==
  ASSUME C!AnalysisInv, NEW b, C!Visit(b, Interpret(b.stmt, C!Pull(b)))
  PROVE  /\ C!Pull(b) \in Solution /\ Interpret(b.stmt, C!Pull(b)) \in Solution
         /\ C!ExecutableSources(b) \subseteq DOMAIN outs
         /\ \A p \in C!ExecutableSources(b) : LiteralGamma(outs[p]) \subseteq LiteralGamma(C!Pull(b))
<1>1. \A c : C!Visit(c, Interpret(c.stmt, C!Pull(c))) =>
         /\ C!Pull(c) \in Solution /\ Interpret(c.stmt, C!Pull(c)) \in Solution
         /\ C!ExecutableSources(c) \subseteq DOMAIN outs
         /\ \A p \in C!ExecutableSources(c) : LiteralGamma(outs[p]) \subseteq LiteralGamma(C!Pull(c))
  BY CFGAssumptionHolds, SolutionAssumptionHolds, StoresAssumptionHolds, LatticeAssumptionHolds,
     StopsAssumptionHolds, SameAssumptionHolds, C!VisitFacts
<1> QED BY <1>1

-----------------------------------------------------------------------------
(* Contexts instantiates AnalyseFunction under the name F, and C extends   *)
(* it: the operators are the same.                                         *)
LEMMA SameGraphs ==
  ASSUME NEW g, NEW b
  PROVE  /\ F!Leaving(g, b) = C!Leaving(g, b)
         /\ F!ConsistentCFG(g) <=> C!ConsistentCFG(g)
BY DEF C!ConsistentCFG, F!ConsistentCFG, C!Edge, F!Edge, C!Directions, F!Directions,
   C!Leaving, F!Leaving, C!Entering, F!Entering, C!Towards, F!Towards

LEMMA SamePull == \A b : F!Pull(b) = C!Pull(b)
BY DEF F!Pull, C!Pull, F!ExecutableSources, C!ExecutableSources, F!Entering, C!Entering

LEMMA SameSteps ==
  /\ F!Init => C!Init
  /\ F!ForwardBind => C!ForwardBind
  /\ F!BackwardBind => C!BackwardBind
  /\ \A e : /\ F!VisitBranch(e) => C!VisitBranch(e)
            /\ F!VisitStatement(e) => C!VisitStatement(e)
            /\ F!VisitExit(e) => C!VisitExit(e)
<1>1. F!Init => C!Init
  BY DEF F!Init, C!Init
<1>2. F!BackwardBind => C!BackwardBind
  BY DEF F!BackwardBind, C!BackwardBind
<1>3. F!ForwardBind => C!ForwardBind
  <2>1. \A s : F!SetOut(Entry, s) => C!SetOut(Entry, s)
    BY DEF F!SetOut, C!SetOut
  <2>2. \A e : F!SetWorklist(F!Add(F!wl, e)) => C!SetWorklist(C!Add(C!wl, e))
    BY DEF F!SetWorklist, C!SetWorklist, F!Add, C!Add, F!wl, C!wl
  <2> QED BY <2>1, <2>2, SameGraphs DEF F!ForwardBind, C!ForwardBind
<1> USE DEF C!SolutionChanged, F!SolutionChanged, C!SetOut, F!SetOut, C!Leaving, F!Leaving,
            C!Towards, F!Towards, C!Remove, F!Remove, C!wl, F!wl,
            C!SetWorklist, F!SetWorklist, C!Add, F!Add, C!AddSuccessor, F!AddSuccessor,
            C!AddSuccessorIf, F!AddSuccessorIf,
            F!Pull, C!Pull, F!ExecutableSources, C!ExecutableSources, F!Entering, C!Entering
<1>4. ASSUME NEW e, F!VisitBranch(e) PROVE C!VisitBranch(e)
  BY <1>4 DEF F!VisitBranch, C!VisitBranch
<1>5. ASSUME NEW e, F!VisitStatement(e) PROVE C!VisitStatement(e)
  BY <1>5 DEF F!VisitStatement, C!VisitStatement, F!Redirect, C!Redirect
<1>6. ASSUME NEW e, F!VisitExit(e) PROVE C!VisitExit(e)
  BY <1>6 DEF F!VisitExit, C!VisitExit
<1> QED BY <1>1, <1>2, <1>3, <1>4, <1>5, <1>6

-----------------------------------------------------------------------------
Analysing == {"start", "loop", "done", "segfault"}
Finished == {"merging", "merged", "applied"}
PerBlock == UNION {[D -> Solution] : D \in SUBSET Blocks}

(* What the ins i and the outs o of a call say, if s is what it binds: for *)
(* each of the blocks B, a solution that covers where a run may go next on *)
(* the graph g, unless the block there is still waiting.                   *)
Recorded(i, o, s, g, waiting, B) ==
  /\ DOMAIN i \subseteq Blocks \ {Entry} /\ DOMAIN o = DOMAIN i \cup {Entry}
  /\ o[Entry] = s
  /\ \A b \in DOMAIN i : i[b] \in Solution /\ o[b] = Interpret(b.stmt, i[b])
  /\ \A b \in DOMAIN o \cap B : \A e \in C!Successors(g, b, o[b]) : e.target \notin waiting =>
       /\ e.target \in DOMAIN i
       /\ LiteralGamma(o[b]) \subseteq LiteralGamma(i[e.target])

MethodInv ==
  /\ formals \in FormalLists
  /\ calls \in CallLists
  /\ C!ConsistentCFG(given)

(* The call being analysed. *)
PresentInv ==
  /\ pc \in Analysing \cup Finished
  /\ ins \in PerBlock /\ outs \in PerBlock
  /\ pc \in Analysing => C!AnalysisInv
  /\ pc = "start" => DOMAIN ins = {} /\ DOMAIN outs = {}
  /\ pc \in Analysing \ {"start"} =>
       Recorded(ins, outs, Bound(formals, call), cfg, bbs, Blocks)
  /\ pc \in Finished => DOMAIN ins = {} /\ DOMAIN outs = {}
  /\ pc # "applied" => C!GraphOK

(* The calls analysed before. *)
ResultsInv ==
  /\ results \in Seq([in : PerBlock, out : PerBlock])
  /\ pc \in Analysing => Len(results) < Len(calls)
  /\ pc \in Finished => Len(results) = Len(calls)
  /\ \A c \in 1..Len(results) :
       Recorded(results[c].in, results[c].out, Bound(formals, calls[c]), given, {}, Blocks \ Dies)

(* What is merged: in each block, as many variables as some context has.   *)
MergedFrom(m) ==
  \A side \in {"in", "out"} :
    /\ DOMAIN m[side] = UNION {DOMAIN results[c][side] : c \in 1..Len(results)}
    /\ \A b \in DOMAIN m[side] : \E first \in Having(side, b) :
         m[side][b] = MergedSolution(side, b, first)

MergedInv == pc \in {"merged", "applied"} => MergedFrom(merged)

(* What is written into the method. *)
CodeInv ==
  /\ DOMAIN code = Blocks
  /\ pc = "applied" =>
       /\ code = [b \in Blocks |-> Transformed(b)]
       /\ \A b \in Blocks \ Dies :
            C!Leaving(cfg, b) =
              IF b \in Decided THEN C!Leaving(SetBranch(C!Leaving(given, b), b, Direction(b)), b)
              ELSE C!Leaving(given, b)

(* The run, if its call was given enough parameters. *)
RunInv ==
  /\ run \in [call : 0..Len(calls), at : Blocks, store : Store]
  /\ run.call # 0 => pc = "applied"
  /\ run.call # 0 /\ Missing(calls[run.call]) <= 1 =>
       /\ run.at \in DOMAIN results[run.call].out
       /\ run.store \in LiteralGamma(results[run.call].out[run.at])

IInv == MethodInv /\ PresentInv /\ ResultsInv /\ MergedInv /\ CodeInv /\ RunInv

-----------------------------------------------------------------------------
LEMMA AnalysisContinues ==
  ASSUME C!AnalysisInv, ForwardBind \/ AnalyseBlock \/ BackwardBind
  PROVE  C!AnalysisInv'
<1>1. UNCHANGED given
  BY DEF ForwardBind, AnalyseBlock, BackwardBind, method
<1>2. C!Next
  BY SameSteps DEF ForwardBind, AnalyseBlock, BackwardBind, C!Next, C!AnalyseNext
<1> QED BY <1>1, <1>2, AnalysisStep

LEMMA MakePerBlock ==
  ASSUME NEW f, DOMAIN f \in SUBSET Blocks, f = [b \in DOMAIN f |-> f[b]],
         \A b \in DOMAIN f : f[b] \in Solution
  PROVE  f \in PerBlock
<1>1. f \in [DOMAIN f -> Solution]
  OBVIOUS
<1> QED BY <1>1 DEF PerBlock

LEMMA InitPresent ==
  ASSUME Init
  PROVE  MethodInv /\ PresentInv /\ ResultsInv /\ MergedInv /\ CodeInv /\ RunInv
<1>1. /\ pc = "start" /\ cfg \in CFGs /\ given = cfg /\ queue = {} /\ bbs = {} /\ executable = {}
      /\ DOMAIN outs = {} /\ DOMAIN ins = {} /\ results = <<>>
      /\ formals \in FormalLists /\ calls \in CallLists
  BY DEF Init, F!Init, Nothing
<1>2. C!ConsistentCFG(cfg)
  BY <1>1, SameGraphs, MethodAssumption
<1>3. C!GraphOK
  BY <1>1, <1>2 DEF C!GraphOK
<1>4. C!AnalysisInv
  BY <1>1, <1>2, <1>3 DEF C!AnalysisInv, C!TypeOK, C!wl, C!Worklist, C!PhaseOK, C!WorklistOK,
                          C!Settled
<1>5. ins \in PerBlock /\ outs \in PerBlock
  BY <1>1, MakePerBlock DEF Init, F!Init, Nothing
<1>6. MethodInv /\ PresentInv
  BY <1>1, <1>2, <1>3, <1>4, <1>5 DEF MethodInv, PresentInv, Analysing, Finished
<1>7. ResultsInv /\ MergedInv
  <2>1. calls \in Seq(Seq(Absval)) /\ calls # <<>>
    BY <1>1, CallAssumption
  <2>2. Len(calls) \in Nat /\ Len(calls) > 0
    BY <2>1
  <2> QED BY <1>1, <2>2 DEF ResultsInv, MergedInv, Finished
<1>8. CodeInv
  BY <1>1 DEF Init, CodeInv
<1>9. RunInv
  <2>1. [x \in Vars |-> Null] \in Store
    BY ValueAssumption DEF Store
  <2>2. calls \in Seq(Seq(Absval))
    BY <1>1, CallAssumption
  <2>3. run = [call |-> 0, at |-> Entry, store |-> [x \in Vars |-> Null]]
    BY DEF Init
  <2>4. 0 \in 0..Len(calls)
    BY <2>2
  <2> QED BY <2>1, <2>3, <2>4, MethodAssumption DEF RunInv
<1> QED BY <1>6, <1>7, <1>8, <1>9

(* The first iteration, and each of the others, keeps the record. *)
LEMMA ForwardBindRecords ==
  ASSUME MethodInv, PresentInv, ForwardBind
  PROVE  PresentInv'
<1>1. /\ pc = "start" /\ pc' = "loop" /\ cfg' = cfg /\ outs'[Entry] = Bound(formals, call)
      /\ UNCHANGED <<ins, formals, calls, results>>
      /\ \E s : F!SetOut(Entry, s)
  BY DEF ForwardBind, F!ForwardBind, method
<1>2. /\ C!AnalysisInv /\ DOMAIN ins = {} /\ DOMAIN outs = {}
  BY <1>1 DEF PresentInv, Analysing
<1>3. C!AnalysisInv'
  BY <1>2, AnalysisContinues
<1>4. DOMAIN outs' = {Entry} /\ DOMAIN ins' = {}
  BY <1>1, <1>2 DEF F!SetOut
<1>5. \A e \in C!Successors(cfg', Entry, outs'[Entry]) : e.target \in bbs'
  <2>1. \A e \in C!Successors(cfg', Entry, outs'[Entry]) : e \in cfg' /\ e.source = Entry
    BY DEF C!Successors, C!Leaving
  <2>2. \A e \in cfg' : e.target # Entry
    BY <1>3 DEF C!AnalysisInv, C!TypeOK, C!ConsistentCFG, C!Entering
  <2> QED BY <1>3, <1>4, <2>1, <2>2 DEF C!AnalysisInv, C!Settled
<1>6. UNCHANGED Bound(formals, call)
  BY <1>1 DEF call
<1>7. Recorded(ins, outs, Bound(formals, call), cfg, bbs, Blocks)'
  BY <1>1, <1>4, <1>5, <1>6 DEF Recorded
<1>8. ins' \in PerBlock /\ outs' \in PerBlock
  <2>1. outs' = [b \in DOMAIN outs' |-> outs'[b]] /\ \A b \in DOMAIN outs' : outs'[b] \in Solution
    BY <1>1, <1>3 DEF F!SetOut, C!AnalysisInv, C!TypeOK
  <2> QED BY <1>1, <1>4, <2>1, MakePerBlock, MethodAssumption DEF PresentInv
<1> QED BY <1>1, <1>3, <1>7, <1>8 DEF PresentInv, Analysing, Finished, C!AnalysisInv

LEMMA AnalyseBlockRecords ==
  ASSUME MethodInv, PresentInv, AnalyseBlock
  PROVE  PresentInv'
<1>1. pc = "loop" /\ UNCHANGED <<formals, calls, results>>
  BY DEF AnalyseBlock, method
<1>2. PICK edge \in queue :
        /\ F!VisitBranch(edge) \/ F!VisitStatement(edge) \/ F!VisitExit(edge)
        /\ ins' = [c \in DOMAIN ins \cup {edge.target} |->
                     IF c = edge.target THEN F!Pull(c) ELSE ins[c]]
  BY DEF AnalyseBlock
<1>3. C!AnalysisInv /\ Recorded(ins, outs, Bound(formals, call), cfg, bbs, Blocks)
  BY <1>1 DEF PresentInv, Analysing
<1>4. C!AnalysisInv'
  BY <1>3, AnalysisContinues
<1> DEFINE b == edge.target
           s == Interpret(b.stmt, C!Pull(b))
           changed == C!SolutionChanged(b, s)
<1>5. C!Visit(b, s)
  BY <1>1, <1>2, <1>3, SameSteps, IterationVisits
<1>6. /\ C!Pull(b) \in Solution
      /\ \A p \in C!ExecutableSources(b) : LiteralGamma(outs[p]) \subseteq LiteralGamma(C!Pull(b))
  BY <1>3, <1>5, VisitFacts
<1>7. /\ pc' = "loop"
      /\ b \in Blocks \ {Entry} /\ b \in bbs
      /\ C!SetOut(b, s)
      /\ \A t \in Blocks : t # b \/ t \notin Dies => C!Leaving(cfg', t) = C!Leaving(cfg, t)
      /\ bbs \ {b} \subseteq bbs'
      /\ \A e \in C!Successors(cfg', b, s) : changed \/ e \notin executable \cap cfg => e.target \in bbs'
  BY <1>1, <1>5 DEF C!Visit
<1>8. /\ DOMAIN ins' = DOMAIN ins \cup {b} /\ ins'[b] = C!Pull(b)
      /\ \A t \in DOMAIN ins \ {b} : ins'[t] = ins[t]
  BY <1>2, SamePull
<1>9. /\ DOMAIN outs' = DOMAIN outs \cup {b} /\ outs'[b] = s
      /\ \A t \in DOMAIN outs \ {b} : outs'[t] = outs[t]
  BY <1>7 DEF C!SetOut
<1>10. /\ DOMAIN ins \subseteq Blocks \ {Entry} /\ DOMAIN outs = DOMAIN ins \cup {Entry}
       /\ outs[Entry] = Bound(formals, call)
       /\ \A t \in DOMAIN ins : ins[t] \in Solution /\ outs[t] = Interpret(t.stmt, ins[t])
       /\ \A t \in DOMAIN outs \cap Blocks : \A e \in C!Successors(cfg, t, outs[t]) : e.target \notin bbs =>
            /\ e.target \in DOMAIN ins
            /\ LiteralGamma(outs[t]) \subseteq LiteralGamma(ins[e.target])
  BY <1>3 DEF Recorded
<1>11. \A t \in DOMAIN ins' : ins'[t] \in Solution /\ outs'[t] = Interpret(t.stmt, ins'[t])
  <2> TAKE t \in DOMAIN ins'
  <2>1. CASE t = b
    BY <1>6, <1>8, <1>9, <2>1
  <2>2. CASE t # b
    BY <1>8, <1>9, <1>10, <2>2
  <2> QED BY <2>1, <2>2
<1> HIDE DEF s, b, changed
<1>12. ASSUME NEW t \in DOMAIN outs', NEW e \in C!Successors(cfg', t, outs'[t]), e.target \notin bbs'
       PROVE  /\ e.target \in DOMAIN ins'
              /\ LiteralGamma(outs'[t]) \subseteq LiteralGamma(ins'[e.target])
  <2>1. t \in Blocks /\ e \in cfg' /\ e.source = t
    BY <1>7, <1>9, <1>10, MethodAssumption DEF C!Successors, C!Leaving
  <2>2. CASE t # b
    <3>1. /\ t \in DOMAIN outs /\ outs'[t] = outs[t]
          /\ e \in C!Successors(cfg, t, outs[t]) /\ e \in cfg
      BY <1>7, <1>9, <2>1, <2>2 DEF C!Successors, C!Leaving
    <3>2. CASE e.target = b
      <4>1. e \in executable
        BY <1>3, <3>1 DEF C!AnalysisInv, C!Settled
      <4>2. t \in C!ExecutableSources(b)
        BY <2>1, <3>1, <3>2, <4>1 DEF C!ExecutableSources, C!Entering
      <4> QED BY <1>6, <1>8, <3>1, <3>2, <4>2
    <3>3. CASE e.target # b
      BY <1>7, <1>8, <1>10, <1>12, <2>1, <3>1, <3>3
    <3> QED BY <3>2, <3>3
  <2>3. CASE t = b
    <3>1. ~changed /\ e \in executable /\ e \in cfg
      BY <1>7, <1>9, <1>12, <2>3
    <3>2. b \in DOMAIN outs /\ SameSolution(s, outs[b])
      BY <3>1 DEF changed, C!SolutionChanged
    <3>3. LiteralGamma(s) = LiteralGamma(outs[b]) /\ \A x : Read(s, x).lit = Read(outs[b], x).lit
      BY <3>2, SameSolutionExact
    <3>4. e \in C!Successors(cfg, b, outs[b])
      <4>1. e \in C!Successors(cfg', b, s)
        BY <1>9, <2>3
      <4>2. e \in C!Leaving(cfg, b)
        BY <2>1, <2>3, <3>1 DEF C!Leaving
      <4> QED BY <3>3, <4>1, <4>2 DEF C!Successors, known_true, known_false
    <3>5. CASE e.target = b
      <4>1. b \in C!ExecutableSources(b)
        BY <2>1, <2>3, <3>1, <3>5 DEF C!ExecutableSources, C!Entering
      <4> QED BY <1>6, <1>8, <1>9, <2>3, <3>3, <3>5, <4>1
    <3>6. CASE e.target # b
      BY <1>7, <1>8, <1>9, <1>10, <1>12, <2>1, <2>3, <3>2, <3>3, <3>4, <3>6
    <3> QED BY <3>5, <3>6
  <2> QED BY <2>2, <2>3
<1>13. UNCHANGED Bound(formals, call)
  BY <1>1 DEF call
<1>14. outs'[Entry] = Bound(formals, call)'
  BY <1>7, <1>9, <1>10, <1>13
<1>15. Recorded(ins, outs, Bound(formals, call), cfg, bbs, Blocks)'
  BY <1>7, <1>8, <1>9, <1>10, <1>11, <1>12, <1>14 DEF Recorded
<1>16. ins' \in PerBlock
  <2>1. ins' = [c \in DOMAIN ins' |-> ins'[c]] /\ DOMAIN ins' \in SUBSET Blocks
    BY <1>2, <1>7, <1>8, <1>10
  <2> QED BY <1>11, <2>1, MakePerBlock
<1>17. outs' \in PerBlock
  <2>1. /\ outs' = [c \in DOMAIN outs' |-> outs'[c]] /\ DOMAIN outs' \in SUBSET Blocks
        /\ \A c \in DOMAIN outs' : outs'[c] \in Solution
    BY <1>4, <1>7 DEF C!SetOut, C!AnalysisInv, C!TypeOK
  <2> QED BY <2>1, MakePerBlock
<1> QED BY <1>4, <1>7, <1>15, <1>16, <1>17 DEF PresentInv, Analysing, Finished, C!AnalysisInv

LEMMA BackwardBindRecords ==
  ASSUME MethodInv, PresentInv, BackwardBind
  PROVE  PresentInv'
<1>1. /\ pc = "loop" /\ pc' \in {"done", "segfault"}
      /\ UNCHANGED <<cfg, bbs, outs, ins, formals, calls, results>>
  BY DEF BackwardBind, F!BackwardBind, method
<1>2. C!AnalysisInv /\ Recorded(ins, outs, Bound(formals, call), cfg, bbs, Blocks)
  BY <1>1 DEF PresentInv, Analysing
<1>3. C!AnalysisInv'
  BY <1>2, AnalysisContinues
<1>4. Recorded(ins, outs, Bound(formals, call), cfg, bbs, Blocks)'
  <2>1. UNCHANGED call
    BY <1>1 DEF call
  <2>2. UNCHANGED Bound(formals, call)
    BY <1>1, <2>1
  <2> QED BY <1>1, <1>2, <2>2 DEF Recorded, C!Successors, C!Leaving
<1> QED BY <1>1, <1>3, <1>4 DEF PresentInv, Analysing, Finished, C!AnalysisInv

(* The results of a call are kept, and the next starts afresh. *)
LEMMA EndCallRecords ==
  ASSUME MethodInv, PresentInv, ResultsInv, EndCall
  PROVE  PresentInv' /\ ResultsInv'
<1>1. /\ pc = "done" /\ results' = Append(results, [in |-> ins, out |-> outs])
      /\ pc' = NextPC(Len(results')) /\ executable' = {} /\ ins' = Nothing /\ outs' = Nothing
      /\ UNCHANGED <<cfg, queue, bbs, given, formals, calls>>
  BY DEF EndCall, method
<1>2. /\ C!AnalysisInv /\ Recorded(ins, outs, Bound(formals, call), cfg, bbs, Blocks)
  BY <1>1 DEF PresentInv, Analysing
<1>3. queue = {} /\ bbs = {} /\ DOMAIN ins' = {} /\ DOMAIN outs' = {}
  BY <1>1, <1>2 DEF C!AnalysisInv, C!PhaseOK, C!WorklistOK, Nothing
<1>4. results \in Seq([in : PerBlock, out : PerBlock]) /\ Len(results) < Len(calls)
  BY <1>1 DEF ResultsInv, Analysing
<1>5. Len(calls) \in Nat /\ Len(results) \in Nat
  BY <1>4, CallAssumption DEF MethodInv
<1>6. [in |-> ins, out |-> outs] \in [in : PerBlock, out : PerBlock]
  BY DEF PresentInv
<1>7. /\ results' \in Seq([in : PerBlock, out : PerBlock]) /\ Len(results') = Len(results) + 1
      /\ results'[Len(results) + 1] = [in |-> ins, out |-> outs]
      /\ \A c \in 1..Len(results) : results'[c] = results[c]
  BY <1>1, <1>4, <1>6
<1>8. C!GraphOK'
  BY <1>1, <1>2 DEF C!AnalysisInv, C!GraphOK
<1>9. /\ pc' \in {"start", "merging"}
      /\ pc' = "start" => Len(results') < Len(calls')
      /\ pc' = "merging" => Len(results') = Len(calls')
  BY <1>1, <1>4, <1>5, <1>7 DEF NextPC
<1>10. C!AnalysisInv' \/ pc' = "merging"
  <2> SUFFICES ASSUME pc' = "start" PROVE C!AnalysisInv'
    BY <1>9
  <2>1. C!TypeOK'
    BY <1>1, <1>2, <1>3, <1>8 DEF C!GraphOK, C!TypeOK, C!wl, C!Worklist
  <2> QED BY <1>1, <1>3, <1>8, <2>1 DEF C!AnalysisInv, C!PhaseOK, C!WorklistOK, C!Settled
<1>11. PresentInv'
  <2>1. ins' \in PerBlock /\ outs' \in PerBlock
    BY <1>1, <1>3, MakePerBlock DEF Nothing
  <2> QED BY <1>3, <1>8, <1>9, <1>10, <2>1 DEF PresentInv, Analysing, Finished
<1>12. Recorded(ins, outs, Bound(formals, call), given, {}, Blocks \ Dies)
  <2>1. \A b \in Blocks \ Dies : C!Successors(given, b, outs[b]) = C!Successors(cfg, b, outs[b])
    BY <1>2 DEF C!AnalysisInv, C!GraphOK, C!Successors
  <2> QED BY <1>2, <1>3, <2>1 DEF Recorded
<1>13. ASSUME NEW c \in 1..Len(results')
       PROVE  Recorded(results'[c].in, results'[c].out, Bound(formals', calls'[c]), given', {},
                       Blocks \ Dies)
  <2>1. CASE c = Len(results) + 1
    BY <1>1, <1>7, <1>12, <2>1 DEF call
  <2>2. CASE c \in 1..Len(results)
    BY <1>1, <1>7, <2>2 DEF ResultsInv
  <2> QED BY <1>5, <1>7, <2>1, <2>2
<1>14. ResultsInv'
  BY <1>7, <1>9, <1>13 DEF ResultsInv, Analysing, Finished
<1> QED BY <1>11, <1>14

-----------------------------------------------------------------------------
(* Some context comes first, whichever way they are ranked. *)
LEMMA HasFirst ==
  ASSUME NEW D \in SUBSET Nat, D # {}
  PROVE  \E i \in D : \A j \in D : i <= j
<1>1. PICK i \in D : \A j \in D : ~ (<<j, i>> \in OpToRel(<, Nat))
  BY NatLessThanWellFounded, WFMin
<1>2. \A j \in D : ~ (j < i)
  BY <1>1 DEF OpToRel
<1> QED BY <1>2

LEMMA FirstContext ==
  ASSUME NEW n \in Nat, NEW H \in SUBSET (1..n), H # {},
         NEW rank \in {[i \in 1..n |-> i], [i \in 1..n |-> n - i]}
  PROVE  \E c \in H : \A d \in H : rank[c] <= rank[d]
<1>1. CASE rank = [i \in 1..n |-> i]
  <2>1. PICK c \in H : \A d \in H : c <= d
    BY HasFirst
  <2> QED BY <1>1, <2>1
<1>2. CASE rank = [i \in 1..n |-> n - i]
  <2> DEFINE D == {n - i : i \in H}
  <2>1. D \in SUBSET Nat /\ D # {}
    <3>1. \A i \in H : n - i \in Nat
      OBVIOUS
    <3> QED BY <3>1
  <2>2. PICK x \in D : \A y \in D : x <= y
    BY <2>1, HasFirst
  <2>3. PICK c \in H : x = n - c
    BY <2>2
  <2>4. \A d \in H : n - d \in D
    OBVIOUS
  <2> QED BY <1>2, <2>2, <2>3, <2>4
<1> QED BY <1>1, <1>2

LEMMA MergeSideMerges ==
  ASSUME MethodInv, ResultsInv, pc \in Finished, NEW side \in {"in", "out"},
         NEW rank \in {[i \in 1..Len(calls) |-> i], [i \in 1..Len(calls) |-> Len(calls) - i]}
  PROVE  /\ DOMAIN MergeSide(side, rank) = UNION {DOMAIN results[c][side] : c \in 1..Len(results)}
         /\ \A b \in DOMAIN MergeSide(side, rank) : \E first \in Having(side, b) :
              MergeSide(side, rank)[b] = MergedSolution(side, b, first)
<1>1. Len(calls) \in Nat /\ Len(results) = Len(calls)
  BY CallAssumption DEF MethodInv, ResultsInv
<1>2. DOMAIN MergeSide(side, rank) = UNION {DOMAIN results[c][side] : c \in 1..Len(results)}
  BY DEF MergeSide
<1>3. ASSUME NEW b \in DOMAIN MergeSide(side, rank)
      PROVE  \E first \in Having(side, b) :
               MergeSide(side, rank)[b] = MergedSolution(side, b, first)
  <2>1. Having(side, b) \in SUBSET (1..Len(calls)) /\ Having(side, b) # {}
    BY <1>1, <1>2 DEF Having
  <2>2. \E c \in Having(side, b) : \A d \in Having(side, b) : rank[c] <= rank[d]
    BY <1>1, <2>1, FirstContext
  <2>3. PICK first \in Having(side, b) :
          first = CHOOSE c \in Having(side, b) : \A d \in Having(side, b) : rank[c] <= rank[d]
    BY <2>2
  <2>4. MergeSide(side, rank)[b] = MergedSolution(side, b, first)
    BY <1>2, <2>3 DEF MergeSide
  <2> QED BY <2>4
<1> QED BY <1>2, <1>3

LEMMA MergedStays ==
  ASSUME UNCHANGED results, MergedFrom(merged')
  PROVE  MergedFrom(merged)'
<1>1. \A side, b : Having(side, b)' = Having(side, b)
  BY DEF Having
<1>2. \A side, b, first : MergedSolution(side, b, first)' = MergedSolution(side, b, first)
  BY DEF MergedSolution, Having
<1> SUFFICES ASSUME NEW side \in {"in", "out"}
             PROVE  /\ DOMAIN merged'[side] = UNION {DOMAIN results'[c][side] : c \in 1..Len(results')}
                    /\ \A b \in DOMAIN merged'[side] : \E first \in Having(side, b)' :
                         merged'[side][b] = MergedSolution(side, b, first)'
  BY DEF MergedFrom
<1>3. DOMAIN merged'[side] = UNION {DOMAIN results'[c][side] : c \in 1..Len(results')}
  BY DEF MergedFrom
<1>4. ASSUME NEW b \in DOMAIN merged'[side]
      PROVE  \E first \in Having(side, b)' : merged'[side][b] = MergedSolution(side, b, first)'
  BY <1>1, <1>2 DEF MergedFrom
<1> QED BY <1>3, <1>4

LEMMA MergeContextsMerges ==
  ASSUME MethodInv, PresentInv, ResultsInv, CodeInv, MergeContexts
  PROVE  PresentInv' /\ ResultsInv' /\ MergedInv' /\ CodeInv'
<1>1. /\ pc = "merging" /\ pc' = "merged"
      /\ UNCHANGED <<cfg, outs, ins, given, formals, calls, results, code>>
  BY DEF MergeContexts, method
<1>2. PICK f \in {[i \in 1..Len(calls) |-> i], [i \in 1..Len(calls) |-> Len(calls) - i]},
           g \in {[i \in 1..Len(calls) |-> i], [i \in 1..Len(calls) |-> Len(calls) - i]} :
        merged' = [in |-> MergeSide("in", f), out |-> MergeSide("out", g)]
  BY DEF MergeContexts
<1>3. MergedFrom(merged')
  <2> SUFFICES ASSUME NEW side \in {"in", "out"}
               PROVE  /\ DOMAIN merged'[side] = UNION {DOMAIN results[c][side] : c \in 1..Len(results)}
                      /\ \A b \in DOMAIN merged'[side] : \E first \in Having(side, b) :
                           merged'[side][b] = MergedSolution(side, b, first)
    BY DEF MergedFrom
  <2>1. CASE side = "in"
    BY <1>1, <1>2, <2>1, MergeSideMerges DEF Finished
  <2>2. CASE side = "out"
    BY <1>1, <1>2, <2>2, MergeSideMerges DEF Finished
  <2> QED BY <2>1, <2>2
<1>4. MergedInv'
  BY <1>1, <1>3, MergedStays DEF MergedInv
<1>7. PresentInv'
  BY <1>1 DEF PresentInv, Analysing, Finished, C!GraphOK
<1>8. ResultsInv'
  BY <1>1 DEF ResultsInv, Analysing, Finished
<1>9. CodeInv'
  BY <1>1 DEF CodeInv
<1> QED BY <1>4, <1>7, <1>8, <1>9

LEMMA ApplyResultsApplies ==
  ASSUME MethodInv, PresentInv, ResultsInv, MergedInv, CodeInv, ApplyResults
  PROVE  PresentInv' /\ ResultsInv' /\ MergedInv' /\ CodeInv'
<1>1. /\ pc = "merged" /\ pc' = "applied" /\ code' = [b \in Blocks |-> Transformed(b)]
      /\ cfg' = {e \in cfg : e.source \notin Decided} \cup
                UNION {{e \in SetBranch(cfg, b, Direction(b)) : e.source = b} : b \in Decided}
      /\ UNCHANGED <<outs, ins, given, formals, calls, results, merged>>
  BY DEF ApplyResults, method
<1>2. C!GraphOK
  BY <1>1 DEF PresentInv
<1>3. ASSUME NEW b \in Blocks \ Dies
      PROVE  C!Leaving(cfg', b) =
               IF b \in Decided THEN C!Leaving(SetBranch(C!Leaving(given, b), b, Direction(b)), b)
               ELSE C!Leaving(given, b)
  <2>1. C!Leaving(given, b) = C!Leaving(cfg, b)
    BY <1>2 DEF C!GraphOK
  <2>2. CASE b \notin Decided
    BY <1>1, <2>1, <2>2 DEF C!Leaving
  <2>3. CASE b \in Decided
    <3>1. C!Leaving(cfg', b) = {e \in SetBranch(cfg, b, Direction(b)) : e.source = b}
      BY <1>1, <2>3 DEF C!Leaving
    <3>2. {f \in cfg : f.source = b /\ f.direction = Direction(b)} =
          {f \in C!Leaving(cfg, b) : f.source = b /\ f.direction = Direction(b)}
      BY DEF C!Leaving
    <3>3. {e \in SetBranch(cfg, b, Direction(b)) : e.source = b} =
          {e \in SetBranch(C!Leaving(cfg, b), b, Direction(b)) : e.source = b}
      BY <3>2 DEF SetBranch
    <3> QED BY <2>1, <2>3, <3>1, <3>3 DEF C!Leaving
  <2> QED BY <2>2, <2>3
<1>4. Decided' = Decided /\ \A b : Direction(b)' = Direction(b)
  BY <1>1 DEF Decided, Direction, InLiteral
<1>5. \A b : Transformed(b)' = Transformed(b)
  BY <1>1 DEF Transformed, InLiteral, OutLiteral
<1>6. \A b : (C!Leaving(SetBranch(C!Leaving(given, b), b, Direction(b)), b))' =
             C!Leaving(SetBranch(C!Leaving(given, b), b, Direction(b)), b)
  BY <1>1, <1>4 DEF C!Leaving, SetBranch
<1>7. CodeInv'
  <2>1. DOMAIN code' = Blocks /\ code' = [b \in Blocks |-> Transformed(b)']
    BY <1>1, <1>5
  <2>2. \A b \in Blocks \ Dies : C!Leaving(cfg, b)' =
          IF b \in Decided' THEN (C!Leaving(SetBranch(C!Leaving(given, b), b, Direction(b)), b))'
          ELSE C!Leaving(given, b)'
    BY <1>1, <1>3, <1>4, <1>6 DEF C!Leaving
  <2> QED BY <2>1, <2>2 DEF CodeInv
<1>8. PresentInv'
  BY <1>1 DEF PresentInv, Analysing, Finished
<1>9. ResultsInv'
  BY <1>1 DEF ResultsInv, Analysing, Finished
<1>10. MergedInv'
  BY <1>1, MergedStays DEF MergedInv
<1> QED BY <1>7, <1>8, <1>9, <1>10

-----------------------------------------------------------------------------
(* A statement leaves a store. *)
LEMMA ExecuteStore ==
  ASSUME NEW st \in Statement, NEW m \in Store
  PROVE  Execute(st, m) \subseteq Store
<1> DEFINE s == [x \in Vars |-> Typed({})]
<1>1. s \in Solution
  BY TypedCell, MakeSolution
<1>2. m \in LiteralGamma(s)
  BY InLiteralGamma DEF StandsFor, LiteralHolds, Read, Typed
<1> HIDE DEF s
<1> QED BY <1>1, <1>2, InterpretStandsFor DEF LiteralGamma

(* A run that is given all its parameters but one at most begins in a      *)
(* store that what forward_bind assigns stands for.                        *)
LEMMA BoundCovers ==
  ASSUME MethodInv, NEW c \in 1..Len(calls), Missing(calls[c]) <= 1, NEW m \in Arguments(calls[c])
  PROVE  m \in LiteralGamma(Bound(formals, calls[c]))
<1> DEFINE a == calls[c]
           n == Len(a)
           N == Len(formals)
           bound == 1..(IF n < N THEN n + 1 ELSE n)
           s == Bound(formals, a)
<1>1. /\ formals \in Seq(Vars) /\ \A i, j \in 1..N : formals[i] = formals[j] => i = j
      /\ a \in Seq(Absval) /\ n <= N /\ n \in Nat /\ N \in Nat
  BY CallAssumption DEF MethodInv
<1>2. N <= n + 1
  BY <1>1 DEF Missing
<1>3. bound = 1..N
  BY <1>1, <1>2
<1>4. s = [x \in {formals[i] : i \in bound} |->
             IF \E i \in 1..n : formals[i] = x
               THEN a[CHOOSE i \in 1..n : formals[i] = x]
               ELSE Literal(Default[x])]
  BY DEF Bound
<1>5. m \in Store
  BY DEF Arguments
<1>6. ASSUME NEW x \in Vars PROVE LiteralHolds(Read(s, x), m[x])
  <2>1. CASE \E i \in 1..N : formals[i] = x
    <3>1. PICK i \in 1..N : formals[i] = x /\ i = CHOOSE j \in 1..N : formals[j] = x
      BY <2>1
    <3>2. IF i <= n THEN LiteralHolds(a[i], m[x]) ELSE m[x] = Default[x]
      BY <2>1, <3>1 DEF Arguments
    <3>3. x \in DOMAIN s
      BY <1>3, <1>4, <3>1
    <3>4. CASE i <= n
      <4>1. i \in 1..n /\ \A j \in 1..n : formals[j] = x => j = i
        BY <1>1, <3>1, <3>4
      <4>2. (CHOOSE j \in 1..n : formals[j] = x) = i
        BY <3>1, <4>1
      <4>3. Read(s, x) = a[i]
        BY <1>4, <3>1, <3>3, <4>1, <4>2 DEF Read
      <4> QED BY <3>2, <3>4, <4>3
    <3>5. CASE ~ (i <= n)
      <4>1. ~ \E j \in 1..n : formals[j] = x
        BY <1>1, <3>1, <3>5
      <4>2. Read(s, x) = Literal(Default[x])
        BY <1>4, <3>3, <4>1 DEF Read
      <4> QED BY <3>2, <3>5, <4>2 DEF LiteralHolds, Literal
    <3> QED BY <3>4, <3>5
  <2>2. CASE ~ \E i \in 1..N : formals[i] = x
    <3>1. m[x] = Null
      BY <2>2 DEF Arguments
    <3>2. x \notin DOMAIN s
      BY <1>3, <1>4, <2>2
    <3> QED BY <3>1, <3>2 DEF Read, LiteralHolds, Literal
  <2> QED BY <2>1, <2>2
<1> QED BY <1>5, <1>6, InLiteralGamma DEF StandsFor

(* Where a run goes next, the results of its call have foreseen it. *)
LEMMA Follows ==
  ASSUME IInv, run.call # 0, Missing(calls[run.call]) <= 1, NEW e \in Chosen
  PROVE  /\ run.call \in 1..Len(results)
         /\ e.target \in DOMAIN results[run.call].in
         /\ run.store \in LiteralGamma(results[run.call].in[e.target])
<1> DEFINE r == results[run.call]
           b == run.at
           m == run.store
<1>1. /\ pc = "applied" /\ run.call \in 1..Len(results)
      /\ b \in DOMAIN r.out /\ m \in LiteralGamma(r.out[b])
      /\ C!ConsistentCFG(given)
  <2>1. run.call \in 0..Len(calls) /\ Len(results) = Len(calls) /\ pc = "applied"
    BY DEF IInv, RunInv, ResultsInv, Finished
  <2>2. run.call \in 1..Len(results)
    BY <2>1, CallAssumption DEF IInv, MethodInv
  <2> QED BY <2>1, <2>2 DEF IInv, RunInv, MethodInv
<1>2. Recorded(r.in, r.out, Bound(formals, calls[run.call]), given, {}, Blocks \ Dies)
  BY <1>1 DEF IInv, ResultsInv
<1>3. e \in C!Leaving(given, b) /\ b \notin Dies /\ Takes(e, m)
  BY SameGraphs DEF Chosen
<1>4. e.source = b /\ e \in C!Edge /\ b \in Blocks
  BY <1>1, <1>3 DEF C!Leaving, C!ConsistentCFG, C!Edge
<1>5. e \in C!Successors(given, b, r.out[b])
  <2>1. CASE b \notin Branches
    BY <1>3, <2>1 DEF C!Successors
  <2>2. CASE b \in Branches
    <3>1. LiteralHolds(Read(r.out[b], b.stmt.var), m[b.stmt.var])
      BY <1>1, <2>2, InLiteralGamma, BranchVariable DEF StandsFor
    <3>2. /\ known_true(Read(r.out[b], b.stmt.var)) => IsTrue(b, m)
          /\ known_false(Read(r.out[b], b.stmt.var)) => ~IsTrue(b, m)
      BY <3>1 DEF LiteralHolds, known_true, known_false, IsTrue
    <3>3. e.direction # "none"
      BY <1>1, <1>3, <2>2 DEF C!ConsistentCFG, C!Towards
    <3> QED BY <1>3, <1>4, <2>2, <3>2, <3>3 DEF C!Successors, Takes
  <2> QED BY <2>1, <2>2
<1>6. e.target \in DOMAIN r.in /\ LiteralGamma(r.out[b]) \subseteq LiteralGamma(r.in[e.target])
  BY <1>1, <1>2, <1>3, <1>4, <1>5 DEF Recorded
<1> QED BY <1>1, <1>6

LEMMA ChosenInGraph ==
  ASSUME MethodInv, NEW e \in Chosen
  PROVE  e.target \in Blocks /\ e.target.stmt \in Statement
<1>1. e \in C!Edge
  BY SameGraphs DEF MethodInv, Chosen, C!Leaving, C!ConsistentCFG
<1> QED BY <1>1, MethodAssumption DEF C!Edge

LEMMA InitIInv == Init => IInv
BY InitPresent DEF IInv

LEMMA RunKeepsRunInv ==
  ASSUME IInv, Begin \/ Run
  PROVE  RunInv'
<1>1. UNCHANGED <<pc, calls, formals, results>>
  BY DEF Begin, Run, analysis, method
<1>2. /\ MethodInv /\ RunInv /\ Len(calls) \in Nat
  BY CallAssumption DEF IInv, MethodInv
<1>3. CASE Begin
  <2>1. PICK c \in 1..Len(calls) : \E m \in Arguments(calls[c]) :
          run' = [call |-> c, at |-> Entry, store |-> m]
    BY <1>3 DEF Begin
  <2>2. PICK m \in Arguments(calls[c]) : run' = [call |-> c, at |-> Entry, store |-> m]
    BY <2>1
  <2>3. pc = "applied" /\ m \in Store /\ c \in 1..Len(results)
    BY <1>2, <1>3 DEF Begin, Arguments, IInv, ResultsInv, Finished
  <2>4. Recorded(results[c].in, results[c].out, Bound(formals, calls[c]), given, {}, Blocks \ Dies)
    BY <2>3 DEF IInv, ResultsInv
  <2>5. Entry \in DOMAIN results[c].out /\ results[c].out[Entry] = Bound(formals, calls[c])
    BY <2>4 DEF Recorded
  <2>6. Missing(calls[c]) <= 1 => m \in LiteralGamma(results[c].out[Entry])
    BY <1>2, <2>5, BoundCovers
  <2>7. \A a : Missing(a)' = Missing(a)
    BY <1>1 DEF Missing
  <2>8. /\ run'.call = c /\ run'.at = Entry /\ run'.store = m
        /\ run' \in [call : 0..Len(calls), at : Blocks, store : Store]
    BY <1>2, <2>2, <2>3, MethodAssumption
  <2> QED BY <1>1, <2>3, <2>5, <2>6, <2>7, <2>8, MethodAssumption DEF RunInv
<1>4. CASE Run
  <2>1. PICK e \in Chosen : \E m \in Execute(e.target.stmt, run.store) :
          run' = [run EXCEPT !.at = e.target, !.store = m]
    BY <1>4 DEF Run
  <2>2. PICK m \in Execute(e.target.stmt, run.store) :
          run' = [run EXCEPT !.at = e.target, !.store = m]
    BY <2>1
  <2>3. run.call # 0 /\ run.call \in 0..Len(calls) /\ run.store \in Store /\ pc = "applied"
    BY <1>2, <1>4 DEF Run, RunInv
  <2>4. e.target \in Blocks /\ e.target.stmt \in Statement /\ m \in Store
    BY <1>2, <2>1, <2>3, ChosenInGraph, ExecuteStore
  <2>5. /\ run'.call = run.call /\ run'.at = e.target /\ run'.store = m
        /\ run' \in [call : 0..Len(calls), at : Blocks, store : Store]
    BY <1>2, <2>2, <2>4 DEF RunInv
  <2>6. ASSUME Missing(calls[run.call]) <= 1
        PROVE  /\ e.target \in DOMAIN results[run.call].out
               /\ m \in LiteralGamma(results[run.call].out[e.target])
    <3>1. /\ run.call \in 1..Len(results)
          /\ e.target \in DOMAIN results[run.call].in
          /\ run.store \in LiteralGamma(results[run.call].in[e.target])
      BY <2>3, <2>6, Follows
    <3>2. Recorded(results[run.call].in, results[run.call].out,
                   Bound(formals, calls[run.call]), given, {}, Blocks \ Dies)
      BY <3>1 DEF IInv, ResultsInv
    <3>3. /\ e.target \in DOMAIN results[run.call].out
          /\ results[run.call].in[e.target] \in Solution
          /\ results[run.call].out[e.target] =
               Interpret(e.target.stmt, results[run.call].in[e.target])
      BY <3>1, <3>2 DEF Recorded
    <3> QED BY <2>2, <2>4, <3>1, <3>3, InterpretStandsFor
  <2>7. \A a : Missing(a)' = Missing(a)
    BY <1>1 DEF Missing
  <2> QED BY <1>1, <2>3, <2>4, <2>5, <2>6, <2>7 DEF RunInv
<1> QED BY <1>3, <1>4

(* What the run leaves alone. *)
LEMMA CompiledStays ==
  ASSUME IInv, UNCHANGED <<analysis, ins, method, results, merged, code>>
  PROVE  MethodInv' /\ PresentInv' /\ ResultsInv' /\ MergedInv' /\ CodeInv'
<1>1. UNCHANGED <<pc, cfg, queue, bbs, executable, outs, ins, given, formals, calls, results, merged, code>>
  BY DEF analysis, method
<1>2. MethodInv'
  BY <1>1 DEF IInv, MethodInv
<1>3. PresentInv'
  <2>1. C!AnalysisInv => C!AnalysisInv'
    BY <1>1, AnalysisStep DEF C!vars
  <2>2. UNCHANGED Bound(formals, call)
    BY <1>1 DEF call
  <2>3. Recorded(ins, outs, Bound(formals, call), cfg, bbs, Blocks) =>
        Recorded(ins, outs, Bound(formals, call), cfg, bbs, Blocks)'
    BY <1>1, <2>2 DEF Recorded, C!Successors, C!Leaving
  <2> QED BY <1>1, <2>1, <2>3 DEF IInv, PresentInv, C!GraphOK
<1>4. ResultsInv'
  BY <1>1 DEF IInv, ResultsInv
<1>5. MergedInv'
  BY <1>1, MergedStays DEF IInv, MergedInv
<1>6. CodeInv'
  <2>1. Decided' = Decided /\ \A b : Direction(b)' = Direction(b)
    BY <1>1 DEF Decided, Direction, InLiteral
  <2>2. \A b : Transformed(b)' = Transformed(b)
    BY <1>1 DEF Transformed, InLiteral, OutLiteral
  <2>3. code' = code /\ pc' = pc /\ cfg' = cfg /\ given' = given
    BY <1>1
  <2>4. \A b : /\ (C!Leaving(SetBranch(C!Leaving(given, b), b, Direction(b)), b))' =
                  C!Leaving(SetBranch(C!Leaving(given, b), b, Direction(b)), b)
               /\ C!Leaving(cfg, b)' = C!Leaving(cfg, b)
               /\ C!Leaving(given, b)' = C!Leaving(given, b)
    BY <2>1, <2>3 DEF C!Leaving, SetBranch
  <2> QED BY <2>1, <2>2, <2>3, <2>4 DEF IInv, CodeInv
<1> QED BY <1>2, <1>3, <1>4, <1>5, <1>6

LEMMA StepPreserves == IInv /\ [Next]_vars => IInv'
<1> SUFFICES ASSUME IInv, [Next]_vars PROVE IInv'
  OBVIOUS
<1>1. CASE Compile
  <2>1. UNCHANGED <<formals, calls, given, run>> /\ pc # "applied" /\ run.call = 0
    BY <1>1 DEF IInv, RunInv, Compile, ForwardBind, F!ForwardBind, AnalyseBlock, BackwardBind,
                F!BackwardBind, EndCall, MergeContexts, ApplyResults, method
  <2>2. MethodInv' /\ RunInv'
    BY <2>1 DEF IInv, MethodInv, RunInv
  <2>3. CASE ForwardBind \/ AnalyseBlock \/ BackwardBind
    <3>1. PresentInv'
      BY <2>3, ForwardBindRecords, AnalyseBlockRecords, BackwardBindRecords DEF IInv
    <3>2. /\ UNCHANGED <<results, code>> /\ pc \in Analysing /\ pc' \in Analysing
      <4>1. CASE ForwardBind
        BY <4>1 DEF ForwardBind, F!ForwardBind, Analysing
      <4>2. CASE AnalyseBlock
        <5>1. PICK e \in queue : F!VisitBranch(e) \/ F!VisitStatement(e) \/ F!VisitExit(e)
          BY <4>2 DEF AnalyseBlock
        <5>2. pc' = pc
          BY <5>1 DEF F!VisitBranch, F!VisitStatement, F!VisitExit
        <5> QED BY <4>2, <5>2 DEF AnalyseBlock, Analysing
      <4>3. CASE BackwardBind
        BY <4>3 DEF BackwardBind, F!BackwardBind, Analysing
      <4> QED BY <2>3, <4>1, <4>2, <4>3
    <3> QED BY <2>1, <2>2, <3>1, <3>2 DEF IInv, ResultsInv, MergedInv, CodeInv, Analysing, Finished
  <2>4. CASE EndCall
    <3>1. PresentInv' /\ ResultsInv'
      BY <2>4, EndCallRecords DEF IInv
    <3>2. UNCHANGED code /\ pc' \in {"start", "merging"}
      BY <2>4 DEF EndCall, NextPC
    <3> QED BY <2>2, <3>1, <3>2 DEF IInv, MergedInv, CodeInv
  <2>5. CASE MergeContexts
    BY <2>2, <2>5, MergeContextsMerges DEF IInv
  <2>6. CASE ApplyResults
    BY <2>2, <2>6, ApplyResultsApplies DEF IInv
  <2> QED BY <1>1, <2>3, <2>4, <2>5, <2>6 DEF Compile
<1>2. CASE Begin \/ Run
  <2>1. UNCHANGED <<analysis, ins, method, results, merged, code>>
    BY <1>2 DEF Begin, Run
  <2> QED BY <1>2, <2>1, RunKeepsRunInv, CompiledStays DEF IInv
<1>3. CASE UNCHANGED vars
  <2>1. UNCHANGED <<analysis, ins, method, results, merged, code>>
    BY <1>3 DEF vars
  <2>2. RunInv'
    <3>1. UNCHANGED <<pc, formals, calls, results, run>>
      BY <1>3 DEF vars, analysis, method
    <3> QED BY <3>1 DEF IInv, RunInv, Missing
  <2> QED BY <2>1, <2>2, CompiledStays DEF IInv
<1> QED BY <1>1, <1>2, <1>3 DEF Next

-----------------------------------------------------------------------------
(* A literal the merge knows in a block, every context knows there.        *)
LEMMA MergedLiteral ==
  ASSUME IInv, pc = "applied", SameScopes, NEW side \in {"in", "out"}, NEW c \in 1..Len(results),
         NEW b \in DOMAIN results[c][side], NEW x
  PROVE  /\ b \in DOMAIN merged[side]
         /\ Read(merged[side][b], x).lit # NoLit =>
              Read(results[c][side][b], x).lit = Read(merged[side][b], x).lit
<1>1. MergedFrom(merged)
  BY DEF IInv, MergedInv
<1>2. b \in DOMAIN merged[side]
  BY <1>1 DEF MergedFrom
<1>3. PICK first \in Having(side, b) : merged[side][b] = MergedSolution(side, b, first)
  BY <1>1, <1>2 DEF MergedFrom
<1>4. DOMAIN results[first][side][b] = DOMAIN results[c][side][b]
  BY <1>3 DEF SameScopes, Having
<1> DEFINE K == {results[d][side][b][x] : d \in {d \in Having(side, b) : x \in DOMAIN results[d][side][b]}}
<1>5. CASE x \in DOMAIN results[c][side][b]
  <2>1. Read(merged[side][b], x) = MeetCells(K)
    BY <1>3, <1>4, <1>5 DEF Read, MergedSolution, MergedCell
  <2>2. results[c][side][b][x] \in K
    BY <1>5 DEF Having
  <2>3. Read(results[c][side][b], x) = results[c][side][b][x]
    BY <1>5 DEF Read
  <2> HIDE DEF K
  <2> QED BY <1>2, <2>1, <2>2, <2>3, MeetCellsLiteral
<1>6. CASE x \notin DOMAIN results[c][side][b]
  BY <1>2, <1>3, <1>4, <1>6 DEF Read, MergedSolution
<1> QED BY <1>5, <1>6

(* So the branch still leads where the run goes. *)
LEMMA BranchKept ==
  ASSUME IInv, run.call # 0, Missing(calls[run.call]) <= 1, SameScopes, NEW e \in Chosen
  PROVE  \E f \in F!Leaving(cfg, run.at) : f.target = e.target /\ f.direction \in {"none", e.direction}
<1> DEFINE b == run.at
           x == b.stmt.var
           r == results[run.call]
<1>1. /\ pc = "applied" /\ b \in Blocks /\ run.call \in 1..Len(results)
      /\ b \in DOMAIN r.out /\ run.store \in LiteralGamma(r.out[b])
  BY Follows DEF IInv, RunInv
<1>2. e \in C!Leaving(given, b) /\ b \notin Dies /\ Takes(e, run.store) /\ e.source = b
  BY SameGraphs DEF Chosen, C!Leaving
<1>3. C!Leaving(cfg, b) = IF b \in Decided
                            THEN C!Leaving(SetBranch(C!Leaving(given, b), b, Direction(b)), b)
                            ELSE C!Leaving(given, b)
  BY <1>1, <1>2 DEF IInv, CodeInv
<1>4. CASE b \notin Decided
  BY <1>2, <1>3, <1>4, SameGraphs
<1>5. CASE b \in Decided
  <2>1. b \in Branches /\ b \in Blocks \ {Entry} /\ x \in Vars /\ b.stmt.op = "branch"
        /\ InLiteral(b, x) # NoLit
    BY <1>5, MethodAssumption, BranchVariable DEF Decided
  <2>2. Recorded(r.in, r.out, Bound(formals, calls[run.call]), given, {}, Blocks \ Dies)
    BY <1>1 DEF IInv, ResultsInv
  <2>3. b \in DOMAIN r.in /\ r.out[b] = Interpret(b.stmt, r.in[b])
    BY <1>1, <2>1, <2>2 DEF Recorded
  <2>4. r.out[b] = r.in[b]
    BY <2>1, <2>3 DEF Interpret
  <2>5. LiteralHolds(Read(r.in[b], x), run.store[x])
    BY <1>1, <2>1, <2>4, InLiteralGamma DEF StandsFor
  <2>6. Read(r.in[b], x).lit = InLiteral(b, x)
    BY <1>1, <2>1, <2>3, MergedLiteral DEF InLiteral
  <2>7. run.store[x] = InLiteral(b, x)
    BY <2>1, <2>5, <2>6 DEF LiteralHolds
  <2>8. e.direction # "none"
    BY <1>2, <2>1 DEF IInv, MethodInv, C!ConsistentCFG, C!Towards
  <2>9. e.direction = Direction(b)
    BY <1>2, <2>7, <2>8 DEF Takes, IsTrue, Direction
  <2> DEFINE f == [e EXCEPT !.direction = "none"]
  <2>10. f.source = b /\ f.target = e.target /\ f.direction = "none"
    <3>1. e \in C!Edge
      BY <1>2 DEF IInv, MethodInv, C!ConsistentCFG, C!Leaving
    <3> QED BY <1>2, <3>1 DEF C!Edge
  <2>11. f \in SetBranch(C!Leaving(given, b), b, Direction(b))
    BY <1>2, <2>9 DEF SetBranch
  <2> HIDE DEF f
  <2>12. f \in C!Leaving(SetBranch(C!Leaving(given, b), b, Direction(b)), b)
    BY <2>10, <2>11 DEF C!Leaving
  <2>13. f \in F!Leaving(cfg, b)
    BY <1>3, <1>5, <2>12, SameGraphs
  <2> QED BY <2>10, <2>13
<1> QED BY <1>4, <1>5

(* And the block there has the same effect. *)
LEMMA EffectKept ==
  ASSUME IInv, run.call # 0, Missing(calls[run.call]) <= 1, SameScopes, NEW e \in Chosen
  PROVE  Execute(code[e.target], run.store) = Execute(e.target.stmt, run.store)
<1> DEFINE b == e.target
           st == b.stmt
           m == run.store
           r == results[run.call]
<1>1. /\ pc = "applied" /\ run.call \in 1..Len(results)
      /\ b \in DOMAIN r.in /\ m \in LiteralGamma(r.in[b]) /\ m \in Store
      /\ b \in Blocks /\ st \in Statement
  BY Follows, ChosenInGraph DEF IInv, RunInv
<1>2. Recorded(r.in, r.out, Bound(formals, calls[run.call]), given, {}, Blocks \ Dies)
  BY <1>1 DEF IInv, ResultsInv
<1>3. /\ b \in DOMAIN r.out /\ r.in[b] \in Solution /\ r.out[b] = Interpret(st, r.in[b])
  BY <1>1, <1>2 DEF Recorded
<1>4. Execute(st, m) \subseteq LiteralGamma(r.out[b])
  BY <1>1, <1>3, InterpretStandsFor
<1>5. code[b] = Transformed(b) /\ b \in DOMAIN merged.in
  BY <1>1, MergedLiteral DEF IInv, CodeInv
<1>6. CASE st.op \in {"copy", "operator"} /\ OutLiteral(b, st.var) # NoLit
  <2> DEFINE v == OutLiteral(b, st.var)
  <2>1. code[b] = [op |-> "literal", var |-> st.var, value |-> v]
    BY <1>5, <1>6 DEF Transformed
  <2>2. st.var \in Vars
    BY <1>1, <1>6 DEF Statement
  <2>3. Read(r.out[b], st.var).lit = v
    BY <1>1, <1>3, <1>6, MergedLiteral DEF OutLiteral
  <2>4. PICK w : Execute(st, m) = {[m EXCEPT ![st.var] = w]}
    BY <1>6 DEF Execute
  <2>5. LiteralHolds(Read(r.out[b], st.var), [m EXCEPT ![st.var] = w][st.var])
    BY <1>4, <2>2, <2>4, InLiteralGamma DEF StandsFor
  <2>6. w = v
    BY <1>1, <1>6, <2>2, <2>3, <2>5 DEF LiteralHolds, Store
  <2>7. Execute(code[b], m) = {[m EXCEPT ![st.var] = v]}
    BY <2>1 DEF Execute
  <2> QED BY <2>4, <2>6, <2>7
<1>7. CASE st.op = "operator" /\ OutLiteral(b, st.var) = NoLit /\ InLiteral(b, st.rhs) # NoLit
  <2> DEFINE u == InLiteral(b, st.rhs)
  <2>1. code[b] = [op |-> "literal", var |-> st.var, value |-> Fold[st.operator][u]]
    BY <1>5, <1>7 DEF Transformed
  <2>2. st.rhs \in Vars
    BY <1>1, <1>7 DEF Statement
  <2>3. Read(r.in[b], st.rhs).lit = u
    BY <1>1, <1>7, MergedLiteral DEF InLiteral
  <2>4. m[st.rhs] = u
    BY <1>1, <1>7, <2>2, <2>3, InLiteralGamma DEF StandsFor, LiteralHolds
  <2> QED BY <1>7, <2>1, <2>4 DEF Execute
<1>8. CASE ~ \/ st.op \in {"copy", "operator"} /\ OutLiteral(b, st.var) # NoLit
             \/ st.op = "operator" /\ OutLiteral(b, st.var) = NoLit /\ InLiteral(b, st.rhs) # NoLit
  BY <1>5, <1>8 DEF Transformed
<1> QED BY <1>6, <1>7, <1>8

-----------------------------------------------------------------------------
(* The invariant: what the results of each call say of the graph that was  *)
(* given, and what became of them since.                                   *)
THEOREM Inductive == Spec => []IInv
<1>1. QED BY InitIInv, StepPreserves, PTL DEF Spec

(* Every variable keeps its type. *)
THEOREM TypeCorrect == Spec => []ContextsTypeOK
<1>1. IInv => ContextsTypeOK
  <2> SUFFICES ASSUME IInv PROVE ContextsTypeOK
    OBVIOUS
  <2>1. pc # "applied" => F!ConsistentCFG(cfg)
    BY SameGraphs DEF IInv, PresentInv, C!GraphOK
  <2>2. DOMAIN ins \subseteq DOMAIN outs
    BY DEF IInv, PresentInv, Analysing, Finished, Recorded
  <2>3. \A f \in PerBlock : \A b \in DOMAIN f : f[b] \in Solution
    BY DEF PerBlock
  <2>4. Len(results) <= Len(calls)
    BY CallAssumption DEF IInv, MethodInv, PresentInv, ResultsInv
  <2> QED BY <2>1, <2>2, <2>3, <2>4
          DEF IInv, PresentInv, CodeInv, RunInv, Analysing, Finished, ContextsTypeOK
<1>2. QED BY <1>1, Inductive, PTL

(* The results of each context hold of every run of its call, although all *)
(* contexts are analysed on one graph.                                     *)
THEOREM CallsCovered == Spec => []ContextsCovered
<1>1. IInv => ContextsCovered
  BY InLiteralGamma DEF IInv, RunInv, ContextsCovered
<1>2. QED BY <1>1, Inductive, PTL

(* The transformer keeps what every call of the method does. *)
THEOREM TransformedKeepsRuns == Spec => []AppliedKeepsRuns
<1>1. IInv => AppliedKeepsRuns
  <2> SUFFICES ASSUME IInv, FewMissing, SameScopes, run.call # 0, NEW e \in Chosen
               PROVE  /\ \E f \in F!Leaving(cfg, run.at) :
                           f.target = e.target /\ f.direction \in {"none", e.direction}
                      /\ Execute(code[e.target], run.store) = Execute(e.target.stmt, run.store)
    BY DEF AppliedKeepsRuns, TransformedFollows
  <2>1. Missing(calls[run.call]) <= 1
    BY CallAssumption DEF IInv, MethodInv, RunInv, FewMissing
  <2> QED BY <2>1, BranchKept, EffectKept
<1>2. QED BY <1>1, Inductive, PTL

-----------------------------------------------------------------------------
(* The analysis of each call ends, and so does that of the method.  The    *)
(* solutions of Value_analysis only ever forget literals, and there are    *)
(* finitely many to forget.                                                *)
Steps == 2 * Cardinality(Vars)

LEMMA FadingWidens ==
  IsFiniteSet(Vars) => C!Widening(Fading, Height, Steps)
<1> SUFFICES ASSUME IsFiniteSet(Vars) PROVE C!Widening(Fading, Height, Steps)
  OBVIOUS
<1>1. Steps \in Nat
  BY FS_CardinalityType DEF Steps
<1>2. Height \in [Solution -> 0..Steps]
  <2>1. \A s \in Solution : Height[s] \in 0..Steps
    BY HeightBound DEF Steps
  <2> QED  BY <2>1 DEF Height
<1>3. Fading \subseteq Solution \X Solution
  BY DEF Fading
<1>4. \A s \in Solution : <<s, s>> \in Fading
  BY FadesOrder, InFading
<1>5. \A s, t, u \in Solution : <<s, t>> \in Fading /\ <<t, u>> \in Fading => <<s, u>> \in Fading
  BY FadesOrder, InFading
<1>6. ASSUME NEW S \in SUBSET Solution, NEW T \in SUBSET Solution,
             S # {}, \A s \in S : \E t \in T : <<s, t>> \in Fading
      PROVE  <<MeetSolutions(S), MeetSolutions(T)>> \in Fading
  <2>1. \A s \in S : \E t \in T : Fades(s, t)
    BY <1>6, InFading
  <2>2. T # {}
    BY <1>6
  <2>3. MeetSolutions(S) \in Solution /\ MeetSolutions(T) \in Solution
    BY <1>6, <2>2, MeetSolutionsCovers
  <2> QED  BY <1>6, <2>1, <2>3, MeetFades, InFading
<1>7. ASSUME NEW b \in Blocks, NEW s \in Solution, NEW t \in Solution, <<s, t>> \in Fading
      PROVE  <<Interpret(b.stmt, s), Interpret(b.stmt, t)>> \in Fading
  <2>1. b.stmt \in Statement /\ Fades(s, t)
    BY <1>7, MethodAssumption, InFading
  <2>2. Interpret(b.stmt, s) \in Solution /\ Interpret(b.stmt, t) \in Solution
    BY <2>1, InterpretStandsFor
  <2> QED  BY <2>1, <2>2, InterpretFades, InFading
<1>8. ASSUME NEW s \in Solution, NEW t \in Solution, <<s, t>> \in Fading
      PROVE  Height[s] <= Height[t] /\ (~SameSolution(t, s) => Height[s] < Height[t])
  BY <1>8, HeightRises, InFading
<1> QED  BY <1>1, <1>2, <1>3, <1>4, <1>5, <1>6, <1>7, <1>8 DEF C!Widening

LEMMA FiniteBlocks == IsFiniteSet(Blocks) => C!FiniteMethod
  BY DEF C!FiniteMethod, C!IsFiniteSet, IsFiniteSet

LEMMA CallProgresses ==
  ASSUME IsFiniteSet(Blocks), IsFiniteSet(Vars), C!AnalysisInv, C!RisingInv(Fading),
         ForwardBind \/ AnalyseBlock \/ BackwardBind
  PROVE  C!RisingInv(Fading)' /\ C!Progress(Fading, Height, Steps)
<1>1. UNCHANGED given
  BY DEF ForwardBind, AnalyseBlock, BackwardBind, method
<1>2. C!Next
  BY SameSteps DEF ForwardBind, AnalyseBlock, BackwardBind, C!Next, C!AnalyseNext
<1>3. C!Widening(Fading, Height, Steps)
  BY FadingWidens
<1>4. \A W, H, n : C!LoopGoesOn(W, H, n)
  BY CFGAssumptionHolds, SolutionAssumptionHolds, StoresAssumptionHolds, LatticeAssumptionHolds,
     StopsAssumptionHolds, SameAssumptionHolds, C!LoopStep
<1>5. C!FiniteMethod
  BY FiniteBlocks
<1> QED  BY <1>1, <1>2, <1>3, <1>4, <1>5 DEF C!LoopGoesOn

-----------------------------------------------------------------------------
(* What is left of the compilation: the calls still to be analysed, the    *)
(* phase, and the loop of the present call.                                *)
CallsLeft == Len(calls) - Len(results)
Phase == CASE pc \in {"start", "merging"} -> 2
           [] pc \in {"loop", "merged"} -> 1
           [] OTHER -> 0
LoopLeft == IF pc = "loop" THEN C!Remaining(Height, Steps) ELSE 0

LessLeft ==
  \/ CallsLeft' < CallsLeft
  \/ CallsLeft' = CallsLeft /\ Phase' < Phase
  \/ CallsLeft' = CallsLeft /\ Phase' = Phase /\ LoopLeft' < LoopLeft

LEMMA CompileLeavesLess ==
  ASSUME IsFiniteSet(Blocks), IsFiniteSet(Vars), IInv, C!RisingInv(Fading), Compile
  PROVE  LessLeft
<1>1. Len(calls) \in Nat /\ Len(results) \in Nat
  BY CallAssumption DEF IInv, MethodInv, ResultsInv
<1>2. CallsLeft \in Int
  BY <1>1 DEF CallsLeft
<1>3. CASE ForwardBind \/ BackwardBind \/ MergeContexts \/ ApplyResults
  <2>1. UNCHANGED <<calls, results>>
    BY <1>3 DEF ForwardBind, BackwardBind, MergeContexts, ApplyResults, method
  <2>2. \/ pc = "start" /\ pc' = "loop"
        \/ pc = "loop" /\ pc' \in {"done", "segfault"}
        \/ pc = "merging" /\ pc' = "merged"
        \/ pc = "merged" /\ pc' = "applied"
    <3>1. CASE ForwardBind
      BY <3>1 DEF ForwardBind, F!ForwardBind
    <3>2. CASE BackwardBind
      BY <3>2 DEF BackwardBind, F!BackwardBind
    <3>3. CASE MergeContexts
      BY <3>3 DEF MergeContexts
    <3>4. CASE ApplyResults
      BY <3>4 DEF ApplyResults
    <3> QED  BY <1>3, <3>1, <3>2, <3>3, <3>4
  <2>3. Phase' < Phase
    BY <2>2 DEF Phase
  <2> QED  BY <2>1, <2>3 DEF LessLeft, CallsLeft
<1>4. CASE AnalyseBlock
  <2>1. PICK e \in queue : F!VisitBranch(e) \/ F!VisitStatement(e) \/ F!VisitExit(e)
    BY <1>4 DEF AnalyseBlock
  <2>2. pc = "loop" /\ pc' = "loop" /\ UNCHANGED <<calls, results>>
    BY <1>4, <2>1 DEF AnalyseBlock, F!VisitBranch, F!VisitStatement, F!VisitExit, method
  <2>3. C!AnalysisInv
    BY <2>2 DEF IInv, PresentInv, Analysing
  <2>4. C!Remaining(Height, Steps)' < C!Remaining(Height, Steps)
    BY <1>4, <2>2, <2>3, CallProgresses DEF C!Progress
  <2>5. LoopLeft' < LoopLeft
    BY <2>2, <2>4 DEF LoopLeft
  <2> QED  BY <2>2, <2>5 DEF LessLeft, CallsLeft, Phase
<1>5. CASE EndCall
  <2>1. Len(results') = Len(results) + 1 /\ calls' = calls
    BY <1>5 DEF EndCall, IInv, ResultsInv, method
  <2> QED  BY <1>1, <2>1 DEF LessLeft, CallsLeft
<1> QED  BY <1>3, <1>4, <1>5 DEF Compile

LEMMA LoopRises ==
  ASSUME IsFiniteSet(Blocks), IsFiniteSet(Vars), IInv, C!RisingInv(Fading), [Next]_vars
  PROVE  C!RisingInv(Fading)'
<1>1. CASE ForwardBind \/ AnalyseBlock \/ BackwardBind
  <2>1. C!AnalysisInv
    <3>1. pc \in Analysing
      BY <1>1 DEF ForwardBind, F!ForwardBind, AnalyseBlock, BackwardBind, F!BackwardBind, Analysing
    <3> QED  BY <3>1 DEF IInv, PresentInv
  <2> QED  BY <1>1, <2>1, CallProgresses
<1>2. CASE EndCall \/ MergeContexts \/ ApplyResults
  BY <1>2 DEF EndCall, NextPC, MergeContexts, ApplyResults, C!RisingInv
<1>3. CASE Begin \/ Run
  <2>1. pc' = pc /\ pc = "applied"
    BY <1>3 DEF Begin, Run, analysis, IInv, RunInv
  <2> QED  BY <2>1 DEF C!RisingInv
<1>4. CASE UNCHANGED vars
  BY <1>4 DEF vars, analysis, C!RisingInv, C!Rises, C!Closing, C!ExecutableSources, C!Entering,
              C!Pull
<1> QED  BY <1>1, <1>2, <1>3, <1>4 DEF Next, Compile

LEMMA LeftType ==
  ASSUME IsFiniteSet(Blocks), IsFiniteSet(Vars), IInv
  PROVE  CallsLeft \in Nat /\ Phase \in 0..2 /\ LoopLeft \in Nat
<1>1. Len(calls) \in Nat /\ Len(results) \in Nat /\ Len(results) <= Len(calls)
  BY CallAssumption DEF IInv, MethodInv, ResultsInv, PresentInv
<1>2. CallsLeft \in Nat
  BY <1>1 DEF CallsLeft
<1>3. Phase \in 0..2
  BY DEF Phase
<1>4. LoopLeft \in Nat
  <2>1. CASE pc = "loop"
    <3>1. C!TypeOK
      BY <2>1 DEF IInv, PresentInv, Analysing, C!AnalysisInv
    <3>2. \A W, H, n :
            C!FiniteMethod /\ C!Widening(W, H, n) /\ C!TypeOK => C!Remaining(H, n) \in Nat
      BY CFGAssumptionHolds, SolutionAssumptionHolds, StoresAssumptionHolds,
         LatticeAssumptionHolds, StopsAssumptionHolds, SameAssumptionHolds, C!MeasureType
    <3> QED  BY <2>1, <3>1, <3>2, FadingWidens, FiniteBlocks DEF LoopLeft
  <2>2. CASE pc # "loop"
    BY <2>2 DEF LoopLeft
  <2> QED  BY <2>1, <2>2
<1> QED  BY <1>2, <1>3, <1>4

(* The analysis of a method with finitely many blocks and variables ends,  *)
(* whatever its statements, its calls and the order of the worklist: every *)
(* step of the compiler leaves less to do.  Neither the types nor what is  *)
(* claimed of the operators has a part in it, and it does not matter that  *)
(* the edges a call moves stay moved for the next.                         *)
THEOREM CompilationProgresses ==
  ASSUME IsFiniteSet(Blocks), IsFiniteSet(Vars)
  PROVE  Spec => /\ [](CallsLeft \in Nat /\ Phase \in 0..2 /\ LoopLeft \in Nat)
                 /\ [][Compile => LessLeft]_vars
<1>1. Init => C!RisingInv(Fading)
  BY DEF Init, F!Init, C!RisingInv
<1>2. IInv /\ C!RisingInv(Fading) /\ [Next]_vars => C!RisingInv(Fading)'
  BY LoopRises
<1>3. IInv /\ C!RisingInv(Fading) /\ [Next]_vars => [Compile => LessLeft]_vars
  BY CompileLeavesLess
<1>4. IInv => CallsLeft \in Nat /\ Phase \in 0..2 /\ LoopLeft \in Nat
  BY LeftType
<1> QED  BY <1>1, <1>2, <1>3, <1>4, Inductive, PTL DEF Spec
=============================================================================
