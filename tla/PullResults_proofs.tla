------------------------- MODULE PullResults_proofs -------------------------
(***************************************************************************)
(* Proofs for PullResults, for every set of variables, values, types,      *)
(* operators and predecessors, with what they need to know of the cells    *)
(* and the solutions of ValueLattice.                                      *)
(***************************************************************************)
EXTENDS PullResults, Naturals, FiniteSetTheorems, TLAPS

(* The operators the block may use have the result types claimed of them. *)
ASSUME OperatorsAssumption ==
  \A st \in Statements : st.op = "operator" => WellTyped(st.operator)

Allows(a, v) == LiteralHolds(a, v) /\ TypeHolds(a, v)

-----------------------------------------------------------------------------
(* Literal and Typed make cells. *)
LEMMA LiteralCell == \A v \in Values : Literal(v) \in Absval /\ Allows(Literal(v), v)
  BY ValueAssumption DEF Literal, Absval, Allows, LiteralHolds, TypeHolds

LEMMA TypedCell ==
  \A T \in SUBSET Types : /\ Typed(T) \in Absval
                          /\ \A v \in Values : TypeOf[v] \in T => Allows(Typed(T), v)
  BY DEF Typed, Absval, Allows, LiteralHolds, TypeHolds

(* A cell with a literal is determined by it. *)
LEMMA CellShape ==
  \A a \in Absval : /\ a.types \in SUBSET Types
                    /\ a.lit # NoLit => a.lit \in Values /\ a.types = {TypeOf[a.lit]}
  BY DEF Absval

(* meet is a merge: what either cell allows, the result allows. *)
LEMMA MeetCovers ==
  ASSUME NEW a \in Absval, NEW b \in Absval
  PROVE  /\ Meet(a, b) \in Absval
         /\ \A v \in Values : Allows(a, v) \/ Allows(b, v) => Allows(Meet(a, b), v)
<1>1. CASE a.lit # NoLit /\ a.lit = b.lit
  BY <1>1, CellShape, LiteralCell DEF Meet, Allows, LiteralHolds
<1>2. CASE ~(a.lit # NoLit /\ a.lit = b.lit)
  <2>1. Meet(a, b) = Typed(a.types \cup b.types)
    BY <1>2 DEF Meet
  <2>2. a.types \cup b.types \in SUBSET Types
    BY CellShape
  <2> QED BY <2>1, <2>2, TypedCell DEF Allows, TypeHolds
<1> QED BY <1>1, <1>2

(* meet, cell by cell, computes MeetCells. *)
LEMMA MeetCellsOne == \A a \in Absval : MeetCells({a}) = a
<1> SUFFICES ASSUME NEW a \in Absval PROVE MeetCells({a}) = a
  OBVIOUS
<1>1. CASE a.lit = NoLit
  <2>1. ~ \E v \in Values : \A c \in {a} : c.lit = v
    BY <1>1, ValueAssumption
  <2>2. UNION {c.types : c \in {a}} = a.types
    OBVIOUS
  <2>3. a = [lit |-> a.lit, types |-> a.types]
    BY DEF Absval
  <2> QED BY <1>1, <2>1, <2>2, <2>3 DEF MeetCells, Typed
<1>2. CASE a.lit # NoLit
  <2>1. a = Literal(a.lit)
    BY <1>2, CellShape DEF Literal, Absval
  <2>2. (CHOOSE v \in Values : \A c \in {a} : c.lit = v) = a.lit
    BY <1>2, CellShape
  <2>3. \E v \in Values : \A c \in {a} : c.lit = v
    BY <1>2, CellShape
  <2> QED BY <2>1, <2>2, <2>3 DEF MeetCells
<1> QED BY <1>1, <1>2

LEMMA MeetCellsOfLiteral ==
  ASSUME NEW C \in SUBSET Absval, C # {}, NEW v \in Values, \A c \in C : c.lit = v
  PROVE  MeetCells(C) = Literal(v)
<1>1. (CHOOSE w \in Values : \A c \in C : c.lit = w) = v
  OBVIOUS
<1> QED BY <1>1 DEF MeetCells

LEMMA MeetCellsAdd ==
  ASSUME NEW C \in SUBSET Absval, C # {}, NEW a \in Absval
  PROVE  Meet(MeetCells(C), a) = MeetCells(C \cup {a})
<1>0. UNION {c.types : c \in C \cup {a}} = (UNION {c.types : c \in C}) \cup a.types
  OBVIOUS
<1>1. CASE \E v \in Values : \A c \in C : c.lit = v
  <2>1. PICK v \in Values : \A c \in C : c.lit = v
    BY <1>1
  <2>2. MeetCells(C) = Literal(v)
    BY <2>1, MeetCellsOfLiteral
  <2>3. v # NoLit
    BY ValueAssumption
  <2>4. CASE a.lit = v
    <3>1. MeetCells(C \cup {a}) = Literal(v)
      BY <2>1, <2>4, MeetCellsOfLiteral
    <3> QED BY <2>2, <2>3, <2>4, <3>1 DEF Meet, Literal
  <2>5. CASE a.lit # v
    <3>1. UNION {c.types : c \in C} = {TypeOf[v]}
      BY <2>1, <2>3, CellShape
    <3>2. ~ \E w \in Values : \A c \in C \cup {a} : c.lit = w
      BY <2>1, <2>5
    <3>3. MeetCells(C \cup {a}) = Typed({TypeOf[v]} \cup a.types)
      BY <1>0, <3>1, <3>2 DEF MeetCells
    <3>4. Meet(Literal(v), a) = Typed({TypeOf[v]} \cup a.types)
      BY <2>5 DEF Meet, Literal
    <3> QED BY <2>2, <3>3, <3>4
  <2> QED BY <2>4, <2>5
<1>2. CASE ~ \E v \in Values : \A c \in C : c.lit = v
  <2>1. MeetCells(C) = Typed(UNION {c.types : c \in C})
    BY <1>2 DEF MeetCells
  <2>2. ~ \E v \in Values : \A c \in C \cup {a} : c.lit = v
    BY <1>2
  <2>3. MeetCells(C \cup {a}) = Typed((UNION {c.types : c \in C}) \cup a.types)
    BY <1>0, <2>2 DEF MeetCells
  <2>4. Meet(Typed(UNION {c.types : c \in C}), a) = Typed((UNION {c.types : c \in C}) \cup a.types)
    BY DEF Meet, Typed
  <2> QED BY <2>1, <2>3, <2>4
<1> QED BY <1>1, <1>2

(* MeetCells allows what any of its cells allows. *)
LEMMA MeetCellsCovers ==
  ASSUME NEW C \in SUBSET Absval, NEW c \in C
  PROVE  /\ MeetCells(C) \in Absval
         /\ \A v \in Values : Allows(c, v) => Allows(MeetCells(C), v)
<1>1. CASE \E v \in Values : \A d \in C : d.lit = v
  <2>1. PICK v \in Values : \A d \in C : d.lit = v
    BY <1>1
  <2>2. MeetCells(C) = Literal(v)
    BY <2>1, MeetCellsOfLiteral
  <2> QED BY <2>1, <2>2, LiteralCell, ValueAssumption DEF Allows, LiteralHolds
<1>2. CASE ~ \E v \in Values : \A d \in C : d.lit = v
  <2>1. MeetCells(C) = Typed(UNION {d.types : d \in C})
    BY <1>2 DEF MeetCells
  <2>2. UNION {d.types : d \in C} \in SUBSET Types
    BY CellShape
  <2>3. c.types \subseteq UNION {d.types : d \in C}
    OBVIOUS
  <2> QED BY <2>1, <2>2, <2>3, TypedCell DEF Allows, TypeHolds
<1> QED BY <1>1, <1>2

-----------------------------------------------------------------------------
LEMMA SolutionShape ==
  ASSUME NEW s \in Solution
  PROVE  /\ DOMAIN s \subseteq Vars
         /\ \A x \in DOMAIN s : s[x] \in Absval
         /\ \A x \in Vars : Read(s, x) \in Absval
  BY LiteralCell, ValueAssumption DEF Solution, Read

LEMMA MakeSolution ==
  ASSUME NEW D \in SUBSET Vars, NEW s \in [D -> Absval]
  PROVE  s \in Solution
  BY DEF Solution

LEMMA InTypeGamma ==
  ASSUME NEW s, NEW m
  PROVE  m \in TypeGamma(s) <=> m \in Store /\ \A x \in Vars : Allows(Read(s, x), m[x])
  BY DEF TypeGamma, LiteralGamma, Allows

LEMMA AssignSolution ==
  ASSUME NEW s \in Solution, NEW y \in Vars, NEW a \in Absval
  PROVE  Assign(s, y, a) \in Solution
<1>1. \A x \in DOMAIN s \cup {y} : (IF x = y THEN a ELSE s[x]) \in Absval
  BY SolutionShape
<1>2. DOMAIN s \cup {y} \in SUBSET Vars
  BY SolutionShape
<1>3. Assign(s, y, a) \in [DOMAIN s \cup {y} -> Absval]
  BY <1>1 DEF Assign
<1> QED BY <1>2, <1>3, MakeSolution

(* Assigning a cell that allows v covers a store that gets v. *)
LEMMA AssignCovers ==
  ASSUME NEW s \in Solution, NEW m \in TypeGamma(s), NEW y \in Vars,
         NEW a \in Absval, NEW v \in Values, Allows(a, v)
  PROVE  [m EXCEPT ![y] = v] \in TypeGamma(Assign(s, y, a))
<1>2. m \in Store /\ \A x \in Vars : Allows(Read(s, x), m[x])
  BY InTypeGamma
<1>3. [m EXCEPT ![y] = v] \in Store
  BY <1>2 DEF Store
<1>4. \A x \in Vars : Allows(Read(Assign(s, y, a), x), [m EXCEPT ![y] = v][x])
  <2> TAKE x \in Vars
  <2>1. CASE x = y
    BY <2>1, <1>2 DEF Assign, Read, Store
  <2>2. CASE x # y
    <3>1. Read(Assign(s, y, a), x) = Read(s, x)
      BY <2>2 DEF Assign, Read
    <3>2. [m EXCEPT ![y] = v][x] = m[x]
      BY <2>2, <1>2 DEF Store
    <3> QED BY <3>1, <3>2, <1>2
  <2> QED BY <2>1, <2>2
<1> QED BY <1>3, <1>4, InTypeGamma

(* An operator whose type claims are right. *)
LEMMA ApplyCovers ==
  ASSUME NEW o \in Ops, NEW a \in Absval
  PROVE  /\ Apply(o, a) \in Absval
         /\ WellTyped(o) =>
              \A v \in Values : Allows(a, v) => Allows(Apply(o, a), Fold[o][v])
<1>0. \A v \in Values : Fold[o][v] \in Values /\ TypeOf[v] \in Types
  BY ValueAssumption
<1>1. CASE a.lit # NoLit
  <2>1. Apply(o, a) = Literal(Fold[o][a.lit]) /\ a.lit \in Values
    BY <1>1, CellShape DEF Apply
  <2> QED BY <1>0, <1>1, <2>1, LiteralCell DEF Allows, LiteralHolds
<1>2. CASE a.lit = NoLit
  <2> DEFINE T == UNION {ResultTypes[o][t] : t \in a.types}
  <2>1. Apply(o, a) = Typed(T)
    BY <1>2 DEF Apply
  <2>2. T \in SUBSET Types
    BY CellShape, ValueAssumption
  <2>3. ASSUME WellTyped(o), NEW v \in Values, Allows(a, v)
        PROVE  TypeOf[Fold[o][v]] \in T
    BY <2>3 DEF WellTyped, Allows, TypeHolds
  <2> HIDE DEF T
  <2> QED BY <1>0, <2>1, <2>2, <2>3, TypedCell
<1> QED BY <1>1, <1>2

-----------------------------------------------------------------------------
(* The transfer function covers the statement it interprets. *)
LEMMA InterpretCovers ==
  ASSUME NEW st \in Statements, NEW s \in Solution
  PROVE  /\ Interpret(st, s) \in Solution
         /\ \A m \in TypeGamma(s) : Execute(st, m) \subseteq TypeGamma(Interpret(st, s))
<1>a. st \in Statement
  BY PredsAssumption
<1>b. \A m \in TypeGamma(s) : \A x \in Vars : m[x] \in Values /\ Allows(Read(s, x), m[x])
  BY InTypeGamma DEF Store
<1>c. \A x \in Vars : Read(s, x) \in Absval
  BY SolutionShape
<1>1. CASE st.op = "literal"
  <2>1. st.var \in Vars /\ st.value \in Values
    BY <1>a, <1>1 DEF Statement
  <2>2. Interpret(st, s) = Assign(s, st.var, Literal(st.value))
    BY <1>1 DEF Interpret
  <2>3. \A m : Execute(st, m) = {[m EXCEPT ![st.var] = st.value]}
    BY <1>1 DEF Execute
  <2>4. Literal(st.value) \in Absval /\ Allows(Literal(st.value), st.value)
    BY <2>1, LiteralCell
  <2> QED BY <2>1, <2>2, <2>3, <2>4, AssignSolution, AssignCovers
<1>2. CASE st.op = "call"
  <2>1. st.var \in Vars /\ st.types \in SUBSET Types
    BY <1>a, <1>2 DEF Statement
  <2>2. Interpret(st, s) = Assign(s, st.var, Typed(st.types))
    BY <1>2 DEF Interpret
  <2>3. \A m : Execute(st, m) = {[m EXCEPT ![st.var] = v] : v \in {w \in Values : TypeOf[w] \in st.types}}
    BY <1>2 DEF Execute
  <2>4. /\ Typed(st.types) \in Absval
        /\ \A v \in Values : TypeOf[v] \in st.types => Allows(Typed(st.types), v)
    BY <2>1, TypedCell
  <2> QED BY <2>1, <2>2, <2>3, <2>4, AssignSolution, AssignCovers
<1>3. CASE st.op = "copy"
  <2>1. st.var \in Vars /\ st.rhs \in Vars
    BY <1>a, <1>3 DEF Statement
  <2>2. Interpret(st, s) = Assign(s, st.var, Read(s, st.rhs))
    BY <1>3 DEF Interpret
  <2>3. \A m : Execute(st, m) = {[m EXCEPT ![st.var] = m[st.rhs]]}
    BY <1>3 DEF Execute
  <2> QED BY <1>b, <1>c, <2>1, <2>2, <2>3, AssignSolution, AssignCovers
<1>4. CASE st.op = "operator"
  <2> DEFINE o == st.operator
  <2>1. st.var \in Vars /\ st.rhs \in Vars /\ o \in Ops
    BY <1>a, <1>4 DEF Statement
  <2>2. WellTyped(o)
    BY <1>4, OperatorsAssumption
  <2>3. Interpret(st, s) = Assign(s, st.var, Apply(o, Read(s, st.rhs)))
    BY <1>4 DEF Interpret
  <2>4. \A m : Execute(st, m) = {[m EXCEPT ![st.var] = Fold[o][m[st.rhs]]]}
    BY <1>4 DEF Execute
  <2>5. /\ Apply(o, Read(s, st.rhs)) \in Absval
        /\ \A m \in TypeGamma(s) : Allows(Apply(o, Read(s, st.rhs)), Fold[o][m[st.rhs]])
    BY <1>b, <1>c, <2>1, <2>2, ApplyCovers
  <2>6. \A m \in TypeGamma(s) : Fold[o][m[st.rhs]] \in Values
    BY <1>b, <2>1, ValueAssumption
  <2> HIDE DEF o
  <2> QED BY <2>1, <2>3, <2>4, <2>5, <2>6, AssignSolution, AssignCovers
<1>5. CASE st.op = "unset"
  <2> DEFINE t == [x \in DOMAIN s \ {st.var} |-> s[x]]
  <2>1. st.var \in Vars
    BY <1>a, <1>5 DEF Statement
  <2>2. Interpret(st, s) = t /\ \A m : Execute(st, m) = {[m EXCEPT ![st.var] = Null]}
    BY <1>5 DEF Interpret, Execute
  <2>3. t \in [DOMAIN s \ {st.var} -> Absval] /\ DOMAIN s \ {st.var} \in SUBSET Vars
    BY SolutionShape
  <2>4. t \in Solution
    BY <2>3, MakeSolution
  <2>5. ASSUME NEW m \in TypeGamma(s) PROVE [m EXCEPT ![st.var] = Null] \in TypeGamma(t)
    <3>1. m \in Store /\ \A x \in Vars : Allows(Read(s, x), m[x])
      BY InTypeGamma
    <3>2. [m EXCEPT ![st.var] = Null] \in Store
      BY <3>1, ValueAssumption DEF Store
    <3>3. \A x \in Vars : Allows(Read(t, x), [m EXCEPT ![st.var] = Null][x])
      <4> TAKE x \in Vars
      <4>1. CASE x = st.var
        <5>1. Read(t, x) = Literal(Null)
          BY <4>1 DEF Read
        <5>2. [m EXCEPT ![st.var] = Null][x] = Null
          BY <4>1, <3>1 DEF Store
        <5> QED BY <5>1, <5>2, LiteralCell, ValueAssumption
      <4>2. CASE x # st.var
        <5>1. Read(t, x) = Read(s, x)
          BY <4>2 DEF Read
        <5>2. [m EXCEPT ![st.var] = Null][x] = m[x]
          BY <4>2, <3>1 DEF Store
        <5> QED BY <5>1, <5>2, <3>1
      <4> QED BY <4>1, <4>2
    <3> HIDE DEF t
    <3> QED BY <3>2, <3>3, InTypeGamma
  <2> HIDE DEF t
  <2> QED BY <2>2, <2>4, <2>5
<1>6. CASE st.op \notin {"literal", "call", "copy", "operator", "unset"}
  <2>1. Interpret(st, s) = s /\ \A m : Execute(st, m) = {m}
    BY <1>6 DEF Interpret, Execute
  <2> QED BY <2>1
<1> QED BY <1>1, <1>2, <1>3, <1>4, <1>5, <1>6

-----------------------------------------------------------------------------
(* The cells merged so far into variable x: those of the predecessors      *)
(* pulled, and NULL once its turn as a possible NULL has come.             *)
PulledFrom(o, left, x) == {p \in Preds \ left : x \in DOMAIN o[p]}
CellsOf(o, left, nulls, x) ==
  {o[p][x] : p \in PulledFrom(o, left, x)}
    \cup (IF x \in PossibleNulls(o) \ nulls THEN {Literal(Null)} ELSE {})

Merged(o, left, nulls, s) ==
  /\ DOMAIN s = UNION {DOMAIN o[p] : p \in Preds \ left}
  /\ \A x \in DOMAIN s : s[x] = MeetCells(CellsOf(o, left, nulls, x))

IInv ==
  /\ PullTypeOK
  /\ possible_nulls \subseteq PossibleNulls(outs)
  /\ todo # {} => possible_nulls = PossibleNulls(outs)
  /\ Merged(outs, todo, possible_nulls, ins)
  /\ stmt # NoLit => Pulled /\ stmt \in Statements /\ out = Interpret(stmt, ins)

LEMMA CellsAreCells ==
  ASSUME NEW o \in [Preds -> Solution], NEW left, NEW nulls, NEW x
  PROVE  CellsOf(o, left, nulls, x) \in SUBSET Absval
<1>1. \A p \in PulledFrom(o, left, x) : o[p][x] \in Absval
  BY SolutionShape DEF PulledFrom
<1>2. Literal(Null) \in Absval
  BY LiteralCell, ValueAssumption
<1> QED BY <1>1, <1>2 DEF CellsOf

(* One predecessor more. *)
LEMMA MergePred ==
  ASSUME NEW o \in [Preds -> Solution], NEW left \in SUBSET Preds, NEW q \in left,
         NEW s \in Solution, Merged(o, left, PossibleNulls(o), s)
  PROVE  /\ Merge(s, o[q]) \in Solution
         /\ Merged(o, left \ {q}, PossibleNulls(o), Merge(s, o[q]))
<1> DEFINE t == o[q]
           P == PossibleNulls(o)
           u == Merge(s, t)
<1>0. t \in Solution
  OBVIOUS
<1>1. DOMAIN u = DOMAIN s \cup DOMAIN t
  BY DEF Merge
<1>2. DOMAIN u = UNION {DOMAIN o[p] : p \in Preds \ (left \ {q})}
  BY <1>1 DEF Merged
<1>3. \A x : CellsOf(o, left, P, x) = {o[p][x] : p \in PulledFrom(o, left, x)}
  BY DEF CellsOf
<1>4. \A x : CellsOf(o, left \ {q}, P, x) = {o[p][x] : p \in PulledFrom(o, left \ {q}, x)}
  BY DEF CellsOf
<1>5. \A x \in DOMAIN s : CellsOf(o, left, P, x) # {}
  <2>1. \A x \in DOMAIN s : PulledFrom(o, left, x) # {}
    BY DEF Merged, PulledFrom
  <2> HIDE DEF P
  <2> SUFFICES ASSUME NEW x \in DOMAIN s PROVE CellsOf(o, left, P, x) # {}
    OBVIOUS
  <2>2. PICK p \in PulledFrom(o, left, x) : TRUE
    BY <2>1
  <2>3. o[p][x] \in CellsOf(o, left, P, x)
    BY <1>3, <2>2
  <2> QED BY <2>3
<1>6. \A x \in DOMAIN u : u[x] = MeetCells(CellsOf(o, left \ {q}, P, x)) /\ u[x] \in Absval
  <2> TAKE x \in DOMAIN u
  <2>1. CASE x \notin DOMAIN s
    <3>1. u[x] = t[x] /\ x \in DOMAIN t
      BY <1>1, <2>1 DEF Merge
    <3>2. PulledFrom(o, left \ {q}, x) = {q}
      BY <2>1, <3>1 DEF PulledFrom, Merged
    <3>3. CellsOf(o, left \ {q}, P, x) = {t[x]}
      BY <1>4, <3>2
    <3>4. t[x] \in Absval
      BY <1>0, <3>1, SolutionShape
    <3> QED BY <3>1, <3>3, <3>4, MeetCellsOne
  <2>2. CASE x \in DOMAIN s /\ x \notin DOMAIN t
    <3>1. u[x] = s[x]
      BY <2>2 DEF Merge
    <3>2. PulledFrom(o, left \ {q}, x) = PulledFrom(o, left, x)
      BY <2>2 DEF PulledFrom
    <3>3. s[x] = MeetCells(CellsOf(o, left, P, x)) /\ s[x] \in Absval
      BY <2>2, SolutionShape DEF Merged
    <3> QED BY <1>3, <1>4, <3>1, <3>2, <3>3
  <2>3. CASE x \in DOMAIN s /\ x \in DOMAIN t
    <3>1. u[x] = Meet(s[x], t[x])
      BY <2>3 DEF Merge
    <3>2. PulledFrom(o, left \ {q}, x) = PulledFrom(o, left, x) \cup {q}
      BY <2>3 DEF PulledFrom
    <3>3. CellsOf(o, left \ {q}, P, x) = CellsOf(o, left, P, x) \cup {t[x]}
      <4> HIDE DEF P
      <4>1. {o[p][x] : p \in PulledFrom(o, left, x) \cup {q}}
              = {o[p][x] : p \in PulledFrom(o, left, x)} \cup {o[q][x]}
        OBVIOUS
      <4> QED BY <1>3, <1>4, <3>2, <4>1
    <3>4. s[x] = MeetCells(CellsOf(o, left, P, x)) /\ s[x] \in Absval /\ t[x] \in Absval
      BY <1>0, <2>3, SolutionShape DEF Merged
    <3>5. CellsOf(o, left, P, x) \in SUBSET Absval
      BY CellsAreCells
    <3> HIDE DEF t, u, P
    <3>6. Meet(s[x], t[x]) = MeetCells(CellsOf(o, left, P, x) \cup {t[x]})
      BY <1>5, <2>3, <3>4, <3>5, MeetCellsAdd
    <3>7. Meet(s[x], t[x]) \in Absval
      BY <3>4, MeetCovers
    <3> QED BY <3>1, <3>3, <3>6, <3>7
  <2> QED BY <1>1, <2>1, <2>2, <2>3
<1>7. u \in [DOMAIN u -> Absval]
  BY <1>6 DEF Merge
<1>8. DOMAIN u \in SUBSET Vars
  BY <1>0, <1>1, SolutionShape
<1> HIDE DEF u
<1>9. u \in Solution
  BY <1>7, <1>8, MakeSolution
<1> QED BY <1>2, <1>6, <1>9 DEF Merged, u

(* One possible NULL more. *)
LEMMA MergeNull ==
  ASSUME NEW o \in [Preds -> Solution], NEW nulls \in SUBSET PossibleNulls(o),
         NEW y \in nulls, NEW s \in Solution, Merged(o, {}, nulls, s)
  PROVE  /\ y \in DOMAIN s
         /\ Assign(s, y, Meet(s[y], Literal(Null))) \in Solution
         /\ Merged(o, {}, nulls \ {y}, Assign(s, y, Meet(s[y], Literal(Null))))
<1> DEFINE a == Meet(s[y], Literal(Null))
           u == Assign(s, y, a)
<1>0. y \in Vars /\ PulledFrom(o, {}, y) # {} /\ y \in DOMAIN s
  BY DEF PossibleNulls, PulledFrom, Merged
<1>1. s[y] \in Absval /\ Literal(Null) \in Absval
  BY <1>0, SolutionShape, LiteralCell, ValueAssumption
<1>2. a \in Absval
  BY <1>1, MeetCovers
<1>3. u \in Solution
  BY <1>0, <1>2, AssignSolution
<1>4. CellsOf(o, {}, nulls \ {y}, y) = CellsOf(o, {}, nulls, y) \cup {Literal(Null)}
  BY DEF CellsOf
<1>5. CellsOf(o, {}, nulls, y) # {} /\ CellsOf(o, {}, nulls, y) \in SUBSET Absval
  BY <1>0, CellsAreCells DEF CellsOf
<1>6. a = MeetCells(CellsOf(o, {}, nulls \ {y}, y))
  <2>1. s[y] = MeetCells(CellsOf(o, {}, nulls, y))
    BY <1>0 DEF Merged
  <2> QED BY <1>1, <1>4, <1>5, <2>1, MeetCellsAdd
<1>7. \A x \in DOMAIN s \ {y} : CellsOf(o, {}, nulls \ {y}, x) = CellsOf(o, {}, nulls, x)
  BY DEF CellsOf
<1>8. DOMAIN u = DOMAIN s /\ u[y] = a /\ \A x \in DOMAIN s \ {y} : u[x] = s[x]
  BY <1>0 DEF Assign
<1> HIDE DEF u, a
<1>9. Merged(o, {}, nulls \ {y}, u)
  BY <1>6, <1>7, <1>8 DEF Merged
<1> QED BY <1>0, <1>3, <1>9 DEF u, a

-----------------------------------------------------------------------------
LEMMA InitInv == Init => IInv
<1> SUFFICES ASSUME Init PROVE IInv
  OBVIOUS
<1>1. NotVisited \in Solution /\ DOMAIN NotVisited = {}
  <2>1. NotVisited \in [{} -> Absval]
    BY DEF NotVisited
  <2> QED BY <2>1, MakeSolution
<1>2. PullTypeOK
  <2>1. outs \in [Preds -> Solution]
    BY PredsAssumption DEF Init
  <2> QED BY <1>1, <2>1 DEF PullTypeOK, Init, PossibleNulls
<1>3. Merged(outs, Preds, possible_nulls, NotVisited)
  BY <1>1 DEF Merged
<1> QED BY <1>2, <1>3 DEF IInv, Init

LEMMA PullPredInv == \A p \in todo : IInv /\ PullPred(p) => IInv'
<1> SUFFICES ASSUME NEW p \in todo, IInv, PullPred(p) PROVE IInv'
  OBVIOUS
<1>1. /\ outs \in [Preds -> Solution] /\ todo \in SUBSET Preds /\ ins \in Solution
      /\ possible_nulls = PossibleNulls(outs)
      /\ Merged(outs, todo, PossibleNulls(outs), ins)
  BY DEF IInv, PullTypeOK
<1>2. /\ ins' = Merge(ins, outs[p]) /\ todo' = todo \ {p}
      /\ outs' = outs /\ possible_nulls' = possible_nulls /\ stmt' = stmt /\ out' = out
  BY DEF PullPred
<1>3. ins' \in Solution /\ Merged(outs', todo', possible_nulls', ins')
  BY <1>1, <1>2, MergePred
<1>4. stmt = NoLit
  BY DEF IInv, Pulled
<1> QED BY <1>1, <1>2, <1>3, <1>4 DEF IInv, PullTypeOK

LEMMA PullPossibleNullInv == \A x \in possible_nulls : IInv /\ PullPossibleNull(x) => IInv'
<1> SUFFICES ASSUME NEW x \in possible_nulls, IInv, PullPossibleNull(x) PROVE IInv'
  OBVIOUS
<1>1. /\ outs \in [Preds -> Solution] /\ todo = {} /\ ins \in Solution
      /\ possible_nulls \in SUBSET PossibleNulls(outs)
      /\ Merged(outs, {}, possible_nulls, ins)
  BY DEF IInv, PullTypeOK, PullPossibleNull
<1>2. /\ ins' = Assign(ins, x, Meet(ins[x], Literal(Null)))
      /\ possible_nulls' = possible_nulls \ {x}
      /\ outs' = outs /\ todo' = todo /\ stmt' = stmt /\ out' = out
  BY DEF PullPossibleNull
<1>3. ins' \in Solution /\ Merged(outs', todo', possible_nulls', ins')
  BY <1>1, <1>2, MergeNull
<1>4. stmt = NoLit
  BY DEF IInv, Pulled
<1> QED BY <1>1, <1>2, <1>3, <1>4 DEF IInv, PullTypeOK

LEMMA VisitBlockInv == IInv /\ VisitBlock => IInv'
<1> SUFFICES ASSUME IInv, VisitBlock PROVE IInv'
  OBVIOUS
<1>1. stmt' \in Statements /\ out' = Interpret(stmt', ins) /\ Pulled
  BY DEF VisitBlock, Pulled
<1>2. /\ ins' = ins /\ possible_nulls' = possible_nulls
      /\ outs' = outs /\ todo' = todo
  BY DEF VisitBlock
<1>3. stmt' \in Statement /\ out' \in Solution
  BY <1>1, InterpretCovers, PredsAssumption DEF IInv, PullTypeOK
<1> QED BY <1>1, <1>2, <1>3 DEF IInv, PullTypeOK, Pulled

(* The inductive invariant of the specification. *)
THEOREM Inductive == Spec => []IInv
<1>1. IInv /\ [Next]_vars => IInv'
  <2> SUFFICES ASSUME IInv, [Next]_vars PROVE IInv'
    OBVIOUS
  <2>1. ASSUME NEW p \in todo, PullPred(p) PROVE IInv'
    BY <2>1, PullPredInv
  <2>2. ASSUME NEW x \in possible_nulls, PullPossibleNull(x) PROVE IInv'
    BY <2>2, PullPossibleNullInv
  <2>3. CASE VisitBlock
    BY <2>3, VisitBlockInv
  <2>4. CASE UNCHANGED vars
    BY <2>4 DEF vars, IInv, PullTypeOK, Pulled
  <2> QED BY <2>1, <2>2, <2>3, <2>4 DEF Next
<1> QED BY <1>1, InitInv, PTL DEF Spec

(* What is merged is a solution at every step: a cell has a known literal  *)
(* only together with that literal's type.                                 *)
THEOREM TypeCorrect == Spec => []PullTypeOK
<1>1. IInv => PullTypeOK
  BY DEF IInv
<1> QED BY <1>1, Inductive, PTL

-----------------------------------------------------------------------------
LEMMA PulledIsMeet == IInv => PulledMeet
<1> SUFFICES ASSUME IInv, Pulled
             PROVE  ins = MeetSolutions({outs[p] : p \in Preds})
  BY DEF PulledMeet
<1> DEFINE S == {outs[p] : p \in Preds}
<1>1. outs \in [Preds -> Solution] /\ Merged(outs, {}, {}, ins) /\ ins \in Solution
  BY DEF IInv, PullTypeOK, Pulled
<1>2. DOMAIN ins = UNION {DOMAIN s : s \in S}
  BY <1>1 DEF Merged
<1>3. \A x \in DOMAIN ins : CellsOf(outs, {}, {}, x) = {Read(s, x) : s \in S}
  <2> TAKE x \in DOMAIN ins
  <2>1. x \in Vars /\ \E p \in Preds : x \in DOMAIN outs[p]
    BY <1>1, SolutionShape DEF Merged
  <2>2. x \in PossibleNulls(outs) <=> \E p \in Preds : x \notin DOMAIN outs[p]
    BY <1>1, <2>1 DEF PossibleNulls
  <2>3. {Read(s, x) : s \in S} = {Read(outs[p], x) : p \in Preds}
    OBVIOUS
  <2>4. \A p \in Preds :
          Read(outs[p], x) = IF x \in DOMAIN outs[p] THEN outs[p][x] ELSE Literal(Null)
    BY DEF Read
  <2>5. PulledFrom(outs, {}, x) = {p \in Preds : x \in DOMAIN outs[p]}
    BY DEF PulledFrom
  <2>6. CellsOf(outs, {}, {}, x) =
          {outs[p][x] : p \in {q \in Preds : x \in DOMAIN outs[q]}}
            \cup (IF x \in PossibleNulls(outs) THEN {Literal(Null)} ELSE {})
    BY <2>5 DEF CellsOf
  <2> HIDE DEF S
  <2>7. \A c : c \in CellsOf(outs, {}, {}, x) <=> \E p \in Preds : c = Read(outs[p], x)
    BY <2>2, <2>4, <2>6
  <2> QED BY <2>3, <2>7
<1>4. ins = [x \in DOMAIN ins |-> MeetCells({Read(s, x) : s \in S})]
  <2> HIDE DEF S
  <2>1. ins = [x \in DOMAIN ins |-> ins[x]]
    BY <1>1 DEF Solution
  <2> QED BY <1>1, <1>3, <2>1 DEF Merged
<1> QED BY <1>2, <1>4 DEF MeetSolutions

(* pull_results computes MeetSolutions of the predecessors' solutions, in  *)
(* whatever order it merges them.                                          *)
THEOREM PullsTheMeet == Spec => []PulledMeet
  BY Inductive, PulledIsMeet, PTL

LEMMA PulledCovers ==
  ASSUME IInv, Pulled, NEW p \in Preds, NEW m \in TypeGamma(outs[p])
  PROVE  m \in TypeGamma(ins)
<1> DEFINE S == {outs[q] : q \in Preds}
<1>1. outs \in [Preds -> Solution] /\ ins \in Solution /\ ins = MeetSolutions(S)
  BY PulledIsMeet DEF IInv, PullTypeOK, PulledMeet
<1>2. m \in Store /\ \A x \in Vars : m[x] \in Values /\ Allows(Read(outs[p], x), m[x])
  BY InTypeGamma DEF Store
<1>3. \A x \in Vars : Allows(Read(ins, x), m[x])
  <2> TAKE x \in Vars
  <2>1. CASE x \in DOMAIN ins
    <3>1. Read(ins, x) = MeetCells({Read(s, x) : s \in S})
      BY <1>1, <2>1 DEF Read, MeetSolutions
    <3>2. {Read(s, x) : s \in S} \in SUBSET Absval /\ Read(outs[p], x) \in {Read(s, x) : s \in S}
      BY <1>1, SolutionShape
    <3> HIDE DEF S
    <3> QED BY <1>2, <3>1, <3>2, MeetCellsCovers
  <2>2. CASE x \notin DOMAIN ins
    <3>1. x \notin DOMAIN outs[p]
      BY <1>1, <2>2 DEF MeetSolutions
    <3> QED BY <1>2, <2>2, <3>1 DEF Read
  <2> QED BY <2>1, <2>2
<1> QED BY <1>2, <1>3, InTypeGamma

(* No store a predecessor allows, and nothing the statement makes of it,   *)
(* escapes the solutions.                                                  *)
THEOREM NothingEscapes == Spec => []Foreseen
<1>1. IInv => Foreseen
  <2> SUFFICES ASSUME IInv, Pulled, NEW p \in Preds, NEW m \in TypeGamma(outs[p])
               PROVE  /\ m \in TypeGamma(ins)
                      /\ stmt # NoLit => Execute(stmt, m) \subseteq TypeGamma(out)
    BY DEF Foreseen
  <2>1. m \in TypeGamma(ins)
    BY PulledCovers
  <2>2. ASSUME stmt # NoLit PROVE Execute(stmt, m) \subseteq TypeGamma(out)
    <3>1. stmt \in Statements /\ out = Interpret(stmt, ins) /\ ins \in Solution
      BY <2>2 DEF IInv, PullTypeOK
    <3> QED BY <2>1, <3>1, InterpretCovers
  <2> QED BY <2>1, <2>2
<1> QED BY <1>1, Inductive, PTL

(* Cells only move down the lattice while results are pulled. *)
THEOREM CellsOnlyWiden == Spec => OnlyWidens
<1> DEFINE Widens ==
      \A x \in DOMAIN ins : \A v \in Values :
        LiteralHolds(ins[x], v) /\ TypeHolds(ins[x], v) =>
          x \in DOMAIN ins' /\ LiteralHolds(ins[x]', v) /\ TypeHolds(ins[x]', v)
<1>1. IInv /\ [Next]_vars => [Widens]_vars
  <2> SUFFICES ASSUME IInv, Next, NEW x \in DOMAIN ins, NEW v \in Values, Allows(ins[x], v)
               PROVE  x \in DOMAIN ins' /\ Allows(ins'[x], v)
    BY DEF Allows, LiteralHolds, TypeHolds
  <2>0. ins \in Solution /\ ins[x] \in Absval /\ outs \in [Preds -> Solution] /\ todo \subseteq Preds
    BY SolutionShape DEF IInv, PullTypeOK
  <2>1. ASSUME NEW p \in todo, PullPred(p) PROVE x \in DOMAIN ins' /\ Allows(ins'[x], v)
    <3>1. ins' = Merge(ins, outs[p])
      BY <2>1 DEF PullPred
    <3>2. CASE x \in DOMAIN outs[p]
      <4>1. outs[p][x] \in Absval
        BY <2>0, <3>2, SolutionShape
      <4>2. x \in DOMAIN ins' /\ ins'[x] = Meet(ins[x], outs[p][x])
        BY <3>1, <3>2 DEF Merge
      <4> QED BY <2>0, <4>1, <4>2, MeetCovers
    <3>3. CASE x \notin DOMAIN outs[p]
      BY <3>1, <3>3 DEF Merge
    <3> QED BY <3>2, <3>3
  <2>2. ASSUME NEW y \in possible_nulls, PullPossibleNull(y) PROVE x \in DOMAIN ins' /\ Allows(ins'[x], v)
    <3>1. ins' = Assign(ins, y, Meet(ins[y], Literal(Null)))
      BY <2>2 DEF PullPossibleNull
    <3>2. CASE x = y
      <4>1. Literal(Null) \in Absval
        BY LiteralCell, ValueAssumption
      <4>2. x \in DOMAIN ins' /\ ins'[x] = Meet(ins[x], Literal(Null))
        BY <3>1, <3>2 DEF Assign
      <4> QED BY <2>0, <4>1, <4>2, MeetCovers
    <3>3. CASE x # y
      BY <3>1, <3>3 DEF Assign
    <3> QED BY <3>2, <3>3
  <2>3. CASE VisitBlock
    BY <2>3 DEF VisitBlock
  <2> QED BY <2>1, <2>2, <2>3 DEF Next
<1> QED BY <1>1, Inductive, PTL DEF Spec, OnlyWidens
=============================================================================
