-------------------------- MODULE PointsTo_proofs --------------------------
(***************************************************************************)
(* Proofs for PointsTo, for every set of variables, values and types, and  *)
(* paths of any length: what holds of the graph holds of the run, as long  *)
(* as nothing is written through an unknown name to a variable that does   *)
(* not exist.                                                              *)
(***************************************************************************)
EXTENDS PointsTo, Naturals, FiniteSetTheorems, TLAPS

(* Every statement names what it writes, and what it refers to. *)
NamesItsTargets(p) ==
  \A s \in p.statements : s.lhs # Unknown /\ (s.op = "ref" => s.rhs # Unknown)

(* Or all variables exist from the start, and none is unset. *)
KeepsVariables(p) ==
  /\ p.defined = Names
  /\ \A s \in p.statements : s.op # "unset"

ASSUME ProgramsAreSound ==
  /\ MaxStatements \in Nat
  /\ \A p \in Programs : NamesItsTargets(p) \/ KeepsVariables(p)

-----------------------------------------------------------------------------
Allows(a, v) == LiteralHolds(a, v) /\ TypeHolds(a, v)

(* Literal and Typed make cells. *)
LEMMA LiteralCell == \A v \in Values : Literal(v) \in Absval /\ Allows(Literal(v), v)
  BY ValueAssumption DEF Literal, Absval, Allows, LiteralHolds, TypeHolds

LEMMA TypedCell ==
  \A T \in SUBSET Types : /\ Typed(T) \in Absval
                          /\ \A v \in Values : TypeOf[v] \in T => Allows(Typed(T), v)
  BY DEF Typed, Absval, Allows, LiteralHolds, TypeHolds

(* A cell with a literal is determined by it. *)
LEMMA CellShape ==
  \A a \in Absval : /\ a.types \in SUBSET Types
                    /\ a.lit # NoLit => a.lit \in Values /\ a.types = {TypeOf[a.lit]}
  BY DEF Absval

(* meet is a merge: what either cell allows, the result allows. *)
LEMMA MeetCovers ==
  ASSUME NEW a \in Absval, NEW b \in Absval
  PROVE  /\ Meet(a, b) \in Absval
         /\ \A v \in Values : Allows(a, v) \/ Allows(b, v) => Allows(Meet(a, b), v)
<1>1. CASE a.lit # NoLit /\ a.lit = b.lit
  BY <1>1, CellShape, LiteralCell DEF Meet, Allows, LiteralHolds
<1>2. CASE ~(a.lit # NoLit /\ a.lit = b.lit)
  <2>1. Meet(a, b) = Typed(a.types \cup b.types)
    BY <1>2 DEF Meet
  <2>2. a.types \cup b.types \in SUBSET Types
    BY CellShape
  <2> QED BY <2>1, <2>2, TypedCell DEF Allows, TypeHolds
<1> QED BY <1>1, <1>2

(* meet, cell by cell, computes MeetCells. *)
LEMMA MeetCellsOne == \A a \in Absval : MeetCells({a}) = a
<1> SUFFICES ASSUME NEW a \in Absval PROVE MeetCells({a}) = a
  OBVIOUS
<1>1. CASE a.lit = NoLit
  <2>1. ~ \E v \in Values : \A c \in {a} : c.lit = v
    BY <1>1, ValueAssumption
  <2>2. UNION {c.types : c \in {a}} = a.types
    OBVIOUS
  <2>3. a = [lit |-> a.lit, types |-> a.types]
    BY DEF Absval
  <2> QED BY <1>1, <2>1, <2>2, <2>3 DEF MeetCells, Typed
<1>2. CASE a.lit # NoLit
  <2>1. a = Literal(a.lit)
    BY <1>2, CellShape DEF Literal, Absval
  <2>2. (CHOOSE v \in Values : \A c \in {a} : c.lit = v) = a.lit
    BY <1>2, CellShape
  <2>3. \E v \in Values : \A c \in {a} : c.lit = v
    BY <1>2, CellShape
  <2> QED BY <2>1, <2>2, <2>3 DEF MeetCells
<1> QED BY <1>1, <1>2

LEMMA MeetCellsOfLiteral ==
  ASSUME NEW C \in SUBSET Absval, C # {}, NEW v \in Values, \A c \in C : c.lit = v
  PROVE  MeetCells(C) = Literal(v)
<1>1. (CHOOSE w \in Values : \A c \in C : c.lit = w) = v
  OBVIOUS
<1> QED BY <1>1 DEF MeetCells

(* MeetCells allows what any of its cells allows. *)
LEMMA MeetCellsCovers ==
  ASSUME NEW C \in SUBSET Absval, NEW c \in C
  PROVE  /\ MeetCells(C) \in Absval
         /\ \A v \in Values : Allows(c, v) => Allows(MeetCells(C), v)
<1>1. CASE \E v \in Values : \A d \in C : d.lit = v
  <2>1. PICK v \in Values : \A d \in C : d.lit = v
    BY <1>1
  <2>2. MeetCells(C) = Literal(v)
    BY <2>1, MeetCellsOfLiteral
  <2> QED BY <2>1, <2>2, LiteralCell, ValueAssumption DEF Allows, LiteralHolds
<1>2. CASE ~ \E v \in Values : \A d \in C : d.lit = v
  <2>1. MeetCells(C) = Typed(UNION {d.types : d \in C})
    BY <1>2 DEF MeetCells
  <2>2. UNION {d.types : d \in C} \in SUBSET Types
    BY CellShape
  <2>3. c.types \subseteq UNION {d.types : d \in C}
    OBVIOUS
  <2> QED BY <2>1, <2>2, <2>3, TypedCell DEF Allows, TypeHolds
<1> QED BY <1>1, <1>2

LEMMA SolutionShape ==
  ASSUME NEW s \in Solution
  PROVE  /\ DOMAIN s \subseteq Vars
         /\ \A x \in DOMAIN s : s[x] \in Absval
         /\ \A x \in Vars : Read(s, x) \in Absval
  BY LiteralCell, ValueAssumption DEF Solution, Read

LEMMA MakeSolution ==
  ASSUME NEW D \in SUBSET Vars, NEW s \in [D -> Absval]
  PROVE  s \in Solution
  BY DEF Solution

-----------------------------------------------------------------------------
(* The strengthening.  UNKNOWN is either untouched or no longer needed.    *)
Untouched(g) ==
  /\ g.cells[Unknown] = Literal(Null)
  /\ \A x \in Vars : <<x, Unknown>> \notin references(g) /\ <<Unknown, x>> \notin references(g)

(* What holds of a graph by itself, whether the run goes there or not. *)
WellFormed(g) ==
  /\ g \in Graph
  /\ g.definite \subseteq Names \X Names
  /\ program.flow_insensitive => g.definite = {}
  /\ (NamesItsTargets(program) /\ Untouched(g)) \/ (KeepsVariables(program) /\ Names \subseteq fields(g))

Equivalence(al) ==
  /\ \A x \in Names : <<x, x>> \in al
  /\ \A x, y \in Names : <<x, y>> \in al => <<y, x>> \in al
  /\ \A x, y, z \in Names : <<x, y>> \in al /\ <<y, z>> \in al => <<x, z>> \in al

(* What holds of a graph and the variables of the run. *)
Sound(g, al, v) ==
  /\ \A x \in Names : Allows(Cell(g, x), v[x])
  /\ \A x, y \in Names : x # y =>
       /\ <<x, y>> \in al => <<IndexOf(g, x), IndexOf(g, y)>> \in references(g)
       /\ <<x, y>> \in g.definite => <<x, y>> \in al

IInv ==
  /\ PointsToTypeOK
  /\ Equivalence(alias)
  /\ pc # "exception" => WellFormed(ptg) /\ WellFormed(other) /\ Sound(ptg, alias, val)

-----------------------------------------------------------------------------
LEMMA GraphShape ==
  ASSUME NEW g \in Graph
  PROVE  /\ fields(g) \subseteq Vars /\ Unknown \in fields(g)
         /\ \A x \in fields(g) : g.cells[x] \in Absval
         /\ \A x \in Vars : IndexOf(g, x) \in fields(g) /\ Cell(g, x) \in Absval
         /\ g.possible \in SUBSET (Vars \X Vars) /\ g.definite \in SUBSET (Vars \X Vars)
         /\ references(g) \in SUBSET (Vars \X Vars)
         /\ g.possible \cap g.definite = {}
         /\ \A x, y : <<x, y>> \in references(g) =>
              x # y /\ x \in fields(g) /\ y \in fields(g) /\ <<y, x>> \in references(g)
         /\ \A x, y : <<x, y>> \in g.definite => <<y, x>> \in g.definite
         /\ \A x, y : <<x, y>> \in g.possible => <<y, x>> \in g.possible
<1>1. g.cells \in Solution
  BY DEF Graph
<1>2. fields(g) \subseteq Vars /\ \A x \in fields(g) : g.cells[x] \in Absval
  BY <1>1, SolutionShape DEF fields
<1>3. Unknown \in fields(g)
  BY DEF Graph, fields
<1> QED BY <1>2, <1>3 DEF Graph, references, IndexOf, Cell, fields

(* How to show that a record is a graph. *)
LEMMA MakeGraph ==
  ASSUME NEW D \in SUBSET Vars, Unknown \in D, NEW c \in [D -> Absval],
         NEW P, NEW Q, P \cap Q = {},
         P \subseteq Vars \X Vars, Q \subseteq Vars \X Vars,
         \A x, y : <<x, y>> \in P \cup Q => x # y /\ x \in D /\ y \in D,
         \A x, y : <<x, y>> \in P => <<y, x>> \in P,
         \A x, y : <<x, y>> \in Q => <<y, x>> \in Q
  PROVE  [cells |-> c, possible |-> P, definite |-> Q] \in Graph
<1> DEFINE g == [cells |-> c, possible |-> P, definite |-> Q]
<1>1. c \in Solution
  BY MakeSolution
<1>2. g.cells = c /\ g.possible = P /\ g.definite = Q
  OBVIOUS
<1>3. g \in [cells : Solution, possible : SUBSET (Vars \X Vars), definite : SUBSET (Vars \X Vars)]
  BY <1>1
<1>4. \A e \in P \cup Q : e = <<e[1], e[2]>>
  OBVIOUS
<1> HIDE DEF g
<1>5. \A e \in P \cup Q : e[1] # e[2] /\ e[1] \in D /\ e[2] \in D
  BY <1>4
<1>6. (\A e \in P : <<e[2], e[1]>> \in P) /\ (\A e \in Q : <<e[2], e[1]>> \in Q)
  BY <1>4
<1>7. g \in Graph
  BY <1>2, <1>3, <1>5, <1>6 DEF Graph
<1> QED BY <1>7 DEF g

(* Variables that are references to the same value both exist. *)
LEMMA AliasedExist ==
  ASSUME NEW g, WellFormed(g), NEW al, NEW v, Sound(g, al, v),
         NEW x \in Names, NEW y \in Names, x # y, <<x, y>> \in al
  PROVE  x \in fields(g) /\ y \in fields(g) /\ <<x, y>> \in references(g)
<1>1. <<IndexOf(g, x), IndexOf(g, y)>> \in references(g)
  BY DEF Sound
<1>2. CASE Untouched(g)
  <2>1. IndexOf(g, x) # Unknown /\ IndexOf(g, y) # Unknown
    BY <1>1, <1>2, GraphShape DEF Untouched, WellFormed, IndexOf, Names
  <2> QED BY <1>1, <2>1 DEF IndexOf
<1>3. CASE Names \subseteq fields(g)
  BY <1>1, <1>3 DEF IndexOf
<1> QED BY <1>2, <1>3 DEF WellFormed

(* fake allows all that one of the right-hand sides allows. *)
LEMMA CellOfCovers ==
  ASSUME NEW g \in Graph, NEW I \in SUBSET Vars
  PROVE  /\ CellOf(g, I) \in Absval \/ I = {}
         /\ \A y \in I : \A w \in Values : Allows(Cell(g, y), w) => Allows(CellOf(g, I), w)
<1> DEFINE C == {Cell(g, x) : x \in I}
<1>1. C \in SUBSET Absval
  BY GraphShape
<1>2. \A y \in I : Cell(g, y) \in C
  OBVIOUS
<1> HIDE DEF C
<1>3. \A y \in I : /\ MeetCells(C) \in Absval
                   /\ \A w \in Values : Allows(Cell(g, y), w) => Allows(MeetCells(C), w)
  BY <1>1, <1>2, MeetCellsCovers
<1> QED BY <1>3 DEF CellOf, C

-----------------------------------------------------------------------------
(* Closure follows edges between variables. *)
LEMMA ClosureShape ==
  ASSUME NEW E \in SUBSET (Vars \X Vars), NEW I \in SUBSET Vars
  PROVE  \A y : y \in Closure(E, I) <=> y \in I \/ \E x \in I : <<x, y>> \in E
<1>1. \A e \in E : e = <<e[1], e[2]>>
  OBVIOUS
<1> QED BY <1>1 DEF Closure

(* killed and written, as Write computes them. *)
LEMMA WriteClosures ==
  ASSUME NEW g \in Graph, NEW I \in SUBSET Vars
  PROVE  /\ \A y : y \in Closure(references(g), I) <=> y \in I \/ \E x \in I : <<x, y>> \in references(g)
         /\ \A y : y \in Closure(g.definite, I) <=> y \in I \/ \E x \in I : <<x, y>> \in g.definite
<1>1. references(g) \in SUBSET (Vars \X Vars) /\ g.definite \in SUBSET (Vars \X Vars)
  BY GraphShape
<1> QED BY <1>1, ClosureShape

LEMMA IndicesShape ==
  ASSUME NEW g \in Graph, NEW n \in Vars
  PROVE  /\ NamedIndices(g, n) \in SUBSET Vars
         /\ \A x \in Denoted(n) : x \in Names
         /\ n # Unknown => NamedIndices(g, n) = {n} /\ Denoted(n) = {n} /\ n \in Names
         /\ n = Unknown => NamedIndices(g, n) = fields(g) /\ Denoted(n) = Names
         /\ Killable(NamedIndices(g, n)) <=> ~program.flow_insensitive /\ n # Unknown
<1>1. CASE n = Unknown
  <2>1. Unknown \in NamedIndices(g, n)
    BY <1>1, GraphShape DEF NamedIndices
  <2>2. ~Killable(NamedIndices(g, n))
    BY <2>1 DEF Killable, Names
  <2> QED BY <1>1, <2>2, GraphShape DEF NamedIndices, Denoted
<1>2. CASE n # Unknown
  BY <1>2 DEF NamedIndices, Denoted, Names, Killable
<1> QED BY <1>1, <1>2

(* The graph after a write. *)
LEMMA WriteWellFormed ==
  ASSUME NEW g, WellFormed(g), NEW n \in Vars, NEW a \in Absval,
         NamesItsTargets(program) => n # Unknown
  PROVE  WellFormed(Write(g, n, a))
<1> DEFINE lhss == NamedIndices(g, n)
           killed == IF Killable(lhss) THEN Closure(g.definite, lhss) ELSE {}
           written == Closure(references(g), lhss)
           c == [x \in fields(g) \cup lhss |->
                   IF x \in killed \/ x \notin fields(g) THEN a
                   ELSE IF x \in written THEN Meet(g.cells[x], a)
                   ELSE g.cells[x]]
           h == Write(g, n, a)
<1>1. g \in Graph
  BY DEF WellFormed
<1>2. h = [cells |-> c, possible |-> g.possible, definite |-> g.definite]
  BY DEF Write
<1>3. lhss \in SUBSET Vars
  BY <1>1, IndicesShape
<1>4. \A x \in fields(g) : g.cells[x] \in Absval /\ Meet(g.cells[x], a) \in Absval
  BY <1>1, GraphShape, MeetCovers
<1>5. c \in [fields(g) \cup lhss -> Absval]
  BY <1>4
<1>6. h \in Graph
  <2> HIDE DEF c, lhss
  <2>1. fields(g) \cup lhss \in SUBSET Vars /\ Unknown \in fields(g) \cup lhss
    BY <1>1, <1>3, GraphShape
  <2>2. \A x, y : <<x, y>> \in g.possible \cup g.definite =>
          x # y /\ x \in fields(g) \cup lhss /\ y \in fields(g) \cup lhss
    BY <1>1, GraphShape DEF references
  <2>3. /\ g.possible \cap g.definite = {}
        /\ g.possible \subseteq Vars \X Vars /\ g.definite \subseteq Vars \X Vars
        /\ \A x, y : <<x, y>> \in g.possible => <<y, x>> \in g.possible
        /\ \A x, y : <<x, y>> \in g.definite => <<y, x>> \in g.definite
    BY <1>1, GraphShape
  <2>4. [cells |-> c, possible |-> g.possible, definite |-> g.definite] \in Graph
    BY <1>5, <2>1, <2>2, <2>3, MakeGraph
  <2> QED BY <1>2, <2>4
<1>7. h.cells = c /\ h.possible = g.possible /\ h.definite = g.definite /\ fields(h) = fields(g) \cup lhss
  BY <1>2 DEF fields
<1>8. CASE NamesItsTargets(program) /\ Untouched(g)
  <2>1. lhss = {n} /\ n # Unknown /\ Unknown \in fields(g)
    BY <1>1, <1>8, IndicesShape, GraphShape
  <2>2. Unknown \notin written /\ Unknown \notin killed
    <3>1. \A y : y \in written <=> y \in lhss \/ \E x \in lhss : <<x, y>> \in references(g)
      BY <1>1, <1>3, WriteClosures
    <3>2. \A y : y \in killed => y \in lhss \/ \E x \in lhss : <<x, y>> \in g.definite
      BY <1>1, <1>3, WriteClosures
    <3> HIDE DEF written, killed, lhss
    <3>3. g.definite \subseteq references(g)
      BY DEF references
    <3> QED BY <1>8, <2>1, <3>1, <3>2, <3>3 DEF Untouched
  <2>3. c[Unknown] = g.cells[Unknown]
    BY <2>1, <2>2
  <2> QED BY <1>6, <1>7, <1>8, <2>3 DEF WellFormed, Untouched, references
<1>9. CASE KeepsVariables(program) /\ Names \subseteq fields(g)
  BY <1>6, <1>7, <1>9 DEF WellFormed
<1> QED BY <1>8, <1>9 DEF WellFormed

(* The run sets one of the variables the operand may denote. *)
LEMMA WriteSound ==
  ASSUME NEW g, WellFormed(g), NEW n \in Vars, NEW a \in Absval,
         NamesItsTargets(program) => n # Unknown,
         NEW al, Equivalence(al), NEW v, Sound(g, al, v),
         NEW x \in Denoted(n), NEW w \in Values, Allows(a, w),
         \A y \in Names : v[y] \in Values
  PROVE  Sound(Write(g, n, a), al, [y \in Names |-> IF <<x, y>> \in al THEN w ELSE v[y]])
<1> DEFINE lhss == NamedIndices(g, n)
           killed == IF Killable(lhss) THEN Closure(g.definite, lhss) ELSE {}
           written == Closure(references(g), lhss)
           h == Write(g, n, a)
           u == [y \in Names |-> IF <<x, y>> \in al THEN w ELSE v[y]]
<1>1. g \in Graph
  BY DEF WellFormed
<1>2. /\ h.possible = g.possible /\ h.definite = g.definite /\ fields(h) = fields(g) \cup lhss
      /\ \A y \in fields(h) : h.cells[y] =
           IF y \in killed \/ y \notin fields(g) THEN a
           ELSE IF y \in written THEN Meet(g.cells[y], a)
           ELSE g.cells[y]
  BY DEF Write, fields
<1>3. lhss \in SUBSET Vars /\ x \in Names
  BY <1>1, IndicesShape
<1>4. \A y : y \in written <=> y \in lhss \/ \E z \in lhss : <<z, y>> \in references(g)
  BY <1>1, <1>3, WriteClosures
<1>5. \A y : y \in killed =>
        n \in Names /\ lhss = {n} /\ x = n /\ (y = n \/ <<n, y>> \in g.definite)
  <2>1. \A y : y \in killed => Killable(lhss) /\ (y \in lhss \/ \E z \in lhss : <<z, y>> \in g.definite)
    BY <1>1, <1>3, WriteClosures
  <2> HIDE DEF killed
  <2>2. ASSUME Killable(lhss) PROVE n \in Names /\ lhss = {n} /\ x = n
    <3>1. n # Unknown
      BY <1>1, <2>2, IndicesShape
    <3> QED BY <1>1, <3>1, IndicesShape
  <2> HIDE DEF lhss
  <2> QED BY <2>1, <2>2
<1> HIDE DEF killed
<1>6. (n \in Names /\ n # Unknown /\ lhss = {n} /\ x = n) \/ (Names \subseteq fields(g) /\ lhss = fields(g))
  BY <1>1, IndicesShape DEF WellFormed, Names
<1>7. \A y \in fields(g) : \A b \in Values :
        Allows(g.cells[y], b) \/ Allows(a, b) => Allows(Meet(g.cells[y], a), b)
  BY <1>1, GraphShape, MeetCovers
<1>8. Unknown \notin killed
  <2>1. Unknown \notin Names
    BY DEF Names
  <2>2. \A y : <<n, y>> \in g.definite => y \in Names
    BY DEF WellFormed
  <2> QED BY <1>5, <2>1, <2>2
<1>9. \A y \in Names : v[y] \in Values /\ Allows(Cell(g, y), v[y])
  BY DEF Sound
<1>10. \A y \in Names : <<x, y>> \in al /\ y # x => y \in fields(g) /\ x \in fields(g) /\ <<x, y>> \in references(g)
  BY <1>3, AliasedExist
<1>11. Unknown \in fields(g)
  BY <1>1, GraphShape
<1> HIDE DEF h, lhss, written
<1>12. ASSUME NEW y \in Names PROVE Allows(Cell(h, y), u[y])
  <2>1. CASE <<x, y>> \in al
    <3>1. y \in fields(h) /\ (y \in written \/ y \notin fields(g))
      <4>1. CASE y = x
        BY <1>2, <1>4, <1>6, <4>1, <1>3
      <4>2. CASE y # x
        BY <1>2, <1>4, <1>6, <1>10, <2>1, <4>2
      <4> QED BY <4>1, <4>2
    <3>2. u[y] = w /\ Cell(h, y) = h.cells[y]
      BY <2>1, <3>1 DEF Cell, IndexOf
    <3> QED BY <1>2, <1>7, <3>1, <3>2
  <2>2. CASE <<x, y>> \notin al
    <3>1. u[y] = v[y]
      BY <2>2
    <3>2. y \notin killed
      BY <1>3, <1>5, <2>2 DEF Sound, Equivalence
    <3>3. CASE y \in fields(g)
      <4>1. Cell(h, y) = h.cells[y] /\ Cell(g, y) = g.cells[y] /\ y \in fields(h)
        BY <1>2, <3>3 DEF Cell, IndexOf
      <4> QED BY <1>2, <1>7, <1>9, <3>1, <3>2, <3>3, <4>1
    <3>4. CASE y \notin fields(g)
      <4>1. y \notin fields(h)
        BY <1>2, <1>3, <1>6, <2>2, <3>4 DEF Equivalence
      <4>2. Cell(h, y) = h.cells[Unknown] /\ Cell(g, y) = g.cells[Unknown] /\ Unknown \in fields(h)
        BY <1>2, <1>11, <3>4, <4>1 DEF Cell, IndexOf
      <4> QED BY <1>2, <1>7, <1>8, <1>9, <1>11, <3>1, <4>2
    <3> QED BY <3>3, <3>4
  <2> QED BY <2>1, <2>2
<1>13. ASSUME NEW y \in Names, NEW z \in Names, y # z
       PROVE  /\ <<y, z>> \in al => <<IndexOf(h, y), IndexOf(h, z)>> \in references(h)
              /\ <<y, z>> \in h.definite => <<y, z>> \in al
  <2>1. <<y, z>> \in al => y \in fields(g) /\ z \in fields(g) /\ <<y, z>> \in references(g)
    BY <1>13, AliasedExist
  <2>2. <<y, z>> \in h.definite => <<y, z>> \in al
    BY <1>2, <1>13 DEF Sound
  <2> QED BY <1>2, <2>1, <2>2 DEF IndexOf, references
<1> HIDE DEF u
<1>14. Sound(h, al, u)
  BY <1>12, <1>13 DEF Sound
<1> QED BY <1>14 DEF h, u

-----------------------------------------------------------------------------
(* A killable field is removed. *)
LEMMA WithoutShape ==
  ASSUME NEW E \in SUBSET (Vars \X Vars), NEW x
  PROVE  /\ Without(E, x) \in SUBSET E
         /\ \A y, z : <<y, z>> \in Without(E, x) <=> <<y, z>> \in E /\ y # x /\ z # x
<1>1. \A e \in E : e = <<e[1], e[2]>>
  OBVIOUS
<1> QED BY <1>1 DEF Without

LEMMA RemoveFieldShape ==
  ASSUME NEW g \in Graph, NEW n \in Names
  PROVE  LET h == RemoveField(g, n) IN
         /\ h \in Graph
         /\ fields(h) = fields(g) \ {n}
         /\ \A y \in fields(h) : h.cells[y] = g.cells[y]
         /\ \A y, z : /\ <<y, z>> \in h.possible <=> <<y, z>> \in g.possible /\ y # n /\ z # n
                      /\ <<y, z>> \in h.definite <=> <<y, z>> \in g.definite /\ y # n /\ z # n
                      /\ <<y, z>> \in references(h) <=> <<y, z>> \in references(g) /\ y # n /\ z # n
<1> DEFINE c == [y \in fields(g) \ {n} |-> g.cells[y]]
           P == Without(g.possible, n)
           Q == Without(g.definite, n)
           h == RemoveField(g, n)
<1>1. h = [cells |-> c, possible |-> P, definite |-> Q]
  BY DEF RemoveField
<1>2. g.possible \in SUBSET (Vars \X Vars) /\ g.definite \in SUBSET (Vars \X Vars)
  BY GraphShape
<1>3. /\ P \in SUBSET g.possible /\ Q \in SUBSET g.definite
      /\ \A y, z : <<y, z>> \in P <=> <<y, z>> \in g.possible /\ y # n /\ z # n
      /\ \A y, z : <<y, z>> \in Q <=> <<y, z>> \in g.definite /\ y # n /\ z # n
  BY <1>2, WithoutShape
<1>4. c \in [fields(g) \ {n} -> Absval]
  BY GraphShape
<1> HIDE DEF P, Q
<1>5. h \in Graph
  <2>1. fields(g) \ {n} \in SUBSET Vars /\ Unknown \in fields(g) \ {n}
    BY GraphShape DEF Names
  <2>2. \A y, z : <<y, z>> \in P \cup Q => y # z /\ y \in fields(g) \ {n} /\ z \in fields(g) \ {n}
    BY <1>3, GraphShape DEF references
  <2>3. P \cap Q = {} /\ P \subseteq Vars \X Vars /\ Q \subseteq Vars \X Vars
    BY <1>2, <1>3, GraphShape
  <2>4. (\A y, z : <<y, z>> \in P => <<z, y>> \in P) /\ (\A y, z : <<y, z>> \in Q => <<z, y>> \in Q)
    BY <1>3, GraphShape
  <2> HIDE DEF c
  <2>5. [cells |-> c, possible |-> P, definite |-> Q] \in Graph
    BY <1>4, <2>1, <2>2, <2>3, <2>4, MakeGraph
  <2> QED BY <1>1, <2>5
<1>6. h.cells = c /\ h.possible = P /\ h.definite = Q /\ fields(h) = fields(g) \ {n}
  BY <1>1 DEF fields
<1>7. \A y, z : <<y, z>> \in references(h) <=> <<y, z>> \in references(g) /\ y # n /\ z # n
  BY <1>3, <1>6 DEF references
<1> HIDE DEF h
<1>8. \A y \in fields(h) : h.cells[y] = g.cells[y]
  BY <1>6
<1> QED BY <1>3, <1>5, <1>6, <1>7, <1>8 DEF h

(* unset: the variable is NULL, and a reference to nothing. *)
LEMMA UnsetSound ==
  ASSUME NEW g, WellFormed(g), NEW n \in Vars, n # Unknown,
         NamesItsTargets(program), Untouched(g)
  PROVE  /\ WellFormed(Unset(g, n))
         /\ \A al, v : Equivalence(al) /\ Sound(g, al, v) /\ (\A y \in Names : v[y] \in Values) =>
              Sound(Unset(g, n), Without(al, n) \cup {<<n, n>>},
                    [p \in Names |-> IF p = n THEN Null ELSE v[p]])
<1> DEFINE h == Unset(g, n)
<1>1. g \in Graph /\ n \in Names /\ Unknown \in fields(g) /\ Null \in Values
  BY GraphShape, ValueAssumption DEF WellFormed, Names
<1>2. NamedIndices(g, n) = {n} /\ (Killable(NamedIndices(g, n)) <=> ~program.flow_insensitive)
  BY <1>1, IndicesShape
<1>3. Literal(Null) \in Absval /\ Allows(Literal(Null), Null)
  BY <1>1, LiteralCell
<1>4. \A y \in Names : y \notin fields(g) => Cell(g, y) = g.cells[Unknown]
  BY DEF Cell, IndexOf
<1>5. CASE program.flow_insensitive
  <2>1. h = Write(g, n, Literal(Null))
    BY <1>2, <1>5 DEF Unset
  <2>2. WellFormed(h)
    BY <1>3, <2>1, WriteWellFormed
  <2> DEFINE written == Closure(references(g), {n})
  <2>3. /\ h.possible = g.possible /\ h.definite = g.definite /\ fields(h) = fields(g) \cup {n}
        /\ \A y \in fields(h) : h.cells[y] =
             IF y \notin fields(g) THEN Literal(Null)
             ELSE IF y \in written THEN Meet(g.cells[y], Literal(Null))
             ELSE g.cells[y]
    BY <1>2, <1>5, <2>1 DEF Write, fields
  <2>4. n \in written
    BY DEF Closure
  <2> HIDE DEF written, h
  <2>5. \A y \in fields(g) : \A b \in Values :
          Allows(g.cells[y], b) \/ Allows(Literal(Null), b) => Allows(Meet(g.cells[y], Literal(Null)), b)
    BY <1>1, <1>3, GraphShape, MeetCovers
  <2>6. ASSUME NEW al, NEW v, Equivalence(al), Sound(g, al, v),
               \A y \in Names : v[y] \in Values
        PROVE  Sound(h, Without(al, n) \cup {<<n, n>>}, [p \in Names |-> IF p = n THEN Null ELSE v[p]])
    <3> DEFINE u == [p \in Names |-> IF p = n THEN Null ELSE v[p]]
               bl == Without(al, n) \cup {<<n, n>>}
    <3>1. ASSUME NEW y \in Names PROVE Allows(Cell(h, y), u[y])
      <4>1. CASE y = n
        <5>1. Cell(h, y) = h.cells[n] /\ u[y] = Null
          BY <2>3, <4>1 DEF Cell, IndexOf
        <5> QED BY <1>1, <1>3, <2>3, <2>4, <2>5, <5>1
      <4>2. CASE y # n
        <5>1. u[y] = v[y] /\ v[y] \in Values /\ Allows(Cell(g, y), v[y])
          BY <2>6, <4>2 DEF Sound
        <5>2. IndexOf(h, y) = IndexOf(g, y) /\ IndexOf(g, y) \in fields(g) /\ IndexOf(g, y) \in fields(h)
          BY <1>1, <2>3, <4>2 DEF IndexOf
        <5> QED BY <2>3, <2>5, <5>1, <5>2 DEF Cell
      <4> QED BY <4>1, <4>2
    <3>2. ASSUME NEW y \in Names, NEW z \in Names, y # z
          PROVE  /\ <<y, z>> \in bl => <<IndexOf(h, y), IndexOf(h, z)>> \in references(h)
                 /\ <<y, z>> \in h.definite => <<y, z>> \in bl
      <4>1. <<y, z>> \in bl => <<y, z>> \in al
        BY <3>2 DEF Without
      <4>2. <<y, z>> \in al => y \in fields(g) /\ z \in fields(g) /\ <<y, z>> \in references(g)
        BY <2>6, <3>2, AliasedExist
      <4>3. h.definite = {}
        BY <1>5, <2>3 DEF WellFormed
      <4> QED BY <2>3, <4>1, <4>2, <4>3 DEF IndexOf, references
    <3> HIDE DEF u, bl
    <3>3. Sound(h, bl, u)
      BY <3>1, <3>2 DEF Sound
    <3> QED BY <3>3 DEF u, bl
  <2> QED BY <2>2, <2>6 DEF h
<1>6. CASE ~program.flow_insensitive
  <2>1. h = RemoveField(g, n)
    BY <1>2, <1>6 DEF Unset
  <2> HIDE DEF h
  <2>2. /\ h \in Graph /\ fields(h) = fields(g) \ {n}
        /\ \A y \in fields(h) : h.cells[y] = g.cells[y]
        /\ \A y, z : /\ <<y, z>> \in h.definite <=> <<y, z>> \in g.definite /\ y # n /\ z # n
                     /\ <<y, z>> \in references(h) <=> <<y, z>> \in references(g) /\ y # n /\ z # n
    BY <1>1, <2>1, RemoveFieldShape
  <2>3. Unknown # n /\ g.definite \in SUBSET (Names \X Names) /\ h.definite \in SUBSET (Vars \X Vars)
    BY <1>1, <2>2, GraphShape DEF Names, WellFormed
  <2>4. h.definite \subseteq Names \X Names
    <3>1. \A e \in h.definite : e = <<e[1], e[2]>>
      BY <2>3
    <3> QED BY <2>2, <2>3, <3>1
  <2>5. CASE Untouched(g)
    <3>1. Untouched(h)
      BY <1>1, <2>2, <2>3, <2>5 DEF Untouched
    <3>2. WellFormed(h)
      BY <1>6, <2>2, <2>4, <3>1 DEF WellFormed
    <3>3. ASSUME NEW al, NEW v, Equivalence(al), Sound(g, al, v)
          PROVE  Sound(h, Without(al, n) \cup {<<n, n>>}, [p \in Names |-> IF p = n THEN Null ELSE v[p]])
      <4> DEFINE u == [p \in Names |-> IF p = n THEN Null ELSE v[p]]
                 bl == Without(al, n) \cup {<<n, n>>}
      <4>1. ASSUME NEW y \in Names PROVE Allows(Cell(h, y), u[y])
        <5>1. CASE y = n
          BY <1>1, <1>3, <2>2, <2>3, <2>5, <5>1 DEF Cell, IndexOf, Untouched
        <5>2. CASE y # n
          <6>1. u[y] = v[y] /\ Allows(Cell(g, y), v[y])
            BY <3>3, <5>2 DEF Sound
          <6>2. IndexOf(h, y) = IndexOf(g, y) /\ IndexOf(h, y) \in fields(h)
            BY <1>1, <2>2, <2>3, <5>2 DEF IndexOf
          <6> QED BY <2>2, <6>1, <6>2 DEF Cell
        <5> QED BY <5>1, <5>2
      <4>2. ASSUME NEW y \in Names, NEW z \in Names, y # z
            PROVE  /\ <<y, z>> \in bl => <<IndexOf(h, y), IndexOf(h, z)>> \in references(h)
                   /\ <<y, z>> \in h.definite => <<y, z>> \in bl
        <5>1. <<y, z>> \in bl <=> <<y, z>> \in al /\ y # n /\ z # n
          BY <4>2 DEF Without
        <5>2. <<y, z>> \in al => y \in fields(g) /\ z \in fields(g) /\ <<y, z>> \in references(g)
          BY <3>3, <4>2, AliasedExist
        <5>3. <<y, z>> \in g.definite => <<y, z>> \in al
          BY <3>3, <4>2 DEF Sound
        <5> QED BY <2>2, <5>1, <5>2, <5>3 DEF IndexOf
      <4> HIDE DEF u, bl
      <4>3. Sound(h, bl, u)
        BY <4>1, <4>2 DEF Sound
      <4> QED BY <4>3 DEF u, bl
    <3> QED BY <3>2, <3>3 DEF h
  <2> QED BY <2>5
<1> QED BY <1>5, <1>6

-----------------------------------------------------------------------------
(* The right-hand sides of a reference are created with what UNKNOWN says. *)
LEMMA CreateShape ==
  ASSUME NEW g \in Graph, NEW I \in SUBSET Vars
  PROVE  LET h == CreateFields(g, I) IN
         /\ h \in Graph
         /\ fields(h) = fields(g) \cup I
         /\ h.possible = g.possible /\ h.definite = g.definite /\ references(h) = references(g)
         /\ \A y \in Vars : Cell(h, y) = Cell(g, y)
         /\ \A y \in fields(h) : h.cells[y] = Cell(g, y)
<1> DEFINE c == [x \in fields(g) \cup I |-> Cell(g, x)]
           h == CreateFields(g, I)
<1>1. h = [cells |-> c, possible |-> g.possible, definite |-> g.definite]
  BY DEF CreateFields
<1>2. c \in [fields(g) \cup I -> Absval]
  BY GraphShape
<1>3. h \in Graph
  <2>1. fields(g) \cup I \in SUBSET Vars /\ Unknown \in fields(g) \cup I
    BY GraphShape
  <2>2. \A x, y : <<x, y>> \in g.possible \cup g.definite =>
          x # y /\ x \in fields(g) \cup I /\ y \in fields(g) \cup I
    BY GraphShape DEF references
  <2>3. /\ g.possible \cap g.definite = {}
        /\ g.possible \subseteq Vars \X Vars /\ g.definite \subseteq Vars \X Vars
        /\ \A x, y : <<x, y>> \in g.possible => <<y, x>> \in g.possible
        /\ \A x, y : <<x, y>> \in g.definite => <<y, x>> \in g.definite
    BY GraphShape
  <2> HIDE DEF c
  <2>4. [cells |-> c, possible |-> g.possible, definite |-> g.definite] \in Graph
    BY <1>2, <2>1, <2>2, <2>3, MakeGraph
  <2> QED BY <1>1, <2>4
<1>4. h.cells = c /\ h.possible = g.possible /\ h.definite = g.definite /\ fields(h) = fields(g) \cup I
  BY <1>1 DEF fields
<1> HIDE DEF h
<1>5. \A y \in fields(h) : h.cells[y] = Cell(g, y)
  BY <1>4
<1>6. \A y \in Vars : Cell(h, y) = Cell(g, y)
  BY <1>4, <1>5, GraphShape DEF Cell, IndexOf
<1> QED BY <1>3, <1>4, <1>5, <1>6 DEF h, references

LEMMA CreateSound ==
  ASSUME NEW g, WellFormed(g), NEW r \in Vars, NamesItsTargets(program) => r # Unknown
  PROVE  LET h == CreateFields(g, NamedIndices(g, r)) IN
         /\ WellFormed(h)
         /\ \A al, v : Equivalence(al) /\ Sound(g, al, v) => Sound(h, al, v)
         /\ NamedIndices(g, r) \subseteq fields(h)
<1> DEFINE I == NamedIndices(g, r)
           h == CreateFields(g, I)
<1>1. g \in Graph /\ I \in SUBSET Vars
  BY IndicesShape DEF WellFormed
<1>2. /\ h \in Graph
      /\ fields(h) = fields(g) \cup I
      /\ h.possible = g.possible /\ h.definite = g.definite /\ references(h) = references(g)
      /\ \A y \in Vars : Cell(h, y) = Cell(g, y)
      /\ \A y \in fields(h) : h.cells[y] = Cell(g, y)
  BY <1>1, CreateShape
<1>3. Unknown \in fields(g) /\ Cell(g, Unknown) = g.cells[Unknown]
  BY <1>1, GraphShape DEF Cell, IndexOf
<1> HIDE DEF h, I
<1>4. WellFormed(h)
  BY <1>2, <1>3 DEF WellFormed, Untouched
<1>5. ASSUME NEW al, NEW v, Equivalence(al), Sound(g, al, v)
      PROVE  Sound(h, al, v)
  <2>1. \A x \in Names : Allows(Cell(h, x), v[x])
    BY <1>2, <1>5 DEF Sound, Names
  <2>2. ASSUME NEW x \in Names, NEW y \in Names, x # y
        PROVE  /\ <<x, y>> \in al => <<IndexOf(h, x), IndexOf(h, y)>> \in references(h)
               /\ <<x, y>> \in h.definite => <<x, y>> \in al
    <3>1. <<x, y>> \in al => x \in fields(g) /\ y \in fields(g) /\ <<x, y>> \in references(g)
      BY <1>5, <2>2, AliasedExist
    <3>2. <<x, y>> \in g.definite => <<x, y>> \in al
      BY <1>5, <2>2 DEF Sound
    <3> QED BY <1>2, <3>1, <3>2 DEF IndexOf
  <2> QED BY <2>1, <2>2 DEF Sound
<1> QED BY <1>2, <1>4, <1>5 DEF h, I

(* The names after a reference: what is said of x is what was said of y. *)
LEMMA RenamedEquivalence ==
  ASSUME NEW al, Equivalence(al), NEW x \in Names, NEW y \in Names
  PROVE  LET bl == {e \in Names \X Names : <<Rename(x, y, e[1]), Rename(x, y, e[2])>> \in al}
         IN /\ \A p, q \in Names : <<p, q>> \in bl <=> <<Rename(x, y, p), Rename(x, y, q)>> \in al
            /\ Equivalence(bl)
<1> DEFINE bl == {e \in Names \X Names : <<Rename(x, y, e[1]), Rename(x, y, e[2])>> \in al}
<1>1. \A p, q \in Names : <<p, q>> \in bl <=> <<Rename(x, y, p), Rename(x, y, q)>> \in al
  OBVIOUS
<1>2. \A p \in Names : Rename(x, y, p) \in Names
  BY DEF Rename
<1> HIDE DEF bl
<1>3. Equivalence(bl)
  BY <1>1, <1>2 DEF Equivalence
<1> QED BY <1>1, <1>3 DEF bl

-----------------------------------------------------------------------------
(* What assign_path_by_ref knows through fake: the nodes it refers to, and *)
(* those it refers to for certain.                                         *)
FakeOK(g, def, all) ==
  /\ all \subseteq fields(g)
  /\ def \subseteq all \cap Names
  /\ NamesItsTargets(program) /\ Untouched(g) => Unknown \notin all

(* The graph after a killable variable became a reference. *)
LEMMA BindShape ==
  ASSUME NEW g, WellFormed(g), NEW x \in Names, NEW def, NEW all, FakeOK(g, def, all),
         NEW a \in Absval
  PROVE  LET h == Bind(g, x, def, all, a) IN
         /\ h \in Graph
         /\ fields(h) = fields(g) \cup {x}
         /\ \A y \in fields(h) : h.cells[y] = IF y = x THEN a ELSE g.cells[y]
         /\ \A y, z : <<y, z>> \in h.definite <=>
              \/ <<y, z>> \in g.definite /\ y # x /\ z # x
              \/ y = x /\ z \in def \ {x}
              \/ z = x /\ y \in def \ {x}
         /\ \A y, z : <<y, z>> \in references(h) <=>
              \/ <<y, z>> \in references(g) /\ y # x /\ z # x
              \/ y = x /\ z \in all \ {x}
              \/ z = x /\ y \in all \ {x}
<1> DEFINE k == RemoveField(g, x)
           c == Assign(k.cells, x, a)
           B == Both({x}, all \ (def \cup {x}))
           D == Both({x}, def \ {x})
           P == k.possible \cup B
           Q == k.definite \cup D
           h == Bind(g, x, def, all, a)
<1>1. g \in Graph
  BY DEF WellFormed
<1>2. h = [cells |-> c, definite |-> Q, possible |-> P]
  BY DEF Bind
<1>3. /\ k \in Graph
      /\ fields(k) = fields(g) \ {x}
      /\ \A y \in fields(k) : k.cells[y] = g.cells[y]
      /\ \A y, z : /\ <<y, z>> \in k.possible <=> <<y, z>> \in g.possible /\ y # x /\ z # x
                   /\ <<y, z>> \in k.definite <=> <<y, z>> \in g.definite /\ y # x /\ z # x
                   /\ <<y, z>> \in references(k) <=> <<y, z>> \in references(g) /\ y # x /\ z # x
  BY <1>1, RemoveFieldShape
<1> HIDE DEF k
<1>a. \A y, z : <<y, z>> \in B <=>
        (y = x /\ z \in all \ (def \cup {x})) \/ (z = x /\ y \in all \ (def \cup {x}))
  BY DEF Both
<1>b. \A y, z : <<y, z>> \in D <=> (y = x /\ z \in def \ {x}) \/ (z = x /\ y \in def \ {x})
  BY DEF Both
<1>c. \A e \in B \cup D : \E y, z : e = <<y, z>>
  BY DEF Both
<1> HIDE DEF B, D
<1>4. \A y, z : <<y, z>> \in P <=>
        \/ <<y, z>> \in g.possible /\ y # x /\ z # x
        \/ y = x /\ z \in all \ (def \cup {x})
        \/ z = x /\ y \in all \ (def \cup {x})
  BY <1>3, <1>a
<1>5. \A y, z : <<y, z>> \in Q <=>
        \/ <<y, z>> \in g.definite /\ y # x /\ z # x
        \/ y = x /\ z \in def \ {x}
        \/ z = x /\ y \in def \ {x}
  BY <1>3, <1>b
<1>6. /\ def \subseteq all /\ all \subseteq fields(g) /\ fields(g) \subseteq Vars
      /\ x \in Vars /\ Unknown \in fields(g) /\ x # Unknown
  BY <1>1, GraphShape DEF FakeOK, Names
<1>7. P \subseteq Vars \X Vars /\ Q \subseteq Vars \X Vars
  <2>1. k.possible \in SUBSET (Vars \X Vars) /\ k.definite \in SUBSET (Vars \X Vars)
    BY <1>3, GraphShape
  <2>2. \A e \in B \cup D : e \in Vars \X Vars
    BY <1>6, <1>a, <1>b, <1>c
  <2> QED BY <2>1, <2>2
<1>8. c \in [fields(g) \cup {x} -> Absval] /\ DOMAIN c = fields(g) \cup {x}
  <2>1. DOMAIN k.cells = fields(g) \ {x} /\ \A y \in fields(g) \ {x} : k.cells[y] \in Absval
    BY <1>3, GraphShape DEF fields
  <2> QED BY <2>1 DEF Assign
<1>9. \A y \in fields(g) \cup {x} : c[y] = IF y = x THEN a ELSE g.cells[y]
  BY <1>3 DEF Assign, fields
<1> HIDE DEF c, P, Q
<1>10. h \in Graph
  <2>1. fields(g) \cup {x} \in SUBSET Vars /\ Unknown \in fields(g) \cup {x}
    BY <1>6
  <2>2. \A y, z : <<y, z>> \in P \cup Q => y # z /\ y \in fields(g) \cup {x} /\ z \in fields(g) \cup {x}
    <3>1. \A y, z : <<y, z>> \in g.possible \/ <<y, z>> \in g.definite =>
            y # z /\ y \in fields(g) /\ z \in fields(g)
      BY <1>1, GraphShape DEF references
    <3> QED BY <1>4, <1>5, <1>6, <3>1
  <2>3. P \cap Q = {}
    <3>1. \A e \in P : e = <<e[1], e[2]>>
      BY <1>7
    <3>2. \A y, z : ~(<<y, z>> \in P /\ <<y, z>> \in Q)
      BY <1>1, <1>4, <1>5, GraphShape
    <3> QED BY <3>1, <3>2
  <2>4. (\A y, z : <<y, z>> \in P => <<z, y>> \in P) /\ (\A y, z : <<y, z>> \in Q => <<z, y>> \in Q)
    BY <1>1, <1>4, <1>5, GraphShape
  <2>5. [cells |-> c, possible |-> P, definite |-> Q] \in Graph
    BY <1>7, <1>8, <2>1, <2>2, <2>3, <2>4, MakeGraph
  <2> QED BY <1>2, <2>5
<1>11. h.cells = c /\ h.possible = P /\ h.definite = Q /\ fields(h) = fields(g) \cup {x}
  BY <1>2, <1>8 DEF fields
<1>12. \A y, z : <<y, z>> \in references(h) <=>
              \/ <<y, z>> \in references(g) /\ y # x /\ z # x
              \/ y = x /\ z \in all \ {x}
              \/ z = x /\ y \in all \ {x}
  BY <1>4, <1>5, <1>6, <1>11 DEF references
<1> HIDE DEF h
<1> QED BY <1>5, <1>9, <1>10, <1>11, <1>12 DEF h

LEMMA BindWellFormed ==
  ASSUME NEW g, WellFormed(g), NEW x \in Names, NEW def, NEW all, FakeOK(g, def, all),
         NEW a \in Absval, ~program.flow_insensitive
  PROVE  WellFormed(Bind(g, x, def, all, a))
<1> DEFINE h == Bind(g, x, def, all, a)
<1>1. /\ h \in Graph
      /\ fields(h) = fields(g) \cup {x}
      /\ \A y \in fields(h) : h.cells[y] = IF y = x THEN a ELSE g.cells[y]
      /\ \A y, z : <<y, z>> \in h.definite <=>
           \/ <<y, z>> \in g.definite /\ y # x /\ z # x
           \/ y = x /\ z \in def \ {x}
           \/ z = x /\ y \in def \ {x}
      /\ \A y, z : <<y, z>> \in references(h) <=>
           \/ <<y, z>> \in references(g) /\ y # x /\ z # x
           \/ y = x /\ z \in all \ {x}
           \/ z = x /\ y \in all \ {x}
  BY BindShape
<1> SUFFICES WellFormed(h)
  OBVIOUS
<1> HIDE DEF h
<1>2. h.definite \subseteq Names \X Names
  <2>1. h.definite \in SUBSET (Vars \X Vars)
    BY <1>1, GraphShape
  <2>2. \A e \in h.definite : e = <<e[1], e[2]>>
    BY <2>1
  <2>3. \A y, z : <<y, z>> \in g.definite => y \in Names /\ z \in Names
    BY DEF WellFormed
  <2>4. \A y, z : <<y, z>> \in h.definite => y \in Names /\ z \in Names
    BY <1>1, <2>3 DEF FakeOK
  <2> QED BY <2>2, <2>4
<1>3. x # Unknown /\ Unknown \in fields(g)
  BY GraphShape DEF Names, WellFormed
<1>4. CASE NamesItsTargets(program) /\ Untouched(g)
  <2>1. Untouched(h)
    BY <1>1, <1>3, <1>4 DEF Untouched, FakeOK
  <2> QED BY <1>1, <1>2, <1>4, <2>1 DEF WellFormed
<1>5. CASE KeepsVariables(program) /\ Names \subseteq fields(g)
  BY <1>1, <1>2, <1>5 DEF WellFormed
<1> QED BY <1>4, <1>5 DEF WellFormed

(* The run makes x a reference to y, which fake may refer to. *)
LEMMA BindSound ==
  ASSUME NEW g, WellFormed(g), NEW x \in Names, NEW def, NEW all, FakeOK(g, def, all),
         NEW a \in Absval,
         NEW al, Equivalence(al), NEW v, Sound(g, al, v), NEW y \in Names,
         y \in all, \A z : <<y, z>> \in references(g) => z \in all,
         \A z \in def : z = y \/ <<y, z>> \in g.definite,
         Allows(a, v[y])
  PROVE  Sound(Bind(g, x, def, all, a),
               {e \in Names \X Names : <<Rename(x, y, e[1]), Rename(x, y, e[2])>> \in al},
               [p \in Names |-> v[Rename(x, y, p)]])
<1> DEFINE h == Bind(g, x, def, all, a)
           bl == {e \in Names \X Names : <<Rename(x, y, e[1]), Rename(x, y, e[2])>> \in al}
           u == [p \in Names |-> v[Rename(x, y, p)]]
<1>1. /\ fields(h) = fields(g) \cup {x}
      /\ \A z \in fields(h) : h.cells[z] = IF z = x THEN a ELSE g.cells[z]
      /\ \A p, z : <<p, z>> \in h.definite <=>
           \/ <<p, z>> \in g.definite /\ p # x /\ z # x
           \/ p = x /\ z \in def \ {x}
           \/ z = x /\ p \in def \ {x}
      /\ \A p, z : <<p, z>> \in references(h) <=>
           \/ <<p, z>> \in references(g) /\ p # x /\ z # x
           \/ p = x /\ z \in all \ {x}
           \/ z = x /\ p \in all \ {x}
  BY BindShape
<1>2. (\A p, q \in Names : <<p, q>> \in bl <=> <<Rename(x, y, p), Rename(x, y, q)>> \in al) /\ Equivalence(bl)
  BY RenamedEquivalence
<1>3. \A p \in Names : u[p] = v[Rename(x, y, p)]
  OBVIOUS
<1>4. x # Unknown /\ Unknown \in fields(g) /\ all \subseteq fields(g)
  BY GraphShape DEF Names, WellFormed, FakeOK
<1> HIDE DEF h, bl, u
<1>5. ASSUME NEW p \in Names PROVE Allows(Cell(h, p), u[p])
  <2>1. CASE p = x
    BY <1>1, <1>3, <2>1 DEF Rename, Cell, IndexOf
  <2>2. CASE p # x
    <3>1. u[p] = v[p] /\ Allows(Cell(g, p), v[p])
      BY <1>3, <2>2 DEF Rename, Sound
    <3>2. Cell(h, p) = Cell(g, p)
      BY <1>1, <1>4, <2>2 DEF Cell, IndexOf
    <3> QED BY <3>1, <3>2
  <2> QED BY <2>1, <2>2
<1>6. \A z \in Names : <<y, z>> \in al => z \in all
  BY AliasedExist
<1>7. \A z \in def : z \in Names /\ <<y, z>> \in al
  BY DEF Sound, Equivalence, FakeOK
<1>8. ASSUME NEW p \in Names, NEW q \in Names, p # q
      PROVE  /\ <<p, q>> \in bl => <<IndexOf(h, p), IndexOf(h, q)>> \in references(h)
             /\ <<p, q>> \in h.definite => <<p, q>> \in bl
  <2>1. CASE p = x
    BY <1>1, <1>2, <1>4, <1>6, <1>7, <1>8, <2>1 DEF Rename, IndexOf
  <2>2. CASE q = x
    <3>1. <<p, q>> \in bl => p \in all
      BY <1>2, <1>6, <1>8, <2>2 DEF Rename, Equivalence
    <3>2. p \in def \ {x} => <<p, q>> \in bl
      BY <1>2, <1>7, <1>8, <2>2 DEF Rename, Equivalence
    <3> QED BY <1>1, <1>4, <1>8, <2>2, <3>1, <3>2 DEF IndexOf
  <2>3. CASE p # x /\ q # x
    <3>1. <<p, q>> \in bl <=> <<p, q>> \in al
      BY <1>2, <2>3 DEF Rename
    <3>2. <<p, q>> \in al => p \in fields(g) /\ q \in fields(g) /\ <<p, q>> \in references(g)
      BY <1>8, AliasedExist
    <3>3. <<p, q>> \in g.definite => <<p, q>> \in al
      BY <1>8 DEF Sound
    <3> QED BY <1>1, <2>3, <3>1, <3>2, <3>3 DEF IndexOf
  <2> QED BY <2>1, <2>2, <2>3
<1>9. Sound(h, bl, u)
  BY <1>5, <1>8 DEF Sound
<1> QED BY <1>9 DEF h, bl, u

-----------------------------------------------------------------------------
(* The graph after variables that are not killable may have become         *)
(* references.                                                             *)
LEMMA MayBindShape ==
  ASSUME NEW g \in Graph, NEW I \in SUBSET Vars, NEW all, all \subseteq fields(g),
         NEW a \in Absval, Both(I, I \cup all) \cap g.definite = {}
  PROVE  LET h == MayBind(g, I, all, a) IN
         /\ h \in Graph
         /\ fields(h) = fields(g) \cup I
         /\ \A y \in fields(h) : h.cells[y] =
              IF y \notin I THEN g.cells[y] ELSE IF y \in fields(g) THEN Meet(g.cells[y], a) ELSE a
         /\ h.definite = g.definite
         /\ \A y, z : <<y, z>> \in references(h) <=>
              \/ <<y, z>> \in references(g)
              \/ y # z /\ y \in I /\ z \in I \cup all
              \/ y # z /\ z \in I /\ y \in I \cup all
<1> DEFINE c == [y \in fields(g) \cup I |->
                   IF y \notin I THEN g.cells[y]
                   ELSE IF y \in fields(g) THEN Meet(g.cells[y], a) ELSE a]
           B == Both(I, I \cup all)
           P == g.possible \cup Distinct(B)
           h == MayBind(g, I, all, a)
<1>1. h = [cells |-> c, definite |-> g.definite, possible |-> P]
  BY DEF MayBind
<1>2. c \in [fields(g) \cup I -> Absval] /\ DOMAIN c = fields(g) \cup I
  BY GraphShape, MeetCovers
<1>3. \A y \in fields(g) \cup I : c[y] =
        IF y \notin I THEN g.cells[y] ELSE IF y \in fields(g) THEN Meet(g.cells[y], a) ELSE a
  OBVIOUS
<1>4. \A y, z : <<y, z>> \in B <=> (y \in I /\ z \in I \cup all) \/ (z \in I /\ y \in I \cup all)
  BY DEF Both
<1>5. fields(g) \in SUBSET Vars /\ Unknown \in fields(g)
  BY GraphShape
<1>6. B \subseteq Vars \X Vars
  BY <1>5 DEF Both
<1>7. \A e \in B : e = <<e[1], e[2]>>
  BY <1>6
<1> HIDE DEF B, c
<1>8. \A y, z : <<y, z>> \in P <=>
        \/ <<y, z>> \in g.possible
        \/ y # z /\ y \in I /\ z \in I \cup all
        \/ y # z /\ z \in I /\ y \in I \cup all
  BY <1>4 DEF Distinct
<1>9. P \subseteq Vars \X Vars /\ P \cap g.definite = {}
  BY <1>6, GraphShape DEF Distinct, B
<1> HIDE DEF P
<1>10. h \in Graph
  <2>1. fields(g) \cup I \in SUBSET Vars /\ Unknown \in fields(g) \cup I
    BY <1>5
  <2>2. \A y, z : <<y, z>> \in g.possible \/ <<y, z>> \in g.definite =>
            y # z /\ y \in fields(g) /\ z \in fields(g)
    BY GraphShape DEF references
  <2>3. \A y, z : <<y, z>> \in P \cup g.definite => y # z /\ y \in fields(g) \cup I /\ z \in fields(g) \cup I
    BY <1>8, <2>2
  <2>4. (\A y, z : <<y, z>> \in P => <<z, y>> \in P) /\ (\A y, z : <<y, z>> \in g.definite => <<z, y>> \in g.definite)
    BY <1>8, GraphShape
  <2>5. g.definite \subseteq Vars \X Vars
    BY GraphShape
  <2>6. [cells |-> c, possible |-> P, definite |-> g.definite] \in Graph
    BY <1>2, <1>9, <2>1, <2>3, <2>4, <2>5, MakeGraph
  <2> QED BY <1>1, <2>6
<1>11. h.cells = c /\ h.possible = P /\ h.definite = g.definite /\ fields(h) = fields(g) \cup I
  BY <1>1, <1>2 DEF fields
<1>12. \A y, z : <<y, z>> \in references(h) <=>
              \/ <<y, z>> \in references(g)
              \/ y # z /\ y \in I /\ z \in I \cup all
              \/ y # z /\ z \in I /\ y \in I \cup all
  BY <1>8, <1>11 DEF references
<1> HIDE DEF h
<1> QED BY <1>3, <1>10, <1>11, <1>12 DEF h

LEMMA MayBindWellFormed ==
  ASSUME NEW g, WellFormed(g), NEW I \in SUBSET Vars, NEW all, all \subseteq fields(g),
         NEW a \in Absval, Both(I, I \cup all) \cap g.definite = {},
         NamesItsTargets(program) /\ Untouched(g) => Unknown \notin I \cup all
  PROVE  WellFormed(MayBind(g, I, all, a))
<1> DEFINE h == MayBind(g, I, all, a)
<1>1. g \in Graph
  BY DEF WellFormed
<1>2. /\ h \in Graph
      /\ fields(h) = fields(g) \cup I
      /\ \A y \in fields(h) : h.cells[y] =
           IF y \notin I THEN g.cells[y] ELSE IF y \in fields(g) THEN Meet(g.cells[y], a) ELSE a
      /\ h.definite = g.definite
      /\ \A y, z : <<y, z>> \in references(h) <=>
           \/ <<y, z>> \in references(g)
           \/ y # z /\ y \in I /\ z \in I \cup all
           \/ y # z /\ z \in I /\ y \in I \cup all
  BY <1>1, MayBindShape
<1> SUFFICES WellFormed(h)
  OBVIOUS
<1> HIDE DEF h
<1>3. CASE NamesItsTargets(program) /\ Untouched(g)
  <2>1. Unknown \in fields(g) /\ Unknown \notin I \cup all
    BY <1>1, <1>3, GraphShape
  <2>2. Untouched(h)
    BY <1>2, <1>3, <2>1 DEF Untouched
  <2> QED BY <1>2, <1>3, <2>2 DEF WellFormed
<1>4. CASE KeepsVariables(program) /\ Names \subseteq fields(g)
  BY <1>2, <1>4 DEF WellFormed
<1> QED BY <1>3, <1>4 DEF WellFormed

LEMMA MayBindSound ==
  ASSUME NEW g, WellFormed(g), NEW I \in SUBSET Vars, NEW all, all \subseteq fields(g),
         NEW a \in Absval, Both(I, I \cup all) \cap g.definite = {},
         NEW al, Equivalence(al), NEW v, Sound(g, al, v), \A p \in Names : v[p] \in Values,
         NEW x \in Names, x \in I, \A p \in I : p \in fields(g) \/ p = x,
         \A q : <<x, q>> \notin g.definite,
         NEW y \in Names, y \in all, \A z : <<y, z>> \in references(g) => z \in all,
         Allows(a, v[y])
  PROVE  Sound(MayBind(g, I, all, a),
               {e \in Names \X Names : <<Rename(x, y, e[1]), Rename(x, y, e[2])>> \in al},
               [p \in Names |-> v[Rename(x, y, p)]])
<1> DEFINE h == MayBind(g, I, all, a)
           bl == {e \in Names \X Names : <<Rename(x, y, e[1]), Rename(x, y, e[2])>> \in al}
           u == [p \in Names |-> v[Rename(x, y, p)]]
<1>1. g \in Graph /\ Unknown \in fields(g)
  BY GraphShape DEF WellFormed
<1>2. /\ fields(h) = fields(g) \cup I
      /\ \A z \in fields(h) : h.cells[z] =
           IF z \notin I THEN g.cells[z] ELSE IF z \in fields(g) THEN Meet(g.cells[z], a) ELSE a
      /\ h.definite = g.definite
      /\ \A p, z : <<p, z>> \in references(h) <=>
           \/ <<p, z>> \in references(g)
           \/ p # z /\ p \in I /\ z \in I \cup all
           \/ p # z /\ z \in I /\ p \in I \cup all
  BY <1>1, MayBindShape
<1>3. (\A p, q \in Names : <<p, q>> \in bl <=> <<Rename(x, y, p), Rename(x, y, q)>> \in al) /\ Equivalence(bl)
  BY RenamedEquivalence
<1>4. \A p \in Names : u[p] = v[Rename(x, y, p)]
  OBVIOUS
<1>5. \A z \in fields(g) : \A b \in Values :
        Allows(g.cells[z], b) \/ Allows(a, b) => Allows(Meet(g.cells[z], a), b)
  BY <1>1, GraphShape, MeetCovers
<1> HIDE DEF h, bl, u
<1>6. ASSUME NEW p \in Names PROVE Allows(Cell(h, p), u[p])
  <2>1. CASE p = x
    <3>1. u[p] = v[y] /\ v[y] \in Values /\ Cell(h, p) = h.cells[x]
      BY <1>2, <1>4, <2>1 DEF Rename, Cell, IndexOf
    <3> QED BY <1>2, <1>5, <2>1, <3>1
  <2>2. CASE p # x
    <3>1. u[p] = v[p] /\ v[p] \in Values /\ Allows(Cell(g, p), v[p])
      BY <1>4, <2>2 DEF Rename, Sound
    <3>2. IndexOf(h, p) = IndexOf(g, p) /\ IndexOf(g, p) \in fields(g)
      BY <1>1, <1>2, <2>2 DEF IndexOf
    <3> QED BY <1>2, <1>5, <3>1, <3>2 DEF Cell
  <2> QED BY <2>1, <2>2
<1>7. \A z \in Names : <<y, z>> \in al => z \in all
  BY AliasedExist
<1>8. \A q : <<q, x>> \notin g.definite
  BY <1>1, GraphShape
<1>9. ASSUME NEW p \in Names, NEW q \in Names, p # q
      PROVE  /\ <<p, q>> \in bl => <<IndexOf(h, p), IndexOf(h, q)>> \in references(h)
             /\ <<p, q>> \in h.definite => <<p, q>> \in bl
  <2>1. CASE p = x
    <3>1. <<p, q>> \in bl => q \in all
      BY <1>3, <1>7, <1>9, <2>1 DEF Rename
    <3> QED BY <1>2, <1>9, <2>1, <3>1 DEF IndexOf
  <2>2. CASE q = x
    <3>1. <<p, q>> \in bl => p \in all
      BY <1>3, <1>7, <1>9, <2>2 DEF Rename, Equivalence
    <3> QED BY <1>2, <1>8, <1>9, <2>2, <3>1 DEF IndexOf
  <2>3. CASE p # x /\ q # x
    <3>1. <<p, q>> \in bl <=> <<p, q>> \in al
      BY <1>3, <2>3 DEF Rename
    <3>2. <<p, q>> \in al => p \in fields(g) /\ q \in fields(g) /\ <<p, q>> \in references(g)
      BY <1>9, AliasedExist
    <3>3. <<p, q>> \in g.definite => <<p, q>> \in al
      BY <1>9 DEF Sound
    <3> QED BY <1>2, <2>3, <3>1, <3>2, <3>3 DEF IndexOf
  <2> QED BY <2>1, <2>2, <2>3
<1>10. Sound(h, bl, u)
  BY <1>6, <1>9 DEF Sound
<1> QED BY <1>10 DEF h, bl, u

-----------------------------------------------------------------------------
(* fake stands for whichever right-hand side the run takes. *)
LEMMA FakeShape ==
  ASSUME NEW g, WellFormed(g), NEW r \in Vars, NamesItsTargets(program) => r # Unknown
  PROVE  LET I == NamedIndices(g, r)
             h == CreateFields(g, I)
             all == FakeReferences(h, I)
             def == FakeDefinite(h, I)
         IN /\ FakeOK(h, def, all)
            /\ all = FakeReferences(g, I)
            /\ CellOf(h, I) \in Absval
            /\ \A y \in Denoted(r) :
                 /\ y \in Names /\ y \in all
                 /\ \A z : <<y, z>> \in references(h) => z \in all
                 /\ \A z \in def : z = y \/ <<y, z>> \in h.definite
                 /\ \A b \in Values : Allows(Cell(h, y), b) => Allows(CellOf(h, I), b)
<1> DEFINE I == NamedIndices(g, r)
           h == CreateFields(g, I)
           all == FakeReferences(h, I)
           def == FakeDefinite(h, I)
<1>1. /\ g \in Graph /\ I \in SUBSET Vars
      /\ r # Unknown => I = {r} /\ Denoted(r) = {r} /\ r \in Names
      /\ r = Unknown => I = fields(g) /\ Denoted(r) = Names
      /\ Killable(I) => r # Unknown
  BY IndicesShape DEF WellFormed
<1>2. h \in Graph /\ WellFormed(h) /\ I \subseteq fields(h) /\ references(h) = references(g)
  BY <1>1, CreateShape, CreateSound
<1>3. all = FakeReferences(g, I)
  BY <1>2 DEF FakeReferences
<1>4. Untouched(g) => Untouched(h)
  BY <1>1, CreateShape, GraphShape DEF Untouched, Cell, IndexOf
<1>5. /\ \A y : y \in all <=> y \in I \/ \E x \in I : <<x, y>> \in references(h)
      /\ \A y : y \in Closure(h.definite, I) <=> y \in I \/ \E x \in I : <<x, y>> \in h.definite
  BY <1>1, <1>2, WriteClosures DEF FakeReferences
<1>6. \A y : y \in def => Killable(I) /\ (y \in I \/ \E x \in I : <<x, y>> \in h.definite)
  BY <1>5 DEF FakeDefinite
<1>7. r = Unknown => Names \subseteq I
  BY <1>1 DEF WellFormed
<1>8. I # {}
  <2>1. Unknown \in fields(g)
    BY <1>1, GraphShape
  <2> HIDE DEF I
  <2>2. r \in I \/ I = fields(g)
    BY <1>1
  <2> QED BY <2>1, <2>2
<1>9. /\ CellOf(h, I) \in Absval
      /\ \A y \in I : \A b \in Values : Allows(Cell(h, y), b) => Allows(CellOf(h, I), b)
  BY <1>1, <1>2, <1>8, CellOfCovers
<1>a. NamesItsTargets(program) /\ Untouched(h) => Unknown \notin I
  BY <1>1
<1> HIDE DEF I, h, all, def
<1>10. FakeOK(h, def, all)
  <2>1. all \subseteq fields(h)
    BY <1>2, <1>5, GraphShape
  <2>2. h.definite \subseteq references(h) /\ \A y, z : <<y, z>> \in h.definite => z \in Names
    BY <1>2 DEF references, WellFormed
  <2>3. def \subseteq all \cap Names
    BY <1>1, <1>5, <1>6, <2>2
  <2>4. NamesItsTargets(program) /\ Untouched(h) => Unknown \notin all
    <3>1. \A y \in I : Untouched(h) => <<y, Unknown>> \notin references(h)
      BY <1>1 DEF Untouched
    <3> QED BY <1>5, <1>a, <3>1
  <2> QED BY <2>1, <2>3, <2>4 DEF FakeOK
<1>11. ASSUME NEW y \in Denoted(r)
       PROVE  /\ y \in Names /\ y \in all
              /\ \A z : <<y, z>> \in references(h) => z \in all
              /\ \A z \in def : z = y \/ <<y, z>> \in h.definite
              /\ \A b \in Values : Allows(Cell(h, y), b) => Allows(CellOf(h, I), b)
  <2>1. y \in I /\ y \in Names
    BY <1>1, <1>7
  <2>2. Killable(I) => I = {y}
    BY <1>1
  <2> QED BY <1>5, <1>6, <1>9, <2>1, <2>2
<1> QED BY <1>3, <1>9, <1>10, <1>11 DEF I, h, all, def

LEMMA ReferSound ==
  ASSUME NEW g, WellFormed(g), NEW l \in Vars, NEW r \in Vars,
         NamesItsTargets(program) => l # Unknown /\ r # Unknown,
         ~CertaintiesClash(g, l, r)
  PROVE  /\ WellFormed(Refer(g, l, r))
         /\ \A al, v : \A x \in Denoted(l), y \in Denoted(r) :
              Equivalence(al) /\ Sound(g, al, v) /\ (\A p \in Names : v[p] \in Values) =>
                Sound(Refer(g, l, r),
                      {e \in Names \X Names : <<Rename(x, y, e[1]), Rename(x, y, e[2])>> \in al},
                      [p \in Names |-> v[Rename(x, y, p)]])
<1> DEFINE lhss == NamedIndices(g, l)
           I == NamedIndices(g, r)
           h == CreateFields(g, I)
           all == FakeReferences(h, I)
           def == FakeDefinite(h, I)
           a == CellOf(h, I)
           R == Refer(g, l, r)
<1>1. /\ g \in Graph /\ lhss \in SUBSET Vars /\ I \in SUBSET Vars
      /\ l # Unknown => lhss = {l} /\ Denoted(l) = {l} /\ l \in Names
      /\ l = Unknown => lhss = fields(g) /\ Denoted(l) = Names
      /\ Killable(lhss) <=> ~program.flow_insensitive /\ l # Unknown
  BY IndicesShape DEF WellFormed
<1>2. /\ FakeOK(h, def, all) /\ all = FakeReferences(g, I) /\ a \in Absval
      /\ \A y \in Denoted(r) :
           /\ y \in Names /\ y \in all
           /\ \A z : <<y, z>> \in references(h) => z \in all
           /\ \A z \in def : z = y \/ <<y, z>> \in h.definite
           /\ \A b \in Values : Allows(Cell(h, y), b) => Allows(a, b)
  BY FakeShape
<1>3. /\ WellFormed(h) /\ h \in Graph /\ h.definite = g.definite
      /\ fields(h) = fields(g) \cup I
      /\ \A al, v : Equivalence(al) /\ Sound(g, al, v) => Sound(h, al, v)
  BY <1>1, CreateSound, CreateShape
<1>4. R = IF Killable(lhss) THEN Bind(h, l, def, all, a) ELSE MayBind(h, lhss, all, a)
  BY DEF Refer
<1>5. ~Killable(lhss) => Both(lhss, lhss \cup all) \cap h.definite = {}
  BY <1>2, <1>3 DEF CertaintiesClash
<1>6. NamesItsTargets(program) /\ Untouched(h) => Unknown \notin lhss
  BY <1>1
<1>7. all \subseteq fields(h)
  BY <1>2 DEF FakeOK
<1> HIDE DEF lhss, I, h, all, def, a, R
<1>8. WellFormed(R)
  <2>1. CASE Killable(lhss)
    BY <1>1, <1>2, <1>3, <1>4, <2>1, BindWellFormed
  <2>2. CASE ~Killable(lhss)
    <3>1. NamesItsTargets(program) /\ Untouched(h) => Unknown \notin lhss \cup all
      BY <1>2, <1>6 DEF FakeOK
    <3> QED BY <1>1, <1>2, <1>3, <1>4, <1>5, <1>7, <2>2, <3>1, MayBindWellFormed
  <2> QED BY <2>1, <2>2
<1>9. ASSUME NEW al, NEW v, NEW x \in Denoted(l), NEW y \in Denoted(r),
             Equivalence(al), Sound(g, al, v), \A p \in Names : v[p] \in Values
      PROVE  Sound(R, {e \in Names \X Names : <<Rename(x, y, e[1]), Rename(x, y, e[2])>> \in al},
                      [p \in Names |-> v[Rename(x, y, p)]])
  <2>1. Sound(h, al, v) /\ y \in Names /\ x \in Names /\ v[y] \in Values
    BY <1>1, <1>2, <1>3, <1>9
  <2>2. Allows(a, v[y])
    BY <1>2, <2>1 DEF Sound
  <2>3. CASE Killable(lhss)
    <3>1. x = l /\ R = Bind(h, x, def, all, a)
      BY <1>1, <1>4, <2>3
    <3> QED BY <1>2, <1>3, <1>9, <2>1, <2>2, <3>1, BindSound
  <2>4. CASE ~Killable(lhss)
    <3>1. x \in lhss /\ \A p \in lhss : p \in fields(h) \/ p = x
      BY <1>1, <1>3, <2>1 DEF WellFormed
    <3>2. \A q : <<x, q>> \notin h.definite
      <4>1. CASE l # Unknown
        BY <1>1, <1>3, <2>4, <4>1 DEF WellFormed
      <4>2. CASE l = Unknown
        <5>1. \A q : <<x, q>> \in g.definite => q \in lhss
          <6>1. \A p, q : <<p, q>> \in references(g) => q \in fields(g)
            BY <1>1, GraphShape
          <6>2. g.definite \subseteq references(g)
            BY DEF references
          <6> QED BY <1>1, <4>2, <6>1, <6>2
        <5>2. \A q \in lhss : <<x, q>> \in Both(lhss, lhss \cup all)
          BY <3>1 DEF Both
        <5> QED BY <1>3, <1>5, <2>4, <5>1, <5>2
      <4> QED BY <4>1, <4>2
    <3>3. R = MayBind(h, lhss, all, a)
      BY <1>4, <2>4
    <3> QED BY <1>1, <1>2, <1>3, <1>5, <1>7, <1>9, <2>1, <2>2, <2>4, <3>1, <3>2, <3>3, MayBindSound
  <2> QED BY <2>3, <2>4
<1> QED BY <1>8, <1>9 DEF R

-----------------------------------------------------------------------------
(* An edge of either graph is one of the merge. *)
LEMMA MergeShape ==
  ASSUME NEW g \in Graph, NEW h \in Graph
  PROVE  LET m == MergeGraphs(g, h) IN
         /\ m \in Graph
         /\ fields(m) = fields(g) \cup fields(h)
         /\ \A x \in fields(m) : m.cells[x] = MeetCells({Read(g.cells, x), Read(h.cells, x)})
         /\ m.definite = g.definite \cap h.definite
         /\ references(m) = references(g) \cup references(h)
<1> DEFINE D == fields(g) \cup fields(h)
           c == [x \in D |-> MeetCells({Read(g.cells, x), Read(h.cells, x)})]
           Q == g.definite \cap h.definite
           P == (references(g) \cup references(h)) \ Q
           m == MergeGraphs(g, h)
<1>1. m = [cells |-> c, definite |-> Q, possible |-> P]
  <2>1. UNION {DOMAIN s : s \in {g.cells, h.cells}} = D
    BY DEF fields
  <2>2. \A x : {Read(s, x) : s \in {g.cells, h.cells}} = {Read(g.cells, x), Read(h.cells, x)}
    OBVIOUS
  <2>3. MeetSolutions({g.cells, h.cells}) = c
    BY <2>1, <2>2 DEF MeetSolutions
  <2> HIDE DEF c
  <2> QED BY <2>3 DEF MergeGraphs, CombineCerts
<1>2. c \in [D -> Absval]
  <2>1. g.cells \in Solution /\ h.cells \in Solution /\ D \in SUBSET Vars
    BY GraphShape DEF Graph
  <2>2. \A x \in D : Read(g.cells, x) \in Absval /\ Read(h.cells, x) \in Absval
    BY <2>1, SolutionShape
  <2>3. ASSUME NEW x \in D PROVE MeetCells({Read(g.cells, x), Read(h.cells, x)}) \in Absval
    <3> DEFINE C == {Read(g.cells, x), Read(h.cells, x)}
    <3>1. C \in SUBSET Absval /\ Read(g.cells, x) \in C
      BY <2>2, <2>3
    <3> HIDE DEF C
    <3>2. MeetCells(C) \in Absval
      BY <3>1, MeetCellsCovers
    <3> QED BY <3>2 DEF C
  <2> QED BY <2>3
<1>3. m.cells = c /\ m.definite = Q /\ m.possible = P /\ fields(m) = D
  BY <1>1 DEF fields
<1>4. m \in Graph
  <2>1. D \in SUBSET Vars /\ Unknown \in D
    BY GraphShape
  <2>2. P \cap Q = {} /\ P \subseteq Vars \X Vars /\ Q \subseteq Vars \X Vars
    BY GraphShape
  <2>3. \A x, y : <<x, y>> \in P \cup Q => x # y /\ x \in D /\ y \in D
    <3>1. P \cup Q \subseteq references(g) \cup references(h)
      BY DEF references
    <3>2. \A x, y : <<x, y>> \in references(g) => x # y /\ x \in D /\ y \in D
      BY GraphShape
    <3>3. \A x, y : <<x, y>> \in references(h) => x # y /\ x \in D /\ y \in D
      BY GraphShape
    <3> QED BY <3>1, <3>2, <3>3
  <2>4. \A x, y : <<x, y>> \in Q => <<y, x>> \in Q
    BY GraphShape
  <2>5. \A x, y : <<x, y>> \in P => <<y, x>> \in P
    <3>1. \A x, y : <<x, y>> \in references(g) => <<y, x>> \in references(g)
      BY GraphShape
    <3>2. \A x, y : <<x, y>> \in references(h) => <<y, x>> \in references(h)
      BY GraphShape
    <3> HIDE DEF Q
    <3> QED BY <2>4, <3>1, <3>2
  <2> HIDE DEF c, D, P, Q
  <2>6. [cells |-> c, possible |-> P, definite |-> Q] \in Graph
    BY <1>2, <2>1, <2>2, <2>3, <2>4, <2>5, MakeGraph
  <2> QED BY <1>1, <2>6
<1>5. references(m) = references(g) \cup references(h)
  BY <1>3 DEF references
<1> HIDE DEF m
<1> QED BY <1>3, <1>4, <1>5 DEF m

(* What held of the branch the run took still holds of the merge: a        *)
(* variable only the other branch knows of is possibly NULL, and UNKNOWN   *)
(* said NULL of it.                                                        *)
LEMMA MergeSound ==
  ASSUME NEW g, WellFormed(g), NEW h, WellFormed(h)
  PROVE  /\ WellFormed(MergeGraphs(g, h))
         /\ \A al, v : Equivalence(al) /\ Sound(g, al, v) /\ (\A x \in Names : v[x] \in Values) =>
              Sound(MergeGraphs(g, h), al, v)
<1> DEFINE m == MergeGraphs(g, h)
<1>1. /\ g \in Graph /\ h \in Graph
      /\ g.cells \in Solution /\ h.cells \in Solution
  BY DEF WellFormed, Graph
<1>2. /\ m \in Graph
      /\ fields(m) = fields(g) \cup fields(h)
      /\ \A x \in fields(m) : m.cells[x] = MeetCells({Read(g.cells, x), Read(h.cells, x)})
      /\ m.definite = g.definite \cap h.definite
      /\ references(m) = references(g) \cup references(h)
  BY <1>1, MergeShape
<1>3. \A x \in fields(m) : \A b \in Values :
        Allows(Read(g.cells, x), b) => Allows(m.cells[x], b)
  <2> TAKE x \in fields(m)
  <2> TAKE b \in Values
  <2> DEFINE C == {Read(g.cells, x), Read(h.cells, x)}
  <2>1. x \in Vars
    BY <1>2, GraphShape
  <2>2. C \in SUBSET Absval /\ Read(g.cells, x) \in C
    BY <1>1, <2>1, SolutionShape
  <2>3. m.cells[x] = MeetCells(C)
    BY <1>2
  <2> HIDE DEF C, m
  <2> QED BY <2>2, <2>3, MeetCellsCovers
<1>4. Unknown \in fields(g) /\ Unknown \in fields(h)
  BY <1>1, GraphShape
<1> SUFFICES /\ WellFormed(m)
             /\ \A al, v : Equivalence(al) /\ Sound(g, al, v) /\ (\A x \in Names : v[x] \in Values) =>
                  Sound(m, al, v)
  OBVIOUS
<1> HIDE DEF m
<1>5. WellFormed(m)
  <2>1. CASE NamesItsTargets(program) /\ Untouched(g) /\ Untouched(h)
    <3>1. Read(g.cells, Unknown) = Literal(Null) /\ Read(h.cells, Unknown) = Literal(Null)
      BY <2>1 DEF Read, Untouched
    <3>2. m.cells[Unknown] = Literal(Null)
      <4>1. m.cells[Unknown] = MeetCells({Read(g.cells, Unknown), Read(h.cells, Unknown)})
        BY <1>2, <1>4
      <4>2. {Read(g.cells, Unknown), Read(h.cells, Unknown)} = {Literal(Null)}
        BY <3>1
      <4>3. MeetCells({Literal(Null)}) = Literal(Null)
        BY LiteralCell, MeetCellsOne, ValueAssumption
      <4> QED BY <4>1, <4>2, <4>3
    <3>3. Untouched(m)
      BY <1>2, <2>1, <3>2 DEF Untouched
    <3> QED BY <1>2, <2>1, <3>3 DEF WellFormed
  <2>2. CASE KeepsVariables(program) /\ (Names \subseteq fields(g) \/ Names \subseteq fields(h))
    BY <1>2, <2>2 DEF WellFormed
  <2> QED BY <2>1, <2>2 DEF WellFormed
<1>6. ASSUME NEW al, NEW v, Equivalence(al), Sound(g, al, v), \A x \in Names : v[x] \in Values
      PROVE  Sound(m, al, v)
  <2>1. ASSUME NEW x \in Names PROVE Allows(Cell(m, x), v[x])
    <3>1. Allows(Cell(g, x), v[x]) /\ v[x] \in Values
      BY <1>6 DEF Sound
    <3>2. x \in fields(g) => Cell(g, x) = Read(g.cells, x)
      BY DEF Cell, IndexOf, Read, fields
    <3>3. x \notin fields(g) => Cell(g, x) = g.cells[Unknown] /\ Read(g.cells, x) = Literal(Null)
      BY DEF Cell, IndexOf, Read, fields
    <3>4. CASE x \in fields(m)
      <4>1. x \notin fields(g) => Untouched(g)
        BY DEF WellFormed
      <4>2. Allows(Read(g.cells, x), v[x])
        BY <3>1, <3>2, <3>3, <4>1 DEF Untouched
      <4>3. Allows(m.cells[x], v[x])
        BY <1>3, <3>1, <3>4, <4>2
      <4> QED BY <3>4, <4>3 DEF Cell, IndexOf
    <3>5. CASE x \notin fields(m)
      <4>1. Cell(m, x) = m.cells[Unknown] /\ Cell(g, x) = g.cells[Unknown]
        BY <1>2, <3>3, <3>5 DEF Cell, IndexOf
      <4>2. Read(g.cells, Unknown) = g.cells[Unknown]
        BY <1>4 DEF Read, fields
      <4>3. Allows(Read(g.cells, Unknown), v[x]) /\ Unknown \in fields(m)
        BY <1>2, <1>4, <3>1, <4>1, <4>2
      <4>4. Allows(m.cells[Unknown], v[x])
        BY <1>3, <3>1, <4>3
      <4> QED BY <4>1, <4>4
    <3> QED BY <3>4, <3>5
  <2>2. ASSUME NEW x \in Names, NEW y \in Names, x # y
        PROVE  /\ <<x, y>> \in al => <<IndexOf(m, x), IndexOf(m, y)>> \in references(m)
               /\ <<x, y>> \in m.definite => <<x, y>> \in al
    <3>1. <<x, y>> \in al => x \in fields(g) /\ y \in fields(g) /\ <<x, y>> \in references(g)
      BY <1>6, <2>2, AliasedExist
    <3>2. <<x, y>> \in g.definite => <<x, y>> \in al
      BY <1>6, <2>2 DEF Sound
    <3> QED BY <1>2, <3>1, <3>2 DEF IndexOf
  <2> QED BY <2>1, <2>2 DEF Sound
<1> QED BY <1>5, <1>6

-----------------------------------------------------------------------------
LEMMA StatementShape ==
  ASSUME program \in Programs, NEW s \in program.statements
  PROVE  /\ s.op \in {"literal", "copy", "ref", "unset"} /\ s.lhs \in Vars
         /\ s.op = "literal" => s.value \in Values
         /\ s.op \in {"copy", "ref"} => s.rhs \in Vars
         /\ NamesItsTargets(program) => s.lhs # Unknown /\ (s.op = "ref" => s.rhs # Unknown)
         /\ KeepsVariables(program) => s.op # "unset"
<1>1. program.statements \in SUBSET PHPStatement
  BY ProgramsAssumption DEF Program
<1>2. s \in PHPStatement
  BY <1>1
<1> QED BY <1>2 DEF PHPStatement, NamesItsTargets, KeepsVariables

(* The cell a copy writes allows the value the run reads. *)
LEMMA CopiedCell ==
  ASSUME NEW g, WellFormed(g), NEW r \in Vars
  PROVE  /\ CellOf(g, NamedIndices(g, r)) \in Absval
         /\ \A y \in Denoted(r) : \A w \in Values :
              Allows(Cell(g, y), w) => Allows(CellOf(g, NamedIndices(g, r)), w)
<1> DEFINE I == NamedIndices(g, r)
<1>1. /\ g \in Graph /\ I \in SUBSET Vars
      /\ r # Unknown => I = {r} /\ Denoted(r) = {r}
      /\ r = Unknown => I = fields(g) /\ Denoted(r) = Names
  BY IndicesShape DEF WellFormed
<1>2. Unknown \in fields(g)
  BY <1>1, GraphShape
<1> HIDE DEF I
<1>3. I # {}
  BY <1>1, <1>2
<1>4. /\ CellOf(g, I) \in Absval
      /\ \A y \in I : \A w \in Values : Allows(Cell(g, y), w) => Allows(CellOf(g, I), w)
  BY <1>1, <1>3, CellOfCovers
<1>5. ASSUME NEW y \in Denoted(r) PROVE \E z \in I : Cell(g, z) = Cell(g, y)
  <2>1. CASE y \in I
    BY <2>1
  <2>2. CASE y \notin I
    BY <1>1, <1>2, <1>5, <2>2 DEF Cell, IndexOf
  <2> QED BY <2>1, <2>2
<1> QED BY <1>4, <1>5 DEF I

(* Whatever the run does, a statement takes a graph that is well-formed to *)
(* one that is.                                                            *)
LEMMA StatementWellFormed ==
  ASSUME program \in Programs, NEW s \in program.statements,
         NEW g, WellFormed(g), ~GivesUp(g, s)
  PROVE  WellFormed(AfterStatement(g, s))
<1>1. /\ s.op \in {"literal", "copy", "ref", "unset"} /\ s.lhs \in Vars
      /\ s.op = "literal" => s.value \in Values
      /\ s.op \in {"copy", "ref"} => s.rhs \in Vars
      /\ NamesItsTargets(program) => s.lhs # Unknown /\ (s.op = "ref" => s.rhs # Unknown)
      /\ KeepsVariables(program) => s.op # "unset"
  BY StatementShape
<1>2. CASE s.op = "literal"
  <2>1. AfterStatement(g, s) = Write(g, s.lhs, Literal(s.value))
    BY <1>2 DEF AfterStatement
  <2>2. Literal(s.value) \in Absval
    BY <1>1, <1>2, LiteralCell
  <2> QED BY <1>1, <2>1, <2>2, WriteWellFormed
<1>3. CASE s.op = "copy"
  <2>1. AfterStatement(g, s) = Write(g, s.lhs, CellOf(g, NamedIndices(g, s.rhs)))
    BY <1>3 DEF AfterStatement
  <2>2. CellOf(g, NamedIndices(g, s.rhs)) \in Absval
    BY <1>1, <1>3, CopiedCell
  <2> QED BY <1>1, <2>1, <2>2, WriteWellFormed
<1>4. CASE s.op = "ref"
  <2>1. AfterStatement(g, s) = Refer(g, s.lhs, s.rhs) /\ ~CertaintiesClash(g, s.lhs, s.rhs)
    BY <1>4 DEF AfterStatement, GivesUp
  <2> QED BY <1>1, <1>4, <2>1, ReferSound
<1>5. CASE s.op = "unset"
  <2>1. AfterStatement(g, s) = Unset(g, s.lhs)
    BY <1>5 DEF AfterStatement
  <2>2. NamesItsTargets(program) /\ Untouched(g)
    BY <1>1, <1>5 DEF WellFormed
  <2> QED BY <1>1, <2>1, <2>2, UnsetSound
<1> QED BY <1>1, <1>2, <1>3, <1>4, <1>5

(* The equivalence after an unset. *)
LEMMA ForgottenEquivalence ==
  ASSUME NEW al, al \subseteq Names \X Names, Equivalence(al), NEW x \in Names
  PROVE  /\ Without(al, x) \cup {<<x, x>>} \subseteq Names \X Names
         /\ Equivalence(Without(al, x) \cup {<<x, x>>})
<1> DEFINE bl == Without(al, x) \cup {<<x, x>>}
<1>1. \A p, q \in Names : <<p, q>> \in bl <=> (<<p, q>> \in al /\ p # x /\ q # x) \/ (p = x /\ q = x)
  BY DEF Without
<1>2. bl \subseteq Names \X Names
  BY DEF Without
<1> HIDE DEF bl
<1>3. Equivalence(bl)
  BY <1>1 DEF Equivalence
<1> QED BY <1>2, <1>3 DEF bl

(* The graph after a statement holds of the variables after it. *)
LEMMA StatementSound ==
  ASSUME program \in Programs, NEW s \in program.statements,
         WellFormed(ptg), ~GivesUp(ptg, s), Sound(ptg, alias, val), Equivalence(alias),
         alias \subseteq Names \X Names, val \in [Names -> Values], Execution(s)
  PROVE  /\ Sound(AfterStatement(ptg, s), alias', val') /\ Equivalence(alias)'
         /\ alias' \subseteq Names \X Names /\ val' \in [Names -> Values]
<1>1. /\ s.op \in {"literal", "copy", "ref", "unset"} /\ s.lhs \in Vars
      /\ s.op = "literal" => s.value \in Values
      /\ s.op \in {"copy", "ref"} => s.rhs \in Vars
      /\ NamesItsTargets(program) => s.lhs # Unknown /\ (s.op = "ref" => s.rhs # Unknown)
      /\ KeepsVariables(program) => s.op # "unset"
  BY StatementShape
<1>2. PICK x \in Denoted(s.lhs) :
        \/ s.op = "literal" /\ SetValue(x, s.value)
        \/ s.op = "copy" /\ \E y \in Denoted(s.rhs) : SetValue(x, val[y])
        \/ s.op = "ref" /\ \E y \in Denoted(s.rhs) : MakeReference(x, y)
        \/ s.op = "unset" /\ Forget(x)
  BY DEF Execution
<1>3. x \in Names /\ \A y \in Names : val[y] \in Values
  BY <1>1 DEF Denoted, Names
<1>4. CASE s.op = "literal"
  <2>1. AfterStatement(ptg, s) = Write(ptg, s.lhs, Literal(s.value))
    BY <1>4 DEF AfterStatement
  <2>2. Literal(s.value) \in Absval /\ Allows(Literal(s.value), s.value)
    BY <1>1, <1>4, LiteralCell
  <2>3. /\ val' = [y \in Names |-> IF <<x, y>> \in alias THEN s.value ELSE val[y]]
        /\ alias' = alias
    BY <1>2, <1>4 DEF SetValue
  <2>4. Sound(Write(ptg, s.lhs, Literal(s.value)), alias,
              [y \in Names |-> IF <<x, y>> \in alias THEN s.value ELSE val[y]])
    BY <1>1, <1>3, <1>4, <2>2, WriteSound
  <2>5. val' \in [Names -> Values]
    BY <1>1, <1>3, <1>4, <2>3
  <2>6. Equivalence(alias)'
    BY <2>3 DEF Equivalence
  <2> QED BY <2>1, <2>3, <2>4, <2>5, <2>6
<1>5. CASE s.op = "copy"
  <2>1. PICK y \in Denoted(s.rhs) : SetValue(x, val[y])
    BY <1>2, <1>5
  <2> DEFINE a == CellOf(ptg, NamedIndices(ptg, s.rhs))
  <2>2. y \in Names /\ val[y] \in Values /\ Allows(Cell(ptg, y), val[y])
    BY <1>1, <1>3, <1>5 DEF Denoted, Names, Sound
  <2>3. a \in Absval /\ Allows(a, val[y])
    BY <1>1, <1>5, <2>2, CopiedCell
  <2>4. AfterStatement(ptg, s) = Write(ptg, s.lhs, a)
    BY <1>5 DEF AfterStatement
  <2>5. /\ val' = [z \in Names |-> IF <<x, z>> \in alias THEN val[y] ELSE val[z]]
        /\ alias' = alias
    BY <2>1 DEF SetValue
  <2> HIDE DEF a
  <2>6. Sound(Write(ptg, s.lhs, a), alias,
              [z \in Names |-> IF <<x, z>> \in alias THEN val[y] ELSE val[z]])
    BY <1>1, <1>3, <1>5, <2>2, <2>3, WriteSound
  <2>7. val' \in [Names -> Values]
    BY <1>3, <2>2, <2>5
  <2>8. Equivalence(alias)'
    BY <2>5 DEF Equivalence
  <2> QED BY <2>4, <2>5, <2>6, <2>7, <2>8
<1>6. CASE s.op = "ref"
  <2>1. PICK y \in Denoted(s.rhs) : MakeReference(x, y)
    BY <1>2, <1>6
  <2> DEFINE bl == {e \in Names \X Names : <<Rename(x, y, e[1]), Rename(x, y, e[2])>> \in alias}
             u == [p \in Names |-> val[Rename(x, y, p)]]
  <2>2. y \in Names
    BY <1>1, <1>6 DEF Denoted, Names
  <2>3. AfterStatement(ptg, s) = Refer(ptg, s.lhs, s.rhs) /\ ~CertaintiesClash(ptg, s.lhs, s.rhs)
    BY <1>6 DEF AfterStatement, GivesUp
  <2>4. alias' = bl /\ val' = u
    BY <2>1 DEF MakeReference
  <2>5. Sound(Refer(ptg, s.lhs, s.rhs), bl, u)
    BY <1>1, <1>3, <1>6, <2>3, ReferSound
  <2>6. Equivalence(bl)
    BY <1>3, <2>2, RenamedEquivalence
  <2>7. u \in [Names -> Values] /\ bl \subseteq Names \X Names
    BY <1>3, <2>2 DEF Rename
  <2> HIDE DEF bl, u
  <2>8. Equivalence(alias)'
    BY <2>4, <2>6 DEF Equivalence
  <2> QED BY <2>3, <2>4, <2>5, <2>7, <2>8
<1>7. CASE s.op = "unset"
  <2> DEFINE bl == Without(alias, x) \cup {<<x, x>>}
             u == [p \in Names |-> IF p = x THEN Null ELSE val[p]]
  <2>1. NamesItsTargets(program) /\ Untouched(ptg) /\ s.lhs # Unknown /\ x = s.lhs
    BY <1>1, <1>7 DEF WellFormed, Denoted
  <2>2. AfterStatement(ptg, s) = Unset(ptg, x)
    BY <1>7, <2>1 DEF AfterStatement
  <2>3. alias' = bl /\ val' = u
    BY <1>2, <1>7 DEF Forget
  <2>4. Sound(Unset(ptg, x), bl, u)
    BY <1>1, <1>3, <2>1, UnsetSound
  <2>5. Equivalence(bl) /\ bl \subseteq Names \X Names
    BY <1>3, ForgottenEquivalence
  <2>6. u \in [Names -> Values]
    BY <1>3, ValueAssumption
  <2> HIDE DEF bl, u
  <2>7. Equivalence(alias)'
    BY <2>3, <2>5 DEF Equivalence
  <2> QED BY <2>2, <2>3, <2>4, <2>5, <2>6, <2>7
<1> QED BY <1>1, <1>4, <1>5, <1>6, <1>7

-----------------------------------------------------------------------------
LEMMA InitialSound ==
  ASSUME program \in Programs,
         alias = {e \in Names \X Names : e[1] = e[2]},
         val \in {m \in [Names -> Values] : \A x \in Names \ program.defined : m[x] = Null}
  PROVE  /\ WellFormed(InitialGraph(program.defined))
         /\ Sound(InitialGraph(program.defined), alias, val)
         /\ Equivalence(alias)
<1> DEFINE D == program.defined
           c == [x \in D \cup {Unknown} |-> IF x = Unknown THEN Literal(Null) ELSE Typed(Types)]
           g == InitialGraph(D)
<1>1. D \in SUBSET Names /\ Unknown \notin D /\ Unknown \in Vars /\ D \in SUBSET Vars
  BY ProgramsAssumption, UnknownAssumption DEF Program, Names
<1>2. /\ Literal(Null) \in Absval /\ Allows(Literal(Null), Null)
      /\ Typed(Types) \in Absval /\ \A w \in Values : Allows(Typed(Types), w)
  BY LiteralCell, TypedCell, ValueAssumption
<1>3. c \in [D \cup {Unknown} -> Absval]
  BY <1>2
<1>4. g = [cells |-> c, possible |-> {}, definite |-> {}]
  BY DEF InitialGraph
<1>5. g \in Graph
  <2> HIDE DEF c, D
  <2>1. [cells |-> c, possible |-> {}, definite |-> {}] \in Graph
    BY <1>1, <1>3, MakeGraph
  <2> QED BY <1>4, <2>1
<1>6. /\ g.cells = c /\ g.definite = {} /\ references(g) = {} /\ fields(g) = D \cup {Unknown}
      /\ c[Unknown] = Literal(Null) /\ \A x \in D : c[x] = Typed(Types)
  BY <1>1, <1>4 DEF references, fields
<1>7. NamesItsTargets(program) \/ (KeepsVariables(program) /\ D = Names)
  BY ProgramsAreSound DEF KeepsVariables
<1> HIDE DEF c, g
<1>8. WellFormed(g)
  BY <1>5, <1>6, <1>7 DEF WellFormed, Untouched
<1>9. ASSUME NEW x \in Names PROVE Allows(Cell(g, x), val[x])
  <2>1. CASE x \in D
    BY <1>2, <1>6, <2>1 DEF Cell, IndexOf
  <2>2. CASE x \notin D
    <3>1. Cell(g, x) = Literal(Null)
      BY <1>1, <1>6, <2>2 DEF Cell, IndexOf, Names
    <3> QED BY <1>2, <2>2, <3>1
  <2> QED BY <2>1, <2>2
<1>10. \A x, y \in Names : <<x, y>> \in alias <=> x = y
  OBVIOUS
<1>11. Sound(g, alias, val)
  BY <1>6, <1>9, <1>10 DEF Sound
<1>12. Equivalence(alias)
  BY <1>10 DEF Equivalence
<1> QED BY <1>8, <1>11, <1>12 DEF g

LEMMA InitInv == Init => IInv
<1> SUFFICES ASSUME Init PROVE IInv
  OBVIOUS
<1>1. /\ WellFormed(InitialGraph(program.defined))
      /\ Sound(InitialGraph(program.defined), alias, val)
      /\ Equivalence(alias)
  BY InitialSound DEF Init
<1>2. ptg = InitialGraph(program.defined) /\ other = ptg
  BY DEF Init
<1>3. WellFormed(ptg) /\ WellFormed(other) /\ Sound(ptg, alias, val)
  BY <1>1, <1>2
<1>4. PointsToTypeOK
  <2>1. ptg \in Graph /\ other \in Graph
    BY <1>3 DEF WellFormed
  <2>2. alias \subseteq Names \X Names /\ val \in [Names -> Values]
    BY DEF Init
  <2> QED BY <2>1, <2>2, ProgramsAreSound DEF Init, PointsToTypeOK
<1> QED BY <1>1, <1>3, <1>4 DEF IInv

LEMMA VisitInv ==
  ASSUME IInv, NEW s \in program.statements, Visit(s)
  PROVE  IInv'
<1>1. /\ pc # "exception" /\ program' = program /\ other' = other
      /\ program \in Programs /\ pc \in {"straight", "branches", "exception"}
      /\ ptg \in Graph /\ other \in Graph /\ executed' \in 0..MaxStatements
  BY ProgramsAreSound DEF Visit, IInv, PointsToTypeOK
<1>2. /\ WellFormed(ptg) /\ WellFormed(other) /\ Sound(ptg, alias, val) /\ Equivalence(alias)
      /\ alias \subseteq Names \X Names /\ val \in [Names -> Values]
  BY <1>1 DEF IInv, PointsToTypeOK
<1>3. CASE GivesUp(ptg, s)
  <2>1. pc' = "exception" /\ ptg' = ptg /\ alias' = alias /\ val' = val
    BY <1>3 DEF Visit
  <2> QED BY <1>1, <1>2, <2>1 DEF IInv, PointsToTypeOK, Equivalence
<1>4. CASE ~GivesUp(ptg, s)
  <2>1. ptg' = AfterStatement(ptg, s) /\ Execution(s) /\ pc' = pc
    BY <1>4 DEF Visit
  <2>2. WellFormed(AfterStatement(ptg, s))
    BY <1>1, <1>2, <1>4, StatementWellFormed
  <2>3. /\ Sound(AfterStatement(ptg, s), alias', val') /\ Equivalence(alias)'
        /\ alias' \subseteq Names \X Names /\ val' \in [Names -> Values]
    BY <1>1, <1>2, <1>4, <2>1, StatementSound
  <2>4. WellFormed(ptg)' /\ WellFormed(other)'
    BY <1>1, <1>2, <2>1, <2>2 DEF WellFormed
  <2>5. Sound(ptg, alias, val)'
    BY <2>1, <2>3 DEF Sound
  <2>6. PointsToTypeOK'
    BY <1>1, <2>1, <2>2, <2>3 DEF PointsToTypeOK, WellFormed
  <2> QED BY <2>3, <2>4, <2>5, <2>6 DEF IInv
<1> QED BY <1>3, <1>4

LEMMA VisitOtherInv ==
  ASSUME IInv, NEW s \in program.statements, VisitOther(s)
  PROVE  IInv'
<1>1. /\ pc = "branches" /\ program' = program /\ ptg' = ptg /\ alias' = alias /\ val' = val
      /\ executed' \in 0..MaxStatements
  BY ProgramsAreSound DEF VisitOther, IInv, PointsToTypeOK
<1>2. WellFormed(ptg) /\ WellFormed(other) /\ PointsToTypeOK
  BY <1>1 DEF IInv
<1>3. CASE GivesUp(other, s)
  <2>1. pc' = "exception" /\ other' = other
    BY <1>3 DEF VisitOther
  <2> QED BY <1>1, <2>1 DEF IInv, PointsToTypeOK, Equivalence
<1>4. CASE ~GivesUp(other, s)
  <2>1. other' = AfterStatement(other, s) /\ pc' = pc
    BY <1>4 DEF VisitOther
  <2>2. WellFormed(AfterStatement(other, s))
    BY <1>2, <1>4, StatementWellFormed DEF PointsToTypeOK
  <2>3. WellFormed(ptg)' /\ WellFormed(other)'
    BY <1>1, <1>2, <2>1, <2>2 DEF WellFormed
  <2>4. PointsToTypeOK'
    BY <1>1, <1>2, <2>1, <2>2 DEF PointsToTypeOK, WellFormed
  <2> QED BY <1>1, <2>1, <2>3, <2>4 DEF IInv, Sound, Equivalence
<1> QED BY <1>3, <1>4

LEMMA JoinInv ==
  ASSUME IInv, Join
  PROVE  IInv'
<1>1. /\ pc = "branches" /\ pc' = "straight" /\ ptg' = MergeGraphs(ptg, other) /\ other' = ptg'
      /\ program' = program /\ alias' = alias /\ val' = val /\ executed' = executed
  BY DEF Join
<1>2. /\ WellFormed(ptg) /\ WellFormed(other) /\ Sound(ptg, alias, val) /\ PointsToTypeOK
      /\ Equivalence(alias) /\ \A x \in Names : val[x] \in Values
  BY <1>1 DEF IInv, PointsToTypeOK
<1>3. WellFormed(MergeGraphs(ptg, other)) /\ Sound(MergeGraphs(ptg, other), alias, val)
  BY <1>2, MergeSound
<1>4. WellFormed(ptg)' /\ WellFormed(other)'
  BY <1>1, <1>3 DEF WellFormed
<1>5. Sound(ptg, alias, val)'
  BY <1>1, <1>3 DEF Sound
<1>6. PointsToTypeOK'
  BY <1>1, <1>2, <1>3 DEF PointsToTypeOK, WellFormed
<1> QED BY <1>1, <1>2, <1>4, <1>5, <1>6 DEF IInv, Equivalence

LEMMA StepInv == IInv /\ [Next]_vars => IInv'
<1> SUFFICES ASSUME IInv, [Next]_vars PROVE IInv'
  OBVIOUS
<1>1. CASE \E s \in program.statements : Visit(s) \/ VisitOther(s)
  BY <1>1, VisitInv, VisitOtherInv
<1>2. CASE Fork
  BY <1>2 DEF Fork, IInv, PointsToTypeOK, WellFormed, Sound, Equivalence
<1>3. CASE Join
  BY <1>3, JoinInv
<1>4. CASE UNCHANGED vars
  BY <1>4 DEF vars, IInv, PointsToTypeOK, WellFormed, Sound, Equivalence
<1> QED BY <1>1, <1>2, <1>3, <1>4 DEF Next

(* The graph of the run, and that of the branch it does not take, keep     *)
(* the properties the statements rely on.                                  *)
THEOREM Inductive == Spec => []IInv
  BY InitInv, StepInv, PTL DEF Spec

(* remove_field and the rest leave no edge to a node that is gone, no edge *)
(* in one direction only, and no edge both POSSIBLE and DEFINITE.          *)
THEOREM TypeCorrect == Spec => []PointsToTypeOK
<1>1. IInv => PointsToTypeOK
  BY DEF IInv
<1> QED BY Inductive, <1>1, PTL

(* The literals and types the transformer writes into the program hold of  *)
(* the variables of every run, whatever the statements and the branches.   *)
THEOREM RunsCovered == Spec => []ValuesCovered
<1>1. IInv => ValuesCovered
  BY DEF IInv, ValuesCovered, Sound, Allows
<1> QED BY Inductive, <1>1, PTL

(* Two references to the same value are never lost, and a DEFINITE edge,   *)
(* which lets assign_path_scalar kill what a variable held, is never wrong. *)
THEOREM ReferencesSound == Spec => []ReferencesCovered
<1>1. IInv => ReferencesCovered
  BY DEF IInv, ReferencesCovered, Sound
<1> QED BY Inductive, <1>1, PTL
=============================================================================
