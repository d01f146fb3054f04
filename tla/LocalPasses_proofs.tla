-------------------------- MODULE LocalPasses_proofs --------------------------
(***************************************************************************)
(* Proofs for the local passes, for any graphs: SSA form shows each use    *)
(* the definitions that reach it, dead code elimination leaves what others *)
(* see as it was and is heard wherever the program is, and simplified      *)
(* branches leave it as it was where they are in order.                    *)
(*                                                                         *)
(* CFG_proofs has the lemmas on graphs, on reachable blocks and on what a  *)
(* run is heard of next.                                                   *)
(***************************************************************************)
EXTENDS CFG_proofs, LocalPasses

-----------------------------------------------------------------------------
(* What a walk reaches is the least set it cannot leave.                   *)
LEMMA Reached ==
  ASSUME NEW g, NEW b, NEW A
  PROVE  /\ b \in Reach(g, b, A)
         /\ Reach(g, b, A) \subseteq {b} \cup {e.target : e \in g.edges}
         /\ \A e \in g.edges : e.source \in Reach(g, b, A) => e.target \in Reach(g, b, A) \cup A
         /\ \A a \in A : a # b => a \notin Reach(g, b, A)
<1> DEFINE There == {b} \cup {e.target : e \in g.edges}
           Closed == {S \in SUBSET There :
                        b \in S /\ \A e \in g.edges : e.source \in S => e.target \in S \cup A}
<1>1. Reach(g, b, A) = {c \in There : \A S \in Closed : c \in S}
  BY DEF Reach
<1>2. ASSUME NEW a \in A, a # b
      PROVE  There \ {a} \in Closed
  BY <1>2
<1>3. There \in Closed /\ \A S \in Closed : b \in S
  OBVIOUS
<1>4. ASSUME NEW e \in g.edges, \A S \in Closed : e.source \in S, e.target \notin A
      PROVE  e.target \in There /\ \A S \in Closed : e.target \in S
  BY <1>4
<1> HIDE DEF Closed
<1>5. /\ b \in Reach(g, b, A) /\ Reach(g, b, A) \subseteq There
      /\ \A a \in A : a # b => a \notin Reach(g, b, A)
  BY <1>1, <1>2, <1>3
<1>6. \A e \in g.edges : e.source \in Reach(g, b, A) => e.target \in Reach(g, b, A) \cup A
  BY <1>1, <1>4
<1> QED  BY <1>5, <1>6

LEMMA ReachLeast ==
  ASSUME NEW g, NEW b, NEW A, NEW S, b \in S,
         \A e \in g.edges : e.source \in S => e.target \in S \cup A
  PROVE  Reach(g, b, A) \subseteq S
<1> DEFINE There == {b} \cup {e.target : e \in g.edges}
<1>1. /\ S \cap There \in SUBSET There /\ b \in S \cap There
      /\ \A e \in g.edges : e.source \in S \cap There => e.target \in (S \cap There) \cup A
  OBVIOUS
<1> QED  BY <1>1 DEF Reach

-----------------------------------------------------------------------------
(* The graphs calculate_dominance works on: a walk from the root gets      *)
(* everywhere.                                                             *)
Rooted(g, root) ==
  /\ root \in Present(g) /\ Reach(g, root, {}) = Present(g)
  /\ \A e \in g.edges : e.source \in Present(g) /\ e.target \in Present(g)
  /\ IsFiniteSet(Present(g))

(* Each way to b leads through a. *)
Dominates(g, root, a, b) == b \in Dominated(g, root)[a]

LEMMA DominatesWhen ==
  ASSUME NEW g, NEW root, NEW a \in Present(g), NEW b \in Present(g)
  PROVE  Dominates(g, root, a, b) <=> (a = root \/ b \notin Reach(g, root, {a}))
  BY DEF Dominates, Dominated

(* Dominance is a partial order in which what dominates a block is a chain. *)
LEMMA DominatesItself ==
  ASSUME NEW g, NEW root, NEW a \in Present(g)
  PROVE  Dominates(g, root, a, a)
  BY DominatesWhen, Reached

LEMMA RootDominates ==
  ASSUME NEW g, NEW root, root \in Present(g), NEW a \in Present(g)
  PROVE  /\ Dominates(g, root, root, a)
         /\ Dominates(g, root, a, root) => a = root
  BY DominatesWhen, Reached

LEMMA DominatesOver ==
  ASSUME NEW g, NEW root, root \in Present(g), NEW a \in Present(g), NEW b \in Present(g),
         Dominates(g, root, a, b), a # root
  PROVE  b # root /\ Reach(g, root, {a}) \subseteq Reach(g, root, {b})
<1>1. b \notin Reach(g, root, {a}) /\ b # root
  BY DominatesWhen, RootDominates
<1> DEFINE S == Reach(g, root, {a}) \cap Reach(g, root, {b})
<1>2. root \in S /\ \A e \in g.edges : e.source \in S => e.target \in S \cup {a}
  BY <1>1, Reached
<1>3. Reach(g, root, {a}) \subseteq S
  <2> HIDE DEF S
  <2> QED  BY <1>2, ReachLeast
<1> QED  BY <1>1, <1>3

LEMMA DominatesTransitive ==
  ASSUME NEW g, NEW root, root \in Present(g), NEW a \in Present(g), NEW b \in Present(g),
         NEW c \in Present(g), Dominates(g, root, a, b), Dominates(g, root, b, c)
  PROVE  Dominates(g, root, a, c)
<1>1. CASE a = root
  BY <1>1, DominatesWhen
<1>2. CASE a # root
  <2>1. b # root /\ Reach(g, root, {a}) \subseteq Reach(g, root, {b})
    BY <1>2, DominatesOver
  <2> QED  BY <2>1, DominatesWhen
<1> QED  BY <1>1, <1>2

LEMMA DominatesAntisymmetric ==
  ASSUME NEW g, NEW root, Rooted(g, root), NEW a \in Present(g), NEW b \in Present(g),
         Dominates(g, root, a, b), Dominates(g, root, b, a)
  PROVE  a = b
<1>1. SUFFICES ASSUME a # b PROVE FALSE
  OBVIOUS
<1>2. root \in Present(g) /\ Reach(g, root, {}) = Present(g)
  BY DEF Rooted
<1>3. a # root /\ b # root
  BY <1>1, <1>2, RootDominates
<1> DEFINE R == Reach(g, root, {a})
<1>4. R = Reach(g, root, {b})
  BY <1>2, <1>3, DominatesOver
<1>5. root \in R /\ \A e \in g.edges : e.source \in R => e.target \in R \cup {a}
  BY Reached
<1>6. \A e \in g.edges : e.source \in R => e.target \in R \cup {b}
  BY <1>4, Reached
<1>7. a \notin R
  BY <1>3, Reached
<1> HIDE DEF R
<1>8. Reach(g, root, {}) \subseteq R
  BY <1>1, <1>5, <1>6, ReachLeast
<1> QED  BY <1>2, <1>7, <1>8

LEMMA DominatorsChain ==
  ASSUME NEW g, NEW root, Rooted(g, root), NEW a \in Present(g), NEW b \in Present(g),
         NEW c \in Present(g), Dominates(g, root, a, c), Dominates(g, root, b, c)
  PROVE  Dominates(g, root, a, b) \/ Dominates(g, root, b, a)
<1>1. SUFFICES ASSUME ~Dominates(g, root, a, b), ~Dominates(g, root, b, a) PROVE FALSE
  OBVIOUS
<1>2. root \in Present(g) /\ Reach(g, root, {}) = Present(g)
  BY DEF Rooted
<1> DEFINE R == Reach(g, root, {a})
           S == Reach(g, root, {b})
<1>3. /\ a # root /\ b # root /\ b \in R /\ a \in S /\ c \notin R /\ c \notin S
  BY <1>1, <1>2, DominatesWhen
<1>4. /\ root \in R
      /\ \A e \in g.edges : e.source \in R => e.target \in R \cup {a}
      /\ \A e \in g.edges : e.source \in S => e.target \in S \cup {b}
  BY Reached
<1> DEFINE T == R \cup S
<1>5. root \in T /\ c \notin T /\ \A e \in g.edges : e.source \in T => e.target \in T
  <2> HIDE DEF R, S
  <2> QED  BY <1>3, <1>4
<1> HIDE DEF T
<1>6. Reach(g, root, {}) \subseteq T
  BY <1>5, ReachLeast
<1> QED  BY <1>2, <1>5, <1>6

(* What dominates a block and is not the block dominates each predecessor. *)
LEMMA DominatesPredecessor ==
  ASSUME NEW g, NEW root, Rooted(g, root), NEW e \in g.edges, NEW a \in Present(g),
         Dominates(g, root, a, e.target), a # e.target
  PROVE  Dominates(g, root, a, e.source)
<1>1. e.source \in Present(g) /\ e.target \in Present(g)
  BY DEF Rooted
<1> QED  BY <1>1, DominatesWhen, Reached

(* A block other than the root is entered from a block it does not         *)
(* dominate.                                                               *)
LEMMA EnteredFromAbove ==
  ASSUME NEW g, NEW root, Rooted(g, root), NEW b \in Present(g), b # root
  PROVE  \E e \in g.edges : e.target = b /\ ~Dominates(g, root, b, e.source)
<1>1. SUFFICES ASSUME \A e \in g.edges : e.target = b => Dominates(g, root, b, e.source)
               PROVE  FALSE
  OBVIOUS
<1> DEFINE R == Reach(g, root, {b})
<1>2. /\ root \in R /\ b \notin R
      /\ \A e \in g.edges : e.source \in R => e.target \in R \cup {b}
  BY Reached
<1>3. \A e \in g.edges : e.target = b => e.source \notin R
  BY <1>1, DominatesWhen DEF Rooted
<1> HIDE DEF R
<1>4. Reach(g, root, {}) \subseteq R
  BY <1>2, <1>3, ReachLeast
<1> QED  BY <1>2, <1>4 DEF Rooted

(* The higher in the tree, the more a block dominates. *)
LEMMA DominatedFinite ==
  ASSUME NEW g, NEW root, Rooted(g, root), NEW a \in Present(g)
  PROVE  Dominated(g, root)[a] \subseteq Present(g) /\ IsFiniteSet(Dominated(g, root)[a])
<1>1. Dominated(g, root)[a] \subseteq Present(g)
  BY DEF Dominated
<1> QED  BY <1>1, FS_Subset DEF Rooted

LEMMA HigherDominatesMore ==
  ASSUME NEW g, NEW root, Rooted(g, root), NEW a \in Present(g), NEW b \in Present(g),
         Dominates(g, root, a, b), a # b
  PROVE  Cardinality(Dominated(g, root)[b]) < Cardinality(Dominated(g, root)[a])
<1> DEFINE Below(c) == Dominated(g, root)[c]
<1>1. Below(b) \subseteq Below(a)
  <2>1. SUFFICES ASSUME NEW c \in Below(b) PROVE c \in Below(a)
    OBVIOUS
  <2>2. c \in Present(g) /\ Dominates(g, root, b, c)
    BY DominatedFinite DEF Dominates
  <2> QED  BY <2>2, DominatesTransitive DEF Rooted, Dominates
<1>2. a \in Below(a) /\ a \notin Below(b)
  BY DominatesItself, DominatesAntisymmetric DEF Dominates
<1>3. IsFiniteSet(Below(a)) /\ IsFiniteSet(Below(b))
  BY DominatedFinite
<1> HIDE DEF Below
<1>4. /\ Cardinality(Below(b)) <= Cardinality(Below(a))
      /\ Cardinality(Below(b)) # Cardinality(Below(a))
      /\ Cardinality(Below(b)) \in Nat /\ Cardinality(Below(a)) \in Nat
  BY <1>1, <1>2, <1>3, FS_Subset, FS_CardinalityType
<1>5. Cardinality(Below(b)) < Cardinality(Below(a))
  BY <1>4
<1> QED  BY <1>5 DEF Below

(* Of the blocks that dominate b and are in a set, one is nearest to b. *)
LEMMA NearestDominator ==
  ASSUME NEW g, NEW root, Rooted(g, root), NEW b \in Present(g), NEW S \in SUBSET Present(g),
         S # {}, \A a \in S : Dominates(g, root, a, b)
  PROVE  \E a \in S : \A c \in S : Dominates(g, root, c, a)
<1> DEFINE size(a) == Cardinality(Dominated(g, root)[a])
           sizes == {size(a) : a \in S}
<1>1. sizes \subseteq Nat /\ sizes # {}
  BY DominatedFinite, FS_CardinalityType
<1>2. PICK n \in sizes : \A m \in sizes : n <= m
  <2> HIDE DEF sizes
  <2> QED  BY <1>1, HasFirst
<1>3. PICK a \in S : size(a) = n
  OBVIOUS
<1>4. \A c \in S : size(a) \in Nat /\ size(c) \in Nat /\ size(a) <= size(c)
  BY <1>1, <1>2, <1>3
<1>5. ASSUME NEW c \in S
      PROVE  Dominates(g, root, c, a)
  <2>1. Dominates(g, root, a, c) \/ Dominates(g, root, c, a)
    BY DominatorsChain
  <2>2. CASE Dominates(g, root, a, c) /\ a # c
    <3>1. size(c) < size(a)
      BY <2>2, HigherDominatesMore
    <3> HIDE DEF size
    <3> QED  BY <1>4, <3>1
  <2> QED  BY <2>1, <2>2, DominatesItself
<1> QED  BY <1>5

(* idominator: of the blocks above b, the one all others are above. *)
LEMMA IdominatorIs ==
  ASSUME NEW g, NEW root, Rooted(g, root), NEW b \in Present(g), b # root
  PROVE  LET a == Idominator(Dominated(g, root), b)
         IN  /\ a \in Present(g) /\ a # b /\ Dominates(g, root, a, b)
             /\ \A c \in Present(g) \ {b} :
                  Dominates(g, root, c, b) => Dominates(g, root, c, a)
<1> DEFINE D == Dominated(g, root)
           S == {c \in Present(g) \ {b} : Dominates(g, root, c, b)}
<1>1. root \in S
  BY RootDominates DEF Rooted
<1>2. PICK a \in S : \A c \in S : Dominates(g, root, c, a)
  <2>1. S \in SUBSET Present(g) /\ S # {} /\ \A c \in S : Dominates(g, root, c, b)
    BY <1>1
  <2> HIDE DEF S
  <2> QED  BY <2>1, NearestDominator
<1>3. DOMAIN D = Present(g)
  BY DEF Dominated
<1>4. /\ a \in DOMAIN D \ {b} /\ b \in D[a]
      /\ \A c \in DOMAIN D \ {b} : b \in D[c] => a \in D[c]
  BY <1>2, <1>3 DEF Dominates
<1>5. LET i == Idominator(D, b)
      IN  /\ i \in DOMAIN D \ {b} /\ b \in D[i]
          /\ \A c \in DOMAIN D \ {b} : b \in D[c] => i \in D[c]
  <2> HIDE DEF D
  <2> QED  BY <1>4 DEF Idominator
<1> QED  BY <1>3, <1>5 DEF Dominates

(* The walk up the tree that computes df: where an edge enters n from      *)
(* below r, n is in the frontier of r, or r is above n's idominator, or    *)
(* r is n itself.                                                          *)
LEMMA Frontier ==
  ASSUME NEW g, NEW root, Rooted(g, root), NEW e \in g.edges, NEW r \in Present(g),
         Dominates(g, root, r, e.source), e.target # root, r # e.target,
         e.target \notin Df(g, Dominated(g, root), root, r)
  PROVE  Dominates(g, root, r, Idominator(Dominated(g, root), e.target))
<1> DEFINE n == e.target
           D == Dominated(g, root)
<1>1. n \in Present(g) \ {root} /\ e.source \in Predecessors(g, n) /\ e.source \in D[r]
  BY DEF Rooted, Predecessors, Entering, Dominates
<1>2. CASE Idominator(D, n) \in D[r]
  BY <1>2 DEF Dominates
<1>3. CASE n \in D[r]
  BY <1>1, <1>3, IdominatorIs DEF Dominates
<1> QED  BY <1>1, <1>2, <1>3 DEF Df

-----------------------------------------------------------------------------
(* A graph that is connected can be walked from either end.                *)
LEMMA ReversedParts ==
  ASSUME NEW g \in Graph
  PROVE  /\ Present(Reverse(g)) = Present(g)
         /\ \A e \in g.edges :
              \E f \in Reverse(g).edges : f.source = e.target /\ f.target = e.source
         /\ \A f \in Reverse(g).edges :
              \E e \in g.edges : f.source = e.target /\ f.target = e.source
<1> DEFINE E == {[source |-> e.target, target |-> e.source, direction |-> e.direction] :
                 e \in g.edges}
<1>1. Reverse(g).edges = E
  BY DEF Reverse, Graph
<1>2. /\ \A e \in g.edges : \E f \in E : f.source = e.target /\ f.target = e.source
      /\ \A f \in E : \E e \in g.edges : f.source = e.target /\ f.target = e.source
  <2>1. ASSUME NEW e \in g.edges
        PROVE  \E f \in E : f.source = e.target /\ f.target = e.source
    <3>1. [source |-> e.target, target |-> e.source, direction |-> e.direction] \in E
      OBVIOUS
    <3> QED  BY <3>1
  <2>2. ASSUME NEW f \in E
        PROVE  \E e \in g.edges : f.source = e.target /\ f.target = e.source
    <3>1. PICK e \in g.edges :
            f = [source |-> e.target, target |-> e.source, direction |-> e.direction]
      OBVIOUS
    <3> QED  BY <3>1
  <2> QED  BY <2>1, <2>2
<1> HIDE DEF E
<1>3. Present(Reverse(g)) = Present(g)
  BY <1>1, <1>2 DEF Present
<1> QED  BY <1>1, <1>2, <1>3

LEMMA EndsPresent ==
  ASSUME NEW g \in Graph
  PROVE  /\ Present(g) \subseteq Blocks /\ IsFiniteSet(Present(g)) /\ Entry \in Present(g)
         /\ \A e \in g.edges : e.source \in Present(g) /\ e.target \in Present(g)
         /\ \A e \in g.edges : e \in Edge
<1>1. \A e \in g.edges : e \in Edge /\ e.source \in Blocks /\ e.target \in Blocks
  BY DEF Graph, Edge
<1>2. /\ Present(g) \subseteq Blocks /\ Entry \in Present(g)
      /\ \A e \in g.edges : e.source \in Present(g) /\ e.target \in Present(g)
  BY <1>1, BlocksAssumption DEF Present
<1> QED  BY <1>1, <1>2, BlocksAssumption, FS_Subset

LEMMA ConnectedRooted ==
  ASSUME NEW g, Connected(g)
  PROVE  /\ g \in Graph /\ Rooted(g, Entry) /\ Rooted(Reverse(g), Exit)
         /\ Present(Reverse(g)) = Present(g) /\ Exit \in Present(g)
<1>1. g \in Graph /\ Reach(g, Entry, {}) = Present(g) /\ Reach(Reverse(g), Exit, {}) = Present(g)
  BY DEF Connected
<1>2. Exit \in Present(g)
  BY <1>1, Reached
<1> QED  BY <1>1, <1>2, EndsPresent, ReversedParts DEF Rooted

-----------------------------------------------------------------------------
Makes(b, x) == x \in AnyDefs(given, b) \cup PhisAt(phis, b)
Above(a, b) == Dominates(given, Entry, a, b)

(* The block above b, or b, that made x last. *)
Latest(a, b, x) ==
  /\ a \in Present(given) /\ Makes(a, x) /\ Above(a, b)
  /\ \A c \in Present(given) : Makes(c, x) /\ Above(c, b) => Above(c, a)

(* The version of x a block leaves that makes one. *)
Made(a, x) ==
  CASE x \in Defs(given.stmt[a]) -> Version("def", a)
    [] x \in MayDefs(given.stmt[a]) -> Version("may", a)
    [] OTHER -> Version("phi", a)

(* What was computed of the graph stays. *)
FixedInv ==
  /\ given \in Graphs
  /\ below = Dominated(given, Entry)
  /\ parent = [b \in Present(given) \ {Entry} |-> Idominator(below, b)]
  /\ df = [b \in Present(given) |-> Df(given, below, Entry, b)]
  /\ pc \in {"insert", "rename", "done", "mark"} => cfg = given

(* Each block off the worklist has its phis in its frontier. *)
PhisInv ==
  /\ phis \subseteq Present(given) \X Vars
  /\ todo \subseteq Present(given)
  /\ pc # "insert" => todo = {}
  /\ \A b \in Present(given) \ todo, x \in Vars : Makes(b, x) => df[b] \X {x} \subseteq phis

(* The calls of rename_vars go down the tree, each block once. *)
PathInv ==
  /\ path \in Seq(Present(given))
  /\ \A k \in DOMAIN path : path[k] \in renamed
  /\ \A j, k \in DOMAIN path : j # k => path[j] # path[k]
  /\ path # << >> => path[1] = Entry
  /\ \A k \in DOMAIN path : k # 1 => path[k] # Entry /\ parent[path[k]] = path[k - 1]
  /\ renamed \subseteq Present(given)
  /\ \A b \in renamed : (\A k \in DOMAIN path : path[k] # b) => Children(b) \subseteq renamed
  /\ pc = "insert" => path = << >> /\ renamed = {}
  /\ pc = "rename" /\ path = << >> => renamed = {}
  /\ pc \notin {"insert", "rename"} => Entry \in renamed /\ path = << >>

(* A stack of x and its height after each call on the way: what is on top  *)
(* is what the latest block made; and a use was pushed on an empty stack.  *)
Heights(x, s, h) ==
  /\ h \in [0..Len(path) -> Nat] /\ h[0] = 0 /\ h[Len(path)] = Len(s)
  /\ \A j, k \in 0..Len(path) : j <= k => h[j] <= h[k]
  /\ \A k \in DOMAIN path :
       /\ h[k - 1] + Pops(given, phis, path[k], x) <= h[k]
       /\ h[k - 1] + Pops(given, phis, path[k], x) < h[k] =>
            /\ h[k - 1] = 0
            /\ \A i \in 1..(h[k] - Pops(given, phis, path[k], x)) : s[i][1] = "use"
       /\ \A a \in Present(given) : Latest(a, path[k], x) => h[k] # 0 /\ s[h[k]] = Made(a, x)
       /\ (\A a \in Present(given) : ~Latest(a, path[k], x)) => h[k] = 0 \/ s[h[k]][1] = "use"

StacksInv ==
  /\ stacks \in [Vars -> Seq(Versions)]
  /\ pc = "insert" => \A x \in Vars : stacks[x] = << >>
  /\ pc = "rename" => \A x \in Vars : \E h : Heights(x, stacks[x], h)

(* The version a use is given. *)
Finds(b, x, v) ==
  /\ v \in Versions
  /\ x \in PhisAt(phis, b) => v = Version("phi", b)
  /\ x \notin PhisAt(phis, b) =>
       /\ \A a \in Present(given) : b # Entry /\ Latest(a, parent[b], x) => v = Made(a, x)
       /\ (\A a \in Present(given) : ~(b # Entry /\ Latest(a, parent[b], x))) => v[1] = "use"

ReadsInv ==
  /\ \A u \in DOMAIN reads :
       /\ u \in Present(given) \X Vars /\ u[1] \in renamed /\ u[2] \in UsesAt(given, u[1])
       /\ Finds(u[1], u[2], reads[u])
  /\ \A b \in renamed : \A x \in UsesAt(given, b) : <<b, x>> \in DOMAIN reads

(* The version of x a block leaves. *)
Passes(b, x, v) ==
  /\ v \in Versions
  /\ \A a \in Present(given) : Latest(a, b, x) => v = Made(a, x)
  /\ (\A a \in Present(given) : ~Latest(a, b, x)) => v[1] = "use"

ArgsInv ==
  /\ \A f \in DOMAIN args :
       /\ f \in Present(given) \X Present(given) \X Vars /\ f[1] \in renamed
       /\ f[2] \in Successors(given, f[1]) /\ f[3] \in PhisAt(phis, f[2])
       /\ Passes(f[1], f[3], args[f])
  /\ \A b \in renamed : \A s \in Successors(given, b) : \A x \in PhisAt(phis, s) :
       (\E a \in Present(given) : Latest(a, b, x)) => <<b, s, x>> \in DOMAIN args

SSAInv == FixedInv /\ PhisInv /\ PathInv /\ StacksInv /\ ReadsInv /\ ArgsInv

-----------------------------------------------------------------------------
LEMMA StatementNames ==
  ASSUME NEW s \in Statement
  PROVE  /\ Defs(s) \subseteq Vars /\ MayDefs(s) \subseteq Vars /\ Uses(s) \subseteq Vars
         /\ Defs(s) \cap MayDefs(s) = {}
         /\ \A x \in Defs(s) \cup MayDefs(s) : Defs(s) \cup MayDefs(s) = {x}
  BY DEF Statement, Defs, MayDefs, Uses

LEMMA BlockNames ==
  ASSUME NEW g \in Graph, NEW b \in Blocks
  PROVE  AnyDefs(g, b) \subseteq Vars /\ UsesAt(g, b) \subseteq Vars
<1>1. g.stmt[b] \in Statement
  BY DEF Graph
<1> QED  BY <1>1, StatementNames, GlobalsAssumption DEF AnyDefs, UsesAt

(* Every step converts, or leaves what the conversion made alone. *)
Elsewhere ==
  /\ UNCHANGED <<given, below, parent, df, todo, phis, path, renamed, stacks, reads, args>>
  /\ pc \in {"insert", "rename"} => pc' = pc
  /\ pc \notin {"insert", "rename"} => pc' \notin {"insert", "rename"}
  /\ pc' \in {"insert", "rename", "done", "mark"} =>
       cfg' = cfg /\ pc \in {"insert", "rename", "done", "mark"}

LEMMA SSAMoves ==
  ASSUME [LocalNext]_localVars
  PROVE  \/ \E b \in Blocks : InsertPhis(b) /\ UNCHANGED given
         \/ StartRenaming /\ UNCHANGED given
         \/ \E b \in Blocks : Enter(b) /\ UNCHANGED given
         \/ Leave /\ UNCHANGED given
         \/ Elsewhere
<1>1. CASE UNCHANGED localVars
  BY <1>1 DEF Elsewhere, localVars, passVars, ssaVars
<1>2. CASE ConvertToSSA
  BY <1>2 DEF ConvertToSSA, SSANext
<1>3. CASE RunDCE
  BY <1>3 DEF RunDCE, DeadCodeNext, StartMarking, Mark, Sweep, StartSweeping, StopSweeping,
              Elsewhere, ssaVars, dceVars
<1>4. CASE RunIfSimplification
  BY <1>4 DEF RunIfSimplification, SimplifyNext, StartSimplifying, Simplify, StopSimplifying,
              Elsewhere, simplifyVars
<1>5. CASE StartRuns
  BY <1>5 DEF StartRuns, Elsewhere, passVars, ssaVars
<1>6. CASE Step
  BY <1>6 DEF Step, Elsewhere, passVars, ssaVars
<1> QED  BY <1>1, <1>2, <1>3, <1>4, <1>5, <1>6 DEF LocalNext

-----------------------------------------------------------------------------
LEMMA GivenParts ==
  ASSUME FixedInv
  PROVE  /\ given \in Graph /\ Rooted(given, Entry) /\ Connected(given)
         /\ given.stmt[Entry] = Empty /\ given.stmt[Exit] = Empty
         /\ given.stmt \in [Blocks -> Statement]
         /\ Present(given) \subseteq Blocks /\ Entry \in Present(given) /\ Exit \in Present(given)
         /\ \A e \in given.edges : e.source \in Present(given) /\ e.target \in Present(given)
         /\ \A b \in Blocks : AnyDefs(given, b) \subseteq Vars /\ UsesAt(given, b) \subseteq Vars
         /\ DOMAIN below = Present(given) /\ DOMAIN df = Present(given)
         /\ DOMAIN parent = Present(given) \ {Entry}
<1>1. Connected(given) /\ given.stmt[Entry] = Empty /\ given.stmt[Exit] = Empty
  BY GraphsAssumption DEF FixedInv
<1>2. given \in Graph /\ Rooted(given, Entry) /\ Exit \in Present(given)
  BY <1>1, ConnectedRooted
<1>3. given.stmt \in [Blocks -> Statement]
  BY <1>2 DEF Graph
<1>4. DOMAIN below = Present(given) /\ DOMAIN df = Present(given)
      /\ DOMAIN parent = Present(given) \ {Entry}
  BY DEF FixedInv, Dominated
<1> QED  BY <1>1, <1>2, <1>3, <1>4, EndsPresent, BlockNames

(* parent is above its child, and whatever else is above it is above       *)
(* parent, too.                                                            *)
LEMMA ParentIs ==
  ASSUME FixedInv, NEW b \in Present(given), b # Entry
  PROVE  /\ parent[b] \in Present(given) /\ parent[b] # b /\ Above(parent[b], b)
         /\ \A c \in Present(given) : Above(c, b) <=> c = b \/ Above(c, parent[b])
<1>1. Rooted(given, Entry) /\ Entry \in Present(given)
  BY GivenParts
<1>2. parent[b] = Idominator(Dominated(given, Entry), b)
  BY DEF FixedInv
<1>3. /\ parent[b] \in Present(given) /\ parent[b] # b /\ Above(parent[b], b)
      /\ \A c \in Present(given) \ {b} : Above(c, b) => Above(c, parent[b])
  BY <1>1, <1>2, IdominatorIs DEF Above
<1> QED  BY <1>1, <1>3, DominatesItself, DominatesTransitive DEF Above

LEMMA AboveOrder ==
  ASSUME FixedInv
  PROVE  /\ \A a \in Present(given) : Above(a, a)
         /\ \A a, b, c \in Present(given) : Above(a, b) /\ Above(b, c) => Above(a, c)
         /\ \A a, b \in Present(given) : Above(a, b) /\ Above(b, a) => a = b
         /\ \A a, b, c \in Present(given) : Above(a, c) /\ Above(b, c) => Above(a, b) \/ Above(b, a)
         /\ \A a \in Present(given) : Above(a, Entry) => a = Entry
  BY GivenParts, DominatesItself, DominatesTransitive, DominatesAntisymmetric, DominatorsChain,
     RootDominates DEF Above

LEMMA LatestUnique ==
  ASSUME FixedInv, NEW b \in Present(given), NEW x, NEW a, Latest(a, b, x)
  PROVE  \A c : Latest(c, b, x) => c = a
  BY AboveOrder DEF Latest

LEMMA LatestExists ==
  ASSUME FixedInv, NEW b \in Present(given), NEW x, NEW c \in Present(given),
         Makes(c, x), Above(c, b)
  PROVE  \E a : Latest(a, b, x)
<1> DEFINE S == {a \in Present(given) : Makes(a, x) /\ Above(a, b)}
<1>1. S \in SUBSET Present(given) /\ S # {} /\ \A a \in S : Dominates(given, Entry, a, b)
  BY DEF Above
<1>2. \E a \in S : \A d \in S : Dominates(given, Entry, d, a)
  <2> HIDE DEF S
  <2> QED  BY <1>1, GivenParts, NearestDominator
<1> QED  BY <1>2 DEF Latest, Above

(* A block that makes x is the latest at its end, and one that does not    *)
(* leaves its parent's.                                                    *)
LEMMA LatestHere ==
  ASSUME FixedInv, NEW b \in Present(given), NEW x, Makes(b, x)
  PROVE  Latest(b, b, x)
  BY AboveOrder DEF Latest

LEMMA LatestThere ==
  ASSUME FixedInv, NEW b \in Present(given), NEW x, ~Makes(b, x), NEW a
  PROVE  Latest(a, b, x) <=> b # Entry /\ Latest(a, parent[b], x)
<1>1. CASE b = Entry
  BY <1>1, AboveOrder DEF Latest
<1>2. CASE b # Entry
  BY <1>2, ParentIs DEF Latest
<1> QED  BY <1>1, <1>2

LEMMA InitSSA == LocalInit => SSAInv
<1> SUFFICES ASSUME LocalInit PROVE SSAInv
  OBVIOUS
<1>1. /\ pc = "insert" /\ cfg \in Graphs /\ given = cfg
      /\ below = Dominated(cfg, Entry)
      /\ parent = [b \in Present(cfg) \ {Entry} |-> Idominator(below, b)]
      /\ df = [b \in Present(cfg) |-> Df(cfg, below, Entry, b)]
      /\ todo = Present(cfg) /\ phis = {} /\ path = << >> /\ renamed = {}
      /\ stacks = [x \in Vars |-> << >>] /\ reads = << >> /\ args = << >>
  BY DEF LocalInit, SSAInit
<1>2. FixedInv
  BY <1>1 DEF FixedInv
<1>3. PhisInv
  BY <1>1 DEF PhisInv
<1>4. PathInv
  BY <1>1 DEF PathInv
<1>5. StacksInv
  BY <1>1 DEF StacksInv
<1>6. ReadsInv /\ ArgsInv
  BY <1>1 DEF ReadsInv, ArgsInv
<1> QED  BY <1>2, <1>3, <1>4, <1>5, <1>6 DEF SSAInv

LEMMA KeepFixed ==
  ASSUME FixedInv, [LocalNext]_localVars
  PROVE  FixedInv'
<1>1. CASE \E b \in Blocks : InsertPhis(b) /\ UNCHANGED given
  BY <1>1 DEF InsertPhis, FixedInv
<1>2. CASE StartRenaming /\ UNCHANGED given
  BY <1>2 DEF StartRenaming, FixedInv
<1>3. CASE \E b \in Blocks : Enter(b) /\ UNCHANGED given
  BY <1>3 DEF Enter, FixedInv
<1>4. CASE Leave /\ UNCHANGED given
  BY <1>4 DEF Leave, FixedInv
<1>5. CASE Elsewhere
  BY <1>5 DEF Elsewhere, FixedInv
<1> QED  BY <1>1, <1>2, <1>3, <1>4, <1>5, SSAMoves

LEMMA FrontierPresent ==
  ASSUME FixedInv, NEW b \in Present(given)
  PROVE  df[b] \subseteq Present(given) \ {Entry}
<1>1. df[b] = Df(given, below, Entry, b)
  BY DEF FixedInv
<1> QED  BY <1>1 DEF Df

(* A block with a new phi goes on the worklist. *)
LEMMA InsertKeepsPhis ==
  ASSUME FixedInv, PhisInv, NEW b \in Blocks, InsertPhis(b), UNCHANGED given
  PROVE  PhisInv'
<1>1. /\ pc = "insert" /\ pc' = pc /\ b \in todo /\ df' = df /\ given' = given /\ cfg = given
  <2>1. todo \in SUBSET Blocks
    BY GivenParts DEF PhisInv
  <2> QED  BY <2>1, FirstAssumption DEF InsertPhis, FixedInv
<1>2. PICK new \in {(df[b] \X (AnyDefs(cfg, b) \cup PhisAt(phis, b))) \ phis} :
        /\ phis' = phis \cup new
        /\ todo' = (todo \ {b}) \cup Requeued(df[b], new)
  BY DEF InsertPhis
<1>3. /\ b \in Present(given) /\ b \in Blocks /\ AnyDefs(given, b) \subseteq Vars
      /\ df[b] \subseteq Present(given)
  BY <1>1, GivenParts, FrontierPresent DEF PhisInv
<1>4. PhisAt(phis, b) \subseteq Vars
  BY DEF PhisInv, PhisAt
<1>5. new = (df[b] \X (AnyDefs(given, b) \cup PhisAt(phis, b))) \ phis
  BY <1>1, <1>2
<1>6. phis' \subseteq Present(given) \X Vars
  BY <1>2, <1>3, <1>4, <1>5 DEF PhisInv
<1>7. todo' \subseteq Present(given)
  BY <1>2, <1>3 DEF PhisInv, Requeued
<1>8. \A c, x : x \in PhisAt(phis', c) <=> x \in PhisAt(phis, c) \/ <<c, x>> \in new
  <2>1. \A P, c, x : P \subseteq Present(given) \X Vars => (x \in PhisAt(P, c) <=> <<c, x>> \in P)
    BY DEF PhisAt
  <2>2. phis \subseteq Present(given) \X Vars
    BY DEF PhisInv
  <2>3. \A c, x : x \in PhisAt(phis, c) <=> <<c, x>> \in phis
    BY <2>1, <2>2
  <2>4. \A c, x : x \in PhisAt(phis', c) <=> <<c, x>> \in phis'
    BY <1>6, <2>1
  <2> QED  BY <1>2, <2>3, <2>4
<1>9. ASSUME NEW c \in Present(given) \ todo', NEW x \in Vars, Makes(c, x)'
      PROVE  df[c] \X {x} \subseteq phis'
  <2>1. \A z : <<c, z>> \notin new
    BY <1>2, <1>5, <1>9 DEF Requeued
  <2>2. Makes(c, x)
    BY <1>1, <1>8, <1>9, <2>1 DEF Makes
  <2>3. CASE c = b
    BY <1>2, <1>5, <2>2, <2>3 DEF Makes
  <2>4. CASE c # b
    BY <1>2, <1>9, <2>2, <2>4 DEF PhisInv
  <2> QED  BY <2>3, <2>4
<1> QED  BY <1>1, <1>6, <1>7, <1>9 DEF PhisInv

LEMMA KeepPhis ==
  ASSUME FixedInv, PhisInv, [LocalNext]_localVars
  PROVE  PhisInv'
<1>1. ASSUME UNCHANGED <<given, phis, todo, df>>, pc' # "insert" => todo = {}
      PROVE  PhisInv'
  BY <1>1 DEF PhisInv, Makes
<1>2. CASE StartRenaming /\ UNCHANGED given
  BY <1>1, <1>2 DEF StartRenaming
<1>3. CASE \E b \in Blocks : Enter(b) /\ UNCHANGED given
  BY <1>1, <1>3 DEF Enter, PhisInv
<1>4. CASE Leave /\ UNCHANGED given
  BY <1>1, <1>4 DEF Leave, PhisInv
<1>5. CASE Elsewhere
  BY <1>1, <1>5 DEF Elsewhere, PhisInv
<1> QED  BY <1>2, <1>3, <1>4, <1>5, SSAMoves, InsertKeepsPhis

-----------------------------------------------------------------------------
LEMMA EnterParts ==
  ASSUME FixedInv, PathInv, NEW b \in Blocks, Enter(b)
  PROVE  /\ pc = "rename" /\ b \in Present(given) /\ b \notin renamed
         /\ path = << >> => b = Entry
         /\ path # << >> => b # Entry /\ parent[b] = path[Len(path)]
<1>1. pc = "rename" /\ b \in Callable
  BY DEF Enter
<1>2. CASE path = << >>
  BY <1>1, <1>2, GivenParts DEF Callable
<1>3. CASE path # << >>
  BY <1>1, <1>3, GivenParts DEF Callable, Children, Top
<1> QED  BY <1>1, <1>2, <1>3

LEMMA EnterKeepsPath ==
  ASSUME FixedInv, PathInv, NEW b \in Blocks, Enter(b), UNCHANGED given
  PROVE  PathInv'
<1>1. /\ pc = "rename" /\ b \in Present(given) /\ b \notin renamed
      /\ path = << >> => b = Entry
      /\ path # << >> => b # Entry /\ parent[b] = path[Len(path)]
  BY EnterParts
<1>2. /\ path' = Append(path, b) /\ renamed' = renamed \cup {b} /\ pc' = pc /\ parent' = parent
  BY DEF Enter
<1>3. path \in Seq(Present(given)) /\ Len(path) \in Nat /\ DOMAIN path = 1..Len(path)
  BY DEF PathInv
<1>4. /\ path' \in Seq(Present(given)) /\ Len(path') = Len(path) + 1
      /\ DOMAIN path' = 1..(Len(path) + 1)
      /\ path'[Len(path) + 1] = b /\ \A k \in DOMAIN path : path'[k] = path[k]
  BY <1>1, <1>2, <1>3
<1>5. /\ \A k \in DOMAIN path : path[k] \in renamed
      /\ \A j, k \in DOMAIN path : j # k => path[j] # path[k]
      /\ path # << >> => path[1] = Entry
      /\ \A k \in DOMAIN path : k # 1 => path[k] # Entry /\ parent[path[k]] = path[k - 1]
      /\ \A c \in renamed : (\A k \in DOMAIN path : path[k] # c) => Children(c) \subseteq renamed
      /\ renamed \subseteq Present(given)
  BY DEF PathInv
<1>6. \A k \in DOMAIN path' : path'[k] \in renamed'
  BY <1>2, <1>3, <1>4, <1>5
<1>7. \A j, k \in DOMAIN path' : j # k => path'[j] # path'[k]
  BY <1>1, <1>3, <1>4, <1>5
<1>8. path' # << >> /\ path'[1] = Entry
  BY <1>1, <1>3, <1>4, <1>5
<1>9. \A k \in DOMAIN path' : k # 1 => path'[k] # Entry /\ parent[path'[k]] = path'[k - 1]
  BY <1>1, <1>3, <1>4, <1>5
<1>10. \A c \in renamed' : (\A k \in DOMAIN path' : path'[k] # c) => Children(c)' \subseteq renamed'
  <2>1. \A c : Children(c)' = Children(c)
    BY <1>2 DEF Children
  <2> QED  BY <1>2, <1>3, <1>4, <1>5, <2>1
<1> QED  BY <1>1, <1>2, <1>4, <1>5, <1>6, <1>7, <1>8, <1>9, <1>10 DEF PathInv

LEMMA LeaveParts ==
  ASSUME FixedInv, PathInv, Leave
  PROVE  /\ path # << >> /\ Len(path) \in Nat /\ Len(path) # 0 /\ DOMAIN path = 1..Len(path)
         /\ path' \in Seq(Present(given)) /\ Len(path') = Len(path) - 1
         /\ DOMAIN path' = 1..(Len(path) - 1) /\ \A k \in DOMAIN path' : path'[k] = path[k]
         /\ Children(path[Len(path)]) \subseteq renamed
<1>1. path \in Seq(Present(given)) /\ path # << >>
  BY DEF PathInv, Leave
<1>2. Len(path) \in Nat /\ Len(path) # 0 /\ DOMAIN path = 1..Len(path)
  BY <1>1
<1>3. path' = SubSeq(path, 1, Len(path) - 1)
  BY <1>2 DEF Leave, Popped
<1>4. Children(path[Len(path)]) \subseteq renamed
  BY <1>1 DEF Leave, Callable, Top
<1> QED  BY <1>1, <1>2, <1>3, <1>4

LEMMA LeaveKeepsPath ==
  ASSUME FixedInv, PathInv, Leave, UNCHANGED given
  PROVE  PathInv'
<1>1. /\ path # << >> /\ Len(path) \in Nat /\ Len(path) # 0 /\ DOMAIN path = 1..Len(path)
      /\ path' \in Seq(Present(given)) /\ Len(path') = Len(path) - 1
      /\ DOMAIN path' = 1..(Len(path) - 1) /\ \A k \in DOMAIN path' : path'[k] = path[k]
      /\ Children(path[Len(path)]) \subseteq renamed
  BY LeaveParts
<1>2. pc = "rename" /\ pc' = (IF Len(path) = 1 THEN "done" ELSE pc)
      /\ UNCHANGED <<given, renamed, parent>>
  BY DEF Leave
<1>3. \A c : Children(c)' = Children(c)
  BY <1>2 DEF Children
<1>4. path' = << >> <=> Len(path) = 1
  BY <1>1
<1>5. Entry \in renamed
  BY <1>1 DEF PathInv
<1>6. \A c \in renamed : (\A k \in DOMAIN path' : path'[k] # c) => Children(c) \subseteq renamed
  BY <1>1 DEF PathInv
<1> QED  BY <1>1, <1>2, <1>3, <1>4, <1>5, <1>6 DEF PathInv

LEMMA KeepPath ==
  ASSUME FixedInv, PathInv, [LocalNext]_localVars
  PROVE  PathInv'
<1>1. ASSUME UNCHANGED <<given, parent, path, renamed>>,
             pc \in {"insert", "rename"} => pc' \in {pc, "rename"},
             pc \notin {"insert", "rename"} => pc' \notin {"insert", "rename"}
      PROVE  PathInv'
  BY <1>1 DEF PathInv, Children
<1>2. CASE \E b \in Blocks : InsertPhis(b) /\ UNCHANGED given
  BY <1>1, <1>2 DEF InsertPhis
<1>3. CASE StartRenaming /\ UNCHANGED given
  BY <1>1, <1>3 DEF StartRenaming
<1>4. CASE Elsewhere
  BY <1>1, <1>4 DEF Elsewhere
<1> QED  BY <1>2, <1>3, <1>4, SSAMoves, EnterKeepsPath, LeaveKeepsPath

-----------------------------------------------------------------------------
LEMMA PopsCount ==
  ASSUME NEW b, NEW x
  PROVE  /\ Pops(given, phis, b, x) \in Nat
         /\ Pops(given, phis, b, x) = 0 <=> ~Makes(b, x)
  BY DEF Pops, Makes

LEMMA AppendParts ==
  ASSUME NEW S, NEW s \in Seq(S), NEW v \in S
  PROVE  /\ Append(s, v) \in Seq(S) /\ Len(Append(s, v)) = Len(s) + 1 /\ Len(s) \in Nat
         /\ \A i \in 1..Len(s) : Append(s, v)[i] = s[i]
         /\ Append(s, v)[Len(s) + 1] = v
  OBVIOUS

(* What rename_vars pushes it pops again, but for the version of a use.    *)
LEMMA PushedParts ==
  ASSUME FixedInv, NEW b \in Present(given), NEW x \in Vars, NEW s \in Seq(Versions)
  PROVE  LET t == Pushed(given, phis, b, x, s)
             n == Pops(given, phis, b, x)
         IN  /\ t \in Seq(Versions) /\ Len(s) + n <= Len(t)
             /\ \A i \in 1..Len(s) : t[i] = s[i]
             /\ Len(s) + n < Len(t) => Len(s) = 0 /\ Len(t) = n + 1 /\ t[1][1] = "use"
             /\ Makes(b, x) => t[Len(t)] = Made(b, x)
<1> DEFINE V(kind) == Version(kind, b)
           stmt == given.stmt[b]
           one == IF x \in PhisAt(phis, b) THEN Append(s, V("phi")) ELSE s
           two == IF x \in UsesAt(given, b) /\ one = << >> THEN <<V("use")>> ELSE one
           three == IF x \in MayDefs(stmt) THEN Append(two, V("may")) ELSE two
           four == IF x \in Defs(stmt) THEN Append(three, V("def")) ELSE three
           p == IF x \in PhisAt(phis, b) THEN 1 ELSE 0
           u == IF x \in UsesAt(given, b) /\ one = << >> THEN 1 ELSE 0
           m == IF x \in MayDefs(stmt) THEN 1 ELSE 0
           d == IF x \in Defs(stmt) THEN 1 ELSE 0
<1>1. Pushed(given, phis, b, x, s) = four
  BY DEF Pushed
<1>2. /\ V("phi") \in Versions /\ V("use") \in Versions
      /\ V("may") \in Versions /\ V("def") \in Versions
  BY GivenParts DEF Version, Versions
<1>3. /\ p \in {0, 1} /\ u \in {0, 1} /\ m \in {0, 1} /\ d \in {0, 1} /\ Len(s) \in Nat
      /\ m = 0 \/ d = 0
  <2>1. stmt \in Statement
    BY GivenParts
  <2> QED  BY <2>1, StatementNames
<1>4. Pops(given, phis, b, x) = p + (m + d)
  BY <1>3 DEF Pops, AnyDefs
<1>5. /\ one \in Seq(Versions) /\ Len(one) = Len(s) + p
      /\ \A i \in 1..Len(s) : one[i] = s[i]
      /\ p = 1 => one[Len(one)] = V("phi")
  BY <1>2, <1>3, AppendParts
<1> HIDE DEF V
<1>6. /\ two \in Seq(Versions) /\ Len(two) = Len(one) + u
      /\ \A i \in 1..Len(one) : two[i] = one[i]
      /\ u = 1 => Len(one) = 0 /\ two[1] = V("use")
  <2> HIDE DEF one
  <2>1. CASE x \in UsesAt(given, b) /\ one = << >>
    <3>1. two = <<V("use")>> /\ Len(one) = 0 /\ u = 1
      BY <2>1
    <3>2. \A v \in Versions : <<v>> \in Seq(Versions) /\ Len(<<v>>) = 1 /\ <<v>>[1] = v
      OBVIOUS
    <3> HIDE DEF two, u
    <3> QED  BY <1>2, <3>1, <3>2
  <2>2. CASE ~(x \in UsesAt(given, b) /\ one = << >>)
    <3>1. two = one /\ u = 0
      BY <2>2
    <3> HIDE DEF two, u
    <3> QED  BY <1>5, <3>1
  <2> QED  BY <2>1, <2>2
<1> HIDE DEF one
<1>7. /\ three \in Seq(Versions) /\ Len(three) = Len(two) + m
      /\ \A i \in 1..Len(two) : three[i] = two[i]
      /\ m = 1 => three[Len(three)] = V("may")
  <2> HIDE DEF two
  <2>1. CASE x \in MayDefs(stmt)
    <3>1. three = Append(two, V("may")) /\ m = 1
      BY <2>1
    <3> HIDE DEF three, m
    <3> QED  BY <1>2, <1>6, <3>1, AppendParts
  <2>2. CASE x \notin MayDefs(stmt)
    <3>1. three = two /\ m = 0
      BY <2>2
    <3> HIDE DEF three, m
    <3> QED  BY <1>6, <3>1
  <2> QED  BY <2>1, <2>2
<1> HIDE DEF two
<1>8. /\ four \in Seq(Versions) /\ Len(four) = Len(three) + d
      /\ \A i \in 1..Len(three) : four[i] = three[i]
      /\ d = 1 => four[Len(four)] = V("def")
  <2> HIDE DEF three
  <2>1. CASE x \in Defs(stmt)
    <3>1. four = Append(three, V("def")) /\ d = 1
      BY <2>1
    <3> HIDE DEF four, d
    <3> QED  BY <1>2, <1>7, <3>1, AppendParts
  <2>2. CASE x \notin Defs(stmt)
    <3>1. four = three /\ d = 0
      BY <2>2
    <3> HIDE DEF four, d
    <3> QED  BY <1>7, <3>1
  <2> QED  BY <2>1, <2>2
<1>9. /\ d = 1 <=> x \in Defs(stmt)
      /\ m = 1 <=> x \in MayDefs(stmt)
      /\ p = 1 <=> x \in PhisAt(phis, b)
  OBVIOUS
<1> HIDE DEF three, p, u, m, d
<1> HIDE DEF four
<1>10. /\ Len(one) \in Nat /\ Len(two) \in Nat /\ Len(three) \in Nat /\ Len(four) \in Nat
       /\ Len(two) = Len(s) + (p + u) /\ Len(three) = Len(s) + (p + u + m)
       /\ Len(four) = Len(s) + (p + u + m + d)
  BY <1>3, <1>5, <1>6, <1>7, <1>8
<1>11. Len(s) + (p + (m + d)) <= Len(four) /\ \A i \in 1..Len(s) : four[i] = s[i]
  BY <1>3, <1>5, <1>6, <1>7, <1>8, <1>10
<1>12. Len(s) + (p + (m + d)) < Len(four) =>
         Len(s) = 0 /\ Len(four) = (p + (m + d)) + 1 /\ four[1][1] = "use"
  <2>1. V("use")[1] = "use"
    BY DEF V, Version
  <2>2. SUFFICES ASSUME Len(s) + (p + (m + d)) < Len(four)
                 PROVE  /\ Len(s) = 0 /\ Len(four) = (p + (m + d)) + 1
                        /\ four[1] = V("use")
    BY <2>1
  <2>3. u = 1
    BY <1>3, <1>10, <2>2
  <2>4. Len(s) = 0 /\ Len(four) = (p + (m + d)) + 1
    BY <1>3, <1>5, <1>6, <1>10, <2>3
  <2> QED  BY <1>3, <1>6, <1>7, <1>8, <1>10, <2>3, <2>4
<1>13. Makes(b, x) => four[Len(four)] = Made(b, x)
  <2>1. Made(b, x) = IF d = 1 THEN V("def") ELSE IF m = 1 THEN V("may") ELSE V("phi")
    <3>1. CASE d = 1
      BY <1>3, <1>9, <3>1 DEF Made, V
    <3>2. CASE d # 1 /\ m = 1
      BY <1>9, <3>2 DEF Made, V
    <3>3. CASE d # 1 /\ m # 1
      BY <1>9, <3>3 DEF Made, V
    <3> QED  BY <3>1, <3>2, <3>3
  <2>2. SUFFICES ASSUME Makes(b, x) PROVE four[Len(four)] = Made(b, x)
    OBVIOUS
  <2>3. d = 1 \/ m = 1 \/ p = 1
    BY <1>9, <2>2 DEF Makes, AnyDefs
  <2>4. CASE d = 1
    BY <1>8, <2>1, <2>4
  <2>5. CASE d = 0 /\ m = 1
    BY <1>3, <1>5, <1>6, <1>7, <1>8, <2>1, <2>5
  <2>6. CASE d = 0 /\ m = 0 /\ p = 1
    BY <1>3, <1>5, <1>6, <1>7, <1>8, <2>1, <2>6
  <2> QED  BY <1>3, <2>3, <2>4, <2>5, <2>6
<1>14. four \in Seq(Versions)
  BY <1>8
<1> QED  BY <1>1, <1>4, <1>11, <1>12, <1>13, <1>14

-----------------------------------------------------------------------------
LEMMA SameNames ==
  ASSUME UNCHANGED <<given, phis>>
  PROVE  /\ \A a, b, x : Latest(a, b, x)' <=> Latest(a, b, x)
         /\ \A a, x : Made(a, x)' = Made(a, x)
         /\ \A a, x : Makes(a, x)' <=> Makes(a, x)
         /\ \A a, b : Above(a, b)' <=> Above(a, b)
<1>1. \A a, x : Makes(a, x)' <=> Makes(a, x)
  BY DEF Makes
<1>2. \A a, b : Above(a, b)' <=> Above(a, b)
  BY DEF Above
<1>3. \A a, b, x : Latest(a, b, x)' <=> Latest(a, b, x)
  BY <1>1, <1>2 DEF Latest
<1>4. \A a, x : Made(a, x)' = Made(a, x)
  BY DEF Made
<1> QED  BY <1>1, <1>2, <1>3, <1>4

(* The height of a stack where rename_vars is. *)
LEMMA HeightHere ==
  ASSUME FixedInv, PathInv, NEW x \in Vars, NEW s \in Seq(Versions), NEW h, Heights(x, s, h),
         path # << >>
  PROVE  /\ \A a \in Present(given) : Latest(a, path[Len(path)], x) =>
                Len(s) # 0 /\ s[Len(s)] = Made(a, x)
         /\ (\A a \in Present(given) : ~Latest(a, path[Len(path)], x)) =>
                Len(s) = 0 \/ s[Len(s)][1] = "use"
<1>1. Len(path) \in DOMAIN path
  BY DEF PathInv
<1> QED  BY <1>1 DEF Heights

LEMMA HeightsNext ==
  ASSUME UNCHANGED <<given, phis>>, NEW x, NEW s, NEW h, 
         h \in [0..Len(path') -> Nat], h[0] = 0, h[Len(path')] = Len(s),
         \A j, k \in 0..Len(path') : j <= k => h[j] <= h[k],
         \A k \in DOMAIN path' :
           /\ h[k - 1] + Pops(given, phis, path'[k], x) <= h[k]
           /\ h[k - 1] + Pops(given, phis, path'[k], x) < h[k] =>
                /\ h[k - 1] = 0
                /\ \A i \in 1..(h[k] - Pops(given, phis, path'[k], x)) : s[i][1] = "use"
           /\ \A a \in Present(given) : Latest(a, path'[k], x) => h[k] # 0 /\ s[h[k]] = Made(a, x)
           /\ (\A a \in Present(given) : ~Latest(a, path'[k], x)) => h[k] = 0 \/ s[h[k]][1] = "use"
  PROVE  Heights(x, s, h)'
BY SameNames DEF Heights

(* What rename_vars leaves on top of the stack of x.                       *)
LEMMA EnterTop ==
  ASSUME FixedInv, PathInv, NEW b \in Blocks, Enter(b),
         NEW x \in Vars, NEW s \in Seq(Versions), NEW h, Heights(x, s, h),
         NEW t, t = Pushed(given, phis, b, x, s)
  PROVE  /\ t \in Seq(Versions)
         /\ \A a \in Present(given) : Latest(a, b, x) => Len(t) # 0 /\ t[Len(t)] = Made(a, x)
         /\ (\A a \in Present(given) : ~Latest(a, b, x)) => Len(t) = 0 \/ t[Len(t)][1] = "use"
<1> DEFINE n == Pops(given, phis, b, x)
           l == Len(path)
<1>1. /\ pc = "rename" /\ b \in Present(given) /\ b \notin renamed
      /\ path = << >> => b = Entry
      /\ path # << >> => b # Entry /\ parent[b] = path[Len(path)]
  BY EnterParts
<1>2. /\ t \in Seq(Versions) /\ Len(s) + n <= Len(t)
      /\ \A j \in 1..Len(s) : t[j] = s[j]
      /\ Len(s) + n < Len(t) => Len(s) = 0 /\ Len(t) = n + 1 /\ t[1][1] = "use"
      /\ Makes(b, x) => t[Len(t)] = Made(b, x)
  BY <1>1, PushedParts
<1>3. n \in Nat /\ (n = 0 <=> ~Makes(b, x)) /\ Len(s) \in Nat /\ Len(t) \in Nat
  BY <1>2, PopsCount
<1>4. h[0] = 0 /\ h[l] = Len(s)
  BY DEF Heights
<1> HIDE DEF n
<1>5. \A a : Latest(a, b, x) <=> IF Makes(b, x) THEN a = b
                                 ELSE path # << >> /\ Latest(a, path[l], x)
  BY <1>1, LatestHere, LatestUnique, LatestThere
<1>6. /\ \A a \in Present(given) : Latest(a, b, x) => Len(t) # 0 /\ t[Len(t)] = Made(a, x)
      /\ (\A a \in Present(given) : ~Latest(a, b, x)) =>
           Len(t) = 0 \/ t[Len(t)][1] = "use"
  <2>1. CASE Makes(b, x)
    <3>1. Len(t) # 0 /\ t[Len(t)] = Made(b, x)
      BY <1>2, <1>3, <2>1
    <3> QED  BY <1>1, <1>5, <2>1, <3>1
  <2>2. CASE ~Makes(b, x) /\ path # << >>
    <3>1. n = 0
      BY <1>3, <2>2
    <3>2. \A a : Latest(a, b, x) <=> Latest(a, path[l], x)
      BY <1>5, <2>2
    <3>3. Len(t) = Len(s) \/ (Len(t) = 1 /\ Len(s) = 0 /\ t[1][1] = "use")
      BY <1>2, <1>3, <3>1
    <3>4. Len(s) # 0 => t[Len(s)] = s[Len(s)]
      BY <1>2, <1>3
    <3>5. /\ \A a \in Present(given) : Latest(a, path[l], x) =>
                Len(s) # 0 /\ s[Len(s)] = Made(a, x)
          /\ (\A a \in Present(given) : ~Latest(a, path[l], x)) =>
                Len(s) = 0 \/ s[Len(s)][1] = "use"
      BY <2>2, HeightHere
    <3> QED  BY <1>3, <3>2, <3>3, <3>4, <3>5
  <2>3. CASE ~Makes(b, x) /\ path = << >>
    <3>1. n = 0 /\ Len(s) = 0
      BY <1>3, <1>4, <2>3
    <3>2. \A a : ~Latest(a, b, x)
      BY <1>5, <2>3
    <3>3. Len(t) = 0 \/ t[Len(t)][1] = "use"
      BY <1>2, <1>3, <3>1
    <3> QED  BY <3>2, <3>3
  <2> QED  BY <2>1, <2>2, <2>3
<1> QED  BY <1>2, <1>6

LEMMA EnterKeepsHeights ==
  ASSUME FixedInv, PathInv, NEW b \in Blocks, Enter(b), UNCHANGED given,
         NEW x \in Vars, NEW s \in Seq(Versions), NEW h, Heights(x, s, h),
         NEW t, t = Pushed(given, phis, b, x, s)
  PROVE  \E i : Heights(x, t, i)'
<1> DEFINE n == Pops(given, phis, b, x)
           l == Len(path)
<1>0. PICK i : i = [k \in 0..l + 1 |-> IF k = l + 1 THEN Len(t) ELSE h[k]]
  OBVIOUS
<1>1. /\ pc = "rename" /\ b \in Present(given) /\ b \notin renamed
      /\ path = << >> => b = Entry
      /\ path # << >> => b # Entry /\ parent[b] = path[Len(path)]
  BY EnterParts
<1>2. /\ path' = Append(path, b) /\ phis' = phis
  BY DEF Enter
<1>3. path \in Seq(Present(given)) /\ l \in Nat /\ DOMAIN path = 1..l
  BY DEF PathInv
<1>4. /\ Len(path') = l + 1 /\ DOMAIN path' = 1..(l + 1)
      /\ path'[l + 1] = b /\ \A k \in DOMAIN path : path'[k] = path[k]
  BY <1>1, <1>2, <1>3
<1>5. /\ t \in Seq(Versions) /\ Len(s) + n <= Len(t)
      /\ \A j \in 1..Len(s) : t[j] = s[j]
      /\ Len(s) + n < Len(t) => Len(s) = 0 /\ Len(t) = n + 1 /\ t[1][1] = "use"
      /\ Makes(b, x) => t[Len(t)] = Made(b, x)
  BY <1>1, PushedParts
<1>6. n \in Nat /\ (n = 0 <=> ~Makes(b, x)) /\ Len(s) \in Nat /\ Len(t) \in Nat
  BY <1>5, PopsCount
<1>7. /\ h \in [0..l -> Nat] /\ h[0] = 0 /\ h[l] = Len(s)
      /\ \A j, k \in 0..l : j <= k => h[j] <= h[k]
  BY DEF Heights
<1> HIDE DEF n
<1>8. /\ i \in [0..l + 1 -> Nat] /\ i[0] = 0 /\ i[l + 1] = Len(t)
      /\ \A k \in 0..l : i[k] = h[k] /\ h[k] <= Len(s)
  BY <1>0, <1>3, <1>6, <1>7
<1>9. \A j, k \in 0..l + 1 : j <= k => i[j] <= i[k]
  <2>1. SUFFICES ASSUME NEW j \in 0..l + 1, NEW k \in 0..l + 1, j <= k PROVE i[j] <= i[k]
    OBVIOUS
  <2>2. Len(s) <= Len(t)
    BY <1>5, <1>6
  <2>3. CASE k = l + 1
    <3>1. j = l + 1 \/ j \in 0..l
      BY <1>3
    <3>2. i[j] \in Nat /\ i[k] = Len(t)
      BY <1>3, <1>8, <2>3
    <3> QED  BY <1>6, <1>8, <2>2, <2>3, <3>1, <3>2
  <2>4. CASE k # l + 1
    <3>1. j \in 0..l /\ k \in 0..l
      BY <1>3, <2>1, <2>4
    <3> QED  BY <1>7, <1>8, <2>1, <3>1
  <2> QED  BY <2>3, <2>4
<1>10. ASSUME NEW k \in 1..(l + 1), k # l + 1
       PROVE  /\ i[k - 1] + Pops(given, phis, path'[k], x) <= i[k]
              /\ i[k - 1] + Pops(given, phis, path'[k], x) < i[k] =>
                   /\ i[k - 1] = 0
                   /\ \A j \in 1..(i[k] - Pops(given, phis, path'[k], x)) : t[j][1] = "use"
              /\ \A a \in Present(given) :
                   Latest(a, path'[k], x) => i[k] # 0 /\ t[i[k]] = Made(a, x)
              /\ (\A a \in Present(given) : ~Latest(a, path'[k], x)) =>
                   i[k] = 0 \/ t[i[k]][1] = "use"
  <2>1. k \in DOMAIN path /\ k \in 0..l /\ k - 1 \in 0..l /\ path'[k] = path[k]
    BY <1>3, <1>4, <1>10
  <2>2. i[k] = h[k] /\ i[k - 1] = h[k - 1] /\ h[k] <= Len(s) /\ h[k] \in Nat
    BY <1>7, <1>8, <2>1
  <2>3. h[k] # 0 => t[h[k]] = s[h[k]]
    BY <1>5, <1>6, <2>2
  <2>4. Pops(given, phis, path[k], x) \in Nat
    BY PopsCount
  <2>5. \A j \in 1..(h[k] - Pops(given, phis, path[k], x)) : t[j] = s[j]
    <3>1. \A m, o \in Nat : m <= Len(s) => 1..(m - o) \subseteq 1..Len(s)
      BY <1>6
    <3>2. 1..(h[k] - Pops(given, phis, path[k], x)) \subseteq 1..Len(s)
      BY <2>2, <2>4, <3>1
    <3> QED  BY <1>5, <3>2
  <2> QED  BY <2>1, <2>2, <2>3, <2>5 DEF Heights
<1>11. /\ i[l] + n <= i[l + 1]
       /\ i[l] + n < i[l + 1] =>
            /\ i[l] = 0
            /\ \A j \in 1..(i[l + 1] - n) : t[j][1] = "use"
  <2>1. i[l] = Len(s) /\ i[l + 1] = Len(t)
    BY <1>3, <1>7, <1>8
  <2>2. Len(t) = n + 1 => \A j \in 1..(Len(t) - n) : j = 1
    BY <1>6
  <2> QED  BY <1>5, <1>6, <2>1, <2>2
<1>12. /\ \A a \in Present(given) : Latest(a, b, x) => i[l + 1] # 0 /\ t[i[l + 1]] = Made(a, x)
       /\ (\A a \in Present(given) : ~Latest(a, b, x)) =>
            i[l + 1] = 0 \/ t[i[l + 1]][1] = "use"
  BY <1>8, EnterTop
<1>13. ASSUME NEW k \in 1..(l + 1)
       PROVE  /\ i[k - 1] + Pops(given, phis, path'[k], x) <= i[k]
              /\ i[k - 1] + Pops(given, phis, path'[k], x) < i[k] =>
                   /\ i[k - 1] = 0
                   /\ \A j \in 1..(i[k] - Pops(given, phis, path'[k], x)) : t[j][1] = "use"
              /\ \A a \in Present(given) :
                   Latest(a, path'[k], x) => i[k] # 0 /\ t[i[k]] = Made(a, x)
              /\ (\A a \in Present(given) : ~Latest(a, path'[k], x)) =>
                   i[k] = 0 \/ t[i[k]][1] = "use"
  <2>1. CASE k # l + 1
    BY <1>10, <2>1
  <2>2. CASE k = l + 1
    BY <1>3, <1>4, <1>11, <1>12, <2>2 DEF n
  <2> QED  BY <2>1, <2>2
<1>14. Heights(x, t, i)'
  <2>1. Len(path') = l + 1 /\ DOMAIN path' = 1..(l + 1)
    BY <1>4
  <2>2. UNCHANGED <<given, phis>>
    BY <1>2
  <2>3. i \in [0..Len(path') -> Nat] /\ i[0] = 0 /\ i[Len(path')] = Len(t)
    BY <1>8, <2>1
  <2>4. \A j, k \in 0..Len(path') : j <= k => i[j] <= i[k]
    BY <1>9, <2>1
  <2>5. \A k \in DOMAIN path' :
           /\ i[k - 1] + Pops(given, phis, path'[k], x) <= i[k]
           /\ i[k - 1] + Pops(given, phis, path'[k], x) < i[k] =>
                /\ i[k - 1] = 0
                /\ \A j \in 1..(i[k] - Pops(given, phis, path'[k], x)) : t[j][1] = "use"
           /\ \A a \in Present(given) : Latest(a, path'[k], x) => i[k] # 0 /\ t[i[k]] = Made(a, x)
           /\ (\A a \in Present(given) : ~Latest(a, path'[k], x)) => i[k] = 0 \/ t[i[k]][1] = "use"
    BY <1>13, <2>1
  <2> QED  BY <2>2, <2>3, <2>4, <2>5, HeightsNext
<1> QED  BY <1>14

LEMMA PoppedParts ==
  ASSUME NEW S, NEW s \in Seq(S), NEW n \in Nat
  PROVE  LET t == Popped(s, n)
         IN  /\ t \in Seq(S) /\ Len(t) \in Nat /\ Len(s) \in Nat
             /\ n <= Len(s) => Len(t) = Len(s) - n
             /\ \A j \in 1..Len(t) : t[j] = s[j]
<1> DEFINE m == IF n < Len(s) THEN Len(s) - n ELSE 0
<1>1. m \in Nat /\ m <= Len(s) /\ (n <= Len(s) => m = Len(s) - n) /\ Popped(s, n) = SubSeq(s, 1, m)
      /\ Len(s) \in Nat
  BY DEF Popped
<1> HIDE DEF m
<1>2. \A j \in 1..m : j \in 1..Len(s)
  BY <1>1
<1>3. SubSeq(s, 1, m) \in Seq(S) /\ Len(SubSeq(s, 1, m)) = m
      /\ \A j \in 1..m : SubSeq(s, 1, m)[j] = s[j]
  BY <1>1, <1>2
<1> QED  BY <1>1, <1>3

LEMMA LeaveKeepsHeights ==
  ASSUME FixedInv, PathInv, Leave, UNCHANGED given, Len(path) # 1,
         NEW x \in Vars, NEW s \in Seq(Versions), NEW h, Heights(x, s, h),
         NEW t, t = Popped(s, Pops(given, phis, path[Len(path)], x))
  PROVE  \E i : Heights(x, t, i)'
<1> DEFINE n == Pops(given, phis, path[Len(path)], x)
<1>a. PICK l \in Nat : l = Len(path) /\ l # 0 /\ l # 1
  BY LeaveParts
<1>0. PICK i : i = [k \in 0..l - 1 |-> IF k = l - 1 THEN Len(t) ELSE h[k]]
  OBVIOUS
<1>1. /\ DOMAIN path = 1..l
      /\ Len(path') = l - 1 /\ DOMAIN path' = 1..(l - 1)
      /\ \A k \in DOMAIN path' : path'[k] = path[k]
  BY <1>a, LeaveParts
<1>2. phis' = phis /\ n \in Nat
  BY PopsCount DEF Leave
<1>3. /\ h \in [0..l -> Nat] /\ h[0] = 0 /\ h[l] = Len(s)
      /\ \A j, k \in 0..l : j <= k => h[j] <= h[k]
  BY <1>a DEF Heights
<1>4. /\ l \in DOMAIN path /\ l - 1 \in 0..l /\ l - 1 \in DOMAIN path
      /\ l - 1 # 0 /\ l - 2 \in 0..l /\ l - 2 <= l - 1
  BY <1>a, <1>1
<1>5. /\ h[l - 1] + n <= h[l]
      /\ h[l - 1] + n < h[l] => h[l - 1] = 0 /\ \A j \in 1..(h[l] - n) : s[j][1] = "use"
  BY <1>a, <1>4 DEF Heights
<1> HIDE DEF n
<1>6. /\ Len(s) \in Nat /\ h[l - 1] \in Nat /\ h[l - 2] \in Nat /\ h[l] \in Nat
      /\ h[l - 2] <= h[l - 1]
  BY <1>3, <1>4
<1>7. /\ Len(t) = h[l] - n /\ Len(t) \in Nat /\ \A j \in 1..Len(t) : t[j] = s[j]
  <2>1. t = Popped(s, n) /\ n <= Len(s)
    BY <1>a, <1>2, <1>3, <1>5, <1>6 DEF n
  <2> QED  BY <1>2, <1>3, <2>1, PoppedParts
<1>8. /\ h[l - 1] <= Len(t)
      /\ h[l - 1] < Len(t) => h[l - 1] = 0 /\ \A j \in 1..Len(t) : t[j][1] = "use"
  <2>1. h[l - 1] < Len(t) => h[l - 1] + n < h[l]
    BY <1>2, <1>6, <1>7
  <2>2. h[l - 1] <= Len(t)
    BY <1>2, <1>5, <1>6, <1>7
  <2> QED  BY <1>5, <1>7, <2>1, <2>2
<1>9. /\ i \in [0..l - 1 -> Nat] /\ i[0] = 0 /\ i[l - 1] = Len(t)
      /\ \A k \in 0..l - 2 : i[k] = h[k]
  <2>1. /\ \A k \in 0..l - 1 : k \in 0..l /\ h[k] \in Nat
        /\ 0 \in 0..l - 1 /\ l - 1 \in 0..l - 1
        /\ \A k \in 0..l - 2 : k \in 0..l - 1 /\ k # l - 1
    BY <1>a, <1>3
  <2> QED  BY <1>0, <1>3, <1>4, <1>7, <2>1
<1>10. \A j, k \in 0..l - 1 : j <= k => i[j] <= i[k]
  <2>1. SUFFICES ASSUME NEW j \in 0..l - 1, NEW k \in 0..l - 1, j <= k PROVE i[j] <= i[k]
    OBVIOUS
  <2>2. CASE k = l - 1
    <3>1. j = l - 1 \/ (j \in 0..l - 2 /\ j \in 0..l /\ j <= l - 1)
      BY <1>a
    <3>2. i[j] \in Nat /\ i[k] = Len(t)
      BY <1>9, <2>2
    <3> QED  BY <1>3, <1>4, <1>6, <1>7, <1>8, <1>9, <2>2, <3>1, <3>2
  <2>3. CASE k # l - 1
    <3>1. j \in 0..l - 2 /\ k \in 0..l - 2 /\ j \in 0..l /\ k \in 0..l
      BY <1>a, <2>1, <2>3
    <3> QED  BY <1>3, <1>9, <2>1, <3>1
  <2> QED  BY <2>2, <2>3
<1>11. ASSUME NEW k \in 1..(l - 1)
       PROVE  /\ i[k - 1] + Pops(given, phis, path'[k], x) <= i[k]
              /\ i[k - 1] + Pops(given, phis, path'[k], x) < i[k] =>
                   /\ i[k - 1] = 0
                   /\ \A j \in 1..(i[k] - Pops(given, phis, path'[k], x)) : t[j][1] = "use"
              /\ \A a \in Present(given) :
                   Latest(a, path'[k], x) => i[k] # 0 /\ t[i[k]] = Made(a, x)
              /\ (\A a \in Present(given) : ~Latest(a, path'[k], x)) =>
                   i[k] = 0 \/ t[i[k]][1] = "use"
  <2>1. /\ k \in DOMAIN path /\ k \in 0..l /\ k - 1 \in 0..l - 2 /\ k - 1 \in 0..l
        /\ path'[k] = path[k]
    BY <1>a, <1>1
  <2>2. i[k - 1] = h[k - 1] /\ h[k - 1] \in Nat /\ h[k] \in Nat
    BY <1>3, <1>9, <2>1
  <2>3. Pops(given, phis, path[k], x) \in Nat
    BY PopsCount
  <2>4. h[k] <= Len(t)
    <3>1. h[k] <= h[l - 1]
      <4>1. k <= l - 1
        BY <1>a
      <4> QED  BY <1>3, <1>4, <2>1, <4>1
    <3> QED  BY <1>6, <1>7, <1>8, <2>2, <3>1
  <2>5. CASE i[k] = h[k]
    <3>1. h[k] # 0 => t[h[k]] = s[h[k]]
      BY <1>7, <2>2, <2>4
    <3>2. \A j \in 1..(h[k] - Pops(given, phis, path[k], x)) : t[j] = s[j]
      <4>1. \A m, o \in Nat : m <= Len(t) => 1..(m - o) \subseteq 1..Len(t)
        BY <1>7
      <4>2. 1..(h[k] - Pops(given, phis, path[k], x)) \subseteq 1..Len(t)
        BY <2>2, <2>3, <2>4, <4>1
      <4> QED  BY <1>7, <4>2
    <3>3. /\ h[k - 1] + Pops(given, phis, path[k], x) <= h[k]
          /\ h[k - 1] + Pops(given, phis, path[k], x) < h[k] =>
               /\ h[k - 1] = 0
               /\ \A j \in 1..(h[k] - Pops(given, phis, path[k], x)) : s[j][1] = "use"
          /\ \A a \in Present(given) :
               Latest(a, path[k], x) => h[k] # 0 /\ s[h[k]] = Made(a, x)
          /\ (\A a \in Present(given) : ~Latest(a, path[k], x)) =>
               h[k] = 0 \/ s[h[k]][1] = "use"
      BY <2>1 DEF Heights
    <3> QED  BY <2>1, <2>2, <2>5, <3>1, <3>2, <3>3
  <2>6. CASE i[k] # h[k]
    <3>1. k = l - 1 /\ i[k] = Len(t)
      <4>1. k # l - 1 => k \in 0..l - 2
        BY <1>a
      <4> QED  BY <1>9, <2>6, <4>1
    <3>2. h[k] = 0 /\ \A j \in 1..Len(t) : t[j][1] = "use"
      BY <1>6, <1>7, <1>8, <2>6, <3>1
    <3>3. Pops(given, phis, path[k], x) = 0 /\ h[k - 1] = 0
      <4>1. h[k - 1] + Pops(given, phis, path[k], x) <= h[k]
        BY <2>1 DEF Heights
      <4> QED  BY <2>2, <2>3, <3>2, <4>1
    <3>4. \A a \in Present(given) : ~Latest(a, path[k], x)
      BY <2>1, <3>2 DEF Heights
    <3>5. Len(t) = 0 \/ t[Len(t)][1] = "use"
      BY <1>7, <3>2
    <3>6. 0 <= Len(t) /\ Len(t) - 0 = Len(t)
      BY <1>7
    <3> QED  BY <2>1, <2>2, <3>1, <3>2, <3>3, <3>4, <3>5, <3>6
  <2> QED  BY <2>5, <2>6
<1>12. UNCHANGED <<given, phis>>
  BY <1>2
<1>13. i \in [0..Len(path') -> Nat] /\ i[0] = 0 /\ i[Len(path')] = Len(t)
  BY <1>1, <1>9
<1>14. \A j, k \in 0..Len(path') : j <= k => i[j] <= i[k]
  BY <1>1, <1>10
<1>15. \A k \in DOMAIN path' :
         /\ i[k - 1] + Pops(given, phis, path'[k], x) <= i[k]
         /\ i[k - 1] + Pops(given, phis, path'[k], x) < i[k] =>
              /\ i[k - 1] = 0
              /\ \A j \in 1..(i[k] - Pops(given, phis, path'[k], x)) : t[j][1] = "use"
         /\ \A a \in Present(given) : Latest(a, path'[k], x) => i[k] # 0 /\ t[i[k]] = Made(a, x)
         /\ (\A a \in Present(given) : ~Latest(a, path'[k], x)) => i[k] = 0 \/ t[i[k]][1] = "use"
  BY <1>1, <1>11
<1>16. Heights(x, t, i)'
  BY <1>12, <1>13, <1>14, <1>15, HeightsNext
<1> QED  BY <1>16

-----------------------------------------------------------------------------
LEMMA KeepStacks ==
  ASSUME FixedInv, PhisInv, PathInv, StacksInv, [LocalNext]_localVars
  PROVE  StacksInv'
<1>1. stacks \in [Vars -> Seq(Versions)]
  BY DEF StacksInv
<1>2. CASE \E b \in Blocks : InsertPhis(b) /\ UNCHANGED given
  BY <1>2 DEF InsertPhis, StacksInv
<1>3. CASE StartRenaming /\ UNCHANGED given
  <2>1. /\ pc = "insert" /\ pc' = "rename" /\ stacks' = stacks /\ path' = path /\ path = << >>
        /\ UNCHANGED <<given, phis>>
    BY <1>3 DEF StartRenaming, PathInv
  <2>2. ASSUME NEW x \in Vars
        PROVE  \E h : Heights(x, stacks[x], h)'
    <3>1. stacks[x] = << >>
      BY <2>1 DEF StacksInv
    <3>2. PICK h : h = [k \in 0..0 |-> 0]
      OBVIOUS
    <3>3. /\ h \in [0..0 -> Nat] /\ h[0] = 0 /\ Len(<< >>) = 0 /\ DOMAIN << >> = {}
          /\ \A j, k \in 0..0 : j <= k => h[j] <= h[k]
      BY <3>2
    <3>4. /\ h \in [0..Len(path') -> Nat] /\ h[0] = 0 /\ h[Len(path')] = Len(stacks'[x])
          /\ \A j, k \in 0..Len(path') : j <= k => h[j] <= h[k]
          /\ DOMAIN path' = {}
      BY <2>1, <3>1, <3>3
    <3>5. Heights(x, stacks[x], h)'
      BY <3>4 DEF Heights
    <3> QED  BY <3>5
  <2> QED  BY <1>1, <2>1, <2>2 DEF StacksInv
<1>4. CASE \E b \in Blocks : Enter(b) /\ UNCHANGED given
  <2>1. PICK b \in Blocks : Enter(b) /\ UNCHANGED given
    BY <1>4
  <2>2. /\ pc = "rename" /\ pc' = "rename" /\ b \in Present(given) /\ cfg = given
        /\ stacks' = [x \in Vars |-> Pushed(cfg, phis, b, x, stacks[x])]
    <3>1. pc = "rename" /\ b \in Present(given) /\ cfg = given
      BY <2>1, EnterParts DEF FixedInv
    <3> QED  BY <2>1, <3>1 DEF Enter
  <2>3. ASSUME NEW x \in Vars
        PROVE  stacks'[x] \in Seq(Versions) /\ \E h : Heights(x, stacks[x], h)'
    <3>1. PICK s \in Seq(Versions) : s = stacks[x]
      BY <1>1
    <3>2. PICK h : Heights(x, s, h)
      BY <2>2, <3>1 DEF StacksInv
    <3>3. PICK t : t = Pushed(given, phis, b, x, s)
      OBVIOUS
    <3>4. t = stacks'[x]
      BY <2>2, <3>1, <3>3
    <3>5. \E i : Heights(x, t, i)'
      BY <2>1, <3>2, <3>3, EnterKeepsHeights
    <3>6. t \in Seq(Versions)
      BY <2>2, <3>3, PushedParts
    <3> QED  BY <3>4, <3>5, <3>6
  <2> QED  BY <2>2, <2>3 DEF StacksInv
<1>5. CASE Leave /\ UNCHANGED given
  <2>1. /\ pc = "rename" /\ cfg = given /\ path # << >>
        /\ stacks' = [x \in Vars |-> Popped(stacks[x], Pops(cfg, phis, Top(path), x))]
        /\ pc' = IF Len(path) = 1 THEN "done" ELSE pc
    BY <1>5 DEF Leave, FixedInv
  <2>2. ASSUME NEW x \in Vars
        PROVE  stacks'[x] \in Seq(Versions) /\ (pc' = "rename" => \E h : Heights(x, stacks[x], h)')
    <3>1. PICK s \in Seq(Versions) : s = stacks[x]
      BY <1>1
    <3>2. PICK h : Heights(x, s, h)
      BY <2>1, <3>1 DEF StacksInv
    <3>3. PICK t : t = Popped(s, Pops(given, phis, path[Len(path)], x))
      OBVIOUS
    <3>4. t = stacks'[x]
      BY <2>1, <3>1, <3>3 DEF Top
    <3>5. pc' = "rename" => \E i : Heights(x, t, i)'
      BY <1>5, <2>1, <3>2, <3>3, LeaveKeepsHeights
    <3>6. t \in Seq(Versions)
      BY <3>3, PoppedParts, PopsCount
    <3> QED  BY <3>4, <3>5, <3>6
  <2> QED  BY <2>1, <2>2 DEF StacksInv
<1>6. CASE Elsewhere
  <2>1. CASE pc = "rename"
    <3>1. UNCHANGED <<given, phis, path>> /\ pc' = "rename" /\ stacks' = stacks
      BY <1>6, <2>1 DEF Elsewhere
    <3>2. \A x, s, h : Heights(x, s, h)' <=> Heights(x, s, h)
      BY <3>1, SameNames DEF Heights
    <3> QED  BY <1>1, <2>1, <3>1, <3>2 DEF StacksInv
  <2>2. CASE pc # "rename"
    BY <1>6, <2>2 DEF Elsewhere, StacksInv
  <2> QED  BY <2>1, <2>2
<1> QED  BY <1>2, <1>3, <1>4, <1>5, <1>6, SSAMoves

-----------------------------------------------------------------------------
LEMMA SamePlaces ==
  ASSUME UNCHANGED <<given, phis, parent>>
  PROVE  \A b, x, v : Finds(b, x, v)' <=> Finds(b, x, v)
BY SameNames DEF Finds

LEMMA EnterReads ==
  ASSUME FixedInv, PathInv, StacksInv, NEW b \in Blocks, Enter(b), NEW x \in Vars
  PROVE  Finds(b, x, ReadBy(phis, b, x, stacks[x]))
<1>1. PICK s \in Seq(Versions) : s = stacks[x]
  BY DEF StacksInv
<1>2. /\ pc = "rename" /\ b \in Present(given)
      /\ path = << >> => b = Entry
      /\ path # << >> => b # Entry /\ parent[b] = path[Len(path)]
  BY EnterParts
<1>3. PICK h : Heights(x, s, h)
  BY <1>1, <1>2 DEF StacksInv
<1>4. /\ Version("phi", b) \in Versions /\ Version("use", b) \in Versions
      /\ Version("use", b)[1] = "use"
  BY DEF Version, Versions
<1>5. CASE x \in PhisAt(phis, b)
  BY <1>1, <1>4, <1>5 DEF ReadBy, Finds
<1>6. CASE x \notin PhisAt(phis, b) /\ path = << >>
  <2>1. Len(s) = 0 /\ s = << >>
    BY <1>3, <1>6 DEF Heights
  <2>2. ReadBy(phis, b, x, stacks[x]) = Version("use", b)
    BY <1>1, <1>6, <2>1 DEF ReadBy
  <2> QED  BY <1>2, <1>4, <1>6, <2>2 DEF Finds
<1>7. CASE x \notin PhisAt(phis, b) /\ path # << >>
  <2>1. /\ \A a \in Present(given) : Latest(a, parent[b], x) =>
             Len(s) # 0 /\ s[Len(s)] = Made(a, x)
        /\ (\A a \in Present(given) : ~Latest(a, parent[b], x)) =>
             Len(s) = 0 \/ s[Len(s)][1] = "use"
    BY <1>2, <1>3, <1>7, HeightHere
  <2>2. CASE s = << >>
    <3>1. ReadBy(phis, b, x, stacks[x]) = Version("use", b)
      BY <1>1, <1>7, <2>2 DEF ReadBy
    <3> QED  BY <1>4, <1>7, <2>1, <2>2, <3>1 DEF Finds
  <2>3. CASE s # << >>
    <3>1. ReadBy(phis, b, x, stacks[x]) = s[Len(s)] /\ s[Len(s)] \in Versions /\ Len(s) # 0
      BY <1>1, <1>7, <2>3 DEF ReadBy, Top
    <3> QED  BY <1>2, <1>7, <2>1, <3>1 DEF Finds
  <2> QED  BY <2>2, <2>3
<1> QED  BY <1>5, <1>6, <1>7

LEMMA KeepReads ==
  ASSUME FixedInv, PhisInv, PathInv, StacksInv, ReadsInv, [LocalNext]_localVars
  PROVE  ReadsInv'
<1>1. ASSUME UNCHANGED <<given, phis, parent, renamed, reads>>
      PROVE  ReadsInv'
  BY <1>1, SamePlaces DEF ReadsInv
<1>2. CASE \E b \in Blocks : InsertPhis(b) /\ UNCHANGED given
  <2>1. pc = "insert" /\ UNCHANGED <<given, renamed, reads>>
    BY <1>2 DEF InsertPhis
  <2>2. renamed = {}
    BY <2>1 DEF PathInv
  <2>3. DOMAIN reads = {}
    BY <2>2 DEF ReadsInv
  <2> QED  BY <2>1, <2>2, <2>3 DEF ReadsInv
<1>3. CASE \E b \in Blocks : Enter(b) /\ UNCHANGED given
  <2>1. PICK b \in Blocks : Enter(b) /\ UNCHANGED given
    BY <1>3
  <2>2. pc = "rename" /\ b \in Present(given) /\ b \notin renamed /\ cfg = given
    BY <2>1, EnterParts DEF FixedInv
  <2>3. /\ renamed' = renamed \cup {b} /\ UNCHANGED <<given, phis, parent>>
        /\ reads' = [u \in DOMAIN reads \cup ({b} \X UsesAt(cfg, b)) |->
                 IF u[1] = b THEN ReadBy(phis, b, u[2], stacks[u[2]]) ELSE reads[u]]
    BY <2>1 DEF Enter
  <2>4. DOMAIN reads' = DOMAIN reads \cup ({b} \X UsesAt(given, b))
    BY <2>2, <2>3
  <2>5. UsesAt(given, b) \subseteq Vars
    BY GivenParts
  <2>6. ASSUME NEW u \in DOMAIN reads'
        PROVE  /\ u \in Present(given) \X Vars /\ u[1] \in renamed' /\ u[2] \in UsesAt(given, u[1])
               /\ Finds(u[1], u[2], reads'[u])
    <3>1. CASE u \in DOMAIN reads
      <4>1. /\ u \in Present(given) \X Vars /\ u[1] \in renamed /\ u[2] \in UsesAt(given, u[1])
            /\ Finds(u[1], u[2], reads[u])
        BY <3>1 DEF ReadsInv
      <4>2. reads'[u] = reads[u]
        BY <2>2, <2>3, <2>6, <4>1
      <4> QED  BY <2>3, <4>1, <4>2
    <3>2. CASE u \in {b} \X UsesAt(given, b)
      <4>1. u[1] = b /\ u[2] \in UsesAt(given, b) /\ u[2] \in Vars /\ u \in Present(given) \X Vars
        BY <2>2, <2>5, <3>2
      <4>2. reads'[u] = ReadBy(phis, b, u[2], stacks[u[2]])
        BY <2>3, <2>4, <2>6, <4>1
      <4>3. Finds(b, u[2], ReadBy(phis, b, u[2], stacks[u[2]]))
        BY <2>1, <4>1, EnterReads
      <4> QED  BY <2>3, <4>1, <4>2, <4>3
    <3> QED  BY <2>4, <2>6, <3>1, <3>2
  <2>7. ASSUME NEW c \in renamed', NEW x \in UsesAt(given, c)
        PROVE  <<c, x>> \in DOMAIN reads'
    BY <2>3, <2>4, <2>7 DEF ReadsInv
  <2>8. \A c, x, v : Finds(c, x, v)' <=> Finds(c, x, v)
    BY <2>3, SamePlaces
  <2> QED  BY <2>3, <2>6, <2>7, <2>8 DEF ReadsInv
<1>4. CASE StartRenaming /\ UNCHANGED given
  BY <1>1, <1>4 DEF StartRenaming
<1>5. CASE Leave /\ UNCHANGED given
  BY <1>1, <1>5 DEF Leave
<1>6. CASE Elsewhere
  BY <1>1, <1>6 DEF Elsewhere
<1> QED  BY <1>2, <1>3, <1>4, <1>5, <1>6, SSAMoves

-----------------------------------------------------------------------------
LEMMA EnterArgs ==
  ASSUME FixedInv, PathInv, StacksInv, NEW b \in Blocks, Enter(b), NEW x \in Vars
  PROVE  /\ stacks'[x] # << >> => Passes(b, x, Top(stacks'[x]))
         /\ \A a \in Present(given) : Latest(a, b, x) => stacks'[x] # << >>
<1>1. PICK s \in Seq(Versions) : s = stacks[x]
  BY DEF StacksInv
<1>2. pc = "rename" /\ cfg = given
  BY EnterParts DEF FixedInv
<1>3. PICK h : Heights(x, s, h)
  BY <1>1, <1>2 DEF StacksInv
<1>4. PICK t : t = Pushed(given, phis, b, x, s)
  OBVIOUS
<1>5. t = stacks'[x]
  BY <1>1, <1>2, <1>4 DEF Enter
<1>6. /\ t \in Seq(Versions)
      /\ \A a \in Present(given) : Latest(a, b, x) => Len(t) # 0 /\ t[Len(t)] = Made(a, x)
      /\ (\A a \in Present(given) : ~Latest(a, b, x)) => Len(t) = 0 \/ t[Len(t)][1] = "use"
  BY <1>3, <1>4, EnterTop
<1>7. /\ t # << >> => Len(t) # 0 /\ t[Len(t)] \in Versions
      /\ Len(t) # 0 => t # << >>
  BY <1>6
<1> QED  BY <1>5, <1>6, <1>7 DEF Passes, Top

LEMMA KeepArgs ==
  ASSUME FixedInv, PhisInv, PathInv, StacksInv, ArgsInv, [LocalNext]_localVars
  PROVE  ArgsInv'
<1>0. UNCHANGED <<given, phis>> => \A b, x, v : Passes(b, x, v)' <=> Passes(b, x, v)
  BY SameNames DEF Passes
<1>1. ASSUME UNCHANGED <<given, phis, renamed, args>>
      PROVE  ArgsInv'
  BY <1>0, <1>1, SameNames DEF ArgsInv
<1>2. CASE \E b \in Blocks : InsertPhis(b) /\ UNCHANGED given
  <2>1. pc = "insert" /\ UNCHANGED <<given, renamed, args>>
    BY <1>2 DEF InsertPhis
  <2>2. renamed = {}
    BY <2>1 DEF PathInv
  <2>3. DOMAIN args = {}
    BY <2>2 DEF ArgsInv
  <2> QED  BY <2>1, <2>2, <2>3 DEF ArgsInv
<1>3. CASE \E b \in Blocks : Enter(b) /\ UNCHANGED given
  <2>1. PICK b \in Blocks : Enter(b) /\ UNCHANGED given
    BY <1>3
  <2>2. pc = "rename" /\ b \in Present(given) /\ b \notin renamed /\ cfg = given
    BY <2>1, EnterParts DEF FixedInv
  <2> DEFINE New == {f \in {<<b, s, x>> : s \in Successors(given, b), x \in Vars} :
                       f[3] \in PhisAt(phis, f[2]) /\ stacks'[f[3]] # << >>}
  <2> HIDE DEF New
  <2>3. PICK new : new = New
    OBVIOUS
  <2>4. /\ renamed' = renamed \cup {b} /\ UNCHANGED <<given, phis>>
        /\ args' = [a \in DOMAIN args \cup new |-> IF a[1] = b THEN Top(stacks'[a[3]]) ELSE args[a]]
    BY <2>1, <2>2, <2>3 DEF Enter, New
  <2>5. \A f \in new : /\ f[1] = b /\ f[2] \in Successors(given, b) /\ f[3] \in Vars
                       /\ f[3] \in PhisAt(phis, f[2]) /\ stacks'[f[3]] # << >>
                       /\ f = <<b, f[2], f[3]>>
    BY <2>3 DEF New
  <2>6. Successors(given, b) \subseteq Present(given)
    BY GivenParts DEF Successors, Leaving
  <2>7. DOMAIN args' = DOMAIN args \cup new
    BY <2>4
  <2>8. ASSUME NEW f \in DOMAIN args'
        PROVE  /\ f \in Present(given) \X Present(given) \X Vars /\ f[1] \in renamed'
               /\ f[2] \in Successors(given, f[1]) /\ f[3] \in PhisAt(phis, f[2])
               /\ Passes(f[1], f[3], args'[f])
    <3>1. CASE f \in DOMAIN args
      <4>1. /\ f \in Present(given) \X Present(given) \X Vars /\ f[1] \in renamed
            /\ f[2] \in Successors(given, f[1]) /\ f[3] \in PhisAt(phis, f[2])
            /\ Passes(f[1], f[3], args[f])
        BY <3>1 DEF ArgsInv
      <4>2. args'[f] = args[f]
        BY <2>2, <2>4, <2>8, <4>1
      <4> QED  BY <2>4, <4>1, <4>2
    <3>2. CASE f \in new
      <4>1. /\ f[1] = b /\ f[2] \in Successors(given, b) /\ f[3] \in Vars
            /\ f[3] \in PhisAt(phis, f[2]) /\ stacks'[f[3]] # << >>
            /\ f = <<b, f[2], f[3]>>
        BY <2>5, <3>2
      <4>2. f \in Present(given) \X Present(given) \X Vars
        <5>1. f[2] \in Present(given)
          BY <2>6, <4>1
        <5> QED  BY <2>2, <4>1, <5>1
      <4>3. args'[f] = Top(stacks'[f[3]])
        BY <2>4, <2>7, <2>8, <4>1
      <4>4. Passes(b, f[3], Top(stacks'[f[3]]))
        BY <2>1, <4>1, EnterArgs
      <4> QED  BY <2>4, <4>1, <4>2, <4>3, <4>4
    <3> QED  BY <2>7, <2>8, <3>1, <3>2
  <2>9. ASSUME NEW c \in renamed', NEW s \in Successors(given, c), NEW x \in PhisAt(phis, s),
               \E a \in Present(given) : Latest(a, c, x)
        PROVE  <<c, s, x>> \in DOMAIN args'
    <3>1. CASE c \in renamed
      BY <2>7, <2>9, <3>1 DEF ArgsInv
    <3>2. CASE c = b
      <4>1. x \in Vars
        BY <2>9 DEF PhisInv, PhisAt
      <4>2. stacks'[x] # << >>
        BY <2>1, <2>9, <3>2, <4>1, EnterArgs
      <4>3. <<b, s, x>> \in new
        <5>1. <<b, s, x>>[3] = x /\ <<b, s, x>>[2] = s
          OBVIOUS
        <5> QED  BY <2>3, <2>9, <3>2, <4>1, <4>2, <5>1 DEF New
      <4> QED  BY <2>7, <3>2, <4>3
    <3> QED  BY <2>4, <2>9, <3>1, <3>2
  <2>10. \A c, x, v : Passes(c, x, v)' <=> Passes(c, x, v)
    BY <1>0, <2>4
  <2>11. \A c, a, x : Latest(a, c, x)' <=> Latest(a, c, x)
    BY <2>4, SameNames
  <2> QED  BY <2>4, <2>8, <2>9, <2>10, <2>11 DEF ArgsInv
<1>4. CASE StartRenaming /\ UNCHANGED given
  BY <1>1, <1>4 DEF StartRenaming
<1>5. CASE Leave /\ UNCHANGED given
  BY <1>1, <1>5 DEF Leave
<1>6. CASE Elsewhere
  BY <1>1, <1>6 DEF Elsewhere
<1> QED  BY <1>2, <1>3, <1>4, <1>5, <1>6, SSAMoves

LEMMA KeepSSA ==
  ASSUME SSAInv, [LocalNext]_localVars
  PROVE  SSAInv'
BY KeepFixed, KeepPhis, KeepPath, KeepStacks, KeepReads, KeepArgs DEF SSAInv

LEMMA SSAInductive == LocalSpec => []SSAInv
<1>1. LocalInit => SSAInv
  BY InitSSA
<1>2. SSAInv /\ [LocalNext]_localVars => SSAInv'
  BY KeepSSA
<1> QED  BY <1>1, <1>2, PTL DEF LocalSpec

-----------------------------------------------------------------------------
(* A version is made above whatever reads it.                              *)
LEMMA InvDominated ==
  ASSUME SSAInv
  PROVE  UsesDominated
<1>1. /\ FixedInv /\ PhisInv
      /\ Rooted(given, Entry)
  BY GivenParts DEF SSAInv
<1>2. \A a, x : Made(a, x)[2] = a
  BY DEF Made, Version
<1>3. \A a, b \in Present(given) : b \in below[a] <=> Above(a, b)
  BY <1>1 DEF FixedInv, Above, Dominates
<1>4. ASSUME NEW u \in DOMAIN reads, reads[u][1] # "use"
      PROVE  u[1] \in below[reads[u][2]]
  <2>1. u[1] \in Present(given) /\ Finds(u[1], u[2], reads[u])
    BY DEF SSAInv, ReadsInv
  <2>2. CASE u[2] \in PhisAt(phis, u[1])
    <3>1. reads[u][2] = u[1]
      BY <2>1, <2>2 DEF Finds, Version
    <3> QED  BY <1>1, <1>3, <2>1, <3>1, AboveOrder
  <2>3. CASE u[2] \notin PhisAt(phis, u[1])
    <3>1. PICK a \in Present(given) :
            u[1] # Entry /\ Latest(a, parent[u[1]], u[2]) /\ reads[u] = Made(a, u[2])
      BY <1>4, <2>1, <2>3 DEF Finds
    <3>2. Above(a, u[1])
      BY <1>1, <2>1, <3>1, ParentIs DEF Latest
    <3> QED  BY <1>2, <1>3, <2>1, <3>1, <3>2
  <2> QED  BY <2>2, <2>3
<1>5. ASSUME NEW f \in DOMAIN args, args[f][1] # "use"
      PROVE  f[1] \in below[args[f][2]]
  <2>1. f[1] \in Present(given) /\ Passes(f[1], f[3], args[f])
    BY DEF SSAInv, ArgsInv
  <2>2. PICK a \in Present(given) : Latest(a, f[1], f[3]) /\ args[f] = Made(a, f[3])
    BY <1>5, <2>1 DEF Passes
  <2> QED  BY <1>2, <1>3, <2>1, <2>2 DEF Latest
<1> QED  BY <1>4, <1>5 DEF UsesDominated

(* ssa_consistency_check, for any graph: what rename_vars gives a use was  *)
(* made above it, and what it gives an argument of a phi was made above    *)
(* the block the edge comes from.                                          *)
THEOREM UsesDominatedHolds == LocalSpec => []UsesDominated
  BY SSAInductive, InvDominated, PTL

-----------------------------------------------------------------------------
(* rename_vars gets to every block.                                        *)
LEMMA AllRenamed ==
  ASSUME SSAInv, pc \notin {"insert", "rename"}
  PROVE  renamed = Present(given)
<1>1. /\ FixedInv /\ Rooted(given, Entry) /\ DOMAIN parent = Present(given) \ {Entry}
      /\ IsFiniteSet(Present(given))
  BY GivenParts DEF SSAInv, Rooted
<1>2. /\ renamed \subseteq Present(given) /\ Entry \in renamed
      /\ \A b \in renamed : Children(b) \subseteq renamed
  BY DEF SSAInv, PathInv
<1> DEFINE size(b) == Cardinality(Dominated(given, Entry)[b])
           S == Present(given) \ renamed
           depths == {Cardinality(Present(given)) - size(b) : b \in S}
<1>3. SUFFICES ASSUME S # {} PROVE FALSE
  BY <1>2
<1>4. \A b \in Present(given) : size(b) \in Nat /\ size(b) <= Cardinality(Present(given))
                                /\ Cardinality(Present(given)) \in Nat
  BY <1>1, DominatedFinite, FS_CardinalityType, FS_Subset
<1> HIDE DEF size
<1>5. depths \in SUBSET Nat /\ depths # {}
  <2>1. \A b \in S : Cardinality(Present(given)) - size(b) \in Nat
    BY <1>4
  <2> QED  BY <1>3, <2>1
<1>6. PICK n \in depths : \A m \in depths : n <= m
  <2> HIDE DEF depths
  <2> QED  BY <1>5, HasFirst
<1>7. PICK b \in S : n = Cardinality(Present(given)) - size(b)
  OBVIOUS
<1>8. b \in Present(given) \ {Entry}
  BY <1>2
<1>9. parent[b] \in Present(given) /\ parent[b] # b /\ Above(parent[b], b)
  BY <1>1, <1>8, ParentIs
<1>10. size(b) < size(parent[b])
  BY <1>1, <1>8, <1>9, HigherDominatesMore DEF Above, size
<1>11. parent[b] \notin S
  <2>1. \A c \in S : n <= Cardinality(Present(given)) - size(c)
    BY <1>6
  <2>2. parent[b] \in S => size(parent[b]) <= size(b)
    BY <1>4, <1>7, <1>8, <1>9, <2>1
  <2> QED  BY <1>4, <1>8, <1>9, <1>10, <2>2
<1>12. b \in Children(parent[b])
  BY <1>1, <1>8 DEF Children
<1> QED  BY <1>2, <1>9, <1>11, <1>12

-----------------------------------------------------------------------------
(* The versions of x that others were given, and the ones v leads back to. *)
Given(x) == {args[a] : a \in {a \in DOMAIN args : a[3] = x}}
              \cup {reads[u] : u \in {u \in DOMAIN reads : u[2] = x}}
LeadsTo(x, v) ==
  {w \in {v} \cup Given(x) :
     \A S \in SUBSET ({v} \cup Given(x)) :
       v \in S /\ (\A y \in S : Behind(x, y) \subseteq S) => w \in S}
Readable(x, v) == v[1] = "may" => <<v[2], x>> \in DOMAIN reads

LEMMA StandsForIs ==
  ASSUME NEW x, NEW v
  PROVE  StandsFor(x, v) = {w[2] : w \in {w \in LeadsTo(x, v) : w[1] \in {"def", "may"}}}
<1> DEFINE There == {v} \cup {args[a] : a \in {a \in DOMAIN args : a[3] = x}}
                       \cup {reads[u] : u \in {u \in DOMAIN reads : u[2] = x}}
           Closed == {S \in SUBSET There : v \in S /\ \A w \in S : Behind(x, w) \subseteq S}
           Last == {w \in There : w[1] \in {"def", "may"} /\ \A S \in Closed : w \in S}
<1>1. There = {v} \cup Given(x)
  BY DEF Given
<1>2. StandsFor(x, v) = {w[2] : w \in Last}
  BY DEF StandsFor
<1>3. LeadsTo(x, v) = {w \in There : \A S \in Closed : w \in S}
  <2> HIDE DEF There
  <2> QED  BY <1>1 DEF LeadsTo
<1>4. Last = {w \in LeadsTo(x, v) : w[1] \in {"def", "may"}}
  <2> HIDE DEF There, Closed
  <2> QED  BY <1>3
<1> QED  BY <1>2, <1>4

LEMMA BehindGiven ==
  ASSUME NEW x, NEW v, Readable(x, v)
  PROVE  Behind(x, v) \subseteq Given(x)
<1>1. CASE v[1] = "phi"
  BY <1>1 DEF Behind, Given
<1>2. CASE v[1] = "may"
  <2>1. <<v[2], x>> \in DOMAIN reads /\ <<v[2], x>>[2] = x
    BY <1>2 DEF Readable
  <2> QED  BY <1>2, <2>1 DEF Behind, Given
<1>3. CASE v[1] \notin {"phi", "may"}
  BY <1>3 DEF Behind
<1> QED  BY <1>1, <1>2, <1>3

LEMMA LeadsLeast ==
  ASSUME NEW x, NEW v, NEW S, v \in S, \A w \in S : Behind(x, w) \subseteq S /\ Readable(x, w)
  PROVE  LeadsTo(x, v) \subseteq S
<1> DEFINE T == S \cap ({v} \cup Given(x))
<1>1. T \in SUBSET ({v} \cup Given(x)) /\ v \in T
  OBVIOUS
<1>2. \A y \in T : Behind(x, y) \subseteq T
  BY BehindGiven
<1> HIDE DEF T
<1>3. LeadsTo(x, v) \subseteq T
  BY <1>1, <1>2 DEF LeadsTo
<1> QED  BY <1>3 DEF T

LEMMA LeadsClosed ==
  ASSUME NEW x, NEW v, Readable(x, v), \A w \in Given(x) : Readable(x, w)
  PROVE  /\ v \in LeadsTo(x, v) /\ \A w \in LeadsTo(x, v) : Behind(x, w) \subseteq LeadsTo(x, v)
         /\ LeadsTo(x, v) \subseteq {v} \cup Given(x)
<1>1. v \in LeadsTo(x, v) /\ LeadsTo(x, v) \subseteq {v} \cup Given(x)
  BY DEF LeadsTo
<1>2. ASSUME NEW w \in LeadsTo(x, v), NEW y \in Behind(x, w)
      PROVE  y \in LeadsTo(x, v)
  <2>1. y \in Given(x)
    BY <1>1, <1>2, BehindGiven
  <2>2. \A S \in SUBSET ({v} \cup Given(x)) :
          v \in S /\ (\A z \in S : Behind(x, z) \subseteq S) => y \in S
    BY <1>2 DEF LeadsTo
  <2> QED  BY <2>1, <2>2 DEF LeadsTo
<1> QED  BY <1>1, <1>2

LEMMA StandsForItself ==
  ASSUME NEW x, NEW v, v[1] \in {"def", "may"}
  PROVE  v[2] \in StandsFor(x, v)
<1>1. v \in LeadsTo(x, v)
  BY DEF LeadsTo
<1> QED  BY <1>1, StandsForIs

LEMMA StandsForBehind ==
  ASSUME NEW x, NEW v, Readable(x, v), \A w \in Given(x) : Readable(x, w), NEW w \in Behind(x, v)
  PROVE  StandsFor(x, w) \subseteq StandsFor(x, v)
<1>1. /\ v \in LeadsTo(x, v) /\ \A y \in LeadsTo(x, v) : Behind(x, y) \subseteq LeadsTo(x, v)
      /\ LeadsTo(x, v) \subseteq {v} \cup Given(x)
  BY LeadsClosed
<1>2. w \in LeadsTo(x, v) /\ \A y \in LeadsTo(x, v) : Readable(x, y)
  BY <1>1
<1>3. LeadsTo(x, w) \subseteq LeadsTo(x, v)
  <2>1. PICK S : S = LeadsTo(x, v)
    OBVIOUS
  <2>2. w \in S /\ \A y \in S : Behind(x, y) \subseteq S /\ Readable(x, y)
    BY <1>1, <1>2, <2>1
  <2>3. LeadsTo(x, w) \subseteq S
    BY <2>2, LeadsLeast
  <2> QED  BY <2>1, <2>3
<1> QED  BY <1>3, StandsForIs

LEMMA StandsForUnfold ==
  ASSUME NEW x, NEW v, Readable(x, v), \A w \in Given(x) : Readable(x, w), NEW d \in StandsFor(x, v)
  PROVE  (v[1] \in {"def", "may"} /\ d = v[2]) \/ \E w \in Behind(x, v) : d \in StandsFor(x, w)
<1>1. PICK y \in LeadsTo(x, v) : y[1] \in {"def", "may"} /\ d = y[2]
  BY StandsForIs
<1> DEFINE S == {v} \cup UNION {LeadsTo(x, w) : w \in Behind(x, v)}
<1>2. \A w \in Behind(x, v) : Readable(x, w)
  BY BehindGiven
<1>3. \A w \in Behind(x, v) :
        /\ w \in LeadsTo(x, w) /\ \A z \in LeadsTo(x, w) : Behind(x, z) \subseteq LeadsTo(x, w)
        /\ LeadsTo(x, w) \subseteq {w} \cup Given(x)
  BY <1>2, LeadsClosed
<1>4. \A z \in S : Behind(x, z) \subseteq S /\ Readable(x, z)
  BY <1>2, <1>3
<1>5. y \in S
  <2>1. v \in S
    OBVIOUS
  <2> HIDE DEF S
  <2> QED  BY <1>4, <2>1, LeadsLeast
<1> QED  BY <1>1, <1>5, StandsForIs

-----------------------------------------------------------------------------
Converted == SSAInv /\ pc \notin {"insert", "rename"}

LEMMA ConvertedParts ==
  ASSUME Converted
  PROVE  /\ FixedInv /\ PhisInv /\ todo = {} /\ renamed = Present(given)
         /\ \A u \in DOMAIN reads :
              /\ u \in Present(given) \X Vars /\ u[2] \in UsesAt(given, u[1])
              /\ Finds(u[1], u[2], reads[u])
         /\ \A b \in Present(given) : \A x \in UsesAt(given, b) : <<b, x>> \in DOMAIN reads
         /\ \A f \in DOMAIN args :
              /\ f \in Present(given) \X Present(given) \X Vars
              /\ f[2] \in Successors(given, f[1]) /\ f[3] \in PhisAt(phis, f[2])
              /\ Passes(f[1], f[3], args[f])
         /\ \A b \in Present(given) : \A s \in Successors(given, b) : \A x \in PhisAt(phis, s) :
              (\E a \in Present(given) : Latest(a, b, x)) => <<b, s, x>> \in DOMAIN args
BY AllRenamed DEF Converted, SSAInv, PhisInv, ReadsInv, ArgsInv

(* A may-definition reads what it may leave. *)
LEMMA MadeKnown ==
  ASSUME Converted, NEW a \in Present(given), NEW x
  PROVE  /\ Readable(x, Made(a, x)) /\ Made(a, x)[2] = a
         /\ x \in MayDefs(given.stmt[a]) =>
              Made(a, x) = Version("may", a) /\ <<a, x>> \in DOMAIN reads
         /\ x \in AnyDefs(given, a) => Made(a, x)[1] \in {"def", "may"}
         /\ x \notin AnyDefs(given, a) => Made(a, x) = Version("phi", a)
<1>1. given.stmt[a] \in Statement /\ given.stmt[Exit] = Empty
  BY ConvertedParts, GivenParts
<1>2. x \in MayDefs(given.stmt[a]) => x \in UsesAt(given, a) /\ x \notin Defs(given.stmt[a])
  <2>1. MayDefs(Empty) = {}
    BY DEF MayDefs, Empty
  <2> QED  BY <1>1, <2>1, StatementNames DEF MayDefs, UsesAt, Uses
<1>3. x \in MayDefs(given.stmt[a]) => <<a, x>> \in DOMAIN reads
  BY <1>2, ConvertedParts
<1>4. CASE x \in Defs(given.stmt[a])
  BY <1>2, <1>4 DEF Made, Readable, Version, AnyDefs
<1>5. CASE x \notin Defs(given.stmt[a]) /\ x \in MayDefs(given.stmt[a])
  BY <1>3, <1>5 DEF Made, Readable, Version, AnyDefs
<1>6. CASE x \notin Defs(given.stmt[a]) /\ x \notin MayDefs(given.stmt[a])
  BY <1>6 DEF Made, Readable, Version, AnyDefs
<1> QED  BY <1>4, <1>5, <1>6

LEMMA GivenKnown ==
  ASSUME Converted, NEW x
  PROVE  \A w \in Given(x) : Readable(x, w)
<1>1. ASSUME NEW f \in DOMAIN args, f[3] = x
      PROVE  Readable(x, args[f])
  <2>1. Passes(f[1], x, args[f])
    BY <1>1, ConvertedParts
  <2>2. args[f][1] = "use" \/ \E a \in Present(given) : args[f] = Made(a, x)
    BY <2>1 DEF Passes
  <2> QED  BY <2>2, MadeKnown DEF Readable
<1>2. ASSUME NEW u \in DOMAIN reads, u[2] = x
      PROVE  Readable(x, reads[u])
  <2>1. Finds(u[1], x, reads[u])
    BY <1>2, ConvertedParts
  <2>2. reads[u][1] \in {"use", "phi"} \/ \E a \in Present(given) : reads[u] = Made(a, x)
    BY <2>1 DEF Finds, Version
  <2> QED  BY <2>2, MadeKnown DEF Readable
<1> QED  BY <1>1, <1>2 DEF Given

-----------------------------------------------------------------------------
(* What phi nodes are for: where none is, what came over an edge is what   *)
(* was above.                                                              *)
LEMMA EdgeLatest ==
  ASSUME FixedInv, PhisInv, todo = {}, NEW x \in Vars, NEW e \in given.edges, NEW r,
         Latest(r, e.source, x), x \notin PhisAt(phis, e.target), r # e.target
  PROVE  e.target # Entry /\ Latest(r, parent[e.target], x)
<1>1. /\ Rooted(given, Entry) /\ e.source \in Present(given) /\ e.target \in Present(given)
      /\ r \in Present(given) /\ Makes(r, x) /\ Above(r, e.source)
  BY GivenParts DEF Latest
<1>2. e.target # Entry
  <2>1. Entering(given, Entry) = {}
    BY GivenParts DEF Connected, Consistent
  <2> QED  BY <2>1 DEF Entering
<1>3. e.target \notin Df(given, Dominated(given, Entry), Entry, r)
  <2>1. df[r] \X {x} \subseteq phis
    <3>1. r \in Present(given) \ todo
      BY <1>1
    <3> QED  BY <1>1, <3>1 DEF PhisInv
  <2>2. e.target \notin df[r]
    <3>1. <<e.target, x>> \notin phis
      <4>1. <<e.target, x>>[1] = e.target /\ <<e.target, x>>[2] = x
        OBVIOUS
      <4> QED  BY <4>1 DEF PhisAt
    <3> QED  BY <2>1, <3>1
  <2> QED  BY <1>1, <2>2 DEF FixedInv
<1>4. Above(r, parent[e.target])
  BY <1>1, <1>2, <1>3, Frontier DEF FixedInv, Above
<1>5. ASSUME NEW c \in Present(given), Makes(c, x), Above(c, parent[e.target])
      PROVE  Above(c, r)
  <2>1. /\ parent[e.target] \in Present(given) /\ parent[e.target] # e.target
        /\ Above(parent[e.target], e.target)
    BY <1>1, <1>2, ParentIs
  <2>2. Above(c, e.target) /\ c # e.target
    BY <1>1, <1>5, <2>1, AboveOrder
  <2>3. Above(c, e.source)
    BY <1>1, <2>2, DominatesPredecessor DEF Above
  <2> QED  BY <1>5, <2>3 DEF Latest
<1> QED  BY <1>1, <1>2, <1>4, <1>5 DEF Latest

LEMMA EnteredLatest ==
  ASSUME FixedInv, PhisInv, todo = {}, NEW x \in Vars, NEW c \in Present(given) \ {Entry},
         x \notin PhisAt(phis, c), NEW r, Latest(r, parent[c], x)
  PROVE  \E e \in given.edges : e.target = c /\ Latest(r, e.source, x)
<1>1. /\ Rooted(given, Entry) /\ r \in Present(given) /\ Makes(r, x) /\ Above(r, parent[c])
      /\ parent[c] \in Present(given) /\ parent[c] # c /\ Above(parent[c], c)
  BY GivenParts, ParentIs DEF Latest
<1>2. Above(r, c) /\ r # c
  BY <1>1, AboveOrder
<1>3. PICK e \in given.edges : e.target = c /\ ~Above(c, e.source)
  BY <1>1, EnteredFromAbove DEF Above
<1>4. Above(r, e.source) /\ e.source \in Present(given)
  BY <1>1, <1>2, <1>3, DominatesPredecessor, GivenParts DEF Above
<1>5. PICK q : Latest(q, e.source, x)
  BY <1>1, <1>4, LatestExists
<1>6. q # c
  BY <1>3, <1>5 DEF Latest
<1>7. Latest(q, parent[c], x)
  BY <1>3, <1>5, <1>6, EdgeLatest
<1>8. q = r
  BY <1>1, <1>7, LatestUnique
<1> QED  BY <1>3, <1>5, <1>8

(* ... and a run comes to it from what made it, past nothing that makes    *)
(* another.                                                                *)
LEMMA PathFromLatest ==
  ASSUME FixedInv, PhisInv, todo = {}, NEW x \in Vars, NEW p \in Present(given), NEW r,
         Latest(r, p, x), NEW g,
         \A e \in given.edges : e.source = r \/ ~Makes(e.source, x) => e \in g.edges
  PROVE  p \in Reach(g, r, {})
<1> DEFINE S == {c \in Present(given) : Latest(r, c, x) => c \in Reach(g, r, {})}
<1>1. /\ Rooted(given, Entry) /\ r \in Present(given) /\ Makes(r, x)
      /\ Reach(given, Entry, {}) = Present(given) /\ Entry \in Present(given)
      /\ r \in Reach(g, r, {})
  BY GivenParts, Reached DEF Latest, Connected
<1>2. Entry \in S
  BY <1>1, AboveOrder DEF Latest
<1>3. ASSUME NEW e \in given.edges, e.source \in S
      PROVE  e.target \in S
  <2>1. e.source \in Present(given) /\ e.target \in Present(given)
    BY GivenParts
  <2>2. SUFFICES ASSUME Latest(r, e.target, x), e.target # r PROVE e.target \in Reach(g, r, {})
    BY <1>1, <2>1
  <2>3. ~Makes(e.target, x)
    BY <2>1, <2>2, LatestHere, LatestUnique
  <2>4. Above(r, e.source)
    BY <1>1, <2>1, <2>2, DominatesPredecessor DEF Above, Latest
  <2>5. PICK q : Latest(q, e.source, x)
    BY <1>1, <2>1, <2>4, LatestExists
  <2>6. q # e.target /\ x \notin PhisAt(phis, e.target)
    BY <2>3, <2>5 DEF Latest, Makes
  <2>7. e.target # Entry /\ Latest(q, parent[e.target], x)
    BY <2>5, <2>6, EdgeLatest
  <2>8. Latest(q, e.target, x)
    BY <2>1, <2>3, <2>7, LatestThere
  <2>9. q = r
    BY <2>1, <2>2, <2>8, LatestUnique
  <2>10. e.source \in Reach(g, r, {})
    BY <1>3, <2>5, <2>9
  <2>11. e.source = r \/ ~Makes(e.source, x)
    BY <2>1, <2>5, <2>9, LatestHere, LatestUnique
  <2> QED  BY <2>10, <2>11, Reached
<1>4. Reach(given, Entry, {}) \subseteq S
  <2> HIDE DEF S
  <2> QED  BY <1>2, <1>3, ReachLeast
<1> QED  BY <1>1, <1>4

-----------------------------------------------------------------------------
LEMMA LastStep ==
  ASSUME NEW g, NEW c, NEW b \in Reach(g, c, {}), b # c
  PROVE  \E e \in g.edges : e.target = b /\ e.source \in Reach(g, c, {})
<1> DEFINE S == Reach(g, c, {}) \ {b}
<1>1. SUFFICES ASSUME \A e \in g.edges : e.target = b => e.source \notin Reach(g, c, {})
               PROVE  FALSE
  OBVIOUS
<1>2. c \in S /\ \A e \in g.edges : e.source \in S => e.target \in S \cup {}
  BY <1>1, Reached
<1>3. Reach(g, c, {}) \subseteq S
  <2> HIDE DEF S
  <2> QED  BY <1>2, ReachLeast
<1> QED  BY <1>3

LEMMA ReachMore ==
  ASSUME NEW g, NEW h, \A e \in g.edges : e \in h.edges, NEW r, NEW p \in Reach(h, r, {})
  PROVE  Reach(g, p, {}) \subseteq Reach(h, r, {})
BY Reached, ReachLeast

-----------------------------------------------------------------------------
(* The ways past what kills x, and the ones that start from d.             *)
Past(x) == [given EXCEPT !.edges = {e \in @ : e.source \notin Kills(given, x)}]
From(d, x) == [given EXCEPT !.edges = {e \in @ : e.source = d \/ e.source \notin Kills(given, x)}]

LEMMA WaysAre ==
  ASSUME FixedInv, NEW x, NEW d
  PROVE  /\ Past(x).edges = {e \in given.edges : e.source \notin Kills(given, x)}
         /\ From(d, x).edges =
              {e \in given.edges : e.source = d \/ e.source \notin Kills(given, x)}
         /\ \A b : d \in Reaching(given, b, x) <=>
              /\ d \in Present(given) /\ x \in AnyDefs(given, d)
              /\ \E e \in From(d, x).edges : e.target = b /\ e.source \in Reach(From(d, x), d, {})
         /\ \A b \in Present(given) : b \in Kills(given, x) => Makes(b, x)
<1>1. given \in Graph
  BY GivenParts
<1>2. /\ Past(x).edges = {e \in given.edges : e.source \notin Kills(given, x)}
      /\ From(d, x).edges =
           {e \in given.edges : e.source = d \/ e.source \notin Kills(given, x)}
  BY <1>1 DEF Past, From, Graph
<1>3. \A b : d \in Reaching(given, b, x) <=>
              /\ d \in Present(given) /\ x \in AnyDefs(given, d)
              /\ Predecessors(From(d, x), b) \cap Reach(From(d, x), d, {}) # {}
  BY DEF Reaching, From
<1>4. \A b : Predecessors(From(d, x), b) =
               {e.source : e \in {e \in From(d, x).edges : e.target = b}}
  BY DEF Predecessors, Entering
<1>5. \A b : Predecessors(From(d, x), b) \cap Reach(From(d, x), d, {}) # {} <=>
               \E e \in From(d, x).edges : e.target = b /\ e.source \in Reach(From(d, x), d, {})
  BY <1>4
<1>6. \A b \in Present(given) : b \in Kills(given, x) => Makes(b, x)
  BY DEF Kills, Makes, AnyDefs
<1> QED  BY <1>2, <1>3, <1>5, <1>6

LEMMA FlowsOver ==
  ASSUME Converted, NEW x \in Vars, NEW e \in given.edges, NEW r, Latest(r, e.source, x),
         NEW b \in Reach(Past(x), e.target, {})
  PROVE  /\ x \in AnyDefs(given, r) => r \in Reaching(given, b, x)
         /\ x \notin AnyDefs(given, r) => b \in Reach(Past(x), r, {})
<1>1. /\ FixedInv /\ PhisInv /\ todo = {} /\ e.source \in Present(given) /\ r \in Present(given)
  BY ConvertedParts, GivenParts DEF Latest
<1>2. \A f \in given.edges : f.source = r \/ ~Makes(f.source, x) => f \in From(r, x).edges
  BY <1>1, WaysAre, GivenParts
<1>3. e.source \in Reach(From(r, x), r, {})
  BY <1>1, <1>2, PathFromLatest
<1>4. e \in From(r, x).edges
  <2>1. e.source = r \/ ~Makes(e.source, x)
    BY <1>1, LatestHere, LatestUnique
  <2> QED  BY <1>2, <2>1
<1>5. e.target \in Reach(From(r, x), r, {})
  BY <1>3, <1>4, Reached
<1>6. \A f \in Past(x).edges : f \in From(r, x).edges
  BY <1>1, WaysAre
<1>7. CASE x \in AnyDefs(given, r)
  <2>1. CASE b = e.target
    BY <1>1, <1>3, <1>4, <1>7, <2>1, WaysAre
  <2>2. CASE b # e.target
    <3>1. PICK f \in Past(x).edges : f.target = b /\ f.source \in Reach(Past(x), e.target, {})
      BY <2>2, LastStep
    <3>2. f.source \in Reach(From(r, x), r, {})
      BY <1>5, <1>6, <3>1, ReachMore
    <3> QED  BY <1>1, <1>6, <1>7, <3>1, <3>2, WaysAre
  <2> QED  BY <2>1, <2>2
<1>8. CASE x \notin AnyDefs(given, r)
  <2>1. r \notin Kills(given, x)
    BY <1>8 DEF Kills, AnyDefs
  <2>2. \A f \in From(r, x).edges : f \in Past(x).edges
    BY <1>1, <2>1, WaysAre
  <2>3. Reach(From(r, x), r, {}) \subseteq Reach(Past(x), r, {})
    BY <2>2, ReachMore, Reached
  <2> QED  BY <1>5, <1>6, <1>8, <2>3, ReachMore
<1> QED  BY <1>7, <1>8

-----------------------------------------------------------------------------
(* The versions whose definitions may come to b. *)
Sound(b, x) ==
  {w \in Versions :
     /\ w[1] \in {"def", "may"} => w[2] \in Reaching(given, b, x)
     /\ w[1] = "may" => x \in MayDefs(given.stmt[w[2]])
     /\ w[1] = "phi" => b \in Reach(Past(x), w[2], {})}

LEMMA MadeSound ==
  ASSUME Converted, NEW x \in Vars, NEW e \in given.edges, NEW r, Latest(r, e.source, x),
         NEW b \in Reach(Past(x), e.target, {})
  PROVE  Made(r, x) \in Sound(b, x)
<1>1. /\ x \in AnyDefs(given, r) => r \in Reaching(given, b, x)
      /\ x \notin AnyDefs(given, r) => b \in Reach(Past(x), r, {})
  BY FlowsOver
<1>2. r \in Blocks /\ r \in Present(given)
  BY ConvertedParts, GivenParts DEF Latest
<1>3. CASE x \in Defs(given.stmt[r])
  BY <1>1, <1>2, <1>3 DEF Made, Version, Versions, Sound, AnyDefs
<1>4. CASE x \notin Defs(given.stmt[r]) /\ x \in MayDefs(given.stmt[r])
  BY <1>1, <1>2, <1>4 DEF Made, Version, Versions, Sound, AnyDefs
<1>5. CASE x \notin Defs(given.stmt[r]) /\ x \notin MayDefs(given.stmt[r])
  BY <1>1, <1>2, <1>5 DEF Made, Version, Versions, Sound, AnyDefs
<1> QED  BY <1>3, <1>4, <1>5

LEMMA UseSound ==
  ASSUME NEW v \in Versions, v[1] = "use", NEW b, NEW x
  PROVE  v \in Sound(b, x)
BY DEF Sound

LEMMA FoundSound ==
  ASSUME Converted, NEW x \in Vars, NEW c \in Present(given), NEW v, Finds(c, x, v),
         NEW b \in Reach(Past(x), c, {})
  PROVE  v \in Sound(b, x)
<1>1. FixedInv /\ PhisInv /\ todo = {}
  BY ConvertedParts
<1>2. CASE x \in PhisAt(phis, c)
  BY <1>2 DEF Finds, Sound, Version
<1>3. CASE x \notin PhisAt(phis, c) /\ v[1] = "use"
  BY <1>3, UseSound DEF Finds
<1>4. CASE x \notin PhisAt(phis, c) /\ v[1] # "use"
  <2>1. PICK a \in Present(given) : c # Entry /\ Latest(a, parent[c], x) /\ v = Made(a, x)
    BY <1>4 DEF Finds
  <2>2. PICK e \in given.edges : e.target = c /\ Latest(a, e.source, x)
    BY <1>1, <1>4, <2>1, EnteredLatest
  <2> QED  BY <2>1, <2>2, MadeSound
<1> QED  BY <1>2, <1>3, <1>4

LEMMA BehindSound ==
  ASSUME Converted, NEW x \in Vars, NEW b \in Present(given), NEW w \in Sound(b, x)
  PROVE  Behind(x, w) \subseteq Sound(b, x) /\ Readable(x, w)
<1>1. FixedInv /\ w \in Versions
  BY ConvertedParts DEF Sound
<1>2. CASE w[1] = "may"
  <2>1. w[2] \in Reaching(given, b, x) /\ x \in MayDefs(given.stmt[w[2]])
    BY <1>2 DEF Sound
  <2>2. PICK d : d = w[2]
    OBVIOUS
  <2>3. /\ d \in Present(given)
        /\ \E e \in From(d, x).edges : e.target = b /\ e.source \in Reach(From(d, x), d, {})
    BY <1>1, <2>1, <2>2, WaysAre
  <2>4. <<d, x>> \in DOMAIN reads
    BY <2>1, <2>2, <2>3, MadeKnown
  <2>5. d \notin Kills(given, x)
    <3>1. given.stmt[d] \in Statement
      BY <1>1, <2>3, GivenParts
    <3> QED  BY <2>1, <2>2, <3>1, StatementNames DEF Kills
  <2>6. From(d, x).edges = Past(x).edges
    <3>1. /\ Past(x).edges = {e \in given.edges : e.source \notin Kills(given, x)}
          /\ From(d, x).edges =
               {e \in given.edges : e.source = d \/ e.source \notin Kills(given, x)}
      BY <1>1, WaysAre
    <3> QED  BY <2>5, <3>1
  <2>7. Reach(From(d, x), d, {}) \subseteq Reach(Past(x), d, {})
    BY <2>6, ReachMore, Reached
  <2>8. b \in Reach(Past(x), d, {})
    BY <2>3, <2>6, <2>7, Reached
  <2>9. Finds(d, x, reads[<<d, x>>])
    BY <2>4, ConvertedParts
  <2>10. reads[<<d, x>>] \in Sound(b, x)
    BY <2>3, <2>8, <2>9, FoundSound
  <2>11. Behind(x, w) = {reads[<<d, x>>]}
    BY <1>2, <2>2 DEF Behind
  <2>12. Readable(x, w)
    BY <2>2, <2>4 DEF Readable
  <2> QED  BY <2>10, <2>11, <2>12
<1>3. CASE w[1] = "phi"
  <2>1. b \in Reach(Past(x), w[2], {})
    BY <1>3 DEF Sound
  <2>2. ASSUME NEW f \in DOMAIN args, f[2] = w[2], f[3] = x
        PROVE  args[f] \in Sound(b, x)
    <3>1. f[1] \in Present(given) /\ f[2] \in Successors(given, f[1]) /\ Passes(f[1], x, args[f])
      BY <2>2, ConvertedParts
    <3>2. PICK e \in given.edges : e.source = f[1] /\ e.target = w[2]
      BY <2>2, <3>1 DEF Successors, Leaving
    <3>3. CASE args[f][1] = "use"
      BY <3>1, <3>3, UseSound DEF Passes
    <3>4. CASE args[f][1] # "use"
      <4>1. PICK a \in Present(given) : Latest(a, e.source, x) /\ args[f] = Made(a, x)
        BY <3>1, <3>2, <3>4 DEF Passes
      <4> QED  BY <2>1, <3>2, <4>1, MadeSound
    <3> QED  BY <3>3, <3>4
  <2>3. Behind(x, w) = {args[a] : a \in {a \in DOMAIN args : a[2] = w[2] /\ a[3] = x}}
    BY <1>3 DEF Behind
  <2> QED  BY <1>3, <2>2, <2>3 DEF Readable
<1>4. CASE w[1] \notin {"may", "phi"}
  BY <1>4 DEF Behind, Readable
<1> QED  BY <1>2, <1>3, <1>4

LEMMA SeenReaches ==
  ASSUME Converted, NEW u \in DOMAIN reads
  PROVE  StandsFor(u[2], reads[u]) \subseteq Reaching(given, u[1], u[2])
<1>1. PICK b, x : b = u[1] /\ x = u[2]
  OBVIOUS
<1>2. b \in Present(given) /\ x \in Vars /\ Finds(b, x, reads[u])
  BY <1>1, ConvertedParts
<1>3. reads[u] \in Sound(b, x)
  BY <1>2, Reached, FoundSound
<1>4. PICK S : S = Sound(b, x)
  OBVIOUS
<1>5. reads[u] \in S /\ \A w \in S : Behind(x, w) \subseteq S /\ Readable(x, w)
  BY <1>2, <1>3, <1>4, BehindSound
<1>6. LeadsTo(x, reads[u]) \subseteq S
  BY <1>5, LeadsLeast
<1>7. \A w \in Sound(b, x) : w[1] \in {"def", "may"} => w[2] \in Reaching(given, b, x)
  BY DEF Sound
<1> QED  BY <1>1, <1>4, <1>6, <1>7, StandsForIs

-----------------------------------------------------------------------------
(* The other way: what comes to a block is behind the version it has.      *)
Stands(d, c, x) ==
  IF x \in PhisAt(phis, c) THEN d \in StandsFor(x, Version("phi", c))
  ELSE \E a \in Present(given) :
         c # Entry /\ Latest(a, parent[c], x) /\ d \in StandsFor(x, Made(a, x))

LEMMA FoundStands ==
  ASSUME NEW x, NEW c, NEW v, Finds(c, x, v), NEW d, Stands(d, c, x)
  PROVE  d \in StandsFor(x, v)
BY DEF Finds, Stands

LEMMA NothingBehindUse ==
  ASSUME Converted, NEW x, NEW v, v[1] = "use"
  PROVE  StandsFor(x, v) = {}
<1>1. Readable(x, v) /\ Behind(x, v) = {}
  BY DEF Readable, Behind
<1> QED  BY <1>1, GivenKnown, StandsForUnfold

LEMMA StandsFound ==
  ASSUME Converted, NEW x, NEW c \in Present(given), NEW v, Finds(c, x, v),
         NEW d \in StandsFor(x, v)
  PROVE  Stands(d, c, x)
<1>1. CASE x \in PhisAt(phis, c)
  BY <1>1 DEF Finds, Stands
<1>2. CASE x \notin PhisAt(phis, c)
  <2>1. v[1] # "use"
    BY NothingBehindUse
  <2>2. PICK a \in Present(given) : c # Entry /\ Latest(a, parent[c], x) /\ v = Made(a, x)
    BY <1>2, <2>1 DEF Finds
  <2> QED  BY <1>2, <2>2 DEF Stands
<1> QED  BY <1>1, <1>2

(* Through a block that does not kill it.                                  *)
LEMMA StandsAfter ==
  ASSUME Converted, NEW x \in Vars, NEW c \in Present(given), NEW d,
         x \in AnyDefs(given, d),
         c = d \/ (Stands(d, c, x) /\ c \notin Kills(given, x))
  PROVE  \E a \in Present(given) : Latest(a, c, x) /\ d \in StandsFor(x, Made(a, x))
<1>1. FixedInv
  BY ConvertedParts
<1>2. CASE c = d
  <2>1. Makes(c, x) /\ Made(c, x)[1] \in {"def", "may"} /\ Made(c, x)[2] = d
    BY <1>2, MadeKnown DEF Makes
  <2>2. Latest(c, c, x)
    BY <1>1, <2>1, LatestHere
  <2> QED  BY <2>1, <2>2, StandsForItself
<1>3. CASE Stands(d, c, x) /\ x \in MayDefs(given.stmt[c])
  <2>1. /\ Made(c, x) = Version("may", c) /\ <<c, x>> \in DOMAIN reads /\ Readable(x, Made(c, x))
    BY <1>3, MadeKnown
  <2>2. Finds(c, x, reads[<<c, x>>])
    BY <2>1, ConvertedParts
  <2>3. d \in StandsFor(x, reads[<<c, x>>])
    BY <1>3, <2>2, FoundStands
  <2>4. reads[<<c, x>>] \in Behind(x, Made(c, x))
    BY <2>1 DEF Behind, Version
  <2>5. d \in StandsFor(x, Made(c, x))
    BY <2>1, <2>3, <2>4, GivenKnown, StandsForBehind
  <2>6. Latest(c, c, x)
    BY <1>1, <1>3, LatestHere DEF Makes, AnyDefs
  <2> QED  BY <2>5, <2>6
<1>4. CASE Stands(d, c, x) /\ x \notin AnyDefs(given, c) /\ x \in PhisAt(phis, c)
  <2>1. Made(c, x) = Version("phi", c)
    BY <1>4, MadeKnown
  <2>2. Latest(c, c, x)
    BY <1>1, <1>4, LatestHere DEF Makes
  <2> QED  BY <1>4, <2>1, <2>2 DEF Stands
<1>5. CASE Stands(d, c, x) /\ x \notin AnyDefs(given, c) /\ x \notin PhisAt(phis, c)
  <2>1. PICK a \in Present(given) :
          c # Entry /\ Latest(a, parent[c], x) /\ d \in StandsFor(x, Made(a, x))
    BY <1>5 DEF Stands
  <2>2. Latest(a, c, x)
    BY <1>1, <1>5, <2>1, LatestThere DEF Makes
  <2> QED  BY <2>1, <2>2
<1>6. c \notin Kills(given, x) => (x \in AnyDefs(given, c) => x \in MayDefs(given.stmt[c]))
  BY DEF Kills, AnyDefs
<1> QED  BY <1>2, <1>3, <1>4, <1>5, <1>6

(* ... and over an edge, to a phi or to what was above; unless the block   *)
(* that leaves it is the one the edge leads back to.                       *)
LEMMA StandsOver ==
  ASSUME Converted, NEW x \in Vars, NEW e \in given.edges, NEW d, NEW a, Latest(a, e.source, x),
         d \in StandsFor(x, Made(a, x))
  PROVE  e.target = d \/ Stands(d, e.target, x)
<1>1. /\ FixedInv /\ PhisInv /\ todo = {} /\ e.source \in Present(given)
      /\ e.target \in Present(given) /\ a \in Present(given) /\ Makes(a, x)
  BY ConvertedParts, GivenParts DEF Latest
<1>2. CASE x \in PhisAt(phis, e.target)
  <2>1. PICK b, c : b = e.source /\ c = e.target
    OBVIOUS
  <2>2. c \in Successors(given, b)
    BY <2>1 DEF Successors, Leaving
  <2>3. <<b, c, x>> \in DOMAIN args
    BY <1>1, <1>2, <2>1, <2>2, ConvertedParts
  <2>4. <<b, c, x>>[1] = b /\ <<b, c, x>>[2] = c /\ <<b, c, x>>[3] = x
    OBVIOUS
  <2>5. Passes(b, x, args[<<b, c, x>>])
    BY <2>3, <2>4, ConvertedParts
  <2>6. args[<<b, c, x>>] = Made(a, x)
    BY <1>1, <2>1, <2>5 DEF Passes
  <2>7. Version("phi", c)[1] = "phi" /\ Version("phi", c)[2] = c
    BY DEF Version
  <2>8. Made(a, x) \in Behind(x, Version("phi", c))
    BY <2>3, <2>4, <2>6, <2>7 DEF Behind
  <2>9. d \in StandsFor(x, Version("phi", c))
    BY <2>7, <2>8, GivenKnown, StandsForBehind DEF Readable
  <2> QED  BY <1>2, <2>1, <2>9 DEF Stands
<1>3. CASE x \notin PhisAt(phis, e.target) /\ a # e.target
  <2>1. e.target # Entry /\ Latest(a, parent[e.target], x)
    BY <1>1, <1>3, EdgeLatest
  <2> QED  BY <1>1, <1>3, <2>1 DEF Stands
<1>4. CASE x \notin PhisAt(phis, e.target) /\ a = e.target
  <2>1. x \in AnyDefs(given, a) /\ Made(a, x)[1] \in {"def", "may"} /\ Made(a, x)[2] = a
        /\ Readable(x, Made(a, x))
    BY <1>1, <1>4, MadeKnown DEF Makes
  <2>2. d = a \/ \E w \in Behind(x, Made(a, x)) : d \in StandsFor(x, w)
    BY <2>1, GivenKnown, StandsForUnfold
  <2>3. ASSUME NEW w \in Behind(x, Made(a, x)), d \in StandsFor(x, w)
        PROVE  Stands(d, a, x)
    <3>1. Made(a, x)[1] = "may"
      BY <2>1, <2>3 DEF Behind
    <3>2. w = reads[<<a, x>>] /\ <<a, x>> \in DOMAIN reads
      BY <2>1, <2>3, <3>1 DEF Behind, Readable
    <3>3. Finds(a, x, w)
      BY <3>2, ConvertedParts
    <3> QED  BY <1>1, <2>3, <3>3, StandsFound
  <2> QED  BY <1>4, <2>2, <2>3
<1> QED  BY <1>2, <1>3, <1>4

LEMMA ReachingSeen ==
  ASSUME Converted, NEW u \in DOMAIN reads, NEW d \in Reaching(given, u[1], u[2]), d # u[1]
  PROVE  d \in StandsFor(u[2], reads[u])
<1>1. PICK b, x : b = u[1] /\ x = u[2]
  OBVIOUS
<1>2. b \in Present(given) /\ x \in Vars /\ Finds(b, x, reads[u]) /\ FixedInv
  BY <1>1, ConvertedParts
<1>3. /\ d \in Present(given) /\ x \in AnyDefs(given, d)
      /\ \E e \in From(d, x).edges : e.target = b /\ e.source \in Reach(From(d, x), d, {})
  BY <1>1, <1>2, WaysAre
<1>4. PICK e \in From(d, x).edges : e.target = b /\ e.source \in Reach(From(d, x), d, {})
  BY <1>3
<1>5. From(d, x).edges = {f \in given.edges : f.source = d \/ f.source \notin Kills(given, x)}
  BY <1>2, WaysAre
<1> DEFINE S == {d} \cup {c \in Present(given) : Stands(d, c, x)}
<1>6. ASSUME NEW f \in From(d, x).edges, f.source \in S
      PROVE  f.target \in S
  <2>1. f \in given.edges /\ f.source \in Present(given) /\ f.target \in Present(given)
    BY <1>2, <1>5, GivenParts
  <2>2. f.source = d \/ (Stands(d, f.source, x) /\ f.source \notin Kills(given, x))
    BY <1>5, <1>6
  <2>3. PICK a \in Present(given) : Latest(a, f.source, x) /\ d \in StandsFor(x, Made(a, x))
    BY <1>2, <1>3, <2>1, <2>2, StandsAfter
  <2>4. f.target = d \/ Stands(d, f.target, x)
    BY <1>2, <2>1, <2>3, StandsOver
  <2> QED  BY <2>1, <2>4
<1>7. Reach(From(d, x), d, {}) \subseteq S
  <2>1. d \in S
    OBVIOUS
  <2> HIDE DEF S
  <2> QED  BY <1>6, <2>1, ReachLeast
<1>8. b \in S
  BY <1>4, <1>6, <1>7
<1>9. Stands(d, b, x)
  BY <1>1, <1>8
<1> QED  BY <1>1, <1>2, <1>9, FoundStands

LEMMA InvSees ==
  ASSUME SSAInv
  PROVE  UsesSeeTheirDefs
<1> SUFFICES ASSUME pc = "done", NEW u \in DOMAIN reads
             PROVE  /\ Reaching(cfg, u[1], u[2]) \ {u[1]} \subseteq StandsFor(u[2], reads[u])
                    /\ StandsFor(u[2], reads[u]) \subseteq Reaching(cfg, u[1], u[2])
  BY DEF UsesSeeTheirDefs
<1>1. Converted /\ cfg = given
  BY DEF Converted, SSAInv, FixedInv
<1> QED  BY <1>1, SeenReaches, ReachingSeen

(* For any graph: with the phis insert_phi_nodes put there, each use that  *)
(* rename_vars renamed reads a version that stands for the definitions     *)
(* that reach it and for no other.                                         *)
THEOREM UsesSeeTheirDefsHolds == LocalSpec => []UsesSeeTheirDefs
  BY SSAInductive, InvSees, PTL

-----------------------------------------------------------------------------
(* Consistent without counting. *)
Proper(g) ==
  /\ g \in Graph
  /\ Leaving(g, Exit) = {} /\ Entering(g, Entry) = {}
  /\ \A b \in Present(g) \ {Exit} : IF IsBranch(g, b) THEN TwoWays(g, b) ELSE OneWay(g, b)

LEMMA ProperConsistent ==
  ASSUME NEW g, Proper(g)
  PROVE  Consistent(g)
<1>1. ASSUME NEW b \in Present(g) \ {Exit}, IsBranch(g, b)
      PROVE  /\ Cardinality(Leaving(g, b)) = 2
             /\ {e.direction : e \in Leaving(g, b)} = {"true", "false"}
  <2>1. PICK e, f \in Leaving(g, b) :
          Leaving(g, b) = {e, f} /\ e.direction = "true" /\ f.direction = "false"
    BY <1>1 DEF Proper, TwoWays
  <2>2. f \notin {e} /\ {e} \cup {f} = {e, f}
    BY <2>1
  <2>3. Cardinality({e}) = 1 /\ IsFiniteSet({e})
    BY FS_Singleton
  <2>4. Cardinality({e, f}) = 2
    BY <2>2, <2>3, FS_AddElement
  <2> QED  BY <2>1, <2>4
<1>2. ASSUME NEW b \in Present(g) \ {Exit}, ~IsBranch(g, b)
      PROVE  /\ Cardinality(Leaving(g, b)) = 1
             /\ {e.direction : e \in Leaving(g, b)} = {"none"}
  <2>1. PICK e \in Leaving(g, b) : Leaving(g, b) = {e} /\ e.direction = "none"
    BY <1>2 DEF Proper, OneWay
  <2>2. Cardinality({e}) = 1
    BY FS_Singleton
  <2>3. {f.direction : f \in {e}} = {"none"}
    BY <2>1
  <2> QED  BY <2>1, <2>2, <2>3
<1> QED  BY <1>1, <1>2 DEF Proper, Consistent

LEMMA ConsistentProper ==
  ASSUME NEW g \in Graph, Consistent(g)
  PROVE  Proper(g)
<1>0. Leaving(g, Exit) = {} /\ Entering(g, Entry) = {}
  BY DEF Consistent
<1>1. ASSUME NEW b \in Present(g) \ {Exit}
      PROVE  IF IsBranch(g, b) THEN TwoWays(g, b) ELSE OneWay(g, b)
  <2>0. IsFiniteSet(Leaving(g, b))
    <3>1. Leaving(g, b) \subseteq Edge
      BY GraphParts DEF Leaving
    <3> QED  BY <3>1, EdgeFinite, FS_Subset
  <2>1. CASE IsBranch(g, b)
    <3>1. /\ Cardinality(Leaving(g, b)) = 2
          /\ {e.direction : e \in Leaving(g, b)} = {"true", "false"}
      BY <2>1 DEF Consistent
    <3>2. PICK e, f \in Leaving(g, b) : e.direction = "true" /\ f.direction = "false"
      BY <3>1
    <3>3. IsFiniteSet(Leaving(g, b) \ {e}) /\ Cardinality(Leaving(g, b) \ {e}) = 1
      BY <2>0, <3>1, <3>2, FS_RemoveElement
    <3>4. PICK z : Leaving(g, b) \ {e} = {z}
      BY <3>3, FS_Singleton
    <3>5. z = f /\ Leaving(g, b) = {e, f}
      BY <3>2, <3>4
    <3> QED  BY <2>1, <3>2, <3>5 DEF TwoWays
  <2>2. CASE ~IsBranch(g, b)
    <3>1. /\ Cardinality(Leaving(g, b)) = 1
          /\ {e.direction : e \in Leaving(g, b)} = {"none"}
      BY <2>2 DEF Consistent
    <3>2. PICK e \in Leaving(g, b) : e.direction = "none"
      BY <3>1
    <3>3. PICK z : Leaving(g, b) = {z}
      BY <2>0, <3>1, FS_Singleton
    <3> QED  BY <2>2, <3>2, <3>3 DEF OneWay
  <2> QED  BY <2>1, <2>2
<1> QED  BY <1>0, <1>1 DEF Proper

(* Each block of such a graph but Exit is the source of an edge. *)
LEMMA ProperLeaves ==
  ASSUME NEW g, Proper(g), NEW b \in Present(g) \ {Exit}
  PROVE  \E e \in g.edges : e.source = b
BY DEF Proper, OneWay, TwoWays, Leaving

LEMMA RemoveBlockParts ==
  ASSUME NEW g \in Graph, NEW b \in Blocks
  PROVE  LET h == RemoveBlock(g, b)
         IN  /\ h \in Graph /\ h.stmt = [g.stmt EXCEPT ![b] = Empty] /\ h.edges = g.edges
             /\ Present(h) = Present(g)
             /\ \A c : Leaving(h, c) = Leaving(g, c)
<1> DEFINE h == RemoveBlock(g, b)
<1>1. h = [stmt |-> [g.stmt EXCEPT ![b] = Empty], edges |-> g.edges]
  BY GraphParts DEF RemoveBlock, ReplaceWithEmpty
<1>2. h \in Graph
  BY <1>1, GraphParts, EmptyStatement DEF Graph
<1> QED  BY <1>1, <1>2 DEF Present, Leaving

LEMMA RemoveBlockProper ==
  ASSUME NEW g, Proper(g), NEW b \in Blocks, ~IsBranch(g, b)
  PROVE  Proper(RemoveBlock(g, b))
<1> DEFINE h == RemoveBlock(g, b)
<1>1. /\ g \in Graph /\ h \in Graph /\ h.stmt = [g.stmt EXCEPT ![b] = Empty] /\ h.edges = g.edges
      /\ Present(h) = Present(g) /\ Present(g) \subseteq Blocks
      /\ g.stmt \in [Blocks -> Statement]
      /\ \A c : Leaving(h, c) = Leaving(g, c)
  BY RemoveBlockParts, PresentBlocks, GraphParts DEF Proper
<1> HIDE DEF h
<1>2. \A c \in Blocks : IsBranch(h, c) <=> IsBranch(g, c)
  BY <1>1, EmptyStatement DEF IsBranch
<1>3. /\ Entering(h, Entry) = Entering(g, Entry)
      /\ \A c : (OneWay(h, c) <=> OneWay(g, c)) /\ (TwoWays(h, c) <=> TwoWays(g, c))
  BY <1>1 DEF OneWay, TwoWays, Entering
<1>4. Proper(h)
  BY <1>1, <1>2, <1>3 DEF Proper
<1> QED  BY <1>4 DEF h

(* remove_branch. *)
LEMMA RemoveBranchParts ==
  ASSUME NEW g \in Graph, NEW b \in Blocks, NEW t \in Blocks
  PROVE  LET h == RemoveBranch(g, b, t)
             n == [source |-> b, target |-> t, direction |-> "none"]
         IN  /\ h \in Graph /\ h.stmt = [g.stmt EXCEPT ![b] = Empty]
             /\ h.edges = (g.edges \ Leaving(g, b)) \cup {n}
             /\ Leaving(h, b) = {n} /\ \A c : c # b => Leaving(h, c) = Leaving(g, c)
<1> DEFINE n == [source |-> b, target |-> t, direction |-> "none"]
           E == (g.edges \ Leaving(g, b)) \cup {n}
           k == [stmt |-> g.stmt, edges |-> E]
           h == RemoveBranch(g, b, t)
<1>1. [g EXCEPT !.edges = E] = k
  BY WithEdges
<1>2. h = ReplaceWithEmpty([g EXCEPT !.edges = E], b)
  BY DEF RemoveBranch
<1>3. h = [k EXCEPT !.stmt[b] = Empty]
  BY <1>1, <1>2 DEF ReplaceWithEmpty
<1>4. h = [stmt |-> [g.stmt EXCEPT ![b] = Empty], edges |-> E]
  BY <1>3
<1> HIDE DEF h
<1>5. n \in Edge /\ n.source = b
  BY DEF Edge, Directions
<1>6. h \in Graph
  <2>1. [g.stmt EXCEPT ![b] = Empty] \in [Blocks -> Statement]
    BY GraphParts, EmptyStatement
  <2>2. E \in SUBSET Edge
    BY <1>5, GraphParts
  <2> QED  BY <1>4, <2>1, <2>2 DEF Graph
<1>7. Leaving(h, b) = {n} /\ \A c : c # b => Leaving(h, c) = Leaving(g, c)
  BY <1>4, <1>5 DEF Leaving
<1> QED  BY <1>4, <1>6, <1>7 DEF h

LEMMA RemoveBranchProper ==
  ASSUME NEW g, Proper(g), NEW b \in Present(g) \ {Exit}, NEW t \in Present(g) \ {Entry},
         \A e \in Leaving(g, b) : e.target = Exit => t = Exit
  PROVE  Proper(RemoveBranch(g, b, t)) /\ Present(RemoveBranch(g, b, t)) = Present(g)
<1> DEFINE n == [source |-> b, target |-> t, direction |-> "none"]
           h == RemoveBranch(g, b, t)
<1>1. /\ g \in Graph /\ b \in Blocks /\ t \in Blocks /\ Present(g) \subseteq Blocks
      /\ g.stmt \in [Blocks -> Statement]
      /\ \A e \in g.edges : e.source \in Present(g) /\ e.target \in Present(g)
      /\ Entry \in Present(g)
  BY PresentBlocks, GraphParts DEF Proper
<1>2. /\ h \in Graph /\ h.stmt = [g.stmt EXCEPT ![b] = Empty]
      /\ h.edges = (g.edges \ Leaving(g, b)) \cup {n}
      /\ Leaving(h, b) = {n} /\ \A c : c # b => Leaving(h, c) = Leaving(g, c)
  BY <1>1, RemoveBranchParts
<1>3. n.source = b /\ n.target = t /\ n.direction = "none"
  OBVIOUS
<1> HIDE DEF h, n
<1>4. Present(h) \subseteq Present(g)
  BY <1>1, <1>2, <1>3 DEF Present
<1>5. ASSUME NEW c \in Present(g)
      PROVE  c \in Present(h)
  <2>1. CASE c # Exit
    <3>1. PICK e \in g.edges : e.source = c
      BY <1>5, <2>1, ProperLeaves
    <3>2. \E f \in h.edges : f.source = c
      BY <1>2, <1>3, <3>1 DEF Leaving
    <3> QED  BY <3>2 DEF Present
  <2>2. CASE c = Exit
    <3>1. PICK e \in g.edges : e.target = c
      BY <1>5, <2>2, BlocksAssumption DEF Present, Proper, Leaving
    <3>2. \E f \in h.edges : f.target = c
      BY <1>2, <1>3, <2>2, <3>1 DEF Leaving
    <3> QED  BY <3>2 DEF Present
  <2> QED  BY <2>1, <2>2
<1>6. /\ Leaving(h, Exit) = {} /\ Entering(h, Entry) = {}
  BY <1>2, <1>3 DEF Proper, Entering
<1>7. ASSUME NEW c \in Present(g) \ {Exit}
      PROVE  IF IsBranch(h, c) THEN TwoWays(h, c) ELSE OneWay(h, c)
  <2>1. CASE c = b
    <3>1. ~IsBranch(h, c)
      BY <1>1, <1>2, <2>1, EmptyStatement DEF IsBranch
    <3> QED  BY <1>2, <1>3, <2>1, <3>1 DEF OneWay
  <2>2. CASE c # b
    <3>1. /\ Leaving(h, c) = Leaving(g, c) /\ IsBranch(h, c) = IsBranch(g, c)
      BY <1>1, <1>2, <2>2 DEF IsBranch
    <3> QED  BY <1>7, <3>1 DEF Proper, OneWay, TwoWays
  <2> QED  BY <2>1, <2>2
<1>8. Proper(h) /\ Present(h) = Present(g)
  BY <1>2, <1>4, <1>5, <1>6, <1>7 DEF Proper
<1> QED  BY <1>8 DEF h

-----------------------------------------------------------------------------
(* Dead code.  Each way from b to the end leads through a.                 *)
Post(a, b) == Dominates(Reverse(given), Exit, a, b)

(* What mark_entire_block needs, of the graph before the sweep. *)
NeedsOf(b) ==
  (UNION {Defining(x, reads[<<b, x>>]) : x \in UsesAt(given, b)}) \cup against.rdf[b]

Sweeping == {"mark", "sweep", "swept"}

(* What is marked is in the graph, what others see is marked, and so is    *)
(* what the marked blocks need which are off the list.                     *)
MarkInv ==
  /\ pc \in Sweeping =>
       /\ against = [idominated |-> Dominated(Reverse(given), Exit),
                     rdf |-> [b \in Present(given) |->
                                Df(Reverse(given), Dominated(Reverse(given), Exit), Exit, b)]]
       /\ \A b \in Present(given) : IsCritical(given, b) => b \in marked
       /\ \A b \in marked \ marking : NeedsOf(b) \subseteq marked
  /\ marking \subseteq marked /\ marked \subseteq Present(given)
  /\ pc # "mark" => marking = {}
  /\ pc \notin Sweeping => marked = {}

Unswept ==
  /\ UNCHANGED <<given, dceVars>>
  /\ pc \in Sweeping => UNCHANGED <<pc, cfg, reads>>
  /\ pc \notin Sweeping => pc' \notin Sweeping

LEMMA SweepMoves ==
  ASSUME [LocalNext]_localVars
  PROVE  \/ StartMarking /\ UNCHANGED given
         \/ \E b \in Blocks : Mark(b) /\ UNCHANGED given
         \/ StartSweeping /\ UNCHANGED given
         \/ \E b \in Blocks : Sweep(b) /\ UNCHANGED given
         \/ StopSweeping /\ UNCHANGED given
         \/ Unswept
<1>1. CASE UNCHANGED localVars
  BY <1>1 DEF Unswept, localVars, passVars, ssaVars
<1>2. CASE ConvertToSSA
  <2>1. pc \in {"insert", "rename"} /\ pc' \in {"insert", "rename", "done"}
    <3>1. CASE \E b \in Blocks : InsertPhis(b)
      BY <3>1 DEF InsertPhis
    <3>2. CASE \E b \in Blocks : Enter(b)
      <4>1. PICK b \in Blocks : Enter(b)
        BY <3>2
      <4> QED  BY <4>1 DEF Enter
    <3>3. CASE StartRenaming \/ Leave
      BY <3>3 DEF StartRenaming, Leave
    <3> QED  BY <1>2, <3>1, <3>2, <3>3 DEF ConvertToSSA, SSANext
  <2>2. UNCHANGED <<given, dceVars>>
    BY <1>2 DEF ConvertToSSA
  <2> QED  BY <2>1, <2>2 DEF Unswept, Sweeping
<1>3. CASE RunDCE
  BY <1>3 DEF RunDCE, DeadCodeNext
<1>4. CASE RunIfSimplification
  BY <1>4 DEF RunIfSimplification, SimplifyNext, StartSimplifying, Simplify, StopSimplifying,
              Unswept, Sweeping, simplifyVars
<1>5. CASE StartRuns
  BY <1>5 DEF StartRuns, Unswept, passVars, ssaVars
<1>6. CASE Step
  BY <1>6 DEF Step, Unswept, passVars, ssaVars
<1> QED  BY <1>1, <1>2, <1>3, <1>4, <1>5, <1>6 DEF LocalNext

-----------------------------------------------------------------------------
(* The definitions behind phis.                                            *)
Args(x) == {args[a] : a \in {a \in DOMAIN args : a[3] = x}}
ThroughPhis(x, v) ==
  {w \in {v} \cup Args(x) :
     \A S \in SUBSET ({v} \cup Args(x)) :
       v \in S /\ (\A y \in S : y[1] = "phi" => Behind(x, y) \subseteq S) => w \in S}

LEMMA DefiningIs ==
  ASSUME NEW x, NEW v
  PROVE  Defining(x, v) = {w[2] : w \in {w \in ThroughPhis(x, v) : w[1] \in {"def", "may"}}}
<1> DEFINE There == {v} \cup {args[a] : a \in {a \in DOMAIN args : a[3] = x}}
           Closed == {S \in SUBSET There :
                        v \in S /\ \A w \in S : w[1] = "phi" => Behind(x, w) \subseteq S}
           Found == {w \in There : w[1] \in {"def", "may"} /\ \A S \in Closed : w \in S}
<1>1. There = {v} \cup Args(x)
  BY DEF Args
<1>2. Defining(x, v) = {w[2] : w \in Found}
  BY DEF Defining
<1>3. Found = {w \in ThroughPhis(x, v) : w[1] \in {"def", "may"}}
  <2> HIDE DEF There
  <2> QED  BY <1>1 DEF ThroughPhis
<1> QED  BY <1>2, <1>3

LEMMA DefiningItself ==
  ASSUME NEW x, NEW v, v[1] \in {"def", "may"}
  PROVE  v[2] \in Defining(x, v)
<1>1. v \in ThroughPhis(x, v)
  BY DEF ThroughPhis
<1> QED  BY <1>1, DefiningIs

LEMMA DefiningBehind ==
  ASSUME NEW x, NEW v, v[1] = "phi", NEW w \in Behind(x, v)
  PROVE  Defining(x, w) \subseteq Defining(x, v)
<1>1. \A y : y[1] = "phi" => Behind(x, y) \subseteq Args(x)
  BY DEF Behind, Args
<1>2. ASSUME NEW z \in ThroughPhis(x, w)
      PROVE  z \in ThroughPhis(x, v)
  <2>1. w \in Args(x)
    BY <1>1
  <2>2. z \in Args(x) /\ \A S \in SUBSET ({w} \cup Args(x)) :
          w \in S /\ (\A y \in S : y[1] = "phi" => Behind(x, y) \subseteq S) => z \in S
    BY <1>2, <2>1 DEF ThroughPhis
  <2>3. ASSUME NEW S \in SUBSET ({v} \cup Args(x)), v \in S,
               \A y \in S : y[1] = "phi" => Behind(x, y) \subseteq S
        PROVE  z \in S
    <3>1. PICK T : T = S \cap Args(x)
      OBVIOUS
    <3>2. T \in SUBSET ({w} \cup Args(x)) /\ w \in T
      BY <2>1, <2>3, <3>1
    <3>3. \A y \in T : y[1] = "phi" => Behind(x, y) \subseteq T
      BY <1>1, <2>3, <3>1
    <3>4. z \in T
      BY <2>2, <3>2, <3>3
    <3> QED  BY <3>1, <3>4
  <2> QED  BY <2>2, <2>3 DEF ThroughPhis
<1> QED  BY <1>2, DefiningIs

(* A use reads a version that was made in the graph. *)
LEMMA ReadPresent ==
  ASSUME Converted, NEW u \in DOMAIN reads, reads[u][1] # "use"
  PROVE  reads[u][2] \in Present(given)
<1>1. PICK b, x, v : b = u[1] /\ x = u[2] /\ v = reads[u]
  OBVIOUS
<1>2. b \in Present(given) /\ Finds(b, x, v) /\ v[1] # "use"
  BY <1>1, ConvertedParts
<1>3. v = Version("phi", b) \/ \E a \in Present(given) : v = Made(a, x)
  BY <1>2 DEF Finds
<1>4. Version("phi", b)[2] = b
  BY DEF Version
<1>5. ASSUME NEW a \in Present(given), v = Made(a, x)
      PROVE  v[2] \in Present(given)
  BY <1>5, MadeKnown
<1> QED  BY <1>1, <1>2, <1>3, <1>4, <1>5

LEMMA DefiningPresent ==
  ASSUME Converted, NEW b \in Present(given), NEW x \in UsesAt(given, b)
  PROVE  Defining(x, reads[<<b, x>>]) \subseteq Present(given)
<1>1. /\ <<b, x>> \in DOMAIN reads /\ Finds(b, x, reads[<<b, x>>])
      /\ \A f \in DOMAIN args : Passes(f[1], f[3], args[f])
  BY ConvertedParts
<1>2. \A a, c : Latest(a, c, x) => a \in Present(given)
  BY DEF Latest
<1>3. PICK v : v = reads[<<b, x>>]
  OBVIOUS
<1>4. v[1] \in {"def", "may"} => v[2] \in Present(given)
  BY <1>1, <1>3, ReadPresent
<1>5. ASSUME NEW w \in Args(x), w[1] \in {"def", "may"}
      PROVE  w[2] \in Present(given)
  <2>1. PICK f \in DOMAIN args : f[3] = x /\ w = args[f]
    BY DEF Args
  <2>2. w[1] = "use" \/ \E a \in Present(given) : w = Made(a, x)
    <3>1. Passes(f[1], x, w)
      BY <1>1, <2>1
    <3> QED  BY <1>2, <3>1 DEF Passes
  <2> QED  BY <1>5, <2>2, MadeKnown
<1>6. \A w \in ThroughPhis(x, v) : w[1] \in {"def", "may"} => w[2] \in Present(given)
  BY <1>4, <1>5 DEF ThroughPhis
<1> QED  BY <1>3, <1>6, DefiningIs

-----------------------------------------------------------------------------
LEMMA InitMark == LocalInit => MarkInv
BY DEF LocalInit, SSAInit, DeadCodeInit, MarkInv, Sweeping

LEMMA NeedsPresent ==
  ASSUME Converted, MarkInv, pc \in Sweeping, NEW b \in Present(given)
  PROVE  NeedsOf(b) \subseteq Present(given)
<1>1. Present(Reverse(given)) = Present(given)
  BY ConvertedParts, GivenParts, ReversedParts
<1>2. against.rdf[b] = Df(Reverse(given), Dominated(Reverse(given), Exit), Exit, b)
  <2>1. against.rdf = [c \in Present(given) |->
                         Df(Reverse(given), Dominated(Reverse(given), Exit), Exit, c)]
    BY DEF MarkInv
  <2> QED  BY <2>1
<1>3. against.rdf[b] \subseteq Present(given)
  <2>1. \A D : Df(Reverse(given), D, Exit, b) \subseteq Present(Reverse(given))
    BY DEF Df
  <2> QED  BY <1>1, <1>2, <2>1
<1> QED  BY <1>3, DefiningPresent DEF NeedsOf

LEMMA MarkKeepsMark ==
  ASSUME SSAInv, MarkInv, NEW b \in Blocks, Mark(b), UNCHANGED given
  PROVE  MarkInv'
<1>1. /\ pc = "mark" /\ pc' = pc /\ b \in marking /\ given' = given /\ against' = against
      /\ marked' = marked \cup Needs(b) /\ marking' = (marking \ {b}) \cup (Needs(b) \ marked)
      /\ reads' = reads /\ args' = args /\ cfg' = cfg
  BY DEF Mark, ssaVars
<1>2. Converted /\ cfg = given
  BY <1>1 DEF Converted, SSAInv, FixedInv
<1>3. Needs(b) = NeedsOf(b)
  BY <1>2 DEF Needs, NeedsOf
<1>4. b \in Present(given) /\ NeedsOf(b) \subseteq Present(given)
  BY <1>1, <1>2, NeedsPresent DEF MarkInv, Sweeping
<1>5. \A c : NeedsOf(c)' = NeedsOf(c)
  BY <1>1 DEF NeedsOf, Defining, Behind
<1>6. /\ \A c \in marked \ marking : NeedsOf(c) \subseteq marked
      /\ marking \subseteq marked /\ marked \subseteq Present(given)
      /\ \A c \in Present(given) : IsCritical(given, c) => c \in marked
  BY <1>1 DEF MarkInv, Sweeping
<1>7. PICK N : N = NeedsOf(b)
  OBVIOUS
<1>8. \A c \in marked' \ marking' : NeedsOf(c) \subseteq marked'
  BY <1>1, <1>3, <1>6
<1>9. marking' \subseteq marked' /\ marked' \subseteq Present(given)
  BY <1>1, <1>3, <1>4, <1>6
<1>10. \A c \in Present(given') : IsCritical(given', c) => c \in marked'
  BY <1>1, <1>6
<1>11. against' = [idominated |-> Dominated(Reverse(given'), Exit),
                   rdf |-> [c \in Present(given') |->
                              Df(Reverse(given'), Dominated(Reverse(given'), Exit), Exit, c)]]
  BY <1>1 DEF MarkInv, Sweeping
<1>12. \A c \in marked' \ marking' : NeedsOf(c)' \subseteq marked'
  BY <1>5, <1>8
<1> QED  BY <1>1, <1>9, <1>10, <1>11, <1>12 DEF MarkInv, Sweeping

LEMMA KeepMark ==
  ASSUME SSAInv, MarkInv, [LocalNext]_localVars
  PROVE  MarkInv'
<1>1. ASSUME UNCHANGED <<given, against, marked, marking, reads, args>>,
             pc \in Sweeping, pc' \in Sweeping, pc' # "mark" => marking = {}
      PROVE  MarkInv'
  <2>1. \A c : NeedsOf(c)' = NeedsOf(c)
    BY <1>1 DEF NeedsOf, Defining, Behind
  <2>2. \A c \in marked \ marking : NeedsOf(c) \subseteq marked
    BY <1>1 DEF MarkInv
  <2>3. \A c \in marked' \ marking' : NeedsOf(c)' \subseteq marked'
    BY <1>1, <2>1, <2>2
  <2> QED  BY <1>1, <2>3 DEF MarkInv
<1>2. CASE StartMarking /\ UNCHANGED given
  <2>1. /\ pc = "done" /\ pc' = "mark" /\ given' = given
        /\ marked' = {b \in Present(cfg) : IsCritical(cfg, b)} /\ marking' = marked'
        /\ against' = [idominated |-> Dominated(Reverse(cfg), Exit),
                       rdf |-> [b \in Present(cfg) |->
                                  Df(Reverse(cfg), Dominated(Reverse(cfg), Exit), Exit, b)]]
    BY <1>2 DEF StartMarking
  <2>2. cfg = given
    BY <2>1 DEF SSAInv, FixedInv
  <2> QED  BY <2>1, <2>2 DEF MarkInv, Sweeping
<1>3. CASE \E b \in Blocks : Mark(b) /\ UNCHANGED given
  BY <1>3, MarkKeepsMark
<1>4. CASE StartSweeping /\ UNCHANGED given
  BY <1>1, <1>4 DEF StartSweeping, dceVars, Sweeping
<1>5. CASE \E b \in Blocks : Sweep(b) /\ UNCHANGED given
  BY <1>1, <1>5 DEF Sweep, dceVars, Sweeping, MarkInv
<1>6. CASE StopSweeping /\ UNCHANGED given
  BY <1>1, <1>6 DEF StopSweeping, dceVars, Sweeping, MarkInv
<1>7. CASE Unswept
  <2>1. CASE pc \in Sweeping
    <3>1. UNCHANGED <<pc, given, against, marked, marking, reads>>
      BY <1>7, <2>1 DEF Unswept, dceVars
    <3>2. UNCHANGED args
      <4>1. CASE Elsewhere
        BY <4>1 DEF Elsewhere
      <4>2. CASE \E b \in Blocks : InsertPhis(b) \/ Enter(b)
        <5>1. pc \in {"insert", "rename"}
          BY <4>2 DEF InsertPhis, Enter
        <5> QED  BY <2>1, <5>1 DEF Sweeping
      <4>3. CASE StartRenaming \/ Leave
        BY <2>1, <4>3 DEF StartRenaming, Leave, Sweeping
      <4> QED  BY <4>1, <4>2, <4>3, SSAMoves
    <3> QED  BY <1>1, <2>1, <3>1, <3>2 DEF MarkInv
  <2>2. CASE pc \notin Sweeping
    BY <1>7, <2>2 DEF Unswept, MarkInv, Sweeping, dceVars
  <2> QED  BY <2>1, <2>2
<1> QED  BY <1>2, <1>3, <1>4, <1>5, <1>6, <1>7, SweepMoves

LEMMA MarkInductive == LocalSpec => []MarkInv
<1>1. SSAInv /\ MarkInv /\ [LocalNext]_localVars => MarkInv'
  BY KeepMark
<1> QED  BY <1>1, InitMark, SSAInductive, PTL DEF LocalSpec

-----------------------------------------------------------------------------
(* When marking is over, what a use of a marked block may see is marked.   *)
Marked == SSAInv /\ MarkInv /\ pc \in {"sweep", "swept"}

LEMMA MarkedParts ==
  ASSUME Marked
  PROVE  /\ Converted /\ FixedInv /\ marked \subseteq Present(given)
         /\ Exit \in marked /\ Entry \in marked
         /\ \A b \in marked : NeedsOf(b) \subseteq marked
         /\ \A b \in Present(given) : IsCritical(given, b) => b \in marked
<1>1. FixedInv
  BY DEF Marked, SSAInv
<1> QED  BY <1>1, GivenParts DEF Marked, MarkInv, Converted, Sweeping, IsCritical

LEMMA MarkedStands ==
  ASSUME Marked, NEW b \in marked, NEW x \in UsesAt(given, b)
  PROVE  StandsFor(x, reads[<<b, x>>]) \subseteq marked
<1>1. /\ Converted /\ b \in Present(given)
      /\ \A c \in marked : NeedsOf(c) \subseteq marked
  BY MarkedParts
<1>2. /\ <<b, x>> \in DOMAIN reads
      /\ \A u \in DOMAIN reads : u[2] \in UsesAt(given, u[1])
  BY <1>1, ConvertedParts
<1>3. PICK v : v = reads[<<b, x>>]
  OBVIOUS
<1>4. v \in Given(x)
  BY <1>2, <1>3 DEF Given
<1>5. PICK S : S = {w \in Given(x) : Defining(x, w) \subseteq marked}
  OBVIOUS
<1>6. \A c \in marked : \A y \in UsesAt(given, c) : Defining(y, reads[<<c, y>>]) \subseteq marked
  BY <1>1 DEF NeedsOf
<1>7. v \in S
  BY <1>3, <1>4, <1>5, <1>6
<1>8. ASSUME NEW w \in S
      PROVE  Behind(x, w) \subseteq S /\ Readable(x, w)
  <2>1. Readable(x, w) /\ Behind(x, w) \subseteq Given(x)
    BY <1>1, <1>5, <1>8, GivenKnown, BehindGiven
  <2>2. CASE w[1] = "phi"
    BY <1>5, <1>8, <2>1, <2>2, DefiningBehind
  <2>3. CASE w[1] = "may"
    <3>1. PICK c : c = w[2]
      OBVIOUS
    <3>2. c \in marked
      BY <1>5, <1>8, <2>3, <3>1, DefiningItself
    <3>3. <<c, x>> \in DOMAIN reads /\ x \in UsesAt(given, c)
      <4>1. <<c, x>> \in DOMAIN reads
        BY <2>1, <2>3, <3>1 DEF Readable
      <4>2. <<c, x>>[2] \in UsesAt(given, <<c, x>>[1])
        BY <1>2, <4>1
      <4> QED  BY <4>1, <4>2
    <3>4. Behind(x, w) = {reads[<<c, x>>]}
      BY <2>3, <3>1 DEF Behind
    <3>5. Defining(x, reads[<<c, x>>]) \subseteq marked
      BY <1>6, <3>2, <3>3
    <3> QED  BY <1>5, <2>1, <3>4, <3>5
  <2>4. CASE w[1] \notin {"phi", "may"}
    <3>1. Behind(x, w) = {}
      BY <2>4 DEF Behind
    <3> QED  BY <2>1, <3>1
  <2> QED  BY <2>2, <2>3, <2>4
<1>9. LeadsTo(x, v) \subseteq S
  BY <1>7, <1>8, LeadsLeast
<1>10. \A w \in LeadsTo(x, v) : w[1] \in {"def", "may"} => w[2] \in marked
  BY <1>5, <1>9, DefiningItself
<1> QED  BY <1>3, <1>10, StandsForIs

LEMMA ReachingMarked ==
  ASSUME Marked, NEW b \in marked, NEW x \in UsesAt(given, b)
  PROVE  Reaching(given, b, x) \subseteq marked
<1>1. /\ Converted /\ b \in Present(given)
  BY MarkedParts
<1>2. <<b, x>> \in DOMAIN reads
  BY <1>1, ConvertedParts
<1>0. <<b, x>>[1] = b /\ <<b, x>>[2] = x
  OBVIOUS
<1>3. PICK u : u = <<b, x>> /\ u[1] = b /\ u[2] = x
  BY <1>0
<1>4. \A d \in Reaching(given, u[1], u[2]) : d # u[1] => d \in StandsFor(u[2], reads[u])
  BY <1>1, <1>2, <1>3, ReachingSeen
<1> QED  BY <1>3, <1>4, MarkedStands

-----------------------------------------------------------------------------
(* A branch that is removed leads on to where all marked blocks that any   *)
(* way from it goes through are still ahead.                               *)
Bypasses(b, t) ==
  /\ t \in Present(given) \ {Entry, b} /\ Post(t, b)
  /\ \A m \in marked : Post(m, b) => Post(m, t)

Untouched(b) == cfg.stmt[b] = given.stmt[b] /\ Leaving(cfg, b) = Leaving(given, b)

Cleared(b) ==
  /\ b \notin marked /\ cfg.stmt[b] = Empty
  /\ ~IsBranch(given, b) => Leaving(cfg, b) = Leaving(given, b)
  /\ IsBranch(given, b) =>
       \E t : /\ Bypasses(b, t)
              /\ Leaving(cfg, b) = {[source |-> b, target |-> t, direction |-> "none"]}

SweepInv ==
  pc \in {"sweep", "swept"} =>
    /\ Proper(cfg) /\ Present(cfg) = Present(given)
    /\ \A b \in Present(given) : Untouched(b) \/ Cleared(b)
    /\ pc = "swept" => \A b \in Present(given) \ marked : cfg.stmt[b] = Empty

(* What no edge leaves is on no way to anything else. *)
LEMMA LeafDominates ==
  ASSUME NEW g, NEW root, Rooted(g, root), NEW a \in Present(g), a # root,
         \A e \in g.edges : e.source # a,
         NEW b \in Present(g), Dominates(g, root, a, b)
  PROVE  b = a
<1> DEFINE S == Reach(g, root, {a}) \cup {a}
<1>1. root \in S /\ \A e \in g.edges : e.source \in S => e.target \in S \cup {}
  BY Reached
<1>2. Reach(g, root, {}) \subseteq S
  <2> HIDE DEF S
  <2> QED  BY <1>1, ReachLeast
<1> QED  BY <1>2, DominatesWhen DEF Rooted

LEMMA BackwardsParts ==
  ASSUME FixedInv
  PROVE  /\ Rooted(Reverse(given), Exit) /\ Present(Reverse(given)) = Present(given)
         /\ \A e \in given.edges :
              \E f \in Reverse(given).edges : f.source = e.target /\ f.target = e.source
         /\ \A f \in Reverse(given).edges :
              \E e \in given.edges : f.source = e.target /\ f.target = e.source
         /\ \A b \in Present(given) : Post(Exit, b) /\ Post(b, b) /\ (Post(b, Exit) => b = Exit)
         /\ \A b \in Present(given) : Post(Entry, b) => b = Entry
         /\ \A a, b, c \in Present(given) : Post(a, b) /\ Post(b, c) => Post(a, c)
         /\ \A a, b \in Present(given) : Post(a, b) /\ Post(b, a) => a = b
         /\ \A e \in given.edges, a \in Present(given) :
              Post(a, e.source) /\ a # e.source => Post(a, e.target)
<1> DEFINE back == Reverse(given)
<1>1. /\ Connected(given) /\ given \in Graph /\ Exit \in Present(given) /\ Entry \in Present(given)
      /\ Entering(given, Entry) = {}
      /\ \A e \in given.edges : e.source \in Present(given) /\ e.target \in Present(given)
  BY GivenParts DEF Connected, Consistent
<1>2. Rooted(back, Exit) /\ Present(back) = Present(given)
  BY <1>1, ConnectedRooted
<1>3. /\ \A e \in given.edges : \E f \in back.edges : f.source = e.target /\ f.target = e.source
      /\ \A f \in back.edges : \E e \in given.edges : f.source = e.target /\ f.target = e.source
  BY <1>1, ReversedParts
<1> HIDE DEF back
<1>4. \A b \in Present(given) :
        /\ Dominates(back, Exit, Exit, b) /\ Dominates(back, Exit, b, b)
        /\ Dominates(back, Exit, b, Exit) => b = Exit
  BY <1>1, <1>2, DominatesItself, RootDominates
<1>5. ASSUME NEW b \in Present(given), Dominates(back, Exit, Entry, b)
      PROVE  b = Entry
  <2>1. \A f \in back.edges : f.source # Entry
    BY <1>1, <1>3 DEF Entering
  <2> QED  BY <1>1, <1>2, <1>5, <2>1, LeafDominates, BlocksAssumption
<1>6. \A a, b, c \in Present(given) :
        Dominates(back, Exit, a, b) /\ Dominates(back, Exit, b, c) => Dominates(back, Exit, a, c)
  BY <1>1, <1>2, DominatesTransitive
<1>7. \A a, b \in Present(given) :
        Dominates(back, Exit, a, b) /\ Dominates(back, Exit, b, a) => a = b
  BY <1>2, DominatesAntisymmetric
<1>8. ASSUME NEW e \in given.edges, NEW a \in Present(given),
             Dominates(back, Exit, a, e.source), a # e.source
      PROVE  Dominates(back, Exit, a, e.target)
  <2>1. PICK f \in back.edges : f.source = e.target /\ f.target = e.source
    BY <1>3
  <2> QED  BY <1>2, <1>8, <2>1, DominatesPredecessor
<1> QED  BY <1>2, <1>3, <1>4, <1>5, <1>6, <1>7, <1>8 DEF Post, back

(* The nearest marked postdominator is what its name says. *)
LEMMA NearestIs ==
  ASSUME Marked, SweepInv, NEW b \in Present(given), ~IsMarked(b)
  PROVE  Bypasses(b, Nearest(b)) /\ Nearest(b) # b
<1>1. /\ FixedInv /\ marked \subseteq Present(given) /\ Exit \in marked
      /\ Present(cfg) = Present(given)
  BY MarkedParts DEF Marked, SweepInv
<1>2. against.idominated = Dominated(Reverse(given), Exit)
  <2>1. pc \in Sweeping
    BY DEF Marked, Sweeping
  <2> QED  BY <2>1 DEF Marked, MarkInv
<1>3. PICK after : after = {a \in Present(given) : Post(a, b) /\ IsMarked(a)}
  OBVIOUS
<1>4. Nearest(b) = CHOOSE a \in after : \A c \in after : Post(c, a)
  BY <1>1, <1>2, <1>3 DEF Nearest, Post, Dominates
<1>5. /\ after \in SUBSET Present(Reverse(given)) /\ after # {}
      /\ \A a \in after : Dominates(Reverse(given), Exit, a, b)
  <2>1. Exit \in after
    BY <1>1, <1>3, BackwardsParts DEF IsMarked
  <2> QED  BY <1>1, <1>3, <2>1, BackwardsParts DEF Post
<1>6. \E a \in after : \A c \in after : Post(c, a)
  <2>1. Rooted(Reverse(given), Exit) /\ b \in Present(Reverse(given))
    BY <1>1, BackwardsParts
  <2> QED  BY <1>5, <2>1, NearestDominator DEF Post
<1>7. PICK t : t = Nearest(b)
  OBVIOUS
<1>8. t \in after /\ \A c \in after : Post(c, t)
  BY <1>4, <1>6, <1>7
<1>9. \A m \in marked : Post(m, b) => Post(m, t)
  BY <1>1, <1>3, <1>8 DEF IsMarked
<1>10. t # b /\ t # Entry
  <2>1. t # b /\ b # Entry
    BY <1>3, <1>8 DEF IsMarked
  <2> QED  BY <1>1, <1>3, <1>8, <2>1, BackwardsParts
<1> QED  BY <1>3, <1>7, <1>8, <1>9, <1>10 DEF Bypasses

-----------------------------------------------------------------------------
LEMMA SweepKeepsSweep ==
  ASSUME Marked, SweepInv, NEW b \in Blocks, Sweep(b), UNCHANGED given
  PROVE  SweepInv'
<1>1. /\ pc = "sweep" /\ pc' = pc /\ b \in Present(cfg) /\ ~IsMarked(b) /\ cfg' = Swept(b)
      /\ given' = given /\ marked' = marked
  BY DEF Sweep, dceVars
<1>2. /\ Proper(cfg) /\ Present(cfg) = Present(given)
      /\ \A c \in Present(given) : Untouched(c) \/ Cleared(c)
  BY <1>1 DEF SweepInv
<1>3. /\ FixedInv /\ given \in Graph /\ Present(given) \subseteq Blocks
      /\ cfg \in Graph /\ cfg.stmt \in [Blocks -> Statement]
      /\ \A e \in given.edges : e.source \in Present(given) /\ e.target \in Present(given)
      /\ Exit \in Present(given)
  BY <1>2, MarkedParts, GivenParts, GraphParts DEF Proper
<1>4. /\ b \in Present(given) /\ b \notin marked \cup {Entry, Exit}
      /\ cfg.stmt[b] = given.stmt[b] /\ Leaving(cfg, b) = Leaving(given, b)
  BY <1>1, <1>2 DEF IsMarked, Cleared, Untouched
<1>5. IsBranch(cfg, b) <=> IsBranch(given, b)
  BY <1>4 DEF IsBranch
<1>6. /\ Proper(cfg') /\ Present(cfg') = Present(given)
      /\ cfg'.stmt = [cfg.stmt EXCEPT ![b] = Empty]
      /\ \A c : c # b => Leaving(cfg', c) = Leaving(cfg, c)
      /\ ~IsBranch(given, b) => Leaving(cfg', b) = Leaving(cfg, b)
      /\ IsBranch(given, b) =>
           \E t : /\ Bypasses(b, t)
                  /\ Leaving(cfg', b) = {[source |-> b, target |-> t, direction |-> "none"]}
  <2>1. CASE ~IsBranch(given, b)
    <3>1. cfg' = RemoveBlock(cfg, b)
      BY <1>1, <1>5, <2>1 DEF Swept
    <3> QED  BY <1>2, <1>3, <1>5, <2>1, <3>1, RemoveBlockParts, RemoveBlockProper
  <2>2. CASE IsBranch(given, b)
    <3>1. PICK t : t = Nearest(b)
      OBVIOUS
    <3>2. Bypasses(b, t) /\ t # b
      BY <1>1, <1>4, <3>1, NearestIs
    <3>3. cfg' = RemoveBranch(cfg, b, t)
      BY <1>1, <1>5, <2>2, <3>1 DEF Swept
    <3>4. t \in Present(given) \ {Entry} /\ t \in Blocks
      BY <1>3, <3>2 DEF Bypasses
    <3>5. ASSUME NEW e \in Leaving(cfg, b), e.target = Exit
          PROVE  t = Exit
      <4>1. e \in given.edges /\ e.source = b
        BY <1>4 DEF Leaving
      <4>2. Post(t, e.source) /\ t # e.source
        BY <3>2, <4>1 DEF Bypasses
      <4>3. Post(t, Exit)
        BY <1>3, <3>4, <3>5, <4>1, <4>2, BackwardsParts
      <4> QED  BY <1>3, <3>4, <4>3, BackwardsParts
    <3>6. Proper(cfg') /\ Present(cfg') = Present(given)
      BY <1>2, <1>4, <3>3, <3>4, <3>5, RemoveBranchProper
    <3> QED  BY <1>3, <2>2, <3>2, <3>3, <3>4, <3>6, RemoveBranchParts
  <2> QED  BY <2>1, <2>2
<1>7. \A c, t : Bypasses(c, t)' <=> Bypasses(c, t)
  BY <1>1 DEF Bypasses, Post
<1>8. ASSUME NEW c \in Present(given)
      PROVE  Untouched(c)' \/ Cleared(c)'
  <2>1. CASE c = b
    <3>1. cfg'.stmt[c] = Empty
      BY <1>3, <1>6, <2>1
    <3> QED  BY <1>1, <1>4, <1>6, <1>7, <2>1, <3>1 DEF Cleared
  <2>2. CASE c # b
    <3>1. cfg'.stmt[c] = cfg.stmt[c] /\ Leaving(cfg', c) = Leaving(cfg, c)
      BY <1>3, <1>6, <2>2
    <3>2. CASE Untouched(c)
      BY <1>1, <3>1, <3>2 DEF Untouched
    <3>3. CASE Cleared(c)
      BY <1>1, <1>7, <3>1, <3>3 DEF Cleared
    <3> QED  BY <1>2, <3>2, <3>3
  <2> QED  BY <2>1, <2>2
<1> QED  BY <1>1, <1>6, <1>8 DEF SweepInv

LEMMA KeepSweep ==
  ASSUME SSAInv, MarkInv, SweepInv, [LocalNext]_localVars
  PROVE  SweepInv'
<1>1. ASSUME UNCHANGED <<given, marked, cfg>>, pc \in {"sweep", "swept"},
             pc' \in {"sweep", "swept"},
             pc' = "swept" => pc = "swept" \/ \A b \in Present(given) \ marked : cfg.stmt[b] = Empty
      PROVE  SweepInv'
  <2>1. \A b : (Untouched(b)' <=> Untouched(b)) /\ (Cleared(b)' <=> Cleared(b))
    BY <1>1 DEF Untouched, Cleared, Bypasses, Post
  <2> QED  BY <1>1, <2>1 DEF SweepInv
<1>2. CASE StartMarking /\ UNCHANGED given
  BY <1>2 DEF StartMarking, SweepInv
<1>3. CASE \E b \in Blocks : Mark(b) /\ UNCHANGED given
  BY <1>3 DEF Mark, ssaVars, SweepInv
<1>4. CASE StartSweeping /\ UNCHANGED given
  <2>1. pc = "mark" /\ pc' = "sweep" /\ cfg' = cfg /\ given' = given
    BY <1>4 DEF StartSweeping
  <2>2. cfg = given /\ FixedInv
    BY <2>1 DEF SSAInv, FixedInv
  <2>3. Proper(given)
    BY <2>2, GivenParts, ConsistentProper DEF Connected
  <2>4. \A b \in Present(given) : Untouched(b)'
    BY <2>1, <2>2 DEF Untouched
  <2> QED  BY <2>1, <2>2, <2>3, <2>4 DEF SweepInv
<1>5. CASE \E b \in Blocks : Sweep(b) /\ UNCHANGED given
  <2>1. pc = "sweep"
    BY <1>5 DEF Sweep
  <2>2. Marked
    BY <2>1 DEF Marked
  <2> QED  BY <1>5, <2>2, SweepKeepsSweep
<1>6. CASE StopSweeping /\ UNCHANGED given
  <2>1. /\ pc = "sweep" /\ pc' = "swept" /\ UNCHANGED <<given, marked, cfg>>
        /\ \A b \in Present(cfg) : IsMarked(b)
    BY <1>6 DEF StopSweeping, dceVars
  <2>2. Marked /\ Present(cfg) = Present(given)
    BY <2>1 DEF Marked, SweepInv
  <2>3. \A b \in Present(given) \ marked : cfg.stmt[b] = Empty
    BY <2>1, <2>2, MarkedParts DEF IsMarked
  <2> QED  BY <1>1, <2>1, <2>3
<1>7. CASE Unswept
  <2>1. CASE pc \in {"sweep", "swept"}
    BY <1>1, <1>7, <2>1 DEF Unswept, Sweeping, dceVars
  <2>2. CASE pc \notin {"sweep", "swept"}
    BY <1>7, <2>2 DEF Unswept, Sweeping, SweepInv
  <2> QED  BY <2>1, <2>2
<1> QED  BY <1>2, <1>3, <1>4, <1>5, <1>6, <1>7, SweepMoves

LEMMA SweepInductive == LocalSpec => []SweepInv
<1>1. LocalInit => SweepInv
  BY DEF LocalInit, SSAInit, SweepInv
<1>2. SSAInv /\ MarkInv /\ SweepInv /\ [LocalNext]_localVars => SweepInv'
  BY KeepSweep
<1> QED  BY <1>1, <1>2, SSAInductive, MarkInductive, PTL DEF LocalSpec

(* For any graph: consistency_check has nothing to say of any state of a   *)
(* sweep.  Each branch has two ways to go, each other block one.           *)
THEOREM SweptConsistentHolds == LocalSpec => []SweptConsistent
<1>1. SweepInv => SweptConsistent
  BY ProperConsistent DEF SweepInv, SweptConsistent
<1> QED  BY <1>1, SweepInductive, PTL

-----------------------------------------------------------------------------
(* The marked blocks that any way from b goes through.                     *)
Sight(b) == {m \in marked : Post(m, b)}

LEMMA SightOver ==
  ASSUME Marked, NEW e \in given.edges, e.source \notin marked
  PROVE  Sight(e.target) = Sight(e.source)
<1> DEFINE back == Reverse(given)
<1>1. /\ FixedInv /\ marked \subseteq Present(given) /\ Exit \in marked
      /\ \A b \in marked : NeedsOf(b) \subseteq marked
  BY MarkedParts
<1>2. e.source \in Present(given) /\ e.target \in Present(given) /\ e.source # Exit
  BY <1>1, GivenParts
<1>3. Rooted(back, Exit) /\ Present(back) = Present(given)
  BY <1>1, BackwardsParts
<1>4. PICK f \in back.edges : f.source = e.target /\ f.target = e.source
  BY <1>1, BackwardsParts
<1>5. ASSUME NEW m \in marked, Post(m, e.target)
      PROVE  Post(m, e.source)
  <2>1. m \in Present(given) /\ m # e.source
    BY <1>1
  <2>2. against.rdf = [b \in Present(given) |-> Df(back, Dominated(back, Exit), Exit, b)]
    <3>1. pc \in Sweeping
      BY DEF Marked, Sweeping
    <3> QED  BY <3>1 DEF Marked, MarkInv
  <2>3. e.source \notin Df(back, Dominated(back, Exit), Exit, m)
    <3>1. against.rdf[m] \subseteq marked
      BY <1>1 DEF NeedsOf
    <3> QED  BY <2>1, <2>2, <3>1
  <2> HIDE DEF back
  <2>4. Dominates(back, Exit, m, f.source)
    BY <1>4, <1>5 DEF Post, back
  <2>5. Dominates(back, Exit, m, Idominator(Dominated(back, Exit), e.source))
    BY <1>2, <1>3, <1>4, <2>1, <2>3, <2>4, Frontier
  <2>6. LET a == Idominator(Dominated(back, Exit), e.source)
        IN  a \in Present(back) /\ Dominates(back, Exit, a, e.source)
    BY <1>2, <1>3, IdominatorIs
  <2>7. Dominates(back, Exit, m, e.source)
    BY <1>1, <1>2, <1>3, <2>1, <2>5, <2>6, DominatesTransitive
  <2> QED  BY <2>7 DEF Post, back
<1>6. \A m \in marked : Post(m, e.source) => Post(m, e.target)
  BY <1>1, <1>2, BackwardsParts
<1> QED  BY <1>5, <1>6 DEF Sight

LEMMA SightUnique ==
  ASSUME Marked, NEW a \in marked, NEW b \in marked, Sight(a) = Sight(b)
  PROVE  a = b
<1>1. FixedInv /\ marked \subseteq Present(given)
  BY MarkedParts
<1>2. a \in Sight(a) /\ b \in Sight(b)
  BY <1>1, BackwardsParts DEF Sight
<1>3. Post(a, b) /\ Post(b, a)
  BY <1>2 DEF Sight
<1> QED  BY <1>1, <1>3, BackwardsParts

LEMMA SightSwept ==
  ASSUME Marked, SweepInv, NEW b \in Present(given), b \notin marked, NEW e \in Leaving(cfg, b)
  PROVE  Sight(e.target) = Sight(b) /\ e.target \in Present(given)
<1>1. /\ FixedInv /\ marked \subseteq Present(given)
      /\ \A f \in given.edges : f.source \in Present(given) /\ f.target \in Present(given)
      /\ Untouched(b) \/ Cleared(b)
  BY MarkedParts, GivenParts DEF Marked, SweepInv
<1>2. CASE Leaving(cfg, b) = Leaving(given, b)
  <2>1. e \in given.edges /\ e.source = b
    BY <1>2 DEF Leaving
  <2> QED  BY <1>1, <2>1, SightOver
<1>3. CASE \E t : /\ Bypasses(b, t)
                  /\ Leaving(cfg, b) = {[source |-> b, target |-> t, direction |-> "none"]}
  <2>1. PICK t : Bypasses(b, t) /\ e = [source |-> b, target |-> t, direction |-> "none"]
    BY <1>3
  <2>2. e.target = t /\ t \in Present(given) /\ Post(t, b)
    BY <2>1 DEF Bypasses
  <2>3. \A m \in marked : Post(m, t) => Post(m, b)
    BY <1>1, <2>2, BackwardsParts
  <2> QED  BY <2>1, <2>2, <2>3 DEF Bypasses, Sight
<1> QED  BY <1>1, <1>2, <1>3 DEF Untouched, Cleared

-----------------------------------------------------------------------------
(* The variables that a marked block uses as they are at b.                *)
Wanted(b) ==
  {x \in Vars : \E u \in marked : x \in UsesAt(given, u) /\ u \in Reach(Past(x), b, {})}

LEMMA WantedHere ==
  ASSUME Marked, NEW b \in marked
  PROVE  UsesAt(given, b) \subseteq Wanted(b)
<1>1. UsesAt(given, b) \subseteq Vars
  BY MarkedParts, GivenParts
<1> QED  BY <1>1, Reached DEF Wanted

(* A block that gives a wanted variable its value is marked. *)
LEMMA WantedOver ==
  ASSUME Marked, NEW e \in given.edges, NEW x \in Wanted(e.target)
  PROVE  /\ x \notin Defs(given.stmt[e.source]) => x \in Wanted(e.source)
         /\ x \in AnyDefs(given, e.source) => e.source \in marked
<1>1. /\ FixedInv /\ e.source \in Present(given) /\ e.target \in Present(given)
  BY MarkedParts, GivenParts
<1>2. PICK u \in marked : x \in UsesAt(given, u) /\ u \in Reach(Past(x), e.target, {})
  BY DEF Wanted
<1>3. PICK d : d = e.source
  OBVIOUS
<1>4. /\ Past(x).edges = {f \in given.edges : f.source \notin Kills(given, x)}
      /\ From(d, x).edges = {f \in given.edges : f.source = d \/ f.source \notin Kills(given, x)}
      /\ \A b : d \in Reaching(given, b, x) <=>
           /\ d \in Present(given) /\ x \in AnyDefs(given, d)
           /\ \E f \in From(d, x).edges : f.target = b /\ f.source \in Reach(From(d, x), d, {})
  BY <1>1, WaysAre
<1>5. ASSUME x \notin Defs(given.stmt[d])
      PROVE  x \in Wanted(d)
  <2>1. e \in Past(x).edges
    BY <1>3, <1>4, <1>5 DEF Kills
  <2>2. e.target \in Reach(Past(x), d, {})
    BY <1>3, <2>1, Reached
  <2>3. Reach(Past(x), e.target, {}) \subseteq Reach(Past(x), d, {})
    BY <2>2, ReachMore
  <2> QED  BY <1>2, <2>3 DEF Wanted
<1>6. ASSUME x \in AnyDefs(given, d)
      PROVE  d \in marked
  <2>1. e \in From(d, x).edges /\ \A f \in Past(x).edges : f \in From(d, x).edges
    BY <1>3, <1>4
  <2>2. d \in Reach(From(d, x), d, {}) /\ e.target \in Reach(From(d, x), d, {})
    BY <1>3, <2>1, Reached
  <2>3. Reach(Past(x), e.target, {}) \subseteq Reach(From(d, x), d, {})
    BY <2>1, <2>2, ReachMore
  <2>4. \E f \in From(d, x).edges : f.target = u /\ f.source \in Reach(From(d, x), d, {})
    <3>1. CASE u = e.target
      BY <1>3, <2>1, <2>2, <3>1
    <3>2. CASE u # e.target
      <4>1. PICK f \in Past(x).edges : f.target = u /\ f.source \in Reach(Past(x), e.target, {})
        BY <1>2, <3>2, LastStep
      <4> QED  BY <2>1, <2>3, <4>1
    <3> QED  BY <3>1, <3>2
  <2>5. d \in Reaching(given, u, x)
    BY <1>1, <1>3, <1>4, <1>6, <2>4
  <2> QED  BY <1>2, <2>5, ReachingMarked
<1> QED  BY <1>3, <1>5, <1>6

-----------------------------------------------------------------------------
(* The runs.                                                               *)
LEMMA EffectParts ==
  ASSUME NEW s \in Statement, NEW store \in [Vars -> BOOLEAN]
  PROVE  /\ Effect(s, store) \in [Vars -> BOOLEAN]
         /\ \A x \in Vars : x \notin Defs(s) \cup MayDefs(s) => Effect(s, store)[x] = store[x]
<1>1. CASE s.op = "set"
  BY <1>1 DEF Effect, Statement, Defs, MayDefs
<1>2. CASE s.op = "copy"
  BY <1>2 DEF Effect, Statement, Defs, MayDefs
<1>3. CASE s.op = "not"
  BY <1>3 DEF Effect, Statement, Defs, MayDefs
<1>4. CASE s.op = "may"
  BY <1>4 DEF Effect, Statement, Defs, MayDefs
<1>5. CASE s.op \notin {"set", "copy", "not", "may"}
  BY <1>5 DEF Effect
<1> QED  BY <1>1, <1>2, <1>3, <1>4, <1>5

(* What a statement gives a variable depends on what it uses. *)
LEMMA EffectAgrees ==
  ASSUME NEW s \in Statement, NEW one \in [Vars -> BOOLEAN], NEW other \in [Vars -> BOOLEAN],
         \A x \in Uses(s) : one[x] = other[x], NEW x \in Vars,
         x \in Defs(s) \/ one[x] = other[x]
  PROVE  Effect(s, one)[x] = Effect(s, other)[x]
<1>1. CASE s.op = "set"
  BY <1>1 DEF Effect, Statement, Defs
<1>2. CASE s.op = "copy"
  BY <1>2 DEF Effect, Statement, Defs, Uses
<1>3. CASE s.op = "not"
  BY <1>3 DEF Effect, Statement, Defs, Uses
<1>4. CASE s.op = "may"
  BY <1>4 DEF Effect, Statement, Defs, Uses
<1>5. CASE s.op \notin {"set", "copy", "not", "may"}
  BY <1>5 DEF Effect, Defs
<1> QED  BY <1>1, <1>2, <1>3, <1>4, <1>5

RunState == [at : Present(given), store : [Vars -> BOOLEAN]]

LEMMA AfterIs ==
  ASSUME NEW g, Proper(g), NEW p, p.at \in Present(g) \ {Exit}, p.store \in [Vars -> BOOLEAN],
         IsBranch(g, p.at) => g.stmt[p.at].rhs \in Vars
  PROVE  \E e \in Leaving(g, p.at) :
           /\ e \in Taken(g, p) /\ After(g, p).at = e.target
           /\ After(g, p) = [at |-> After(g, p).at, store |-> Effect(g.stmt[p.at], p.store)]
<1>1. \E e \in Leaving(g, p.at) : e \in Taken(g, p)
  <2>1. CASE IsBranch(g, p.at)
    <3>1. PICK e, f \in Leaving(g, p.at) : e.direction = "true" /\ f.direction = "false"
      BY <2>1 DEF Proper, TwoWays
    <3>2. p.store[g.stmt[p.at].rhs] \in BOOLEAN
      BY <2>1
    <3> QED  BY <3>1, <3>2 DEF Taken
  <2>2. CASE ~IsBranch(g, p.at)
    BY <2>2 DEF Proper, OneWay, Taken
  <2> QED  BY <2>1, <2>2
<1>2. PICK e : e = CHOOSE f \in Taken(g, p) : TRUE
  OBVIOUS
<1>3. e \in Taken(g, p) /\ e \in Leaving(g, p.at)
  BY <1>1, <1>2 DEF Taken
<1>4. After(g, p) = [at |-> e.target, store |-> Effect(g.stmt[p.at], p.store)]
  BY <1>2 DEF After
<1> QED  BY <1>3, <1>4

(* A run of the graph before the pass. *)
LEMMA GivenStep ==
  ASSUME FixedInv, NEW p \in RunState, p.at # Exit
  PROVE  /\ After(given, p) \in RunState
         /\ After(given, p).store = Effect(given.stmt[p.at], p.store)
         /\ \E e \in given.edges :
              e.source = p.at /\ e.target = After(given, p).at /\ e \in Taken(given, p)
<1>1. /\ given \in Graph /\ Proper(given) /\ Present(given) \subseteq Blocks
      /\ \A b \in Blocks : given.stmt[b] \in Statement
      /\ \A e \in given.edges : e.source \in Present(given) /\ e.target \in Present(given)
  BY GivenParts, ConsistentProper, GraphParts DEF Connected
<1>2. p.at \in Present(given) \ {Exit} /\ p.store \in [Vars -> BOOLEAN]
  BY DEF RunState
<1>3. IsBranch(given, p.at) => given.stmt[p.at].rhs \in Vars
  <2>1. \A s \in Statement : s.op = "branch" => s.rhs \in Vars
    BY DEF Statement
  <2> QED  BY <1>1, <1>2, <2>1 DEF IsBranch
<1>4. PICK e \in Leaving(given, p.at) :
        /\ e \in Taken(given, p) /\ After(given, p).at = e.target
        /\ After(given, p) =
             [at |-> After(given, p).at, store |-> Effect(given.stmt[p.at], p.store)]
  BY <1>1, <1>2, <1>3, AfterIs
<1>5. Effect(given.stmt[p.at], p.store) \in [Vars -> BOOLEAN]
  BY <1>1, <1>2, EffectParts
<1>6. e \in given.edges /\ e.source = p.at
  BY DEF Leaving
<1>7. PICK a, s : After(given, p) = [at |-> a, store |-> s]
                  /\ a = e.target /\ s = Effect(given.stmt[p.at], p.store)
  BY <1>4
<1> QED  BY <1>1, <1>4, <1>5, <1>6, <1>7 DEF RunState

(* Where a run gets to before it is heard. *)
AheadOf(p) ==
  {r \in RunState : \A S \in SUBSET RunState :
     p \in S /\ (\A s \in S : ~IsHeard(given, s) => After(given, s) \in S) => r \in S}

LEMMA AheadClosed ==
  ASSUME FixedInv, NEW p \in RunState
  PROVE  /\ p \in AheadOf(p)
         /\ \A r \in AheadOf(p) : ~IsHeard(given, r) => After(given, r) \in AheadOf(p)
<1>1. p \in AheadOf(p)
  BY DEF AheadOf
<1>2. ASSUME NEW r \in AheadOf(p), ~IsHeard(given, r)
      PROVE  After(given, r) \in AheadOf(p)
  <2>1. r \in RunState /\ r.at # Exit
    BY <1>2 DEF AheadOf, IsHeard
  <2>2. After(given, r) \in RunState
    BY <2>1, GivenStep
  <2> QED  BY <1>2, <2>2 DEF AheadOf
<1> QED  BY <1>1, <1>2

LEMMA AheadLeast ==
  ASSUME NEW p, NEW S \in SUBSET RunState, p \in S,
         \A s \in S : ~IsHeard(given, s) => After(given, s) \in S
  PROVE  AheadOf(p) \subseteq S
BY DEF AheadOf

LEMMA AheadOfNext ==
  ASSUME FixedInv, NEW p \in RunState, NEW r \in AheadOf(p), r # p
  PROVE  ~IsHeard(given, p) /\ r \in AheadOf(After(given, p))
<1>1. ~IsHeard(given, p)
  <2>1. IsHeard(given, p) => AheadOf(p) \subseteq {p}
    BY AheadLeast
  <2> QED  BY <2>1
<1>2. After(given, p) \in RunState
  BY <1>1, GivenStep DEF IsHeard
<1>3. PICK S : S = AheadOf(After(given, p)) \cup {p}
  OBVIOUS
<1>4. S \in SUBSET RunState
  BY <1>3 DEF AheadOf
<1>5. p \in S /\ \A s \in S : ~IsHeard(given, s) => After(given, s) \in S
  BY <1>2, <1>3, AheadClosed
<1>6. r \in S
  BY <1>4, <1>5, AheadLeast
<1> QED  BY <1>1, <1>3, <1>6

-----------------------------------------------------------------------------
(* A run of the graph that was swept is abreast of one of the graph before *)
(* the sweep: the same marked blocks are ahead of both, and they agree     *)
(* about what those use.                                                   *)
Abreast(p, q) ==
  /\ Sight(p.at) = Sight(q.at)
  /\ \A x \in Wanted(p.at) : p.store[x] = q.store[x]

AllSwept == Marked /\ SweepInv /\ pc = "swept"

LEMMA SweptParts ==
  ASSUME AllSwept
  PROVE  /\ Marked /\ SweepInv /\ FixedInv /\ given \in Graph /\ cfg \in Graph
         /\ Proper(given) /\ Proper(cfg) /\ Present(cfg) = Present(given)
         /\ marked \subseteq Present(given) /\ Entry \in marked /\ Exit \in marked
         /\ Present(given) \subseteq Blocks
         /\ \A b \in Blocks : given.stmt[b] \in Statement /\ cfg.stmt[b] \in Statement
         /\ \A b \in marked : cfg.stmt[b] = given.stmt[b] /\ Leaving(cfg, b) = Leaving(given, b)
         /\ \A b \in Present(given) \ marked : cfg.stmt[b] = Empty
         /\ \A p \in RunState : IsHeard(given, p) \/ IsHeard(cfg, p) => p.at \in marked
<1>1. /\ Marked /\ SweepInv /\ FixedInv /\ marked \subseteq Present(given)
      /\ Entry \in marked /\ Exit \in marked
      /\ \A b \in Present(given) : IsCritical(given, b) => b \in marked
  BY MarkedParts DEF AllSwept
<1>2. /\ given \in Graph /\ Proper(given) /\ Present(given) \subseteq Blocks
  BY <1>1, GivenParts, ConsistentProper DEF Connected
<1>3. /\ Proper(cfg) /\ cfg \in Graph /\ Present(cfg) = Present(given)
      /\ \A b \in Present(given) : Untouched(b) \/ Cleared(b)
      /\ \A b \in Present(given) \ marked : cfg.stmt[b] = Empty
  BY DEF AllSwept, SweepInv, Proper
<1>4. \A b \in Blocks : given.stmt[b] \in Statement /\ cfg.stmt[b] \in Statement
  BY <1>2, <1>3, GraphParts
<1>5. \A b \in marked : cfg.stmt[b] = given.stmt[b] /\ Leaving(cfg, b) = Leaving(given, b)
  BY <1>1, <1>3 DEF Untouched, Cleared
<1>6. ASSUME NEW p \in RunState, IsHeard(given, p) \/ IsHeard(cfg, p)
      PROVE  p.at \in marked
  <2>1. p.at \in Present(given)
    BY DEF RunState
  <2>2. CASE p.at = Exit
    BY <1>1, <2>2
  <2>3. CASE p.at # Exit /\ given.stmt[p.at].op = "print"
    BY <1>1, <2>1, <2>3 DEF IsCritical
  <2>4. CASE p.at # Exit /\ cfg.stmt[p.at].op = "print"
    <3>1. cfg.stmt[p.at] # Empty
      BY <2>4, EmptyStatement
    <3> QED  BY <1>3, <2>1, <3>1
  <2> QED  BY <1>6, <2>2, <2>3, <2>4 DEF IsHeard
<1> QED  BY <1>1, <1>2, <1>3, <1>4, <1>5, <1>6

LEMMA GivenAlone ==
  ASSUME AllSwept, NEW p \in RunState, NEW q, Abreast(p, q), p.at \notin marked
  PROVE  Abreast(After(given, p), q)
<1>1. Marked /\ FixedInv /\ Exit \in marked
  BY SweptParts
<1>2. p.at \in Present(given) /\ p.store \in [Vars -> BOOLEAN] /\ p.at # Exit
  BY <1>1 DEF RunState
<1>3. PICK e \in given.edges : e.source = p.at /\ e.target = After(given, p).at
  BY <1>1, <1>2, GivenStep
<1>4. After(given, p).store = Effect(given.stmt[p.at], p.store)
  BY <1>1, <1>2, GivenStep
<1>5. Sight(e.target) = Sight(p.at)
  BY <1>1, <1>2, <1>3, SightOver
<1>6. ASSUME NEW x \in Wanted(e.target)
      PROVE  After(given, p).store[x] = q.store[x]
  <2>1. x \notin AnyDefs(given, p.at) /\ x \in Vars
    BY <1>1, <1>3, <1>6, WantedOver DEF Wanted
  <2>2. x \in Wanted(p.at)
    BY <1>1, <1>3, <1>6, <2>1, WantedOver DEF AnyDefs
  <2>3. given.stmt[p.at] \in Statement
    BY <1>2, SweptParts
  <2>4. Effect(given.stmt[p.at], p.store)[x] = p.store[x]
    BY <1>2, <2>1, <2>3, EffectParts DEF AnyDefs
  <2> QED  BY <1>4, <2>2, <2>4 DEF Abreast
<1> QED  BY <1>3, <1>5, <1>6 DEF Abreast

LEMMA MadeAlone ==
  ASSUME AllSwept, NEW p, NEW q \in RunState, Abreast(p, q), q.at \notin marked
  PROVE  Abreast(p, After(cfg, q)) /\ After(cfg, q) \in RunState
<1>1. Marked /\ SweepInv /\ Exit \in marked /\ Proper(cfg) /\ Present(cfg) = Present(given)
  BY SweptParts
<1>2. q.at \in Present(given) /\ q.store \in [Vars -> BOOLEAN] /\ q.at # Exit
  BY <1>1 DEF RunState
<1>3. cfg.stmt[q.at] = Empty /\ Empty.op = "empty"
  BY <1>2, SweptParts, EmptyStatement
<1>4. PICK e \in Leaving(cfg, q.at) :
        /\ After(cfg, q).at = e.target
        /\ After(cfg, q) = [at |-> After(cfg, q).at, store |-> Effect(cfg.stmt[q.at], q.store)]
  BY <1>1, <1>2, <1>3, AfterIs DEF IsBranch
<1>5. Effect(cfg.stmt[q.at], q.store) = q.store
  BY <1>3 DEF Effect
<1>6. PICK t : t = e.target
  OBVIOUS
<1>7. After(cfg, q) = [at |-> t, store |-> q.store]
  BY <1>4, <1>5, <1>6
<1>8. Sight(t) = Sight(q.at) /\ t \in Present(given)
  BY <1>1, <1>2, <1>6, SightSwept
<1> QED  BY <1>2, <1>7, <1>8 DEF Abreast, RunState

(* At a marked block both go the same way. *)
LEMMA Together ==
  ASSUME AllSwept, NEW p \in RunState, NEW q \in RunState, Abreast(p, q), q.at = p.at,
         p.at \in marked \ {Exit}
  PROVE  Abreast(After(given, p), After(cfg, q)) /\ After(cfg, q) \in RunState
<1>1. /\ Marked /\ FixedInv /\ Proper(cfg) /\ Present(cfg) = Present(given)
      /\ Present(given) \subseteq Blocks
  BY SweptParts
<1>2. PICK b : b = p.at
  OBVIOUS
<1>3. /\ b \in Present(given) \ {Exit} /\ b \in marked /\ q.at = b /\ p.at = b
      /\ p.store \in [Vars -> BOOLEAN] /\ q.store \in [Vars -> BOOLEAN]
  BY <1>2 DEF RunState
<1>4. PICK s \in Statement : s = given.stmt[b] /\ s = cfg.stmt[b]
  BY <1>1, <1>3, SweptParts
<1>5. Leaving(cfg, b) = Leaving(given, b)
  BY <1>3, SweptParts
<1>6. \A x \in Uses(s) : x \in Vars /\ p.store[x] = q.store[x]
  <2>1. Uses(s) = UsesAt(given, b)
    BY <1>3, <1>4 DEF UsesAt
  <2>2. UsesAt(given, b) \subseteq Wanted(b)
    BY <1>1, <1>3, WantedHere
  <2> QED  BY <1>3, <2>1, <2>2 DEF Abreast, Wanted
<1>7. s.op = "branch" => s.rhs \in Vars /\ p.store[s.rhs] = q.store[s.rhs]
  BY <1>6 DEF Uses
<1>8. Taken(cfg, q) = Taken(given, p)
  BY <1>3, <1>4, <1>5, <1>7 DEF Taken, IsBranch
<1>9. PICK a : a = (CHOOSE e \in Taken(given, p) : TRUE).target
  OBVIOUS
<1>10. /\ After(given, p) = [at |-> a, store |-> Effect(s, p.store)]
       /\ After(cfg, q) = [at |-> a, store |-> Effect(s, q.store)]
  BY <1>3, <1>4, <1>8, <1>9 DEF After
<1>11. After(given, p) \in RunState
  BY <1>1, <1>3, GivenStep
<1>12. PICK e \in given.edges : e.source = b /\ e.target = a
  <2>1. \E e \in given.edges : e.source = p.at /\ e.target = After(given, p).at
    BY <1>1, <1>3, GivenStep
  <2> QED  BY <1>3, <1>10, <2>1
<1>13. ASSUME NEW x \in Wanted(a)
       PROVE  Effect(s, p.store)[x] = Effect(s, q.store)[x]
  <2>1. x \in Vars
    BY <1>13 DEF Wanted
  <2>2. x \in Defs(s) \/ x \in Wanted(b)
    BY <1>1, <1>4, <1>12, <1>13, WantedOver
  <2>3. x \in Defs(s) \/ p.store[x] = q.store[x]
    BY <1>3, <2>2 DEF Abreast
  <2> QED  BY <1>3, <1>6, <2>1, <2>3, EffectAgrees
<1>14. Effect(s, q.store) \in [Vars -> BOOLEAN]
  BY <1>3, EffectParts
<1>15. a \in Present(given)
  BY <1>10, <1>11 DEF RunState
<1> QED  BY <1>10, <1>13, <1>14, <1>15 DEF Abreast, RunState

-----------------------------------------------------------------------------
(* A run that is at, or can get to, the marked block where the other is,   *)
(* before it is heard, was there abreast of it.                            *)
LEMMA CatchUp ==
  ASSUME AllSwept, NEW p \in RunState, NEW q \in RunState, Abreast(p, q), q.at \in marked,
         NEW r \in AheadOf(p), r.at \in marked
  PROVE  \E s \in RunState : s.at = q.at /\ Abreast(s, q) /\ r \in AheadOf(s)
<1> DEFINE Met(z) == \E s \in RunState : s.at = q.at /\ Abreast(s, q) /\ z \in AheadOf(s)
<1>1. Marked /\ FixedInv /\ Exit \in marked
  BY SweptParts
<1>2. PICK S : S = {z \in RunState : Met(z) \/ (z.at \notin marked /\ Abreast(z, q))}
  OBVIOUS
<1>3. ASSUME NEW z \in RunState, Abreast(z, q)
      PROVE  z \in S
  <2>1. CASE z.at \in marked
    <3>1. z.at = q.at
      BY <1>1, <1>3, <2>1, SightUnique DEF Abreast
    <3>2. z \in AheadOf(z)
      BY <1>1, AheadClosed
    <3> QED  BY <1>2, <1>3, <3>1, <3>2
  <2> QED  BY <1>2, <1>3, <2>1
<1>4. ASSUME NEW z \in S, ~IsHeard(given, z)
      PROVE  After(given, z) \in S
  <2>1. z \in RunState /\ z.at # Exit
    BY <1>2, <1>4 DEF IsHeard
  <2>2. After(given, z) \in RunState
    BY <1>1, <2>1, GivenStep
  <2>3. CASE Met(z)
    <3>1. Met(After(given, z))
      BY <1>1, <1>4, <2>3, AheadClosed
    <3> QED  BY <1>2, <2>2, <3>1
  <2>4. CASE z.at \notin marked /\ Abreast(z, q)
    BY <1>3, <2>1, <2>2, <2>4, GivenAlone
  <2> QED  BY <1>2, <2>3, <2>4
<1>5. r \in S
  <2>1. S \in SUBSET RunState /\ p \in S
    BY <1>2, <1>3
  <2>2. AheadOf(p) \subseteq S
    BY <1>4, <2>1, AheadLeast
  <2> QED  BY <2>2
<1> QED  BY <1>2, <1>5

(* The runs of Lockstep: pair.made is abreast of where pair.given was, or  *)
(* is, since it was heard last.                                            *)
Beside(two) ==
  /\ two \in [given : RunState, made : RunState]
  /\ \E p \in RunState : Abreast(p, two.made) /\ two.given \in AheadOf(p)

RunsInv ==
  /\ pair # << >> => pc \in {"swept", "simplified"}
  /\ pc = "swept" /\ pair # << >> => Beside(pair)

LEMMA RunMoves ==
  ASSUME [LocalNext]_localVars
  PROVE  \/ StartRuns
         \/ Step
         \/ /\ pair' = pair
            /\ pc \in {"swept", "simplified"} =>
                 UNCHANGED <<pc, cfg, given, marked, reads, args, phis, simplified>>
<1>1. CASE UNCHANGED localVars
  BY <1>1 DEF localVars, passVars, ssaVars, dceVars, simplifyVars
<1>2. CASE ConvertToSSA
  <2>1. CASE \E b \in Blocks : InsertPhis(b)
    BY <1>2, <2>1 DEF ConvertToSSA, InsertPhis
  <2>2. CASE \E b \in Blocks : Enter(b)
    <3>1. PICK b \in Blocks : Enter(b)
      BY <2>2
    <3>2. pc = "rename"
      BY <3>1 DEF Enter
    <3> QED  BY <1>2, <3>2 DEF ConvertToSSA
  <2>3. CASE StartRenaming \/ Leave
    BY <1>2, <2>3 DEF ConvertToSSA, StartRenaming, Leave
  <2> QED  BY <1>2, <2>1, <2>2, <2>3 DEF ConvertToSSA, SSANext
<1>3. CASE RunDCE
  BY <1>3 DEF RunDCE, DeadCodeNext, StartMarking, Mark, StartSweeping, Sweep, StopSweeping
<1>4. CASE RunIfSimplification
  BY <1>4 DEF RunIfSimplification, SimplifyNext, StartSimplifying, Simplify, StopSimplifying
<1> QED  BY <1>1, <1>2, <1>3, <1>4 DEF LocalNext

LEMMA StartBeside ==
  ASSUME AllSwept, NEW store \in [Vars -> BOOLEAN]
  PROVE  Beside(Start(store))
<1>1. FixedInv /\ Entry \in Present(given)
  BY SweptParts
<1>2. PICK p : p = [at |-> Entry, store |-> store]
  OBVIOUS
<1>3. p \in RunState
  BY <1>1, <1>2 DEF RunState
<1>4. p \in AheadOf(p) /\ Abreast(p, p)
  BY <1>1, <1>3, AheadClosed DEF Abreast
<1>5. Start(store) = [given |-> p, made |-> p]
  BY <1>2 DEF Start
<1> QED  BY <1>3, <1>4, <1>5 DEF Beside

(* Runs that are heard at once are at one block. *)
LEMMA HeardTogether ==
  ASSUME AllSwept, NEW p \in RunState, NEW q \in RunState, Abreast(p, q), NEW r \in AheadOf(p),
         IsHeard(given, r), IsHeard(cfg, q)
  PROVE  Abreast(r, q) /\ r.at = q.at /\ q.at \in marked
<1>1. FixedInv /\ r \in RunState /\ r.at \in marked /\ q.at \in marked
  BY SweptParts DEF AheadOf
<1>2. PICK s \in RunState : s.at = q.at /\ Abreast(s, q) /\ r \in AheadOf(s)
  BY <1>1, CatchUp
<1>3. s.at = Exit \/ given.stmt[s.at].op = "print"
  BY <1>1, <1>2, SweptParts DEF IsHeard
<1>4. r = s
  BY <1>1, <1>2, <1>3, AheadOfNext DEF IsHeard
<1> QED  BY <1>1, <1>2, <1>4

LEMMA OnwardBeside ==
  ASSUME AllSwept, NEW two, Beside(two), BothHeard(given, cfg, two) => ~Over(two)
  PROVE  Beside(Onward(given, cfg, two))
<1>1. FixedInv
  BY SweptParts
<1>2. PICK r \in RunState, q \in RunState : two = [given |-> r, made |-> q]
  BY DEF Beside
<1>3. two.given = r /\ two.made = q
  BY <1>2
<1>4. PICK p \in RunState : Abreast(p, q) /\ r \in AheadOf(p)
  BY <1>3 DEF Beside
<1>5. CASE ~IsHeard(given, r)
  <2>1. Onward(given, cfg, two) = [given |-> After(given, r), made |-> q]
    BY <1>2, <1>5 DEF Onward
  <2>2. After(given, r) \in AheadOf(p) /\ After(given, r) \in RunState
    BY <1>1, <1>4, <1>5, AheadClosed DEF AheadOf
  <2> QED  BY <1>4, <2>1, <2>2 DEF Beside
<1>6. CASE IsHeard(given, r) /\ ~IsHeard(cfg, q)
  <2>1. Onward(given, cfg, two) = [given |-> r, made |-> After(cfg, q)]
    BY <1>2, <1>6 DEF Onward
  <2>2. CASE q.at \notin marked
    BY <1>4, <2>1, <2>2, MadeAlone DEF Beside
  <2>3. CASE q.at \in marked
    <3>1. r.at \in marked
      BY <1>6, SweptParts
    <3>2. PICK s \in RunState : s.at = q.at /\ Abreast(s, q) /\ r \in AheadOf(s)
      BY <1>4, <2>3, <3>1, CatchUp
    <3>3. ~IsHeard(given, s)
      BY <1>6, <2>3, <3>2, SweptParts DEF IsHeard
    <3>4. s # r
      BY <1>6, <3>3
    <3>5. r \in AheadOf(After(given, s))
      BY <1>1, <3>2, <3>4, AheadOfNext
    <3>6. s.at \in marked \ {Exit}
      BY <2>3, <3>2, <3>3 DEF IsHeard
    <3>7. Abreast(After(given, s), After(cfg, q)) /\ After(cfg, q) \in RunState
      BY <3>2, <3>6, Together
    <3>8. After(given, s) \in RunState
      BY <1>1, <3>6, GivenStep
    <3> QED  BY <2>1, <3>5, <3>7, <3>8 DEF Beside
  <2> QED  BY <2>2, <2>3
<1>7. CASE IsHeard(given, r) /\ IsHeard(cfg, q)
  <2>1. Onward(given, cfg, two) = [given |-> After(given, r), made |-> After(cfg, q)]
    BY <1>2, <1>7 DEF Onward
  <2>2. Abreast(r, q) /\ q.at = r.at /\ r.at \in marked
    BY <1>4, <1>7, HeardTogether
  <2>3. r.at # Exit
    BY <1>3, <1>7 DEF BothHeard, Over
  <2>4. Abreast(After(given, r), After(cfg, q)) /\ After(cfg, q) \in RunState
    BY <2>2, <2>3, Together
  <2>5. After(given, r) \in RunState
    BY <1>1, <2>3, GivenStep
  <2>6. After(given, r) \in AheadOf(After(given, r))
    BY <1>1, <2>5, AheadClosed
  <2> QED  BY <2>1, <2>4, <2>5, <2>6 DEF Beside
<1> QED  BY <1>5, <1>6, <1>7

LEMMA KeepRuns ==
  ASSUME SSAInv, MarkInv, SweepInv, RunsInv, [LocalNext]_localVars
  PROVE  RunsInv'
<1>1. CASE UNCHANGED <<pc, cfg, given, marked>>
  <2>1. \A two : Beside(two)' <=> Beside(two)
    BY <1>1 DEF Beside, RunState, Abreast, AheadOf, Sight, Wanted, Past, Kills, Post
  <2>2. CASE StartRuns
    <3>1. pc \in {"swept", "simplified"}
      BY <2>2 DEF StartRuns
    <3>2. ASSUME pc = "swept"
          PROVE  Beside(pair')
      <4>1. AllSwept
        BY <3>2 DEF AllSwept, Marked
      <4> QED  BY <2>2, <4>1, StartBeside DEF StartRuns
    <3>3. \A two : two = pair' => (Beside(two)' <=> Beside(two))
      BY <2>1
    <3> QED  BY <1>1, <2>1, <3>1, <3>2 DEF RunsInv
  <2>3. CASE Step
    <3>1. /\ pair # << >> /\ pair' = Onward(given, cfg, pair)
          /\ BothHeard(given, cfg, pair) => ~Over(pair)
      BY <2>3 DEF Step
    <3>2. pc \in {"swept", "simplified"}
      BY <3>1 DEF RunsInv
    <3>3. ASSUME pc = "swept"
          PROVE  Beside(pair')
      <4>1. AllSwept /\ Beside(pair)
        BY <3>1, <3>3 DEF AllSwept, Marked, RunsInv
      <4> QED  BY <3>1, <4>1, OnwardBeside
    <3> QED  BY <1>1, <2>1, <3>2, <3>3 DEF RunsInv
  <2>4. CASE pair' = pair
    BY <1>1, <2>1, <2>4 DEF RunsInv
  <2> QED  BY <2>2, <2>3, <2>4, RunMoves
<1>2. CASE ~ UNCHANGED <<pc, cfg, given, marked>>
  <2>1. pair' = pair /\ pc \notin {"swept", "simplified"}
    BY <1>2, RunMoves DEF StartRuns, Step, passVars, ssaVars, dceVars
  <2> QED  BY <2>1 DEF RunsInv
<1> QED  BY <1>1, <1>2

LEMMA RunsInductive == LocalSpec => []RunsInv
<1>1. LocalInit => RunsInv
  BY DEF LocalInit, RunsInv
<1>2. SSAInv /\ MarkInv /\ SweepInv /\ RunsInv /\ [LocalNext]_localVars => RunsInv'
  BY KeepRuns
<1> QED  BY <1>1, <1>2, SSAInductive, MarkInductive, SweepInductive, PTL DEF LocalSpec

LEMMA InvMissed ==
  ASSUME SSAInv, MarkInv, SweepInv, RunsInv
  PROVE  NothingMissed
<1> SUFFICES ASSUME pc = "swept", pair # << >>, BothHeard(given, cfg, pair)
             PROVE  /\ (pair.given.at = Exit) <=> (pair.made.at = Exit)
                    /\ Observed(given, pair.given, Globals) = Observed(cfg, pair.made, Globals)
  BY DEF NothingMissed, AfterSweep, Agree
<1>1. AllSwept /\ Beside(pair)
  BY DEF AllSwept, Marked, RunsInv
<1>2. PICK r \in RunState, q \in RunState : r = pair.given /\ q = pair.made
  BY <1>1 DEF Beside
<1>3. PICK p \in RunState : Abreast(p, q) /\ r \in AheadOf(p)
  BY <1>1, <1>2 DEF Beside
<1>4. IsHeard(given, r) /\ IsHeard(cfg, q)
  BY <1>2 DEF BothHeard
<1>5. Abreast(r, q) /\ r.at = q.at /\ q.at \in marked
  BY <1>1, <1>3, <1>4, HeardTogether
<1>6. PICK b : b = r.at
  OBVIOUS
<1>7. \A x \in UsesAt(given, b) : r.store[x] = q.store[x]
  BY <1>1, <1>5, <1>6, SweptParts, WantedHere DEF Abreast
<1>8. CASE b = Exit
  <2>1. \A x \in Globals : r.store[x] = q.store[x]
    BY <1>7, <1>8 DEF UsesAt
  <2> QED  BY <1>2, <1>5, <1>6, <1>8, <2>1 DEF Observed
<1>9. CASE b # Exit
  <2>1. given.stmt[b].op = "print" /\ cfg.stmt[b] = given.stmt[b]
    BY <1>1, <1>4, <1>5, <1>6, <1>9, SweptParts DEF IsHeard
  <2>2. r.store[given.stmt[b].rhs] = q.store[given.stmt[b].rhs]
    BY <1>7, <1>9, <2>1 DEF UsesAt, Uses
  <2> QED  BY <1>2, <1>5, <1>6, <1>9, <2>1, <2>2 DEF Observed
<1> QED  BY <1>8, <1>9

(* Dead code is not missed: for any graph, any run of what a sweep leaves  *)
(* prints what the program printed, in the same order, and ends with the   *)
(* same variables.                                                         *)
THEOREM NothingMissedHolds == LocalSpec => []NothingMissed
<1>1. SSAInv /\ MarkInv /\ SweepInv /\ RunsInv => NothingMissed
  BY InvMissed
<1> QED  BY <1>1, SSAInductive, MarkInductive, SweepInductive, RunsInductive, PTL

-----------------------------------------------------------------------------
(* From where a run of g is heard after finitely many steps: the states in *)
(* every set that has the ones that are heard and those a step before      *)
(* another of it.                                                          *)
Answers(g) ==
  {q \in RunState : \A S \in SUBSET RunState :
     (\A s \in RunState : IsHeard(g, s) \/ After(g, s) \in S => s \in S) => q \in S}

LEMMA AnswersClosed ==
  ASSUME NEW g, NEW s \in RunState, IsHeard(g, s) \/ After(g, s) \in Answers(g)
  PROVE  s \in Answers(g)
BY DEF Answers

LEMMA AnswersLeast ==
  ASSUME NEW g, NEW S \in SUBSET RunState,
         \A s \in RunState : IsHeard(g, s) \/ After(g, s) \in S => s \in S
  PROVE  Answers(g) \subseteq S
BY DEF Answers

(* What has a place that is heard ahead of it is heard at last. *)
LEMMA AheadAnswers ==
  ASSUME FixedInv, NEW p \in RunState, NEW r \in AheadOf(p), IsHeard(given, r)
  PROVE  p \in Answers(given)
<1> SUFFICES ASSUME p \notin Answers(given) PROVE FALSE
  OBVIOUS
<1>1. PICK S : S = {s \in RunState : s \notin Answers(given)}
  OBVIOUS
<1>2. ASSUME NEW s \in S, ~IsHeard(given, s)
      PROVE  After(given, s) \in S
  <2>1. s \in RunState /\ s.at # Exit /\ s \notin Answers(given)
    BY <1>1, <1>2 DEF IsHeard
  <2>2. After(given, s) \in RunState
    BY <2>1, GivenStep
  <2> QED  BY <1>1, <2>1, <2>2, AnswersClosed
<1>3. S \in SUBSET RunState /\ p \in S
  BY <1>1
<1>4. r \in S
  BY <1>2, <1>3, AheadLeast
<1> QED  BY <1>1, <1>4, AnswersClosed

(* Every swept block is on a way to a marked one: the way out of it leads  *)
(* up the tree of postdominators.  So a run of the swept graph gets to the *)
(* marked block the run of the given graph is at.                          *)
LEMMA GetsThere ==
  ASSUME AllSwept, NEW p \in RunState, p.at \in marked, NEW A \in SUBSET RunState,
         \A s \in RunState : After(cfg, s) \in A => s \in A,
         \A z \in RunState : z.at = p.at /\ Abreast(p, z) => z \in A,
         NEW q \in RunState, Abreast(p, q)
  PROVE  q \in A
<1>1. /\ Marked /\ SweepInv /\ FixedInv /\ Proper(cfg) /\ Present(cfg) = Present(given)
      /\ Exit \in marked /\ marked \subseteq Present(given) /\ Present(given) \subseteq Blocks
      /\ \A b \in Present(given) \ marked : cfg.stmt[b] = Empty
      /\ \A b \in Present(given) : Untouched(b) \/ Cleared(b)
  BY SweptParts DEF AllSwept, SweepInv
<1>2. PICK Good :
        Good = {b \in Present(given) :
                  \A z \in RunState : z.at = b /\ Abreast(p, z) => z \in A}
  OBVIOUS
<1>3. ASSUME NEW b \in marked
      PROVE  b \in Good
  <2>1. ASSUME NEW z \in RunState, z.at = b, Abreast(p, z)
        PROVE  z \in A
    <3>1. Sight(p.at) = Sight(b)
      BY <2>1 DEF Abreast
    <3>2. p.at = b
      BY <1>1, <1>3, <3>1, SightUnique
    <3> QED  BY <2>1, <3>2
  <2> QED  BY <1>1, <1>2, <2>1
<1>4. ASSUME NEW b \in Present(given), b \notin marked, \A e \in Leaving(cfg, b) : e.target \in Good
      PROVE  b \in Good
  <2>1. ASSUME NEW z \in RunState, z.at = b, Abreast(p, z)
        PROVE  z \in A
    <3>1. Abreast(p, After(cfg, z)) /\ After(cfg, z) \in RunState
      BY <1>4, <2>1, MadeAlone
    <3>2. ~IsBranch(cfg, b)
      BY <1>1, <1>4, EmptyStatement DEF IsBranch
    <3>3. z.at \in Present(cfg) \ {Exit} /\ z.store \in [Vars -> BOOLEAN]
      BY <1>1, <1>4, <2>1 DEF RunState
    <3>4. PICK e \in Leaving(cfg, z.at) :
            /\ e \in Taken(cfg, z) /\ After(cfg, z).at = e.target
            /\ After(cfg, z) =
                 [at |-> After(cfg, z).at, store |-> Effect(cfg.stmt[z.at], z.store)]
      BY <1>1, <2>1, <3>2, <3>3, AfterIs
    <3>5. After(cfg, z).at \in Good
      BY <1>4, <2>1, <3>4
    <3>6. After(cfg, z) \in A
      BY <1>2, <3>1, <3>5
    <3> QED  BY <3>6
  <2> QED  BY <1>2, <2>1
<1>5. PICK Z : Z = {b \in Present(given) : \A a \in Present(given) : Post(a, b) => a \in Good}
  OBVIOUS
<1>6. Exit \in Z
  BY <1>1, <1>3, <1>5, BackwardsParts
<1>7. ASSUME NEW e \in given.edges, e.target \in Z
      PROVE  e.source \in Z
  <2>1. PICK b, c : b = e.source /\ c = e.target
    OBVIOUS
  <2>2. b \in Present(given) /\ c \in Present(given) /\ e \in Leaving(given, b)
    BY <1>1, <2>1, GivenParts DEF Leaving
  <2>3. \A a \in Present(given) : Post(a, b) /\ a # b => a \in Good
    BY <1>1, <1>5, <1>7, <2>1, <2>2, BackwardsParts
  <2>4. c \in Good
    BY <1>1, <1>5, <1>7, <2>1, <2>2, BackwardsParts
  <2>5. b \in Good
    <3>1. CASE b \in marked
      BY <1>3, <3>1
    <3>2. CASE b \notin marked /\ IsBranch(given, b)
      <4>1. ~Untouched(b)
        <5>1. ~IsBranch(cfg, b)
          BY <1>1, <2>2, <3>2, EmptyStatement DEF IsBranch
        <5> QED  BY <3>2, <5>1 DEF Untouched, IsBranch
      <4>2. PICK t : /\ Bypasses(b, t)
                     /\ Leaving(cfg, b) =
                          {[source |-> b, target |-> t, direction |-> "none"]}
        BY <1>1, <2>2, <3>2, <4>1 DEF Cleared
      <4>3. t \in Good
        BY <2>3, <4>2 DEF Bypasses
      <4> QED  BY <1>4, <2>2, <3>2, <4>2, <4>3
    <3>3. CASE b \notin marked /\ ~IsBranch(given, b)
      <4>1. Leaving(cfg, b) = Leaving(given, b)
        BY <1>1, <2>2, <3>3 DEF Untouched, Cleared
      <4>2. b # Exit
        BY <1>1, <3>3
      <4>3. \A f \in Leaving(given, b) : f = e
        <5>1. Proper(given)
          BY SweptParts
        <5> QED  BY <2>2, <3>3, <4>2, <5>1 DEF Proper, OneWay
      <4> QED  BY <1>4, <2>1, <2>2, <2>4, <3>3, <4>1, <4>3
    <3> QED  BY <3>1, <3>2, <3>3
  <2> QED  BY <1>5, <2>1, <2>2, <2>3, <2>5
<1>8. Z = Present(given)
  <2>1. Present(given) = Reach(Reverse(given), Exit, {})
    BY <1>1, GivenParts DEF Connected
  <2>2. \A f \in Reverse(given).edges : f.source \in Z => f.target \in Z
    BY <1>1, <1>7, BackwardsParts
  <2>3. Reach(Reverse(given), Exit, {}) \subseteq Z
    BY <1>6, <2>2, ReachLeast
  <2> QED  BY <1>5, <2>1, <2>3
<1>9. q.at \in Good
  <2>1. q.at \in Present(given) /\ Post(q.at, q.at)
    BY <1>1, BackwardsParts DEF RunState
  <2> QED  BY <1>5, <1>8, <2>1
<1> QED  BY <1>2, <1>9

LEMMA SweptAnswer ==
  ASSUME AllSwept, NEW p \in Answers(given), NEW q \in RunState, Abreast(p, q)
  PROVE  q \in Answers(cfg)
<1>1. PICK A : A = Answers(cfg)
  OBVIOUS
<1>2. /\ A \in SUBSET RunState
      /\ \A s \in RunState : IsHeard(cfg, s) \/ After(cfg, s) \in A => s \in A
  BY <1>1, AnswersClosed DEF Answers
<1>3. PICK S : S = {s \in RunState : \A z \in RunState : Abreast(s, z) => z \in A}
  OBVIOUS
<1>4. ASSUME NEW s \in RunState, IsHeard(given, s)
      PROVE  s \in S
  <2>1. s.at \in marked
    BY <1>4, SweptParts
  <2>2. ASSUME NEW z \in RunState, z.at = s.at
        PROVE  z \in A
    <3>1. IsHeard(cfg, z)
      BY <1>4, <2>1, <2>2, SweptParts DEF IsHeard
    <3> QED  BY <1>2, <3>1
  <2>3. \A z \in RunState : Abreast(s, z) => z \in A
    BY <1>2, <2>1, <2>2, GetsThere
  <2> QED  BY <1>3, <2>3
<1>5. ASSUME NEW s \in RunState, ~IsHeard(given, s), After(given, s) \in S
      PROVE  s \in S
  <2>1. CASE s.at \notin marked
    BY <1>3, <1>5, <2>1, GivenAlone
  <2>2. CASE s.at \in marked
    <3>1. s.at \in marked \ {Exit}
      BY <1>5, <2>2 DEF IsHeard
    <3>2. ASSUME NEW z \in RunState, z.at = s.at, Abreast(s, z)
          PROVE  z \in A
      <4>1. Abreast(After(given, s), After(cfg, z)) /\ After(cfg, z) \in RunState
        BY <3>1, <3>2, Together
      <4> QED  BY <1>2, <1>3, <1>5, <4>1
    <3>3. \A z \in RunState : Abreast(s, z) => z \in A
      BY <1>2, <2>2, <3>2, GetsThere
    <3> QED  BY <1>3, <3>3
  <2> QED  BY <2>1, <2>2
<1>6. Answers(given) \subseteq S
  <2>1. S \in SUBSET RunState
    BY <1>3
  <2> QED  BY <1>4, <1>5, <2>1, AnswersLeast
<1> QED  BY <1>1, <1>3, <1>6

(* What SweptAnswers asks for, up to the fairness: where the program is    *)
(* heard, what a sweep has left of it is heard after finitely many steps.  *)
SweptHeard == AfterSweep /\ IsHeard(given, pair.given) => pair.made \in Answers(cfg)

LEMMA InvSweptHeard ==
  ASSUME SSAInv, MarkInv, SweepInv, RunsInv
  PROVE  SweptHeard
<1> SUFFICES ASSUME pc = "swept", pair # << >>, IsHeard(given, pair.given)
             PROVE  pair.made \in Answers(cfg)
  BY DEF SweptHeard, AfterSweep
<1>1. AllSwept /\ Beside(pair) /\ FixedInv
  BY DEF AllSwept, Marked, RunsInv, SSAInv
<1>2. PICK r \in RunState, q \in RunState : r = pair.given /\ q = pair.made
  BY <1>1 DEF Beside
<1>3. PICK p \in RunState : Abreast(p, q) /\ r \in AheadOf(p)
  BY <1>1, <1>2 DEF Beside
<1>4. p \in Answers(given)
  BY <1>1, <1>2, <1>3, AheadAnswers
<1> QED  BY <1>1, <1>2, <1>3, <1>4, SweptAnswer

(* A sweep leads no run astray: for any graph, wherever the program prints *)
(* or ends, a run of what the sweep has left of it gets to where it does   *)
(* in finitely many steps.  Each swept branch leads up the tree of         *)
(* postdominators, so that nothing is left to go round in for ever.        *)
THEOREM SweptHeardHolds == LocalSpec => []SweptHeard
<1>1. SSAInv /\ MarkInv /\ SweepInv /\ RunsInv => SweptHeard
  BY InvSweptHeard
<1> QED  BY <1>1, SSAInductive, MarkInductive, SweepInductive, RunsInductive, PTL

-----------------------------------------------------------------------------
(* The simplification of branches.                                         *)
Simplifying == {"simplify", "simplified", "unreachable"}

(* The branch at b was put on what the "!" at d negates. *)
Turned(b, d) ==
  /\ IsBranch(given, b) /\ given.stmt[d].op = "not" /\ given.stmt[d].rhs # given.stmt[b].rhs
  /\ cfg.stmt[b] = [given.stmt[b] EXCEPT !.rhs = given.stmt[d].rhs]
  /\ Leaving(cfg, b) = {[e EXCEPT !.direction = Switched(@)] : e \in Leaving(given, b)}

SimplifyInv ==
  /\ pc \in Simplifying =>
       /\ cfg \in Graph /\ Present(cfg) = Present(given)
       /\ \A b \in visiting : IsBranch(given, b) /\ Untouched(b)
       /\ \A b \in Present(given) :
            Untouched(b) \/ \E d \in Present(given) : <<b, d>> \in simplified /\ Turned(b, d)
  /\ visiting \subseteq Present(given)
  /\ simplified \subseteq (Present(given) \ visiting) \X Present(given)
  /\ pc # "simplify" /\ pc # "unreachable" => visiting = {}
  /\ pc \notin Simplifying => simplified = {}

Unsimplified ==
  /\ UNCHANGED <<given, simplifyVars>>
  /\ pc \in Simplifying => UNCHANGED <<pc, cfg>>
  /\ pc \notin Simplifying => pc' \notin Simplifying

LEMMA SimplifyMoves ==
  ASSUME [LocalNext]_localVars
  PROVE  \/ StartSimplifying /\ UNCHANGED given
         \/ \E b \in Blocks : Simplify(b) /\ UNCHANGED given
         \/ StopSimplifying /\ UNCHANGED given
         \/ Unsimplified
<1>1. CASE UNCHANGED localVars
  BY <1>1 DEF Unsimplified, localVars, passVars, ssaVars
<1>2. CASE ConvertToSSA
  <2>1. pc \in {"insert", "rename"} /\ pc' \in {"insert", "rename", "done"}
    <3>1. CASE \E b \in Blocks : InsertPhis(b)
      BY <3>1 DEF InsertPhis
    <3>2. CASE \E b \in Blocks : Enter(b)
      <4>1. PICK b \in Blocks : Enter(b)
        BY <3>2
      <4> QED  BY <4>1 DEF Enter
    <3>3. CASE StartRenaming \/ Leave
      BY <3>3 DEF StartRenaming, Leave
    <3> QED  BY <1>2, <3>1, <3>2, <3>3 DEF ConvertToSSA, SSANext
  <2>2. UNCHANGED <<given, simplifyVars>>
    BY <1>2 DEF ConvertToSSA
  <2> QED  BY <2>1, <2>2 DEF Unsimplified, Simplifying
<1>3. CASE RunDCE
  BY <1>3 DEF RunDCE, DeadCodeNext, StartMarking, Mark, Sweep, StartSweeping, StopSweeping,
              Unsimplified, Simplifying, ssaVars
<1>4. CASE RunIfSimplification
  BY <1>4 DEF RunIfSimplification, SimplifyNext
<1>5. CASE StartRuns
  BY <1>5 DEF StartRuns, Unsimplified, passVars, ssaVars
<1>6. CASE Step
  BY <1>6 DEF Step, Unsimplified, passVars, ssaVars
<1> QED  BY <1>1, <1>2, <1>3, <1>4, <1>5, <1>6 DEF LocalNext

LEMMA BranchOnParts ==
  ASSUME NEW g \in Graph, NEW b \in Blocks, IsBranch(g, b), NEW x \in Vars
  PROVE  LET h == BranchOn(g, b, x)
         IN  /\ h \in Graph /\ h.stmt \in [Blocks -> Statement]
             /\ h.stmt[b] = [g.stmt[b] EXCEPT !.rhs = x]
             /\ \A c \in Blocks : c # b => h.stmt[c] = g.stmt[c]
             /\ Leaving(h, b) = {[e EXCEPT !.direction = Switched(@)] : e \in Leaving(g, b)}
             /\ \A c : c # b => Leaving(h, c) = Leaving(g, c)
             /\ Present(h) = Present(g)
<1> DEFINE h == BranchOn(g, b, x)
           To(e) == [e EXCEPT !.direction = Switched(@)]
<1>1. /\ g.stmt \in [Blocks -> Statement] /\ g.edges \subseteq Edge
  BY GraphParts
<1>2. h = [stmt |-> [g.stmt EXCEPT ![b].rhs = x],
           edges |-> (g.edges \ Leaving(g, b)) \cup {To(e) : e \in Leaving(g, b)}]
  BY DEF BranchOn
<1>3. [g.stmt[b] EXCEPT !.rhs = x] \in Statement
  <2>1. \A s \in Statement : s.op = "branch" => [s EXCEPT !.rhs = x] \in Statement
    BY DEF Statement
  <2> QED  BY <1>1, <2>1 DEF IsBranch
<1>4. \A e \in Edge : /\ To(e) \in Edge /\ To(e).source = e.source /\ To(e).target = e.target
  BY DEF Edge, Directions, Switched
<1> HIDE DEF h, To
<1>5. /\ h.stmt = [g.stmt EXCEPT ![b] = [g.stmt[b] EXCEPT !.rhs = x]]
      /\ h.edges = (g.edges \ Leaving(g, b)) \cup {To(e) : e \in Leaving(g, b)}
      /\ h = [stmt |-> h.stmt, edges |-> h.edges]
  BY <1>2
<1>6. h.stmt \in [Blocks -> Statement]
  BY <1>1, <1>3, <1>5
<1>7. h.edges \in SUBSET Edge
  BY <1>1, <1>4, <1>5 DEF Leaving
<1>8. h \in Graph
  BY <1>5, <1>6, <1>7 DEF Graph
<1>9. /\ Leaving(h, b) = {To(e) : e \in Leaving(g, b)}
      /\ \A c : c # b => Leaving(h, c) = Leaving(g, c)
  BY <1>1, <1>4, <1>5 DEF Leaving
<1>10. /\ \A e \in g.edges : \E f \in h.edges : f.source = e.source /\ f.target = e.target
       /\ \A f \in h.edges : \E e \in g.edges : f.source = e.source /\ f.target = e.target
  BY <1>1, <1>4, <1>5 DEF Leaving
<1>11. Present(h) = Present(g)
  BY <1>10 DEF Present
<1> QED  BY <1>1, <1>5, <1>6, <1>8, <1>9, <1>11 DEF h, To

-----------------------------------------------------------------------------
LEMMA SimplifyKeepsSimplify ==
  ASSUME SSAInv, SimplifyInv, NEW b \in Blocks, Simplify(b), UNCHANGED given
  PROVE  SimplifyInv'
<1>1. /\ pc = "simplify" /\ b \in visiting /\ visiting' = visiting \ {b} /\ given' = given
      /\ reads' = reads
  BY DEF Simplify
<1>2. /\ cfg \in Graph /\ Present(cfg) = Present(given)
      /\ \A c \in visiting : IsBranch(given, c) /\ Untouched(c)
      /\ \A c \in Present(given) :
           Untouched(c) \/ \E d \in Present(given) : <<c, d>> \in simplified /\ Turned(c, d)
      /\ visiting \subseteq Present(given)
      /\ simplified \subseteq (Present(given) \ visiting) \X Present(given)
  BY <1>1 DEF SimplifyInv, Simplifying
<1>3. /\ Converted /\ FixedInv /\ Present(given) \subseteq Blocks /\ b \in Present(given)
      /\ given.stmt[Exit] = Empty /\ given.stmt \in [Blocks -> Statement]
  BY <1>1, <1>2, GivenParts DEF Converted, SSAInv
<1>4. /\ IsBranch(given, b) /\ cfg.stmt[b] = given.stmt[b] /\ Leaving(cfg, b) = Leaving(given, b)
  BY <1>1, <1>2 DEF Untouched
<1>5. PICK x : x = given.stmt[b].rhs
  OBVIOUS
<1>6. PICK v : v = reads[<<b, x>>]
  OBVIOUS
<1>7. <<b, x>> \in DOMAIN reads
  <2>1. b # Exit /\ x \in UsesAt(given, b)
    BY <1>3, <1>4, <1>5, EmptyStatement DEF IsBranch, UsesAt, Uses
  <2> QED  BY <1>3, <2>1, ConvertedParts
<1>8. CASE v[1] = "use"
  <2>1. pc' = "unreachable" /\ UNCHANGED <<cfg, simplified>>
    BY <1>4, <1>5, <1>6, <1>8 DEF Simplify
  <2>2. \A c, d : (Untouched(c)' <=> Untouched(c)) /\ (Turned(c, d)' <=> Turned(c, d))
    BY <1>1, <2>1 DEF Untouched, Turned
  <2>3. /\ visiting' \subseteq Present(given)
        /\ simplified' \subseteq (Present(given) \ visiting') \X Present(given)
    BY <1>1, <1>2, <2>1
  <2> QED  BY <1>1, <1>2, <2>1, <2>2, <2>3 DEF SimplifyInv, Simplifying
<1>9. CASE v[1] # "use"
  <2>1. PICK d : d = v[2]
    OBVIOUS
  <2>2. d \in Present(given)
    BY <1>3, <1>6, <1>7, <1>9, <2>1, ReadPresent
  <2>3. PICK s : s = cfg.stmt[d]
    OBVIOUS
  <2>4. /\ pc' = pc
        /\ IF s.op = "not" /\ s.rhs # x
           THEN cfg' = BranchOn(cfg, b, s.rhs) /\ simplified' = simplified \cup {<<b, d>>}
           ELSE UNCHANGED <<cfg, simplified>>
    BY <1>4, <1>5, <1>6, <1>9, <2>1, <2>3 DEF Simplify
  <2>5. CASE ~(s.op = "not" /\ s.rhs # x)
    <3>1. UNCHANGED <<cfg, simplified>>
      BY <2>4, <2>5
    <3>2. \A c, e : (Untouched(c)' <=> Untouched(c)) /\ (Turned(c, e)' <=> Turned(c, e))
      BY <1>1, <3>1 DEF Untouched, Turned
    <3>3. /\ visiting' \subseteq Present(given)
          /\ simplified' \subseteq (Present(given) \ visiting') \X Present(given)
      BY <1>1, <1>2, <3>1
    <3> QED  BY <1>1, <1>2, <2>4, <3>1, <3>2, <3>3 DEF SimplifyInv, Simplifying
  <2>6. CASE s.op = "not" /\ s.rhs # x
    <3>1. cfg' = BranchOn(cfg, b, s.rhs) /\ simplified' = simplified \cup {<<b, d>>}
      BY <2>4, <2>6
    <3>2. s = given.stmt[d] /\ s \in Statement
      <4>1. CASE Untouched(d)
        BY <1>3, <2>2, <2>3, <4>1 DEF Untouched
      <4>2. CASE \E e \in Present(given) : Turned(d, e)
        <5>1. PICK e \in Present(given) : Turned(d, e)
          BY <4>2
        <5>2. \A z \in Statement : z.op = "branch" => \A y : [z EXCEPT !.rhs = y].op = "branch"
          BY DEF Statement
        <5>3. s.op = "branch"
          BY <1>3, <2>2, <2>3, <5>1, <5>2 DEF Turned, IsBranch
        <5> QED  BY <2>6, <5>3
      <4> QED  BY <1>2, <2>2, <4>1, <4>2
    <3>3. s.rhs \in Vars
      BY <2>6, <3>2 DEF Statement
    <3>4. IsBranch(cfg, b)
      BY <1>4 DEF IsBranch
    <3>5. /\ cfg' \in Graph /\ Present(cfg') = Present(given)
          /\ cfg'.stmt[b] = [given.stmt[b] EXCEPT !.rhs = s.rhs]
          /\ \A c \in Blocks : c # b => cfg'.stmt[c] = cfg.stmt[c]
          /\ Leaving(cfg', b) = {[e EXCEPT !.direction = Switched(@)] : e \in Leaving(given, b)}
          /\ \A c : c # b => Leaving(cfg', c) = Leaving(cfg, c)
      <4>1. PICK y \in Vars : y = s.rhs
        BY <3>3
      <4> QED  BY <1>2, <1>4, <3>1, <3>4, <4>1, BranchOnParts
    <3>6. Turned(b, d)' /\ <<b, d>> \in simplified'
      BY <1>1, <1>4, <1>5, <2>6, <3>1, <3>2, <3>5 DEF Turned
    <3>7. \A c \in Present(given) : c # b => (Untouched(c)' <=> Untouched(c))
      BY <1>1, <1>3, <3>5 DEF Untouched
    <3>8. \A c \in Present(given) : \A e : c # b => (Turned(c, e)' <=> Turned(c, e))
      BY <1>1, <1>3, <3>5 DEF Turned
    <3>9. ASSUME NEW c \in Present(given)
          PROVE  \/ Untouched(c)'
                 \/ \E e \in Present(given) : <<c, e>> \in simplified' /\ Turned(c, e)'
      <4>1. CASE c = b
        BY <2>2, <3>6, <4>1
      <4>2. CASE c # b
        BY <1>2, <3>1, <3>7, <3>8, <4>2
      <4> QED  BY <4>1, <4>2
    <3>10. \A c \in visiting' : IsBranch(given, c) /\ Untouched(c)'
      BY <1>1, <1>2, <3>7
    <3>11. /\ visiting' \subseteq Present(given)
           /\ simplified' \subseteq (Present(given) \ visiting') \X Present(given)
      BY <1>1, <1>2, <1>3, <2>2, <3>1
    <3> QED  BY <1>1, <2>4, <3>5, <3>9, <3>10, <3>11 DEF SimplifyInv, Simplifying
  <2> QED  BY <2>5, <2>6
<1> QED  BY <1>8, <1>9

LEMMA KeepSimplify ==
  ASSUME SSAInv, SimplifyInv, [LocalNext]_localVars
  PROVE  SimplifyInv'
<1>1. ASSUME UNCHANGED <<given, cfg, simplifyVars>>, pc \in Simplifying, pc' \in Simplifying,
             pc' # "simplify" /\ pc' # "unreachable" => visiting = {}
      PROVE  SimplifyInv'
  <2>1. \A b, d : (Untouched(b)' <=> Untouched(b)) /\ (Turned(b, d)' <=> Turned(b, d))
    BY <1>1 DEF Untouched, Turned
  <2> QED  BY <1>1, <2>1 DEF SimplifyInv, simplifyVars
<1>2. CASE StartSimplifying /\ UNCHANGED given
  <2>1. /\ pc = "done" /\ pc' = "simplify" /\ cfg' = cfg /\ given' = given
        /\ visiting' = {b \in Present(cfg) : IsBranch(cfg, b)} /\ simplified' = simplified
    BY <1>2 DEF StartSimplifying
  <2>2. cfg = given /\ given \in Graph /\ simplified = {}
    BY <2>1, GivenParts DEF SSAInv, FixedInv, SimplifyInv, Simplifying
  <2>3. \A b : Untouched(b)'
    BY <2>1, <2>2 DEF Untouched
  <2> QED  BY <2>1, <2>2, <2>3 DEF SimplifyInv, Simplifying
<1>3. CASE \E b \in Blocks : Simplify(b) /\ UNCHANGED given
  BY <1>3, SimplifyKeepsSimplify
<1>4. CASE StopSimplifying /\ UNCHANGED given
  BY <1>1, <1>4 DEF StopSimplifying, Simplifying, simplifyVars
<1>5. CASE Unsimplified
  <2>1. CASE pc \in Simplifying
    BY <1>1, <1>5, <2>1 DEF Unsimplified, SimplifyInv
  <2>2. CASE pc \notin Simplifying
    BY <1>5, <2>2 DEF Unsimplified, SimplifyInv, Simplifying, simplifyVars
  <2> QED  BY <2>1, <2>2
<1> QED  BY <1>2, <1>3, <1>4, <1>5, SimplifyMoves

LEMMA SimplifyInductive == LocalSpec => []SimplifyInv
<1>1. LocalInit => SimplifyInv
  BY DEF LocalInit, SSAInit, SimplifyInit, SimplifyInv, Simplifying
<1>2. SSAInv /\ SimplifyInv /\ [LocalNext]_localVars => SimplifyInv'
  BY KeepSimplify
<1> QED  BY <1>1, <1>2, SSAInductive, PTL DEF LocalSpec

-----------------------------------------------------------------------------
(* The types.                                                              *)
PcInv ==
  pc \in {"insert", "rename", "done", "mark", "sweep", "swept",
          "simplify", "simplified", "unreachable"}

LEMMA KeepPc ==
  ASSUME PcInv, [LocalNext]_localVars
  PROVE  PcInv'
<1>1. CASE UNCHANGED localVars
  BY <1>1 DEF PcInv, localVars, passVars, ssaVars
<1>2. CASE ConvertToSSA
  <2>1. CASE \E b \in Blocks : InsertPhis(b)
    BY <2>1 DEF InsertPhis, PcInv
  <2>2. CASE \E b \in Blocks : Enter(b)
    <3>1. PICK b \in Blocks : Enter(b)
      BY <2>2
    <3> QED  BY <3>1 DEF Enter, PcInv
  <2>3. CASE StartRenaming \/ Leave
    BY <2>3 DEF StartRenaming, Leave, PcInv
  <2> QED  BY <1>2, <2>1, <2>2, <2>3 DEF ConvertToSSA, SSANext
<1>3. CASE RunDCE
  BY <1>3 DEF RunDCE, DeadCodeNext, StartMarking, Mark, StartSweeping, Sweep, StopSweeping, PcInv,
              ssaVars
<1>4. CASE RunIfSimplification
  BY <1>4 DEF RunIfSimplification, SimplifyNext, StartSimplifying, Simplify, StopSimplifying, PcInv
<1>5. CASE StartRuns \/ Step
  BY <1>5 DEF StartRuns, Step, passVars, ssaVars, PcInv
<1> QED  BY <1>1, <1>2, <1>3, <1>4, <1>5 DEF LocalNext

LEMMA PcInductive == LocalSpec => []PcInv
<1>1. LocalInit => PcInv
  BY DEF LocalInit, SSAInit, PcInv
<1>2. PcInv /\ [LocalNext]_localVars => PcInv'
  BY KeepPc
<1> QED  BY <1>1, <1>2, PTL DEF LocalSpec

(* No pass adds a block to the graph or takes one away. *)
LEMMA BlocksStay ==
  ASSUME SSAInv, SweepInv, SimplifyInv, PcInv
  PROVE  cfg \in Graph /\ Present(cfg) = Present(given)
<1>1. given \in Graph
  BY GivenParts DEF SSAInv
<1>2. CASE pc \in {"insert", "rename", "done", "mark"}
  BY <1>1, <1>2 DEF SSAInv, FixedInv
<1>3. CASE pc \in {"sweep", "swept"}
  BY <1>3 DEF SweepInv, Proper
<1>4. CASE pc \in Simplifying
  BY <1>4 DEF SimplifyInv
<1> QED  BY <1>2, <1>3, <1>4 DEF PcInv, Simplifying

LEMMA InvTypes ==
  ASSUME SSAInv, MarkInv, SweepInv, SimplifyInv, PcInv
  PROVE  LocalTypeOK
<1>1. /\ cfg \in Graph /\ Present(cfg) = Present(given) /\ FixedInv /\ given \in Graph
      /\ Rooted(given, Entry) /\ Present(given) \subseteq Blocks /\ Entry \in Present(given)
      /\ Exit \in Present(given)
  BY BlocksStay, GivenParts DEF SSAInv
<1>2. DOMAIN below = Present(given) /\ \A b \in Present(given) : below[b] \subseteq Present(given)
  BY <1>1, GivenParts, DominatedFinite DEF FixedInv
<1>3. parent \in [Present(given) \ {Entry} -> Present(given)]
  <2>1. parent = [b \in Present(given) \ {Entry} |-> parent[b]]
    BY <1>1 DEF FixedInv
  <2>2. \A b \in Present(given) \ {Entry} : parent[b] \in Present(given)
    BY <1>1, ParentIs
  <2> QED  BY <2>1, <2>2
<1>4. df \in [Present(given) -> SUBSET Present(given)]
  <2>1. df = [b \in Present(given) |-> df[b]]
    BY <1>1 DEF FixedInv
  <2>2. \A b \in Present(given) : df[b] \subseteq Present(given)
    BY <1>1, FrontierPresent
  <2> QED  BY <2>1, <2>2
<1>5. /\ todo \subseteq Blocks /\ (pc # "insert" => todo = {}) /\ phis \subseteq Blocks \X Vars
  BY <1>1 DEF SSAInv, PhisInv
<1>6. path \in Seq(Blocks) /\ renamed \subseteq Blocks
  BY <1>1 DEF SSAInv, PathInv
<1>7. stacks \in [Vars -> Seq(Versions)]
  BY DEF SSAInv, StacksInv
<1>8. \A u \in DOMAIN reads : u \in Blocks \X Vars /\ reads[u] \in Versions
  BY <1>1 DEF SSAInv, ReadsInv, Finds
<1>9. \A a \in DOMAIN args : a \in Blocks \X Blocks \X Vars /\ args[a] \in Versions
  BY <1>1 DEF SSAInv, ArgsInv, Passes
<1>10. SSATypeOK
  <2>1. /\ DOMAIN below = Present(cfg) /\ \A b \in Present(cfg) : below[b] \subseteq Present(cfg)
        /\ parent \in [Present(cfg) \ {Entry} -> Present(cfg)]
        /\ df \in [Present(cfg) -> SUBSET Present(cfg)]
    BY <1>1, <1>2, <1>3, <1>4, Zenon
  <2> QED  BY <1>1, <1>5, <1>6, <1>7, <1>8, <1>9, <2>1, Zenon DEF SSATypeOK
<1>11. DeadCodeTypeOK
  BY <1>1 DEF DeadCodeTypeOK, MarkInv, Sweeping, IsCritical
<1>12. SimplifyTypeOK
  BY <1>1 DEF SimplifyTypeOK, SimplifyInv
<1> QED  BY <1>1, <1>10, <1>11, <1>12 DEF LocalTypeOK, PcInv

(* For any graph, every variable of the conversion and of both passes has  *)
(* its type in every state; what the passes computed of the graph is of    *)
(* the blocks the graph still has.                                         *)
THEOREM LocalTypeHolds == LocalSpec => []LocalTypeOK
<1>1. SSAInv /\ MarkInv /\ SweepInv /\ SimplifyInv /\ PcInv => LocalTypeOK
  BY InvTypes
<1> QED  BY <1>1, SSAInductive, MarkInductive, SweepInductive, SimplifyInductive, PcInductive, PTL

-----------------------------------------------------------------------------
(* What a way leads over before it comes to b, past no other definition,   *)
(* is among what reaches b.                                                *)
LEMMA ReachesOver ==
  ASSUME FixedInv, NEW x, NEW e \in given.edges, NEW b \in Reach(Past(x), e.target, {}),
         x \in AnyDefs(given, e.source)
  PROVE  e.source \in Reaching(given, b, x)
<1>1. PICK d : d = e.source
  OBVIOUS
<1>2. d \in Present(given)
  BY <1>1, GivenParts
<1>3. /\ Past(x).edges = {f \in given.edges : f.source \notin Kills(given, x)}
      /\ From(d, x).edges = {f \in given.edges : f.source = d \/ f.source \notin Kills(given, x)}
      /\ d \in Reaching(given, b, x) <=>
           /\ d \in Present(given) /\ x \in AnyDefs(given, d)
           /\ \E f \in From(d, x).edges : f.target = b /\ f.source \in Reach(From(d, x), d, {})
  BY WaysAre
<1>4. e \in From(d, x).edges /\ \A f \in Past(x).edges : f \in From(d, x).edges
  BY <1>1, <1>3
<1>5. d \in Reach(From(d, x), d, {}) /\ e.target \in Reach(From(d, x), d, {})
  BY <1>1, <1>4, Reached
<1>6. Reach(Past(x), e.target, {}) \subseteq Reach(From(d, x), d, {})
  BY <1>4, <1>5, ReachMore
<1>7. \E f \in From(d, x).edges : f.target = b /\ f.source \in Reach(From(d, x), d, {})
  <2>1. CASE b = e.target
    BY <1>1, <1>4, <1>5, <2>1
  <2>2. CASE b # e.target
    <3>1. PICK f \in Past(x).edges : f.target = b /\ f.source \in Reach(Past(x), e.target, {})
      BY <2>2, LastStep
    <3> QED  BY <1>4, <1>6, <3>1
  <2> QED  BY <2>1, <2>2
<1> QED  BY <1>1, <1>2, <1>3, <1>7

-----------------------------------------------------------------------------
(* The branch at b on what the "!" at d defines, where Intact holds.       *)
Without(d) == [given EXCEPT !.edges = {e \in @ : e.target # d}]

Sane(b, d) ==
  /\ b \in Present(given) /\ d \in Present(given)
  /\ IsBranch(given, b) /\ given.stmt[d].op = "not" /\ given.stmt[d].rhs # given.stmt[b].rhs
  /\ Intact(b, d)

(* The blocks on the ways from d to b.                                     *)
Region(b, d) == {c \in Present(given) : c # d /\ b \in Reach(Without(d), c, {})}

LEMMA SaneParts ==
  ASSUME Converted, NEW b, NEW d, Sane(b, d)
  PROVE  /\ FixedInv /\ b \in Blocks /\ d \in Blocks /\ b # d /\ b # Exit /\ d # Entry /\ d # Exit
         /\ given.stmt[b].rhs \in Vars /\ given.stmt[d].rhs \in Vars
         /\ AnyDefs(given, b) = {} /\ given.stmt[d].lhs = given.stmt[b].rhs
         /\ <<b, given.stmt[b].rhs>> \in DOMAIN reads
         /\ reads[<<b, given.stmt[b].rhs>>] = <<"def", d>>
         /\ Without(d).edges = {e \in given.edges : e.target # d}
<1>1. /\ FixedInv /\ b \in Present(given) /\ d \in Present(given)
      /\ given.stmt[b].op = "branch" /\ given.stmt[d].op = "not"
  BY ConvertedParts DEF Sane, IsBranch
<1>2. /\ given.stmt \in [Blocks -> Statement] /\ b \in Blocks /\ d \in Blocks
      /\ given.stmt[Entry] = Empty /\ given.stmt[Exit] = Empty /\ given \in Graph
  BY <1>1, GivenParts
<1>3. b # d /\ b # Exit /\ d # Entry /\ d # Exit
  BY <1>1, <1>2 DEF Empty
<1>4. given.stmt[b].rhs \in Vars /\ given.stmt[d].rhs \in Vars
  <2>1. \A s \in Statement : s.op \in {"branch", "not"} => s.rhs \in Vars
    BY DEF Statement
  <2>2. given.stmt[b] \in Statement /\ given.stmt[d] \in Statement
    BY <1>2
  <2> QED  BY <1>1, <2>1, <2>2
<1>5. AnyDefs(given, b) = {}
  BY <1>1 DEF AnyDefs, Defs, MayDefs
<1>6. given.stmt[b].rhs \in UsesAt(given, b)
  BY <1>1, <1>3 DEF UsesAt, Uses
<1>7. <<b, given.stmt[b].rhs>> \in DOMAIN reads
  BY <1>1, <1>6, ConvertedParts
<1>8. reads[<<b, given.stmt[b].rhs>>] = <<"def", d>> /\ given.stmt[d].lhs = given.stmt[b].rhs
  BY DEF Sane, Intact
<1>9. Without(d).edges = {e \in given.edges : e.target # d}
  BY <1>2 DEF Without, Graph
<1> QED  BY <1>1, <1>2, <1>3, <1>4, <1>5, <1>7, <1>8, <1>9

(* The "!" is all that reaches the branch. *)
LEMMA OnlyDef ==
  ASSUME Converted, NEW b, NEW d, Sane(b, d)
  PROVE  Reaching(given, b, given.stmt[b].rhs) \subseteq {d}
<1>1. PICK x : x = given.stmt[b].rhs
  OBVIOUS
<1>2. /\ FixedInv /\ AnyDefs(given, b) = {} /\ <<b, x>> \in DOMAIN reads
      /\ reads[<<b, x>>] = <<"def", d>>
  BY <1>1, SaneParts
<1>3. <<b, x>>[1] = b /\ <<b, x>>[2] = x
  OBVIOUS
<1>4. PICK u \in DOMAIN reads : u[1] = b /\ u[2] = x /\ reads[u] = <<"def", d>>
  BY <1>2, <1>3
<1>0. <<"def", d>>[1] = "def" /\ <<"def", d>>[2] = d
  OBVIOUS
<1>5. PICK v : v = <<"def", d>> /\ v[1] = "def" /\ v[2] = d
  BY <1>0
<1>6. Readable(x, v) /\ Behind(x, v) = {}
  BY <1>5 DEF Readable, Behind
<1>7. StandsFor(x, v) \subseteq {d}
  BY <1>5, <1>6, GivenKnown, StandsForUnfold
<1>8. ASSUME NEW r \in Reaching(given, b, x)
      PROVE  r = d
  <2>1. x \in AnyDefs(given, r)
    BY <1>2, <1>8, WaysAre
  <2>2. r # b
    BY <1>2, <2>1
  <2>3. r \in Reaching(given, u[1], u[2]) /\ r # u[1]
    BY <1>4, <1>8, <2>2
  <2>4. r \in StandsFor(u[2], reads[u])
    BY <2>3, ReachingSeen
  <2> QED  BY <1>4, <1>5, <1>7, <2>4
<1> QED  BY <1>1, <1>8

(* All ways to the region lead through the "!".                            *)
LEMMA RegionAfter ==
  ASSUME Converted, NEW b, NEW d, Sane(b, d)
  PROVE  Region(b, d) \subseteq Reach(Without(d), d, {})
<1> DEFINE R == Reach(given, Entry, {d})
           A == Reach(Without(d), d, {})
<1>1. /\ FixedInv /\ b \in Present(given) /\ d \in Present(given) /\ d # Entry
      /\ Without(d).edges = {e \in given.edges : e.target # d}
      /\ Reach(given, Entry, {}) = Present(given)
  BY SaneParts, GivenParts DEF Connected, Sane
<1>2. b \notin R
  <2>1. b \in below[d]
    <3>1. PICK u \in DOMAIN reads : u = <<b, given.stmt[b].rhs>> /\ reads[u] = <<"def", d>>
      BY SaneParts
    <3>2. reads[u][1] # "use" /\ reads[u][2] = d /\ u[1] = b
      BY <3>1
    <3>3. UsesDominated
      BY InvDominated DEF Converted
    <3> QED  BY <3>2, <3>3 DEF UsesDominated
  <2>2. Dominates(given, Entry, d, b)
    BY <1>1, <2>1 DEF FixedInv, Dominates
  <2> QED  BY <1>1, <2>2, DominatesWhen
<1>3. /\ Entry \in R /\ \A e \in given.edges : e.source \in R => e.target \in R \cup {d}
      /\ d \in A /\ \A e \in Without(d).edges : e.source \in A => e.target \in A
  BY Reached
<1> HIDE DEF R, A
<1>4. Present(given) \subseteq R \cup A
  <2>1. PICK W : W = R \cup A
    OBVIOUS
  <2>2. Entry \in W /\ \A e \in given.edges : e.source \in W => e.target \in W \cup {}
    BY <1>1, <1>3, <2>1
  <2>3. Reach(given, Entry, {}) \subseteq W
    BY <2>2, ReachLeast
  <2> QED  BY <1>1, <2>1, <2>3
<1>5. ASSUME NEW z \in R
      PROVE  Reach(Without(d), z, {}) \subseteq R
  <2>1. \A e \in Without(d).edges : e.source \in R => e.target \in R \cup {}
    BY <1>1, <1>3
  <2> QED  BY <2>1, ReachLeast
<1>6. ASSUME NEW z \in Region(b, d)
      PROVE  z \in A
  <2>1. z \in Present(given) /\ b \in Reach(Without(d), z, {})
    BY DEF Region
  <2> QED  BY <1>2, <1>4, <1>5, <2>1
<1> QED  BY <1>6 DEF A

(* ... and nothing in it makes the variable.                               *)
LEMMA RegionSilent ==
  ASSUME Converted, NEW b, NEW d, Sane(b, d), NEW z \in Region(b, d)
  PROVE  given.stmt[b].rhs \notin AnyDefs(given, z)
<1>1. PICK x : x = given.stmt[b].rhs
  OBVIOUS
<1>2. /\ FixedInv /\ AnyDefs(given, b) = {}
      /\ Without(d).edges = {e \in given.edges : e.target # d}
      /\ Reaching(given, b, x) \subseteq {d}
  BY <1>1, SaneParts, OnlyDef
<1>3. z \in Present(given) /\ z # d /\ b \in Reach(Without(d), z, {})
  BY DEF Region
<1>4. Past(x).edges = {f \in given.edges : f.source \notin Kills(given, x)}
  BY <1>2, WaysAre
<1>5. d \notin Reach(Without(d), z, {})
  <2>1. \A e \in Without(d).edges : e.target # d
    BY <1>2
  <2> QED  BY <1>3, <2>1, LastStep
<1>6. b \in Reach(Past(x), z, {})
  <2>1. PICK S : S = {c \in Reach(Without(d), z, {}) : b \notin Reach(Past(x), c, {})}
    OBVIOUS
  <2>2. SUFFICES ASSUME z \in S PROVE FALSE
    BY <2>1, Reached
  <2>3. b \notin S
    BY <2>1, Reached
  <2>4. ASSUME NEW e \in Without(d).edges, e.source \in S
        PROVE  e.target \in S \cup {}
    <3>1. e.target \in Reach(Without(d), z, {}) /\ e.source \in Reach(Without(d), z, {})
      BY <2>1, <2>4, Reached
    <3>2. e \in given.edges
      BY <1>2
    <3>3. SUFFICES ASSUME b \in Reach(Past(x), e.target, {}) PROVE FALSE
      BY <2>1, <3>1
    <3>4. CASE e.source \notin Kills(given, x)
      <4>1. e \in Past(x).edges
        BY <1>4, <3>2, <3>4
      <4>2. e.target \in Reach(Past(x), e.source, {})
        BY <4>1, Reached
      <4>3. b \in Reach(Past(x), e.source, {})
        BY <3>3, <4>2, ReachMore
      <4> QED  BY <2>1, <2>4, <4>3
    <3>5. CASE e.source \in Kills(given, x)
      <4>1. x \in AnyDefs(given, e.source)
        BY <3>5 DEF Kills, AnyDefs
      <4>2. e.source = d
        BY <1>2, <3>2, <3>3, <4>1, ReachesOver
      <4> QED  BY <1>5, <3>1, <4>2
    <3> QED  BY <3>4, <3>5
  <2>5. Reach(Without(d), z, {}) \subseteq S
    BY <2>2, <2>4, ReachLeast
  <2> QED  BY <1>3, <2>3, <2>5
<1>7. SUFFICES ASSUME x \in AnyDefs(given, z) PROVE FALSE
  BY <1>1
<1>8. z # b
  BY <1>2, <1>7
<1>9. PICK f \in Past(x).edges : f.target = b /\ f.source \in Reach(Past(x), z, {})
  BY <1>6, <1>8, LastStep
<1>10. From(z, x).edges = {e \in given.edges : e.source = z \/ e.source \notin Kills(given, x)}
  BY <1>2, WaysAre
<1>11. f \in From(z, x).edges /\ f.source \in Reach(From(z, x), z, {})
  <2>1. \A e \in Past(x).edges : e \in From(z, x).edges
    BY <1>4, <1>10
  <2>2. Reach(Past(x), z, {}) \subseteq Reach(From(z, x), z, {})
    BY <2>1, ReachMore, Reached
  <2> QED  BY <1>9, <2>1, <2>2
<1>12. z \in Reaching(given, b, x)
  BY <1>2, <1>3, <1>7, <1>9, <1>11, WaysAre
<1> QED  BY <1>2, <1>3, <1>12

-----------------------------------------------------------------------------
(* On the ways from the "!" to its branch the one variable is what the     *)
(* other is not.                                                           *)
Opposite(p) ==
  \A b, d : Sane(b, d) /\ p.at \in Region(b, d) =>
    p.store[given.stmt[b].rhs] = ~p.store[given.stmt[d].rhs]

LEMMA OppositeStarts ==
  ASSUME Converted, NEW p, p.at = Entry
  PROVE  Opposite(p)
<1> SUFFICES ASSUME NEW b, NEW d, Sane(b, d), Entry \in Region(b, d) PROVE FALSE
  BY DEF Opposite
<1>1. FixedInv /\ d # Entry /\ Without(d).edges = {e \in given.edges : e.target # d}
  BY SaneParts
<1>2. Entry \in Reach(Without(d), d, {})
  BY RegionAfter
<1>3. PICK e \in Without(d).edges : e.target = Entry
  BY <1>1, <1>2, LastStep
<1>4. Entering(given, Entry) = {}
  BY <1>1, GivenParts DEF Connected, Consistent
<1> QED  BY <1>1, <1>3, <1>4 DEF Entering

LEMMA OppositeStays ==
  ASSUME Converted, NEW p \in RunState, p.at # Exit, Opposite(p)
  PROVE  Opposite(After(given, p))
<1>1. FixedInv
  BY ConvertedParts
<1>2. PICK q : q = After(given, p)
  OBVIOUS
<1>3. PICK e \in given.edges : e.source = p.at /\ e.target = q.at
  BY <1>1, <1>2, GivenStep
<1>4. PICK s : s = given.stmt[p.at]
  OBVIOUS
<1>5. /\ p.store \in [Vars -> BOOLEAN] /\ p.at \in Present(given) /\ s \in Statement
      /\ q.store = Effect(s, p.store)
  BY <1>1, <1>2, <1>4, GivenStep, GivenParts DEF RunState
<1> SUFFICES ASSUME NEW b, NEW d, Sane(b, d), q.at \in Region(b, d)
             PROVE  q.store[given.stmt[b].rhs] = ~q.store[given.stmt[d].rhs]
  BY <1>2 DEF Opposite
<1>6. PICK x, y : x = given.stmt[b].rhs /\ y = given.stmt[d].rhs
  OBVIOUS
<1>7. /\ x \in Vars /\ y \in Vars /\ x # y /\ given.stmt[d].lhs = x /\ given.stmt[d].op = "not"
      /\ AnyDefs(given, b) = {} /\ Without(d).edges = {f \in given.edges : f.target # d}
  BY <1>6, SaneParts DEF Sane
<1>8. e \in Without(d).edges /\ b \in Reach(Without(d), e.target, {})
  BY <1>3, <1>7 DEF Region
<1>9. CASE p.at = d
  <2>1. s.op = "not" /\ s.lhs = x /\ s.rhs = y
    BY <1>4, <1>6, <1>7, <1>9
  <2>2. Effect(s, p.store) = [p.store EXCEPT ![x] = ~p.store[y]]
    BY <2>1 DEF Effect
  <2> QED  BY <1>5, <1>6, <1>7, <2>2
<1>10. CASE p.at # d
  <2>1. e.target \in Reach(Without(d), e.source, {})
    BY <1>8, Reached
  <2>2. Reach(Without(d), e.target, {}) \subseteq Reach(Without(d), e.source, {})
    BY <2>1, ReachMore
  <2>3. p.at \in Region(b, d)
    BY <1>3, <1>5, <1>8, <1>10, <2>2 DEF Region
  <2>4. p.store[x] = ~p.store[y]
    BY <1>6, <2>3 DEF Opposite
  <2>5. x \notin AnyDefs(given, p.at)
    BY <1>6, <2>3, RegionSilent
  <2>6. y \notin AnyDefs(given, p.at)
    <3>1. CASE p.at = b
      BY <1>7, <3>1
    <3>2. CASE p.at # b
      <4>1. p.at \in Reach(Without(d), d, {}) \ {b, d}
        BY <1>10, <2>3, <3>2, RegionAfter
      <4>2. b \in Reach(Without(d), p.at, {})
        BY <2>3 DEF Region
      <4> QED  BY <1>6, <4>1, <4>2 DEF Sane, Intact, Without
    <3> QED  BY <3>1, <3>2
  <2>7. Effect(s, p.store)[x] = p.store[x] /\ Effect(s, p.store)[y] = p.store[y]
    BY <1>4, <1>5, <1>7, <2>5, <2>6, EffectParts DEF AnyDefs
  <2> QED  BY <1>5, <1>6, <2>4, <2>7
<1> QED  BY <1>9, <1>10

-----------------------------------------------------------------------------
(* The graph after the pass, where each branch was simplified in order.    *)
InOrder == Converted /\ SimplifyInv /\ pc = "simplified"
           /\ \A s \in simplified : Intact(s[1], s[2])

LEMMA InOrderParts ==
  ASSUME InOrder
  PROVE  /\ Converted /\ FixedInv /\ given \in Graph /\ Proper(given)
         /\ given.stmt \in [Blocks -> Statement] /\ Present(given) \subseteq Blocks
         /\ Entry \in Present(given)
         /\ \A b \in Present(given) :
              Untouched(b) \/ \E d : Sane(b, d) /\ Turned(b, d)
<1>1. /\ Converted /\ FixedInv /\ given \in Graph /\ Proper(given)
      /\ given.stmt \in [Blocks -> Statement] /\ Present(given) \subseteq Blocks
      /\ Entry \in Present(given)
  BY ConvertedParts, GivenParts, ConsistentProper DEF InOrder, Connected
<1>2. ASSUME NEW b \in Present(given), ~Untouched(b)
      PROVE  \E d : Sane(b, d) /\ Turned(b, d)
  <2>1. PICK d \in Present(given) : <<b, d>> \in simplified /\ Turned(b, d)
    BY <1>2 DEF InOrder, SimplifyInv, Simplifying
  <2>2. <<b, d>>[1] = b /\ <<b, d>>[2] = d
    OBVIOUS
  <2>3. PICK s \in simplified : s[1] = b /\ s[2] = d
    BY <2>1, <2>2
  <2>4. Intact(s[1], s[2])
    BY DEF InOrder
  <2>5. Intact(b, d)
    BY <2>3, <2>4
  <2>6. Sane(b, d)
    BY <2>1, <2>5 DEF Sane, Turned
  <2> QED  BY <2>1, <2>6
<1> QED  BY <1>1, <1>2

LEMMA HeardSame ==
  ASSUME InOrder, NEW p \in RunState
  PROVE  IsHeard(cfg, p) <=> IsHeard(given, p)
<1>1. PICK b \in Present(given) : b = p.at
  BY DEF RunState
<1>2. Untouched(b) \/ \E d : Turned(b, d)
  BY InOrderParts
<1>3. given.stmt[b] \in Statement
  BY InOrderParts
<1>4. CASE \E d : Turned(b, d)
  <2>1. PICK d : Turned(b, d)
    BY <1>4
  <2>2. \A z \in Statement : z.op = "branch" => \A y : [z EXCEPT !.rhs = y].op = "branch"
    BY DEF Statement
  <2>3. cfg.stmt[b].op = "branch" /\ given.stmt[b].op = "branch"
    BY <1>3, <2>1, <2>2 DEF Turned, IsBranch
  <2> QED  BY <1>1, <2>3 DEF IsHeard
<1>5. CASE Untouched(b)
  BY <1>1, <1>5 DEF IsHeard, Untouched
<1> QED  BY <1>2, <1>4, <1>5

LEMMA StepSame ==
  ASSUME InOrder, NEW p \in RunState, p.at # Exit, Opposite(p)
  PROVE  After(cfg, p) = After(given, p)
<1>1. PICK b \in Present(given) \ {Exit} : b = p.at
  BY DEF RunState
<1>2. /\ Converted /\ FixedInv /\ Proper(given) /\ given.stmt[b] \in Statement
      /\ Untouched(b) \/ \E d : Sane(b, d) /\ Turned(b, d)
  BY InOrderParts
<1>3. CASE Untouched(b)
  <2>1. Taken(cfg, p) = Taken(given, p)
    BY <1>1, <1>3 DEF Taken, Untouched, IsBranch
  <2> QED  BY <1>1, <1>3, <2>1 DEF After, Untouched
<1>4. CASE ~Untouched(b)
  <2>1. PICK d : Sane(b, d) /\ Turned(b, d)
    BY <1>2, <1>4
  <2>2. PICK x, y : x = given.stmt[b].rhs /\ y = given.stmt[d].rhs
    OBVIOUS
  <2>3. /\ x \in Vars /\ y \in Vars /\ b # d /\ p.store \in [Vars -> BOOLEAN]
    BY <1>2, <2>1, <2>2, SaneParts DEF RunState
  <2>4. p.store[x] = ~p.store[y]
    <3>1. b \in Region(b, d)
      BY <2>3, Reached DEF Region
    <3> QED  BY <1>1, <2>1, <2>2, <3>1 DEF Opposite
  <2>5. PICK t : t = cfg.stmt[b]
    OBVIOUS
  <2>6. t.op = "branch" /\ t.rhs = y /\ given.stmt[b].op = "branch"
    <3>1. \A z \in Statement : z.op = "branch" =>
            [z EXCEPT !.rhs = y].op = "branch" /\ [z EXCEPT !.rhs = y].rhs = y
      BY DEF Statement
    <3> QED  BY <1>2, <2>1, <2>2, <2>5, <3>1 DEF Turned, IsBranch
  <2>7. PICK e, f \in Leaving(given, b) :
          Leaving(given, b) = {e, f} /\ e.direction = "true" /\ f.direction = "false"
    BY <1>1, <1>2, <2>6 DEF Proper, TwoWays, IsBranch
  <2>8. PICK i, j : i = [e EXCEPT !.direction = "false"] /\ j = [f EXCEPT !.direction = "true"]
    OBVIOUS
  <2>9. /\ i.direction = "false" /\ j.direction = "true" /\ i.target = e.target
        /\ j.target = f.target
    <3>1. e \in Edge /\ f \in Edge
      BY <1>2, <2>7 DEF Proper, Graph, Leaving
    <3> QED  BY <2>8, <3>1 DEF Edge
  <2>10. Leaving(cfg, b) = {i, j}
    <3>1. Leaving(cfg, b) = {[k EXCEPT !.direction = Switched(@)] : k \in {e, f}}
      BY <2>1, <2>7 DEF Turned
    <3>2. Switched(e.direction) = "false" /\ Switched(f.direction) = "true"
      BY <2>7 DEF Switched
    <3> QED  BY <2>8, <3>1, <3>2
  <2>11. CASE p.store[x]
    <3>1. Taken(given, p) = {e}
      BY <1>1, <2>2, <2>6, <2>7, <2>11 DEF Taken, IsBranch
    <3>2. Taken(cfg, p) = {i}
      BY <1>1, <2>3, <2>4, <2>5, <2>6, <2>9, <2>10, <2>11 DEF Taken, IsBranch
    <3>3. (CHOOSE k \in {e} : TRUE) = e /\ (CHOOSE k \in {i} : TRUE) = i
      OBVIOUS
    <3>4. Effect(given.stmt[b], p.store) = p.store /\ Effect(t, p.store) = p.store
      BY <2>6 DEF Effect
    <3> QED  BY <1>1, <2>5, <2>9, <3>1, <3>2, <3>3, <3>4 DEF After
  <2>12. CASE ~p.store[x]
    <3>1. Taken(given, p) = {f}
      BY <1>1, <2>2, <2>6, <2>7, <2>12 DEF Taken, IsBranch
    <3>2. Taken(cfg, p) = {j}
      BY <1>1, <2>3, <2>4, <2>5, <2>6, <2>9, <2>10, <2>12 DEF Taken, IsBranch
    <3>3. (CHOOSE k \in {f} : TRUE) = f /\ (CHOOSE k \in {j} : TRUE) = j
      OBVIOUS
    <3>4. Effect(given.stmt[b], p.store) = p.store /\ Effect(t, p.store) = p.store
      BY <2>6 DEF Effect
    <3> QED  BY <1>1, <2>5, <2>9, <3>1, <3>2, <3>3, <3>4 DEF After
  <2> QED  BY <2>11, <2>12
<1> QED  BY <1>3, <1>4

-----------------------------------------------------------------------------
(* The run of the simplified graph is where the other was, or is, since it *)
(* was heard last.                                                         *)
Trailing(two) ==
  /\ two \in [given : RunState, made : RunState]
  /\ Opposite(two.made) /\ two.given \in AheadOf(two.made)

SimplifiedInv ==
  pc = "simplified" /\ pair # << >> /\ (\A s \in simplified : Intact(s[1], s[2])) => Trailing(pair)

LEMMA StartTrailing ==
  ASSUME InOrder, NEW store \in [Vars -> BOOLEAN]
  PROVE  Trailing(Start(store))
<1>1. Converted /\ FixedInv /\ Entry \in Present(given)
  BY InOrderParts
<1>2. PICK p : p = [at |-> Entry, store |-> store]
  OBVIOUS
<1>3. p \in RunState /\ p.at = Entry
  BY <1>1, <1>2 DEF RunState
<1>4. p \in AheadOf(p) /\ Opposite(p)
  BY <1>1, <1>3, AheadClosed, OppositeStarts
<1>5. Start(store) = [given |-> p, made |-> p]
  BY <1>2 DEF Start
<1> QED  BY <1>3, <1>4, <1>5 DEF Trailing

LEMMA OnwardTrailing ==
  ASSUME InOrder, NEW two, Trailing(two), BothHeard(given, cfg, two) => ~Over(two)
  PROVE  Trailing(Onward(given, cfg, two))
<1>1. FixedInv /\ Converted
  BY InOrderParts
<1>2. PICK r \in RunState, q \in RunState : two = [given |-> r, made |-> q]
  BY DEF Trailing
<1>3. two.given = r /\ two.made = q /\ Opposite(q) /\ r \in AheadOf(q)
  BY <1>2 DEF Trailing
<1>4. IsHeard(cfg, q) <=> IsHeard(given, q)
  BY HeardSame
<1>5. CASE ~IsHeard(given, r)
  <2>1. Onward(given, cfg, two) = [given |-> After(given, r), made |-> q]
    BY <1>2, <1>5 DEF Onward
  <2>2. After(given, r) \in AheadOf(q) /\ After(given, r) \in RunState
    BY <1>1, <1>3, <1>5, AheadClosed DEF AheadOf
  <2> QED  BY <1>3, <2>1, <2>2 DEF Trailing
<1>6. CASE IsHeard(given, r) /\ ~IsHeard(cfg, q)
  <2>1. Onward(given, cfg, two) = [given |-> r, made |-> After(cfg, q)]
    BY <1>2, <1>6 DEF Onward
  <2>2. r # q /\ q.at # Exit
    BY <1>4, <1>6 DEF IsHeard
  <2>3. r \in AheadOf(After(given, q))
    BY <1>1, <1>3, <2>2, AheadOfNext
  <2>4. After(cfg, q) = After(given, q) /\ After(given, q) \in RunState
    BY <1>1, <1>3, <2>2, StepSame, GivenStep
  <2>5. Opposite(After(given, q))
    BY <1>1, <1>3, <2>2, OppositeStays
  <2> QED  BY <2>1, <2>3, <2>4, <2>5 DEF Trailing
<1>7. CASE IsHeard(given, r) /\ IsHeard(cfg, q)
  <2>1. Onward(given, cfg, two) = [given |-> After(given, r), made |-> After(cfg, q)]
    BY <1>2, <1>7 DEF Onward
  <2>2. r = q
    BY <1>1, <1>3, <1>4, <1>7, AheadOfNext
  <2>3. q.at # Exit
    BY <1>3, <1>7, <2>2 DEF BothHeard, Over
  <2>4. After(cfg, q) = After(given, q) /\ After(given, q) \in RunState
    BY <1>1, <1>3, <2>3, StepSame, GivenStep
  <2>5. Opposite(After(given, q))
    BY <1>1, <1>3, <2>3, OppositeStays
  <2>6. After(given, q) \in AheadOf(After(given, q))
    BY <1>1, <2>4, AheadClosed
  <2> QED  BY <2>1, <2>2, <2>4, <2>5, <2>6 DEF Trailing
<1> QED  BY <1>5, <1>6, <1>7

LEMMA KeepSimplified ==
  ASSUME SSAInv, SimplifyInv, RunsInv, SimplifiedInv, [LocalNext]_localVars
  PROVE  SimplifiedInv'
<1>1. CASE UNCHANGED <<pc, cfg, given, reads, simplified>>
  <2>1. \A b, d : Intact(b, d)' <=> Intact(b, d)
    BY <1>1 DEF Intact
  <2>2. \A b, d : Sane(b, d)' <=> Sane(b, d)
    BY <1>1, <2>1 DEF Sane
  <2>3. \A b, d : Region(b, d)' = Region(b, d)
    BY <1>1 DEF Region, Without
  <2>4. \A p : Opposite(p)' <=> Opposite(p)
    BY <1>1, <2>2, <2>3 DEF Opposite
  <2>5. \A two : Trailing(two)' <=> Trailing(two)
    BY <1>1, <2>4 DEF Trailing, RunState, AheadOf
  <2>6. (\A s \in simplified' : Intact(s[1], s[2])') <=> \A s \in simplified : Intact(s[1], s[2])
    BY <1>1, <2>1
  <2>7. \A two : two = pair' => (Trailing(two)' <=> Trailing(two))
    BY <2>5
  <2>8. CASE pair' = pair
    BY <1>1, <2>5, <2>6, <2>8 DEF SimplifiedInv
  <2>9. CASE StartRuns \/ Step
    <3>1. ASSUME pc = "simplified", \A s \in simplified : Intact(s[1], s[2])
          PROVE  Trailing(pair')
      <4>1. InOrder
        BY <3>1 DEF InOrder, Converted
      <4>2. CASE StartRuns
        BY <4>1, <4>2, StartTrailing DEF StartRuns
      <4>3. CASE Step
        <5>1. /\ pair # << >> /\ pair' = Onward(given, cfg, pair)
              /\ BothHeard(given, cfg, pair) => ~Over(pair)
          BY <4>3 DEF Step
        <5>2. Trailing(pair)
          BY <3>1, <5>1 DEF SimplifiedInv
        <5> QED  BY <4>1, <5>1, <5>2, OnwardTrailing
      <4> QED  BY <2>9, <4>2, <4>3
    <3> QED  BY <1>1, <2>5, <2>6, <3>1 DEF SimplifiedInv
  <2> QED  BY <2>8, <2>9, RunMoves
<1>2. CASE ~ UNCHANGED <<pc, cfg, given, reads, simplified>>
  <2>1. pair' = pair /\ pc \notin {"swept", "simplified"}
    BY <1>2, RunMoves DEF StartRuns, Step, passVars, ssaVars, simplifyVars
  <2>2. pair' = << >>
    BY <2>1 DEF RunsInv
  <2> QED  BY <2>2 DEF SimplifiedInv
<1> QED  BY <1>1, <1>2

LEMMA SimplifiedInductive == LocalSpec => []SimplifiedInv
<1>1. LocalInit => SimplifiedInv
  BY DEF LocalInit, SimplifiedInv
<1>2. SSAInv /\ SimplifyInv /\ RunsInv /\ SimplifiedInv /\ [LocalNext]_localVars => SimplifiedInv'
  BY KeepSimplified
<1> QED  BY <1>1, <1>2, SSAInductive, SimplifyInductive, RunsInductive, PTL DEF LocalSpec

LEMMA InvSimplified ==
  ASSUME SSAInv, SimplifyInv, SimplifiedInv
  PROVE  SimplifiedKeepsRuns
<1> SUFFICES ASSUME pc = "simplified", pair # << >>, \A s \in simplified : Intact(s[1], s[2]),
                    BothHeard(given, cfg, pair)
             PROVE  /\ (pair.given.at = Exit) <=> (pair.made.at = Exit)
                    /\ Observed(given, pair.given, Globals) = Observed(cfg, pair.made, Globals)
  BY DEF SimplifiedKeepsRuns, Agree
<1>1. InOrder /\ Trailing(pair)
  BY DEF InOrder, Converted, SimplifiedInv
<1>2. PICK r \in RunState, q \in RunState : r = pair.given /\ q = pair.made
  BY <1>1 DEF Trailing
<1>3. IsHeard(given, r) /\ IsHeard(cfg, q) /\ r \in AheadOf(q)
  BY <1>1, <1>2 DEF BothHeard, Trailing
<1>4. r = q
  BY <1>1, <1>3, HeardSame, InOrderParts, AheadOfNext
<1>5. PICK b \in Present(given) : b = q.at
  BY DEF RunState
<1>6. CASE b = Exit
  BY <1>2, <1>4, <1>5, <1>6 DEF Observed
<1>7. CASE b # Exit
  <2>1. given.stmt[b].op = "print"
    BY <1>3, <1>4, <1>5, <1>7 DEF IsHeard
  <2>2. Untouched(b)
    BY <1>1, <2>1, InOrderParts DEF Turned, IsBranch
  <2> QED  BY <1>2, <1>4, <1>5, <1>7, <2>2 DEF Observed, Untouched
<1> QED  BY <1>6, <1>7

(* For any graph: where each branch that If_simplification turned still    *)
(* sees the "!" it was turned for, and the operand that "!" saw, the       *)
(* program prints what it printed, in the same order, and ends with the    *)
(* same variables.                                                         *)
THEOREM SimplifiedKeepsRunsHolds == LocalSpec => []SimplifiedKeepsRuns
<1>1. SSAInv /\ SimplifyInv /\ SimplifiedInv => SimplifiedKeepsRuns
  BY InvSimplified
<1> QED  BY <1>1, SSAInductive, SimplifyInductive, SimplifiedInductive, PTL

=============================================================================
