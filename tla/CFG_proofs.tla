----------------------------- MODULE CFG_proofs -----------------------------
(***************************************************************************)
(* Proofs for CFG, for any methods, any supply of blocks and any number of *)
(* edits: each sweep of clean, each edit and each edge of a split leaves a *)
(* graph that consistency_check accepts; every goto of the method written  *)
(* back has its label; that method does what the one read in does, is      *)
(* heard whenever that one is, and can be read in again; and the writing   *)
(* ends.                                                                   *)
(***************************************************************************)
EXTENDS CFG, FiniteSetTheorems, WellFoundedInduction, TLAPS

-----------------------------------------------------------------------------
(* Consistent without counting: the one edge, or the two edges, that leave *)
(* a block are named.  A block that no edge touches is not a branch.       *)
OneWay(g, b) == \E e \in Leaving(g, b) : Leaving(g, b) = {e} /\ e.direction = "none"

TwoWays(g, b) ==
  \E e, f \in Leaving(g, b) :
    Leaving(g, b) = {e, f} /\ e.direction = "true" /\ f.direction = "false"

Ways(g) ==
  /\ \A b \in Blocks : IsBranch(g, b) => TwoWays(g, b)
  /\ \A b \in Present(g) \ {Exit} : ~IsBranch(g, b) => OneWay(g, b)

WellFormed(g) ==
  /\ g \in Graph
  /\ Leaving(g, Exit) = {} /\ Entering(g, Entry) = {}
  /\ Ways(g)

(* Each edge that split_block has yet to handle is in the graph, leads to a *)
(* branch, and has a spare block for the copy.                             *)
Splittable ==
  /\ splitting \subseteq cfg.edges
  /\ \A e \in splitting : IsBranch(cfg, e.target)
  /\ IsFiniteSet(splitting)
  /\ Cardinality(Spare) >= Cardinality(splitting)

CFGInv ==
  /\ source \in Sources
  /\ pc # "build" => WellFormed(cfg)
  /\ pc = "split" => Splittable

-----------------------------------------------------------------------------
(* The parts of a graph. *)
LEMMA GraphParts ==
  ASSUME NEW g \in Graph
  PROVE  /\ g.stmt \in [Blocks -> Statement]
         /\ \A b \in Blocks : g.stmt[b] \in Statement
         /\ g.edges \subseteq Edge
         /\ \A e \in g.edges :
              e.source \in Blocks /\ e.target \in Blocks /\ e.direction \in Directions
         /\ g = [stmt |-> g.stmt, edges |-> g.edges]
  BY DEF Graph, Edge

LEMMA WithEdges ==
  ASSUME NEW g \in Graph, NEW E
  PROVE  [g EXCEPT !.edges = E] = [stmt |-> g.stmt, edges |-> E]
  BY DEF Graph

LEMMA EmptyStatement == Empty \in Statement /\ Empty.op = "empty"
  BY DEF Empty, Statement

LEMMA PresentBlocks ==
  ASSUME NEW g \in Graph
  PROVE  /\ Present(g) \subseteq Blocks
         /\ Entry \in Present(g)
         /\ \A e \in g.edges : e.source \in Present(g) /\ e.target \in Present(g)
  BY GraphParts, BlocksAssumption DEF Present

(* What WellFormed says implies what consistency_check looks at. *)
LEMMA WellFormedConsistent ==
  ASSUME NEW g, WellFormed(g)
  PROVE  Consistent(g)
<1>1. ASSUME NEW b \in Present(g) \ {Exit}, IsBranch(g, b)
      PROVE  /\ Cardinality(Leaving(g, b)) = 2
             /\ {e.direction : e \in Leaving(g, b)} = {"true", "false"}
  <2>1. b \in Blocks
    BY PresentBlocks DEF WellFormed
  <2>2. PICK e, f \in Leaving(g, b) :
          Leaving(g, b) = {e, f} /\ e.direction = "true" /\ f.direction = "false"
    BY <1>1, <2>1 DEF WellFormed, Ways, TwoWays
  <2>3. f \notin {e} /\ {e} \cup {f} = {e, f}
    BY <2>2
  <2>4. Cardinality({e}) = 1 /\ IsFiniteSet({e})
    BY FS_Singleton
  <2>5. Cardinality({e, f}) = 2
    BY <2>3, <2>4, FS_AddElement
  <2> QED  BY <2>2, <2>5
<1>2. ASSUME NEW b \in Present(g) \ {Exit}, ~IsBranch(g, b)
      PROVE  /\ Cardinality(Leaving(g, b)) = 1
             /\ {e.direction : e \in Leaving(g, b)} = {"none"}
  <2>1. PICK e \in Leaving(g, b) : Leaving(g, b) = {e} /\ e.direction = "none"
    BY <1>2 DEF WellFormed, Ways, OneWay
  <2>2. Cardinality({e}) = 1
    BY FS_Singleton
  <2>3. {f.direction : f \in {e}} = {"none"}
    BY <2>1
  <2> QED  BY <2>1, <2>2, <2>3
<1> QED  BY <1>1, <1>2 DEF WellFormed, Consistent

(* The exit block is not a branch, and every branch is in the graph. *)
LEMMA BranchPresent ==
  ASSUME NEW g, WellFormed(g), NEW b \in Blocks, IsBranch(g, b)
  PROVE  b \in Present(g) /\ b # Exit
<1>1. PICK e \in Leaving(g, b) : TRUE
  BY DEF WellFormed, Ways, TwoWays
<1> QED  BY <1>1, PresentBlocks DEF WellFormed, Leaving

(* A branch has a successor each way, and it is a block other than Entry. *)
LEMMA TowardsBlock ==
  ASSUME NEW g, WellFormed(g), NEW b \in Blocks, IsBranch(g, b), NEW d \in {"true", "false"}
  PROVE  Towards(g, b, d) \in Present(g) \ {Entry}
<1>1. \E e \in Leaving(g, b) : e.direction = d
  BY DEF WellFormed, Ways, TwoWays
<1>2. PICK e \in Leaving(g, b) : Towards(g, b, d) = e.target
  BY <1>1 DEF Towards
<1> QED  BY <1>2, PresentBlocks DEF WellFormed, Leaving, Entering

-----------------------------------------------------------------------------
(* RemoveBlock: a statement that is not a branch gives way to none. *)
LEMMA RemoveBlockKeeps ==
  ASSUME NEW g, WellFormed(g), NEW b \in Blocks, ~IsBranch(g, b)
  PROVE  WellFormed(RemoveBlock(g, b))
<1> DEFINE h == RemoveBlock(g, b)
<1>1. /\ g \in Graph /\ g.stmt \in [Blocks -> Statement] /\ g.edges \subseteq Edge
  BY GraphParts DEF WellFormed
<1>2. h = [stmt |-> [g.stmt EXCEPT ![b] = Empty], edges |-> g.edges]
  BY <1>1, GraphParts DEF RemoveBlock, ReplaceWithEmpty
<1>3. h \in Graph
  BY <1>1, <1>2, EmptyStatement DEF Graph
<1>4. /\ h.edges = g.edges /\ Present(h) = Present(g)
      /\ \A c \in Blocks : IsBranch(h, c) <=> IsBranch(g, c)
  BY <1>1, <1>2, EmptyStatement DEF Present, IsBranch
<1>5. \A c : Leaving(h, c) = Leaving(g, c) /\ Entering(h, c) = Entering(g, c)
  BY <1>4 DEF Leaving, Entering
<1>6. Present(g) \subseteq Blocks
  BY <1>1, PresentBlocks
<1> HIDE DEF h
<1>7. \A c : (OneWay(h, c) <=> OneWay(g, c)) /\ (TwoWays(h, c) <=> TwoWays(g, c))
  BY <1>5 DEF OneWay, TwoWays
<1> QED  BY <1>3, <1>4, <1>5, <1>6, <1>7 DEF WellFormed, Ways, h

(* set_branch_direction: the branch becomes an empty block with one edge. *)
LEMMA DirectedParts ==
  ASSUME NEW g \in Graph, NEW b \in Blocks, NEW d
  PROVE  LET h == SetBranchDirection(g, b, d)
         IN  /\ h = [stmt |-> h.stmt, edges |-> h.edges]
             /\ h.stmt = [g.stmt EXCEPT ![b] = Empty]
             /\ h.edges = (g.edges \ Leaving(g, b)) \cup
                  {[source |-> b, target |-> Towards(g, b, d), direction |-> "none"]}
<1> DEFINE n == [source |-> b, target |-> Towards(g, b, d), direction |-> "none"]
           E == (g.edges \ Leaving(g, b)) \cup {n}
           k == [stmt |-> g.stmt, edges |-> E]
           h == SetBranchDirection(g, b, d)
<1>1. [g EXCEPT !.edges = E] = k
  BY WithEdges
<1>2. h = ReplaceWithEmpty([g EXCEPT !.edges = E], b)
  BY DEF SetBranchDirection, RemoveBranch
<1>3. h = [k EXCEPT !.stmt[b] = Empty]
  BY <1>1, <1>2 DEF ReplaceWithEmpty
<1> QED  BY <1>3

LEMMA SetBranchDirectionKeeps ==
  ASSUME NEW g, WellFormed(g), NEW b \in Blocks, IsBranch(g, b), NEW d \in {"true", "false"}
  PROVE  WellFormed(SetBranchDirection(g, b, d))
<1> DEFINE t == Towards(g, b, d)
           n == [source |-> b, target |-> t, direction |-> "none"]
           h == SetBranchDirection(g, b, d)
<1>1. /\ g \in Graph /\ g.stmt \in [Blocks -> Statement] /\ g.edges \subseteq Edge
  BY GraphParts DEF WellFormed
<1>2. t \in Present(g) \ {Entry} /\ t \in Blocks /\ b \in Present(g) /\ b # Exit
  BY <1>1, TowardsBlock, BranchPresent, PresentBlocks
<1> HIDE DEF t
<1>3. n \in Edge /\ n.source = b /\ n.target = t /\ n.direction = "none"
  BY <1>2 DEF Edge, Directions
<1>4. /\ h = [stmt |-> h.stmt, edges |-> h.edges] /\ h.stmt = [g.stmt EXCEPT ![b] = Empty]
      /\ h.edges = (g.edges \ Leaving(g, b)) \cup {n}
  BY <1>1, DirectedParts DEF t
<1> HIDE DEF n, h
<1>5. h \in Graph
  BY <1>1, <1>3, <1>4, EmptyStatement DEF Graph
<1>6. /\ h.edges = (g.edges \ Leaving(g, b)) \cup {n}
      /\ \A c \in Blocks : IsBranch(h, c) <=> IsBranch(g, c) /\ c # b
  BY <1>1, <1>4, EmptyStatement DEF IsBranch
<1>7. Leaving(h, b) = {n} /\ \A c : c # b => Leaving(h, c) = Leaving(g, c)
  BY <1>3, <1>6 DEF Leaving
<1>8. Present(h) \subseteq Present(g) /\ Present(g) \subseteq Blocks
  BY <1>1, <1>2, <1>3, <1>6, PresentBlocks DEF Present
<1>9. Entering(h, Entry) = {}
  BY <1>2, <1>3, <1>6 DEF Entering, WellFormed
<1>10. Leaving(h, Exit) = {}
  BY <1>2, <1>7 DEF WellFormed
<1>11. ASSUME NEW c \in Blocks, IsBranch(h, c)
       PROVE  TwoWays(h, c)
  BY <1>6, <1>7, <1>11 DEF WellFormed, Ways, TwoWays
<1>12. ASSUME NEW c \in Present(h) \ {Exit}, ~IsBranch(h, c)
       PROVE  OneWay(h, c)
  <2>1. CASE c = b
    BY <1>3, <1>7, <2>1 DEF OneWay
  <2>2. CASE c # b
    BY <1>6, <1>7, <1>8, <1>12, <2>2 DEF WellFormed, Ways, OneWay
  <2> QED  BY <2>1, <2>2
<1> QED  BY <1>5, <1>9, <1>10, <1>11, <1>12 DEF WellFormed, Ways, h

-----------------------------------------------------------------------------
(* A walk that avoids nothing cannot leave the blocks it gets to. *)
LEMMA ReachClosed ==
  ASSUME NEW g, NEW b
  PROVE  /\ b \in Reach(g, b, {})
         /\ Reach(g, b, {}) \subseteq {b} \cup {e.target : e \in g.edges}
         /\ \A e \in g.edges : e.source \in Reach(g, b, {}) => e.target \in Reach(g, b, {})
  BY DEF Reach

(* rip_bb_out of blocks that are entered from one another only. *)
LEMMA RipOutKeeps ==
  ASSUME NEW g, WellFormed(g), NEW S \in SUBSET Blocks, Entry \notin S,
         \A e \in g.edges : e.source \notin S => e.target \notin S
  PROVE  WellFormed(RipOut(g, S))
<1> DEFINE h == RipOut(g, S)
<1>1. /\ g \in Graph /\ g.stmt \in [Blocks -> Statement] /\ g.edges \subseteq Edge
  BY GraphParts DEF WellFormed
<1>2. /\ h.stmt = [b \in Blocks |-> IF b \in S THEN Empty ELSE g.stmt[b]]
      /\ h.edges = {e \in g.edges : e.source \notin S}
  BY DEF RipOut
<1>3. h \in Graph
  <2>1. h.stmt \in [Blocks -> Statement]
    BY <1>1, <1>2, EmptyStatement
  <2>2. h.edges \in SUBSET Edge
    BY <1>1, <1>2
  <2> QED  BY <2>1, <2>2 DEF RipOut, Graph
<1> HIDE DEF h
<1>4. \A b \in Blocks : IsBranch(h, b) <=> IsBranch(g, b) /\ b \notin S
  BY <1>2, EmptyStatement DEF IsBranch
<1>5. \A b : Leaving(h, b) = IF b \in S THEN {} ELSE Leaving(g, b)
  BY <1>2 DEF Leaving
<1>6. Present(h) \subseteq Present(g) \ S /\ Present(g) \subseteq Blocks
  BY <1>1, <1>2, PresentBlocks DEF Present
<1>7. Entering(h, Entry) = {} /\ Leaving(h, Exit) = {}
  BY <1>2 DEF Entering, Leaving, WellFormed
<1>8. ASSUME NEW b \in Blocks, IsBranch(h, b)
      PROVE  TwoWays(h, b)
  <2>1. TwoWays(g, b) /\ Leaving(h, b) = Leaving(g, b)
    BY <1>4, <1>5, <1>8 DEF WellFormed, Ways
  <2> QED  BY <2>1 DEF TwoWays
<1>9. ASSUME NEW b \in Present(h) \ {Exit}, ~IsBranch(h, b)
      PROVE  OneWay(h, b)
  <2>1. OneWay(g, b) /\ Leaving(h, b) = Leaving(g, b)
    BY <1>4, <1>5, <1>6, <1>9 DEF WellFormed, Ways
  <2> QED  BY <2>1 DEF OneWay
<1>10. WellFormed(h)
  BY <1>3, <1>7, <1>8, <1>9 DEF WellFormed, Ways
<1> QED  BY <1>10 DEF h

(* remove_unreachable_blocks. *)
LEMMA UnreachableKeeps ==
  ASSUME NEW g, WellFormed(g)
  PROVE  WellFormed(RipOut(g, Blocks \ Reach(g, Entry, {})))
<1>1. \A e \in g.edges : e.source \in Blocks /\ e.target \in Blocks
  BY GraphParts DEF WellFormed
<1> QED  BY <1>1, ReachClosed, RipOutKeeps

-----------------------------------------------------------------------------
(* Bypass: the edges that entered the block are led to its successor. *)
Led(e, b, t) == IF e.target = b THEN [e EXCEPT !.target = t] ELSE e

LEMMA BypassParts ==
  ASSUME NEW g, WellFormed(g), NEW b \in Blocks, Removable(g, b)
  PROVE  \E t \in Successors(g, b) :
           /\ t \in Present(g) \ {b, Entry}
           /\ Bypass(g, b) \in Graph
           /\ Bypass(g, b).stmt = [c \in Blocks |-> IF c = b THEN Empty ELSE g.stmt[c]]
           /\ \A e \in g.edges : e.source # b => Led(e, b, t) \in Bypass(g, b).edges
           /\ \A x \in Bypass(g, b).edges :
                x.source # b /\ \E e \in g.edges : x = Led(e, b, t) /\ e.source # b
           /\ \A e \in g.edges : /\ Led(e, b, t).source = e.source
                                 /\ Led(e, b, t).direction = e.direction
                                 /\ Led(e, b, t).target = IF e.target = b THEN t ELSE e.target
<1>1. /\ g \in Graph /\ g.stmt \in [Blocks -> Statement] /\ g.edges \subseteq Edge
  BY GraphParts DEF WellFormed
<1>2. b # Entry /\ b # Exit /\ g.stmt[b] = Empty /\ Leaving(g, b) # {} /\ b \notin Successors(g, b)
  BY DEF Removable
<1>3. PICK t : /\ t = CHOOSE s \in Successors(g, b) : TRUE
  OBVIOUS
<1>4. t \in Successors(g, b)
  BY <1>2, <1>3 DEF Successors
<1>5. t \in Present(g) /\ t \in Blocks /\ t # Entry /\ t # b
  BY <1>1, <1>2, <1>4, PresentBlocks DEF Successors, Leaving, Entering, WellFormed
<1> DEFINE To(e) == [e EXCEPT !.target = t]
           h == Bypass(g, b)
<1>6. \A e \in Edge : /\ To(e) \in Edge /\ To(e).source = e.source
                      /\ To(e).target = t /\ To(e).direction = e.direction
  BY <1>5 DEF Edge
<1>7. \A e : Led(e, b, t) = IF e.target = b THEN To(e) ELSE e
  BY DEF Led
<1> HIDE DEF To
<1>8. \A e \in Entering(g, b) : e.source # b
  BY <1>2 DEF Successors, Leaving, Entering
<1>9. /\ h.stmt = [c \in Blocks |-> IF c \in {b} THEN Empty ELSE g.stmt[c]]
      /\ h.edges = {e \in g.edges \cup {To(e) : e \in Entering(g, b)} :
                      e.source \notin {b} /\ e.target \notin {b}}
      /\ h = [stmt |-> h.stmt, edges |-> h.edges]
  <2> DEFINE k == [stmt |-> g.stmt, edges |-> g.edges \cup {To(e) : e \in Entering(g, b)}]
  <2>1. [g EXCEPT !.edges = g.edges \cup {To(e) : e \in Entering(g, b)}] = k
    BY <1>1, WithEdges
  <2>2. h = RipOut([g EXCEPT !.edges = g.edges \cup {To(e) : e \in Entering(g, b)}], {b})
    BY <1>3 DEF Bypass, To
  <2>3. h = RipOut(k, {b})
    BY <2>1, <2>2
  <2> QED  BY <2>3 DEF RipOut
<1> HIDE DEF h
<1>10. h.edges = {e \in g.edges : e.source # b /\ e.target # b} \cup {To(e) : e \in Entering(g, b)}
  BY <1>1, <1>5, <1>6, <1>8, <1>9 DEF Entering
<1>11. h \in Graph
  <2>1. h.stmt \in [Blocks -> Statement]
    BY <1>1, <1>9, EmptyStatement
  <2>2. h.edges \in SUBSET Edge
    BY <1>1, <1>6, <1>10 DEF Entering
  <2> QED  BY <1>9, <2>1, <2>2 DEF Graph
<1>12. /\ \A e \in g.edges : e.source # b => Led(e, b, t) \in h.edges
       /\ \A x \in h.edges : x.source # b /\ \E e \in g.edges : x = Led(e, b, t) /\ e.source # b
  BY <1>1, <1>6, <1>7, <1>8, <1>10 DEF Entering
<1>13. \A e \in g.edges : /\ Led(e, b, t).source = e.source /\ Led(e, b, t).direction = e.direction
                          /\ Led(e, b, t).target = IF e.target = b THEN t ELSE e.target
  BY <1>1, <1>6, <1>7
<1> QED  BY <1>4, <1>5, <1>9, <1>11, <1>12, <1>13 DEF h

LEMMA BypassLeaving ==
  ASSUME NEW g, NEW h, NEW b, NEW t,
         \A e \in g.edges : e.source # b => Led(e, b, t) \in h.edges,
         \A x \in h.edges : \E e \in g.edges : x = Led(e, b, t) /\ e.source # b,
         \A e \in g.edges : Led(e, b, t).source = e.source
  PROVE  \A c : c # b => Leaving(h, c) = {Led(e, b, t) : e \in Leaving(g, c)}
  BY DEF Leaving

(* Bypass leads the edges that enter the block elsewhere, each with its    *)
(* source and its direction: what the other blocks have one or two of,     *)
(* they still have one or two of.                                          *)
LEMMA BypassKeeps ==
  ASSUME NEW g, WellFormed(g), NEW b \in Blocks, Removable(g, b)
  PROVE  WellFormed(Bypass(g, b))
<1> DEFINE h == Bypass(g, b)
<1>1. PICK t \in Successors(g, b) :
           /\ t \in Present(g) \ {b, Entry}
           /\ h \in Graph
           /\ h.stmt = [c \in Blocks |-> IF c = b THEN Empty ELSE g.stmt[c]]
           /\ \A e \in g.edges : e.source # b => Led(e, b, t) \in h.edges
           /\ \A x \in h.edges :
                x.source # b /\ \E e \in g.edges : x = Led(e, b, t) /\ e.source # b
           /\ \A e \in g.edges : /\ Led(e, b, t).source = e.source
                                 /\ Led(e, b, t).direction = e.direction
                                 /\ Led(e, b, t).target = IF e.target = b THEN t ELSE e.target
  BY BypassParts
<1> DEFINE Now(e) == Led(e, b, t)
<1>2. g \in Graph /\ b # Entry /\ b # Exit /\ Present(g) \subseteq Blocks
  BY PresentBlocks DEF Removable, WellFormed
<1> HIDE DEF h, Now
<1>3. \A c \in Blocks : IsBranch(h, c) <=> IsBranch(g, c) /\ c # b
  BY <1>1, EmptyStatement DEF IsBranch
<1>4. \A c : c # b => Leaving(h, c) = {Now(e) : e \in Leaving(g, c)}
  BY <1>1, BypassLeaving DEF Now
<1>5. \A e \in g.edges : /\ Now(e).source = e.source /\ Now(e).direction = e.direction
                         /\ Now(e).target \in Present(g) \ {b, Entry}
  BY <1>1, <1>2, PresentBlocks DEF Now, WellFormed, Entering
<1>6. \A x \in h.edges : x.source # b /\ \E e \in g.edges : x = Now(e) /\ e.source # b
  BY <1>1 DEF Now
<1>7. Present(h) \subseteq Present(g) \ {b}
  BY <1>2, <1>5, <1>6, PresentBlocks DEF Present
<1>8. Entering(h, Entry) = {} /\ Leaving(h, Exit) = {}
  BY <1>2, <1>4, <1>5, <1>6 DEF Entering, WellFormed
<1>9. ASSUME NEW c, c # b, OneWay(g, c)
      PROVE  OneWay(h, c)
  <2>1. PICK e \in Leaving(g, c) : Leaving(g, c) = {e} /\ e.direction = "none"
    BY <1>9 DEF OneWay
  <2>2. Leaving(h, c) = {Now(e)} /\ Now(e).direction = "none"
    BY <1>4, <1>5, <1>9, <2>1 DEF Leaving
  <2> QED  BY <2>2 DEF OneWay
<1>10. ASSUME NEW c, c # b, TwoWays(g, c)
       PROVE  TwoWays(h, c)
  <2>1. PICK e, f \in Leaving(g, c) :
          Leaving(g, c) = {e, f} /\ e.direction = "true" /\ f.direction = "false"
    BY <1>10 DEF TwoWays
  <2>2. /\ Leaving(h, c) = {Now(e), Now(f)}
        /\ Now(e).direction = "true" /\ Now(f).direction = "false"
    BY <1>4, <1>5, <1>10, <2>1 DEF Leaving
  <2> QED  BY <2>2 DEF TwoWays
<1> QED  BY <1>1, <1>2, <1>3, <1>7, <1>8, <1>9, <1>10 DEF WellFormed, Ways, h

-----------------------------------------------------------------------------
(* What split_block does to an edge: e leads to the copy, and the copy has *)
(* the edges of the branch.                                                *)
Moved(f, e, c) == IF f = e THEN [f EXCEPT !.target = c] ELSE f
Copied(f, c) == [f EXCEPT !.source = c]

LEMMA SplitParts ==
  ASSUME NEW g, WellFormed(g), NEW e \in g.edges,
         NEW c \in Blocks \ (Present(g) \cup {Exit})
  PROVE  /\ Split(g, e, c) \in Graph
         /\ Split(g, e, c).stmt = [g.stmt EXCEPT ![c] = g.stmt[e.target]]
         /\ \A b : b # c => Leaving(Split(g, e, c), b) = {Moved(f, e, c) : f \in Leaving(g, b)}
         /\ Leaving(Split(g, e, c), c) = {Copied(Moved(f, e, c), c) : f \in Leaving(g, e.target)}
         /\ \A f \in g.edges :
              /\ Moved(f, e, c) \in Edge /\ Moved(f, e, c).source = f.source
              /\ Moved(f, e, c).direction = f.direction
              /\ Moved(f, e, c).target = IF f = e THEN c ELSE f.target
         /\ \A f \in Edge : /\ Copied(f, c) \in Edge /\ Copied(f, c).source = c
                            /\ Copied(f, c).target = f.target
                            /\ Copied(f, c).direction = f.direction
<1>1. /\ g \in Graph /\ g.stmt \in [Blocks -> Statement] /\ g.edges \subseteq Edge
  BY GraphParts DEF WellFormed
<1>2. PICK t : t = e.target
  OBVIOUS
<1>3. t \in Blocks /\ t \in Present(g) /\ t # c
  BY <1>1, <1>2, PresentBlocks
<1>4. \A f \in g.edges : f.source # c /\ f.target # c
  BY <1>1, PresentBlocks
<1> DEFINE Of(f) == Copied(f, c)
           Now(f) == Moved(f, e, c)
           m == [g EXCEPT !.edges = (@ \ {e}) \cup {Now(e)}]
           h == Split(g, e, c)
<1>5. \A f \in g.edges : /\ Now(f) \in Edge /\ Now(f).source = f.source
                         /\ Now(f).direction = f.direction
                         /\ Now(f).target = IF f = e THEN c ELSE f.target
  BY <1>1 DEF Edge, Moved
<1>6. \A f \in Edge : /\ Of(f) \in Edge /\ Of(f).source = c
                      /\ Of(f).target = f.target /\ Of(f).direction = f.direction
  BY DEF Edge, Copied
<1>7. m.edges = {Now(f) : f \in g.edges}
  <2>1. m.edges = (g.edges \ {e}) \cup {Now(e)}
    BY <1>1, WithEdges
  <2>2. \A f : f # e => Now(f) = f
    BY DEF Moved
  <2> HIDE DEF Now, m
  <2> QED  BY <2>1, <2>2
<1>8. /\ h = [stmt |-> h.stmt, edges |-> h.edges]
      /\ h.stmt = [g.stmt EXCEPT ![c] = g.stmt[t]]
      /\ h.edges = m.edges \cup {Of(f) : f \in Leaving(m, t)}
  <2> DEFINE k == [g EXCEPT !.edges = (@ \ {e}) \cup {[e EXCEPT !.target = c]}]
  <2>1. m = k
    BY DEF Moved
  <2>2. h = [stmt |-> [g.stmt EXCEPT ![c] = g.stmt[t]],
             edges |-> k.edges \cup {[f EXCEPT !.source = c] : f \in Leaving(k, t)}]
    BY <1>2 DEF Split
  <2> HIDE DEF k, m, h
  <2> QED  BY <2>1, <2>2 DEF Copied
<1> HIDE DEF Of, Now, m, h
<1>9. \A b : Leaving(m, b) = {Now(f) : f \in Leaving(g, b)}
  BY <1>5, <1>7 DEF Leaving
<1>10. m.edges \subseteq Edge
  BY <1>5, <1>7
<1>11. h \in Graph
  <2>1. h.stmt \in [Blocks -> Statement]
    BY <1>1, <1>3, <1>8
  <2>2. h.edges \in SUBSET Edge
    BY <1>6, <1>8, <1>10 DEF Leaving
  <2> QED  BY <1>8, <2>1, <2>2 DEF Graph
<1>12. \A b : b # c => Leaving(h, b) = {Now(f) : f \in Leaving(g, b)}
  <2>1. \A f \in Leaving(m, t) : Of(f).source = c
    BY <1>6, <1>10 DEF Leaving
  <2>2. \A b : b # c => Leaving(h, b) = Leaving(m, b)
    BY <1>8, <2>1 DEF Leaving
  <2> QED  BY <1>9, <2>2
<1>13. Leaving(h, c) = {Of(Now(f)) : f \in Leaving(g, t)}
  <2>1. Leaving(m, c) = {}
    BY <1>4, <1>9 DEF Leaving
  <2>2. Leaving(h, c) = {Of(f) : f \in Leaving(m, t)}
    BY <1>6, <1>8, <1>10, <2>1 DEF Leaving
  <2> QED  BY <1>9, <2>2
<1> QED  BY <1>2, <1>5, <1>6, <1>8, <1>11, <1>12, <1>13 DEF h, Now, Of

(* One step of split_block: a copy of a branch in a block no edge touches. *)
LEMMA SplitKeeps ==
  ASSUME NEW g, WellFormed(g), NEW e \in g.edges, IsBranch(g, e.target),
         NEW c \in Blocks \ (Present(g) \cup {Exit})
  PROVE  /\ WellFormed(Split(g, e, c))
         /\ g.edges \ {e} \subseteq Split(g, e, c).edges
         /\ \A b \in Blocks : IsBranch(g, b) => IsBranch(Split(g, e, c), b)
         /\ Present(Split(g, e, c)) \subseteq Present(g) \cup {c}
<1> DEFINE t == e.target
           Now(f) == Moved(f, e, c)
           Of(f) == Copied(f, c)
           h == Split(g, e, c)
<1>1. /\ g \in Graph /\ g.stmt \in [Blocks -> Statement] /\ g.edges \subseteq Edge
      /\ t \in Blocks /\ IsBranch(g, t) /\ c # Entry /\ c # Exit
      /\ \A f \in g.edges : /\ f.source \in Present(g) /\ f.target \in Present(g)
                           /\ f.source # c /\ f.target # c
  BY GraphParts, PresentBlocks DEF WellFormed
<1>2. /\ h \in Graph /\ h.stmt = [g.stmt EXCEPT ![c] = g.stmt[t]]
      /\ \A b : b # c => Leaving(h, b) = {Now(f) : f \in Leaving(g, b)}
      /\ Leaving(h, c) = {Of(Now(f)) : f \in Leaving(g, t)}
      /\ \A f \in g.edges : /\ Now(f) \in Edge /\ Now(f).source = f.source
                           /\ Now(f).direction = f.direction
                           /\ Now(f).target = IF f = e THEN c ELSE f.target
      /\ \A f \in Edge : /\ Of(f).source = c /\ Of(f).target = f.target
                        /\ Of(f).direction = f.direction
  BY SplitParts
<1>3. \A f : f # e => Now(f) = f
  BY DEF Moved
<1> HIDE DEF t, Now, Of, h
<1>4. \A b \in Blocks : IsBranch(h, b) <=> IsBranch(g, b) \/ b = c
  BY <1>1, <1>2 DEF IsBranch
<1>5. \A x \in h.edges : \E f \in g.edges :
        /\ x.source \in {f.source, c}
        /\ x.target = IF f = e THEN c ELSE f.target
  <2>1. ASSUME NEW x \in h.edges
        PROVE  \E f \in g.edges : /\ x.source \in {f.source, c}
                                 /\ x.target = IF f = e THEN c ELSE f.target
    <3>1. CASE x.source = c
      <4>1. PICK f \in Leaving(g, t) : x = Of(Now(f))
        BY <1>2, <3>1 DEF Leaving
      <4> QED  BY <1>2, <3>1, <4>1 DEF Leaving
    <3>2. CASE x.source # c
      <4>1. PICK f \in Leaving(g, x.source) : x = Now(f)
        BY <1>2, <3>2 DEF Leaving
      <4> QED  BY <1>2, <4>1 DEF Leaving
    <3> QED  BY <3>1, <3>2
  <2> QED  BY <2>1
<1>6. Present(h) \subseteq Present(g) \cup {c}
  BY <1>1, <1>5, PresentBlocks DEF Present
<1>7. Entering(h, Entry) = {} /\ Leaving(h, Exit) = {}
  BY <1>1, <1>2, <1>5 DEF Entering, WellFormed
<1>8. g.edges \ {e} \subseteq h.edges
  BY <1>1, <1>2, <1>3 DEF Leaving
<1>9. ASSUME NEW b \in Blocks, IsBranch(h, b)
       PROVE  TwoWays(h, b)
  <2>1. CASE b = c
    <3>1. PICK i, j \in Leaving(g, t) :
            Leaving(g, t) = {i, j} /\ i.direction = "true" /\ j.direction = "false"
      BY <1>1 DEF WellFormed, Ways, TwoWays
    <3>2. Leaving(h, b) = {Of(Now(i)), Of(Now(j))}
      BY <1>2, <2>1, <3>1
    <3>3. Of(Now(i)).direction = "true" /\ Of(Now(j)).direction = "false"
      BY <1>2, <3>1 DEF Leaving
    <3> QED  BY <3>2, <3>3 DEF TwoWays
  <2>2. CASE b # c
    <3>1. PICK i, j \in Leaving(g, b) :
            Leaving(g, b) = {i, j} /\ i.direction = "true" /\ j.direction = "false"
      BY <1>4, <1>9, <2>2 DEF WellFormed, Ways, TwoWays
    <3>2. Leaving(h, b) = {Now(i), Now(j)}
      BY <1>2, <2>2, <3>1
    <3>3. Now(i).direction = "true" /\ Now(j).direction = "false"
      BY <1>2, <3>1 DEF Leaving
    <3> QED  BY <3>2, <3>3 DEF TwoWays
  <2> QED  BY <2>1, <2>2
<1>10. ASSUME NEW b \in Present(h) \ {Exit}, ~IsBranch(h, b)
       PROVE  OneWay(h, b)
  <2>1. b \in Blocks /\ b # c /\ b \in Present(g) /\ ~IsBranch(g, b)
    BY <1>1, <1>4, <1>6, <1>10, PresentBlocks
  <2>2. PICK i \in Leaving(g, b) : Leaving(g, b) = {i} /\ i.direction = "none"
    BY <1>10, <2>1 DEF WellFormed, Ways, OneWay
  <2>3. Leaving(h, b) = {Now(i)} /\ Now(i).direction = "none"
    BY <1>2, <2>1, <2>2 DEF Leaving
  <2> QED  BY <2>3 DEF OneWay
<1>11. WellFormed(h)
  BY <1>2, <1>7, <1>9, <1>10 DEF WellFormed, Ways
<1> QED  BY <1>4, <1>6, <1>8, <1>11 DEF h

-----------------------------------------------------------------------------
(* add_statements. *)
LEMMA SourceLines ==
  ASSUME NEW code \in Sources
  PROVE  /\ DOMAIN code = 1..Len(code) /\ Len(code) \in Nat
         /\ DOMAIN code \subseteq Blocks \ {Entry, Exit}
         /\ \A i \in DOMAIN code : code[i] \in Line(Labels)
  BY SourcesAssumption, LinesAssumption

(* A line becomes a block of its kind, and only an if becomes a branch. *)
LEMMA BlockOfLine ==
  ASSUME NEW line \in Line(Labels)
  PROVE  BlockOf(line) \in Statement /\ (BlockOf(line).op = "branch" <=> line.op = "if")
<1>1. CASE line.op \in {"label", "goto"}
  BY <1>1, EmptyStatement DEF BlockOf
<1>2. CASE line.op = "if"
  <2>1. line.rhs \in Vars
    BY <1>2 DEF Line, Statement
  <2>2. BlockOf(line) = [op |-> "branch", rhs |-> line.rhs]
    BY <1>2 DEF BlockOf
  <2> QED  BY <1>2, <2>1, <2>2 DEF Statement
<1>3. CASE line.op \notin {"label", "goto", "if"}
  <2>1. line \in Statement /\ line.op # "branch"
    BY <1>3 DEF Line
  <2> QED  BY <1>3, <2>1 DEF BlockOf
<1> QED  BY <1>1, <1>2, <1>3

(* A label that a line mentions is found where it is defined. *)
LEMMA PositionInCode ==
  ASSUME NEW code \in Sources, NEW i \in DOMAIN code, NEW l \in Mentioned(code[i])
  PROVE  Position(code, l) \in DOMAIN code
<1>1. PICK j \in DOMAIN code : Defines(code, l) = {j}
  BY SourcesAssumption
<1> QED  BY <1>1 DEF Position

LEMMA NextLineBlock ==
  ASSUME NEW code \in Sources, NEW i \in DOMAIN code
  PROVE  NextLine(code, i) \in DOMAIN code \cup {Exit}
<1>1. CASE i < Len(code)
  BY <1>1, SourceLines DEF NextLine
<1>2. CASE ~(i < Len(code))
  BY <1>2, BlocksAssumption DEF NextLine
<1> QED  BY <1>1, <1>2

(* The edges of a line: two for an if, one for another line, none of them *)
(* out of the method.                                                      *)
LEMMA EdgesOfLine ==
  ASSUME NEW code \in Sources, NEW i \in DOMAIN code
  PROVE  /\ \A e \in EdgesOf(code, i) : 
              e \in Edge /\ e.source = i /\ e.target \in DOMAIN code \cup {Exit}
         /\ IF code[i].op = "if"
            THEN \E e, f \in EdgesOf(code, i) :
                   EdgesOf(code, i) = {e, f} /\ e.direction = "true" /\ f.direction = "false"
            ELSE \E e \in EdgesOf(code, i) : EdgesOf(code, i) = {e} /\ e.direction = "none"
<1> DEFINE To(t, d) == [source |-> i, target |-> t, direction |-> d]
<1>1. i \in Blocks /\ \A l \in Mentioned(code[i]) : Position(code, l) \in DOMAIN code \cup {Exit}
  BY SourceLines, PositionInCode
<1>2. \A t \in DOMAIN code \cup {Exit}, d \in Directions :
        /\ To(t, d) \in Edge /\ To(t, d).source = i
        /\ To(t, d).target = t /\ To(t, d).direction = d
  BY <1>1, SourceLines, BlocksAssumption DEF Edge
<1>3. Exit \in DOMAIN code \cup {Exit} /\ NextLine(code, i) \in DOMAIN code \cup {Exit}
  BY BlocksAssumption, NextLineBlock
<1>4. CASE code[i].op = "goto"
  <2>1. EdgesOf(code, i) = {To(Position(code, code[i].label), "none")}
    BY <1>4 DEF EdgesOf
  <2>2. Position(code, code[i].label) \in DOMAIN code \cup {Exit}
    BY <1>1, <1>4 DEF Mentioned
  <2> HIDE DEF To
  <2> QED  BY <1>2, <1>4, <2>1, <2>2 DEF Directions
<1>5. CASE code[i].op = "if"
  <2>1. EdgesOf(code, i) = {To(Position(code, code[i].iftrue), "true"),
                            To(Position(code, code[i].iffalse), "false")}
    BY <1>5 DEF EdgesOf
  <2>2. /\ Position(code, code[i].iftrue) \in DOMAIN code \cup {Exit}
        /\ Position(code, code[i].iffalse) \in DOMAIN code \cup {Exit}
    BY <1>1, <1>5 DEF Mentioned
  <2> HIDE DEF To
  <2> QED  BY <1>2, <1>5, <2>1, <2>2 DEF Directions
<1>6. CASE code[i].op = "return"
  <2>1. EdgesOf(code, i) = {To(Exit, "none")}
    BY <1>6 DEF EdgesOf
  <2> HIDE DEF To
  <2> QED  BY <1>2, <1>3, <1>6, <2>1 DEF Directions
<1>7. CASE code[i].op \notin {"goto", "if", "return"}
  <2>1. EdgesOf(code, i) = {To(NextLine(code, i), "none")}
    BY <1>7 DEF EdgesOf
  <2> HIDE DEF To
  <2> QED  BY <1>2, <1>3, <1>7, <2>1 DEF Directions
<1> QED  BY <1>4, <1>5, <1>6, <1>7

LEMMA GraphOfWellFormed ==
  ASSUME NEW code \in Sources
  PROVE  WellFormed(GraphOf(code))
<1> DEFINE h == GraphOf(code)
           first == FirstEdge(code)
<1>1. /\ h = [stmt |-> h.stmt, edges |-> h.edges]
      /\ h.stmt = [b \in Blocks |-> IF b \in DOMAIN code THEN BlockOf(code[b]) ELSE Empty]
      /\ h.edges = CodeEdges(code) \cup {first}
  BY DEF GraphOf
<1> HIDE DEF h
<1>2. \A e : e \in h.edges <=> e = first \/ \E i \in DOMAIN code : e \in EdgesOf(code, i)
  <2>1. \A e : e \in CodeEdges(code) <=> \E i \in DOMAIN code : e \in EdgesOf(code, i)
    BY DEF CodeEdges
  <2> QED  BY <1>1, <2>1
<1>3. /\ first \in Edge /\ first.source = Entry
      /\ first.target \in DOMAIN code \cup {Exit} /\ first.direction = "none"
  <2>1. code # << >> => 1 \in DOMAIN code
    BY SourceLines, SourcesAssumption
  <2>2. PICK t : t = IF code = << >> THEN Exit ELSE 1
    OBVIOUS
  <2>3. t \in DOMAIN code \cup {Exit} /\ t \in Blocks /\ Entry \in Blocks
    BY <2>1, <2>2, SourceLines, BlocksAssumption
  <2>4. first = [source |-> Entry, target |-> t, direction |-> "none"]
    BY <2>2 DEF FirstEdge
  <2> QED  BY <2>3, <2>4 DEF Edge, Directions
<1> HIDE DEF first
<1>4. /\ DOMAIN code \subseteq Blocks \ {Entry, Exit} /\ Entry # Exit
      /\ \A i \in DOMAIN code : code[i] \in Line(Labels)
  BY SourceLines, BlocksAssumption
<1>5. \A i \in DOMAIN code : \A e \in EdgesOf(code, i) :
        e \in Edge /\ e.source = i /\ e.target \in DOMAIN code \cup {Exit}
  BY EdgesOfLine
<1>6. h \in Graph
  <2>1. h.stmt \in [Blocks -> Statement]
    BY <1>1, <1>4, BlockOfLine, EmptyStatement
  <2>2. h.edges \in SUBSET Edge
    BY <1>2, <1>3, <1>5
  <2> QED  BY <1>1, <2>1, <2>2 DEF Graph
<1>7. \A b \in Blocks : IsBranch(h, b) <=> b \in DOMAIN code /\ code[b].op = "if"
  BY <1>1, <1>4, BlockOfLine, EmptyStatement DEF IsBranch
<1>8. /\ \A b \in DOMAIN code : Leaving(h, b) = EdgesOf(code, b)
      /\ Leaving(h, Entry) = {first}
      /\ Leaving(h, Exit) = {}
  BY <1>2, <1>3, <1>4, <1>5 DEF Leaving
<1>9. Entering(h, Entry) = {}
  BY <1>2, <1>3, <1>4, <1>5 DEF Entering
<1>10. ASSUME NEW b \in Blocks, IsBranch(h, b)
      PROVE  TwoWays(h, b)
  <2>1. b \in DOMAIN code /\ code[b].op = "if" /\ Leaving(h, b) = EdgesOf(code, b)
    BY <1>7, <1>8, <1>10
  <2>2. PICK e, f \in EdgesOf(code, b) :
          EdgesOf(code, b) = {e, f} /\ e.direction = "true" /\ f.direction = "false"
    BY <2>1, EdgesOfLine
  <2> QED  BY <2>1, <2>2 DEF TwoWays
<1>11. ASSUME NEW b \in Present(h) \ {Exit}, ~IsBranch(h, b)
       PROVE  OneWay(h, b)
  <2>1. b \in DOMAIN code \cup {Entry}
    BY <1>2, <1>3, <1>5, <1>11 DEF Present
  <2>2. CASE b = Entry
    BY <1>3, <1>8, <2>2 DEF OneWay
  <2>3. CASE b \in DOMAIN code
    <3>1. Leaving(h, b) = EdgesOf(code, b) /\ code[b].op # "if"
      BY <1>4, <1>7, <1>8, <1>11, <2>3
    <3>2. PICK e \in EdgesOf(code, b) : EdgesOf(code, b) = {e} /\ e.direction = "none"
      BY <2>3, <3>1, EdgesOfLine
    <3> QED  BY <3>1, <3>2 DEF OneWay
  <2> QED  BY <2>1, <2>2, <2>3
<1> QED  BY <1>6, <1>8, <1>9, <1>10, <1>11 DEF WellFormed, Ways, h

-----------------------------------------------------------------------------
LEMMA EdgeFinite == IsFiniteSet(Edge)
<1> DEFINE Triples == Blocks \X (Blocks \X Directions)
           f == [e \in Edge |-> <<e.source, <<e.target, e.direction>>>>]
<1>1. IsFiniteSet({"true", "false", "none"})
  <2>1. /\ {} \cup {"true"} = {"true"}
        /\ {"true"} \cup {"false"} = {"true", "false"}
        /\ {"true", "false"} \cup {"none"} = {"true", "false", "none"}
    OBVIOUS
  <2>2. IsFiniteSet({"true"})
    BY FS_Singleton
  <2>3. IsFiniteSet({"true", "false"})
    BY <2>1, <2>2, FS_AddElement
  <2> QED  BY <2>1, <2>3, FS_AddElement
<1>2. IsFiniteSet(Blocks \X Directions)
  BY <1>1, BlocksAssumption, FS_Product DEF Directions
<1>3. IsFiniteSet(Triples)
  BY <1>2, BlocksAssumption, FS_Product
<1>4. f \in [Edge -> Triples]
  BY DEF Edge
<1>5. \A a, b \in Edge : f[a] = f[b] => a = b
  BY DEF Edge
<1>6. f \in Injection(Edge, Triples)
  BY <1>4, <1>5 DEF Injection, IsInjective
<1> QED  BY <1>3, <1>6, FS_Injection

LEMMA InitInv == Init => CFGInv
<1>1. Init => source \in Sources /\ pc = "build"
  BY DEF Init
<1> QED  BY <1>1 DEF CFGInv

LEMMA BuildInv == CFGInv /\ Build => CFGInv'
<1> SUFFICES ASSUME CFGInv, Build PROVE CFGInv'
  OBVIOUS
<1>1. cfg' = GraphOf(source)
  BY DEF Build
<1>2. WellFormed(cfg')
  BY <1>1, GraphOfWellFormed DEF CFGInv
<1> QED  BY <1>2 DEF Build, CFGInv

LEMMA CleanInv == CFGInv /\ Clean => CFGInv'
<1> SUFFICES ASSUME CFGInv, Clean PROVE CFGInv'
  OBVIOUS
<1>1. CASE RemoveUnreachableBlocks
  <2>1. WellFormed(cfg) /\ source' = source /\ pc' = "fold"
    BY <1>1 DEF CFGInv, RemoveUnreachableBlocks
  <2>2. cfg' = RipOut(cfg, Blocks \ Reach(cfg, Entry, {}))
    BY <1>1 DEF RemoveUnreachableBlocks
  <2>3. WellFormed(cfg')
    BY <2>1, <2>2, UnreachableKeeps
  <2> QED  BY <2>1, <2>3 DEF CFGInv
<1>2. CASE FoldRedundantBranches
  <2>1. WellFormed(cfg) /\ source' = source /\ pc' \in {"fold", "empty"}
    BY <1>2 DEF CFGInv, FoldRedundantBranches
  <2>2. CASE Redundant(cfg) = {}
    BY <1>2, <2>1, <2>2 DEF CFGInv, FoldRedundantBranches
  <2>3. CASE Redundant(cfg) # {}
    <3>1. PICK b \in Redundant(cfg) : cfg' = SetBranchDirection(cfg, b, "true")
      BY <1>2, <2>3 DEF FoldRedundantBranches
    <3>2. b \in Blocks /\ IsBranch(cfg, b)
      BY <2>1, PresentBlocks DEF Redundant, WellFormed
    <3>3. WellFormed(cfg')
      BY <2>1, <3>1, <3>2, SetBranchDirectionKeeps
    <3> QED  BY <2>1, <3>3 DEF CFGInv
  <2> QED  BY <2>2, <2>3
<1>3. ASSUME NEW b \in Blocks, RemoveEmptyBlock(b)
      PROVE  CFGInv'
  <2>1. WellFormed(cfg) /\ source' = source /\ pc' = "empty"
    BY <1>3 DEF CFGInv, RemoveEmptyBlock
  <2>2. Removable(cfg, b) /\ cfg' = Bypass(cfg, b)
    BY <1>3 DEF RemoveEmptyBlock
  <2>3. WellFormed(cfg')
    BY <2>1, <2>2, BypassKeeps
  <2> QED  BY <2>1, <2>3 DEF CFGInv
<1>4. CASE CleanAgain
  BY <1>4 DEF CFGInv, CleanAgain
<1> QED  BY <1>1, <1>2, <1>3, <1>4 DEF Clean

(* After SplitBranch the spare blocks suffice for the edges; each SplitEdge *)
(* takes one of either.                                                    *)
LEMMA SplitBranchInv ==
  ASSUME NEW b \in Blocks, CFGInv, SplitBranch(b)
  PROVE  CFGInv'
<1>1. WellFormed(cfg) /\ UNCHANGED <<source, cfg>> /\ pc' = "split"
  BY DEF CFGInv, SplitBranch
<1>2. splitting' = Entering(cfg, b) /\ IsBranch(cfg, b) /\ Spare' = Spare
  BY <1>1 DEF SplitBranch, Spare
<1>3. IsFiniteSet(Entering(cfg, b))
  BY <1>1, EdgeFinite, FS_Subset, GraphParts DEF WellFormed, Entering
<1>4. Cardinality(Spare) >= Cardinality(Entering(cfg, b))
  BY DEF SplitBranch
<1>5. /\ splitting' \subseteq cfg'.edges
      /\ \A e \in splitting' : IsBranch(cfg', e.target)
  BY <1>1, <1>2 DEF Entering
<1>6. Splittable'
  BY <1>2, <1>3, <1>4, <1>5 DEF Splittable
<1> QED  BY <1>1, <1>6 DEF CFGInv

(* SplitEdge always finds a block for the copy. *)
LEMMA SplitEdgeCopy ==
  ASSUME NEW e \in splitting, CFGInv, SplitEdge(e)
  PROVE  \E c \in Spare :
           /\ c \in Blocks \ (Present(cfg) \cup {Exit})
           /\ e \in cfg.edges /\ IsBranch(cfg, e.target)
           /\ cfg' = Split(cfg, e, c)
<1>1. WellFormed(cfg) /\ Splittable
  BY DEF CFGInv, SplitEdge
<1>2. IsFiniteSet(Spare)
  BY BlocksAssumption, FS_Subset DEF Spare
<1>3. Cardinality(splitting) \in Nat /\ Cardinality(splitting) # 0
  BY <1>1, FS_CardinalityType, FS_EmptySet DEF Splittable
<1>4. Spare # {}
  BY <1>1, <1>2, <1>3, FS_CardinalityType, FS_EmptySet DEF Splittable
<1>5. PICK c \in Spare : cfg' = Split(cfg, e, c)
  BY <1>4 DEF SplitEdge
<1>6. c \in Blocks \ (Present(cfg) \cup {Exit}) /\ e \in cfg.edges /\ IsBranch(cfg, e.target)
  BY <1>1 DEF Spare, Splittable
<1> QED  BY <1>5, <1>6

LEMMA SplitEdgeInv ==
  ASSUME NEW e \in splitting, CFGInv, SplitEdge(e)
  PROVE  CFGInv'
<1>1. WellFormed(cfg) /\ Splittable /\ source' = source /\ splitting' = splitting \ {e}
  BY DEF CFGInv, SplitEdge
<1>2. IsFiniteSet(Spare)
  BY BlocksAssumption, FS_Subset DEF Spare
<1>3. Cardinality(splitting) \in Nat /\ Cardinality(splitting) # 0
  BY <1>1, FS_CardinalityType, FS_EmptySet DEF Splittable
<1>4. Cardinality(Spare) \in Nat
  BY <1>2, FS_CardinalityType
<1>5. PICK c \in Spare :
           /\ c \in Blocks \ (Present(cfg) \cup {Exit})
           /\ e \in cfg.edges /\ IsBranch(cfg, e.target)
           /\ cfg' = Split(cfg, e, c)
  BY SplitEdgeCopy
<1>7. /\ WellFormed(cfg')
      /\ cfg.edges \ {e} \subseteq cfg'.edges
      /\ \A b \in Blocks : IsBranch(cfg, b) => IsBranch(cfg', b)
      /\ Present(cfg') \subseteq Present(cfg) \cup {c}
  BY <1>1, <1>5, SplitKeeps
<1>8. /\ splitting' \subseteq cfg'.edges
      /\ \A f \in splitting' : IsBranch(cfg', f.target)
  BY <1>1, <1>7, GraphParts DEF Splittable, WellFormed
<1>9. IsFiniteSet(splitting') /\ Cardinality(splitting') = Cardinality(splitting) - 1
  BY <1>1, FS_RemoveElement DEF Splittable
<1>10. Cardinality(Spare') >= Cardinality(splitting')
  <2>1. Spare \ {c} \subseteq Spare'
    BY <1>7 DEF Spare
  <2>2. IsFiniteSet(Spare')
    BY BlocksAssumption, FS_Subset DEF Spare
  <2>3. /\ Cardinality(Spare \ {c}) = Cardinality(Spare) - 1
        /\ Cardinality(Spare \ {c}) <= Cardinality(Spare') /\ Cardinality(Spare') \in Nat
    BY <1>2, <2>1, <2>2, FS_RemoveElement, FS_Subset, FS_CardinalityType
  <2> QED  BY <1>1, <1>3, <1>4, <1>9, <2>3 DEF Splittable
<1>11. Splittable'
  BY <1>8, <1>9, <1>10 DEF Splittable
<1> QED  BY <1>1, <1>7, <1>11 DEF CFGInv

LEMMA EditsInv == CFGInv /\ Edits => CFGInv'
<1> SUFFICES ASSUME CFGInv, Edits PROVE CFGInv'
  OBVIOUS
<1>1. ASSUME NEW b \in Blocks, RemoveStatement(b)
      PROVE  CFGInv'
  <2>1. WellFormed(cfg) /\ source' = source /\ pc' = "edited"
    BY <1>1 DEF CFGInv, RemoveStatement, Edit
  <2>2. ~IsBranch(cfg, b) /\ cfg' = RemoveBlock(cfg, b)
    BY <1>1 DEF RemoveStatement, Edit, IsBranch
  <2>3. WellFormed(cfg')
    BY <2>1, <2>2, RemoveBlockKeeps
  <2> QED  BY <2>1, <2>3 DEF CFGInv
<1>2. ASSUME NEW b \in Blocks, DecideBranch(b)
      PROVE  CFGInv'
  <2>1. WellFormed(cfg) /\ source' = source /\ pc' = "edited"
    BY <1>2 DEF CFGInv, DecideBranch, Edit
  <2>2. PICK d \in {"true", "false"} : IsBranch(cfg, b) /\ cfg' = SetBranchDirection(cfg, b, d)
    BY <1>2 DEF DecideBranch, Edit
  <2>3. WellFormed(cfg')
    BY <2>1, <2>2, SetBranchDirectionKeeps
  <2> QED  BY <2>1, <2>3 DEF CFGInv
<1> QED  BY <1>1, <1>2, SplitBranchInv, SplitEdgeInv DEF Edits

(* The other steps leave the graph alone, and are not steps of a split. *)
LEMMA RestInv == CFGInv /\ (StopEditing \/ Linearize \/ Run) => CFGInv'
<1> SUFFICES ASSUME CFGInv, StopEditing \/ Linearize \/ Run PROVE CFGInv'
  OBVIOUS
<1>1. UNCHANGED <<source, cfg>> /\ pc # "build" /\ pc' # "split"
  BY DEF StopEditing, Linearize, Run, Discover, AddExitLabel, DropGotos, DropLabels, RunSource,
         RunResult, RunBoth
<1> QED  BY <1>1 DEF CFGInv

LEMMA Inductive == Spec => []CFGInv
<1>1. CFGInv /\ [Next]_vars => CFGInv'
  <2> SUFFICES ASSUME CFGInv, [Next]_vars PROVE CFGInv'
    OBVIOUS
  <2>1. CASE Next
    BY <2>1, BuildInv, CleanInv, EditsInv, RestInv DEF Next
  <2>2. CASE UNCHANGED vars
    BY <2>2 DEF vars, CFGInv, Splittable, Spare
  <2> QED  BY <2>1, <2>2
<1> QED  BY <1>1, InitInv, PTL DEF Spec

(* Whatever the method and however it is edited, no sweep of clean, no     *)
(* removal of a statement or a branch and no step of a split leaves a      *)
(* graph that CFG::consistency_check would refuse.                         *)
THEOREM Consistency == Spec => []GraphConsistent
<1>1. CFGInv => GraphConsistent
  BY WellFormedConsistent DEF CFGInv, GraphConsistent
<1> QED  BY <1>1, Inductive, PTL

-----------------------------------------------------------------------------
(* Keeping: what is kept stays, in a list of its own. *)
LEMMA HasFirst ==
  ASSUME NEW D \in SUBSET Nat, D # {}
  PROVE  \E i \in D : \A j \in D : i <= j
<1>1. PICK x \in D : \A y \in D : ~ (<<y, x>> \in OpToRel(<, Nat))
  BY NatLessThanWellFounded, WFMin
<1>2. \A y \in D : ~ (y < x)
  BY <1>1 DEF OpToRel
<1> QED
  BY <1>2

LEMMA HasLast ==
  ASSUME NEW n \in Nat, NEW D \in SUBSET (1..n), D # {}
  PROVE  \E i \in D : \A j \in D : j <= i
<1> DEFINE Bounds == {m \in Nat : \A j \in D : j <= m}
<1>1. \A j \in D : j \in Nat /\ j # 0 /\ j <= n
  <2>1. \A j \in 1..n : j \in Nat /\ j # 0 /\ j <= n
    OBVIOUS
  <2> QED  BY <2>1
<1>2. PICK m \in Bounds : \A b \in Bounds : m <= b
  <2>1. n \in Bounds
    BY <1>1
  <2> QED  BY <2>1, HasFirst
<1>3. m \in Nat /\ \A j \in D : j <= m
  BY <1>2
<1>4. m # 0
  <2>1. PICK j \in D : j \in Nat /\ j # 0 /\ j <= m
    BY <1>1, <1>3
  <2> QED  BY <2>1
<1>5. ASSUME m \notin D
      PROVE  FALSE
  <2>1. m - 1 \in Nat /\ ~(m <= m - 1) /\ \A j \in Nat : j <= m /\ j # m => j <= m - 1
    BY <1>3, <1>4
  <2>2. m - 1 \in Bounds
    BY <1>1, <1>3, <1>5, <2>1
  <2> QED  BY <1>2, <2>1, <2>2
<1> QED  BY <1>3, <1>5

UpTo(K, m) == {j \in K : j <= m}

LEMMA UpToMember == ASSUME NEW K, NEW m, NEW j PROVE j \in UpTo(K, m) <=> j \in K /\ j <= m
  BY DEF UpTo

LEMMA UpToNext ==
  ASSUME NEW K \in SUBSET Nat, NEW m \in Nat, m # 0
  PROVE  UpTo(K, m) = UpTo(K, m - 1) \cup ({m} \cap K)
<1>1. \A j \in Nat : j <= m <=> j <= m - 1 \/ j = m
  OBVIOUS
<1>2. \A j \in K : j \in Nat
  OBVIOUS
<1>3. ASSUME NEW j \in Nat
      PROVE  j \in UpTo(K, m) <=> j \in UpTo(K, m - 1) \cup ({m} \cap K)
  BY <1>1, UpToMember
<1>4. UpTo(K, m) \subseteq Nat /\ UpTo(K, m - 1) \subseteq Nat
  BY <1>2 DEF UpTo
<1>5. \A j : j \in UpTo(K, m) <=> j \in UpTo(K, m - 1) \cup ({m} \cap K)
  BY <1>3, <1>4
<1> QED  BY <1>5

(* How many elements of K there are up to m goes up by one at each element *)
(* of K, and only there.                                                   *)
LEMMA UpToStep ==
  ASSUME NEW n \in Nat, NEW K \in SUBSET (1..n), NEW m \in Nat
  PROVE  /\ IsFiniteSet(UpTo(K, m)) /\ Cardinality(UpTo(K, m)) \in Nat
         /\ Cardinality(UpTo(K, m)) <= Cardinality(K) /\ Cardinality(K) \in Nat
         /\ Cardinality(UpTo(K, 0)) = 0
         /\ UpTo(K, n) = K
         /\ m # 0 => Cardinality(UpTo(K, m)) =
                        Cardinality(UpTo(K, m - 1)) + (IF m \in K THEN 1 ELSE 0)
<1>1. IsFiniteSet(K)
  <2>1. IsFiniteSet(1..n)
    BY FS_Interval
  <2> QED  BY <2>1, FS_Subset
<1>2. ASSUME NEW i \in Nat
      PROVE  /\ IsFiniteSet(UpTo(K, i)) /\ Cardinality(UpTo(K, i)) \in Nat
             /\ Cardinality(UpTo(K, i)) <= Cardinality(K)
  <2>1. UpTo(K, i) \in SUBSET K
    BY DEF UpTo
  <2> QED  BY <1>1, <2>1, FS_Subset, FS_CardinalityType
<1>3. \A j \in 1..n : j \in Nat /\ ~(j <= 0) /\ j <= n
  OBVIOUS
<1>4. K \in SUBSET Nat /\ \A j \in K : ~(j <= 0) /\ j <= n
  BY <1>3
<1>5. UpTo(K, 0) = {} /\ UpTo(K, n) = K
  BY <1>4 DEF UpTo
<1>6. ASSUME m # 0
      PROVE  Cardinality(UpTo(K, m)) = Cardinality(UpTo(K, m - 1)) + (IF m \in K THEN 1 ELSE 0)
  <2>1. m - 1 \in Nat /\ ~(m <= m - 1)
    BY <1>6
  <2>2. m \notin UpTo(K, m - 1) /\ UpTo(K, m) = UpTo(K, m - 1) \cup ({m} \cap K)
    BY <1>4, <1>6, <2>1, UpToMember, UpToNext
  <2>3. IsFiniteSet(UpTo(K, m - 1)) /\ Cardinality(UpTo(K, m - 1)) \in Nat
    BY <1>2, <2>1
  <2>4. CASE m \in K
    <3>1. UpTo(K, m) = UpTo(K, m - 1) \cup {m}
      BY <2>2, <2>4
    <3> QED  BY <2>2, <2>3, <2>4, <3>1, FS_AddElement
  <2>5. CASE m \notin K
    <3>1. UpTo(K, m) = UpTo(K, m - 1)
      BY <2>2, <2>5
    <3> QED  BY <2>3, <2>5, <3>1
  <2> QED  BY <2>4, <2>5
<1> QED  BY <1>1, <1>2, <1>5, <1>6, FS_EmptySet, FS_CardinalityType

(* The k-th element of K exists. *)
LEMMA NthExists ==
  ASSUME NEW n \in Nat, NEW K \in SUBSET (1..n), NEW k \in 1..Cardinality(K)
  PROVE  \E i \in K : Cardinality(UpTo(K, i)) = k
<1> DEFINE D == {m \in Nat : Cardinality(UpTo(K, m)) >= k}
<1>1. k \in Nat /\ k # 0 /\ Cardinality(K) >= k
  <2>1. Cardinality(K) \in Nat
    BY UpToStep
  <2> QED  BY <2>1
<1>2. n \in D
  BY <1>1, UpToStep
<1>3. PICK m \in D : \A j \in D : m <= j
  BY <1>2, HasFirst
<1>4. m # 0
  <2>1. Cardinality(UpTo(K, 0)) = 0
    BY UpToStep
  <2>2. Cardinality(UpTo(K, m)) >= k
    BY <1>3
  <2> QED  BY <1>1, <2>1, <2>2
<1>5. m \in Nat /\ m - 1 \in Nat /\ ~(m <= m - 1)
  BY <1>3, <1>4
<1>6. m - 1 \notin D
  BY <1>3, <1>5
<1> DEFINE before == Cardinality(UpTo(K, m - 1))
           upto == Cardinality(UpTo(K, m))
<1>7. upto >= k /\ ~(before >= k)
  BY <1>3, <1>5, <1>6
<1>8. before \in Nat /\ upto = before + (IF m \in K THEN 1 ELSE 0)
  <2>1. \A i \in Nat : Cardinality(UpTo(K, i)) \in Nat
    BY UpToStep
  <2>2. upto = before + (IF m \in K THEN 1 ELSE 0)
    BY <1>4, <1>5, UpToStep
  <2> QED  BY <1>5, <2>1, <2>2
<1> HIDE DEF before, upto
<1>9. m \in K /\ upto = k
  BY <1>1, <1>7, <1>8
<1> QED  BY <1>9 DEF upto

(* No two elements of K have the same number. *)
LEMMA NthUnique ==
  ASSUME NEW n \in Nat, NEW K \in SUBSET (1..n), NEW i \in K, NEW j \in K,
         Cardinality(UpTo(K, i)) = Cardinality(UpTo(K, j))
  PROVE  i = j
<1>1. i \in Nat /\ j \in Nat
  OBVIOUS
<1>2. ASSUME NEW a \in K, NEW b \in K, a < b
      PROVE  Cardinality(UpTo(K, a)) # Cardinality(UpTo(K, b))
  <2>1. a \in Nat /\ b \in Nat /\ ~(b <= a) /\ \A x \in Nat : x <= a => x <= b
    BY <1>2
  <2>2. \A x \in K : x \in Nat
    OBVIOUS
  <2>3. UpTo(K, a) \subseteq UpTo(K, b)
    <3>1. ASSUME NEW x \in UpTo(K, a)
          PROVE  x \in UpTo(K, b)
      BY <2>1, <2>2, UpToMember
    <3> QED  BY <3>1
  <2>4. b <= b
    BY <2>1
  <2>5. b \in UpTo(K, b) /\ b \notin UpTo(K, a)
    BY <2>1, <2>4, UpToMember
  <2>6. IsFiniteSet(UpTo(K, b))
    BY <2>1, UpToStep
  <2> QED  BY <2>3, <2>5, <2>6, FS_Subset
<1> QED  BY <1>1, <1>2

LEMMA KeepingKeeps ==
  ASSUME NEW S, NEW code \in Seq(S), NEW K \in SUBSET (DOMAIN code)
  PROVE  /\ Keeping(code, K) \in Seq(S)
         /\ \A p \in DOMAIN Keeping(code, K) : \E i \in K : Keeping(code, K)[p] = code[i]
         /\ \A i \in K : \E p \in DOMAIN Keeping(code, K) : Keeping(code, K)[p] = code[i]
<1> DEFINE nth(k) == CHOOSE i \in K : Cardinality(UpTo(K, i)) = k
           kept == Keeping(code, K)
<1>1. kept = [k \in 1..Cardinality(K) |-> code[nth(k)]]
  BY Zenon DEF Keeping, UpTo
<1> HIDE DEF kept
<1>2. Len(code) \in Nat /\ DOMAIN code = 1..Len(code) /\ \A i \in DOMAIN code : code[i] \in S
  OBVIOUS
<1>3. Cardinality(K) \in Nat
  BY <1>2, UpToStep
<1>4. \A k \in 1..Cardinality(K) : nth(k) \in K /\ Cardinality(UpTo(K, nth(k))) = k
  BY <1>2, NthExists
<1>5. kept \in Seq(S)
  <2>1. kept \in [1..Cardinality(K) -> S]
    BY <1>1, <1>2, <1>4
  <2> QED  BY <1>3, <2>1
<1>6. ASSUME NEW p \in DOMAIN kept
      PROVE  \E i \in K : kept[p] = code[i]
  BY <1>1, <1>4
<1>7. ASSUME NEW i \in K
      PROVE  \E p \in DOMAIN kept : kept[p] = code[i]
  <2> DEFINE p == Cardinality(UpTo(K, i))
  <2>1. i \in Nat /\ i # 0 /\ i <= i
    BY <1>2
  <2>2. p \in Nat /\ p <= Cardinality(K) /\ IsFiniteSet(UpTo(K, i))
    BY <1>2, <2>1, UpToStep
  <2>3. p # 0
    BY <2>1, <2>2, UpToMember, FS_EmptySet
  <2>4. p \in 1..Cardinality(K)
    BY <1>3, <2>2, <2>3
  <2>5. nth(p) = i
    BY <1>2, <1>4, <2>4, NthUnique
  <2> HIDE DEF p, nth
  <2> QED  BY <1>1, <2>4, <2>5
<1> QED  BY <1>5, <1>6, <1>7 DEF kept

-----------------------------------------------------------------------------
(* The lists.  A list is linked when each label it mentions is there. *)
Linked(code) == \A i \in DOMAIN code : \A l \in Mentioned(code[i]) : Defines(code, l) # {}

LEMMA SourceLinked ==
  ASSUME NEW code \in Sources
  PROVE  code \in Seq(Line(Labels)) /\ Linked(code)
<1>1. code \in Seq(Line(Labels))
  BY SourcesAssumption
<1>2. ASSUME NEW i \in DOMAIN code, NEW l \in Mentioned(code[i])
      PROVE  Defines(code, l) # {}
  <2>1. PICK j \in DOMAIN code : Defines(code, l) = {j}
    BY SourcesAssumption
  <2> QED  BY <2>1
<1> QED  BY <1>1, <1>2 DEF Linked

(* A goto to the line after it is not needed to get there. *)
LEMMA DropGotosLinked ==
  ASSUME NEW code \in Seq(Line(Blocks)), Linked(code)
  PROVE  LET kept == Keeping(code, {i \in DOMAIN code : ~FallsThrough(code, i)})
         IN  kept \in Seq(Line(Blocks)) /\ Linked(kept)
<1> DEFINE K == {i \in DOMAIN code : ~FallsThrough(code, i)}
           kept == Keeping(code, K)
<1>1. /\ kept \in Seq(Line(Blocks))
      /\ \A p \in DOMAIN kept : \E i \in K : kept[p] = code[i]
      /\ \A i \in K : \E p \in DOMAIN kept : kept[p] = code[i]
  <2>1. K \in SUBSET (DOMAIN code)
    OBVIOUS
  <2> HIDE DEF K
  <2> QED  BY <2>1, KeepingKeeps
<1>2. ASSUME NEW p \in DOMAIN kept, NEW l \in Mentioned(kept[p])
      PROVE  Defines(kept, l) # {}
  <2>1. PICK i \in K : kept[p] = code[i]
    BY <1>1
  <2>2. PICK j \in DOMAIN code : code[j] = [op |-> "label", label |-> l]
    BY <1>2, <2>1 DEF Linked, Defines
  <2>3. j \in K
    BY <2>2 DEF FallsThrough
  <2> HIDE DEF kept, K
  <2> QED  BY <1>1, <2>2, <2>3 DEF Defines
<1>3. Linked(kept)
  <2> HIDE DEF kept, K
  <2> QED  BY <1>2 DEF Linked
<1> QED  BY <1>1, <1>3

(* Nor is a label that nothing mentions. *)
LEMMA DropLabelsLinked ==
  ASSUME NEW code \in Seq(Line(Blocks)), Linked(code)
  PROVE  LET kept == Keeping(code, {i \in DOMAIN code : ~Unused(code, i)})
         IN  kept \in Seq(Line(Blocks)) /\ Linked(kept)
<1> DEFINE K == {i \in DOMAIN code : ~Unused(code, i)}
           kept == Keeping(code, K)
<1>1. /\ kept \in Seq(Line(Blocks))
      /\ \A p \in DOMAIN kept : \E i \in K : kept[p] = code[i]
      /\ \A i \in K : \E p \in DOMAIN kept : kept[p] = code[i]
  <2>1. K \in SUBSET (DOMAIN code)
    OBVIOUS
  <2> HIDE DEF K
  <2> QED  BY <2>1, KeepingKeeps
<1>2. ASSUME NEW p \in DOMAIN kept, NEW l \in Mentioned(kept[p])
      PROVE  Defines(kept, l) # {}
  <2>1. PICK i \in K : kept[p] = code[i]
    BY <1>1
  <2>2. PICK j \in DOMAIN code : code[j] = [op |-> "label", label |-> l]
    BY <1>2, <2>1 DEF Linked, Defines
  <2>3. code[j].label = l /\ l \in Mentioned(code[i])
    BY <1>2, <2>1, <2>2
  <2>4. j \in K
    BY <2>1, <2>3 DEF Unused
  <2> HIDE DEF kept, K
  <2> QED  BY <1>1, <2>2, <2>4 DEF Defines
<1>3. Linked(kept)
  <2> HIDE DEF kept, K
  <2> QED  BY <1>2 DEF Linked
<1> QED  BY <1>1, <1>3

(* A run of a linked list gets from line to line. *)
LEMMA EffectType ==
  ASSUME NEW Ls, NEW line \in Line(Ls), NEW store \in [Vars -> BOOLEAN]
  PROVE  Effect(line, store) \in [Vars -> BOOLEAN]
<1>1. CASE line.op = "set"
  <2>1. line.lhs \in Vars /\ line.value \in BOOLEAN
    BY <1>1 DEF Line, Statement
  <2>2. Effect(line, store) = [store EXCEPT ![line.lhs] = line.value]
    BY <1>1 DEF Effect
  <2> QED  BY <2>1, <2>2
<1>2. CASE line.op \in {"copy", "not", "may"}
  <2>1. line.lhs \in Vars /\ line.rhs \in Vars
    BY <1>2 DEF Line, Statement
  <2>2. PICK v \in BOOLEAN : Effect(line, store) = [store EXCEPT ![line.lhs] = v]
    <3>1. /\ store[line.rhs] \in BOOLEAN /\ (~store[line.rhs]) \in BOOLEAN
          /\ (store[line.lhs] \/ store[line.rhs]) \in BOOLEAN
      BY <2>1
    <3>2. CASE line.op = "copy"
      BY <3>1, <3>2 DEF Effect
    <3>3. CASE line.op = "not"
      BY <3>1, <3>3 DEF Effect
    <3>4. CASE line.op = "may"
      BY <3>1, <3>4 DEF Effect
    <3> QED  BY <1>2, <3>2, <3>3, <3>4
  <2> QED  BY <2>1, <2>2
<1>3. CASE line.op \notin {"set", "copy", "not", "may"}
  BY <1>3 DEF Effect
<1> QED  BY <1>1, <1>2, <1>3

Place == {p \in Spot : p.at # 0}

LEMMA LinkedPosition ==
  ASSUME NEW Ls, NEW code \in Seq(Line(Ls)), Linked(code),
         NEW i \in DOMAIN code, NEW l \in Mentioned(code[i])
  PROVE  Position(code, l) \in Nat \ {0}
<1>1. Defines(code, l) # {} /\ Defines(code, l) \subseteq DOMAIN code
  BY DEF Linked, Defines
<1>2. Position(code, l) \in DOMAIN code
  BY <1>1 DEF Position
<1> QED  BY <1>2

LEMMA ExecutedPlace ==
  ASSUME NEW Ls, NEW code \in Seq(Line(Ls)), Linked(code),
         NEW p \in Place, p.at \in DOMAIN code
  PROVE  Executed(code, p) \in Place
<1> DEFINE line == code[p.at]
           next == CASE line.op = "goto" -> Position(code, line.label)
                     [] line.op = "if" ->
                          Position(code, IF p.store[line.rhs] THEN line.iftrue ELSE line.iffalse)
                     [] line.op = "return" -> Len(code) + 1
                     [] OTHER -> p.at + 1
<1>1. /\ line \in Line(Ls) /\ p.store \in [Vars -> BOOLEAN] /\ p.at \in Nat /\ Len(code) \in Nat
  BY DEF Place, Spot
<1>2. Effect(line, p.store) \in [Vars -> BOOLEAN]
  BY <1>1, EffectType
<1>3. next \in Nat \ {0}
  <2>1. CASE line.op = "goto"
    <3>1. line.label \in Mentioned(code[p.at])
      BY <2>1 DEF Mentioned
    <3> QED  BY <2>1, <3>1, LinkedPosition
  <2>2. CASE line.op = "if"
    <3>1. PICK l : l = IF p.store[line.rhs] THEN line.iftrue ELSE line.iffalse
      OBVIOUS
    <3>2. l \in Mentioned(code[p.at])
      BY <2>2, <3>1 DEF Mentioned
    <3>3. next = Position(code, l)
      BY <2>2, <3>1
    <3> QED  BY <3>2, <3>3, LinkedPosition
  <2>3. CASE line.op = "return"
    BY <1>1, <2>3
  <2>4. CASE line.op \notin {"goto", "if", "return"}
    BY <1>1, <2>4
  <2> QED  BY <2>1, <2>2, <2>3, <2>4
<1>4. Executed(code, p) = [at |-> next, store |-> Effect(line, p.store)]
  BY DEF Executed
<1> HIDE DEF next, line
<1> QED  BY <1>2, <1>3, <1>4 DEF Place, Spot

-----------------------------------------------------------------------------
(* The invariant about the lists: types; and while the blocks are being    *)
(* discovered, the labels of those that are, and mentions of no others     *)
(* than their successors.                                                  *)
ListInv ==
  /\ pc \notin {"linearize", "gotos", "labels", "run", "assertion failed"} =>
       order = << >> /\ result = << >>
  /\ pc = "linearize" =>
       /\ Discovered \subseteq Present(cfg)
       /\ \A b \in Discovered \ {Exit} : Defines(result, b) # {}
       /\ \A i \in DOMAIN result : \A l \in Mentioned(result[i]) :
            \E b \in Discovered : l \in Successors(cfg, b)
  /\ pc \in {"gotos", "labels", "run"} => Linked(result)

TypeInv == CFGTypeOK /\ ran \in Place /\ rerun \in Place

(* What a block becomes: its label first, and gotos to its successors. *)
LEMMA LinesOfBlock ==
  ASSUME NEW b \in Present(cfg), WellFormed(cfg)
  PROVE  /\ LinesOf(b) \in Seq(Line(Blocks))
         /\ b # Exit => Len(LinesOf(b)) >= 1 /\ LinesOf(b)[1] = [op |-> "label", label |-> b]
         /\ \A i \in DOMAIN LinesOf(b) : Mentioned(LinesOf(b)[i]) \subseteq Successors(cfg, b)
<1> DEFINE label == [op |-> "label", label |-> b]
           target == CHOOSE t \in Successors(cfg, b) : TRUE
           goto == [op |-> "goto", label |-> target]
           s == cfg.stmt[b]
           branch == [op |-> "if", rhs |-> s.rhs, iftrue |-> Towards(cfg, b, "true"),
                      iffalse |-> Towards(cfg, b, "false")]
<1>1. b \in Blocks /\ s \in Statement /\ Successors(cfg, b) \subseteq Blocks
  BY PresentBlocks, GraphParts DEF WellFormed, Successors, Leaving
<1>2. label \in Line(Blocks) /\ Mentioned(label) = {}
  BY <1>1 DEF Line, Mentioned
<1>3. CASE b = Exit
  BY <1>3 DEF LinesOf
<1>4. CASE b # Exit /\ s.op = "branch"
  <2>1. PICK e, f \in Leaving(cfg, b) :
          Leaving(cfg, b) = {e, f} /\ e.direction = "true" /\ f.direction = "false"
    BY <1>1, <1>4 DEF WellFormed, Ways, TwoWays, IsBranch
  <2>2. Towards(cfg, b, "true") = e.target /\ Towards(cfg, b, "false") = f.target
    BY <2>1 DEF Towards
  <2>3. /\ Towards(cfg, b, "true") \in Successors(cfg, b)
        /\ Towards(cfg, b, "false") \in Successors(cfg, b)
    BY <2>2 DEF Successors
  <2>4. s.rhs \in Vars
    BY <1>1, <1>4 DEF Statement
  <2>5. branch \in Line(Blocks)
    BY <1>1, <2>3, <2>4 DEF Line
  <2>6. Mentioned(branch) \subseteq Successors(cfg, b)
    BY <2>3 DEF Mentioned
  <2>7. LinesOf(b) = <<label, branch>>
    BY <1>4 DEF LinesOf
  <2> HIDE DEF label, branch
  <2> QED  BY <1>2, <2>5, <2>6, <2>7 DEF label
<1>5. CASE b # Exit /\ s.op # "branch"
  <2>1. PICK e \in Leaving(cfg, b) : Leaving(cfg, b) = {e}
    BY <1>5 DEF WellFormed, Ways, OneWay, IsBranch
  <2>2. target \in Successors(cfg, b)
    BY <2>1 DEF Successors
  <2> HIDE DEF target
  <2>3. goto \in Line(Blocks) /\ Mentioned(goto) \subseteq Successors(cfg, b)
    BY <1>1, <2>2 DEF Line, Mentioned
  <2>4. s \in Line(Blocks)
    BY <1>1, <1>5 DEF Line
  <2>5. Mentioned(s) = {}
    BY <1>1, <1>5 DEF Statement, Mentioned
  <2>6. LinesOf(b) \in {<<label, goto>>, <<label, s, goto>>}
    BY <1>5 DEF LinesOf, target
  <2> HIDE DEF label, goto, s
  <2>7. CASE LinesOf(b) = <<label, goto>>
    BY <1>2, <2>3, <2>7 DEF label
  <2>8. CASE LinesOf(b) = <<label, s, goto>>
    BY <1>2, <2>3, <2>4, <2>5, <2>8 DEF label
  <2> QED  BY <2>6, <2>7, <2>8
<1> QED  BY <1>3, <1>4, <1>5

LEMMA Concatenation ==
  ASSUME NEW S, NEW a \in Seq(S), NEW b \in Seq(S)
  PROVE  /\ a \o b \in Seq(S)
         /\ \A i \in DOMAIN a : i \in DOMAIN (a \o b) /\ (a \o b)[i] = a[i]
         /\ \A i \in DOMAIN b : Len(a) + i \in DOMAIN (a \o b) /\ (a \o b)[Len(a) + i] = b[i]
         /\ \A i \in DOMAIN (a \o b) :
              \/ \E j \in DOMAIN a : (a \o b)[i] = a[j]
              \/ \E j \in DOMAIN b : (a \o b)[i] = b[j]
<1>1. /\ a \o b \in Seq(S) /\ Len(a) \in Nat /\ Len(b) \in Nat
      /\ DOMAIN (a \o b) = 1..(Len(a) + Len(b)) /\ DOMAIN a = 1..Len(a) /\ DOMAIN b = 1..Len(b)
  OBVIOUS
<1>2. ASSUME NEW i \in DOMAIN a
      PROVE  i \in DOMAIN (a \o b) /\ (a \o b)[i] = a[i]
  BY <1>1
<1>3. ASSUME NEW i \in DOMAIN b
      PROVE  Len(a) + i \in DOMAIN (a \o b) /\ (a \o b)[Len(a) + i] = b[i]
  BY <1>1
<1>4. ASSUME NEW i \in DOMAIN (a \o b)
      PROVE  \/ \E j \in DOMAIN a : (a \o b)[i] = a[j]
             \/ \E j \in DOMAIN b : (a \o b)[i] = b[j]
  <2>1. CASE i <= Len(a)
    BY <1>1, <1>2, <2>1
  <2>2. CASE ~(i <= Len(a))
    <3>1. i - Len(a) \in DOMAIN b /\ Len(a) + (i - Len(a)) = i
      BY <1>1, <2>2
    <3> QED  BY <1>3, <3>1
  <2> QED  BY <2>1, <2>2
<1> QED  BY <1>1, <1>2, <1>3, <1>4

(* Only blocks that are in the graph are discovered. *)
LEMMA DiscoverablePresent ==
  ASSUME WellFormed(cfg)
  PROVE  Discoverable \subseteq Present(cfg)
<1>1. \A b : Undiscovered(b) \subseteq Present(cfg)
  BY PresentBlocks DEF Undiscovered, Successors, Leaving, WellFormed
<1> QED  BY <1>1, PresentBlocks DEF Discoverable, WellFormed

Inv == CFGInv /\ TypeInv /\ ListInv

LEMMA DiscoverList ==
  ASSUME Inv, Discover
  PROVE  /\ ListInv'
         /\ order' \in Seq(Blocks) /\ result' \in Seq(Line(Blocks))
<1>1. /\ pc = "linearize" /\ pc' = pc /\ cfg' = cfg /\ WellFormed(cfg)
      /\ order \in Seq(Blocks) /\ result \in Seq(Line(Blocks))
  BY DEF Inv, CFGInv, TypeInv, CFGTypeOK, Discover
<1>2. /\ Discovered \subseteq Present(cfg)
      /\ \A b \in Discovered \ {Exit} : Defines(result, b) # {}
      /\ \A i \in DOMAIN result : \A l \in Mentioned(result[i]) :
           \E b \in Discovered : l \in Successors(cfg, b)
  BY <1>1 DEF Inv, ListInv
<1>3. PICK b \in Discoverable : order' = Append(order, b) /\ result' = result \o LinesOf(b)
  BY DEF Discover
<1>4. b \in Present(cfg) /\ b \in Blocks
  BY <1>1, <1>3, DiscoverablePresent, PresentBlocks DEF WellFormed
<1>5. PICK lines : lines = LinesOf(b)
  OBVIOUS
<1>6. /\ lines \in Seq(Line(Blocks))
      /\ b # Exit => Len(lines) >= 1 /\ lines[1] = [op |-> "label", label |-> b]
      /\ \A i \in DOMAIN lines : Mentioned(lines[i]) \subseteq Successors(cfg, b)
  BY <1>1, <1>4, <1>5, LinesOfBlock
<1>7. /\ result' \in Seq(Line(Blocks))
      /\ \A i \in DOMAIN result : i \in DOMAIN result' /\ result'[i] = result[i]
      /\ \A i \in DOMAIN lines :
           Len(result) + i \in DOMAIN result' /\ result'[Len(result) + i] = lines[i]
      /\ \A i \in DOMAIN result' : \/ \E j \in DOMAIN result : result'[i] = result[j]
                                  \/ \E j \in DOMAIN lines : result'[i] = lines[j]
  <2>1. result \in Seq(Line(Blocks)) /\ lines \in Seq(Line(Blocks))
    BY <1>1, <1>6
  <2> DEFINE r == result \o lines
  <2>2. /\ r \in Seq(Line(Blocks))
        /\ \A i \in DOMAIN result : i \in DOMAIN r /\ r[i] = result[i]
        /\ \A i \in DOMAIN lines : Len(result) + i \in DOMAIN r /\ r[Len(result) + i] = lines[i]
        /\ \A i \in DOMAIN r : \/ \E j \in DOMAIN result : r[i] = result[j]
                               \/ \E j \in DOMAIN lines : r[i] = lines[j]
    BY <2>1, Concatenation
  <2>3. result' = r
    BY <1>3, <1>5
  <2> HIDE DEF r
  <2> QED  BY <2>2, <2>3
<1>8. order' \in Seq(Blocks) /\ Discovered' = Discovered \cup {b}
  <2>1. /\ order' \in Seq(Blocks) /\ DOMAIN order' = DOMAIN order \cup {Len(order) + 1}
        /\ \A i \in DOMAIN order : order'[i] = order[i]
        /\ order'[Len(order) + 1] = b
    BY <1>1, <1>3, <1>4
  <2>2. Discovered' = {order'[i] : i \in DOMAIN order'}
    BY DEF Discovered
  <2> QED  BY <2>1, <2>2 DEF Discovered
<1>9. ASSUME NEW c \in Discovered' \ {Exit}
      PROVE  Defines(result', c) # {}
  <2>1. CASE c \in Discovered
    <3>1. PICK i \in DOMAIN result : result[i] = [op |-> "label", label |-> c]
      BY <1>2, <1>9, <2>1 DEF Defines
    <3> QED  BY <1>7, <3>1 DEF Defines
  <2>2. CASE c = b
    <3>1. 1 \in DOMAIN lines /\ lines[1] = [op |-> "label", label |-> c]
      BY <1>6, <1>9, <2>2
    <3>2. /\ Len(result) + 1 \in DOMAIN result'
          /\ result'[Len(result) + 1] = [op |-> "label", label |-> c]
      BY <1>7, <3>1
    <3> QED  BY <3>2 DEF Defines
  <2> QED  BY <1>8, <2>1, <2>2
<1>10. ASSUME NEW i \in DOMAIN result', NEW l \in Mentioned(result'[i])
       PROVE  \E c \in Discovered' : l \in Successors(cfg, c)
  <2>1. CASE \E j \in DOMAIN result : result'[i] = result[j]
    BY <1>2, <1>8, <1>10, <2>1
  <2>2. CASE \E j \in DOMAIN lines : result'[i] = lines[j]
    BY <1>6, <1>8, <1>10, <2>2
  <2> QED  BY <1>7, <2>1, <2>2
<1>11. Discovered' \subseteq Present(cfg)
  BY <1>2, <1>4, <1>8
<1>12. ListInv'
  BY <1>1, <1>9, <1>10, <1>11 DEF ListInv
<1> QED  BY <1>7, <1>8, <1>12

(* When there is nothing left to discover, the successors of what was      *)
(* discovered are, and the label of the exit comes last.                   *)
LEMMA AddExitLabelLinked ==
  ASSUME Inv, AddExitLabel, Exit \in Present(cfg)
  PROVE  result' \in Seq(Line(Blocks)) /\ Linked(result')
<1>1. /\ pc = "linearize" /\ WellFormed(cfg)
      /\ order \in Seq(Blocks) /\ result \in Seq(Line(Blocks))
  BY DEF Inv, CFGInv, TypeInv, CFGTypeOK, AddExitLabel
<1>2. /\ \A b \in Discovered \ {Exit} : Defines(result, b) # {}
      /\ \A i \in DOMAIN result : \A l \in Mentioned(result[i]) :
           \E b \in Discovered : l \in Successors(cfg, b)
  BY <1>1 DEF Inv, ListInv
<1> DEFINE label == [op |-> "label", label |-> Exit]
<1>3. label \in Line(Blocks) /\ Mentioned(label) = {}
  BY BlocksAssumption DEF Line, Mentioned
<1>4. result' = Append(result, label)
  BY DEF AddExitLabel
<1>5. /\ result' \in Seq(Line(Blocks)) /\ DOMAIN result' = DOMAIN result \cup {Len(result) + 1}
      /\ \A i \in DOMAIN result : result'[i] = result[i]
      /\ result'[Len(result) + 1] = label
  <2> HIDE DEF label
  <2> QED  BY <1>1, <1>3, <1>4
<1>6. \A b \in Discovered : Successors(cfg, b) \subseteq Discovered
  <2> DEFINE open == {i \in DOMAIN order : Undiscovered(order[i]) # {}}
  <2>1. open = {}
    <3>1. SUFFICES ASSUME open # {} PROVE FALSE
      OBVIOUS
    <3>2. DOMAIN order = 1..Len(order) /\ Len(order) \in Nat /\ open \subseteq DOMAIN order
      BY <1>1
    <3>3. order # << >>
      BY <3>1, <3>2
    <3>4. \E i \in open : \A j \in open : j <= i
      <4> HIDE DEF open
      <4> QED  BY <3>1, <3>2, HasLast
    <3>5. PICK i \in open : Discoverable = Undiscovered(order[i])
      BY <3>1, <3>3, <3>4 DEF Discoverable
    <3> QED  BY <3>5 DEF AddExitLabel
  <2> QED  BY <2>1 DEF Discovered, Undiscovered
<1>7. ASSUME NEW i \in DOMAIN result', NEW l \in Mentioned(result'[i])
      PROVE  Defines(result', l) # {}
  <2>1. i \in DOMAIN result /\ l \in Mentioned(result[i])
    BY <1>3, <1>5, <1>7
  <2>2. l \in Discovered
    BY <1>2, <1>6, <2>1
  <2>3. CASE l = Exit
    BY <1>5, <2>3 DEF Defines
  <2>4. CASE l # Exit
    <3>1. PICK j \in DOMAIN result : result[j] = [op |-> "label", label |-> l]
      BY <1>2, <2>2, <2>4 DEF Defines
    <3> QED  BY <1>5, <3>1 DEF Defines
  <2> QED  BY <2>3, <2>4
<1> QED  BY <1>5, <1>7 DEF Linked

-----------------------------------------------------------------------------
Listing == {"linearize", "gotos", "labels", "run", "assertion failed"}
Editing == {"unreachable", "fold", "empty", "clean", "edited", "split"}

LEMMA SizeType == ASSUME NEW g \in Graph PROVE Size(g) \in Nat \X Nat
<1>1. IsFiniteSet(Present(g))
  BY BlocksAssumption, PresentBlocks, FS_Subset
<1>2. IsFiniteSet(g.edges)
  BY EdgeFinite, GraphParts, FS_Subset
<1> QED  BY <1>1, <1>2, FS_CardinalityType DEF Size

LEMMA InitTypes == Init => Inv
<1> SUFFICES ASSUME Init PROVE Inv
  OBVIOUS
<1>1. CFGInv
  BY InitInv
<1>2. pc = "build" /\ splitting = {} /\ order = << >> /\ result = << >>
  BY DEF Init
<1>3. source \in Seq(Line(Labels))
  BY SourcesAssumption DEF Init
<1>4. cfg \in Graph
  BY EmptyStatement DEF Init, Graph
<1>5. edits \in 0..MaxEdits /\ last \in Nat \X Nat
  BY EditsAssumption DEF Init
<1>6. ran \in Place /\ rerun \in Place
  BY DEF Init, Stores, Place, Spot
<1>7. TypeInv
  BY <1>2, <1>3, <1>4, <1>5, <1>6 DEF TypeInv, CFGTypeOK, Place
<1>8. ListInv
  BY <1>2 DEF ListInv
<1> QED  BY <1>1, <1>7, <1>8 DEF Inv

(* The steps on the graph. *)
LEMMA GraphStep ==
  ASSUME Inv, CFGInv', Build \/ Clean \/ Edits
  PROVE  Inv'
<1>1. /\ pc \notin Listing /\ pc' \in Editing
      /\ UNCHANGED <<source, order, result, ran, rerun>>
  BY DEF Build, Clean, Edits, RemoveUnreachableBlocks, FoldRedundantBranches, RemoveEmptyBlock,
         CleanAgain, RemoveStatement, DecideBranch, Edit, SplitBranch, SplitEdge, Listing, Editing
<1>2. CFGTypeOK /\ ran \in Place /\ rerun \in Place /\ ListInv
  BY DEF Inv, TypeInv
<1>3. cfg' \in Graph
  BY <1>1 DEF CFGInv, WellFormed, Editing
<1>4. edits' \in 0..MaxEdits
  <2>1. edits \in 0..MaxEdits /\ MaxEdits \in Nat
    BY <1>2, EditsAssumption DEF CFGTypeOK
  <2>2. edits' = edits \/ (edits < MaxEdits /\ edits' = edits + 1)
    BY DEF Build, Clean, Edits, RemoveUnreachableBlocks, FoldRedundantBranches, RemoveEmptyBlock,
           CleanAgain, RemoveStatement, DecideBranch, Edit, SplitBranch, SplitEdge
  <2> QED  BY <2>1, <2>2
<1>5. splitting' \subseteq Edge
  <2>1. \A b : Entering(cfg, b) \subseteq Edge
    BY <1>2, GraphParts DEF CFGTypeOK, Entering
  <2>2. \/ splitting' \subseteq splitting
        \/ \E b \in Blocks : splitting' = Entering(cfg, b)
    BY DEF Build, Clean, Edits, RemoveUnreachableBlocks, FoldRedundantBranches, RemoveEmptyBlock,
           CleanAgain, RemoveStatement, DecideBranch, Edit, SplitBranch, SplitEdge
  <2> QED  BY <1>2, <2>1, <2>2 DEF CFGTypeOK
<1>6. last' \in Nat \X Nat
  <2>1. last' = last \/ last' = Size(cfg)
    BY DEF Build, Clean, Edits, RemoveUnreachableBlocks, FoldRedundantBranches, RemoveEmptyBlock,
           CleanAgain, RemoveStatement, DecideBranch, Edit, SplitBranch, SplitEdge
  <2> QED  BY <1>2, <2>1, SizeType DEF CFGTypeOK
<1>7. TypeInv'
  BY <1>1, <1>2, <1>3, <1>4, <1>5, <1>6 DEF TypeInv, CFGTypeOK, Editing, Place
<1>8. ListInv'
  BY <1>1, <1>2 DEF ListInv, Listing, Editing
<1> QED  BY <1>7, <1>8 DEF Inv

(* The steps on the list.  They leave alone what the graph was made of. *)
LEMMA ListStep ==
  ASSUME Inv, CFGInv', StopEditing \/ Linearize
  PROVE  Inv'
<1>1. /\ UNCHANGED <<source, cfg, edits, splitting, last, ran, rerun>>
      /\ pc \in {"clean", "linearize", "gotos", "labels"} /\ pc' \in Listing
  BY DEF StopEditing, Linearize, Discover, AddExitLabel, DropGotos, DropLabels, Listing
<1>2. CFGTypeOK /\ ran \in Place /\ rerun \in Place /\ ListInv
  BY DEF Inv, TypeInv
<1>3. ASSUME order' \in Seq(Blocks), result' \in Seq(Line(Blocks)), ListInv'
      PROVE  Inv'
  <2>1. TypeInv'
    BY <1>1, <1>2, <1>3 DEF TypeInv, CFGTypeOK, Listing, Place
  <2> QED  BY <1>3, <2>1 DEF Inv
<1>4. CASE StopEditing
  <2>1. order = << >> /\ result = << >> /\ UNCHANGED <<order, result>> /\ pc' = "linearize"
    BY <1>2, <1>4 DEF StopEditing, ListInv
  <2>2. Discovered' = {} /\ DOMAIN result' = {}
    BY <2>1 DEF Discovered
  <2>3. ListInv'
    BY <2>1, <2>2 DEF ListInv
  <2>4. order' \in Seq(Blocks) /\ result' \in Seq(Line(Blocks))
    BY <1>2, <2>1 DEF CFGTypeOK
  <2> QED  BY <1>3, <2>3, <2>4
<1>5. CASE Discover
  BY <1>3, <1>5, DiscoverList
<1>6. CASE AddExitLabel
  <2>1. order' = order /\ order \in Seq(Blocks) /\ result \in Seq(Line(Blocks))
    BY <1>2, <1>6 DEF AddExitLabel, CFGTypeOK
  <2>2. CASE Exit \in Present(cfg)
    <3>1. pc' = "gotos" /\ result' \in Seq(Line(Blocks)) /\ Linked(result')
      BY <1>6, <2>2, AddExitLabelLinked DEF AddExitLabel
    <3>2. ListInv'
      BY <3>1 DEF ListInv
    <3> QED  BY <1>3, <2>1, <3>1, <3>2
  <2>3. CASE Exit \notin Present(cfg)
    <3>1. pc' = "assertion failed" /\ result' = result
      BY <1>6, <2>3 DEF AddExitLabel
    <3>2. ListInv'
      BY <3>1 DEF ListInv
    <3> QED  BY <1>3, <2>1, <3>1, <3>2
  <2> QED  BY <2>2, <2>3
<1>7. CASE DropGotos
  <2>1. /\ order' = order /\ order \in Seq(Blocks) /\ result \in Seq(Line(Blocks))
        /\ pc' = "labels" /\ Linked(result)
    BY <1>2, <1>7 DEF DropGotos, CFGTypeOK, ListInv
  <2>2. result' = Keeping(result, {i \in DOMAIN result : ~FallsThrough(result, i)})
    BY <1>7 DEF DropGotos
  <2>3. result' \in Seq(Line(Blocks)) /\ Linked(result')
    BY <2>1, <2>2, DropGotosLinked
  <2>4. ListInv'
    BY <2>1, <2>3 DEF ListInv
  <2> QED  BY <1>3, <2>1, <2>3, <2>4
<1>8. CASE DropLabels
  <2>1. /\ order' = order /\ order \in Seq(Blocks) /\ result \in Seq(Line(Blocks))
        /\ pc' = "run" /\ Linked(result)
    BY <1>2, <1>8 DEF DropLabels, CFGTypeOK, ListInv
  <2>2. result' = Keeping(result, {i \in DOMAIN result : ~Unused(result, i)})
    BY <1>8 DEF DropLabels
  <2>3. result' \in Seq(Line(Blocks)) /\ Linked(result')
    BY <2>1, <2>2, DropLabelsLinked
  <2>4. ListInv'
    BY <2>1, <2>3 DEF ListInv
  <2> QED  BY <1>3, <2>1, <2>3, <2>4
<1> QED  BY <1>4, <1>5, <1>6, <1>7, <1>8 DEF Linearize

(* The runs find a line, or the end, wherever they go. *)
LEMMA RunStep ==
  ASSUME Inv, CFGInv', Run
  PROVE  Inv'
<1>1. /\ UNCHANGED <<source, cfg, edits, splitting, last, order, result, pc>> /\ pc = "run"
  BY DEF Run, RunSource, RunResult, RunBoth
<1>2. /\ CFGTypeOK /\ ListInv /\ source \in Sources
      /\ ran \in Place /\ rerun \in Place
  BY DEF Inv, TypeInv, CFGInv
<1>3. /\ source \in Seq(Line(Labels)) /\ Linked(source)
      /\ result \in Seq(Line(Blocks)) /\ Linked(result)
  BY <1>1, <1>2, SourceLinked DEF CFGTypeOK, ListInv
<1>4. ASSUME NEW Ls, NEW code \in Seq(Line(Ls)), Linked(code), NEW p \in Place,
             ~Heard(code, p) \/ ~Ended(code, p)
      PROVE  Executed(code, p) \in Place
  <2>1. p.at \in Nat /\ p.at # 0
    BY DEF Place, Spot
  <2>2. p.at \in DOMAIN code
    BY <1>4, <2>1 DEF Heard, Ended
  <2> QED  BY <1>4, <2>2, ExecutedPlace
<1>5. ran' \in Place
  <2>1. CASE ran' = ran
    BY <1>2, <2>1
  <2>2. CASE ran' = Executed(source, ran) /\ (~Heard(source, ran) \/ ~Ended(source, ran))
    BY <1>2, <1>3, <1>4, <2>2
  <2> QED  BY <2>1, <2>2 DEF Run, RunSource, RunResult, RunBoth
<1>6. rerun' \in Place
  <2>1. CASE rerun' = rerun
    BY <1>2, <2>1
  <2>2. CASE rerun' = Executed(result, rerun) /\ (~Heard(result, rerun) \/ ~Ended(result, rerun))
    BY <1>2, <1>3, <1>4, <2>2
  <2> QED  BY <2>1, <2>2 DEF Run, RunSource, RunResult, RunBoth
<1>7. TypeInv'
  BY <1>1, <1>2, <1>5, <1>6 DEF TypeInv, CFGTypeOK, Place
<1>8. ListInv'
  BY <1>1, <1>2 DEF ListInv
<1> QED  BY <1>7, <1>8 DEF Inv

LEMMA InvInductive == Spec => []Inv
<1>1. Inv /\ CFGInv' /\ [Next]_vars => Inv'
  <2> SUFFICES ASSUME Inv, CFGInv', [Next]_vars PROVE Inv'
    OBVIOUS
  <2>1. CASE Next
    BY <2>1, GraphStep, ListStep, RunStep DEF Next
  <2>2. CASE UNCHANGED vars
    BY <2>2 DEF vars, Inv, TypeInv, CFGTypeOK, ListInv, Discovered
  <2> QED  BY <2>1, <2>2
<1> QED  BY <1>1, InitTypes, Inductive, PTL DEF Spec

(* The graph and the lists are of the shape the code relies on, whatever   *)
(* the method and the edits.                                               *)
THEOREM TypeCorrect == Spec => []CFGTypeOK
<1>1. Inv => CFGTypeOK
  BY DEF Inv, TypeInv
<1> QED  BY <1>1, InvInductive, PTL

(* get_linear_statements drops gotos and labels, and yet each goto and each *)
(* branch of the list it gives back has its label in the list.             *)
LabelsThere == pc = "run" => Linked(result)

THEOREM NoDanglingGoto == Spec => []LabelsThere
<1>1. Inv => LabelsThere
  BY DEF Inv, ListInv, LabelsThere
<1> QED  BY <1>1, InvInductive, PTL

-----------------------------------------------------------------------------
(* What a run of the source from p is heard of next: one place, or none if *)
(* it never is.                                                            *)
Hearings(code, p) ==
  {h \in Spot : /\ Heard(code, h)
                /\ \A S \in SUBSET Spot :
                     /\ p \in S
                     /\ \A x \in S : ~Heard(code, x) => Executed(code, x) \in S
                     => h \in S}

LEMMA HearingsHeard ==
  ASSUME NEW code, NEW p \in Spot, Heard(code, p)
  PROVE  Hearings(code, p) = {p}
<1>1. p \in Hearings(code, p)
  BY DEF Hearings
<1>2. ASSUME NEW h \in Hearings(code, p)
      PROVE  h = p
  <2>1. /\ {p} \in SUBSET Spot /\ p \in {p}
        /\ \A x \in {p} : ~Heard(code, x) => Executed(code, x) \in {p}
    OBVIOUS
  <2>2. h \in {p}
    BY <2>1 DEF Hearings
  <2> QED  BY <2>2
<1> QED  BY <1>1, <1>2

LEMMA HearingsSilent ==
  ASSUME NEW code, NEW p \in Spot, ~Heard(code, p)
  PROVE  Hearings(code, p) = Hearings(code, Executed(code, p))
<1>1. ASSUME NEW h \in Hearings(code, Executed(code, p))
      PROVE  h \in Hearings(code, p)
  <2>1. ASSUME NEW S \in SUBSET Spot, p \in S,
               \A x \in S : ~Heard(code, x) => Executed(code, x) \in S
        PROVE  h \in S
    BY <2>1 DEF Hearings
  <2> QED  BY <2>1 DEF Hearings
<1>2. ASSUME NEW h \in Hearings(code, p)
      PROVE  h \in Hearings(code, Executed(code, p))
  <2>1. ASSUME NEW S \in SUBSET Spot, Executed(code, p) \in S,
               \A x \in S : ~Heard(code, x) => Executed(code, x) \in S
        PROVE  h \in S
    <3>1. /\ S \cup {p} \in SUBSET Spot /\ p \in S \cup {p}
          /\ \A x \in S \cup {p} : ~Heard(code, x) => Executed(code, x) \in S \cup {p}
      BY <2>1
    <3>2. h \in S \cup {p} /\ Heard(code, h)
      BY <3>1 DEF Hearings
    <3> QED  BY <3>2
  <2>2. h \in Spot /\ Heard(code, h)
    BY DEF Hearings
  <2> QED  BY <2>1, <2>2 DEF Hearings
<1> QED  BY <1>1, <1>2

(* R leads from what a run of the source is next heard of to the places a  *)
(* run of the graph may be in then, from each of which it is heard too.    *)
GraphSpot == [at : Blocks, store : Stores]

Agrees(code, h, g, q) ==
  /\ Ended(code, h) <=> q.at = Exit
  /\ Shown(code, h) = IF q.at = Exit THEN q.store ELSE q.store[g.stmt[q.at].rhs]

Advances(code, g, R, h, q) ==
  /\ ~IsHeard(g, q) => <<h, After(g, q)>> \in R
  /\ IsHeard(g, q) => Agrees(code, h, g, q)
  /\ IsHeard(g, q) /\ q.at # Exit =>
       \A k \in Hearings(code, Executed(code, h)) : <<k, After(g, q)>> \in R

Starts(code, b, R) ==
  \A s \in Stores : \A h \in Hearings(code, [at |-> 1, store |-> s]) :
    <<h, [at |-> b, store |-> s]>> \in R

(* From where a run of g is heard after finitely many steps: the places in *)
(* every set that has those where one is heard and those a step before     *)
(* another of it.                                                          *)
HeardFrom(g) ==
  {q \in GraphSpot : \A S \in SUBSET GraphSpot :
     (\A p \in GraphSpot : IsHeard(g, p) \/ After(g, p) \in S => p \in S) => q \in S}

LEMMA HeardFromClosed ==
  ASSUME NEW g, NEW p \in GraphSpot, IsHeard(g, p) \/ After(g, p) \in HeardFrom(g)
  PROVE  p \in HeardFrom(g)
BY DEF HeardFrom

LEMMA HeardFromLeast ==
  ASSUME NEW g, NEW S \in SUBSET GraphSpot,
         \A p \in GraphSpot : IsHeard(g, p) \/ After(g, p) \in S => p \in S
  PROVE  HeardFrom(g) \subseteq S
BY DEF HeardFrom

Follows(code, g, R) ==
  /\ R \subseteq Spot \X GraphSpot
  /\ Starts(code, Entry, R)
  /\ \A h \in Spot, q \in GraphSpot : <<h, q>> \in R => Advances(code, g, R, h, q)
  /\ \A h, q : <<h, q>> \in R => q \in HeardFrom(g)

(* A run of a graph that is well formed always knows where to go. *)
LEMMA OneTaken ==
  ASSUME NEW g, WellFormed(g), NEW q \in GraphSpot, q.at \in Present(g), q.at # Exit
  PROVE  \E e \in Leaving(g, q.at) :
           /\ Taken(g, q) = {e}
           /\ After(g, q) = [at |-> e.target, store |-> Effect(g.stmt[q.at], q.store)]
<1>1. \E e \in Leaving(g, q.at) : Taken(g, q) = {e}
  <2>1. CASE IsBranch(g, q.at)
    <3>1. PICK e, f \in Leaving(g, q.at) :
            Leaving(g, q.at) = {e, f} /\ e.direction = "true" /\ f.direction = "false"
      BY <2>1 DEF WellFormed, Ways, TwoWays, GraphSpot
    <3>2. CASE q.store[g.stmt[q.at].rhs]
      <4>1. Taken(g, q) = {e}
        BY <2>1, <3>1, <3>2 DEF Taken
      <4> QED  BY <4>1
    <3>3. CASE ~q.store[g.stmt[q.at].rhs]
      <4>1. Taken(g, q) = {f}
        BY <2>1, <3>1, <3>3 DEF Taken
      <4> QED  BY <4>1
    <3> QED  BY <3>2, <3>3
  <2>2. CASE ~IsBranch(g, q.at)
    <3>1. PICK e \in Leaving(g, q.at) : Leaving(g, q.at) = {e}
      BY <2>2 DEF WellFormed, Ways, OneWay
    <3>2. Taken(g, q) = {e}
      BY <2>2, <3>1 DEF Taken
    <3> QED  BY <3>2
  <2> QED  BY <2>1, <2>2
<1> QED  BY <1>1 DEF After

(* The places in S are enough when no run leaves them. *)
LEMMA Restricted ==
  ASSUME NEW code, NEW g, NEW R, Follows(code, g, R), NEW S, Entry \in S,
         \A q \in GraphSpot : q.at \in S /\ q.at # Exit => After(g, q).at \in S
  PROVE  Follows(code, g, {r \in R : r[2].at \in S})
<1> DEFINE T == {r \in R : r[2].at \in S}
<1>1. T \subseteq Spot \X GraphSpot
  BY DEF Follows
<1>2. Starts(code, Entry, T)
  BY DEF Follows, Starts
<1>3. ASSUME NEW h \in Spot, NEW q \in GraphSpot, <<h, q>> \in T
      PROVE  Advances(code, g, T, h, q)
  <2>1. <<h, q>> \in R /\ q.at \in S
    BY <1>3
  <2>2. Advances(code, g, R, h, q)
    BY <2>1 DEF Follows
  <2>3. q.at # Exit => After(g, q).at \in S
    BY <2>1
  <2>4. \A k : <<k, After(g, q)>> \in R /\ After(g, q).at \in S => <<k, After(g, q)>> \in T
    OBVIOUS
  <2>5. ~IsHeard(g, q) => q.at # Exit
    BY DEF IsHeard
  <2> HIDE DEF T
  <2> QED  BY <2>2, <2>3, <2>4, <2>5 DEF Advances
<1>4. \A h, q : <<h, q>> \in T => q \in HeardFrom(g)
  BY DEF Follows
<1> QED  BY <1>1, <1>2, <1>3, <1>4 DEF Follows

LEMMA RestrictedToPresent ==
  ASSUME NEW code, NEW g, WellFormed(g), NEW R, Follows(code, g, R)
  PROVE  \E T : Follows(code, g, T) /\ \A r \in T : r[2].at \in Present(g)
<1>1. \A q \in GraphSpot : q.at \in Present(g) /\ q.at # Exit => After(g, q).at \in Present(g)
  BY OneTaken, PresentBlocks DEF WellFormed, Leaving
<1>2. Entry \in Present(g)
  BY PresentBlocks DEF WellFormed
<1> DEFINE T == {r \in R : r[2].at \in Present(g)}
<1>3. Follows(code, g, T)
  BY <1>1, <1>2, Restricted
<1> QED  BY <1>3

(* A graph whose blocks do the same is followed in the same way. *)
LEMMA SameSteps ==
  ASSUME NEW code, NEW g, NEW R, Follows(code, g, R), NEW f,
         \A r \in R : /\ IsHeard(f, r[2]) <=> IsHeard(g, r[2])
                      /\ r[2].at # Exit /\ IsHeard(g, r[2]) => f.stmt[r[2].at] = g.stmt[r[2].at]
                      /\ r[2].at # Exit => After(f, r[2]) = After(g, r[2])
  PROVE  Follows(code, f, R)
<1>1. ASSUME NEW h \in Spot, NEW q \in GraphSpot, <<h, q>> \in R
      PROVE  Advances(code, f, R, h, q)
  <2>1. Advances(code, g, R, h, q)
    BY <1>1 DEF Follows
  <2>2. /\ IsHeard(f, q) <=> IsHeard(g, q)
        /\ q.at # Exit /\ IsHeard(g, q) => f.stmt[q.at] = g.stmt[q.at]
        /\ q.at # Exit => After(f, q) = After(g, q)
    <3>1. <<h, q>>[2] = q
      OBVIOUS
    <3> QED  BY <1>1, <3>1
  <2>3. ~IsHeard(g, q) => q.at # Exit
    BY DEF IsHeard
  <2>4. IsHeard(g, q) /\ Agrees(code, h, g, q) => Agrees(code, h, f, q)
    BY <2>2 DEF Agrees
  <2> QED  BY <2>1, <2>2, <2>3, <2>4 DEF Advances
<1>2. PICK S : S = {q \in GraphSpot : \A h : <<h, q>> \in R => q \in HeardFrom(f)}
  OBVIOUS
<1>3. ASSUME NEW q \in GraphSpot, IsHeard(g, q) \/ After(g, q) \in S
      PROVE  q \in S
  <2>1. ASSUME NEW h, <<h, q>> \in R
        PROVE  q \in HeardFrom(f)
    <3>1. <<h, q>>[1] = h /\ <<h, q>>[2] = q
      OBVIOUS
    <3>2. h \in Spot /\ Advances(code, g, R, h, q)
      BY <2>1 DEF Follows
    <3>3. CASE IsHeard(g, q)
      BY <2>1, <3>1, <3>3, HeardFromClosed
    <3>4. CASE ~IsHeard(g, q)
      <4>1. After(g, q) \in HeardFrom(f)
        BY <1>2, <1>3, <3>2, <3>4 DEF Advances
      <4>2. After(f, q) = After(g, q)
        BY <2>1, <3>1, <3>4 DEF IsHeard
      <4> QED  BY <4>1, <4>2, HeardFromClosed
    <3> QED  BY <3>3, <3>4
  <2> QED  BY <1>2, <2>1
<1>4. HeardFrom(g) \subseteq S
  <2>1. S \in SUBSET GraphSpot
    BY <1>2
  <2> QED  BY <1>3, <2>1, HeardFromLeast
<1>5. \A h, q : <<h, q>> \in R => q \in HeardFrom(f)
  BY <1>2, <1>4 DEF Follows
<1> QED  BY <1>1, <1>5 DEF Follows

-----------------------------------------------------------------------------
LEMMA EffectOfNone ==
  ASSUME NEW line, NEW s, line.op \notin {"set", "copy", "not", "may"}
  PROVE  Effect(line, s) = s
  BY DEF Effect

(* What a statement does to values that are known. *)
LEMMA EffectKeepsKnown ==
  ASSUME NEW line, NEW s \in Stores, Effect(line, s) \in [Vars -> BOOLEAN],
         line.op \in {"set", "copy", "not", "may"} => line.lhs \notin Known
  PROVE  Effect(line, s) \in Stores
<1>1. s \in [Vars -> BOOLEAN] /\ \A x \in Known : s[x] = KnownValue[x]
  BY DEF Stores
<1>2. \A x \in Known : Effect(line, s)[x] = s[x]
  <2>1. CASE line.op \in {"set", "copy", "not", "may"}
    <3>1. PICK v : Effect(line, s) = [s EXCEPT ![line.lhs] = v]
      <4>1. CASE line.op = "set"
        BY <4>1 DEF Effect
      <4>2. CASE line.op = "copy"
        BY <4>2 DEF Effect
      <4>3. CASE line.op = "not"
        BY <4>3 DEF Effect
      <4>4. CASE line.op = "may"
        BY <4>4 DEF Effect
      <4> QED  BY <2>1, <4>1, <4>2, <4>3, <4>4
    <3> QED  BY <1>1, <2>1, <3>1
  <2>2. CASE line.op \notin {"set", "copy", "not", "may"}
    BY <2>2 DEF Effect
  <2> QED  BY <2>1, <2>2
<1> QED  BY <1>1, <1>2 DEF Stores

(* add_statements: a block stands for its line, the exit for the end. *)
LineOf(code, q) ==
  [at |-> IF q.at = Entry THEN 1 ELSE IF q.at = Exit THEN Len(code) + 1 ELSE q.at,
   store |-> q.store]

(* The edge a run takes out of a line leads to the line it goes on with. *)
LEMMA BuiltStep ==
  ASSUME NEW code \in Sources, NEW q \in GraphSpot, q.at \in DOMAIN code
  PROVE  /\ After(GraphOf(code), q) \in GraphSpot
         /\ After(GraphOf(code), q).at \in DOMAIN code \cup {Exit}
         /\ LineOf(code, After(GraphOf(code), q)) = Executed(code, q)
<1> DEFINE g == GraphOf(code)
           i == q.at
           s == q.store
           line == code[i]
           To(t, d) == [source |-> i, target |-> t, direction |-> d]
<1>1. /\ i \in Blocks /\ i # Entry /\ i # Exit /\ line \in Line(Labels) /\ s \in [Vars -> BOOLEAN]
      /\ s \in Stores /\ Len(code) \in Nat /\ i \in 1..Len(code) /\ DOMAIN code = 1..Len(code)
  BY SourceLines DEF GraphSpot, Stores
<1>2. g.stmt[i] = BlockOf(line) /\ (IsBranch(g, i) <=> line.op = "if")
  <2>1. g.stmt[i] = BlockOf(line)
    BY <1>1 DEF GraphOf
  <2> QED  BY <1>1, <2>1, BlockOfLine DEF IsBranch
<1>3. Leaving(g, i) = EdgesOf(code, i)
  <2>1. \A j \in DOMAIN code : \A e \in EdgesOf(code, j) : e.source = j
    BY EdgesOfLine
  <2>2. g.edges = CodeEdges(code) \cup {FirstEdge(code)} /\ FirstEdge(code).source = Entry
    BY DEF GraphOf, FirstEdge
  <2>3. \A e : e \in CodeEdges(code) <=> \E j \in DOMAIN code : e \in EdgesOf(code, j)
    BY DEF CodeEdges
  <2> QED  BY <1>1, <2>1, <2>2, <2>3 DEF Leaving
<1>4. Effect(BlockOf(line), s) = Effect(line, s) /\ Effect(line, s) \in Stores
  <2>1. Effect(line, s) \in [Vars -> BOOLEAN]
    BY <1>1, EffectType
  <2>2. line.op \in {"set", "copy", "not", "may"} => line.lhs \notin Known
    BY SourcesAssumption
  <2>3. Effect(line, s) \in Stores
    BY <1>1, <2>1, <2>2, EffectKeepsKnown
  <2>4. CASE line.op \in {"label", "goto"}
    <3>1. BlockOf(line) = Empty
      BY <2>4 DEF BlockOf
    <3> QED  BY <2>3, <2>4, <3>1, EffectOfNone, EmptyStatement
  <2>5. CASE line.op = "if"
    <3>1. BlockOf(line).op = "branch"
      BY <2>5 DEF BlockOf
    <3> QED  BY <2>3, <2>5, <3>1, EffectOfNone
  <2>6. CASE line.op \notin {"label", "goto", "if"}
    <3>1. BlockOf(line) = line
      BY <2>6 DEF BlockOf
    <3> QED  BY <2>3, <3>1
  <2> QED  BY <2>3, <2>4, <2>5, <2>6
<1>5. \A l \in Mentioned(line) : Position(code, l) \in DOMAIN code
  BY <1>1, PositionInCode
<1> HIDE DEF g
<1>6. ASSUME NEW t \in DOMAIN code \cup {Exit}, NEW d, Taken(g, q) = {To(t, d)}
      PROVE  After(g, q) = [at |-> t, store |-> Effect(line, s)]
  <2>1. To(t, d).target = t
    OBVIOUS
  <2> HIDE DEF To
  <2>2. (CHOOSE e \in Taken(g, q) : TRUE).target = t
    BY <1>6, <2>1
  <2> QED  BY <1>2, <1>4, <2>2 DEF After
<1>7. ASSUME NEW t \in DOMAIN code \cup {Exit}, After(g, q) = [at |-> t, store |-> Effect(line, s)],
             Executed(code, q).at = IF t = Exit THEN Len(code) + 1 ELSE t
      PROVE  /\ After(g, q) \in GraphSpot /\ After(g, q).at \in DOMAIN code \cup {Exit}
             /\ LineOf(code, After(g, q)) = Executed(code, q)
  <2>1. t \in Blocks /\ t # Entry
    BY <1>7, SourceLines, BlocksAssumption
  <2>2. Executed(code, q) = [at |-> Executed(code, q).at, store |-> Effect(line, s)]
    BY DEF Executed
  <2> QED  BY <1>4, <1>7, <2>1, <2>2 DEF GraphSpot, LineOf
<1>8. CASE line.op = "goto"
  <2>1. PICK t : t = Position(code, line.label)
    OBVIOUS
  <2>2. t \in DOMAIN code /\ t # Exit
    BY <1>5, <1>8, <2>1, SourceLines DEF Mentioned
  <2>3. Taken(g, q) = {To(t, "none")}
    BY <1>2, <1>3, <1>8, <2>1 DEF EdgesOf, Taken
  <2>4. Executed(code, q).at = t
    BY <1>8, <2>1 DEF Executed
  <2> QED  BY <1>6, <1>7, <2>2, <2>3, <2>4 DEF g
<1>9. CASE line.op = "if"
  <2>1. PICK t, d : IF s[line.rhs] THEN t = Position(code, line.iftrue) /\ d = "true"
                                   ELSE t = Position(code, line.iffalse) /\ d = "false"
    OBVIOUS
  <2>2. t \in DOMAIN code /\ t # Exit
    BY <1>5, <1>9, <2>1, SourceLines DEF Mentioned
  <2>3. Taken(g, q) = {To(t, d)}
    <3>1. EdgesOf(code, i) = {To(Position(code, line.iftrue), "true"),
                              To(Position(code, line.iffalse), "false")}
      BY <1>9 DEF EdgesOf
    <3>2. g.stmt[i].rhs = line.rhs
      BY <1>2, <1>9 DEF BlockOf
    <3> QED  BY <1>2, <1>3, <1>9, <2>1, <3>1, <3>2 DEF Taken
  <2>4. Executed(code, q).at = t
    BY <1>9, <2>1 DEF Executed
  <2> QED  BY <1>6, <1>7, <2>2, <2>3, <2>4 DEF g
<1>10. CASE line.op = "return"
  <2>1. Taken(g, q) = {To(Exit, "none")}
    BY <1>2, <1>3, <1>10 DEF EdgesOf, Taken
  <2>2. Executed(code, q).at = Len(code) + 1
    BY <1>10 DEF Executed
  <2> QED  BY <1>6, <1>7, <2>1, <2>2 DEF g
<1>11. CASE line.op \notin {"goto", "if", "return"}
  <2>1. PICK t : t = NextLine(code, i)
    OBVIOUS
  <2>2. t \in DOMAIN code \cup {Exit}
    BY <1>1, <2>1, NextLineBlock
  <2>3. Taken(g, q) = {To(t, "none")}
    BY <1>2, <1>3, <1>11, <2>1 DEF EdgesOf, Taken
  <2>4. Executed(code, q).at = i + 1
    BY <1>11 DEF Executed
  <2>5. i + 1 = IF t = Exit THEN Len(code) + 1 ELSE t
    <3>1. CASE i < Len(code)
      <4>1. t = i + 1 /\ t \in DOMAIN code
        BY <1>1, <2>1, <3>1 DEF NextLine
      <4> QED  BY <4>1, SourceLines
    <3>2. CASE ~(i < Len(code))
      BY <1>1, <2>1, <3>2 DEF NextLine
    <3> QED  BY <3>1, <3>2
  <2> QED  BY <1>6, <1>7, <2>2, <2>3, <2>4, <2>5 DEF g
<1> QED  BY <1>8, <1>9, <1>10, <1>11 DEF g

(* The entry leads to the first line. *)
LEMMA BuiltFirst ==
  ASSUME NEW code \in Sources, NEW q \in GraphSpot, q.at = Entry
  PROVE  /\ After(GraphOf(code), q) \in GraphSpot /\ ~IsHeard(GraphOf(code), q)
         /\ After(GraphOf(code), q).at \in DOMAIN code \cup {Exit}
         /\ LineOf(code, After(GraphOf(code), q)) = LineOf(code, q)
<1> DEFINE g == GraphOf(code)
<1>1. /\ DOMAIN code = 1..Len(code) /\ Len(code) \in Nat /\ Entry # Exit
      /\ Entry \notin DOMAIN code /\ Exit \notin DOMAIN code
  BY SourceLines, BlocksAssumption
<1>2. g.stmt[q.at] = Empty /\ ~IsBranch(g, q.at)
  BY <1>1, BlocksAssumption DEF GraphOf, Empty, IsBranch
<1>3. Leaving(g, q.at) = {FirstEdge(code)}
  <2>1. \A j \in DOMAIN code : \A e \in EdgesOf(code, j) : e.source = j
    BY EdgesOfLine
  <2>2. g.edges = CodeEdges(code) \cup {FirstEdge(code)} /\ FirstEdge(code).source = Entry
    BY DEF GraphOf, FirstEdge
  <2>3. \A e : e \in CodeEdges(code) <=> \E j \in DOMAIN code : e \in EdgesOf(code, j)
    BY DEF CodeEdges
  <2> QED  BY <1>1, <2>1, <2>2, <2>3 DEF Leaving
<1>4. Taken(g, q) = {FirstEdge(code)}
  BY <1>2, <1>3 DEF Taken
<1>5. After(g, q) = [at |-> IF code = << >> THEN Exit ELSE 1, store |-> q.store]
  <2>1. (CHOOSE e \in Taken(g, q) : TRUE).target = IF code = << >> THEN Exit ELSE 1
    <3>1. FirstEdge(code).target = IF code = << >> THEN Exit ELSE 1
      BY DEF FirstEdge
    <3> QED  BY <1>4, <3>1
  <2>2. Effect(g.stmt[q.at], q.store) = q.store
    BY <1>2 DEF Effect, Empty
  <2> QED  BY <2>1, <2>2 DEF After
<1>6. code # << >> => 1 \in DOMAIN code
  <2>1. code \in Seq(Line(Labels))
    BY SourcesAssumption
  <2> QED  BY <2>1
<1>7. After(g, q) \in GraphSpot /\ After(g, q).at \in DOMAIN code \cup {Exit}
  <2>1. DOMAIN code \subseteq Blocks /\ Exit \in Blocks
    BY SourceLines, BlocksAssumption
  <2> QED  BY <1>5, <1>6, <2>1 DEF GraphSpot
<1>8. LineOf(code, After(g, q)) = LineOf(code, q)
  <2>1. CASE code = << >>
    <3>1. Len(code) + 1 = 1
      BY <2>1
    <3> QED  BY <1>1, <1>5, <2>1, <3>1 DEF LineOf
  <2>2. CASE code # << >>
    BY <1>1, <1>5, <1>6, <2>2 DEF LineOf
  <2> QED  BY <2>1, <2>2
<1>9. ~IsHeard(g, q)
  BY <1>1, <1>2 DEF IsHeard, Empty
<1> QED  BY <1>7, <1>8, <1>9

(* A block is heard where its line is. *)
LEMMA BuiltHeard ==
  ASSUME NEW code \in Sources, NEW q \in GraphSpot, q.at \in DOMAIN code
  PROVE  /\ LineOf(code, q) = q /\ q.at # Exit
         /\ IsHeard(GraphOf(code), q) <=> Heard(code, q)
         /\ Heard(code, q) => GraphOf(code).stmt[q.at] = code[q.at]
<1> DEFINE g == GraphOf(code)
<1>1. q.at # Entry /\ q.at # Exit
  BY SourceLines, BlocksAssumption
<1>2. LineOf(code, q) = q
  <2>1. q = [at |-> q.at, store |-> q.store]
    BY DEF GraphSpot
  <2> QED  BY <1>1, <2>1 DEF LineOf
<1>3. g.stmt[q.at] = BlockOf(code[q.at])
  BY SourceLines DEF GraphOf
<1>4. /\ g.stmt[q.at].op = "print" <=> code[q.at].op = "print"
      /\ code[q.at].op = "print" => g.stmt[q.at] = code[q.at]
  <2>1. CASE code[q.at].op \in {"label", "goto", "if"}
    BY <1>3, <2>1 DEF BlockOf, Empty
  <2>2. CASE code[q.at].op \notin {"label", "goto", "if"}
    BY <1>3, <2>2 DEF BlockOf
  <2> QED  BY <2>1, <2>2
<1> QED  BY <1>1, <1>2, <1>4 DEF IsHeard, Heard

(* Where the source is heard of next, the graph is heard after finitely    *)
(* many steps: a run of it that is not keeps the run of the source from    *)
(* being heard.                                                            *)
LEMMA BuiltAnswers ==
  ASSUME NEW code \in Sources, NEW q \in GraphSpot, q.at \in DOMAIN code \cup {Entry, Exit},
         NEW h \in Hearings(code, LineOf(code, q))
  PROVE  q \in HeardFrom(GraphOf(code))
<1> DEFINE g == GraphOf(code)
<1>1. PICK A : A = HeardFrom(g)
  OBVIOUS
<1>2. \A p \in GraphSpot : IsHeard(g, p) \/ After(g, p) \in A => p \in A
  BY <1>1, HeardFromClosed
<1>3. PICK U : U = {p \in GraphSpot : p.at \in DOMAIN code \cup {Exit} /\ p \notin A}
  OBVIOUS
<1>4. ASSUME NEW p \in U
      PROVE  p \in GraphSpot /\ p.at \in DOMAIN code /\ LineOf(code, p) = p
  <2>1. p.at # Exit
    BY <1>2, <1>3 DEF IsHeard
  <2> QED  BY <1>3, <2>1, BuiltHeard
<1>5. U \in SUBSET Spot
  <2>1. ASSUME NEW p \in U
        PROVE  p \in Spot
    BY <1>4, SourceLines DEF GraphSpot, Spot, Stores
  <2> QED  BY <2>1
<1>6. ASSUME NEW p \in U
      PROVE  ~Heard(code, p) /\ Executed(code, p) \in U
  <2>1. ~Heard(code, p)
    BY <1>2, <1>3, <1>4, BuiltHeard
  <2>2. /\ After(g, p) \in GraphSpot /\ After(g, p).at \in DOMAIN code \cup {Exit}
        /\ LineOf(code, After(g, p)) = Executed(code, p)
    BY <1>4, BuiltStep
  <2>3. After(g, p) \in U
    BY <1>2, <1>3, <2>2
  <2> QED  BY <1>4, <2>1, <2>2, <2>3
<1>7. U = {} \/ LineOf(code, q) \notin U
  <2>1. ASSUME LineOf(code, q) \in U PROVE FALSE
    <3>1. h \in U /\ Heard(code, h)
      BY <1>5, <1>6, <2>1 DEF Hearings
    <3> QED  BY <1>6, <3>1
  <2> QED  BY <2>1
<1>8. ASSUME NEW p \in GraphSpot, p.at \in DOMAIN code \cup {Exit},
             LineOf(code, p) = LineOf(code, q)
      PROVE  p \in A
  <2>1. ASSUME p \notin A PROVE FALSE
    <3>1. p \in U
      BY <1>3, <1>8, <2>1
    <3> QED  BY <1>4, <1>7, <1>8, <3>1
  <2> QED  BY <2>1
<1>9. CASE q.at = Entry
  BY <1>1, <1>2, <1>8, <1>9, BuiltFirst
<1>10. CASE q.at # Entry
  BY <1>1, <1>8, <1>10
<1> QED  BY <1>9, <1>10

LEMMA BuiltFollows ==
  ASSUME NEW code \in Sources
  PROVE  \E R : Follows(code, GraphOf(code), R)
<1> DEFINE g == GraphOf(code)
           R == {r \in Spot \X GraphSpot : /\ r[2].at \in DOMAIN code \cup {Entry, Exit}
                                           /\ r[1] \in Hearings(code, LineOf(code, r[2]))}
<1>1. /\ DOMAIN code = 1..Len(code) /\ Len(code) \in Nat /\ Entry # Exit
      /\ Entry \notin DOMAIN code /\ Exit \notin DOMAIN code
  BY SourceLines, BlocksAssumption
<1>2. \A h, q : <<h, q>> \in R <=> /\ h \in Spot /\ q \in GraphSpot
                                   /\ q.at \in DOMAIN code \cup {Entry, Exit}
                                   /\ h \in Hearings(code, LineOf(code, q))
  OBVIOUS
<1>3. R \subseteq Spot \X GraphSpot
  OBVIOUS
<1> HIDE DEF R
<1>4. \A p : Hearings(code, p) \subseteq Spot
  BY DEF Hearings
<1>5. Starts(code, Entry, R)
  <2>1. ASSUME NEW s \in Stores, NEW h \in Hearings(code, [at |-> 1, store |-> s])
        PROVE  <<h, [at |-> Entry, store |-> s]>> \in R
    <3>1. LineOf(code, [at |-> Entry, store |-> s]) = [at |-> 1, store |-> s]
      BY DEF LineOf
    <3>2. [at |-> Entry, store |-> s] \in GraphSpot
      BY BlocksAssumption DEF GraphSpot
    <3> QED  BY <1>2, <1>4, <2>1, <3>1, <3>2
  <2> QED  BY <2>1 DEF Starts
<1>6. ASSUME NEW h \in Spot, NEW q \in GraphSpot, <<h, q>> \in R
      PROVE  Advances(code, g, R, h, q)
  <2>1. q.at \in DOMAIN code \cup {Entry, Exit} /\ h \in Hearings(code, LineOf(code, q))
    BY <1>2, <1>6
  <2>2. LineOf(code, q) \in Spot
    <3>1. Entry \notin DOMAIN code
      BY <1>1
    <3> QED  BY <1>1, <2>1 DEF LineOf, Spot, GraphSpot, Stores
  <2>3. CASE q.at = Entry
    <3>1. <<h, After(g, q)>> \in R /\ ~IsHeard(g, q)
      BY <1>2, <2>1, <2>3, BuiltFirst
    <3> QED  BY <3>1 DEF Advances
  <2>4. CASE q.at = Exit
    <3>1. LineOf(code, q) = [at |-> Len(code) + 1, store |-> q.store]
      BY <1>1, <2>4 DEF LineOf
    <3>2. Heard(code, LineOf(code, q)) /\ Ended(code, LineOf(code, q))
      BY <1>1, <3>1 DEF Heard, Ended
    <3>3. h = LineOf(code, q)
      BY <2>1, <2>2, <3>2, HearingsHeard
    <3>4. Agrees(code, h, g, q)
      BY <2>4, <3>1, <3>2, <3>3 DEF Agrees, Shown
    <3>5. IsHeard(g, q)
      BY <2>4 DEF IsHeard
    <3> QED  BY <2>4, <3>4, <3>5 DEF Advances
  <2>5. CASE q.at \in DOMAIN code
    <3>1. /\ LineOf(code, q) = q /\ q.at # Exit /\ (IsHeard(g, q) <=> Heard(code, q))
          /\ Heard(code, q) => g.stmt[q.at] = code[q.at]
      BY <2>5, BuiltHeard
    <3>2. /\ After(g, q) \in GraphSpot /\ After(g, q).at \in DOMAIN code \cup {Exit}
          /\ LineOf(code, After(g, q)) = Executed(code, q)
      BY <2>5, BuiltStep
    <3>3. \A k \in Hearings(code, Executed(code, q)) : <<k, After(g, q)>> \in R
      BY <1>2, <1>4, <3>2
    <3>4. CASE Heard(code, q)
      <4>1. h = q
        BY <2>1, <2>2, <3>1, <3>4, HearingsHeard
      <4>2. ~Ended(code, q)
        BY <1>1, <2>5 DEF Ended
      <4>3. Agrees(code, h, g, q)
        BY <3>1, <3>4, <4>1, <4>2 DEF Agrees, Shown
      <4> QED  BY <3>1, <3>3, <3>4, <4>1, <4>3 DEF Advances
    <3>5. CASE ~Heard(code, q)
      <4>1. Hearings(code, q) = Hearings(code, Executed(code, q))
        BY <2>2, <3>1, <3>5, HearingsSilent
      <4> QED  BY <2>1, <3>1, <3>3, <3>5, <4>1 DEF Advances
    <3> QED  BY <3>4, <3>5
  <2> QED  BY <2>1, <2>3, <2>4, <2>5
<1>7. \A h, q : <<h, q>> \in R => q \in HeardFrom(g)
  BY <1>2, BuiltAnswers
<1>8. Follows(code, g, R)
  BY <1>3, <1>5, <1>6, <1>7 DEF Follows
<1> QED  BY <1>8

-----------------------------------------------------------------------------
(* A return leads to the exit. *)
ReturnsLeave(g) == \A e \in g.edges : g.stmt[e.source].op = "return" => e.target = Exit

LEMMA AfterSame ==
  ASSUME NEW g, NEW f, NEW q,
         f.stmt[q.at] = g.stmt[q.at], Leaving(f, q.at) = Leaving(g, q.at)
  PROVE  After(f, q) = After(g, q) /\ (IsHeard(f, q) <=> IsHeard(g, q))
<1>1. IsBranch(f, q.at) <=> IsBranch(g, q.at)
  BY DEF IsBranch
<1>2. Taken(f, q) = Taken(g, q)
  BY <1>1 DEF Taken
<1> QED  BY <1>2 DEF After, IsHeard

LEMMA BuiltReturnsLeave ==
  ASSUME NEW code \in Sources
  PROVE  ReturnsLeave(GraphOf(code))
<1> DEFINE g == GraphOf(code)
<1> SUFFICES ASSUME NEW e \in g.edges, g.stmt[e.source].op = "return"
             PROVE  e.target = Exit
  BY DEF ReturnsLeave
<1>1. CASE e = FirstEdge(code)
  <2>1. e.source = Entry /\ Entry \in Blocks /\ Entry \notin DOMAIN code
    BY <1>1, SourceLines, BlocksAssumption DEF FirstEdge
  <2>2. g.stmt[e.source] = Empty
    BY <2>1 DEF GraphOf
  <2> QED  BY <2>2 DEF Empty
<1>2. CASE e \in CodeEdges(code)
  <2>1. PICK i \in DOMAIN code : e \in EdgesOf(code, i)
    BY <1>2 DEF CodeEdges
  <2>2. e.source = i /\ i \in Blocks /\ code[i] \in Line(Labels)
    BY <2>1, EdgesOfLine, SourceLines
  <2>3. BlockOf(code[i]).op = "return"
    BY <2>2 DEF GraphOf
  <2>4. code[i].op = "return"
    BY <2>3 DEF BlockOf, Empty
  <2> QED  BY <2>1, <2>4 DEF EdgesOf
<1> QED  BY <1>1, <1>2 DEF GraphOf

-----------------------------------------------------------------------------
(* set_branch_direction, on a branch that can only go that way. *)
LEMMA TowardsTaken ==
  ASSUME NEW g, WellFormed(g), NEW b \in Blocks, IsBranch(g, b), NEW e \in Leaving(g, b)
  PROVE  e.target = Towards(g, b, e.direction)
<1>1. PICK x, y \in Leaving(g, b) :
        Leaving(g, b) = {x, y} /\ x.direction = "true" /\ y.direction = "false"
  BY DEF WellFormed, Ways, TwoWays
<1>2. \A z \in Leaving(g, b) : z.direction = e.direction => z = e
  BY <1>1
<1> QED  BY <1>2 DEF Towards

LEMMA DirectedFollows ==
  ASSUME NEW code, NEW g, WellFormed(g), NEW R, Follows(code, g, R),
         NEW b \in Blocks, IsBranch(g, b), NEW d,
         \A s \in Stores :
           Towards(g, b, IF s[g.stmt[b].rhs] THEN "true" ELSE "false") = Towards(g, b, d)
  PROVE  Follows(code, SetBranchDirection(g, b, d), R)
<1> DEFINE h == SetBranchDirection(g, b, d)
           n == [source |-> b, target |-> Towards(g, b, d), direction |-> "none"]
<1>1. /\ g \in Graph /\ g.stmt \in [Blocks -> Statement] /\ b # Exit /\ b \in Present(g)
      /\ g.stmt[b].op = "branch"
  BY GraphParts, BranchPresent DEF WellFormed, IsBranch
<1>2. h.stmt = [g.stmt EXCEPT ![b] = Empty] /\ h.edges = (g.edges \ Leaving(g, b)) \cup {n}
  BY <1>1, DirectedParts
<1>3. n.source = b /\ n.target = Towards(g, b, d)
  OBVIOUS
<1> HIDE DEF h, n
<1>4. h.stmt[b] = Empty /\ \A c : c # b => h.stmt[c] = g.stmt[c]
  BY <1>1, <1>2
<1>5. Leaving(h, b) = {n} /\ \A c : c # b => Leaving(h, c) = Leaving(g, c)
  BY <1>2, <1>3 DEF Leaving
<1>6. ASSUME NEW q \in GraphSpot, q.at # b
      PROVE  /\ After(h, q) = After(g, q) /\ (IsHeard(h, q) <=> IsHeard(g, q))
             /\ h.stmt[q.at] = g.stmt[q.at]
  BY <1>4, <1>5, <1>6, AfterSame
<1>7. ASSUME NEW q \in GraphSpot, q.at = b
      PROVE  After(h, q) = After(g, q) /\ ~IsHeard(h, q) /\ ~IsHeard(g, q)
  <2>1. ~IsHeard(h, q) /\ ~IsHeard(g, q)
    BY <1>1, <1>4, <1>7 DEF IsHeard, Empty
  <2>2. PICK e \in Leaving(g, b) :
          Taken(g, q) = {e} /\ After(g, q) = [at |-> e.target, store |-> Effect(g.stmt[b], q.store)]
    BY <1>1, <1>7, OneTaken
  <2>3. e.direction = IF q.store[g.stmt[b].rhs] THEN "true" ELSE "false"
    BY <1>7, <2>2 DEF Taken
  <2>4. e.target = Towards(g, b, d)
    BY <2>3, TowardsTaken DEF GraphSpot
  <2>5. Effect(g.stmt[b], q.store) = q.store /\ Effect(h.stmt[b], q.store) = q.store
    BY <1>1, <1>4, EffectOfNone, EmptyStatement
  <2>6. Taken(h, q) = {n}
    BY <1>4, <1>5, <1>7 DEF Taken, IsBranch, Empty
  <2> QED  BY <1>3, <1>7, <2>1, <2>2, <2>4, <2>5, <2>6 DEF After
<1>8. R \subseteq Spot \X GraphSpot
  BY DEF Follows
<1>9. Follows(code, h, R)
  BY <1>6, <1>7, <1>8, SameSteps
<1> QED  BY <1>9 DEF h

LEMMA DirectedReturnsLeave ==
  ASSUME NEW g, WellFormed(g), ReturnsLeave(g), NEW b \in Blocks, NEW d
  PROVE  ReturnsLeave(SetBranchDirection(g, b, d))
<1> DEFINE h == SetBranchDirection(g, b, d)
           n == [source |-> b, target |-> Towards(g, b, d), direction |-> "none"]
<1>1. /\ g.stmt \in [Blocks -> Statement]
      /\ h.stmt = [g.stmt EXCEPT ![b] = Empty] /\ h.edges = (g.edges \ Leaving(g, b)) \cup {n}
  BY GraphParts, DirectedParts DEF WellFormed
<1>2. n.source = b
  OBVIOUS
<1> HIDE DEF h, n
<1>3. \A e \in h.edges :
        h.stmt[e.source].op = "return" => e \in g.edges /\ g.stmt[e.source].op = "return"
  BY <1>1, <1>2, EmptyStatement
<1> QED  BY <1>3 DEF ReturnsLeave, h

-----------------------------------------------------------------------------
(* RemoveBlock of a statement that does nothing. *)
LEMMA RemovedFollows ==
  ASSUME NEW code, NEW g, WellFormed(g), NEW R, Follows(code, g, R),
         NEW b \in Blocks, g.stmt[b].op = "copy", g.stmt[b].lhs = g.stmt[b].rhs
  PROVE  Follows(code, RemoveBlock(g, b), R)
<1> DEFINE h == RemoveBlock(g, b)
<1>1. g \in Graph /\ g.stmt \in [Blocks -> Statement] /\ ~IsBranch(g, b)
  BY GraphParts DEF WellFormed, IsBranch
<1>2. h.stmt = [g.stmt EXCEPT ![b] = Empty] /\ h.edges = g.edges
  BY <1>1, GraphParts DEF RemoveBlock, ReplaceWithEmpty
<1> HIDE DEF h
<1>3. h.stmt[b] = Empty /\ \A c : c # b => h.stmt[c] = g.stmt[c]
  BY <1>1, <1>2
<1>4. \A c : Leaving(h, c) = Leaving(g, c)
  BY <1>2 DEF Leaving
<1>5. ASSUME NEW q \in GraphSpot, q.at # b
      PROVE  /\ After(h, q) = After(g, q) /\ (IsHeard(h, q) <=> IsHeard(g, q))
             /\ h.stmt[q.at] = g.stmt[q.at]
  BY <1>3, <1>4, <1>5, AfterSame
<1>6. ASSUME NEW q \in GraphSpot, q.at = b
      PROVE  /\ After(h, q) = After(g, q) /\ (IsHeard(h, q) <=> IsHeard(g, q))
             /\ q.at # Exit => ~IsHeard(g, q)
  <2>1. Effect(g.stmt[b], q.store) = q.store
    <3>1. q.store \in [Vars -> BOOLEAN]
      BY DEF GraphSpot, Stores
    <3> QED  BY <3>1 DEF Effect
  <2>2. Effect(h.stmt[b], q.store) = q.store /\ ~IsBranch(h, b)
    BY <1>3, EffectOfNone, EmptyStatement DEF IsBranch
  <2>3. Taken(h, q) = Taken(g, q)
    BY <1>1, <1>4, <1>6, <2>2 DEF Taken
  <2> QED  BY <1>3, <1>6, <2>1, <2>2, <2>3, EmptyStatement DEF After, IsHeard
<1>7. R \subseteq Spot \X GraphSpot
  BY DEF Follows
<1>8. Follows(code, h, R)
  BY <1>5, <1>6, <1>7, SameSteps
<1> QED  BY <1>8 DEF h

LEMMA RemovedReturnsLeave ==
  ASSUME NEW g, WellFormed(g), ReturnsLeave(g), NEW b \in Blocks
  PROVE  ReturnsLeave(RemoveBlock(g, b))
<1> DEFINE h == RemoveBlock(g, b)
<1>1. g \in Graph /\ g.stmt \in [Blocks -> Statement]
  BY GraphParts DEF WellFormed
<1>2. h.stmt = [g.stmt EXCEPT ![b] = Empty] /\ h.edges = g.edges
  BY <1>1, GraphParts DEF RemoveBlock, ReplaceWithEmpty
<1> HIDE DEF h
<1>3. \A e \in h.edges :
        h.stmt[e.source].op = "return" => e \in g.edges /\ g.stmt[e.source].op = "return"
  BY <1>1, <1>2, EmptyStatement
<1> QED  BY <1>3 DEF ReturnsLeave, h

-----------------------------------------------------------------------------
(* remove_unreachable_blocks: no run gets to what goes. *)
LEMMA UnreachableFollows ==
  ASSUME NEW code, NEW g, WellFormed(g), NEW R, Follows(code, g, R)
  PROVE  \E T : Follows(code, RipOut(g, Blocks \ Reach(g, Entry, {})), T)
<1> DEFINE S == Reach(g, Entry, {})
           h == RipOut(g, Blocks \ S)
           T == {r \in R : r[2].at \in S}
<1>1. /\ g \in Graph /\ \A e \in g.edges : e.source \in Blocks /\ e.target \in Blocks
      /\ Entry \in S /\ S \subseteq Present(g) /\ Present(g) \subseteq Blocks
      /\ \A e \in g.edges : e.source \in S => e.target \in S
  BY GraphParts, PresentBlocks, ReachClosed DEF WellFormed, Present
<1>2. /\ h.stmt = [b \in Blocks |-> IF b \in Blocks \ S THEN Empty ELSE g.stmt[b]]
      /\ h.edges = {e \in g.edges : e.source \notin Blocks \ S /\ e.target \notin Blocks \ S}
  BY DEF RipOut
<1> HIDE DEF S, h
<1>3. \A q \in GraphSpot : q.at \in S /\ q.at # Exit => After(g, q).at \in S
  <2>1. ASSUME NEW q \in GraphSpot, q.at \in S, q.at # Exit
        PROVE  After(g, q).at \in S
    <3>1. PICK e \in Leaving(g, q.at) :
            After(g, q) = [at |-> e.target, store |-> Effect(g.stmt[q.at], q.store)]
      BY <1>1, <2>1, OneTaken
    <3> QED  BY <1>1, <2>1, <3>1 DEF Leaving
  <2> QED  BY <2>1
<1>4. Follows(code, g, T)
  BY <1>1, <1>3, Restricted
<1>5. \A b \in S : h.stmt[b] = g.stmt[b] /\ Leaving(h, b) = Leaving(g, b)
  BY <1>1, <1>2 DEF Leaving
<1>6. \A r \in T : r[2].at \in S
  OBVIOUS
<1> HIDE DEF T
<1>7. Follows(code, h, T)
  <2>1. ASSUME NEW r \in T
        PROVE  /\ IsHeard(h, r[2]) <=> IsHeard(g, r[2])
               /\ h.stmt[r[2].at] = g.stmt[r[2].at]
               /\ After(h, r[2]) = After(g, r[2])
    <3>1. h.stmt[r[2].at] = g.stmt[r[2].at] /\ Leaving(h, r[2].at) = Leaving(g, r[2].at)
      BY <1>5, <1>6
    <3> QED  BY <3>1, AfterSame
  <2> QED  BY <1>4, <2>1, SameSteps
<1> QED  BY <1>7 DEF h, S

LEMMA RippedReturnsLeave ==
  ASSUME NEW g, WellFormed(g), ReturnsLeave(g), NEW S
  PROVE  ReturnsLeave(RipOut(g, S))
<1>1. \A e \in g.edges : e.source \in Blocks
  BY GraphParts DEF WellFormed
<1> QED  BY <1>1, EmptyStatement DEF ReturnsLeave, RipOut

-----------------------------------------------------------------------------
(* A run of the graph without the block is one step ahead where the other  *)
(* is in the block.                                                        *)
LEMMA BypassFollows ==
  ASSUME NEW code, NEW g, WellFormed(g), NEW R0, Follows(code, g, R0),
         NEW b \in Blocks, Removable(g, b)
  PROVE  \E T : Follows(code, Bypass(g, b), T)
<1> DEFINE h == Bypass(g, b)
<1>1. PICK R : Follows(code, g, R) /\ \A r \in R : r[2].at \in Present(g)
  BY RestrictedToPresent
<1>2. /\ g.stmt \in [Blocks -> Statement] /\ Present(g) \subseteq Blocks
      /\ b # Entry /\ b # Exit /\ g.stmt[b] = Empty /\ Leaving(g, b) # {}
  BY GraphParts, PresentBlocks DEF WellFormed, Removable
<1>3. PICK t \in Successors(g, b) :
           /\ t # b
           /\ h.stmt = [c \in Blocks |-> IF c = b THEN Empty ELSE g.stmt[c]]
           /\ \A e \in g.edges : e.source # b => Led(e, b, t) \in h.edges
           /\ \A x \in h.edges : \E e \in g.edges : x = Led(e, b, t) /\ e.source # b
           /\ \A e \in g.edges : /\ Led(e, b, t).source = e.source
                                 /\ Led(e, b, t).direction = e.direction
                                 /\ Led(e, b, t).target = IF e.target = b THEN t ELSE e.target
  BY BypassParts
<1> HIDE DEF h
<1>4. \A c : c # b => Leaving(h, c) = {Led(e, b, t) : e \in Leaving(g, c)}
  BY <1>3, BypassLeaving
<1>5. \A c \in Blocks : c # b => h.stmt[c] = g.stmt[c]
  BY <1>3
<1>6. b \in Present(g) /\ ~IsBranch(g, b)
  BY <1>2, EmptyStatement DEF IsBranch, Present, Leaving
<1>7. ASSUME NEW q \in GraphSpot, q.at = b
      PROVE  ~IsHeard(g, q) /\ After(g, q) = [at |-> t, store |-> q.store]
  <2>1. PICK e \in Leaving(g, b) :
          /\ Taken(g, q) = {e}
          /\ After(g, q) = [at |-> e.target, store |-> Effect(g.stmt[b], q.store)]
    BY <1>2, <1>6, <1>7, OneTaken
  <2>2. Leaving(g, b) = {e}
    BY <1>6, <1>7, <2>1 DEF Taken
  <2>3. e.target = t
    BY <1>3, <2>2 DEF Successors
  <2> QED  BY <1>2, <1>7, <2>1, <2>3, EffectOfNone, EmptyStatement DEF IsHeard
<1>8. ASSUME NEW q \in GraphSpot, q.at \in Present(g) \ {b, Exit}
      PROVE  /\ After(h, q).at # b
             /\ \/ After(h, q) = After(g, q)
                \/ After(g, q).at = b /\ After(h, q) = [at |-> t, store |-> After(g, q).store]
  <2>1. PICK e \in Leaving(g, q.at) :
          /\ Taken(g, q) = {e}
          /\ After(g, q) = [at |-> e.target, store |-> Effect(g.stmt[q.at], q.store)]
    BY <1>8, OneTaken
  <2>2. q.at \in Blocks /\ h.stmt[q.at] = g.stmt[q.at]
    BY <1>2, <1>5, <1>8
  <2>3. Taken(h, q) = {Led(e, b, t)}
    <3>1. \A f \in Leaving(g, q.at) : Led(f, b, t).direction = f.direction
      BY <1>3 DEF Leaving
    <3>2. \A f \in Leaving(g, q.at) : f \in Taken(g, q) <=> Led(f, b, t) \in Taken(h, q)
      BY <1>4, <1>8, <2>2, <3>1 DEF Taken, IsBranch
    <3>3. Taken(h, q) \subseteq Leaving(h, q.at)
      BY DEF Taken
    <3> QED  BY <1>4, <1>8, <2>1, <3>2, <3>3
  <2>4. After(h, q) = [at |-> IF e.target = b THEN t ELSE e.target,
                       store |-> Effect(g.stmt[q.at], q.store)]
    <3>1. e \in g.edges
      BY DEF Leaving
    <3> QED  BY <1>3, <2>2, <2>3, <3>1 DEF After
  <2> QED  BY <1>3, <2>1, <2>4
<1> DEFINE T == {r \in R : r[2].at # b}
<1>9. T \subseteq Spot \X GraphSpot /\ R \subseteq Spot \X GraphSpot
  BY <1>1 DEF Follows
<1>10. Starts(code, Entry, T)
  BY <1>1, <1>2 DEF Follows, Starts
<1>11. ASSUME NEW k, NEW q \in GraphSpot, q.at \in Present(g) \ {b, Exit}, <<k, After(g, q)>> \in R
       PROVE  <<k, After(h, q)>> \in T
  <2>1. k \in Spot /\ After(g, q) \in GraphSpot
    BY <1>9, <1>11
  <2>2. CASE After(h, q) = After(g, q)
    BY <1>8, <1>11, <2>2
  <2>3. CASE After(g, q).at = b /\ After(h, q) = [at |-> t, store |-> After(g, q).store]
    <3>1. Advances(code, g, R, k, After(g, q))
      BY <1>1, <1>11, <2>1 DEF Follows
    <3>2. After(g, After(g, q)) = After(h, q) /\ ~IsHeard(g, After(g, q))
      BY <1>7, <2>1, <2>3
    <3> QED  BY <1>8, <1>11, <3>1, <3>2 DEF Advances
  <2> QED  BY <1>8, <1>11, <2>2, <2>3
<1>12. ASSUME NEW k \in Spot, NEW q \in GraphSpot, <<k, q>> \in T
       PROVE  Advances(code, h, T, k, q)
  <2>1. <<k, q>> \in R /\ q.at # b /\ q.at \in Present(g) /\ q.at \in Blocks
    BY <1>1, <1>2, <1>12
  <2>2. Advances(code, g, R, k, q)
    BY <1>1, <2>1 DEF Follows
  <2>3. h.stmt[q.at] = g.stmt[q.at] /\ (IsHeard(h, q) <=> IsHeard(g, q))
    BY <1>5, <2>1 DEF IsHeard
  <2>4. ~IsHeard(g, q) => q.at # Exit
    BY DEF IsHeard
  <2>5. Agrees(code, k, g, q) => Agrees(code, k, h, q)
    BY <2>3 DEF Agrees
  <2>6. \A j : q.at # Exit /\ <<j, After(g, q)>> \in R => <<j, After(h, q)>> \in T
    BY <1>11, <2>1
  <2> HIDE DEF T
  <2> QED  BY <2>2, <2>3, <2>4, <2>5, <2>6 DEF Advances
<1>13. PICK S : S = {q \in GraphSpot : \A k : <<k, q>> \in R =>
                      IF q.at = b THEN After(g, q) \in HeardFrom(h) ELSE q \in HeardFrom(h)}
  OBVIOUS
<1>14. ASSUME NEW q \in GraphSpot, IsHeard(g, q) \/ After(g, q) \in S
       PROVE  q \in S
  <2>1. ASSUME NEW k, <<k, q>> \in R
        PROVE  IF q.at = b THEN After(g, q) \in HeardFrom(h) ELSE q \in HeardFrom(h)
    <3>1. k \in Spot /\ Advances(code, g, R, k, q)
      BY <1>1, <2>1 DEF Follows
    <3>2. q.at \in Present(g) /\ q.at \in Blocks
      <4>1. <<k, q>>[2] = q
        OBVIOUS
      <4> QED  BY <1>1, <1>2, <2>1, <4>1
    <3>3. CASE IsHeard(g, q)
      <4>1. q.at # b
        BY <1>7, <3>3
      <4>2. IsHeard(h, q)
        BY <1>5, <3>2, <3>3, <4>1 DEF IsHeard
      <4> QED  BY <4>1, <4>2, HeardFromClosed
    <3>4. CASE ~IsHeard(g, q)
      <4>1. <<k, After(g, q)>> \in R /\ After(g, q) \in S /\ q.at # Exit
        BY <1>14, <3>1, <3>4 DEF Advances, IsHeard
      <4>2. IF After(g, q).at = b THEN After(g, After(g, q)) \in HeardFrom(h)
                                  ELSE After(g, q) \in HeardFrom(h)
        BY <1>13, <4>1
      <4>3. CASE q.at = b
        <5>1. After(g, q).at = t
          BY <1>7, <4>3
        <5> QED  BY <1>3, <4>2, <4>3, <5>1
      <4>4. CASE q.at # b
        <5>1. /\ After(h, q).at # b
              /\ \/ After(h, q) = After(g, q)
                 \/ After(g, q).at = b /\ After(h, q) = [at |-> t, store |-> After(g, q).store]
          BY <1>8, <3>2, <4>1, <4>4
        <5>2. After(g, q).at = b =>
                After(g, After(g, q)) = [at |-> t, store |-> After(g, q).store]
          BY <1>7, <1>9, <4>1
        <5>3. After(h, q) \in HeardFrom(h)
          BY <4>2, <5>1, <5>2
        <5> QED  BY <4>4, <5>3, HeardFromClosed
      <4> QED  BY <4>3, <4>4
    <3> QED  BY <3>3, <3>4
  <2> QED  BY <1>13, <2>1
<1>15. HeardFrom(g) \subseteq S
  <2>1. S \in SUBSET GraphSpot
    BY <1>13
  <2> QED  BY <1>14, <2>1, HeardFromLeast
<1>16. ASSUME NEW k, NEW q, <<k, q>> \in T
       PROVE  q \in HeardFrom(h)
  <2>1. <<k, q>> \in R /\ q.at # b
    BY <1>16
  <2>2. q \in S
    BY <1>1, <1>15, <2>1 DEF Follows
  <2> QED  BY <1>13, <2>1, <2>2
<1>17. Follows(code, h, T)
  BY <1>9, <1>10, <1>12, <1>16 DEF Follows
<1> QED  BY <1>17 DEF h

LEMMA BypassReturnsLeave ==
  ASSUME NEW g, WellFormed(g), ReturnsLeave(g), NEW b \in Blocks, Removable(g, b)
  PROVE  ReturnsLeave(Bypass(g, b))
<1> DEFINE h == Bypass(g, b)
<1>1. PICK t \in Successors(g, b) :
           /\ h.stmt = [c \in Blocks |-> IF c = b THEN Empty ELSE g.stmt[c]]
           /\ \A x \in h.edges : \E e \in g.edges : x = Led(e, b, t) /\ e.source # b
           /\ \A e \in g.edges : /\ Led(e, b, t).source = e.source
                                 /\ Led(e, b, t).target = IF e.target = b THEN t ELSE e.target
  BY BypassParts
<1>2. \A e \in g.edges : e.source \in Blocks
  BY GraphParts DEF WellFormed
<1>3. b # Exit
  BY DEF Removable
<1> HIDE DEF h
<1>4. ASSUME NEW x \in h.edges, h.stmt[x.source].op = "return"
      PROVE  x.target = Exit
  <2>1. PICK e \in g.edges : x = Led(e, b, t) /\ e.source # b
    BY <1>1, <1>4
  <2>2. g.stmt[e.source].op = "return"
    BY <1>1, <1>2, <1>4, <2>1
  <2>3. e.target = Exit
    BY <2>2 DEF ReturnsLeave
  <2> QED  BY <1>1, <1>3, <2>1, <2>3
<1> QED  BY <1>4 DEF ReturnsLeave, h

-----------------------------------------------------------------------------
(* A run in the copy is followed as a run in the branch was. *)
LEMMA SplitFollows ==
  ASSUME NEW code, NEW g, WellFormed(g), NEW R0, Follows(code, g, R0),
         NEW e \in g.edges, IsBranch(g, e.target),
         NEW c \in Blocks \ (Present(g) \cup {Exit})
  PROVE  \E T : Follows(code, Split(g, e, c), T)
<1> DEFINE h == Split(g, e, c)
           t == e.target
           Now(f) == Moved(f, e, c)
           Of(f) == Copied(f, c)
<1>1. PICK R : Follows(code, g, R) /\ \A r \in R : r[2].at \in Present(g)
  BY RestrictedToPresent
<1>2. /\ g.stmt \in [Blocks -> Statement] /\ Present(g) \subseteq Blocks /\ g.edges \subseteq Edge
      /\ t \in Blocks /\ t \in Present(g) /\ t # Exit /\ t # c
      /\ c # Entry /\ c # Exit /\ c \in Blocks
      /\ \A f \in g.edges : f.target \in Present(g) /\ f.target # c
  <2>1. g \in Graph
    BY DEF WellFormed
  <2>2. t \in Present(g) /\ t \in Blocks
    BY <2>1, GraphParts, PresentBlocks
  <2> QED  BY <2>1, <2>2, GraphParts, PresentBlocks, BranchPresent
<1>3. /\ h.stmt = [g.stmt EXCEPT ![c] = g.stmt[t]]
      /\ \A b : b # c => Leaving(h, b) = {Now(f) : f \in Leaving(g, b)}
      /\ Leaving(h, c) = {Of(Now(f)) : f \in Leaving(g, t)}
      /\ \A f \in g.edges : /\ Now(f) \in Edge /\ Now(f).direction = f.direction
                            /\ Now(f).target = IF f = e THEN c ELSE f.target
      /\ \A f \in Edge : Of(f).target = f.target /\ Of(f).direction = f.direction
  BY SplitParts
<1> HIDE DEF h, Now, Of, t
<1> DEFINE Twin(q) == [at |-> IF q.at = c THEN t ELSE q.at, store |-> q.store]
           T == {r \in Spot \X GraphSpot : <<r[1], Twin(r[2])>> \in R}
<1>4. \A q \in GraphSpot : /\ Twin(q) \in GraphSpot /\ (q.at # c => Twin(q) = q)
                           /\ Twin(q).store = q.store
                           /\ Twin(q).at = IF q.at = c THEN t ELSE q.at
  BY <1>2 DEF GraphSpot
<1>5. \A k, q : <<k, q>> \in T <=> k \in Spot /\ q \in GraphSpot /\ <<k, Twin(q)>> \in R
  OBVIOUS
<1>6. T \subseteq Spot \X GraphSpot
  OBVIOUS
<1> HIDE DEF Twin, T
<1>7. \A b \in Blocks : h.stmt[b] = g.stmt[IF b = c THEN t ELSE b]
  BY <1>2, <1>3
<1>8. ASSUME NEW q \in GraphSpot, Twin(q).at \in Present(g) \ {Exit}
      PROVE  After(g, Twin(q)) \in GraphSpot =>
               After(h, q) \in GraphSpot /\ Twin(After(h, q)) = After(g, Twin(q))
  <2> DEFINE p == Twin(q)
  <2>1. /\ p \in GraphSpot /\ p.store = q.store /\ q.at \in Blocks
        /\ p.at = IF q.at = c THEN t ELSE q.at
    BY <1>4 DEF GraphSpot
  <2>2. PICK f \in Leaving(g, p.at) :
          /\ Taken(g, p) = {f}
          /\ After(g, p) = [at |-> f.target, store |-> Effect(g.stmt[p.at], p.store)]
    BY <1>8, <2>1, OneTaken
  <2> HIDE DEF p
  <2> DEFINE Goes(x) == IF q.at = c THEN Of(Now(x)) ELSE Now(x)
  <2>3. Leaving(h, q.at) = {Goes(x) : x \in Leaving(g, p.at)}
    BY <1>3, <2>1
  <2>4. \A x \in g.edges : /\ Goes(x).direction = x.direction
                           /\ Goes(x).target = IF x = e THEN c ELSE x.target
    BY <1>3
  <2> HIDE DEF Goes
  <2>5. h.stmt[q.at] = g.stmt[p.at]
    BY <1>7, <2>1
  <2>6. Taken(h, q) = {Goes(f)}
    <3>1. \A x \in Leaving(g, p.at) : x \in Taken(g, p) <=> Goes(x) \in Taken(h, q)
      BY <2>1, <2>3, <2>4, <2>5 DEF Taken, IsBranch, Leaving
    <3>2. Taken(h, q) \subseteq Leaving(h, q.at)
      BY DEF Taken
    <3> QED  BY <2>2, <2>3, <3>1, <3>2
  <2>7. f \in g.edges
    BY DEF Leaving
  <2>8. After(h, q) = [at |-> IF f = e THEN c ELSE f.target, store |-> After(g, p).store]
    BY <2>1, <2>2, <2>4, <2>5, <2>6, <2>7 DEF After
  <2>9. After(g, p) \in GraphSpot =>
          After(h, q) \in GraphSpot /\ Twin(After(h, q)) = After(g, p)
    <3>1. ASSUME After(g, p) \in GraphSpot
          PROVE  After(h, q) \in GraphSpot
      BY <1>2, <2>2, <2>8, <3>1 DEF GraphSpot
    <3>2. Twin(After(h, q)) = [at |-> f.target, store |-> After(g, p).store]
      <4>1. \A a, s : Twin([at |-> a, store |-> s]) = [at |-> IF a = c THEN t ELSE a, store |-> s]
        BY DEF Twin
      <4>2. LET n == IF f = e THEN c ELSE f.target
            IN  (IF n = c THEN t ELSE n) = f.target
        BY <1>2, <2>7 DEF t
      <4> QED  BY <2>8, <4>1, <4>2
    <3> QED  BY <2>2, <3>1, <3>2
  <2> QED  BY <2>9 DEF p
<1>9. Starts(code, Entry, T)
  <2>1. ASSUME NEW s \in Stores, NEW k \in Hearings(code, [at |-> 1, store |-> s])
        PROVE  <<k, [at |-> Entry, store |-> s]>> \in T
    <3>1. [at |-> Entry, store |-> s] \in GraphSpot
      BY BlocksAssumption DEF GraphSpot
    <3>2. k \in Spot /\ <<k, [at |-> Entry, store |-> s]>> \in R
      BY <1>1, <2>1 DEF Follows, Starts, Hearings
    <3> QED  BY <1>2, <1>4, <1>5, <3>1, <3>2
  <2> QED  BY <2>1 DEF Starts
<1>10. ASSUME NEW k \in Spot, NEW q \in GraphSpot, <<k, q>> \in T
       PROVE  Advances(code, h, T, k, q)
  <2>1. <<k, Twin(q)>> \in R /\ Twin(q) \in GraphSpot /\ Twin(q).at \in Present(g)
    BY <1>1, <1>4, <1>5, <1>10
  <2>2. Advances(code, g, R, k, Twin(q))
    BY <1>1, <2>1 DEF Follows
  <2>3. h.stmt[q.at] = g.stmt[Twin(q).at] /\ (q.at = Exit <=> Twin(q).at = Exit)
    BY <1>2, <1>4, <1>7 DEF GraphSpot
  <2>4. IsHeard(h, q) <=> IsHeard(g, Twin(q))
    BY <2>3 DEF IsHeard
  <2>5. ~IsHeard(h, q) => q.at # Exit
    BY DEF IsHeard
  <2>6. Agrees(code, k, g, Twin(q)) => Agrees(code, k, h, q)
    BY <1>4, <2>3 DEF Agrees
  <2>7. \A j : q.at # Exit /\ <<j, After(g, Twin(q))>> \in R => <<j, After(h, q)>> \in T
    <3>1. \A r \in R : r[1] \in Spot /\ r[2] \in GraphSpot
      BY <1>1 DEF Follows
    <3> QED  BY <1>5, <1>8, <2>1, <2>3, <3>1
  <2> QED  BY <2>2, <2>3, <2>4, <2>5, <2>6, <2>7 DEF Advances
<1>11. PICK S : S = {p \in GraphSpot : \A k : \A q \in GraphSpot :
                      <<k, q>> \in T /\ Twin(q) = p => q \in HeardFrom(h)}
  OBVIOUS
<1>12. ASSUME NEW p \in GraphSpot, IsHeard(g, p) \/ After(g, p) \in S
       PROVE  p \in S
  <2>1. ASSUME NEW k, NEW q \in GraphSpot, <<k, q>> \in T, Twin(q) = p
        PROVE  q \in HeardFrom(h)
    <3>1. <<k, p>> \in R /\ k \in Spot /\ p.at \in Present(g)
      <4>1. <<k, p>> \in R /\ k \in Spot /\ <<k, p>>[2] = p
        BY <1>5, <2>1
      <4> QED  BY <1>1, <4>1
    <3>2. h.stmt[q.at] = g.stmt[p.at] /\ (q.at = Exit <=> p.at = Exit)
      BY <1>2, <1>4, <1>7, <2>1 DEF GraphSpot
    <3>3. CASE IsHeard(g, p)
      <4>1. IsHeard(h, q)
        BY <3>2, <3>3 DEF IsHeard
      <4> QED  BY <4>1, HeardFromClosed
    <3>4. CASE ~IsHeard(g, p)
      <4>1. <<k, After(g, p)>> \in R
        BY <1>1, <3>1, <3>4 DEF Follows, Advances
      <4>2. After(g, p) \in GraphSpot /\ p.at # Exit
        BY <1>1, <3>4, <4>1 DEF Follows, IsHeard
      <4>3. After(h, q) \in GraphSpot /\ Twin(After(h, q)) = After(g, p)
        BY <1>8, <2>1, <3>1, <4>2
      <4>4. After(h, q) \in HeardFrom(h)
        BY <1>5, <1>11, <1>12, <3>1, <3>4, <4>1, <4>3
      <4> QED  BY <4>4, HeardFromClosed
    <3> QED  BY <3>3, <3>4
  <2> QED  BY <1>11, <2>1
<1>13. HeardFrom(g) \subseteq S
  <2>1. S \in SUBSET GraphSpot
    BY <1>11
  <2> QED  BY <1>12, <2>1, HeardFromLeast
<1>14. ASSUME NEW k, NEW q, <<k, q>> \in T
       PROVE  q \in HeardFrom(h)
  <2>1. q \in GraphSpot /\ <<k, Twin(q)>> \in R
    BY <1>5, <1>14
  <2>2. Twin(q) \in S
    BY <1>1, <1>13, <2>1 DEF Follows
  <2> QED  BY <1>11, <1>14, <2>1, <2>2
<1>15. Follows(code, h, T)
  BY <1>6, <1>9, <1>10, <1>14 DEF Follows
<1> QED  BY <1>15 DEF h

LEMMA SplitReturnsLeave ==
  ASSUME NEW g, WellFormed(g), ReturnsLeave(g), NEW e \in g.edges, IsBranch(g, e.target),
         NEW c \in Blocks \ (Present(g) \cup {Exit})
  PROVE  ReturnsLeave(Split(g, e, c))
<1> DEFINE h == Split(g, e, c)
<1>1. /\ g.stmt \in [Blocks -> Statement] /\ g.edges \subseteq Edge /\ g \in Graph
      /\ e.target \in Blocks /\ e.target # Exit
  BY GraphParts, BranchPresent DEF WellFormed
<1>2. /\ h.stmt = [g.stmt EXCEPT ![c] = g.stmt[e.target]] /\ h \in Graph
      /\ \A b : b # c => Leaving(h, b) = {Moved(f, e, c) : f \in Leaving(g, b)}
      /\ \A f \in g.edges : Moved(f, e, c).target = IF f = e THEN c ELSE f.target
  BY SplitParts
<1> HIDE DEF h
<1>3. ASSUME NEW x \in h.edges, h.stmt[x.source].op = "return"
      PROVE  x.target = Exit
  <2>1. x.source \in Blocks /\ x.source # c /\ g.stmt[x.source].op = "return"
    BY <1>1, <1>2, <1>3, GraphParts DEF IsBranch
  <2>2. PICK f \in Leaving(g, x.source) : x = Moved(f, e, c)
    BY <1>2, <2>1 DEF Leaving
  <2>3. f \in g.edges /\ f.target = Exit
    BY <2>1, <2>2 DEF Leaving, ReturnsLeave
  <2> QED  BY <1>1, <1>2, <2>2, <2>3
<1> QED  BY <1>3 DEF ReturnsLeave, h

-----------------------------------------------------------------------------
(* R leads from what a run of the source is heard of next to the lines a   *)
(* run of a list may be at then, from each of which it is heard too.       *)
ListSpot(code) == [at : 1..(Len(code) + 1), store : [Vars -> BOOLEAN]]

SaysSame(src, h, code, q) ==
  (Ended(src, h) <=> Ended(code, q)) /\ Shown(src, h) = Shown(code, q)

AdvancesIn(src, code, R, h, q) ==
  /\ ~Heard(code, q) => <<h, Executed(code, q)>> \in R
  /\ Heard(code, q) => SaysSame(src, h, code, q)
  /\ Heard(code, q) /\ ~Ended(code, q) =>
       \A k \in Hearings(src, Executed(src, h)) : <<k, Executed(code, q)>> \in R

(* From where a run of a list is heard after finitely many steps. *)
HeardFromIn(code) ==
  {q \in ListSpot(code) : \A S \in SUBSET ListSpot(code) :
     (\A p \in ListSpot(code) : Heard(code, p) \/ Executed(code, p) \in S => p \in S) => q \in S}

LEMMA HeardFromInClosed ==
  ASSUME NEW code, NEW p \in ListSpot(code),
         Heard(code, p) \/ Executed(code, p) \in HeardFromIn(code)
  PROVE  p \in HeardFromIn(code)
BY DEF HeardFromIn

LEMMA HeardFromInLeast ==
  ASSUME NEW code, NEW S \in SUBSET ListSpot(code),
         \A p \in ListSpot(code) : Heard(code, p) \/ Executed(code, p) \in S => p \in S
  PROVE  HeardFromIn(code) \subseteq S
BY DEF HeardFromIn

FollowsIn(src, code, R) ==
  /\ R \subseteq Spot \X ListSpot(code)
  /\ Starts(src, 1, R)
  /\ \A h \in Spot, q \in ListSpot(code) : <<h, q>> \in R => AdvancesIn(src, code, R, h, q)
  /\ \A h, q : <<h, q>> \in R => q \in HeardFromIn(code)

(* No label is there twice. *)
LabelsOnce(code) ==
  \A i, j \in DOMAIN code : code[i].op = "label" /\ code[j] = code[i] => j = i

(* The list is made of the lines of blocks, the entry's first. *)
Holds(code, m, lines) == \A j \in DOMAIN lines : m + j \in DOMAIN code /\ code[m + j] = lines[j]

Segmented ==
  /\ \A i \in DOMAIN result : \E b \in Discovered, m \in Nat : \E k \in DOMAIN LinesOf(b) :
       i = m + k /\ Holds(result, m, LinesOf(b))
  /\ order # << >> => Entry \in Discovered /\ Holds(result, 0, LinesOf(Entry))
  /\ LabelsOnce(result)

(* The lines of a block, by its kind. *)
LabelLine(b) == [op |-> "label", label |-> b]
GotoLine(b) == [op |-> "goto", label |-> b]
IfLine(b) == [op |-> "if", rhs |-> cfg.stmt[b].rhs,
              iftrue |-> Towards(cfg, b, "true"), iffalse |-> Towards(cfg, b, "false")]

LEMMA LinesShape ==
  ASSUME WellFormed(cfg), NEW b \in Present(cfg), b # Exit
  PROVE  \/ /\ IsBranch(cfg, b)
            /\ LinesOf(b) = <<LabelLine(b), IfLine(b)>>
         \/ /\ cfg.stmt[b].op = "empty"
            /\ \E t : Successors(cfg, b) = {t} /\ LinesOf(b) = <<LabelLine(b), GotoLine(t)>>
         \/ /\ cfg.stmt[b].op \in {"return", "set", "copy", "not", "may", "print"}
            /\ \E t : /\ Successors(cfg, b) = {t}
                      /\ LinesOf(b) = <<LabelLine(b), cfg.stmt[b], GotoLine(t)>>
<1>1. b \in Blocks /\ cfg.stmt[b] \in Statement
  BY PresentBlocks, GraphParts DEF WellFormed
<1>2. CASE IsBranch(cfg, b)
  <2>1. cfg.stmt[b].op = "branch"
    BY <1>2 DEF IsBranch
  <2> QED  BY <1>2, <2>1 DEF LinesOf, LabelLine, IfLine
<1>3. CASE ~IsBranch(cfg, b)
  <2>1. PICK e \in Leaving(cfg, b) : Leaving(cfg, b) = {e}
    BY <1>3 DEF WellFormed, Ways, OneWay
  <2>2. Successors(cfg, b) = {e.target}
    BY <2>1 DEF Successors
  <2>3. (CHOOSE s \in Successors(cfg, b) : TRUE) = e.target
    BY <2>2
  <2>4. cfg.stmt[b].op \in {"empty", "return", "set", "copy", "not", "may", "print"}
    BY <1>1, <1>3 DEF Statement, IsBranch
  <2>5. CASE cfg.stmt[b].op = "empty"
    <3>1. LinesOf(b) = <<LabelLine(b), GotoLine(e.target)>>
      BY <2>3, <2>5 DEF LinesOf, LabelLine, GotoLine
    <3> QED  BY <2>2, <2>5, <3>1
  <2>6. CASE cfg.stmt[b].op # "empty"
    <3>1. LinesOf(b) = <<LabelLine(b), cfg.stmt[b], GotoLine(e.target)>>
      BY <2>3, <2>4, <2>6 DEF LinesOf, LabelLine, GotoLine
    <3> QED  BY <2>2, <2>4, <2>6, <3>1
  <2> QED  BY <2>5, <2>6
<1> QED  BY <1>2, <1>3

(* The block a run of the graph is in when a run of the list is at the     *)
(* k-th line of b.                                                         *)
Standing(b, k) == LET line == LinesOf(b)[k] IN IF line.op = "goto" THEN line.label ELSE b

LEMMA LabelOfBlock ==
  ASSUME WellFormed(cfg), NEW b \in Present(cfg), NEW k \in DOMAIN LinesOf(b),
         LinesOf(b)[k].op = "label"
  PROVE  b # Exit /\ k = 1 /\ LinesOf(b)[k] = LabelLine(b) /\ Standing(b, k) = b
<1>1. b # Exit
  BY DEF LinesOf
<1>2. k = 1 /\ LinesOf(b)[k] = LabelLine(b)
  <2>1. CASE LinesOf(b) = <<LabelLine(b), IfLine(b)>>
    BY <2>1 DEF IfLine
  <2>2. CASE \E t : LinesOf(b) = <<LabelLine(b), GotoLine(t)>>
    BY <2>2 DEF GotoLine
  <2>3. CASE /\ cfg.stmt[b].op \in {"return", "set", "copy", "not", "may", "print"}
             /\ \E t : LinesOf(b) = <<LabelLine(b), cfg.stmt[b], GotoLine(t)>>
    BY <2>3 DEF GotoLine
  <2> QED  BY <1>1, <2>1, <2>2, <2>3, LinesShape
<1>3. Standing(b, k) = b
  BY <1>2 DEF Standing, LabelLine
<1> QED  BY <1>1, <1>2, <1>3

(* What runs do in a block with one successor. *)
LEMMA AfterOneWay ==
  ASSUME NEW g, WellFormed(g), NEW q \in GraphSpot, q.at \in Present(g), q.at # Exit,
         NEW t, Successors(g, q.at) = {t}
  PROVE  After(g, q) = [at |-> t, store |-> Effect(g.stmt[q.at], q.store)]
<1>1. PICK e \in Leaving(g, q.at) :
        After(g, q) = [at |-> e.target, store |-> Effect(g.stmt[q.at], q.store)]
  BY OneTaken
<1>2. e.target = t
  BY DEF Successors
<1> QED  BY <1>1, <1>2

LEMMA AfterBranch ==
  ASSUME NEW g, WellFormed(g), NEW q \in GraphSpot, IsBranch(g, q.at)
  PROVE  After(g, q) =
           [at |-> Towards(g, q.at, IF q.store[g.stmt[q.at].rhs] THEN "true" ELSE "false"),
            store |-> q.store]
<1>1. q.at \in Blocks
  BY DEF GraphSpot
<1>2. q.at \in Present(g) /\ q.at # Exit
  BY <1>1, BranchPresent
<1>3. PICK e \in Leaving(g, q.at) :
        /\ Taken(g, q) = {e}
        /\ After(g, q) = [at |-> e.target, store |-> Effect(g.stmt[q.at], q.store)]
  BY <1>2, OneTaken
<1>4. e.direction = IF q.store[g.stmt[q.at].rhs] THEN "true" ELSE "false"
  BY <1>3 DEF Taken
<1>5. e.target = Towards(g, q.at, e.direction)
  BY <1>1, TowardsTaken
<1>6. Effect(g.stmt[q.at], q.store) = q.store
  BY EffectOfNone DEF IsBranch
<1> QED  BY <1>3, <1>4, <1>5, <1>6

-----------------------------------------------------------------------------
LEMMA ConcatenationHolds ==
  ASSUME NEW S, NEW a \in Seq(S), NEW b \in Seq(S)
  PROVE  /\ Holds(a \o b, Len(a), b)
         /\ \A m \in Nat : \A lines : Holds(a, m, lines) => Holds(a \o b, m, lines)
         /\ \A i \in DOMAIN (a \o b) : i \in DOMAIN a \/ \E k \in DOMAIN b : i = Len(a) + k
<1>1. /\ Len(a) \in Nat /\ Len(b) \in Nat
      /\ DOMAIN (a \o b) = 1..(Len(a) + Len(b)) /\ DOMAIN a = 1..Len(a) /\ DOMAIN b = 1..Len(b)
  OBVIOUS
<1>2. ASSUME NEW i \in DOMAIN (a \o b), i \notin DOMAIN a
      PROVE  \E k \in DOMAIN b : i = Len(a) + k
  <2>1. i - Len(a) \in DOMAIN b /\ i = Len(a) + (i - Len(a))
    BY <1>1, <1>2
  <2> QED  BY <2>1
<1>3. /\ \A i \in DOMAIN a : i \in DOMAIN (a \o b) /\ (a \o b)[i] = a[i]
      /\ \A i \in DOMAIN b : Len(a) + i \in DOMAIN (a \o b) /\ (a \o b)[Len(a) + i] = b[i]
  BY Concatenation
<1> QED  BY <1>2, <1>3 DEF Holds

LEMMA SegmentedStays ==
  ASSUME Segmented, UNCHANGED <<cfg, order, result>>
  PROVE  Segmented'
<1>1. \A b : LinesOf(b)' = LinesOf(b)
  BY DEF LinesOf
<1>2. Discovered' = Discovered
  BY DEF Discovered
<1> QED  BY <1>1, <1>2 DEF Segmented, LabelsOnce

(* A label in the list so far is one of a discovered block. *)
LEMMA LabelsDiscovered ==
  ASSUME WellFormed(cfg), Discovered \subseteq Present(cfg), Segmented,
         result \in Seq(Line(Blocks)), NEW i \in DOMAIN result, result[i].op = "label"
  PROVE  \E b \in Discovered \ {Exit} : result[i] = LabelLine(b)
<1>1. PICK b \in Discovered, m \in Nat : \E k \in DOMAIN LinesOf(b) :
        i = m + k /\ Holds(result, m, LinesOf(b))
  BY DEF Segmented
<1>2. PICK k \in DOMAIN LinesOf(b) : i = m + k /\ Holds(result, m, LinesOf(b))
  BY <1>1
<1>3. result[i] = LinesOf(b)[k]
  BY <1>2 DEF Holds
<1>4. b # Exit /\ LinesOf(b)[k] = LabelLine(b)
  BY <1>2, <1>3, LabelOfBlock
<1> QED  BY <1>3, <1>4

LEMMA DiscoverSegmented ==
  ASSUME Inv, Segmented, Discover
  PROVE  Segmented'
<1>1. /\ pc = "linearize" /\ cfg' = cfg /\ WellFormed(cfg)
      /\ order \in Seq(Blocks) /\ result \in Seq(Line(Blocks))
  BY DEF Inv, CFGInv, TypeInv, CFGTypeOK, Discover
<1>2. PICK b \in Discoverable : order' = Append(order, b) /\ result' = result \o LinesOf(b)
  BY DEF Discover
<1>0. Discovered \subseteq Present(cfg) /\ b \notin Discovered
  <2>1. Discovered \subseteq Present(cfg)
    BY <1>1 DEF Inv, ListInv
  <2>2. CASE order = << >>
    BY <2>1, <2>2 DEF Discovered
  <2>3. CASE order # << >>
    BY <2>1, <2>3 DEF Discoverable, Undiscovered
  <2> QED  BY <2>2, <2>3
<1>3. b \in Present(cfg) /\ b \in Blocks
  BY <1>1, <1>2, DiscoverablePresent, PresentBlocks DEF WellFormed
<1>4. \A c : LinesOf(c)' = LinesOf(c)
  BY <1>1 DEF LinesOf
<1>5. Discovered' = Discovered \cup {b}
  <2>1. /\ order' \in Seq(Blocks) /\ DOMAIN order' = DOMAIN order \cup {Len(order) + 1}
        /\ \A i \in DOMAIN order : order'[i] = order[i]
        /\ order'[Len(order) + 1] = b
    BY <1>1, <1>2, <1>3
  <2>2. Discovered' = {order'[i] : i \in DOMAIN order'}
    BY DEF Discovered
  <2> QED  BY <2>1, <2>2 DEF Discovered
<1>6. PICK lines : lines = LinesOf(b)
  OBVIOUS
<1>7. lines \in Seq(Line(Blocks))
  BY <1>1, <1>3, <1>6, LinesOfBlock
<1>8. /\ Holds(result', Len(result), lines) /\ Len(result) \in Nat
      /\ \A m \in Nat : \A ls : Holds(result, m, ls) => Holds(result', m, ls)
      /\ \A i \in DOMAIN result' :
           i \in DOMAIN result \/ \E k \in DOMAIN lines : i = Len(result) + k
  BY <1>1, <1>2, <1>6, <1>7, ConcatenationHolds
<1>9. ASSUME NEW i \in DOMAIN result'
      PROVE  \E c \in Discovered', m \in Nat : \E k \in DOMAIN LinesOf(c) :
               i = m + k /\ Holds(result', m, LinesOf(c))
  <2>1. CASE i \in DOMAIN result
    BY <1>5, <1>8, <2>1 DEF Segmented
  <2>2. CASE \E k \in DOMAIN lines : i = Len(result) + k
    BY <1>5, <1>6, <1>8, <2>2
  <2> QED  BY <1>8, <1>9, <2>1, <2>2
<1>10. Entry \in Discovered' /\ Holds(result', 0, LinesOf(Entry))
  <2>1. CASE order = << >>
    <3>1. b = Entry
      BY <1>2, <2>1 DEF Discoverable
    <3>2. result = << >>
      <4>1. Discovered = {}
        BY <2>1 DEF Discovered
      <4>2. DOMAIN result = {}
        BY <4>1 DEF Segmented
      <4> QED  BY <1>1, <4>2
    <3>3. Len(result) = 0
      BY <3>2
    <3> QED  BY <1>5, <1>6, <1>8, <3>1, <3>3
  <2>2. CASE order # << >>
    BY <1>5, <1>8, <2>2 DEF Segmented
  <2> QED  BY <2>1, <2>2
<1>11. LabelsOnce(result')
  <2>1. \A i \in DOMAIN result : i \in DOMAIN result' /\ result'[i] = result[i]
    BY <1>1, <1>2, <1>6, <1>7, Concatenation
  <2>2. ASSUME NEW i \in DOMAIN result', i \notin DOMAIN result, result'[i].op = "label"
        PROVE  i = Len(result) + 1 /\ result'[i] = LabelLine(b)
    <3>1. PICK k \in DOMAIN lines : i = Len(result) + k
      BY <1>8, <2>2
    <3>2. result'[i] = lines[k]
      BY <1>8, <3>1 DEF Holds
    <3>3. k = 1 /\ lines[k] = LabelLine(b)
      BY <1>1, <1>3, <1>6, <2>2, <3>2, LabelOfBlock
    <3> QED  BY <3>1, <3>2, <3>3
  <2>3. ASSUME NEW i \in DOMAIN result, result[i].op = "label"
        PROVE  result[i] # LabelLine(b)
    <3>1. PICK c \in Discovered \ {Exit} : result[i] = LabelLine(c)
      BY <1>0, <1>1, <2>3, LabelsDiscovered
    <3> QED  BY <1>0, <3>1 DEF LabelLine
  <2>4. ASSUME NEW i \in DOMAIN result', NEW j \in DOMAIN result',
               result'[i].op = "label", result'[j] = result'[i]
        PROVE  j = i
    <3>1. CASE i \in DOMAIN result /\ j \in DOMAIN result
      BY <2>1, <2>4, <3>1 DEF Segmented, LabelsOnce
    <3>2. CASE i \in DOMAIN result /\ j \notin DOMAIN result
      BY <2>1, <2>2, <2>3, <2>4, <3>2
    <3>3. CASE i \notin DOMAIN result /\ j \in DOMAIN result
      BY <2>1, <2>2, <2>3, <2>4, <3>3
    <3>4. CASE i \notin DOMAIN result /\ j \notin DOMAIN result
      BY <2>2, <2>4, <3>4
    <3> QED  BY <3>1, <3>2, <3>3, <3>4
  <2> QED  BY <2>4 DEF LabelsOnce
<1> QED  BY <1>4, <1>9, <1>10, <1>11 DEF Segmented

(* Nor is the label of the exit there before it is added. *)
LEMMA ExitLabelOnce ==
  ASSUME Inv, Segmented, AddExitLabel, Exit \in Present(cfg)
  PROVE  LabelsOnce(result')
<1> DEFINE n == Len(result)
<1>1. /\ WellFormed(cfg) /\ Discovered \subseteq Present(cfg)
      /\ result \in Seq(Line(Blocks)) /\ n \in Nat /\ DOMAIN result = 1..n
  BY DEF Inv, CFGInv, TypeInv, CFGTypeOK, ListInv, AddExitLabel
<1>2. result' = Append(result, LabelLine(Exit))
  BY DEF AddExitLabel, LabelLine
<1>3. /\ DOMAIN result' = 1..(n + 1) /\ result'[n + 1] = LabelLine(Exit)
      /\ \A i \in DOMAIN result : result'[i] = result[i]
  BY <1>1, <1>2
<1>4. \A i \in DOMAIN result' : i \in DOMAIN result \/ i = n + 1
  BY <1>1, <1>3
<1>5. ASSUME NEW i \in DOMAIN result, result[i].op = "label"
      PROVE  result[i] # LabelLine(Exit)
  <2>1. PICK c \in Discovered \ {Exit} : result[i] = LabelLine(c)
    BY <1>1, <1>5, LabelsDiscovered
  <2> QED  BY <2>1 DEF LabelLine
<1> HIDE DEF n
<1>6. ASSUME NEW i \in DOMAIN result', NEW j \in DOMAIN result',
             result'[i].op = "label", result'[j] = result'[i]
      PROVE  j = i
  <2>1. CASE i \in DOMAIN result /\ j \in DOMAIN result
    BY <1>3, <1>6, <2>1 DEF Segmented, LabelsOnce
  <2>2. CASE ~(i \in DOMAIN result /\ j \in DOMAIN result)
    BY <1>3, <1>4, <1>5, <1>6, <2>2
  <2> QED  BY <2>1, <2>2
<1> QED  BY <1>6 DEF LabelsOnce

-----------------------------------------------------------------------------
(* The place p of a run of the graph that a place q of a run of the list,  *)
(* with the label of the exit after its n lines, stands for.               *)
Carries(n, q, p) ==
  \/ \E b \in Discovered, m \in Nat : \E k \in DOMAIN LinesOf(b) :
       /\ q.at = m + k /\ Holds(result, m, LinesOf(b))
       /\ p = [at |-> Standing(b, k), store |-> q.store]
  \/ q.at \in {n + 1, n + 2} /\ p = [at |-> Exit, store |-> q.store]

(* Where the graph is heard after finitely many steps, so is the list: it  *)
(* takes at most three lines for a step of the graph.                      *)
LEMMA WrittenAnswers ==
  ASSUME Inv, Segmented, AddExitLabel, Exit \in Present(cfg), ReturnsLeave(cfg),
         NEW R, Follows(source, cfg, R),
         NEW h, NEW q \in ListSpot(result'), NEW p0, <<h, p0>> \in R,
         Carries(Len(result), q, p0)
  PROVE  q \in HeardFromIn(result')
<1> DEFINE n == Len(result)
<1>1. /\ WellFormed(cfg) /\ result \in Seq(Line(Blocks)) /\ n \in Nat /\ DOMAIN result = 1..n
      /\ Discovered \subseteq Present(cfg) /\ Present(cfg) \subseteq Blocks /\ Exit \in Blocks
  BY PresentBlocks, BlocksAssumption
     DEF Inv, CFGInv, TypeInv, CFGTypeOK, ListInv, AddExitLabel, WellFormed
<1>2. PICK code : code = result'
  OBVIOUS
<1>3. /\ code \in Seq(Line(Blocks)) /\ Linked(code)
      /\ DOMAIN code = 1..(n + 1) /\ Len(code) = n + 1
      /\ \A i \in DOMAIN result : i \in DOMAIN code /\ code[i] = result[i]
      /\ code[n + 1] = LabelLine(Exit)
  <2>1. code \in Seq(Line(Blocks)) /\ Linked(code)
    BY <1>2, AddExitLabelLinked
  <2>2. code = Append(result, LabelLine(Exit))
    BY <1>2 DEF AddExitLabel, LabelLine
  <2>3. /\ DOMAIN code = 1..(n + 1) /\ Len(code) = n + 1
        /\ \A i \in DOMAIN result : code[i] = result[i]
        /\ code[n + 1] = LabelLine(Exit)
    BY <1>1, <2>2
  <2> QED  BY <1>1, <2>1, <2>3
<1>4. \A i \in DOMAIN result : \E b \in Discovered, m \in Nat : \E k \in DOMAIN LinesOf(b) :
        i = m + k /\ Holds(result, m, LinesOf(b))
  BY DEF Segmented
<1>5. PICK A : A = HeardFromIn(code)
  OBVIOUS
<1>6. \A z \in ListSpot(code) : Heard(code, z) \/ Executed(code, z) \in A => z \in A
  BY <1>5, HeardFromInClosed
<1> HIDE DEF n
<1>7. \A i \in 1..(n + 2) : \A s \in [Vars -> BOOLEAN] : [at |-> i, store |-> s] \in ListSpot(code)
  <2>1. Len(code) + 1 = n + 2
    BY <1>1, <1>3
  <2> QED  BY <2>1 DEF ListSpot
(* The end. *)
<1>8. ASSUME NEW z \in ListSpot(code), z.at \in {n + 1, n + 2}
      PROVE  z \in A
  <2>1. z.store \in [Vars -> BOOLEAN]
    BY DEF ListSpot
  <2>2. [at |-> n + 2, store |-> z.store] \in A
    <3>1. [at |-> n + 2, store |-> z.store] \in ListSpot(code)
      BY <1>1, <1>7, <2>1
    <3>2. Heard(code, [at |-> n + 2, store |-> z.store])
      BY <1>1, <1>3 DEF Heard
    <3> QED  BY <1>6, <3>1, <3>2
  <2>3. CASE z.at = n + 2
    <3>1. z = [at |-> n + 2, store |-> z.store]
      BY <2>3 DEF ListSpot
    <3> QED  BY <2>2, <3>1
  <2>4. CASE z.at = n + 1
    <3>1. code[z.at] = LabelLine(Exit)
      BY <1>3, <2>4
    <3>2. Executed(code, z) = [at |-> n + 2, store |-> z.store]
      <4>1. z.at + 1 = n + 2
        BY <1>1, <2>4
      <4>2. Effect(LabelLine(Exit), z.store) = z.store
        BY EffectOfNone DEF LabelLine
      <4> QED  BY <3>1, <4>1, <4>2 DEF Executed, LabelLine
    <3> QED  BY <1>6, <2>2, <3>2
  <2> QED  BY <1>8, <2>3, <2>4
(* Where a label is. *)
<1>9. ASSUME NEW l, NEW i \in Defines(code, l)
      PROVE  \/ i = n + 1
             \/ /\ l \in Discovered /\ 1 \in DOMAIN LinesOf(l)
                /\ \E m \in Nat : i = m + 1 /\ Holds(result, m, LinesOf(l))
  <2>1. i \in DOMAIN code /\ code[i] = LabelLine(l)
    BY DEF Defines, LabelLine
  <2>2. CASE i \in DOMAIN result
    <3>1. PICK b \in Discovered, m \in Nat : \E k \in DOMAIN LinesOf(b) :
            i = m + k /\ Holds(result, m, LinesOf(b))
      BY <1>4, <2>2
    <3>2. PICK k \in DOMAIN LinesOf(b) : i = m + k /\ Holds(result, m, LinesOf(b))
      BY <3>1
    <3>3. LinesOf(b)[k] = LabelLine(l)
      BY <1>3, <2>1, <2>2, <3>2 DEF Holds
    <3>4. LinesOf(b)[k] = LabelLine(b) /\ k = 1
      BY <1>1, <3>3, LabelOfBlock DEF LabelLine
    <3>5. b = l
      BY <3>3, <3>4 DEF LabelLine
    <3> QED  BY <3>2, <3>4, <3>5
  <2>3. CASE i \notin DOMAIN result
    BY <1>1, <1>3, <2>1, <2>3
  <2> QED  BY <2>2, <2>3
<1>10. PICK S : S = {p \in GraphSpot : \A k : \A z \in ListSpot(code) :
                       <<k, p>> \in R /\ Carries(n, z, p) => z \in A}
  OBVIOUS
<1>11. ASSUME NEW p \in GraphSpot, IsHeard(cfg, p) \/ After(cfg, p) \in S
       PROVE  p \in S
  <2> SUFFICES ASSUME NEW k, NEW z \in ListSpot(code), <<k, p>> \in R, Carries(n, z, p)
               PROVE  z \in A
    BY <1>10
  <2>1. k \in Spot /\ Advances(source, cfg, R, k, p)
    BY DEF Follows
  <2> DEFINE s == p.store
             next == After(cfg, p)
  <2>2. s \in [Vars -> BOOLEAN] /\ p = [at |-> p.at, store |-> s]
    BY DEF GraphSpot, Stores
  <2>3. ASSUME ~IsHeard(cfg, p)
        PROVE  /\ next.store \in [Vars -> BOOLEAN]
               /\ \A y \in ListSpot(code) : Carries(n, y, next) => y \in A
    <3>1. <<k, next>> \in R /\ next \in S
      BY <1>11, <2>1, <2>3 DEF Advances
    <3>2. next \in GraphSpot /\ \A y \in ListSpot(code) : Carries(n, y, next) => y \in A
      BY <1>10, <3>1
    <3> QED  BY <3>2 DEF GraphSpot, Stores
  <2> HIDE DEF s, next
(* The line of a block, and the place that stands for the next one. *)
  <2>4. ASSUME NEW b \in Discovered, NEW m \in Nat, Holds(result, m, LinesOf(b)),
               NEW j \in DOMAIN LinesOf(b), NEW y \in [Vars -> BOOLEAN]
        PROVE  LET at == [at |-> m + j, store |-> y]
               IN  /\ at \in ListSpot(code) /\ at.at \in DOMAIN code
                   /\ code[at.at] = LinesOf(b)[j]
                   /\ Carries(n, at, [at |-> Standing(b, j), store |-> y])
    <3>1. m + j \in DOMAIN result /\ result[m + j] = LinesOf(b)[j]
      BY <2>4 DEF Holds
    <3>2. m + j \in 1..(n + 2) /\ m + j \in DOMAIN code /\ code[m + j] = LinesOf(b)[j]
      BY <1>1, <1>3, <3>1
    <3>3. [at |-> m + j, store |-> y] \in ListSpot(code)
      BY <1>7, <2>4, <3>2
    <3>4. Carries(n, [at |-> m + j, store |-> y], [at |-> Standing(b, j), store |-> y])
      BY <2>4 DEF Carries
    <3> QED  BY <3>2, <3>3, <3>4
(* The label a run goes to stands for the block. *)
  <2>5. ASSUME NEW l, NEW y \in [Vars -> BOOLEAN], Defines(code, l) # {}
        PROVE  LET at == [at |-> Position(code, l), store |-> y]
               IN  /\ at \in ListSpot(code)
                   /\ \/ at \in A
                      \/ /\ Carries(n, at, [at |-> l, store |-> y])
                         /\ l \in Discovered /\ 1 \in DOMAIN LinesOf(l)
                         /\ \E m \in Nat : at.at = m + 1 /\ Holds(result, m, LinesOf(l))
    <3>1. PICK i : i = Position(code, l)
      OBVIOUS
    <3>2. i \in Defines(code, l)
      BY <2>5, <3>1 DEF Position
    <3>3. [at |-> i, store |-> y] \in ListSpot(code)
      <4>1. i \in 1..(n + 2)
        BY <1>1, <1>3, <3>2 DEF Defines
      <4> QED  BY <1>7, <4>1
    <3>4. CASE i = n + 1
      BY <1>8, <3>1, <3>3, <3>4
    <3>5. CASE /\ l \in Discovered /\ 1 \in DOMAIN LinesOf(l)
               /\ \E m \in Nat : i = m + 1 /\ Holds(result, m, LinesOf(l))
      <4>1. PICK m \in Nat : i = m + 1 /\ Holds(result, m, LinesOf(l))
        BY <3>5
      <4>2. l \in Present(cfg) /\ LinesOf(l)[1] = LabelLine(l)
        <5>1. l \in Present(cfg) /\ l # Exit
          BY <1>1, <3>5 DEF LinesOf
        <5> QED  BY <1>1, <5>1, LinesOfBlock DEF LabelLine
      <4>3. Standing(l, 1) = l
        BY <4>2 DEF Standing, LabelLine
      <4>4. Carries(n, [at |-> m + 1, store |-> y], [at |-> Standing(l, 1), store |-> y])
        BY <2>4, <3>5, <4>1
      <4> QED  BY <3>1, <3>3, <3>5, <4>1, <4>3, <4>4
    <3> QED  BY <1>9, <3>2, <3>4, <3>5
(* What a block does comes before what follows it, and its label first. *)
  <2>6. ASSUME NEW m \in Nat, p.at \in Discovered, 1 \in DOMAIN LinesOf(p.at),
               Holds(result, m, LinesOf(p.at))
        PROVE  /\ [at |-> m + 1, store |-> s] \in A
               /\ 2 \in DOMAIN LinesOf(p.at) /\ LinesOf(p.at)[2].op # "goto" =>
                    [at |-> m + 2, store |-> s] \in A
    <3> DEFINE b == p.at
               first == [at |-> m + 1, store |-> s]
               second == [at |-> m + 2, store |-> s]
    <3>1. b \in Present(cfg) /\ b # Exit /\ b \in Blocks
      BY <1>1, <2>6 DEF LinesOf
    <3>2. ASSUME 2 \in DOMAIN LinesOf(b), second \in A
          PROVE  first \in A
      <4>1. LinesOf(b)[1] = LabelLine(b)
        BY <1>1, <3>1, LinesOfBlock DEF LabelLine
      <4>2. first \in ListSpot(code) /\ code[m + 1] = LabelLine(b)
        BY <2>2, <2>4, <2>6, <4>1
      <4>3. Effect(LabelLine(b), s) = s
        BY EffectOfNone DEF LabelLine
      <4>4. Executed(code, first) = second
        BY <4>2, <4>3 DEF Executed, LabelLine
      <4> QED  BY <1>6, <3>2, <4>2, <4>4
    <3>3. ASSUME 2 \in DOMAIN LinesOf(b)
          PROVE  /\ second \in ListSpot(code) /\ m + 2 \in DOMAIN code
                 /\ code[m + 2] = LinesOf(b)[2]
                 /\ Carries(n, second, [at |-> Standing(b, 2), store |-> s])
      BY <2>2, <2>4, <2>6, <3>3
    <3>4. CASE IsBranch(cfg, b) /\ LinesOf(b) = <<LabelLine(b), IfLine(b)>>
      <4>1. 2 \in DOMAIN LinesOf(b) /\ LinesOf(b)[2] = IfLine(b)
        BY <3>4
      <4>2. ~IsHeard(cfg, p)
        BY <3>1, <3>4 DEF IsHeard, IsBranch
      <4>3. PICK l : l = Towards(cfg, b, IF s[cfg.stmt[b].rhs] THEN "true" ELSE "false")
        OBVIOUS
      <4>4. next = [at |-> l, store |-> s]
        BY <1>1, <3>4, <4>3, AfterBranch DEF next, s
      <4>5. l \in Mentioned(code[m + 2])
        BY <3>3, <4>1, <4>3 DEF Mentioned, IfLine
      <4>6. Defines(code, l) # {}
        BY <1>3, <3>3, <4>1, <4>5 DEF Linked
      <4>7. Executed(code, second) = [at |-> Position(code, l), store |-> s]
        <5>1. Effect(IfLine(b), s) = s
          BY EffectOfNone DEF IfLine
        <5> QED  BY <3>3, <4>1, <4>3, <5>1 DEF Executed, IfLine
      <4>8. Executed(code, second) \in A
        BY <2>2, <2>3, <2>5, <4>2, <4>4, <4>6, <4>7
      <4> QED  BY <1>6, <3>2, <3>3, <4>1, <4>8
    <3>5. CASE /\ cfg.stmt[b].op = "empty"
               /\ \E t : Successors(cfg, b) = {t} /\ LinesOf(b) = <<LabelLine(b), GotoLine(t)>>
      <4>1. PICK t : Successors(cfg, b) = {t} /\ LinesOf(b) = <<LabelLine(b), GotoLine(t)>>
        BY <3>5
      <4>2. /\ 2 \in DOMAIN LinesOf(b) /\ LinesOf(b)[2].op = "goto" /\ Standing(b, 2) = t
        BY <4>1 DEF Standing, GotoLine
      <4>3. ~IsHeard(cfg, p)
        BY <3>1, <3>5 DEF IsHeard
      <4>4. next = [at |-> t, store |-> s]
        <5>1. next = [at |-> t, store |-> Effect(cfg.stmt[p.at], p.store)]
          BY <1>1, <3>1, <4>1, AfterOneWay DEF next
        <5> QED  BY <3>5, <5>1, EffectOfNone DEF s
      <4>5. second \in A
        BY <2>3, <3>3, <4>2, <4>3, <4>4
      <4> QED  BY <3>2, <4>2, <4>5
    <3>6. CASE /\ cfg.stmt[b].op \in {"return", "set", "copy", "not", "may", "print"}
               /\ \E t : /\ Successors(cfg, b) = {t}
                         /\ LinesOf(b) = <<LabelLine(b), cfg.stmt[b], GotoLine(t)>>
      <4>1. PICK t : /\ Successors(cfg, b) = {t}
                     /\ LinesOf(b) = <<LabelLine(b), cfg.stmt[b], GotoLine(t)>>
        BY <3>6
      <4>2. PICK line : line = cfg.stmt[b]
        OBVIOUS
      <4>3. /\ 2 \in DOMAIN LinesOf(b) /\ LinesOf(b)[2] = line
            /\ 3 \in DOMAIN LinesOf(b) /\ Standing(b, 3) = t
        BY <4>1, <4>2 DEF Standing, GotoLine
      <4>4. CASE line.op = "print"
        <5>1. Heard(code, second)
          BY <3>3, <4>3, <4>4 DEF Heard
        <5> QED  BY <1>6, <3>2, <3>3, <4>3, <5>1
      <4>5. CASE line.op # "print"
        <5>1. ~IsHeard(cfg, p)
          BY <3>1, <4>2, <4>5 DEF IsHeard
        <5>2. PICK y : y = Effect(line, s)
          OBVIOUS
        <5>3. next = [at |-> t, store |-> y]
          BY <1>1, <3>1, <4>1, <4>2, <5>2, AfterOneWay DEF next, s
        <5>4. y \in [Vars -> BOOLEAN]
          BY <2>3, <5>1, <5>3
        <5>5. CASE line.op = "return"
          <6>1. Executed(code, second) = [at |-> n + 2, store |-> y]
            <7>1. Len(code) + 1 = n + 2
              BY <1>1, <1>3
            <7> QED  BY <3>3, <4>3, <5>2, <5>5, <7>1 DEF Executed
          <6>2. [at |-> n + 2, store |-> y] \in A
            BY <1>1, <1>7, <1>8, <5>4
          <6> QED  BY <1>6, <3>2, <3>3, <4>3, <6>1, <6>2
        <5>6. CASE line.op # "return"
          <6>1. line.op \notin {"goto", "if", "return"}
            BY <3>6, <4>2, <5>6
          <6>2. Executed(code, second) = [at |-> m + 3, store |-> y]
            <7>1. (m + 2) + 1 = m + 3
              OBVIOUS
            <7> QED  BY <3>3, <4>3, <5>2, <6>1, <7>1 DEF Executed
          <6>3. /\ [at |-> m + 3, store |-> y] \in ListSpot(code)
                /\ Carries(n, [at |-> m + 3, store |-> y], [at |-> Standing(b, 3), store |-> y])
            BY <2>4, <2>6, <4>3, <5>4
          <6>4. [at |-> m + 3, store |-> y] \in A
            BY <2>3, <4>3, <5>1, <5>3, <6>3
          <6> QED  BY <1>6, <3>2, <3>3, <4>3, <6>2, <6>4
        <5> QED  BY <5>5, <5>6
      <4> QED  BY <4>4, <4>5
    <3> QED  BY <1>1, <3>1, <3>4, <3>5, <3>6, LinesShape
(* A goto leads to the label of the place it stands for. *)
  <2>7. ASSUME NEW b \in Discovered, NEW m \in Nat, NEW j \in DOMAIN LinesOf(b),
               Holds(result, m, LinesOf(b)), LinesOf(b)[j] = GotoLine(p.at)
        PROVE  [at |-> m + j, store |-> s] \in A
    <3>1. /\ [at |-> m + j, store |-> s] \in ListSpot(code)
          /\ m + j \in DOMAIN code /\ code[m + j] = GotoLine(p.at)
      BY <2>2, <2>4, <2>7
    <3>2. Defines(code, p.at) # {}
      <4>1. p.at \in Mentioned(GotoLine(p.at))
        BY DEF Mentioned, GotoLine
      <4> QED  BY <1>3, <3>1, <4>1 DEF Linked
    <3>3. Executed(code, [at |-> m + j, store |-> s]) = [at |-> Position(code, p.at), store |-> s]
      <4>1. Effect(GotoLine(p.at), s) = s
        BY EffectOfNone DEF GotoLine
      <4> QED  BY <3>1, <4>1 DEF Executed, GotoLine
    <3>4. [at |-> Position(code, p.at), store |-> s] \in A
      BY <2>2, <2>5, <2>6, <3>2
    <3> QED  BY <1>6, <3>1, <3>3, <3>4
  <2>8. CASE z.at \in {n + 1, n + 2}
    BY <1>8, <2>8
  <2>9. CASE z.at \notin {n + 1, n + 2}
    <3>1. PICK b \in Discovered, m \in Nat : \E j \in DOMAIN LinesOf(b) :
            /\ z.at = m + j /\ Holds(result, m, LinesOf(b))
            /\ p = [at |-> Standing(b, j), store |-> z.store]
      BY <2>9 DEF Carries
    <3>2. PICK j \in DOMAIN LinesOf(b) :
            /\ z.at = m + j /\ Holds(result, m, LinesOf(b))
            /\ p = [at |-> Standing(b, j), store |-> z.store]
      BY <3>1
    <3>3. z = [at |-> m + j, store |-> s] /\ Standing(b, j) = p.at
      BY <3>2 DEF s, ListSpot
    <3>4. b \in Present(cfg) /\ b # Exit
      BY <1>1, <3>2 DEF LinesOf
    <3>5. \/ j = 1 /\ LinesOf(b)[j].op # "goto"
          \/ j = 2 /\ LinesOf(b)[j].op # "goto"
          \/ \E t : LinesOf(b)[j] = GotoLine(t)
      <4>1. CASE LinesOf(b) = <<LabelLine(b), IfLine(b)>>
        BY <4>1 DEF LabelLine, IfLine
      <4>2. CASE \E t : LinesOf(b) = <<LabelLine(b), GotoLine(t)>>
        BY <4>2 DEF LabelLine
      <4>3. CASE /\ cfg.stmt[b].op \in {"return", "set", "copy", "not", "may", "print"}
                 /\ \E t : LinesOf(b) = <<LabelLine(b), cfg.stmt[b], GotoLine(t)>>
        BY <4>3 DEF LabelLine
      <4> QED  BY <1>1, <3>4, <4>1, <4>2, <4>3, LinesShape
    <3>6. CASE LinesOf(b)[j].op # "goto"
      <4>1. p.at = b
        BY <3>3, <3>6 DEF Standing
      <4>2. 1 \in DOMAIN LinesOf(b)
        <5>1. LinesOf(b) \in Seq(Line(Blocks)) /\ Len(LinesOf(b)) >= 1
          BY <1>1, <3>4, LinesOfBlock
        <5> QED  BY <5>1
      <4>3. j = 1 \/ j = 2
        BY <3>5, <3>6 DEF GotoLine
      <4>4. /\ [at |-> m + 1, store |-> s] \in A
            /\ 2 \in DOMAIN LinesOf(b) /\ LinesOf(b)[2].op # "goto" =>
                 [at |-> m + 2, store |-> s] \in A
        BY <2>6, <3>2, <4>1, <4>2
      <4> QED  BY <3>2, <3>3, <3>6, <4>3, <4>4
    <3>7. CASE LinesOf(b)[j].op = "goto"
      <4>1. LinesOf(b)[j] = GotoLine(p.at)
        BY <3>3, <3>5, <3>7 DEF Standing, GotoLine
      <4> QED  BY <2>7, <3>2, <3>3, <4>1
    <3> QED  BY <3>6, <3>7
  <2> QED  BY <2>8, <2>9
<1>12. HeardFrom(cfg) \subseteq S
  <2>1. S \in SUBSET GraphSpot
    BY <1>10
  <2> QED  BY <1>11, <2>1, HeardFromLeast
<1>13. p0 \in S
  BY <1>12 DEF Follows
<1> QED  BY <1>2, <1>5, <1>10, <1>13 DEF n

-----------------------------------------------------------------------------
(* The list is followed as the graph was. *)
LEMMA WrittenFollows ==
  ASSUME Inv, Segmented, AddExitLabel, Exit \in Present(cfg), ReturnsLeave(cfg),
         NEW R, Follows(source, cfg, R)
  PROVE  \E T : FollowsIn(source, result', T)
<1> DEFINE code == result'
           n == Len(result)
           T == {r \in Spot \X ListSpot(code) :
                   \/ \E b \in Discovered, m \in Nat : \E k \in DOMAIN LinesOf(b) :
                        /\ r[2].at = m + k /\ Holds(result, m, LinesOf(b))
                        /\ <<r[1], [at |-> Standing(b, k), store |-> r[2].store]>> \in R
                   \/ /\ r[2].at \in {n + 1, n + 2}
                      /\ <<r[1], [at |-> Exit, store |-> r[2].store]>> \in R}
<1>1. /\ WellFormed(cfg) /\ result \in Seq(Line(Blocks)) /\ n \in Nat /\ DOMAIN result = 1..n
      /\ Discovered \subseteq Present(cfg) /\ Present(cfg) \subseteq Blocks /\ Exit \in Blocks
      /\ order \in Seq(Blocks) /\ pc = "linearize"
  BY PresentBlocks, BlocksAssumption
     DEF Inv, CFGInv, TypeInv, CFGTypeOK, ListInv, AddExitLabel, WellFormed
<1>2. /\ code \in Seq(Line(Blocks)) /\ Linked(code)
      /\ DOMAIN code = 1..(n + 1) /\ Len(code) = n + 1
      /\ \A i \in DOMAIN result : i \in DOMAIN code /\ code[i] = result[i]
      /\ code[n + 1] = LabelLine(Exit)
  <2>1. code \in Seq(Line(Blocks)) /\ Linked(code)
    BY AddExitLabelLinked
  <2>2. code = Append(result, LabelLine(Exit))
    BY DEF AddExitLabel, LabelLine
  <2> HIDE DEF code
  <2>3. /\ DOMAIN code = 1..(n + 1) /\ Len(code) = n + 1
        /\ \A i \in DOMAIN result : code[i] = result[i]
        /\ code[n + 1] = LabelLine(Exit)
    BY <1>1, <2>2
  <2> QED  BY <1>1, <2>1, <2>3
<1>3. order # << >>
  <2>1. Discoverable = {}
    BY DEF AddExitLabel
  <2> QED  BY <2>1 DEF Discoverable
<1>4. /\ \A i \in DOMAIN result : \E b \in Discovered, m \in Nat : \E k \in DOMAIN LinesOf(b) :
           i = m + k /\ Holds(result, m, LinesOf(b))
      /\ Entry \in Discovered /\ Holds(result, 0, LinesOf(Entry))
  BY <1>3 DEF Segmented
<1>5. R \subseteq Spot \X GraphSpot
  BY DEF Follows
<1> HIDE DEF code, n
<1>6. ASSUME NEW h, NEW s, NEW b \in Discovered, NEW m \in Nat, NEW k \in DOMAIN LinesOf(b),
             Holds(result, m, LinesOf(b)), <<h, [at |-> Standing(b, k), store |-> s]>> \in R
      PROVE  <<h, [at |-> m + k, store |-> s]>> \in T
  <2>1. h \in Spot /\ [at |-> Standing(b, k), store |-> s] \in GraphSpot
    BY <1>5, <1>6
  <2>2. s \in [Vars -> BOOLEAN]
    <3>1. [at |-> Standing(b, k), store |-> s].store \in Stores
      BY <2>1 DEF GraphSpot
    <3> QED  BY <3>1 DEF Stores
  <2>3. m + k \in 1..(n + 1)
    BY <1>1, <1>6 DEF Holds
  <2>4. [at |-> m + k, store |-> s] \in ListSpot(code)
    BY <1>1, <1>2, <2>2, <2>3 DEF ListSpot
  <2> QED  BY <1>6, <2>1, <2>4
<1>7. ASSUME NEW h, NEW s, NEW i \in {n + 1, n + 2}, <<h, [at |-> Exit, store |-> s]>> \in R
      PROVE  <<h, [at |-> i, store |-> s]>> \in T
  <2>1. h \in Spot /\ [at |-> Exit, store |-> s] \in GraphSpot
    BY <1>5, <1>7
  <2>2. s \in [Vars -> BOOLEAN]
    <3>1. [at |-> Exit, store |-> s].store \in Stores
      BY <2>1 DEF GraphSpot
    <3> QED  BY <3>1 DEF Stores
  <2>3. [at |-> i, store |-> s] \in ListSpot(code)
    BY <1>1, <1>2, <2>2 DEF ListSpot
  <2> QED  BY <1>7, <2>1, <2>3
<1>8. \A h, q : <<h, q>> \in T => 
        /\ h \in Spot /\ q \in ListSpot(code)
        /\ \/ \E b \in Discovered, m \in Nat : \E k \in DOMAIN LinesOf(b) :
                /\ q.at = m + k /\ Holds(result, m, LinesOf(b))
                /\ <<h, [at |-> Standing(b, k), store |-> q.store]>> \in R
           \/ q.at \in {n + 1, n + 2} /\ <<h, [at |-> Exit, store |-> q.store]>> \in R
  OBVIOUS
<1>9. T \subseteq Spot \X ListSpot(code)
  OBVIOUS
<1> HIDE DEF T
<1>10. ASSUME NEW l, NEW i \in Defines(code, l), NEW h, NEW s, <<h, [at |-> l, store |-> s]>> \in R
       PROVE  <<h, [at |-> i, store |-> s]>> \in T
  <2>1. i \in DOMAIN code /\ code[i] = LabelLine(l)
    BY DEF Defines, LabelLine
  <2>2. CASE i \in DOMAIN result
    <3>1. PICK b \in Discovered, m \in Nat : \E k \in DOMAIN LinesOf(b) :
            i = m + k /\ Holds(result, m, LinesOf(b))
      BY <1>4, <2>2
    <3>2. PICK k \in DOMAIN LinesOf(b) : i = m + k /\ Holds(result, m, LinesOf(b))
      BY <3>1
    <3>3. LinesOf(b)[k] = LabelLine(l)
      BY <1>2, <2>1, <2>2, <3>2 DEF Holds
    <3>4. b = l /\ Standing(b, k) = l
      <4>1. LinesOf(b)[k] = LabelLine(b) /\ Standing(b, k) = b
        BY <1>1, <3>3, LabelOfBlock DEF LabelLine
      <4> QED  BY <3>3, <4>1 DEF LabelLine
    <3> QED  BY <1>6, <1>10, <3>2, <3>4
  <2>3. CASE i \notin DOMAIN result
    <3>1. i = n + 1
      BY <1>1, <1>2, <2>1, <2>3
    <3>2. l = Exit
      BY <1>2, <2>1, <3>1 DEF LabelLine
    <3> QED  BY <1>7, <1>10, <3>1, <3>2
  <2> QED  BY <2>2, <2>3
<1>11. ASSUME NEW i \in DOMAIN code, NEW l \in Mentioned(code[i]), NEW h, NEW s,
              <<h, [at |-> l, store |-> s]>> \in R
       PROVE  <<h, [at |-> Position(code, l), store |-> s]>> \in T
  <2>1. Defines(code, l) # {}
    BY <1>2, <1>11 DEF Linked
  <2>2. Position(code, l) \in Defines(code, l)
    BY <2>1 DEF Position
  <2> QED  BY <1>10, <1>11, <2>2
<1>12. Starts(source, 1, T)
  <2>1. ASSUME NEW s \in Stores, NEW h \in Hearings(source, [at |-> 1, store |-> s])
        PROVE  <<h, [at |-> 1, store |-> s]>> \in T
    <3>1. <<h, [at |-> Entry, store |-> s]>> \in R
      BY <2>1 DEF Follows, Starts
    <3>2. Entry \in Present(cfg) /\ Entry # Exit
      BY <1>1, <1>4, BlocksAssumption
    <3>3. 1 \in DOMAIN LinesOf(Entry) /\ LinesOf(Entry)[1] = LabelLine(Entry)
      BY <1>1, <3>2, LinesOfBlock DEF LabelLine
    <3>4. Standing(Entry, 1) = Entry
      BY <3>3 DEF Standing, LabelLine
    <3>5. <<h, [at |-> 0 + 1, store |-> s]>> \in T
      BY <1>4, <1>6, <3>1, <3>3, <3>4
    <3> QED  BY <3>5
  <2> QED  BY <2>1 DEF Starts
<1>14. ASSUME NEW h \in Spot, NEW q \in ListSpot(code), NEW b \in Discovered, NEW m \in Nat,
              NEW k \in DOMAIN LinesOf(b), q.at = m + k, Holds(result, m, LinesOf(b)),
              <<h, [at |-> Standing(b, k), store |-> q.store]>> \in R
       PROVE  AdvancesIn(source, code, T, h, q)
  <2> DEFINE s == q.store
             p == [at |-> b, store |-> s]
             line == LinesOf(b)[k]
             next == [at |-> q.at + 1, store |-> Effect(line, s)]
  <2>1. /\ q.at \in DOMAIN code /\ q.at \in 1..n /\ code[q.at] = line /\ line \in Line(Blocks)
        /\ q = [at |-> q.at, store |-> s] /\ ~Ended(code, q)
        /\ b \in Present(cfg) /\ b # Exit
    <3>1. q.at \in DOMAIN result /\ result[q.at] = line
      BY <1>14 DEF Holds
    <3>2. b # Exit
      BY <1>14 DEF LinesOf
    <3> QED  BY <1>1, <1>2, <3>1, <3>2 DEF ListSpot, Ended
  <2>2. Heard(code, q) <=> line.op = "print"
    BY <2>1 DEF Heard
  <2>3. \A j, st :
          k + 1 \in DOMAIN LinesOf(b) /\ <<j, [at |-> Standing(b, k + 1), store |-> st]>> \in R =>
            <<j, [at |-> q.at + 1, store |-> st]>> \in T
    <3>1. k \in Nat /\ m + (k + 1) = q.at + 1
      <4>1. LinesOf(b) \in Seq(Line(Blocks))
        BY <1>1, <2>1, LinesOfBlock
      <4>2. k \in 1..Len(LinesOf(b))
        BY <4>1
      <4> QED  BY <1>14, <4>2
    <3>2. ASSUME NEW j, NEW st, k + 1 \in DOMAIN LinesOf(b),
                 <<j, [at |-> Standing(b, k + 1), store |-> st]>> \in R
          PROVE  <<j, [at |-> m + (k + 1), store |-> st]>> \in T
      BY <1>6, <1>14, <3>2
    <3> QED  BY <3>1, <3>2
  <2>4. line.op \notin {"goto", "if", "return"} => Executed(code, q) = next
    BY <2>1 DEF Executed
  <2>5. line.op \notin {"set", "copy", "not", "may"} => Effect(line, s) = s
    BY EffectOfNone
  <2>6. ASSUME <<h, p>> \in R
        PROVE  p \in GraphSpot /\ Advances(source, cfg, R, h, p)
    BY <1>5, <2>6 DEF Follows
  <2>7. IsHeard(cfg, p) <=> cfg.stmt[b].op = "print"
    BY <2>1 DEF IsHeard
  <2> HIDE DEF line, next
  <2>8. CASE IsBranch(cfg, b) /\ LinesOf(b) = <<LabelLine(b), IfLine(b)>>
    <3>1. Standing(b, 1) = b /\ Standing(b, 2) = b /\ 2 \in DOMAIN LinesOf(b) /\ k \in {1, 2}
      BY <2>8 DEF Standing, LabelLine, IfLine
    <3>2. <<h, p>> \in R
      BY <1>14, <3>1
    <3>3. CASE k = 1
      <4>1. line = LabelLine(b)
        BY <2>8, <3>3 DEF line
      <4>2. <<h, [at |-> q.at + 1, store |-> s]>> \in T
        BY <2>3, <3>1, <3>2, <3>3
      <4> QED  BY <2>2, <2>4, <2>5, <4>1, <4>2 DEF AdvancesIn, LabelLine, next
    <3>4. CASE k = 2
      <4>1. line = IfLine(b)
        BY <2>8, <3>4 DEF line
      <4>2. ~IsHeard(cfg, p) /\ p \in GraphSpot /\ <<h, After(cfg, p)>> \in R
        BY <2>6, <2>7, <2>8, <3>2 DEF Advances, IsBranch
      <4>3. PICK l : l = Towards(cfg, b, IF s[cfg.stmt[b].rhs] THEN "true" ELSE "false")
        OBVIOUS
      <4>4. <<h, [at |-> l, store |-> s]>> \in R
        BY <1>1, <2>8, <4>2, <4>3, AfterBranch
      <4>5. l \in Mentioned(code[q.at])
        BY <2>1, <4>1, <4>3 DEF Mentioned, IfLine
      <4>6. Executed(code, q) = [at |-> Position(code, l), store |-> s]
        BY <2>1, <2>5, <4>1, <4>3 DEF Executed, IfLine
      <4> QED  BY <1>11, <2>1, <2>2, <4>1, <4>4, <4>5, <4>6 DEF AdvancesIn, IfLine
    <3> QED  BY <3>1, <3>3, <3>4
  <2>9. ASSUME NEW t, k \in DOMAIN LinesOf(b), line = GotoLine(t)
        PROVE  AdvancesIn(source, code, T, h, q)
    <3>1. <<h, [at |-> t, store |-> s]>> \in R
      BY <1>14, <2>9 DEF Standing, GotoLine, line
    <3>2. t \in Mentioned(code[q.at])
      BY <2>1, <2>9 DEF Mentioned, GotoLine
    <3>3. Executed(code, q) = [at |-> Position(code, t), store |-> s]
      BY <2>1, <2>5, <2>9 DEF Executed, GotoLine
    <3> QED  BY <1>11, <2>1, <2>2, <2>9, <3>1, <3>2, <3>3 DEF AdvancesIn, GotoLine
  <2>10. CASE /\ cfg.stmt[b].op = "empty"
              /\ \E t : Successors(cfg, b) = {t} /\ LinesOf(b) = <<LabelLine(b), GotoLine(t)>>
    <3>1. PICK t : Successors(cfg, b) = {t} /\ LinesOf(b) = <<LabelLine(b), GotoLine(t)>>
      BY <2>10
    <3>2. Standing(b, 1) = b /\ Standing(b, 2) = t /\ 2 \in DOMAIN LinesOf(b) /\ k \in {1, 2}
      BY <3>1 DEF Standing, LabelLine, GotoLine
    <3>3. CASE k = 1
      <4>1. line = LabelLine(b) /\ <<h, p>> \in R
        BY <1>14, <3>1, <3>2, <3>3 DEF line
      <4>2. ~IsHeard(cfg, p) /\ p \in GraphSpot /\ <<h, After(cfg, p)>> \in R
        BY <2>6, <2>7, <2>10, <4>1 DEF Advances
      <4>3. After(cfg, p) = [at |-> t, store |-> s]
        <5>1. p.at = b /\ p.store = s
          OBVIOUS
        <5> HIDE DEF p
        <5>2. Successors(cfg, p.at) = {t} /\ p.at \in Present(cfg) /\ p.at # Exit
          BY <2>1, <3>1, <5>1
        <5>3. After(cfg, p) = [at |-> t, store |-> Effect(cfg.stmt[p.at], p.store)]
          BY <1>1, <4>2, <5>2, AfterOneWay
        <5> QED  BY <2>10, <5>1, <5>3, EffectOfNone
      <4>4. <<h, [at |-> q.at + 1, store |-> s]>> \in T
        BY <2>3, <3>2, <3>3, <4>2, <4>3
      <4> QED  BY <2>2, <2>4, <2>5, <4>1, <4>4 DEF AdvancesIn, LabelLine, next
    <3>4. CASE k = 2
      BY <2>9, <3>1, <3>4 DEF line
    <3> QED  BY <3>2, <3>3, <3>4
  <2>11. CASE /\ cfg.stmt[b].op \in {"return", "set", "copy", "not", "may", "print"}
              /\ \E t : /\ Successors(cfg, b) = {t}
                        /\ LinesOf(b) = <<LabelLine(b), cfg.stmt[b], GotoLine(t)>>
    <3>1. PICK t : /\ Successors(cfg, b) = {t}
                   /\ LinesOf(b) = <<LabelLine(b), cfg.stmt[b], GotoLine(t)>>
      BY <2>11
    <3>2. /\ Standing(b, 1) = b /\ Standing(b, 2) = b /\ Standing(b, 3) = t
          /\ 2 \in DOMAIN LinesOf(b) /\ 3 \in DOMAIN LinesOf(b) /\ k \in {1, 2, 3}
      BY <2>11, <3>1 DEF Standing, LabelLine, GotoLine
    <3>3. CASE k = 1
      <4>1. line = LabelLine(b) /\ <<h, p>> \in R
        BY <1>14, <3>1, <3>2, <3>3 DEF line
      <4>2. <<h, [at |-> q.at + 1, store |-> s]>> \in T
        BY <2>3, <3>2, <3>3, <4>1
      <4> QED  BY <2>2, <2>4, <2>5, <4>1, <4>2 DEF AdvancesIn, LabelLine, next
    <3>4. CASE k = 2
      <4>1. line = cfg.stmt[b] /\ <<h, p>> \in R
        BY <1>14, <3>1, <3>2, <3>4 DEF line
      <4>2. p \in GraphSpot /\ Advances(source, cfg, R, h, p)
        BY <2>6, <4>1
      <4>3. After(cfg, p) = [at |-> t, store |-> Effect(line, s)]
        <5>1. p.at = b /\ p.store = s
          OBVIOUS
        <5> HIDE DEF p
        <5>2. Successors(cfg, p.at) = {t} /\ p.at \in Present(cfg) /\ p.at # Exit
          BY <2>1, <3>1, <5>1
        <5>3. After(cfg, p) = [at |-> t, store |-> Effect(cfg.stmt[p.at], p.store)]
          BY <1>1, <4>2, <5>2, AfterOneWay
        <5> QED  BY <4>1, <5>1, <5>3
      <4>4. \A j : <<j, After(cfg, p)>> \in R => <<j, Executed(code, q)>> \in T
        <5>1. CASE line.op # "return"
          <6>1. Executed(code, q) = next
            BY <2>4, <2>11, <4>1, <5>1
          <6> QED  BY <2>3, <3>2, <3>4, <4>3, <6>1 DEF next
        <5>2. CASE line.op = "return"
          <6>1. t = Exit
            <7>1. PICK e \in cfg.edges : e.source = b /\ e.target = t
              BY <3>1 DEF Successors, Leaving
            <7> QED  BY <4>1, <5>2, <7>1 DEF ReturnsLeave
          <6>2. Executed(code, q) = [at |-> n + 2, store |-> Effect(line, s)]
            <7>1. Len(code) + 1 = n + 2
              BY <1>1, <1>2
            <7> QED  BY <2>1, <5>2, <7>1 DEF Executed
          <6> QED  BY <1>7, <4>3, <6>1, <6>2
        <5> QED  BY <5>1, <5>2
      <4>5. CASE line.op = "print"
        <5>1. IsHeard(cfg, p) /\ p.at # Exit /\ Heard(code, q)
          BY <2>1, <2>2, <2>7, <4>1, <4>5
        <5>2. SaysSame(source, h, code, q)
          <6>1. Agrees(source, h, cfg, p)
            BY <4>2, <5>1 DEF Advances
          <6> QED  BY <2>1, <4>1, <5>1, <6>1 DEF Agrees, SaysSame, Shown
        <5> QED  BY <4>2, <4>4, <5>1, <5>2 DEF Advances, AdvancesIn
      <4>6. CASE line.op # "print"
        BY <2>2, <2>7, <4>1, <4>2, <4>4, <4>6 DEF Advances, AdvancesIn
      <4> QED  BY <4>5, <4>6
    <3>5. CASE k = 3
      BY <2>9, <3>1, <3>5 DEF line
    <3> QED  BY <3>2, <3>3, <3>4, <3>5
  <2> QED  BY <1>1, <2>1, <2>8, <2>10, <2>11, LinesShape
<1>15. ASSUME NEW h \in Spot, NEW q \in ListSpot(code), q.at \in {n + 1, n + 2},
              <<h, [at |-> Exit, store |-> q.store]>> \in R
       PROVE  AdvancesIn(source, code, T, h, q)
  <2>1. CASE q.at = n + 1
    <3>1. q.at \in DOMAIN code /\ code[q.at] = LabelLine(Exit)
      BY <1>1, <1>2, <2>1
    <3>2. ~Heard(code, q)
      BY <3>1 DEF Heard, LabelLine
    <3>3. Executed(code, q) = [at |-> n + 2, store |-> q.store]
      <4>1. q.at + 1 = n + 2
        BY <1>1, <2>1
      <4>2. Effect(LabelLine(Exit), q.store) = q.store
        BY EffectOfNone DEF LabelLine
      <4> QED  BY <3>1, <4>1, <4>2 DEF Executed, LabelLine
    <3> QED  BY <1>7, <1>15, <3>2, <3>3 DEF AdvancesIn
  <2>2. CASE q.at = n + 2
    <3> DEFINE p == [at |-> Exit, store |-> q.store]
    <3>1. Ended(code, q) /\ Heard(code, q)
      BY <1>1, <1>2, <2>2 DEF Ended, Heard
    <3>2. p \in GraphSpot /\ IsHeard(cfg, p)
      BY <1>5, <1>15 DEF IsHeard
    <3>3. Agrees(source, h, cfg, p)
      BY <1>15, <3>2 DEF Follows, Advances
    <3>4. SaysSame(source, h, code, q)
      BY <3>1, <3>3 DEF Agrees, SaysSame, Shown
    <3> QED  BY <3>1, <3>4 DEF AdvancesIn
  <2> QED  BY <1>15, <2>1, <2>2
<1>16. ASSUME NEW h \in Spot, NEW q \in ListSpot(code), <<h, q>> \in T
       PROVE  AdvancesIn(source, code, T, h, q)
  BY <1>8, <1>14, <1>15, <1>16
<1>17. ASSUME NEW h, NEW q, <<h, q>> \in T
       PROVE  q \in HeardFromIn(code)
  <2>1. q \in ListSpot(code) /\ \E p : <<h, p>> \in R /\ Carries(n, q, p)
    BY <1>8, <1>17 DEF Carries
  <2>2. PICK p : <<h, p>> \in R /\ Carries(n, q, p)
    BY <2>1
  <2> QED  BY <2>1, <2>2, WrittenAnswers DEF code, n
<1>18. FollowsIn(source, code, T)
  BY <1>9, <1>12, <1>16, <1>17 DEF FollowsIn
<1> QED  BY <1>18 DEF code

-----------------------------------------------------------------------------
(* Where a run goes on, in the lines that are kept, when it was about to    *)
(* execute line i.                                                          *)
Shifted(K, i) == Cardinality(UpTo(K, i - 1)) + 1

LEMMA KeptLines ==
  ASSUME NEW S, NEW code \in Seq(S), NEW K \in SUBSET (DOMAIN code)
  PROVE  /\ Len(Keeping(code, K)) = Cardinality(K) /\ Cardinality(K) \in Nat
         /\ DOMAIN Keeping(code, K) = 1..Cardinality(K)
         /\ Shifted(K, 1) = 1 /\ Shifted(K, Len(code) + 1) = Cardinality(K) + 1
         /\ \A i \in 1..(Len(code) + 1) : Shifted(K, i) \in 1..(Cardinality(K) + 1)
         /\ \A i \in DOMAIN code : Shifted(K, i + 1) = Shifted(K, i) + (IF i \in K THEN 1 ELSE 0)
         /\ \A i \in K : /\ Shifted(K, i) \in DOMAIN Keeping(code, K)
                        /\ Keeping(code, K)[Shifted(K, i)] = code[i]
         /\ \A p \in DOMAIN Keeping(code, K) : \E i \in K : Shifted(K, i) = p
<1> DEFINE nth(k) == CHOOSE i \in K : Cardinality(UpTo(K, i)) = k
           kept == Keeping(code, K)
           n == Len(code)
<1>1. kept = [k \in 1..Cardinality(K) |-> code[nth(k)]]
  BY Zenon DEF Keeping, UpTo
<1> HIDE DEF kept
<1>2. n \in Nat /\ DOMAIN code = 1..n /\ K \in SUBSET (1..n)
  OBVIOUS
<1> HIDE DEF n
<1>3. /\ Cardinality(K) \in Nat /\ Cardinality(UpTo(K, 0)) = 0 /\ UpTo(K, n) = K
      /\ \A m \in Nat : /\ Cardinality(UpTo(K, m)) \in Nat
                        /\ Cardinality(UpTo(K, m)) <= Cardinality(K)
                        /\ m # 0 => Cardinality(UpTo(K, m)) =
                                      Cardinality(UpTo(K, m - 1)) + (IF m \in K THEN 1 ELSE 0)
  BY <1>2, UpToStep
<1>4. DOMAIN kept = 1..Cardinality(K) /\ Len(kept) = Cardinality(K)
  <2>1. DOMAIN kept = 1..Cardinality(K)
    BY <1>1
  <2>2. kept \in Seq(S)
    BY KeepingKeeps DEF kept
  <2> QED  BY <1>3, <2>1, <2>2
<1>5. Shifted(K, 1) = 1 /\ Shifted(K, n + 1) = Cardinality(K) + 1
  <2>1. 1 - 1 = 0 /\ (n + 1) - 1 = n
    BY <1>2
  <2> QED  BY <1>3, <2>1 DEF Shifted
<1>6. \A i \in 1..(n + 1) : Shifted(K, i) \in 1..(Cardinality(K) + 1)
  <2>1. \A i \in 1..(n + 1) : i - 1 \in Nat
    BY <1>2
  <2>2. ASSUME NEW i \in 1..(n + 1)
        PROVE  Shifted(K, i) \in 1..(Cardinality(K) + 1)
    <3>1. PICK c : c = Cardinality(UpTo(K, i - 1))
      OBVIOUS
    <3>2. c \in Nat /\ c <= Cardinality(K)
      BY <1>3, <2>1, <3>1
    <3>3. c + 1 \in 1..(Cardinality(K) + 1)
      BY <1>3, <3>2
    <3> QED  BY <3>1, <3>3 DEF Shifted
  <2> QED  BY <2>2
<1>7. \A i \in DOMAIN code : /\ Shifted(K, i + 1) = Shifted(K, i) + (IF i \in K THEN 1 ELSE 0)
                             /\ Shifted(K, i + 1) = Cardinality(UpTo(K, i)) + 1
                             /\ Shifted(K, i) \in Nat /\ Cardinality(UpTo(K, i)) \in Nat
  <2>1. ASSUME NEW i \in DOMAIN code
        PROVE  /\ Shifted(K, i + 1) = Shifted(K, i) + (IF i \in K THEN 1 ELSE 0)
               /\ Shifted(K, i + 1) = Cardinality(UpTo(K, i)) + 1
               /\ Shifted(K, i) \in Nat /\ Cardinality(UpTo(K, i)) \in Nat
    <3>1. i \in Nat /\ i # 0 /\ (i + 1) - 1 = i /\ i - 1 \in Nat
      BY <1>2
    <3>2. /\ Cardinality(UpTo(K, i)) = Cardinality(UpTo(K, i - 1)) + (IF i \in K THEN 1 ELSE 0)
          /\ Cardinality(UpTo(K, i - 1)) \in Nat /\ Cardinality(UpTo(K, i)) \in Nat
      BY <1>3, <3>1
    <3> QED  BY <3>1, <3>2 DEF Shifted
  <2> QED  BY <2>1
<1>8. \A i \in K : Shifted(K, i) = Cardinality(UpTo(K, i))
  <2>1. ASSUME NEW i \in K
        PROVE  Shifted(K, i) = Cardinality(UpTo(K, i))
    <3>1. i \in DOMAIN code
      OBVIOUS
    <3>2. /\ Shifted(K, i) + 1 = Cardinality(UpTo(K, i)) + 1
          /\ Shifted(K, i) \in Nat /\ Cardinality(UpTo(K, i)) \in Nat
      BY <1>7, <3>1
    <3> QED  BY <3>2
  <2> QED  BY <2>1
<1>9. \A k \in 1..Cardinality(K) : nth(k) \in K /\ Cardinality(UpTo(K, nth(k))) = k
  BY <1>2, NthExists
<1>10. \A p \in DOMAIN kept : \E i \in K : Shifted(K, i) = p
  BY <1>4, <1>8, <1>9
<1>11. ASSUME NEW i \in K
       PROVE  Shifted(K, i) \in DOMAIN kept /\ kept[Shifted(K, i)] = code[i]
  <2> DEFINE p == Shifted(K, i)
  <2>1. p \in 1..(Cardinality(K) + 1) /\ p = Cardinality(UpTo(K, i)) /\ p <= Cardinality(K)
    <3>1. i \in 1..(n + 1) /\ i \in Nat
      BY <1>2
    <3> QED  BY <1>3, <1>6, <1>8, <3>1
  <2>2. p \in 1..Cardinality(K)
    BY <1>3, <2>1
  <2>3. nth(p) = i
    BY <1>2, <1>9, <2>1, <2>2, NthUnique
  <2> HIDE DEF p, nth
  <2>4. p \in DOMAIN kept /\ kept[p] = code[i]
    BY <1>1, <1>4, <2>2, <2>3
  <2> QED  BY <2>4 DEF p
<1> QED  BY <1>3, <1>4, <1>5, <1>6, <1>7, <1>10, <1>11 DEF kept, n

(* The list may do without lines that only lead on to the next one, as     *)
(* long as it keeps the labels that what it keeps mentions.                *)
LeadsOn(code, i) ==
  \/ code[i].op = "label"
  \/ FallsThrough(code, i)

LEMMA KeepingOnce ==
  ASSUME NEW S, NEW code \in Seq(S), NEW K \in SUBSET (DOMAIN code), LabelsOnce(code)
  PROVE  LabelsOnce(Keeping(code, K))
<1> DEFINE kept == Keeping(code, K)
<1>1. /\ \A i \in K : Shifted(K, i) \in DOMAIN kept /\ kept[Shifted(K, i)] = code[i]
      /\ \A p \in DOMAIN kept : \E i \in K : Shifted(K, i) = p
  BY KeptLines
<1> HIDE DEF kept
<1>2. ASSUME NEW p \in DOMAIN kept, NEW q \in DOMAIN kept,
             kept[p].op = "label", kept[q] = kept[p]
      PROVE  q = p
  <2>1. PICK i \in K : Shifted(K, i) = p
    BY <1>1
  <2>2. PICK j \in K : Shifted(K, j) = q
    BY <1>1
  <2>3. j = i
    BY <1>1, <1>2, <2>1, <2>2 DEF LabelsOnce
  <2> QED  BY <2>1, <2>2, <2>3
<1> QED  BY <1>2 DEF LabelsOnce, kept

LEMMA KeepingFollows ==
  ASSUME NEW src, NEW code \in Seq(Line(Blocks)), Linked(code), LabelsOnce(code),
         NEW R, FollowsIn(src, code, R), NEW K \in SUBSET (DOMAIN code),
         \A i \in DOMAIN code \ K : LeadsOn(code, i),
         \A i \in K : \A l \in Mentioned(code[i]) : Defines(code, l) \subseteq K
  PROVE  \E T : FollowsIn(src, Keeping(code, K), T)
<1> DEFINE n == Len(code)
           kept == Keeping(code, K)
           New(i) == Shifted(K, i)
           T == {r \in Spot \X ListSpot(kept) :
                   \E i \in 1..(n + 1) : /\ r[2].at = New(i)
                                         /\ <<r[1], [at |-> i, store |-> r[2].store]>> \in R}
<1>1. /\ n \in Nat /\ DOMAIN code = 1..n /\ Cardinality(K) \in Nat
      /\ Len(kept) = Cardinality(K) /\ DOMAIN kept = 1..Cardinality(K)
      /\ New(1) = 1 /\ New(n + 1) = Cardinality(K) + 1
      /\ \A i \in 1..(n + 1) : New(i) \in 1..(Cardinality(K) + 1)
      /\ \A i \in DOMAIN code : New(i + 1) = New(i) + (IF i \in K THEN 1 ELSE 0)
      /\ \A i \in K : New(i) \in DOMAIN kept /\ kept[New(i)] = code[i]
      /\ \A p \in DOMAIN kept : \E i \in K : New(i) = p
  BY KeptLines
<1>2. /\ R \subseteq Spot \X ListSpot(code) /\ Starts(src, 1, R)
      /\ \A h \in Spot, q \in ListSpot(code) : <<h, q>> \in R => AdvancesIn(src, code, R, h, q)
  BY DEF FollowsIn
<1> HIDE DEF n, kept, New
<1>3. \A h, q : <<h, q>> \in R => /\ h \in Spot /\ q \in ListSpot(code) /\ q.at \in 1..(n + 1)
                                  /\ q.store \in [Vars -> BOOLEAN]
  BY <1>2 DEF ListSpot, n
<1>4. ASSUME NEW h, NEW i, NEW s, <<h, [at |-> i, store |-> s]>> \in R
      PROVE  /\ <<h, [at |-> New(i), store |-> s]>> \in T
             /\ h \in Spot /\ i \in 1..(n + 1) /\ s \in [Vars -> BOOLEAN]
  <2>1. h \in Spot /\ i \in 1..(n + 1) /\ s \in [Vars -> BOOLEAN]
    <3>1. PICK q : q = [at |-> i, store |-> s]
      OBVIOUS
    <3>2. q.at = i /\ q.store = s /\ <<h, q>> \in R
      BY <1>4, <3>1
    <3> QED  BY <1>3, <3>2
  <2>2. [at |-> New(i), store |-> s] \in ListSpot(kept)
    BY <1>1, <2>1 DEF ListSpot
  <2> QED  BY <1>4, <2>1, <2>2
<1>5. \A h, q : <<h, q>> \in T =>
        /\ h \in Spot /\ q \in ListSpot(kept)
        /\ \E i \in 1..(n + 1) : q.at = New(i) /\ <<h, [at |-> i, store |-> q.store]>> \in R
  OBVIOUS
<1>6. T \subseteq Spot \X ListSpot(kept)
  OBVIOUS
<1> HIDE DEF T
(* A line that is left out leads to the next one. *)
<1>7. ASSUME NEW i \in DOMAIN code \ K, NEW s
      PROVE  /\ ~Heard(code, [at |-> i, store |-> s])
             /\ Executed(code, [at |-> i, store |-> s]) = [at |-> i + 1, store |-> s]
             /\ New(i + 1) = New(i) /\ i + 1 \in 1..(n + 1)
  <2> DEFINE q == [at |-> i, store |-> s]
  <2>1. ~Heard(code, q) /\ Effect(code[i], s) = s
    BY <1>7, EffectOfNone DEF Heard, LeadsOn, FallsThrough
  <2>2. New(i + 1) = New(i) + 0 /\ New(i) \in Nat /\ i + 1 \in 1..(n + 1)
    BY <1>1, <1>7
  <2>3. CASE code[i].op = "label"
    <3>1. Executed(code, q) = [at |-> i + 1, store |-> s]
      BY <2>1, <2>3 DEF Executed
    <3> QED  BY <2>1, <2>2, <3>1
  <2>4. CASE FallsThrough(code, i)
    <3>1. PICK l : l = code[i].label
      OBVIOUS
    <3>2. /\ code[i].op = "goto" /\ i + 1 \in DOMAIN code
          /\ code[i + 1] = [op |-> "label", label |-> l]
      BY <1>1, <2>4, <3>1 DEF FallsThrough, n
    <3>3. Position(code, l) \in Defines(code, l)
      BY <3>2 DEF Defines, Position
    <3>4. Position(code, l) = i + 1
      BY <3>2, <3>3 DEF Defines, LabelsOnce
    <3>5. Executed(code, q) = [at |-> i + 1, store |-> s]
      BY <2>1, <3>1, <3>2, <3>4 DEF Executed
    <3> QED  BY <2>1, <2>2, <3>5
  <2> QED  BY <1>7, <2>3, <2>4 DEF LeadsOn
(* So a run that goes on at p in what is kept goes on at a line that is    *)
(* kept, or at the end.                                                    *)
<1>8. ASSUME NEW h, NEW q, <<h, q>> \in T
      PROVE  \E i \in K \cup {n + 1} : q.at = New(i) /\ <<h, [at |-> i, store |-> q.store]>> \in R
  <2> DEFINE D == {i \in 1..(n + 1) : q.at = New(i) /\ <<h, [at |-> i, store |-> q.store]>> \in R}
  <2>1. D # {} /\ D \in SUBSET (1..(n + 1)) /\ n + 1 \in Nat
    <3>1. PICK i \in 1..(n + 1) : q.at = New(i) /\ <<h, [at |-> i, store |-> q.store]>> \in R
      BY <1>5, <1>8
    <3>2. i \in D /\ D \in SUBSET (1..(n + 1))
      BY <3>1
    <3> HIDE DEF D
    <3> QED  BY <1>1, <3>2
  <2>2. PICK i \in D : \A j \in D : j <= i
    <3> HIDE DEF D
    <3> QED  BY <2>1, HasLast
  <2>3. CASE i \in DOMAIN code \ K
    <3>1. <<h, [at |-> i + 1, store |-> q.store]>> \in R
      <4>1. PICK p : p = [at |-> i, store |-> q.store]
        OBVIOUS
      <4>2. AdvancesIn(src, code, R, h, p)
        BY <1>2, <1>3, <2>2, <4>1
      <4> QED  BY <1>7, <2>3, <4>1, <4>2 DEF AdvancesIn
    <3>2. New(i + 1) = New(i)
      BY <1>7, <2>3
    <3>3. i + 1 \in D
      BY <1>1, <2>2, <2>3, <3>1, <3>2
    <3>4. i \in Nat /\ ~(i + 1 <= i)
      BY <1>1, <2>3
    <3> QED  BY <2>2, <3>3, <3>4
  <2>4. CASE i \notin DOMAIN code \ K
    <3>1. i \in K \cup {n + 1}
      BY <1>1, <2>4
    <3> QED  BY <2>2, <3>1
  <2> QED  BY <2>3, <2>4
<1>9. Starts(src, 1, T)
  <2>1. ASSUME NEW s \in Stores, NEW h \in Hearings(src, [at |-> 1, store |-> s])
        PROVE  <<h, [at |-> 1, store |-> s]>> \in T
    <3>1. <<h, [at |-> 1, store |-> s]>> \in R
      BY <1>2, <2>1 DEF Starts
    <3> QED  BY <1>1, <1>4, <3>1
  <2> QED  BY <2>1 DEF Starts
(* A run of what is kept goes on where the run of code does. *)
<1>10. LabelsOnce(kept)
  BY KeepingOnce DEF kept
<1>11. ASSUME NEW i \in K, NEW s
       PROVE  LET to == Executed(code, [at |-> i, store |-> s])
              IN  Executed(kept, [at |-> New(i), store |-> s]) =
                    [at |-> New(to.at), store |-> to.store]
  <2> DEFINE line == code[i]
             y == Effect(line, s)
             p == [at |-> i, store |-> s]
             q == [at |-> New(i), store |-> s]
  <2>1. kept[New(i)] = line /\ New(i) \in DOMAIN kept /\ i \in DOMAIN code
    BY <1>1
  <2>2. ASSUME NEW l \in Mentioned(line)
        PROVE  Position(kept, l) = New(Position(code, l))
    <3>1. Defines(code, l) # {} /\ Defines(code, l) \subseteq K
      BY <2>1, <2>2 DEF Linked
    <3>2. PICK x : x = Position(code, l)
      OBVIOUS
    <3>3. x \in K /\ x \in Defines(code, l)
      BY <3>1, <3>2 DEF Position
    <3>4. New(x) \in Defines(kept, l)
      BY <1>1, <3>3 DEF Defines
    <3>5. Position(kept, l) \in Defines(kept, l)
      BY <3>4 DEF Position
    <3>6. Position(kept, l) = New(x)
      BY <1>10, <3>4, <3>5 DEF Defines, LabelsOnce
    <3> QED  BY <3>2, <3>6
  <2>3. CASE line.op = "goto"
    <3>1. line.label \in Mentioned(line)
      BY <2>3 DEF Mentioned
    <3>2. /\ Executed(code, p) = [at |-> Position(code, line.label), store |-> y]
          /\ Executed(kept, q) = [at |-> Position(kept, line.label), store |-> y]
      BY <2>1, <2>3 DEF Executed
    <3> QED  BY <2>2, <3>1, <3>2
  <2>4. CASE line.op = "if"
    <3>1. PICK l : l = IF s[line.rhs] THEN line.iftrue ELSE line.iffalse
      OBVIOUS
    <3>2. l \in Mentioned(line)
      BY <2>4, <3>1 DEF Mentioned
    <3>3. /\ Executed(code, p) = [at |-> Position(code, l), store |-> y]
          /\ Executed(kept, q) = [at |-> Position(kept, l), store |-> y]
      BY <2>1, <2>4, <3>1 DEF Executed
    <3> QED  BY <2>2, <3>2, <3>3
  <2>5. CASE line.op = "return"
    <3>1. /\ Executed(code, p) = [at |-> n + 1, store |-> y]
          /\ Executed(kept, q) = [at |-> Cardinality(K) + 1, store |-> y]
      BY <1>1, <2>1, <2>5 DEF Executed, n
    <3> QED  BY <1>1, <3>1
  <2>6. CASE line.op \notin {"goto", "if", "return"}
    <3>1. /\ Executed(code, p) = [at |-> i + 1, store |-> y]
          /\ Executed(kept, q) = [at |-> New(i) + 1, store |-> y]
      BY <2>1, <2>6 DEF Executed
    <3>2. New(i + 1) = New(i) + 1
      BY <1>1, <2>1
    <3> QED  BY <3>1, <3>2
  <2> QED  BY <2>3, <2>4, <2>5, <2>6
<1>12. ASSUME NEW i \in K, NEW s, NEW j, <<j, Executed(code, [at |-> i, store |-> s])>> \in R
       PROVE  <<j, Executed(kept, [at |-> New(i), store |-> s])>> \in T
  <2>1. PICK to : to = Executed(code, [at |-> i, store |-> s])
    OBVIOUS
  <2>2. to = [at |-> to.at, store |-> to.store]
    BY <2>1 DEF Executed
  <2>3. <<j, [at |-> to.at, store |-> to.store]>> \in R
    BY <1>12, <2>1, <2>2
  <2>4. <<j, [at |-> New(to.at), store |-> to.store]>> \in T
    BY <1>4, <2>3
  <2> QED  BY <1>11, <2>1, <2>4
<1>13. ASSUME NEW h \in Spot, NEW q \in ListSpot(kept), <<h, q>> \in T
       PROVE  AdvancesIn(src, kept, T, h, q)
  <2>1. PICK i \in K \cup {n + 1} : q.at = New(i) /\ <<h, [at |-> i, store |-> q.store]>> \in R
    BY <1>8, <1>13
  <2> DEFINE p == [at |-> i, store |-> q.store]
  <2>2. p \in ListSpot(code) /\ AdvancesIn(src, code, R, h, p)
    BY <1>2, <1>3, <2>1
  <2>3. CASE i = n + 1
    <3>1. /\ Ended(code, p) /\ Heard(code, p) /\ Shown(code, p) = q.store
      BY <1>1, <2>3 DEF Ended, Heard, Shown, n
    <3>2. /\ Ended(kept, q) /\ Heard(kept, q) /\ Shown(kept, q) = q.store
      BY <1>1, <2>1, <2>3 DEF Ended, Heard, Shown
    <3> QED  BY <2>2, <3>1, <3>2 DEF AdvancesIn, SaysSame
  <2>4. CASE i \in K
    <3>1. /\ kept[q.at] = code[p.at] /\ p.store = q.store
          /\ q.at \in DOMAIN kept /\ p.at \in DOMAIN code
      BY <1>1, <2>1, <2>4
    <3>2. ~Ended(code, p) /\ ~Ended(kept, q)
      BY <1>1, <3>1 DEF Ended, n
    <3>3. (Heard(code, p) <=> Heard(kept, q)) /\ Shown(code, p) = Shown(kept, q)
      BY <3>1, <3>2 DEF Heard, Shown
    <3>4. q = [at |-> New(i), store |-> q.store]
      BY <2>1 DEF ListSpot
    <3>5. \A j : <<j, Executed(code, p)>> \in R => <<j, Executed(kept, q)>> \in T
      BY <1>12, <2>4, <3>4
    <3> HIDE DEF p
    <3> QED  BY <2>2, <3>2, <3>3, <3>5 DEF AdvancesIn, SaysSame
  <2> QED  BY <2>3, <2>4
(* It is heard after finitely many steps where the run of code is. *)
<1>14. PICK A : A = HeardFromIn(kept)
  OBVIOUS
<1>15. PICK S : S = {p \in ListSpot(code) : [at |-> New(p.at), store |-> p.store] \in A}
  OBVIOUS
<1>16. ASSUME NEW p \in ListSpot(code), Heard(code, p) \/ Executed(code, p) \in S
       PROVE  p \in S
  <2> DEFINE q == [at |-> New(p.at), store |-> p.store]
  <2>1. /\ p = [at |-> p.at, store |-> p.store] /\ p.at \in 1..(n + 1)
        /\ p.store \in [Vars -> BOOLEAN]
    BY DEF ListSpot, n
  <2>2. q \in ListSpot(kept)
    BY <1>1, <2>1 DEF ListSpot
  <2>3. CASE p.at \notin DOMAIN code
    <3>1. p.at = n + 1
      BY <1>1, <2>1, <2>3
    <3>2. Heard(kept, q)
      BY <1>1, <3>1 DEF Heard
    <3> QED  BY <1>14, <1>15, <2>2, <3>2, HeardFromInClosed
  <2>4. CASE p.at \in DOMAIN code \ K
    <3>1. /\ ~Heard(code, p) /\ New(p.at + 1) = New(p.at)
          /\ Executed(code, p) = [at |-> p.at + 1, store |-> p.store]
      BY <1>7, <2>1, <2>4
    <3>2. Executed(code, p) \in S
      BY <1>16, <3>1
    <3>3. q \in A
      BY <1>15, <3>1, <3>2
    <3> QED  BY <1>15, <3>3
  <2>5. CASE p.at \in K
    <3>1. Heard(code, p) => Heard(kept, q)
      BY <1>1, <2>5 DEF Heard
    <3>2. /\ Executed(kept, q).at = New(Executed(code, p).at)
          /\ Executed(kept, q).store = Executed(code, p).store
          /\ Executed(kept, q) = [at |-> New(Executed(code, p).at), store |-> Executed(code, p).store]
      BY <1>11, <2>1, <2>5
    <3>3. Executed(code, p) \in S => Executed(kept, q) \in A
      BY <1>15, <3>2
    <3>4. q \in A
      BY <1>14, <1>16, <2>2, <3>1, <3>3, HeardFromInClosed
    <3> QED  BY <1>15, <3>4
  <2> QED  BY <2>3, <2>4, <2>5
<1>17. HeardFromIn(code) \subseteq S
  <2>1. S \in SUBSET ListSpot(code)
    BY <1>15
  <2> QED  BY <1>16, <2>1, HeardFromInLeast
<1>18. ASSUME NEW h, NEW q, <<h, q>> \in T
       PROVE  q \in HeardFromIn(kept)
  <2>1. PICK i \in 1..(n + 1) : q.at = New(i) /\ <<h, [at |-> i, store |-> q.store]>> \in R
    BY <1>5, <1>18
  <2>2. PICK p : p = [at |-> i, store |-> q.store]
    OBVIOUS
  <2>3. p \in HeardFromIn(code)
    BY <2>1, <2>2 DEF FollowsIn
  <2>4. [at |-> New(i), store |-> q.store] \in A
    BY <1>15, <1>17, <2>2, <2>3
  <2>5. q = [at |-> New(i), store |-> q.store]
    BY <1>5, <1>18, <2>1 DEF ListSpot
  <2> QED  BY <1>14, <2>4, <2>5
<1>19. FollowsIn(src, kept, T)
  BY <1>6, <1>9, <1>13, <1>18 DEF FollowsIn
<1> QED  BY <1>19 DEF kept

-----------------------------------------------------------------------------
(* Before the runs both are where they start; and at each stage there is a *)
(* relation that leads from what a run of the source is heard of next to   *)
(* where the other run may be.                                             *)
MeaningInv ==
  /\ pc # "run" => ran = rerun /\ ran.at = 1 /\ ran.store \in Stores
  /\ pc \in Editing \cup {"linearize"} => ReturnsLeave(cfg) /\ \E R : Follows(source, cfg, R)
  /\ pc = "linearize" => Segmented
  /\ pc \in {"gotos", "labels", "run"} => LabelsOnce(result)
  /\ pc \in {"gotos", "labels"} => \E R : FollowsIn(source, result, R)
  /\ pc = "run" =>
       \E R : FollowsIn(source, result, R) /\ \A h \in Hearings(source, ran) : <<h, rerun>> \in R

LEMMA InitMeaning == Init => MeaningInv
<1> SUFFICES ASSUME Init PROVE MeaningInv
  OBVIOUS
<1>1. pc = "build"
  BY DEF Init
<1>2. ran = rerun /\ ran.at = 1 /\ ran.store \in Stores
  BY DEF Init
<1> QED  BY <1>1, <1>2 DEF MeaningInv, Editing

LEMMA GraphMeaning ==
  ASSUME CFGInv, MeaningInv, Build \/ Clean \/ Edits
  PROVE  MeaningInv'
<1>1. /\ UNCHANGED <<source, ran, rerun>> /\ pc' \in Editing /\ pc \in {"build"} \cup Editing
      /\ pc # "build" => WellFormed(cfg) /\ ReturnsLeave(cfg) /\ \E R : Follows(source, cfg, R)
      /\ source \in Sources
  <2>1. /\ UNCHANGED <<source, ran, rerun>> /\ pc' \in Editing /\ pc \in {"build"} \cup Editing
    BY DEF Build, Clean, Edits, RemoveUnreachableBlocks, FoldRedundantBranches, RemoveEmptyBlock,
           CleanAgain, RemoveStatement, DecideBranch, Edit, SplitBranch, SplitEdge, Editing
  <2> QED  BY <2>1 DEF CFGInv, MeaningInv
<1>2. ASSUME NEW g, cfg' = g, ReturnsLeave(g), \E R : Follows(source, g, R)
      PROVE  MeaningInv'
  <2>1. /\ source' = source /\ cfg' = g /\ ran' = ran /\ rerun' = rerun
        /\ pc' \in Editing /\ pc # "run"
    BY <1>1, <1>2 DEF Editing
  <2>2. pc' \notin {"linearize", "gotos", "labels", "run"}
    BY <2>1 DEF Editing
  <2>3. ran = rerun /\ ran.at = 1 /\ ran.store \in Stores
    BY <2>1 DEF MeaningInv
  <2> QED  BY <1>2, <2>1, <2>2, <2>3 DEF MeaningInv
<1>3. CASE Build
  <2>1. cfg' = GraphOf(source)
    BY <1>3 DEF Build
  <2> QED  BY <1>1, <1>2, <2>1, BuiltFollows, BuiltReturnsLeave
<1>4. CASE RemoveUnreachableBlocks
  <2>1. pc # "build" /\ cfg' = RipOut(cfg, Blocks \ Reach(cfg, Entry, {}))
    BY <1>4 DEF RemoveUnreachableBlocks
  <2> QED  BY <1>1, <1>2, <2>1, UnreachableFollows, RippedReturnsLeave
<1>5. ASSUME NEW b \in Blocks, IsBranch(cfg, b), NEW d,
             cfg' = SetBranchDirection(cfg, b, d), pc # "build",
             \A s \in Stores :
               Towards(cfg, b, IF s[cfg.stmt[b].rhs] THEN "true" ELSE "false") = Towards(cfg, b, d)
      PROVE  MeaningInv'
  <2>1. ReturnsLeave(cfg')
    BY <1>1, <1>5, DirectedReturnsLeave
  <2>2. PICK R : Follows(source, cfg, R)
    BY <1>1, <1>5
  <2>3. Follows(source, cfg', R)
    BY <1>1, <1>5, <2>2, DirectedFollows
  <2> QED  BY <1>2, <2>1, <2>3
<1>6. CASE UNCHANGED cfg /\ pc # "build"
  BY <1>1, <1>2, <1>6
<1>7. CASE FoldRedundantBranches
  <2>1. pc # "build"
    BY <1>7 DEF FoldRedundantBranches
  <2>2. CASE Redundant(cfg) = {}
    BY <1>6, <1>7, <2>1, <2>2 DEF FoldRedundantBranches
  <2>3. CASE Redundant(cfg) # {}
    <3>1. PICK b \in Redundant(cfg) : cfg' = SetBranchDirection(cfg, b, "true")
      BY <1>7, <2>3 DEF FoldRedundantBranches
    <3>2. /\ b \in Blocks /\ IsBranch(cfg, b)
          /\ Towards(cfg, b, "true") = Towards(cfg, b, "false")
      BY <1>1, <2>1, PresentBlocks DEF Redundant, WellFormed
    <3> QED  BY <1>5, <2>1, <3>1, <3>2
  <2> QED  BY <2>2, <2>3
<1>8. ASSUME NEW b \in Blocks, RemoveEmptyBlock(b)
      PROVE  MeaningInv'
  <2>1. pc # "build" /\ Removable(cfg, b) /\ cfg' = Bypass(cfg, b)
    BY <1>8 DEF RemoveEmptyBlock
  <2> QED  BY <1>1, <1>2, <2>1, BypassFollows, BypassReturnsLeave
<1>9. CASE CleanAgain
  BY <1>6, <1>9 DEF CleanAgain
<1>10. ASSUME NEW b \in Blocks, RemoveStatement(b)
       PROVE  MeaningInv'
  <2>1. /\ pc # "build" /\ cfg.stmt[b].op = "copy" /\ cfg.stmt[b].lhs = cfg.stmt[b].rhs
        /\ cfg' = RemoveBlock(cfg, b)
    BY <1>10 DEF RemoveStatement, Edit
  <2> QED  BY <1>1, <1>2, <2>1, RemovedFollows, RemovedReturnsLeave
<1>11. ASSUME NEW b \in Blocks, DecideBranch(b)
       PROVE  MeaningInv'
  <2> DEFINE x == cfg.stmt[b].rhs
  <2>1. /\ pc # "build" /\ IsBranch(cfg, b) /\ x \in Known
        /\ cfg' = SetBranchDirection(cfg, b, IF KnownValue[x] THEN "true" ELSE "false")
    BY <1>11 DEF DecideBranch, Edit
  <2>2. \A s \in Stores : s[x] = KnownValue[x]
    BY <2>1 DEF Stores
  <2> QED  BY <1>5, <2>1, <2>2
<1>12. ASSUME NEW b \in Blocks, SplitBranch(b)
       PROVE  MeaningInv'
  BY <1>6, <1>12 DEF SplitBranch
<1>13. ASSUME NEW e \in splitting, SplitEdge(e)
       PROVE  MeaningInv'
  <2>1. pc # "build"
    BY <1>13 DEF SplitEdge
  <2>2. PICK c \in Spare :
           /\ c \in Blocks \ (Present(cfg) \cup {Exit})
           /\ e \in cfg.edges /\ IsBranch(cfg, e.target)
           /\ cfg' = Split(cfg, e, c)
    BY <1>13, SplitEdgeCopy
  <2> QED  BY <1>1, <1>2, <2>1, <2>2, SplitFollows, SplitReturnsLeave
<1> QED  BY <1>3, <1>4, <1>7, <1>8, <1>9, <1>10, <1>11, <1>12, <1>13 DEF Clean, Edits

LEMMA ListMeaning ==
  ASSUME Inv, MeaningInv, StopEditing \/ Linearize
  PROVE  MeaningInv'
<1>1. /\ UNCHANGED <<source, cfg, ran, rerun>> /\ pc # "run"
      /\ ran = rerun /\ ran.at = 1 /\ ran.store \in Stores
  <2>1. UNCHANGED <<source, cfg, ran, rerun>> /\ pc # "run"
    BY DEF StopEditing, Linearize, Discover, AddExitLabel, DropGotos, DropLabels
  <2> QED  BY <2>1 DEF MeaningInv
<1>2. /\ result \in Seq(Line(Blocks)) /\ ran \in Spot
  BY DEF Inv, TypeInv, CFGTypeOK
<1>3. CASE StopEditing
  <2>1. /\ pc \in Editing /\ pc' = "linearize" /\ order' = << >> /\ result' = << >>
    BY <1>3 DEF StopEditing, Editing, Inv, ListInv
  <2>2. Segmented'
    BY <2>1 DEF Segmented, LabelsOnce
  <2> QED  BY <1>1, <2>1, <2>2 DEF MeaningInv, Editing
<1>4. CASE Discover
  <2>1. pc = "linearize" /\ pc' = "linearize"
    BY <1>4 DEF Discover
  <2>2. Segmented'
    BY <1>4, <2>1, DiscoverSegmented DEF MeaningInv
  <2> QED  BY <1>1, <2>1, <2>2 DEF MeaningInv, Editing
<1>5. CASE AddExitLabel
  <2>1. pc = "linearize" /\ Segmented /\ ReturnsLeave(cfg) /\ \E R : Follows(source, cfg, R)
    BY <1>5 DEF AddExitLabel, MeaningInv
  <2>2. CASE Exit \in Present(cfg)
    <3>1. pc' = "gotos"
      BY <1>5, <2>2 DEF AddExitLabel
    <3>2. \E T : FollowsIn(source, result', T)
      BY <1>5, <2>1, <2>2, WrittenFollows
    <3>3. LabelsOnce(result')
      BY <1>5, <2>1, <2>2, ExitLabelOnce
    <3>4. LabelsOnce(result)'
      BY <3>3 DEF LabelsOnce
    <3> QED  BY <1>1, <3>1, <3>2, <3>4 DEF MeaningInv, Editing
  <2>3. CASE Exit \notin Present(cfg)
    <3>1. pc' = "assertion failed"
      BY <1>5, <2>3 DEF AddExitLabel
    <3> QED  BY <1>1, <3>1 DEF MeaningInv, Editing
  <2> QED  BY <2>2, <2>3
<1>6. CASE DropGotos
  <2> DEFINE K == {i \in DOMAIN result : ~FallsThrough(result, i)}
  <2>1. pc = "gotos" /\ pc' = "labels" /\ result' = Keeping(result, K)
    BY <1>6 DEF DropGotos
  <2>2. Linked(result) /\ LabelsOnce(result)
    BY <2>1 DEF Inv, ListInv, MeaningInv
  <2>3. PICK R : FollowsIn(source, result, R)
    BY <2>1 DEF MeaningInv
  <2>4. /\ K \in SUBSET (DOMAIN result)
        /\ \A i \in DOMAIN result \ K : LeadsOn(result, i)
        /\ \A i \in K : \A l \in Mentioned(result[i]) : Defines(result, l) \subseteq K
    BY DEF LeadsOn, FallsThrough, Defines
  <2> HIDE DEF K
  <2>5. \E T : FollowsIn(source, result', T)
    BY <1>2, <2>1, <2>2, <2>3, <2>4, KeepingFollows
  <2>6. LabelsOnce(result)'
    <3>1. LabelsOnce(result')
      BY <1>2, <2>1, <2>2, <2>4, KeepingOnce
    <3> QED  BY <3>1 DEF LabelsOnce
  <2> QED  BY <1>1, <2>1, <2>5, <2>6 DEF MeaningInv, Editing
<1>7. CASE DropLabels
  <2> DEFINE K == {i \in DOMAIN result : ~Unused(result, i)}
  <2>1. pc = "labels" /\ pc' = "run" /\ result' = Keeping(result, K)
    BY <1>7 DEF DropLabels
  <2>2. Linked(result) /\ LabelsOnce(result)
    BY <2>1 DEF Inv, ListInv, MeaningInv
  <2>3. PICK R : FollowsIn(source, result, R)
    BY <2>1 DEF MeaningInv
  <2>4. /\ K \in SUBSET (DOMAIN result)
        /\ \A i \in DOMAIN result \ K : LeadsOn(result, i)
    BY DEF LeadsOn, Unused
  <2>5. ASSUME NEW i \in K, NEW l \in Mentioned(result[i]), NEW j \in Defines(result, l)
        PROVE  j \in K
    <3>1. j \in DOMAIN result /\ result[j].label = l
      BY DEF Defines
    <3>2. i \in DOMAIN result
      OBVIOUS
    <3> QED  BY <3>1, <3>2, <2>5 DEF Unused
  <2> HIDE DEF K
  <2>6. PICK T : FollowsIn(source, result', T)
    BY <1>2, <2>1, <2>2, <2>3, <2>4, <2>5, KeepingFollows
  <2>7. \A h \in Hearings(source, ran) : <<h, rerun>> \in T
    <3>1. ran = [at |-> 1, store |-> ran.store]
      BY <1>1, <1>2 DEF Spot
    <3> QED  BY <1>1, <2>6, <3>1 DEF FollowsIn, Starts
  <2>8. LabelsOnce(result)'
    <3>1. LabelsOnce(result')
      BY <1>2, <2>1, <2>2, <2>4, KeepingOnce
    <3> QED  BY <3>1 DEF LabelsOnce
  <2> QED  BY <1>1, <2>1, <2>6, <2>7, <2>8 DEF MeaningInv, Editing
<1> QED  BY <1>3, <1>4, <1>5, <1>6, <1>7 DEF Linearize

LEMMA RunMeaning ==
  ASSUME Inv, MeaningInv, Run
  PROVE  MeaningInv'
<1>1. UNCHANGED <<pc, source, result>> /\ pc = "run"
  BY DEF Run, RunSource, RunResult, RunBoth
<1>2. PICK R : FollowsIn(source, result, R) /\ \A h \in Hearings(source, ran) : <<h, rerun>> \in R
  BY <1>1 DEF MeaningInv
<1>3. ran \in Spot
  BY DEF Inv, TypeInv, CFGTypeOK
<1>4. \A h \in Spot : <<h, rerun>> \in R => AdvancesIn(source, result, R, h, rerun)
  BY <1>2 DEF FollowsIn
<1>5. ASSUME \A h \in Hearings(source, ran') : <<h, rerun'>> \in R
      PROVE  MeaningInv'
  <2>1. LabelsOnce(result)'
    BY <1>1 DEF MeaningInv, LabelsOnce
  <2> QED  BY <1>1, <1>2, <1>5, <2>1 DEF MeaningInv, Editing
<1>6. CASE RunSource
  BY <1>2, <1>3, <1>5, <1>6, HearingsSilent DEF RunSource
<1>7. CASE RunResult
  <2>1. /\ Heard(source, ran) /\ ~Heard(result, rerun)
        /\ rerun' = Executed(result, rerun) /\ ran' = ran
    BY <1>7 DEF RunResult
  <2>2. Hearings(source, ran) = {ran}
    BY <1>3, <2>1, HearingsHeard
  <2>3. <<ran, rerun'>> \in R
    BY <1>2, <1>3, <1>4, <2>1, <2>2 DEF AdvancesIn
  <2> QED  BY <1>5, <2>1, <2>2, <2>3
<1>8. CASE RunBoth
  <2>1. /\ Heard(source, ran) /\ Heard(result, rerun) /\ ~Ended(result, rerun)
        /\ rerun' = Executed(result, rerun) /\ ran' = Executed(source, ran)
    BY <1>8 DEF RunBoth
  <2>2. Hearings(source, ran) = {ran}
    BY <1>3, <2>1, HearingsHeard
  <2>3. \A k \in Hearings(source, ran') : <<k, rerun'>> \in R
    BY <1>2, <1>3, <1>4, <2>1, <2>2 DEF AdvancesIn
  <2> QED  BY <1>5, <2>3
<1> QED  BY <1>6, <1>7, <1>8 DEF Run

LEMMA MeaningInductive == Spec => []MeaningInv
<1>1. Inv /\ MeaningInv /\ [Next]_vars => MeaningInv'
  <2> SUFFICES ASSUME Inv, MeaningInv, [Next]_vars PROVE MeaningInv'
    OBVIOUS
  <2>1. CASE Next
    BY <2>1, GraphMeaning, ListMeaning, RunMeaning DEF Next, Inv
  <2>2. CASE UNCHANGED vars
    <3>1. UNCHANGED <<pc, source, cfg, order, result, ran, rerun>>
      BY <2>2 DEF vars
    <3>2. Segmented => Segmented'
      BY <3>1, SegmentedStays
    <3>3. LabelsOnce(result) => LabelsOnce(result)'
      BY <3>1 DEF LabelsOnce
    <3> QED  BY <3>1, <3>2, <3>3 DEF MeaningInv
  <2> QED  BY <2>1, <2>2
<1> QED  BY <1>1, InitMeaning, InvInductive, PTL DEF Spec

(* What clean, the edits and get_linear_statements make of a method means  *)
(* what the method meant: whatever it is, whatever edits are made and      *)
(* however a run of it starts.                                             *)
THEOREM Meaning == Spec => []SameRuns
<1>1. Inv /\ MeaningInv => SameRuns
  <2> SUFFICES ASSUME Inv, MeaningInv, pc = "run", Heard(source, ran), Heard(result, rerun)
               PROVE  SaysSame(source, ran, result, rerun)
    BY DEF SameRuns, SaysSame
  <2>1. PICK R : FollowsIn(source, result, R) /\ \A h \in Hearings(source, ran) : <<h, rerun>> \in R
    BY DEF MeaningInv
  <2>2. ran \in Spot
    BY DEF Inv, TypeInv, CFGTypeOK
  <2>3. <<ran, rerun>> \in R
    BY <2>1, <2>2, HearingsHeard
  <2> QED  BY <2>1, <2>3 DEF FollowsIn, AdvancesIn
<1> QED  BY <1>1, InvInductive, MeaningInductive, PTL

(* While the source is heard of, what is written back is heard of after    *)
(* finitely many steps of its own: get_linear_statements and the edits     *)
(* leave no loop that says nothing where the source had none.              *)
ResultHeard == pc = "run" /\ Heard(source, ran) => rerun \in HeardFromIn(result)

(* However a method is edited and written back, the result answers each    *)
(* time the source speaks, whatever the method and however it is run: the  *)
(* safety part of ResultAnswers, which a fair scheduler completes.         *)
THEOREM ResultHeardHolds == Spec => []ResultHeard
<1>1. Inv /\ MeaningInv => ResultHeard
  <2> SUFFICES ASSUME Inv, MeaningInv, pc = "run", Heard(source, ran)
               PROVE  rerun \in HeardFromIn(result)
    BY DEF ResultHeard
  <2>1. PICK R : FollowsIn(source, result, R) /\ \A h \in Hearings(source, ran) : <<h, rerun>> \in R
    BY DEF MeaningInv
  <2>2. ran \in Spot
    BY DEF Inv, TypeInv, CFGTypeOK
  <2>3. <<ran, rerun>> \in R
    BY <2>1, <2>2, HearingsHeard
  <2> QED  BY <2>1, <2>3 DEF FollowsIn
<1> QED  BY <1>1, InvInductive, MeaningInductive, PTL

(* Every label that a line of the result mentions is there, once.          *)
ReadableAgain ==
  pc = "run" => \A i \in DOMAIN result : \A l \in Mentioned(result[i]) :
                  \E j \in DOMAIN result : Defines(result, l) = {j}

(* What is written back can be read in again: add_statements looks up one  *)
(* block for each label, and the next pass of the manager builds its graph *)
(* from the list that this one left.                                       *)
THEOREM ReadableAgainHolds == Spec => []ReadableAgain
<1>1. Inv /\ MeaningInv => ReadableAgain
  <2> SUFFICES ASSUME Inv, MeaningInv, pc = "run",
                      NEW i \in DOMAIN result, NEW l \in Mentioned(result[i])
               PROVE  \E j \in DOMAIN result : Defines(result, l) = {j}
    BY DEF ReadableAgain
  <2>1. Linked(result) /\ LabelsOnce(result)
    BY DEF Inv, ListInv, MeaningInv
  <2>2. PICK j \in Defines(result, l) : TRUE
    BY <2>1 DEF Linked
  <2>3. j \in DOMAIN result /\ result[j] = [op |-> "label", label |-> l]
    BY <2>2 DEF Defines
  <2>4. ASSUME NEW k \in Defines(result, l)
        PROVE  k = j
    <3>1. k \in DOMAIN result /\ result[k] = [op |-> "label", label |-> l]
      BY <2>4 DEF Defines
    <3> QED  BY <2>1, <2>3, <3>1 DEF LabelsOnce
  <2>5. Defines(result, l) = {j}
    BY <2>2, <2>4
  <2> QED  BY <2>3, <2>5
<1> QED  BY <1>1, InvInductive, MeaningInductive, PTL

-----------------------------------------------------------------------------
(* The method is written back: what is left to do, from what matters most  *)
(* to what matters least.                                                  *)
EditsLeft == MaxEdits - edits
Extent == Size(cfg)[1] + Size(cfg)[2]

Stage ==
  CASE pc = "build" -> 6
    [] pc = "split" -> 5
    [] pc \in {"unreachable", "fold", "empty", "clean", "edited"} -> 4
    [] pc = "linearize" -> 3
    [] pc = "gotos" -> 2
    [] pc = "labels" -> 1
    [] OTHER -> 0

Backlog ==
  CASE pc = "split" -> Cardinality(splitting)
    [] pc \in {"unreachable", "clean", "edited"} -> Extent
    [] pc \in {"fold", "empty"} -> last[1] + last[2]
    [] pc = "linearize" -> Cardinality(Blocks \ Discovered)
    [] OTHER -> 0

SweepsLeft ==
  CASE pc \in {"unreachable", "edited"} -> 3
    [] pc = "fold" -> 2
    [] pc = "empty" -> 1
    [] OTHER -> 0

RoundLeft == IF pc \in {"fold", "empty"} THEN Extent ELSE 0

Rank == <<EditsLeft, Stage, Backlog, SweepsLeft, RoundLeft>>

Lower(r, s) == \E i \in 1..5 : r[i] < s[i] /\ \A j \in 1..(i - 1) : r[j] = s[j]

(* A round of clean has not made the graph larger than it found it, and a  *)
(* split under way has an edge to copy the branch for.                     *)
RoundInv ==
  /\ pc \in {"fold", "empty"} => Size(cfg)[1] <= last[1] /\ Size(cfg)[2] <= last[2]
  /\ pc = "split" => splitting # {}

LEMMA LowerAt ==
  ASSUME NEW a \in Int, NEW b \in Int, NEW c \in Int, NEW d \in Int, NEW e \in Int,
         NEW u \in Int, NEW v \in Int, NEW w \in Int, NEW x \in Int, NEW y \in Int,
         \/ a < u
         \/ a = u /\ b < v
         \/ a = u /\ b = v /\ c < w
         \/ a = u /\ b = v /\ c = w /\ d < x
         \/ a = u /\ b = v /\ c = w /\ d = x /\ e < y
  PROVE  Lower(<<a, b, c, d, e>>, <<u, v, w, x, y>>)
<1> DEFINE r == <<a, b, c, d, e>>
           s == <<u, v, w, x, y>>
<1>1. /\ r[1] = a /\ r[2] = b /\ r[3] = c /\ r[4] = d /\ r[5] = e
      /\ s[1] = u /\ s[2] = v /\ s[3] = w /\ s[4] = x /\ s[5] = y
  OBVIOUS
<1> HIDE DEF r, s
<1> SUFFICES Lower(r, s)
  BY DEF r, s
<1>2. CASE a < u
  BY <1>1, <1>2 DEF Lower
<1>3. CASE a = u /\ b < v
  BY <1>1, <1>3 DEF Lower
<1>4. CASE a = u /\ b = v /\ c < w
  <2>1. \A j \in 1..(3 - 1) : j = 1 \/ j = 2
    OBVIOUS
  <2> QED  BY <1>1, <1>4, <2>1 DEF Lower
<1>5. CASE a = u /\ b = v /\ c = w /\ d < x
  <2>1. \A j \in 1..(4 - 1) : j = 1 \/ j = 2 \/ j = 3
    OBVIOUS
  <2> QED  BY <1>1, <1>5, <2>1 DEF Lower
<1>6. CASE a = u /\ b = v /\ c = w /\ d = x /\ e < y
  <2>1. \A j \in 1..(5 - 1) : j = 1 \/ j = 2 \/ j = 3 \/ j = 4
    OBVIOUS
  <2> QED  BY <1>1, <1>6, <2>1 DEF Lower
<1> QED  BY <1>2, <1>3, <1>4, <1>5, <1>6

(* The sizes of parts of a graph. *)
LEMMA PartSmaller ==
  ASSUME NEW S, IsFiniteSet(S), NEW T \in SUBSET S
  PROVE  /\ Cardinality(S) \in Nat /\ Cardinality(T) \in Nat
         /\ Cardinality(T) <= Cardinality(S)
         /\ T # S => Cardinality(T) < Cardinality(S)
<1>1. /\ IsFiniteSet(T) /\ Cardinality(T) <= Cardinality(S)
      /\ Cardinality(S) = Cardinality(T) => S = T
  BY FS_Subset
<1>2. Cardinality(S) \in Nat /\ Cardinality(T) \in Nat
  BY <1>1, FS_CardinalityType
<1> QED  BY <1>1, <1>2

LEMMA SizeParts ==
  ASSUME NEW g \in Graph
  PROVE  /\ IsFiniteSet(Present(g)) /\ IsFiniteSet(g.edges)
         /\ Size(g)[1] = Cardinality(Present(g)) /\ Size(g)[1] \in Nat
         /\ Size(g)[2] = Cardinality(g.edges) /\ Size(g)[2] \in Nat
<1>1. IsFiniteSet(Present(g))
  BY BlocksAssumption, PresentBlocks, FS_Subset
<1>2. IsFiniteSet(g.edges)
  BY EdgeFinite, GraphParts, FS_Subset
<1> QED  BY <1>1, <1>2, FS_CardinalityType DEF Size

(* remove_unreachable_blocks adds nothing. *)
LEMMA UnreachableShrinks ==
  ASSUME NEW g, WellFormed(g), NEW S, WellFormed(RipOut(g, S))
  PROVE  Size(RipOut(g, S))[1] <= Size(g)[1] /\ Size(RipOut(g, S))[2] <= Size(g)[2]
<1>1. g \in Graph /\ RipOut(g, S) \in Graph
  BY DEF WellFormed
<1>2. RipOut(g, S).edges \subseteq g.edges
  BY DEF RipOut
<1>3. Present(RipOut(g, S)) \subseteq Present(g)
  BY <1>2 DEF Present
<1> QED  BY <1>1, <1>2, <1>3, SizeParts, PartSmaller

(* A redundant branch that is folded has one edge less. *)
LEMMA FoldShrinks ==
  ASSUME NEW g, WellFormed(g), NEW b \in Blocks, IsBranch(g, b), NEW d \in {"true", "false"}
  PROVE  LET h == SetBranchDirection(g, b, d)
         IN  Size(h)[1] <= Size(g)[1] /\ Size(h)[2] < Size(g)[2]
<1> DEFINE h == SetBranchDirection(g, b, d)
           n == [source |-> b, target |-> Towards(g, b, d), direction |-> "none"]
<1>1. g \in Graph /\ h \in Graph
  BY SetBranchDirectionKeeps DEF WellFormed
<1>2. h.edges = (g.edges \ Leaving(g, b)) \cup {n}
  BY <1>1, DirectedParts
<1>3. PICK e, f \in Leaving(g, b) :
        Leaving(g, b) = {e, f} /\ e.direction = "true" /\ f.direction = "false"
  BY DEF WellFormed, Ways, TwoWays
<1>4. /\ Towards(g, b, d) \in Present(g) /\ b \in Present(g)
      /\ n.source = b /\ n.target = Towards(g, b, d) /\ n.direction = "none"
  BY TowardsBlock, BranchPresent
<1> HIDE DEF h, n
<1>5. Present(h) \subseteq Present(g)
  BY <1>2, <1>4 DEF Present
<1>6. IsFiniteSet(g.edges) /\ IsFiniteSet(Present(g)) /\ Size(g)[2] = Cardinality(g.edges)
  BY <1>1, SizeParts
<1> DEFINE E == (g.edges \ {e}) \ {f}
<1>7. e # f /\ e \in g.edges /\ f \in g.edges \ {e}
  BY <1>3 DEF Leaving
<1>8. IsFiniteSet(g.edges \ {e}) /\ Cardinality(g.edges \ {e}) = Cardinality(g.edges) - 1
  BY <1>6, <1>7, FS_RemoveElement
<1>9. IsFiniteSet(E) /\ Cardinality(E) = Cardinality(g.edges \ {e}) - 1
  BY <1>7, <1>8, FS_RemoveElement
<1>10. h.edges = E \cup {n}
  BY <1>2, <1>3
<1>11. n \notin E
  <2>1. ASSUME n \in E PROVE FALSE
    BY <1>3, <1>4, <2>1 DEF Leaving
  <2> QED  BY <2>1
<1>12. Cardinality(h.edges) = Cardinality(E) + 1
  BY <1>9, <1>10, <1>11, FS_AddElement
<1>13. Cardinality(g.edges) \in Nat /\ Cardinality(h.edges) \in Nat
  BY <1>1, <1>6, SizeParts
<1>14. Size(h)[2] < Size(g)[2]
  <2>1. Size(h)[2] = Cardinality(h.edges)
    BY <1>1, SizeParts
  <2> HIDE DEF E
  <2>2. Cardinality(E) \in Nat /\ Cardinality(g.edges \ {e}) \in Nat
    BY <1>8, <1>9, FS_CardinalityType
  <2> QED  BY <1>6, <1>8, <1>9, <1>12, <1>13, <2>1, <2>2
<1>15. Size(h)[1] <= Size(g)[1]
  BY <1>1, <1>5, <1>6, SizeParts, PartSmaller
<1> QED  BY <1>14, <1>15 DEF h

(* An empty block that is bypassed takes its own edge with it, and the     *)
(* edges that entered it are as many as before or fewer.                   *)
LEMMA BypassShrinks ==
  ASSUME NEW g, WellFormed(g), NEW b \in Blocks, Removable(g, b)
  PROVE  /\ Size(Bypass(g, b))[1] <= Size(g)[1]
         /\ Size(Bypass(g, b))[2] < Size(g)[2]
<1> DEFINE h == Bypass(g, b)
<1>1. PICK t \in Successors(g, b) :
           /\ t \in Present(g) \ {b, Entry}
           /\ h \in Graph
           /\ h.stmt = [c \in Blocks |-> IF c = b THEN Empty ELSE g.stmt[c]]
           /\ \A e \in g.edges : e.source # b => Led(e, b, t) \in h.edges
           /\ \A x \in h.edges :
                x.source # b /\ \E e \in g.edges : x = Led(e, b, t) /\ e.source # b
           /\ \A e \in g.edges : /\ Led(e, b, t).source = e.source
                                 /\ Led(e, b, t).direction = e.direction
                                 /\ Led(e, b, t).target = IF e.target = b THEN t ELSE e.target
  BY BypassParts
<1>2. g \in Graph /\ Leaving(g, b) # {}
  BY DEF WellFormed, Removable
<1> HIDE DEF h
<1> DEFINE E == {e \in g.edges : e.source # b}
           m == [e \in E |-> Led(e, b, t)]
<1>3. Present(h) \subseteq Present(g)
  BY <1>1, <1>2, PresentBlocks DEF Present
<1>4. m \in Surjection(E, h.edges)
  <2>1. m \in [E -> h.edges]
    BY <1>1
  <2>2. \A x \in h.edges : \E e \in E : m[e] = x
    BY <1>1
  <2> QED  BY <2>1, <2>2 DEF Surjection
<1>5. /\ IsFiniteSet(g.edges) /\ IsFiniteSet(Present(g))
      /\ Size(g)[2] = Cardinality(g.edges) /\ Size(h)[2] = Cardinality(h.edges)
      /\ Size(g)[1] = Cardinality(Present(g)) /\ Size(h)[1] = Cardinality(Present(h))
  BY <1>1, <1>2, SizeParts
<1>6. E \in SUBSET g.edges /\ E # g.edges
  BY <1>2 DEF Leaving
<1>7. IsFiniteSet(E) /\ Cardinality(E) < Cardinality(g.edges)
  BY <1>5, <1>6, PartSmaller, FS_Subset
<1>8. Cardinality(h.edges) <= Cardinality(E) /\ IsFiniteSet(h.edges)
  <2> HIDE DEF E, m
  <2> QED  BY <1>4, <1>7, FS_Surjection
<1>9. Cardinality(h.edges) < Cardinality(g.edges)
  <2>1. Cardinality(h.edges) \in Nat /\ Cardinality(E) \in Nat /\ Cardinality(g.edges) \in Nat
    BY <1>5, <1>7, <1>8, FS_CardinalityType
  <2> HIDE DEF E
  <2> QED  BY <1>7, <1>8, <2>1
<1>10. Cardinality(Present(h)) <= Cardinality(Present(g))
  BY <1>3, <1>5, PartSmaller
<1> QED  BY <1>5, <1>9, <1>10 DEF h

-----------------------------------------------------------------------------
RankIn ==
  /\ EditsLeft \in Nat /\ Stage \in 0..6 /\ Backlog \in Nat /\ SweepsLeft \in 0..3
  /\ RoundLeft \in Nat

LEMMA RankType ==
  ASSUME Inv
  PROVE  /\ RankIn
         /\ EditsLeft \in Nat /\ Stage \in 0..6 /\ Backlog \in Nat /\ SweepsLeft \in 0..3
         /\ RoundLeft \in Nat /\ Extent \in Nat
         /\ IsFiniteSet(splitting) /\ IsFiniteSet(Blocks \ Discovered)
<1>1. CFGTypeOK
  BY DEF Inv, TypeInv
<1>2. EditsLeft \in Nat
  <2>1. edits \in 0..MaxEdits /\ MaxEdits \in Nat
    BY <1>1, EditsAssumption DEF CFGTypeOK
  <2> QED  BY <2>1 DEF EditsLeft
<1>3. cfg \in Graph /\ last \in Nat \X Nat /\ splitting \subseteq Edge
  BY <1>1 DEF CFGTypeOK
<1>4. Extent \in Nat
  BY <1>3, SizeParts DEF Extent
<1>5. IsFiniteSet(splitting) /\ Cardinality(splitting) \in Nat
  BY <1>3, EdgeFinite, FS_Subset, FS_CardinalityType
<1>6. IsFiniteSet(Blocks \ Discovered) /\ Cardinality(Blocks \ Discovered) \in Nat
  BY BlocksAssumption, FS_Subset, FS_CardinalityType
<1>7. last[1] + last[2] \in Nat
  BY <1>3
<1>8. Stage \in 0..6
  BY DEF Stage
<1>9. SweepsLeft \in 0..3
  BY DEF SweepsLeft
<1>10. RoundLeft \in Nat
  BY <1>4 DEF RoundLeft
<1>11. Backlog \in Nat
  BY <1>4, <1>5, <1>6, <1>7 DEF Backlog
<1> QED  BY <1>2, <1>4, <1>5, <1>6, <1>8, <1>9, <1>10, <1>11 DEF RankIn

LEMMA RankTypeNext == Inv' => RankIn'
<1>1. Inv => RankIn
  BY RankType
<1> QED  BY <1>1, PTL

(* What lowers the rank. *)
LEMMA RankLower ==
  ASSUME Inv, Inv',
         \/ EditsLeft' < EditsLeft
         \/ /\ EditsLeft' = EditsLeft
            /\ \/ Stage' < Stage
               \/ Stage' = Stage /\ Backlog' < Backlog
               \/ Stage' = Stage /\ Backlog' = Backlog /\ SweepsLeft' < SweepsLeft
               \/ /\ Stage' = Stage /\ Backlog' = Backlog /\ SweepsLeft' = SweepsLeft
                  /\ RoundLeft' < RoundLeft
  PROVE  Lower(Rank', Rank)
<1>1. /\ EditsLeft \in Int /\ Stage \in Int /\ Backlog \in Int /\ SweepsLeft \in Int
      /\ RoundLeft \in Int
  BY RankType
<1>2. /\ EditsLeft' \in Int /\ Stage' \in Int /\ Backlog' \in Int /\ SweepsLeft' \in Int
      /\ RoundLeft' \in Int
  BY RankTypeNext DEF RankIn
<1>3. \/ EditsLeft' < EditsLeft
      \/ EditsLeft' = EditsLeft /\ Stage' < Stage
      \/ EditsLeft' = EditsLeft /\ Stage' = Stage /\ Backlog' < Backlog
      \/ EditsLeft' = EditsLeft /\ Stage' = Stage /\ Backlog' = Backlog
         /\ SweepsLeft' < SweepsLeft
      \/ EditsLeft' = EditsLeft /\ Stage' = Stage /\ Backlog' = Backlog
         /\ SweepsLeft' = SweepsLeft /\ RoundLeft' < RoundLeft
  OBVIOUS
<1>4. Lower(<<EditsLeft', Stage', Backlog', SweepsLeft', RoundLeft'>>,
            <<EditsLeft, Stage, Backlog, SweepsLeft, RoundLeft>>)
  BY <1>1, <1>2, <1>3, LowerAt
<1> QED  BY <1>4 DEF Rank

-----------------------------------------------------------------------------
(* A statement or a branch less: an edit less to make. *)
LEMMA EditLower ==
  ASSUME Inv, Inv', NEW b \in Blocks, RemoveStatement(b) \/ DecideBranch(b) \/ SplitBranch(b)
  PROVE  RoundInv' /\ Lower(Rank', Rank)
<1>1. edits' = edits + 1 /\ pc' \in {"edited", "split"}
  BY DEF RemoveStatement, DecideBranch, Edit, SplitBranch
<1>2. edits \in 0..MaxEdits /\ MaxEdits \in Nat
  BY EditsAssumption DEF Inv, TypeInv, CFGTypeOK
<1>3. EditsLeft' < EditsLeft
  BY <1>1, <1>2 DEF EditsLeft
<1>4. CASE pc' = "edited"
  BY <1>3, <1>4, RankLower DEF RoundInv
<1>5. CASE pc' = "split"
  <2>1. SplitBranch(b)
    BY <1>5 DEF RemoveStatement, DecideBranch, Edit
  <2>2. splitting' = Entering(cfg, b) /\ Cardinality(Entering(cfg, b)) > 1
    BY <2>1 DEF SplitBranch
  <2>3. splitting' # {}
    BY <2>2, FS_EmptySet
  <2> QED  BY <1>3, <1>5, <2>3, RankLower DEF RoundInv
<1> QED  BY <1>1, <1>4, <1>5

LEMMA SplitLower ==
  ASSUME Inv, Inv', NEW e \in splitting, SplitEdge(e)
  PROVE  RoundInv' /\ Lower(Rank', Rank)
<1>1. /\ pc = "split" /\ edits' = edits /\ splitting' = splitting \ {e}
      /\ pc' = IF splitting' = {} THEN "edited" ELSE pc
  BY DEF SplitEdge
<1>2. EditsLeft' = EditsLeft
  BY <1>1 DEF EditsLeft
<1>3. CASE splitting' = {}
  <2>1. Stage' < Stage
    BY <1>1, <1>3 DEF Stage
  <2> QED  BY <1>1, <1>2, <1>3, <2>1, RankLower DEF RoundInv
<1>4. CASE splitting' # {}
  <2>1. Backlog = Cardinality(splitting) /\ Backlog' = Cardinality(splitting')
    BY <1>1, <1>4 DEF Backlog
  <2>2. IsFiniteSet(splitting)
    BY RankType
  <2>3. splitting' \in SUBSET splitting /\ splitting' # splitting
    BY <1>1
  <2>4. Backlog' < Backlog
    BY <2>1, <2>2, <2>3, PartSmaller
  <2>5. Stage' = Stage
    BY <1>1, <1>4 DEF Stage
  <2> QED  BY <1>1, <1>2, <1>4, <2>4, <2>5, RankLower DEF RoundInv
<1> QED  BY <1>3, <1>4

(* A round of clean begins, and works on no larger a graph. *)
LEMMA UnreachableLower ==
  ASSUME Inv, Inv', RemoveUnreachableBlocks
  PROVE  RoundInv' /\ Lower(Rank', Rank)
<1>1. /\ pc \in {"unreachable", "edited"} /\ pc' = "fold" /\ edits' = edits /\ last' = Size(cfg)
      /\ \E reachable \in {Reach(cfg, Entry, {})} : cfg' = RipOut(cfg, Blocks \ reachable)
  BY DEF RemoveUnreachableBlocks
<1>2. WellFormed(cfg) /\ WellFormed(cfg')
  BY <1>1 DEF Inv, CFGInv
<1>3. Size(cfg')[1] <= Size(cfg)[1] /\ Size(cfg')[2] <= Size(cfg)[2]
  BY <1>1, <1>2, UnreachableShrinks
<1>4. EditsLeft' = EditsLeft
  BY <1>1 DEF EditsLeft
<1>5. Stage' = Stage
  BY <1>1 DEF Stage
<1>6. Backlog' = Backlog
  BY <1>1 DEF Backlog, Extent
<1>7. SweepsLeft' < SweepsLeft
  BY <1>1 DEF SweepsLeft
<1>8. RoundInv'
  BY <1>1, <1>3 DEF RoundInv
<1> QED  BY <1>4, <1>5, <1>6, <1>7, <1>8, RankLower

(* A step of a round that takes edges away. *)
LEMMA ShrinkLower ==
  ASSUME Inv, Inv', RoundInv, pc \in {"fold", "empty"}, pc' = pc, edits' = edits, last' = last,
         Size(cfg')[1] <= Size(cfg)[1], Size(cfg')[2] < Size(cfg)[2]
  PROVE  RoundInv' /\ Lower(Rank', Rank)
<1>1. /\ Size(cfg)[1] \in Nat /\ Size(cfg)[2] \in Nat
      /\ Size(cfg')[1] \in Nat /\ Size(cfg')[2] \in Nat /\ last[1] \in Nat /\ last[2] \in Nat
  BY SizeParts DEF Inv, TypeInv, CFGTypeOK
<1>2. EditsLeft' = EditsLeft
  BY DEF EditsLeft
<1>3. Stage' = Stage /\ SweepsLeft' = SweepsLeft
  BY DEF Stage, SweepsLeft
<1>4. Backlog' = Backlog
  BY DEF Backlog
<1>5. Extent' < Extent
  BY <1>1 DEF Extent
<1>6. RoundLeft' < RoundLeft
  BY <1>5 DEF RoundLeft
<1>7. RoundInv'
  BY <1>1 DEF RoundInv
<1> QED  BY <1>2, <1>3, <1>4, <1>6, <1>7, RankLower

LEMMA FoldLower ==
  ASSUME Inv, Inv', RoundInv, FoldRedundantBranches
  PROVE  RoundInv' /\ Lower(Rank', Rank)
<1>1. pc = "fold" /\ edits' = edits /\ last' = last /\ WellFormed(cfg)
  BY DEF FoldRedundantBranches, Inv, CFGInv
<1>2. CASE Redundant(cfg) = {}
  <2>1. cfg' = cfg /\ pc' = "empty"
    BY <1>2 DEF FoldRedundantBranches
  <2>2. EditsLeft' = EditsLeft /\ Stage' = Stage
    BY <1>1, <2>1 DEF EditsLeft, Stage
  <2>3. Backlog' = Backlog /\ SweepsLeft' < SweepsLeft
    BY <1>1, <2>1 DEF Backlog, SweepsLeft
  <2>4. RoundInv'
    BY <1>1, <2>1 DEF RoundInv
  <2> QED  BY <2>2, <2>3, <2>4, RankLower
<1>3. CASE Redundant(cfg) # {}
  <2>1. PICK b \in Redundant(cfg) : cfg' = SetBranchDirection(cfg, b, "true")
    BY <1>3 DEF FoldRedundantBranches
  <2>2. pc' = pc /\ b \in Blocks /\ IsBranch(cfg, b)
    BY <1>1, <1>3, PresentBlocks DEF FoldRedundantBranches, Redundant, WellFormed
  <2>3. Size(cfg')[1] <= Size(cfg)[1] /\ Size(cfg')[2] < Size(cfg)[2]
    BY <1>1, <2>1, <2>2, FoldShrinks
  <2> QED  BY <1>1, <2>2, <2>3, ShrinkLower
<1> QED  BY <1>2, <1>3

LEMMA EmptyLower ==
  ASSUME Inv, Inv', RoundInv, NEW b \in Blocks, RemoveEmptyBlock(b)
  PROVE  RoundInv' /\ Lower(Rank', Rank)
<1>1. /\ pc = "empty" /\ pc' = pc /\ edits' = edits /\ last' = last /\ WellFormed(cfg)
      /\ Removable(cfg, b) /\ cfg' = Bypass(cfg, b)
  BY DEF RemoveEmptyBlock, Inv, CFGInv
<1>2. Size(cfg')[1] <= Size(cfg)[1] /\ Size(cfg')[2] < Size(cfg)[2]
  BY <1>1, BypassShrinks
<1> QED  BY <1>1, <1>2, ShrinkLower

(* Another round is made only if the last one took something away. *)
LEMMA AgainLower ==
  ASSUME Inv, Inv', RoundInv, CleanAgain
  PROVE  RoundInv' /\ Lower(Rank', Rank)
<1>1. /\ pc = "empty" /\ edits' = edits /\ last' = last /\ cfg' = cfg
      /\ pc' = IF Size(cfg) = last THEN "clean" ELSE "unreachable"
  BY DEF CleanAgain
<1>2. /\ cfg \in Graph /\ last \in Nat \X Nat
  BY DEF Inv, TypeInv, CFGTypeOK
<1>3. /\ Size(cfg)[1] \in Nat /\ Size(cfg)[2] \in Nat /\ last[1] \in Nat /\ last[2] \in Nat
      /\ Size(cfg)[1] <= last[1] /\ Size(cfg)[2] <= last[2]
  BY <1>1, <1>2, SizeParts DEF RoundInv
<1>4. EditsLeft' = EditsLeft /\ Stage' = Stage
  BY <1>1 DEF EditsLeft, Stage
<1>5. RoundInv'
  BY <1>1 DEF RoundInv
<1>6. Backlog = last[1] + last[2] /\ Backlog' = Extent
  BY <1>1 DEF Backlog, Extent
<1>7. CASE Size(cfg) = last
  <2>1. Backlog' = Backlog /\ SweepsLeft' < SweepsLeft
    BY <1>1, <1>6, <1>7 DEF SweepsLeft, Extent
  <2> QED  BY <1>4, <1>5, <2>1, RankLower
<1>8. CASE Size(cfg) # last
  <2>1. Size(cfg)[1] # last[1] \/ Size(cfg)[2] # last[2]
    BY <1>2, <1>8, SizeType
  <2>2. Backlog' < Backlog
    BY <1>3, <1>6, <2>1 DEF Extent
  <2> QED  BY <1>4, <1>5, <2>2, RankLower
<1> QED  BY <1>7, <1>8

(* A block that is discovered is new. *)
LEMMA DiscoverLower ==
  ASSUME Inv, Inv', Discover
  PROVE  RoundInv' /\ Lower(Rank', Rank)
<1>1. pc = "linearize" /\ pc' = pc /\ edits' = edits /\ WellFormed(cfg) /\ order \in Seq(Blocks)
  BY DEF Discover, Inv, CFGInv, TypeInv, CFGTypeOK
<1>2. PICK b \in Discoverable : order' = Append(order, b)
  BY DEF Discover
<1>3. b \in Blocks
  BY <1>1, <1>2, DiscoverablePresent, PresentBlocks DEF WellFormed
<1>4. b \notin Discovered
  <2>1. CASE order = << >>
    BY <2>1 DEF Discovered
  <2>2. CASE order # << >>
    <3> DEFINE open == {i \in DOMAIN order : Undiscovered(order[i]) # {}}
    <3>1. open # {}
      BY <1>2, <2>2 DEF Discoverable
    <3>2. \E c : b \in Undiscovered(c)
      BY <1>2, <2>2, <3>1 DEF Discoverable
    <3> QED  BY <3>2 DEF Undiscovered
  <2> QED  BY <2>1, <2>2
<1>5. Discovered' = Discovered \cup {b}
  <2>1. /\ Len(order') = Len(order) + 1 /\ Len(order) \in Nat
        /\ DOMAIN order = 1..Len(order) /\ DOMAIN order' = 1..(Len(order) + 1)
        /\ \A i \in DOMAIN order : order'[i] = order[i]
        /\ order'[Len(order) + 1] = b
    BY <1>1, <1>2, <1>3
  <2>2. DOMAIN order' = DOMAIN order \cup {Len(order) + 1}
    BY <2>1
  <2> QED  BY <2>1, <2>2 DEF Discovered
<1>6. IsFiniteSet(Blocks \ Discovered)
  BY RankType
<1>7. /\ Blocks \ Discovered' \in SUBSET (Blocks \ Discovered)
      /\ Blocks \ Discovered' # Blocks \ Discovered
  BY <1>3, <1>4, <1>5
<1>8. Cardinality(Blocks \ Discovered') < Cardinality(Blocks \ Discovered)
  BY <1>6, <1>7, PartSmaller
<1>9. Backlog' < Backlog
  BY <1>1, <1>8 DEF Backlog
<1>10. EditsLeft' = EditsLeft /\ Stage' = Stage /\ RoundInv'
  BY <1>1 DEF EditsLeft, Stage, RoundInv
<1> QED  BY <1>9, <1>10, RankLower

(* The steps from one stage to the next. *)
LEMMA StageLower ==
  ASSUME Inv, Inv', Build \/ StopEditing \/ AddExitLabel \/ DropGotos \/ DropLabels
  PROVE  RoundInv' /\ Lower(Rank', Rank)
<1>1. edits' = edits
  BY DEF Build, StopEditing, AddExitLabel, DropGotos, DropLabels
<1>2. pc' \notin {"fold", "empty", "split"}
  BY DEF Build, StopEditing, AddExitLabel, DropGotos, DropLabels
<1>3. Stage' < Stage
  <2>1. CASE Build
    BY <2>1 DEF Build, Stage
  <2>2. CASE StopEditing
    BY <2>2 DEF StopEditing, Stage
  <2>3. CASE AddExitLabel
    <3>1. pc = "linearize" /\ pc' \in {"gotos", "assertion failed"}
      BY <2>3 DEF AddExitLabel
    <3>2. CASE pc' = "gotos"
      BY <3>1, <3>2 DEF Stage
    <3>3. CASE pc' = "assertion failed"
      <4>1. Stage = 3
        BY <3>1 DEF Stage
      <4>2. Stage' = 0
        BY <3>3 DEF Stage
      <4> QED  BY <4>1, <4>2
    <3> QED  BY <3>1, <3>2, <3>3
  <2>4. CASE DropGotos
    BY <2>4 DEF DropGotos, Stage
  <2>5. CASE DropLabels
    BY <2>5 DEF DropLabels, Stage
  <2> QED  BY <2>1, <2>2, <2>3, <2>4, <2>5
<1>4. EditsLeft' = EditsLeft
  BY <1>1 DEF EditsLeft
<1>5. RoundInv'
  BY <1>2 DEF RoundInv
<1> QED  BY <1>3, <1>4, <1>5, RankLower

LEMMA NextLower ==
  ASSUME Inv, Inv', RoundInv, Next
  PROVE  RoundInv' /\ (pc # "run" => Lower(Rank', Rank))
<1>1. CASE Run
  <2>1. pc = "run" /\ pc' = "run"
    BY <1>1 DEF Run, RunSource, RunResult, RunBoth
  <2> QED  BY <2>1 DEF RoundInv
<1>2. CASE Build \/ StopEditing \/ AddExitLabel \/ DropGotos \/ DropLabels
  BY <1>2, StageLower
<1>3. CASE Clean
  BY <1>3, UnreachableLower, FoldLower, EmptyLower, AgainLower DEF Clean
<1>4. CASE Edits
  BY <1>4, EditLower, SplitLower DEF Edits
<1>5. CASE Discover
  BY <1>5, DiscoverLower
<1> QED  BY <1>1, <1>2, <1>3, <1>4, <1>5 DEF Next, Linearize

(* split_block never runs out of blocks before it runs out of edges. *)
SplitsOn == pc = "split" => splitting # {} /\ Spare # {}

LEMMA RoundSplits ==
  ASSUME Inv, RoundInv
  PROVE  SplitsOn
<1> SUFFICES ASSUME pc = "split" PROVE splitting # {} /\ Spare # {}
  BY DEF SplitsOn
<1>1. splitting # {} /\ Splittable
  BY DEF Inv, CFGInv, RoundInv
<1>2. IsFiniteSet(Spare)
  BY BlocksAssumption, FS_Subset DEF Spare
<1>3. Cardinality(splitting) \in Nat /\ Cardinality(splitting) # 0
  BY <1>1, FS_CardinalityType, FS_EmptySet DEF Splittable
<1>4. Spare # {}
  BY <1>1, <1>2, <1>3, FS_CardinalityType, FS_EmptySet DEF Splittable
<1> QED  BY <1>1, <1>4

LEMMA RoundInductive == Spec => [](Inv /\ RoundInv)
<1>1. Init => RoundInv
  BY DEF Init, RoundInv
<1>2. Inv /\ Inv' /\ RoundInv /\ [Next]_vars => RoundInv'
  <2> SUFFICES ASSUME Inv, Inv', RoundInv, [Next]_vars PROVE RoundInv'
    OBVIOUS
  <2>1. CASE Next
    BY <2>1, NextLower
  <2>2. CASE UNCHANGED vars
    BY <2>2 DEF vars, RoundInv
  <2> QED  BY <2>1, <2>2
<1> QED  BY <1>1, <1>2, InvInductive, PTL DEF Spec

(* The method is written back or given up, or else a step is taken that    *)
(* leaves less to do: the rounds of clean come to an end, because each     *)
(* takes an edge or a block away or is the last; a split copies its branch *)
(* once for each edge; no block is discovered twice; and only an edit, of  *)
(* which there are MaxEdits, sets any of it going again.  A rank of five   *)
(* natural numbers cannot be lowered for ever.                             *)
THEOREM WritingBackProgresses ==
  Spec => /\ [](EditsLeft \in Nat /\ Stage \in 0..6 /\ Backlog \in Nat /\ SweepsLeft \in 0..3
                  /\ RoundLeft \in Nat /\ SplitsOn)
          /\ [][Next /\ pc # "run" => Lower(Rank', Rank)]_vars
<1>1. Inv /\ RoundInv =>
        /\ EditsLeft \in Nat /\ Stage \in 0..6 /\ Backlog \in Nat /\ SweepsLeft \in 0..3
        /\ RoundLeft \in Nat /\ SplitsOn
  BY RankType, RoundSplits
<1>2. Inv /\ Inv' /\ RoundInv => [Next /\ pc # "run" => Lower(Rank', Rank)]_vars
  BY NextLower
<1> QED  BY <1>1, <1>2, RoundInductive, PTL DEF Spec
=============================================================================
