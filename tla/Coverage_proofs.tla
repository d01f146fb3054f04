-------------------------- MODULE Coverage_proofs --------------------------
(***************************************************************************)
(* The analysis covers every run, whatever the methods, the lattice and    *)
(* the order in which the worklist gives out its edges.                    *)
(***************************************************************************)
EXTENDS Coverage, Integers, FiniteSetTheorems, TLAPS

(* A run stops at the blocks the analysis takes to stop it, and            *)
(* solution_changed misses nothing a solution stands for.                  *)
ASSUME StopsAssumption == Dies \subseteq Stops
ASSUME SameAssumption == SameIsExact

-----------------------------------------------------------------------------
(* The worklist w over the graph g. *)
WellFormed(w, g) ==
  /\ w.queue \subseteq w.executable \cap g
  /\ w.bbs = {e.target : e \in w.queue}
  /\ \A e, f \in w.queue : e.target = f.target => e = f

LEMMA AddWellFormed ==
  ASSUME NEW w \in Worklist, NEW g \in SUBSET Edge, NEW e \in g, WellFormed(w, g)
  PROVE  /\ Add(w, e) \in Worklist
         /\ WellFormed(Add(w, e), g)
         /\ e.target \in Add(w, e).bbs
         /\ w.bbs \subseteq Add(w, e).bbs
         /\ Add(w, e).executable = w.executable \cup {e}
BY DEF Add, WellFormed, Worklist, Edge

LEMMA AddSuccessorIfWellFormed ==
  ASSUME NEW w \in Worklist, NEW g \in SUBSET Edge, NEW e \in g, WellFormed(w, g),
         NEW changed \in BOOLEAN, NEW c \in BOOLEAN
  PROVE  LET v == AddSuccessorIf(w, e, changed, c)
         IN /\ v \in Worklist
            /\ WellFormed(v, g)
            /\ w.bbs \subseteq v.bbs
            /\ w.executable \subseteq v.executable
            /\ v.executable \subseteq w.executable \cup {e}
            /\ c => e \in v.executable
            /\ c /\ (changed \/ e \notin w.executable) => e.target \in v.bbs
<1>1. CASE c /\ (changed \/ e \notin w.executable)
  <2>1. AddSuccessorIf(w, e, changed, c) = Add(w, e)
    BY <1>1 DEF AddSuccessorIf, AddSuccessor
  <2>2. QED BY <2>1, AddWellFormed
<1>2. CASE ~(c /\ (changed \/ e \notin w.executable))
  <2>1. AddSuccessorIf(w, e, changed, c) = w
    BY <1>2 DEF AddSuccessorIf, AddSuccessor
  <2>2. QED BY <2>1, <1>2
<1>3. QED BY <1>1, <1>2

LEMMA RemoveWellFormed ==
  ASSUME NEW w \in Worklist, NEW g \in SUBSET Edge, NEW e \in w.queue, WellFormed(w, g)
  PROVE  /\ Remove(w, e) \in Worklist
         /\ WellFormed(Remove(w, e), g)
         /\ Remove(w, e).bbs = w.bbs \ {e.target}
         /\ Remove(w, e).executable = w.executable
<1>1. \A f \in w.queue : f # e => f.target # e.target
  BY DEF WellFormed
<1>2. QED BY <1>1 DEF Remove, WellFormed, Worklist

-----------------------------------------------------------------------------
(* Apart from the blocks that die, the graph stays as it was given. *)
GraphOK ==
  /\ ConsistentCFG(cfg)
  /\ ConsistentCFG(given)
  /\ \A b \in Blocks \ Dies : Leaving(given, b) = Leaving(cfg, b)

PhaseOK ==
  /\ pc = "start" => queue = {} /\ bbs = {} /\ executable = {} /\ DOMAIN outs = {}
  /\ pc \in {"done", "segfault"} => queue = {}
  /\ pc # "start" => Entry \in DOMAIN outs

(* The invariant that each step of the analysis preserves, and that of     *)
(* each step.                                                              *)
AnalysisInv ==
  /\ TypeOK
  /\ GraphOK
  /\ PhaseOK
  /\ WorklistOK
  /\ Settled

IInv ==
  /\ AnalysisInv
  /\ at \in Blocks
  /\ store \in Stores
  /\ pc # "done" => at = Entry
  /\ Covered

(* What one iteration does, for every kind of block: b takes the solution  *)
(* s, and those of its successors that must be looked at are queued.       *)
Visit(b, s) ==
  LET changed == SolutionChanged(b, s) IN
  /\ pc = "loop" /\ pc' = pc
  /\ b \in Blocks \ {Entry} /\ b \in bbs
  /\ s = Transfer(b, Pull(b))
  /\ SetOut(b, s)
  /\ ConsistentCFG(cfg')
  /\ \A t \in Blocks : t # b \/ t \notin Dies => Leaving(cfg', t) = Leaving(cfg, t)
  /\ wl' \in Worklist
  /\ WellFormed(wl', cfg')
  /\ bbs \ {b} \subseteq bbs'
  /\ executable \subseteq executable'
  /\ executable' \subseteq executable \cup [source : {b}, target : Blocks, direction : Directions]
  /\ \A e \in Successors(cfg', b, s) :
       /\ e \in executable'
       /\ changed \/ e \notin executable \cap cfg => e.target \in bbs'

LEMMA SetWorklistFacts ==
  ASSUME NEW w \in Worklist, SetWorklist(w)
  PROVE  wl' = w /\ queue' = w.queue /\ bbs' = w.bbs /\ executable' = w.executable
BY DEF SetWorklist, Worklist, wl

LEMMA WlFacts ==
  ASSUME TypeOK, WorklistOK
  PROVE  /\ wl \in Worklist /\ WellFormed(wl, cfg) /\ cfg \in SUBSET Edge
         /\ wl.queue = queue /\ wl.bbs = bbs /\ wl.executable = executable
BY DEF TypeOK, ConsistentCFG, WorklistOK, wl, WellFormed

LEMMA VisitBranchVisits ==
  ASSUME AnalysisInv, pc = "loop", NEW e \in queue, VisitBranch(e)
  PROVE  Visit(e.target, Transfer(e.target, Pull(e.target)))
<1> DEFINE b == e.target
           s == Transfer(b, Pull(b))
           changed == SolutionChanged(b, s)
           w == Remove(wl, e)
<1>1. /\ TypeOK /\ WorklistOK /\ GraphOK
  BY DEF AnalysisInv
<1>2. /\ b \in Branches /\ b \in Blocks \ (Dies \cup {Entry, Exit}) /\ b \in bbs
      /\ e \in Edge
  BY <1>1, CFGAssumption DEF ConsistentCFG, VisitBranch, WorklistOK, TypeOK, Worklist, Edge
<1>3. PICK f \in Towards(cfg, b, "false"), t \in Towards(cfg, b, "true") :
        SetWorklist(AddSuccessorIf(AddSuccessorIf(w, f, changed, ~KnownTrue(b, s)),
                                   t, changed, ~KnownFalse(b, s)))
  BY DEF VisitBranch
<1>4. /\ f \in cfg /\ t \in cfg
      /\ Towards(cfg, b, "false") = {f} /\ Towards(cfg, b, "true") = {t}
  BY <1>1, <1>2, <1>3 DEF GraphOK, ConsistentCFG, Towards, Leaving
<1>5. /\ w \in Worklist /\ WellFormed(w, cfg) /\ cfg \in SUBSET Edge
      /\ w.bbs = bbs \ {b} /\ w.executable = executable
  BY <1>1, WlFacts, RemoveWellFormed
<1> DEFINE w1 == AddSuccessorIf(w, f, changed, ~KnownTrue(b, s))
           w2 == AddSuccessorIf(w1, t, changed, ~KnownFalse(b, s))
<1>6. /\ w1 \in Worklist /\ WellFormed(w1, cfg)
      /\ w.bbs \subseteq w1.bbs /\ w.executable \subseteq w1.executable
      /\ w1.executable \subseteq w.executable \cup {f}
      /\ ~KnownTrue(b, s) => f \in w1.executable
      /\ ~KnownTrue(b, s) /\ (changed \/ f \notin w.executable) => f.target \in w1.bbs
  <2> changed \in BOOLEAN /\ (~KnownTrue(b, s)) \in BOOLEAN
    BY DEF SolutionChanged
  <2> HIDE DEF b, s, changed, w
  <2> QED BY <1>4, <1>5, AddSuccessorIfWellFormed
<1>7. /\ w2 \in Worklist /\ WellFormed(w2, cfg)
      /\ w1.bbs \subseteq w2.bbs /\ w1.executable \subseteq w2.executable
      /\ w2.executable \subseteq w1.executable \cup {t}
      /\ ~KnownFalse(b, s) => t \in w2.executable
      /\ ~KnownFalse(b, s) /\ (changed \/ t \notin w1.executable) => t.target \in w2.bbs
  <2> changed \in BOOLEAN /\ (~KnownFalse(b, s)) \in BOOLEAN
    BY DEF SolutionChanged
  <2> HIDE DEF b, s, changed, w, w1
  <2> QED BY <1>4, <1>5, <1>6, AddSuccessorIfWellFormed
<1>8. f # t /\ f.direction = "false" /\ t.direction = "true" /\ f.source = b /\ t.source = b
  BY <1>3 DEF Towards, Leaving
<1>9. wl' = w2 /\ bbs' = w2.bbs /\ executable' = w2.executable
  BY <1>3, <1>7, SetWorklistFacts
<1>10. cfg' = cfg /\ pc' = pc /\ SetOut(b, s)
  BY DEF VisitBranch
<1>11. ASSUME NEW g \in Successors(cfg', b, s)
       PROVE  g \in executable' /\ (changed \/ g \notin executable \cap cfg => g.target \in bbs')
  <2>1. \/ g = f /\ ~KnownTrue(b, s)
        \/ g = t /\ ~KnownFalse(b, s)
    BY <1>2, <1>4, <1>10 DEF Successors, Towards
  <2>2. t \notin executable => t \notin w1.executable
    BY <1>5, <1>6, <1>8
  <2> HIDE DEF b, s, changed, w, w1, w2
  <2>3. QED BY <2>1, <2>2, <1>4, <1>5, <1>6, <1>7, <1>9
<1>12. executable' \subseteq executable \cup [source : {b}, target : Blocks, direction : Directions]
  <2>1. {f, t} \subseteq [source : {b}, target : Blocks, direction : Directions]
    BY <1>4, <1>5, <1>8 DEF Edge
  <2> HIDE DEF b, s, changed, w, w1, w2
  <2>2. QED BY <2>1, <1>5, <1>6, <1>7, <1>9
<1>13. bbs \ {b} \subseteq bbs' /\ executable \subseteq executable'
  <2> HIDE DEF b, s, changed, w, w1, w2
  <2> QED BY <1>5, <1>6, <1>7, <1>9
<1>14. ConsistentCFG(cfg') /\ wl' \in Worklist /\ WellFormed(wl', cfg')
  BY <1>1, <1>7, <1>9, <1>10 DEF GraphOK
<1>15. QED
  BY <1>2, <1>10, <1>11, <1>12, <1>13, <1>14 DEF Visit

(* Redirecting the edge of a block that dies keeps the graph in shape. *)
LEMMA CutConsistent ==
  ASSUME NEW g, ConsistentCFG(g), NEW b \in Dies, NEW next \in Leaving(g, b),
         NEW toExit \in Edge, toExit = [source |-> b, target |-> Exit, direction |-> "none"],
         NEW h, h = (g \ {next}) \cup {toExit}
  PROVE  /\ ConsistentCFG(h)
         /\ toExit \in Edge /\ toExit.source = b /\ toExit.target = Exit
         /\ Leaving(h, b) = {toExit}
         /\ \A t \in Blocks \ {b} : Leaving(h, t) = Leaving(g, t)
<1>1. /\ next \in Edge /\ next \in g /\ next.source = b
      /\ b \in Blocks /\ b \notin Branches /\ b # Entry /\ b # Exit
  BY CFGAssumption DEF Leaving, ConsistentCFG
<1>2. /\ Leaving(g, b) = {next} /\ next.direction = "none"
  BY <1>1 DEF ConsistentCFG
<1>3. /\ toExit \in Edge /\ toExit.source = b /\ toExit.target = Exit
      /\ toExit.direction = "none"
  BY <1>1, <1>2, CFGAssumption DEF Edge, Directions
<1>4. /\ Leaving(h, b) = {toExit}
      /\ \A t \in Blocks \ {b} : Leaving(h, t) = Leaving(g, t)
  BY <1>1, <1>2, <1>3 DEF Leaving
<1>5. h \subseteq Edge /\ toExit \in h
  BY <1>3 DEF ConsistentCFG
<1>6. /\ Leaving(h, Exit) = {} /\ Leaving(h, Entry) # {}
      /\ \A t \in Branches : Leaving(h, t) = Leaving(g, t)
  BY <1>1, <1>4, CFGAssumption DEF ConsistentCFG
<1>7. Entering(h, Entry) = {}
  BY <1>3, CFGAssumption DEF ConsistentCFG, Entering
<1>8. \A t \in Branches : Leaving(h, t) # {} =>
        /\ Towards(h, t, "none") = {}
        /\ \A d \in {"true", "false"} : \E e \in h : Towards(h, t, d) = {e}
  <2> SUFFICES ASSUME NEW t \in Branches, Leaving(g, t) # {}
               PROVE  /\ Towards(h, t, "none") = {}
                      /\ \A d \in {"true", "false"} : \E e \in h : Towards(h, t, d) = {e}
    BY <1>6
  <2>1. \A d : Towards(h, t, d) = Towards(g, t, d)
    BY <1>6 DEF Towards
  <2>2. /\ Towards(g, t, "none") = {}
        /\ \A d \in {"true", "false"} : \E e \in g : Towards(g, t, d) = {e}
    BY DEF ConsistentCFG
  <2>3. ASSUME NEW d \in {"true", "false"} PROVE \E e \in h : Towards(h, t, d) = {e}
    <3>1. PICK e \in g : Towards(g, t, d) = {e}
      BY <2>2
    <3>2. e \in Towards(h, t, d)
      BY <2>1, <3>1
    <3>3. e \in h
      BY <3>2 DEF Towards, Leaving
    <3>4. QED BY <2>1, <3>1, <3>3
  <2>4. QED BY <2>1, <2>2, <2>3
<1>9. \A t \in Blocks \ Branches : Leaving(h, t) # {} =>
        \E e \in h : Leaving(h, t) = {e} /\ e.direction = "none"
  <2> SUFFICES ASSUME NEW t \in Blocks \ Branches, Leaving(h, t) # {}
               PROVE  \E e \in h : Leaving(h, t) = {e} /\ e.direction = "none"
    OBVIOUS
  <2>1. CASE t = b
    BY <1>3, <1>4, <1>5, <2>1
  <2>2. CASE t # b
    <3>1. Leaving(h, t) = Leaving(g, t)
      BY <1>4, <2>2
    <3>2. PICK e \in g : Leaving(g, t) = {e} /\ e.direction = "none"
      BY <3>1 DEF ConsistentCFG
    <3>3. e \in h
      BY <3>1, <3>2 DEF Leaving
    <3>4. QED BY <3>1, <3>2, <3>3
  <2>3. QED BY <2>1, <2>2
<1>10. \A e \in h : e.target = Exit \/ Leaving(h, e.target) # {}
  <2> SUFFICES ASSUME NEW e \in h, e # toExit, e.target # b, e.target # Exit
               PROVE  Leaving(h, e.target) # {}
    BY <1>3, <1>4
  <2>1. e \in g /\ e.target \in Blocks
    BY <1>5 DEF Edge
  <2>2. Leaving(g, e.target) # {}
    BY <2>1 DEF ConsistentCFG
  <2>3. QED BY <2>1, <2>2, <1>4
<1>11. ConsistentCFG(h)
  BY <1>5, <1>6, <1>7, <1>8, <1>9, <1>10 DEF ConsistentCFG
<1>12. QED BY <1>3, <1>4, <1>11

LEMMA VisitStatementVisits ==
  ASSUME AnalysisInv, pc = "loop", NEW e \in queue, VisitStatement(e)
  PROVE  Visit(e.target, Transfer(e.target, Pull(e.target)))
<1> DEFINE b == e.target
           s == Transfer(b, Pull(b))
           changed == SolutionChanged(b, s)
           w == Remove(wl, e)
<1>1. /\ TypeOK /\ WorklistOK /\ GraphOK
  BY DEF AnalysisInv
<1>2. /\ b \notin Branches /\ b \in Blocks \ {Entry, Exit} /\ b \in bbs
      /\ e \in Edge
  BY <1>1, CFGAssumption DEF VisitStatement, WorklistOK, TypeOK, Worklist, Edge,
                             GraphOK, ConsistentCFG, Entering
<1>3. PICK next \in Leaving(cfg, b) :
        LET cut == /\ changed \/ next \notin executable
                   /\ b \in Dies /\ w.queue = {}
                   /\ next.target # Exit
            toExit == [source |-> b, target |-> Exit, direction |-> "none"]
        IN IF cut
             THEN /\ cfg' = Redirect(cfg, next, toExit)
                  /\ SetWorklist(Add(w, toExit))
             ELSE /\ SetWorklist(AddSuccessor(w, next, changed))
                  /\ UNCHANGED cfg
  BY DEF VisitStatement
<1>4. /\ next \in cfg /\ next.source = b /\ Leaving(cfg, b) = {next}
      /\ next.direction = "none" /\ next \in Edge
  BY <1>1, <1>2, <1>3 DEF GraphOK, ConsistentCFG, Leaving
<1>5. /\ w \in Worklist /\ WellFormed(w, cfg) /\ cfg \in SUBSET Edge
      /\ w.bbs = bbs \ {b} /\ w.executable = executable
  BY <1>1, WlFacts, RemoveWellFormed
<1>6. pc' = pc /\ SetOut(b, s)
  BY DEF VisitStatement
<1> HIDE DEF s, changed, w
<1>7. CASE /\ changed \/ next \notin executable
           /\ b \in Dies /\ w.queue = {} /\ next.target # Exit
  <2> DEFINE toExit == [source |-> b, target |-> Exit, direction |-> "none"]
  <2>1. cfg' = (cfg \ {next}) \cup {toExit} /\ SetWorklist(Add(w, toExit))
    BY <1>3, <1>7 DEF Redirect
  <2>2. /\ ConsistentCFG(cfg')
        /\ toExit \in Edge /\ toExit.source = b /\ toExit.target = Exit
        /\ Leaving(cfg', b) = {toExit}
        /\ \A t \in Blocks \ {b} : Leaving(cfg', t) = Leaving(cfg, t)
    <3>1. toExit \in Edge
      BY <1>2, CFGAssumption DEF Edge, Directions
    <3>2. ConsistentCFG(cfg) /\ b \in Dies /\ toExit = [source |-> b, target |-> Exit, direction |-> "none"]
      BY <1>1, <1>7 DEF GraphOK
    <3>3. cfg' = (cfg \ {next}) \cup {toExit}
      BY <2>1
    <3> HIDE DEF toExit
    <3>4. QED BY <1>3, <3>1, <3>2, <3>3, CutConsistent
  <2>3. toExit \in cfg' /\ cfg' \in SUBSET Edge
    BY <2>1, <2>2 DEF ConsistentCFG
  <2> HIDE DEF toExit
  <2>4. WellFormed(w, cfg')
    BY <1>5, <1>7 DEF WellFormed, Worklist
  <2>5. /\ Add(w, toExit) \in Worklist /\ WellFormed(Add(w, toExit), cfg')
        /\ Exit \in Add(w, toExit).bbs /\ w.bbs \subseteq Add(w, toExit).bbs
        /\ Add(w, toExit).executable = executable \cup {toExit}
    BY <1>5, <2>2, <2>3, <2>4, AddWellFormed
  <2>6. /\ wl' = Add(w, toExit) /\ bbs' = Add(w, toExit).bbs
        /\ executable' = executable \cup {toExit}
    BY <2>1, <2>5, SetWorklistFacts
  <2>7. \A g \in Successors(cfg', b, s) : g = toExit
    BY <1>2, <2>2 DEF Successors
  <2>8. \A t \in Blocks : t # b \/ t \notin Dies => Leaving(cfg', t) = Leaving(cfg, t)
    BY <1>7, <2>2
  <2>9. executable' \subseteq executable \cup [source : {b}, target : Blocks, direction : Directions]
    BY <2>2, <2>6 DEF Edge
  <2>10. QED
    BY <1>2, <1>5, <1>6, <2>2, <2>5, <2>6, <2>7, <2>8, <2>9 DEF Visit, s, changed
<1>8. CASE ~(/\ changed \/ next \notin executable
             /\ b \in Dies /\ w.queue = {} /\ next.target # Exit)
  <2> DEFINE v == AddSuccessorIf(w, next, changed, TRUE)
  <2>1. cfg' = cfg /\ SetWorklist(v)
    BY <1>3, <1>8 DEF AddSuccessorIf
  <2>3. changed \in BOOLEAN /\ TRUE \in BOOLEAN
    BY DEF changed, SolutionChanged
  <2>4. /\ v \in Worklist /\ WellFormed(v, cfg)
        /\ w.bbs \subseteq v.bbs /\ w.executable \subseteq v.executable
        /\ v.executable \subseteq w.executable \cup {next}
        /\ next \in v.executable
        /\ changed \/ next \notin w.executable => next.target \in v.bbs
    BY <1>4, <1>5, <2>3, AddSuccessorIfWellFormed
  <2> HIDE DEF v
  <2>5. wl' = v /\ bbs' = v.bbs /\ executable' = v.executable
    BY <2>1, <2>4, SetWorklistFacts
  <2>6. \A g \in Successors(cfg', b, s) : g = next
    BY <1>2, <1>4, <2>1 DEF Successors
  <2>7. executable' \subseteq executable \cup [source : {b}, target : Blocks, direction : Directions]
    BY <1>4, <1>5, <2>4, <2>5 DEF Edge
  <2>8. ConsistentCFG(cfg')
    BY <1>1, <2>1 DEF GraphOK
  <2>9. QED
    BY <1>2, <1>4, <1>5, <1>6, <2>1, <2>4, <2>5, <2>6, <2>7, <2>8 DEF Visit, s, changed
<1>9. QED BY <1>7, <1>8

LEMMA VisitExitVisits ==
  ASSUME AnalysisInv, pc = "loop", NEW e \in queue, VisitExit(e)
  PROVE  Visit(e.target, Transfer(e.target, Pull(e.target)))
<1>1. /\ TypeOK /\ WorklistOK /\ ConsistentCFG(cfg)
  BY DEF AnalysisInv, GraphOK
<1>2. e.target = Exit /\ Exit \in bbs /\ Exit \in Blocks \ (Branches \cup {Entry})
  BY <1>1, CFGAssumption DEF VisitExit, WorklistOK
<1>3. /\ Remove(wl, e) \in Worklist /\ WellFormed(Remove(wl, e), cfg)
      /\ Remove(wl, e).bbs = bbs \ {Exit} /\ Remove(wl, e).executable = executable
  BY <1>1, <1>2, WlFacts, RemoveWellFormed
<1>4. wl' = Remove(wl, e) /\ bbs' = bbs \ {Exit} /\ executable' = executable /\ cfg' = cfg
  BY <1>3, SetWorklistFacts DEF VisitExit
<1>5. \A s : Successors(cfg', Exit, s) = {}
  BY <1>1, <1>2, <1>4 DEF Successors, ConsistentCFG
<1>6. QED
  BY <1>1, <1>2, <1>3, <1>4, <1>5 DEF Visit, VisitExit

(* Whichever edge the worklist gives out. *)
LEMMA IterationVisits ==
  AnalysisInv /\ pc = "loop" =>
    \A e \in queue : VisitBranch(e) \/ VisitStatement(e) \/ VisitExit(e) =>
      Visit(e.target, Transfer(e.target, Pull(e.target)))
BY VisitBranchVisits, VisitStatementVisits, VisitExitVisits

-----------------------------------------------------------------------------
LEMMA InitIInv == RunInit => IInv
<1> SUFFICES ASSUME RunInit PROVE IInv
  OBVIOUS
<1> USE DEF RunInit, Init
<1>1. TypeOK /\ ConsistentCFG(cfg)
  BY CFGAssumption DEF TypeOK, Worklist, wl, ConsistentCFG
<1>2. Stores # {} => store \in Stores
  OBVIOUS
<1>3. GraphOK /\ PhaseOK /\ WorklistOK /\ Settled /\ Covered
  BY <1>1 DEF GraphOK, PhaseOK, WorklistOK, Settled, Covered
<1>4. QED
  BY <1>1, <1>2, <1>3, CFGAssumption, StoresAssumption DEF IInv, AnalysisInv

(* What one iteration reads and leaves. *)
LEMMA VisitFacts ==
  AnalysisInv => \A b : Visit(b, Transfer(b, Pull(b))) =>
    /\ Pull(b) \in Solutions /\ Transfer(b, Pull(b)) \in Solutions
    /\ ExecutableSources(b) \subseteq DOMAIN outs
    /\ \A p \in ExecutableSources(b) : Gamma(outs[p]) \subseteq Gamma(Pull(b))
<1> SUFFICES ASSUME AnalysisInv, NEW b, Visit(b, Transfer(b, Pull(b)))
             PROVE  /\ Pull(b) \in Solutions /\ Transfer(b, Pull(b)) \in Solutions
                    /\ ExecutableSources(b) \subseteq DOMAIN outs
                    /\ \A p \in ExecutableSources(b) : Gamma(outs[p]) \subseteq Gamma(Pull(b))
  OBVIOUS
<1>1. TypeOK /\ WorklistOK /\ b \in Blocks /\ b \in bbs
  BY DEF AnalysisInv, Visit
<1> DEFINE P == {outs[p] : p \in ExecutableSources(b)}
<1>2. ExecutableSources(b) # {} /\ ExecutableSources(b) \subseteq DOMAIN outs
  BY <1>1 DEF WorklistOK, ExecutableSources
<1>3. P \subseteq Solutions /\ P # {}
  BY <1>1, <1>2 DEF TypeOK
<1>4. Pull(b) = MeetAll(P)
  BY DEF Pull
<1> HIDE DEF P
<1>5. Pull(b) \in Solutions
  BY <1>3, <1>4, SolutionAssumption
<1>6. Transfer(b, Pull(b)) \in Solutions
  BY <1>1, <1>5, SolutionAssumption
<1>7. \A p \in ExecutableSources(b) : Gamma(outs[p]) \subseteq Gamma(Pull(b))
  BY <1>3, <1>4, LatticeAssumption DEF LatticeIsSound, P
<1> QED BY <1>2, <1>5, <1>6, <1>7

(* The parts of the invariant after one iteration of the loop. *)
LEMMA VisitPreserves ==
  ASSUME AnalysisInv, NEW b, Visit(b, Transfer(b, Pull(b))), UNCHANGED given
  PROVE  AnalysisInv'
<1> DEFINE s == Transfer(b, Pull(b))
           changed == SolutionChanged(b, s)
<1>1. /\ TypeOK /\ GraphOK /\ PhaseOK /\ WorklistOK /\ Settled
  BY DEF AnalysisInv
<1>2. /\ pc = "loop" /\ pc' = "loop"
      /\ b \in Blocks \ {Entry} /\ b \in bbs
      /\ SetOut(b, s)
      /\ ConsistentCFG(cfg')
      /\ \A t \in Blocks : t # b \/ t \notin Dies => Leaving(cfg', t) = Leaving(cfg, t)
      /\ wl' \in Worklist /\ WellFormed(wl', cfg')
      /\ bbs \ {b} \subseteq bbs'
      /\ executable \subseteq executable'
      /\ executable' \subseteq executable \cup [source : {b}, target : Blocks, direction : Directions]
      /\ \A e \in Successors(cfg', b, s) :
           /\ e \in executable'
           /\ changed \/ e \notin executable \cap cfg => e.target \in bbs'
  BY DEF Visit
<1>3. /\ wl'.queue = queue' /\ wl'.bbs = bbs' /\ wl'.executable = executable'
  BY DEF wl
<1>5. /\ Pull(b) \in Solutions /\ s \in Solutions
      /\ \A p \in ExecutableSources(b) : Gamma(outs[p]) \subseteq Gamma(Pull(b))
  BY VisitFacts
<1>7. \A m \in Gamma(Pull(b)) : Exec(b, m) \subseteq Gamma(s)
  BY <1>2, <1>5, LatticeAssumption DEF LatticeIsSound
<1>8. /\ DOMAIN outs' = DOMAIN outs \cup {b}
      /\ outs'[b] = s
      /\ \A t \in DOMAIN outs \ {b} : outs'[t] = outs[t]
  BY <1>2 DEF SetOut
<1> HIDE DEF s, changed
<1>9. TypeOK'
  BY <1>1, <1>2, <1>5, <1>8 DEF TypeOK, ConsistentCFG
<1>10. GraphOK'
  BY <1>1, <1>2 DEF GraphOK
<1>11. PhaseOK'
  BY <1>1, <1>2, <1>8 DEF PhaseOK
<1>12. WorklistOK'
  <2>1. /\ queue' \subseteq executable' \cap cfg'
        /\ bbs' = {e.target : e \in queue'}
        /\ \A e, f \in queue' : e.target = f.target => e = f
    BY <1>2, <1>3 DEF WellFormed
  <2>2. \A e \in executable' : e.source \in DOMAIN outs'
    BY <1>1, <1>2, <1>8 DEF WorklistOK
  <2>3. \A e \in queue' : ExecutableSources(e.target)' # {}
    BY <2>1 DEF ExecutableSources, Entering
  <2>4. QED BY <2>1, <2>2, <2>3 DEF WorklistOK
<1>13. Settled'
  <2> SUFFICES ASSUME NEW t \in DOMAIN outs', NEW e \in Successors(cfg', t, outs'[t])
               PROVE  /\ e \in executable'
                      /\ e.target \notin bbs' =>
                           /\ e.target \in DOMAIN outs'
                           /\ \A m \in Gamma(outs'[t]) :
                                Exec(e.target, m) \subseteq Gamma(outs'[e.target])
    BY DEF Settled
  <2>1. t \in Blocks /\ e \in cfg' /\ e.source = t
    BY <1>9 DEF TypeOK, Successors, Leaving
  (* An edge that was executable before is read by the merge. *)
  <2>2. ASSUME e \in executable, e \in cfg, e.target = b
        PROVE  t \in DOMAIN outs /\ \A m \in Gamma(outs[t]) : Exec(b, m) \subseteq Gamma(s)
    <3>1. t \in ExecutableSources(b)
      BY <2>1, <2>2 DEF ExecutableSources, Entering
    <3>2. t \in DOMAIN outs
      BY <1>1, <2>1, <2>2 DEF WorklistOK
    <3>3. QED BY <3>1, <3>2, <1>5, <1>7
  <2>3. CASE t # b
    <3>1. /\ t \in DOMAIN outs /\ outs'[t] = outs[t]
          /\ e \in Successors(cfg, t, outs[t]) /\ e \in cfg
      BY <1>2, <1>8, <2>1, <2>3 DEF Successors, Leaving
    <3>2. /\ e \in executable
          /\ e.target \notin bbs =>
               /\ e.target \in DOMAIN outs
               /\ \A m \in Gamma(outs[t]) : Exec(e.target, m) \subseteq Gamma(outs[e.target])
      BY <1>1, <3>1 DEF Settled
    <3>3. CASE e.target = b
      BY <1>2, <1>8, <2>2, <3>1, <3>2, <3>3
    <3>4. CASE e.target # b
      BY <1>2, <1>8, <3>1, <3>2, <3>4
    <3>5. QED BY <3>3, <3>4
  <2>4. CASE t = b
    <3>1. /\ e \in executable'
          /\ changed \/ e \notin executable \cap cfg => e.target \in bbs'
      BY <1>2, <1>8, <2>4
    <3>2. CASE changed \/ e \notin executable \cap cfg
      BY <3>1, <3>2
    <3>3. CASE ~changed /\ e \in executable \cap cfg
      <4>1. b \in DOMAIN outs /\ outs[b] \in Solutions /\ Same(s, outs[b])
        BY <1>1, <3>3 DEF changed, SolutionChanged, TypeOK
      <4>2. /\ Gamma(s) \subseteq Gamma(outs[b])
            /\ \A x \in Branches :
                 /\ KnownTrue(x, outs[b]) => KnownTrue(x, s)
                 /\ KnownFalse(x, outs[b]) => KnownFalse(x, s)
        BY <1>5, <4>1, SameAssumption DEF SameIsExact
      <4>3. e \in Successors(cfg, b, outs[b])
        <5>1. e \in Successors(cfg', b, s) /\ e \in Leaving(cfg, b)
          BY <1>8, <2>1, <2>4, <3>3 DEF Leaving
        <5>2. CASE b \notin Branches
          BY <5>1, <5>2 DEF Successors
        <5>3. CASE b \in Branches
          <6>1. \/ e.direction = "false" /\ ~KnownTrue(b, s)
                \/ e.direction = "true" /\ ~KnownFalse(b, s)
            BY <5>1, <5>3 DEF Successors
          <6>2. KnownTrue(b, outs[b]) => KnownTrue(b, s)
            BY <4>2, <5>3
          <6>3. KnownFalse(b, outs[b]) => KnownFalse(b, s)
            BY <4>2, <5>3
          <6>4. CASE e.direction = "false" /\ ~KnownTrue(b, s)
            BY <5>1, <5>3, <6>2, <6>4 DEF Successors
          <6>5. CASE e.direction = "true" /\ ~KnownFalse(b, s)
            BY <5>1, <5>3, <6>3, <6>5 DEF Successors
          <6>6. QED BY <6>1, <6>4, <6>5
        <5>4. QED BY <5>2, <5>3
      <4>4. e.target \notin bbs =>
             /\ e.target \in DOMAIN outs
             /\ \A m \in Gamma(outs[b]) : Exec(e.target, m) \subseteq Gamma(outs[e.target])
        BY <1>1, <4>1, <4>3 DEF Settled
      <4>5. CASE e.target = b
        <5>1. \A m \in Gamma(outs[b]) : Exec(b, m) \subseteq Gamma(s)
          BY <2>2, <2>4, <3>3, <4>5
        <5>2. \A m \in Gamma(s) : Exec(b, m) \subseteq Gamma(s)
          BY <4>2, <5>1
        <5>3. outs'[t] = s /\ outs'[e.target] = s /\ e.target \in DOMAIN outs'
          BY <1>8, <2>4, <4>5
        <5>4. QED BY <2>4, <3>1, <4>5, <5>2, <5>3
      <4>6. CASE e.target # b
        BY <1>2, <1>8, <2>4, <3>1, <4>2, <4>4, <4>6
      <4>7. QED BY <4>5, <4>6
    <3>4. QED BY <3>2, <3>3
  <2>5. QED BY <2>3, <2>4
<1>14. QED
  BY <1>9, <1>10, <1>11, <1>12, <1>13 DEF AnalysisInv

LEMMA ForwardBindPreserves ==
  ASSUME AnalysisInv, ForwardBind, UNCHANGED given
  PROVE  AnalysisInv'
<1>1. /\ TypeOK /\ GraphOK /\ PhaseOK /\ WorklistOK /\ pc = "start"
  BY DEF AnalysisInv, ForwardBind
<1>2. PICK e \in Leaving(cfg, Entry) : SetWorklist(Add(wl, e))
  BY DEF ForwardBind
<1>3. PICK s \in EntrySolutions : SetOut(Entry, s)
  BY DEF ForwardBind
<1>4. pc' = "loop" /\ cfg' = cfg
  BY DEF ForwardBind
<1>5. /\ queue = {} /\ bbs = {} /\ executable = {} /\ DOMAIN outs = {}
  BY <1>1 DEF PhaseOK
<1>6. /\ e \in cfg /\ e.source = Entry /\ wl \in Worklist /\ cfg \in SUBSET Edge
      /\ wl.queue = queue /\ wl.bbs = bbs /\ wl.executable = executable
      /\ WellFormed(wl, cfg)
  BY <1>1, WlFacts DEF Leaving
<1>7. /\ Add(wl, e) \in Worklist /\ WellFormed(Add(wl, e), cfg)
      /\ e.target \in Add(wl, e).bbs /\ Add(wl, e).executable = {e}
  BY <1>5, <1>6, AddWellFormed
<1>8. /\ wl' = Add(wl, e) /\ executable' = {e}
      /\ e.target \in bbs' /\ WellFormed(wl', cfg')
  BY <1>2, <1>4, <1>7, SetWorklistFacts
<1>9. DOMAIN outs' = {Entry} /\ outs'[Entry] = s /\ s \in Solutions
  BY <1>3, <1>5, SolutionAssumption DEF SetOut
<1>10. TypeOK'
  BY <1>1, <1>4, <1>7, <1>8, <1>9, CFGAssumption DEF TypeOK
<1>11. GraphOK' /\ PhaseOK'
  BY <1>1, <1>4, <1>9 DEF GraphOK, PhaseOK
<1>12. WorklistOK'
  <2>1. /\ queue' \subseteq executable' \cap cfg'
        /\ bbs' = {g.target : g \in queue'}
        /\ \A f, g \in queue' : f.target = g.target => f = g
    BY <1>8 DEF WellFormed, wl
  <2>2. \A g \in queue' : ExecutableSources(g.target)' # {}
    BY <2>1 DEF ExecutableSources, Entering
  <2>3. QED BY <1>6, <1>8, <1>9, <2>1, <2>2 DEF WorklistOK
<1>13. Settled'
  <2>1. \A g \in Successors(cfg', Entry, outs'[Entry]) : g = e
    <3>1. Leaving(cfg, Entry) = {e}
      BY <1>1, <1>6, CFGAssumption DEF GraphOK, ConsistentCFG, Leaving
    <3>2. QED BY <1>4, <3>1, CFGAssumption DEF Successors
  <2>2. QED BY <1>8, <1>9, <2>1 DEF Settled
<1>14. QED
  BY <1>10, <1>11, <1>12, <1>13 DEF AnalysisInv

LEMMA BackwardBindPreserves ==
  ASSUME AnalysisInv, BackwardBind, UNCHANGED given
  PROVE  AnalysisInv'
<1>1. /\ TypeOK /\ GraphOK /\ PhaseOK /\ WorklistOK /\ Settled
      /\ pc = "loop" /\ queue = {}
  BY DEF AnalysisInv, BackwardBind
<1>2. pc' \in {"done", "segfault"} /\ UNCHANGED <<cfg, queue, bbs, executable, outs>>
  BY DEF BackwardBind
<1>5. TypeOK'
  BY <1>1, <1>2 DEF TypeOK, wl
<1>6. GraphOK'
  BY <1>1, <1>2 DEF GraphOK
<1>7. PhaseOK'
  BY <1>1, <1>2 DEF PhaseOK
<1>8. WorklistOK'
  BY <1>1, <1>2 DEF WorklistOK, ExecutableSources, Entering
<1>9. Settled'
  BY <1>1, <1>2 DEF Settled, Successors, Leaving
<1>10. QED
  BY <1>5, <1>6, <1>7, <1>8, <1>9 DEF AnalysisInv

(* The analysis keeps its invariant, whatever runs beside it. *)
LEMMA AnalysisStep == AnalysisInv /\ [Next]_vars /\ UNCHANGED given => AnalysisInv'
<1> SUFFICES ASSUME AnalysisInv, [Next]_vars, UNCHANGED given PROVE AnalysisInv'
  OBVIOUS
<1>1. CASE AnalyseNext
  <2>1. PICK e \in queue : VisitBranch(e) \/ VisitStatement(e) \/ VisitExit(e)
    BY <1>1 DEF AnalyseNext
  <2>2. Visit(e.target, Transfer(e.target, Pull(e.target)))
    BY <1>1, <2>1, IterationVisits DEF AnalyseNext
  <2> QED BY <2>2, VisitPreserves
<1>2. CASE UNCHANGED vars
  BY <1>2 DEF vars, AnalysisInv, TypeOK, wl, GraphOK, PhaseOK, WorklistOK,
              ExecutableSources, Entering, Settled, Successors, Leaving
<1> QED
  BY <1>1, <1>2, ForwardBindPreserves, BackwardBindPreserves DEF Next

(* Where a run goes next, once the analysis is done. *)
LEMMA RunStep ==
  ASSUME IInv, Run
  PROVE  /\ \E e \in executable \cap cfg : e.source = at /\ e.target = at'
         /\ at' \in DOMAIN outs
         /\ store' \in Gamma(outs[at'])
<1>1. /\ TypeOK /\ GraphOK /\ PhaseOK /\ WorklistOK /\ Settled
      /\ at \in Blocks /\ store \in Stores /\ pc = "done" /\ at \notin Stops
  BY DEF IInv, AnalysisInv, Run
<1>2. at \in DOMAIN outs /\ store \in Gamma(outs[at]) /\ outs[at] \in Solutions
  BY <1>1 DEF IInv, Covered, TypeOK
<1>3. queue = {} /\ bbs = {}
  BY <1>1 DEF PhaseOK, WorklistOK
<1>4. PICK e \in Leaving(given, at) :
        Takes(e, store) /\ at' = e.target /\ store' \in Exec(e.target, store)
  BY DEF Run
<1>5. e \in Leaving(cfg, at) /\ e \in cfg /\ e.source = at
  BY <1>1, <1>4, StopsAssumption DEF GraphOK, Leaving
<1>6. e \in Successors(cfg, at, outs[at])
  <2>1. CASE at \notin Branches
    BY <1>5, <2>1 DEF Successors
  <2>2. CASE at \in Branches
    <3>1. KnownTrue(at, outs[at]) => IsTrue(at, store)
      BY <1>1, <1>2, <2>2, LatticeAssumption DEF LatticeIsSound
    <3>2. KnownFalse(at, outs[at]) => ~IsTrue(at, store)
      BY <1>1, <1>2, <2>2, LatticeAssumption DEF LatticeIsSound
    <3>3. e.direction # "none"
      BY <1>1, <1>5, <2>2 DEF GraphOK, ConsistentCFG, Towards
    <3>4. CASE e.direction = "true" /\ IsTrue(at, store)
      BY <1>5, <2>2, <3>2, <3>4 DEF Successors
    <3>5. CASE e.direction = "false" /\ ~IsTrue(at, store)
      BY <1>5, <2>2, <3>1, <3>5 DEF Successors
    <3>6. QED BY <1>4, <1>5, <3>3, <3>4, <3>5 DEF Takes
  <2>3. QED BY <2>1, <2>2
<1>7. /\ e \in executable /\ e.target \in DOMAIN outs
      /\ Exec(e.target, store) \subseteq Gamma(outs[e.target])
  BY <1>1, <1>2, <1>3, <1>6 DEF Settled
<1>8. QED BY <1>4, <1>5, <1>7

LEMMA RunPreserves ==
  ASSUME IInv, Run
  PROVE  IInv'
<1>1. AnalysisInv /\ pc = "done"
  BY DEF IInv, Run
<1>2. UNCHANGED <<given, pc, cfg, queue, bbs, executable, outs>>
  BY DEF Run
<1>3. at' \in DOMAIN outs /\ store' \in Gamma(outs[at'])
  BY RunStep
<1>4. at' \in Blocks /\ store' \in Stores
  BY <1>1, <1>3, LatticeAssumption DEF LatticeIsSound, AnalysisInv, TypeOK
<1>5. AnalysisInv'
  BY <1>1, <1>2, AnalysisStep DEF vars
<1>6. Covered'
  BY <1>2, <1>3 DEF Covered
<1>7. QED BY <1>1, <1>2, <1>4, <1>5, <1>6 DEF IInv

LEMMA AnalysePreserves ==
  ASSUME IInv, Analyse
  PROVE  IInv'
<1>1. /\ AnalysisInv /\ Next /\ UNCHANGED <<given, at>> /\ pc # "done" /\ at = Entry
      /\ at \in Blocks /\ store \in Stores
  BY DEF IInv, Analyse, Next, ForwardBind, AnalyseNext, BackwardBind
<1>2. AnalysisInv'
  BY <1>1, AnalysisStep
<1>3. CASE pc' = "done"
  <2>1. UNCHANGED outs
    BY <1>1, <1>3 DEF Next, ForwardBind, AnalyseNext, VisitBranch, VisitStatement, VisitExit,
                      BackwardBind
  <2>2. Entry \in DOMAIN outs /\ outs[Entry] \in Solutions
    BY <1>2, <1>3, <2>1 DEF AnalysisInv, PhaseOK, TypeOK
  <2>3. store' \in Gamma(outs[Entry]) /\ store' \in Stores
    BY <1>3, <2>2, LatticeAssumption DEF LatticeIsSound, Analyse
  <2> QED BY <1>1, <1>2, <1>3, <2>1, <2>2, <2>3 DEF IInv, Covered
<1>4. CASE pc' # "done"
  <2>1. store' = store
    BY <1>4 DEF Analyse
  <2> QED BY <1>1, <1>2, <1>4, <2>1 DEF IInv, Covered
<1> QED BY <1>3, <1>4

LEMMA StepPreserves == IInv /\ [RunNext]_<<vars, runVars>> => IInv'
<1> SUFFICES ASSUME IInv, [RunNext]_<<vars, runVars>> PROVE IInv'
  OBVIOUS
<1>1. CASE UNCHANGED <<vars, runVars>>
  <2>1. AnalysisInv'
    BY <1>1, AnalysisStep DEF IInv, runVars
  <2> QED BY <1>1, <2>1 DEF vars, runVars, IInv, Covered
<1> QED BY <1>1, AnalysePreserves, RunPreserves DEF RunNext

(* The invariant behind the theorems below: it adds to them how far the    *)
(* graph may have been changed, and what each phase leaves.                *)
THEOREM Inductive == RunSpec => []IInv
<1>1. QED BY InitIInv, StepPreserves, PTL DEF RunSpec

(* Every variable keeps its type. *)
THEOREM TypeCorrect == RunSpec => []CoverageTypeOK
<1>1. IInv => CoverageTypeOK
  BY DEF IInv, AnalysisInv, GraphOK, CoverageTypeOK
<1>2. QED BY <1>1, Inductive, PTL

(* The worklist never holds a stale edge, and pull_results always finds an *)
(* executable predecessor.                                                 *)
THEOREM WorklistCorrect == RunSpec => []WorklistOK
<1>1. IInv => WorklistOK
  BY DEF IInv, AnalysisInv
<1>2. QED BY <1>1, Inductive, PTL

(* analyse_function leaves a solution of the whole graph. *)
THEOREM FixedPoint == RunSpec => []Settled
<1>1. IInv => Settled
  BY DEF IInv, AnalysisInv
<1>2. QED BY <1>1, Inductive, PTL

(* Whatever the running method does, the analysis has foreseen. *)
THEOREM AnalysisCovers == RunSpec => []Covered
<1>1. IInv => Covered
  BY DEF IInv
<1>2. QED BY <1>1, Inductive, PTL

(* A run never leaves the edges marked executable. *)
THEOREM ExecutableCovers == RunSpec => RunsOnExecutableEdges
<1>1. IInv /\ [RunNext]_<<vars, runVars>> =>
        [at' # at => \E e \in executable \cap cfg : e.source = at /\ e.target = at']_<<vars, runVars>>
  BY RunStep DEF RunNext, Analyse, runVars
<1>2. QED BY <1>1, Inductive, PTL DEF RunSpec, RunsOnExecutableEdges

-----------------------------------------------------------------------------
(* The loop ends.  W: the second solution stands for more than the first;  *)
(* H: how much a solution stands for, of n.                                *)
Widening(W, H, n) ==
  /\ n \in Nat /\ H \in [Solutions -> 0..n]
  /\ W \subseteq Solutions \X Solutions
  /\ \A s \in Solutions : <<s, s>> \in W
  /\ \A s, t, u \in Solutions : <<s, t>> \in W /\ <<t, u>> \in W => <<s, u>> \in W
  /\ \A S, T \in SUBSET Solutions :
       S # {} /\ (\A s \in S : \E t \in T : <<s, t>> \in W) => <<MeetAll(S), MeetAll(T)>> \in W
  /\ \A b \in Blocks, s, t \in Solutions :
       <<s, t>> \in W => <<Transfer(b, s), Transfer(b, t)>> \in W
  /\ \A s, t \in Solutions : <<s, t>> \in W =>
       H[s] <= H[t] /\ (~Same(t, s) => H[s] < H[t])

(* Only the exit block is still to be visited, after which nothing is. *)
Closing == \A e \in queue : e.target = Exit

(* Another visit of b would not narrow its solution. *)
Rises(W, b) ==
  b \in DOMAIN outs \ {Entry} =>
    ExecutableSources(b) # {} /\ <<outs[b], Transfer(b, Pull(b))>> \in W

(* An edge that is moved from a block to the exit block leaves its target  *)
(* with less to merge, but no block is visited after that.                 *)
RisingInv(W) ==
  pc = "loop" => Rises(W, Exit) /\ (Closing \/ \A b \in Blocks : Rises(W, b))

(* What is left to do: what the solutions may still come to stand for, the *)
(* edges that may become executable, and the queue.                        *)
Wider(H, n) == {p \in Blocks \X (0..n) : p[1] \in DOMAIN outs => H[outs[p[1]]] < p[2]}

Growth(H, n) == Cardinality(Wider(H, n)) + Cardinality(Edge \ executable)

Remaining(H, n) ==
  Cardinality(queue) +
    (IF Closing THEN 0 ELSE (Growth(H, n) + 1) * (Cardinality(Edge) + 1))

(* Where an edge is moved, only the exit block is left to visit. *)
Cuts(b) ==
  \E f \in cfg :
    /\ f.target # Exit /\ b # Exit
    /\ cfg' = (cfg \ {f}) \cup {[source |-> b, target |-> Exit, direction |-> "none"]}
    /\ \A g \in queue' : g.target = Exit

Moves(e) ==
  LET b == e.target
      s == Transfer(b, Pull(b)) IN
  /\ Visit(b, s)
  /\ \/ /\ cfg' = cfg
        /\ SolutionChanged(b, s) \/ executable' # executable \/ queue' = queue \ {e}
     \/ Cuts(b)
  /\ b = Exit => queue' = queue \ {e} /\ cfg' = cfg /\ executable' = executable

LEMMA IterationMoves ==
  ASSUME AnalysisInv, pc = "loop", NEW e \in queue,
         VisitBranch(e) \/ VisitStatement(e) \/ VisitExit(e)
  PROVE  Moves(e)
<1> DEFINE b == e.target
           s == Transfer(b, Pull(b))
           changed == SolutionChanged(b, s)
           w == Remove(wl, e)
<1>1. Visit(b, s)
  BY IterationVisits
<1>2. /\ TypeOK /\ WorklistOK /\ ConsistentCFG(cfg) /\ wl \in Worklist
      /\ w.queue = queue \ {e} /\ w.executable = executable
  BY DEF AnalysisInv, GraphOK, TypeOK, Remove, wl
<1>3. e \in Edge /\ e \in cfg
  BY <1>2 DEF WorklistOK, ConsistentCFG
<1>4. CASE VisitBranch(e)
  <2>1. PICK f \in Towards(cfg, b, "false"), t \in Towards(cfg, b, "true") :
          SetWorklist(AddSuccessorIf(AddSuccessorIf(w, f, changed, ~KnownTrue(b, s)),
                                     t, changed, ~KnownFalse(b, s)))
    BY <1>4 DEF VisitBranch
  <2> DEFINE w1 == AddSuccessorIf(w, f, changed, ~KnownTrue(b, s))
             w2 == AddSuccessorIf(w1, t, changed, ~KnownFalse(b, s))
  <2>3. /\ changed \/ f \notin w.executable \/ w1 = w
        /\ w1 = w \/ w1.executable = w.executable \cup {f}
    <3> HIDE DEF w, changed, s, b
    <3> QED  BY DEF AddSuccessorIf, AddSuccessor, Add
  <2>4. /\ changed \/ t \notin w1.executable \/ w2 = w1
        /\ w2 = w1 \/ w2.executable = w1.executable \cup {t}
    <3> HIDE DEF w, changed, s, b, w1
    <3> QED  BY DEF AddSuccessorIf, AddSuccessor, Add
  <2>5. queue' = w2.queue /\ executable' = w2.executable /\ cfg' = cfg
    BY <1>4, <2>1 DEF SetWorklist, VisitBranch
  <2>6. b \in Branches /\ b # Exit
    BY <1>4, CFGAssumption DEF VisitBranch
  <2>7. changed \/ executable' # executable \/ queue' = queue \ {e}
    <3> HIDE DEF w, changed, s, b, w1, w2
    <3> QED  BY <1>2, <2>3, <2>4, <2>5
  <2> QED  BY <1>1, <2>5, <2>6, <2>7 DEF Moves
<1>5. CASE VisitStatement(e)
  <2>1. PICK next \in Leaving(cfg, b) :
          LET cut == /\ changed \/ next \notin executable
                     /\ b \in Dies /\ w.queue = {}
                     /\ next.target # Exit
              toExit == [source |-> b, target |-> Exit, direction |-> "none"]
          IN IF cut
               THEN /\ cfg' = Redirect(cfg, next, toExit)
                    /\ SetWorklist(Add(w, toExit))
               ELSE /\ SetWorklist(AddSuccessor(w, next, changed))
                    /\ UNCHANGED cfg
    BY <1>5 DEF VisitStatement
  <2>2. b # Exit
    BY <1>5 DEF VisitStatement
  <2>3. CASE /\ changed \/ next \notin executable
             /\ b \in Dies /\ w.queue = {} /\ next.target # Exit
    <3>1. PICK toExit : toExit = [source |-> b, target |-> Exit, direction |-> "none"]
      OBVIOUS
    <3>2. cfg' = (cfg \ {next}) \cup {toExit} /\ SetWorklist(Add(w, toExit))
      BY <2>1, <2>3, <3>1 DEF Redirect
    <3>3. queue' \subseteq {toExit}
      BY <2>3, <3>2 DEF SetWorklist, Add
    <3>4. Cuts(b)
      BY <2>1, <2>2, <2>3, <3>1, <3>2, <3>3 DEF Cuts, Leaving
    <3> QED  BY <1>1, <2>2, <3>4 DEF Moves
  <2>4. CASE ~(/\ changed \/ next \notin executable
               /\ b \in Dies /\ w.queue = {} /\ next.target # Exit)
    <3>1. SetWorklist(AddSuccessor(w, next, changed)) /\ cfg' = cfg
      BY <2>1, <2>4
    <3>2. queue' = AddSuccessor(w, next, changed).queue
          /\ executable' = AddSuccessor(w, next, changed).executable
      BY <3>1 DEF SetWorklist
    <3>3. changed \/ executable' # executable \/ queue' = queue \ {e}
      <4> HIDE DEF changed, w
      <4> QED  BY <1>2, <3>2 DEF AddSuccessor, Add
    <3> QED  BY <1>1, <2>2, <3>1, <3>3 DEF Moves
  <2> QED  BY <2>3, <2>4
<1>6. CASE VisitExit(e)
  <2>1. queue' = queue \ {e} /\ executable' = executable /\ cfg' = cfg
    BY <1>2, <1>6 DEF VisitExit, SetWorklist
  <2> QED  BY <1>1, <2>1 DEF Moves
<1> QED  BY <1>4, <1>5, <1>6

(* What merges more, of solutions that stand for more, stands for more. *)
LEMMA RisesAgain ==
  ASSUME AnalysisInv, NEW W, NEW H, NEW n, Widening(W, H, n),
         NEW b, Visit(b, Transfer(b, Pull(b))), Rises(W, b),
         NEW c \in Blocks, Rises(W, c),
         ExecutableSources(c) \subseteq ExecutableSources(c)',
         AnalysisInv'
  PROVE  Rises(W, c)'
<1> DEFINE s == Transfer(b, Pull(b))
           P == {outs[p] : p \in ExecutableSources(c)}
           Q == {outs'[p] : p \in ExecutableSources(c)'}
<1>1. /\ TypeOK /\ WorklistOK /\ b \in Blocks \ {Entry} /\ b \in bbs
      /\ TypeOK' /\ WorklistOK'
  BY DEF AnalysisInv, Visit
<1>2. /\ DOMAIN outs' = DOMAIN outs \cup {b} /\ outs'[b] = s
      /\ \A t \in DOMAIN outs \ {b} : outs'[t] = outs[t]
  BY DEF Visit, SetOut
<1>3. s \in Solutions /\ ExecutableSources(b) # {}
  BY <1>1, VisitFacts DEF WorklistOK
<1>4. /\ ExecutableSources(c) \subseteq DOMAIN outs
      /\ ExecutableSources(c)' \subseteq DOMAIN outs'
  BY <1>1 DEF WorklistOK, ExecutableSources
<1> HIDE DEF s
<1>5. \A p \in DOMAIN outs : outs[p] \in Solutions
  BY <1>1 DEF TypeOK
<1>6. \A p \in DOMAIN outs' : outs'[p] \in Solutions
  BY <1>1 DEF TypeOK
<1>7. \A p \in DOMAIN outs : <<outs[p], outs'[p]>> \in W
  <2> TAKE p \in DOMAIN outs
  <2>1. CASE p = b
    BY <1>1, <1>2, <2>1 DEF Rises, s
  <2>2. CASE p # b
    BY <1>2, <1>5, <2>2 DEF Widening
  <2> QED  BY <2>1, <2>2
<1>8. SUFFICES ASSUME c \in DOMAIN outs' \ {Entry}
               PROVE  /\ ExecutableSources(c)' # {}
                      /\ <<outs'[c], Transfer(c, Pull(c)')>> \in W
  BY DEF Rises
<1>9. ExecutableSources(c) # {}
  BY <1>2, <1>3, <1>8 DEF Rises
<1>10. <<outs'[c], Transfer(c, Pull(c))>> \in W
  <2>1. CASE c = b
    BY <1>2, <1>3, <2>1 DEF Widening, s
  <2>2. CASE c # b
    BY <1>2, <1>8, <2>2 DEF Rises
  <2> QED  BY <2>1, <2>2
<1>11. P \in SUBSET Solutions /\ P # {} /\ Q \in SUBSET Solutions /\ Q # {}
  BY <1>4, <1>5, <1>6, <1>9
<1>12. \A u \in P : \E v \in Q : <<u, v>> \in W
  BY <1>4, <1>7
<1>13. Pull(c) = MeetAll(P) /\ Pull(c)' = MeetAll(Q)
  BY DEF Pull
<1> HIDE DEF P, Q
<1>14. /\ <<Pull(c), Pull(c)'>> \in W
       /\ Pull(c) \in Solutions /\ Pull(c)' \in Solutions
  BY <1>11, <1>12, <1>13, SolutionAssumption DEF Widening
<1>15. /\ <<Transfer(c, Pull(c)), Transfer(c, Pull(c)')>> \in W
       /\ Transfer(c, Pull(c)) \in Solutions /\ Transfer(c, Pull(c)') \in Solutions
  BY <1>14, SolutionAssumption DEF Widening
<1>16. outs'[c] \in Solutions
  BY <1>6, <1>8
<1> QED  BY <1>9, <1>10, <1>15, <1>16, <1>4, ExecutableSources(c)' # {} DEF Widening

(* The visited block, whatever is left to do. *)
LEMMA VisitedRises ==
  ASSUME AnalysisInv, NEW W, RisingInv(W), pc = "loop", NEW e \in queue
  PROVE  Rises(W, e.target)
<1>1. e.target \in Blocks
  BY DEF AnalysisInv, TypeOK, wl, Worklist, Edge
<1> QED  BY <1>1 DEF RisingInv, Closing

LEMMA IterationRises ==
  ASSUME AnalysisInv, NEW W, NEW H, NEW n, Widening(W, H, n), RisingInv(W),
         pc = "loop", NEW e \in queue, Moves(e), AnalysisInv'
  PROVE  RisingInv(W)'
<1> DEFINE b == e.target
           s == Transfer(b, Pull(b))
<1>1. Visit(b, s) /\ Rises(W, b)
  BY VisitedRises DEF Moves
<1>2. Exit \in Blocks /\ executable \subseteq executable'
  BY <1>1, CFGAssumption DEF Visit
<1>3. SUFFICES Rises(W, Exit)' /\ (Closing' \/ \A c \in Blocks : Rises(W, c)')
  BY DEF RisingInv
<1>4. CASE cfg' = cfg
  <2>1. \A c \in Blocks : ExecutableSources(c) \subseteq ExecutableSources(c)'
    BY <1>2, <1>4 DEF ExecutableSources, Entering
  <2>2. \A c \in Blocks : Rises(W, c) => Rises(W, c)'
    BY <1>1, <2>1, RisesAgain
  <2>3. Rises(W, Exit)'
    BY <1>2, <2>2 DEF RisingInv
  <2>4. Closing => Closing'
    BY DEF Closing, Moves
  <2> QED  BY <2>2, <2>3, <2>4 DEF RisingInv
<1>5. CASE Cuts(b)
  <2>1. PICK f \in cfg :
          /\ f.target # Exit
          /\ cfg' = (cfg \ {f}) \cup {[source |-> b, target |-> Exit, direction |-> "none"]}
          /\ \A g \in queue' : g.target = Exit
    BY <1>5 DEF Cuts
  <2>2. ExecutableSources(Exit) \subseteq ExecutableSources(Exit)'
    BY <1>2, <2>1 DEF ExecutableSources, Entering
  <2>3. Rises(W, Exit)'
    BY <1>1, <1>2, <2>2, RisesAgain DEF RisingInv
  <2> QED  BY <2>1, <2>3 DEF Closing
<1> QED  BY <1>4, <1>5 DEF Moves

LEMMA RisingStep ==
  ASSUME AnalysisInv, NEW W, NEW H, NEW n, Widening(W, H, n), RisingInv(W),
         [Next]_vars, UNCHANGED given
  PROVE  RisingInv(W)'
<1>1. AnalysisInv'
  BY AnalysisStep
<1>2. CASE ForwardBind
  <2>1. DOMAIN outs' = {Entry}
    BY <1>2 DEF AnalysisInv, PhaseOK, ForwardBind, SetOut
  <2> QED  BY <2>1 DEF RisingInv, Rises
<1>3. CASE AnalyseNext
  <2>1. PICK e \in queue : VisitBranch(e) \/ VisitStatement(e) \/ VisitExit(e)
    BY <1>3 DEF AnalyseNext
  <2>2. pc = "loop" /\ Moves(e)
    BY <1>3, <2>1, IterationMoves DEF AnalyseNext
  <2> QED  BY <1>1, <2>2, IterationRises
<1>4. CASE BackwardBind
  BY <1>4 DEF BackwardBind, RisingInv
<1>5. CASE UNCHANGED vars
  BY <1>5 DEF vars, RisingInv, Rises, Closing, ExecutableSources, Entering, Pull
<1> QED  BY <1>2, <1>3, <1>4, <1>5 DEF Next

LEMMA EdgesFinite == IsFiniteSet(Blocks) => IsFiniteSet(Edge)
<1> SUFFICES ASSUME IsFiniteSet(Blocks) PROVE IsFiniteSet(Edge)
  OBVIOUS
<1> DEFINE T == (Blocks \X Blocks) \X Directions
           f == [e \in Edge |-> <<<<e.source, e.target>>, e.direction>>]
<1>1. IsFiniteSet(Directions)
  <2>1. Directions = ({"true"} \cup {"false"}) \cup {"none"}
    BY DEF Directions
  <2> QED  BY <2>1, FS_Singleton, FS_Union
<1>2. IsFiniteSet(T)
  BY <1>1, FS_Product
<1>3. f \in [Edge -> T]
  BY DEF Edge
<1>4. \A d, e \in Edge : f[d] = f[e] => d = e
  BY DEF Edge
<1>5. f \in Injection(Edge, T)
  <2> HIDE DEF f, T
  <2> QED  BY <1>3, <1>4 DEF Injection, IsInjective
<1> HIDE DEF f, T
<1> QED  BY <1>2, <1>5, FS_Injection

(* A smaller set of pairs or edges to come. *)
LEMMA SubsetGrows ==
  ASSUME NEW S, IsFiniteSet(S), NEW T \in SUBSET S
  PROVE  /\ Cardinality(S) \in Nat /\ Cardinality(T) \in Nat
         /\ Cardinality(T) <= Cardinality(S)
         /\ T # S => Cardinality(T) < Cardinality(S)
<1>1. /\ IsFiniteSet(T) /\ Cardinality(T) <= Cardinality(S)
      /\ Cardinality(S) = Cardinality(T) => S = T
  BY FS_Subset
<1>2. Cardinality(S) \in Nat /\ Cardinality(T) \in Nat
  BY <1>1, FS_CardinalityType
<1> QED  BY <1>1, <1>2

LEMMA LessRemains ==
  ASSUME NEW m \in Nat, NEW g \in Nat, NEW h \in Nat, NEW q \in Nat, NEW r \in Nat,
         r <= m, h < g
  PROVE  r + (h + 1) * (m + 1) < q + (g + 1) * (m + 1)
<1>1. PICK d \in Nat : g = h + 1 + d
  <2>1. g - h - 1 \in Nat /\ g = h + 1 + (g - h - 1)
    OBVIOUS
  <2> QED  BY <2>1
<1>2. (g + 1) * (m + 1) = (h + 1) * (m + 1) + (m + 1) + d * (m + 1)
  BY <1>1
<1>3. d * (m + 1) \in Nat /\ (h + 1) * (m + 1) \in Nat
  OBVIOUS
<1> QED  BY <1>2, <1>3

LEMMA SameRemains ==
  ASSUME NEW m \in Nat, NEW g \in Nat, NEW h \in Nat, NEW q \in Nat, NEW r \in Nat,
         r < q, h <= g
  PROVE  r + (h + 1) * (m + 1) < q + (g + 1) * (m + 1)
<1>1. PICK d \in Nat : g = h + d
  <2>1. g - h \in Nat /\ g = h + (g - h)
    OBVIOUS
  <2> QED  BY <2>1
<1>2. (g + 1) * (m + 1) = (h + 1) * (m + 1) + d * (m + 1)
  BY <1>1
<1>3. d * (m + 1) \in Nat /\ (h + 1) * (m + 1) \in Nat
  OBVIOUS
<1> QED  BY <1>2, <1>3

LEMMA RemainingType ==
  ASSUME TypeOK, IsFiniteSet(Blocks), NEW W, NEW H, NEW n, Widening(W, H, n)
  PROVE  /\ Cardinality(queue) \in Nat /\ Cardinality(Edge) \in Nat
         /\ Cardinality(queue) <= Cardinality(Edge)
         /\ IsFiniteSet(Wider(H, n)) /\ IsFiniteSet(Edge \ executable) /\ IsFiniteSet(queue)
         /\ Growth(H, n) \in Nat /\ Remaining(H, n) \in Nat
<1>1. IsFiniteSet(Edge) /\ queue \in SUBSET Edge
  BY EdgesFinite DEF TypeOK, wl, Worklist
<1>2. /\ Cardinality(queue) \in Nat /\ Cardinality(Edge) \in Nat
      /\ Cardinality(queue) <= Cardinality(Edge) /\ IsFiniteSet(queue)
  BY <1>1, SubsetGrows, FS_Subset
<1>3. IsFiniteSet(Blocks \X (0..n))
  <2>1. 0 \in Int /\ n \in Int
    BY DEF Widening
  <2>2. IsFiniteSet(0..n)
    BY <2>1, FS_Interval
  <2> QED  BY <2>2, FS_Product
<1>4. Wider(H, n) \in SUBSET (Blocks \X (0..n)) /\ Edge \ executable \in SUBSET Edge
  BY DEF Wider
<1>5. /\ IsFiniteSet(Wider(H, n)) /\ IsFiniteSet(Edge \ executable)
  BY <1>1, <1>3, <1>4, FS_Subset
<1>6. Growth(H, n) \in Nat
  BY <1>5, FS_CardinalityType DEF Growth
<1>7. (Growth(H, n) + 1) * (Cardinality(Edge) + 1) \in Nat
  BY <1>2, <1>6
<1> QED  BY <1>2, <1>5, <1>6, <1>7 DEF Remaining

MeasuresOK(H, n) ==
  /\ Cardinality(queue) \in Nat /\ Cardinality(queue) <= Cardinality(Edge)
  /\ Growth(H, n) \in Nat /\ Remaining(H, n) \in Nat

LEMMA RemainingTypeNext ==
  ASSUME IsFiniteSet(Blocks), NEW W, NEW H, NEW n, Widening(W, H, n)
  PROVE  TypeOK' => MeasuresOK(H, n)'
<1>1. TypeOK => MeasuresOK(H, n)
  BY RemainingType DEF MeasuresOK
<1> QED  BY <1>1, PTL

(* An iteration leaves less to grow, if it changes a solution or reaches   *)
(* an edge for the first time.                                             *)
LEMMA GrowthFalls ==
  ASSUME TypeOK, TypeOK', IsFiniteSet(Blocks), NEW W, NEW H, NEW n, Widening(W, H, n),
         NEW b, Visit(b, Transfer(b, Pull(b))), Rises(W, b)
  PROVE  /\ Growth(H, n)' <= Growth(H, n)
         /\ SolutionChanged(b, Transfer(b, Pull(b))) \/ executable' # executable =>
              Growth(H, n)' < Growth(H, n)
<1> DEFINE s == Transfer(b, Pull(b))
<1>1. /\ b \in Blocks \ {Entry} /\ executable \subseteq executable'
      /\ DOMAIN outs' = DOMAIN outs \cup {b} /\ outs'[b] = s
      /\ \A t \in DOMAIN outs \ {b} : outs'[t] = outs[t]
  BY DEF Visit, SetOut
<1>2. s \in Solutions /\ executable' \subseteq Edge
  BY <1>1 DEF TypeOK, wl, Worklist
<1>3. \A p \in DOMAIN outs : outs[p] \in Solutions
  BY DEF TypeOK
<1>4. n \in Nat /\ H \in [Solutions -> 0..n]
  BY DEF Widening
<1>5. b \in DOMAIN outs => H[outs[b]] <= H[s] /\ (~Same(s, outs[b]) => H[outs[b]] < H[s])
  BY <1>1, <1>2, <1>3 DEF Widening, Rises
<1> DEFINE A == Wider(H, n)
           B == Edge \ executable
<1>6. A' \subseteq A
  <2> SUFFICES ASSUME NEW p \in A' PROVE p \in A
    OBVIOUS
  <2>1. /\ p \in Blocks \X (0..n)
        /\ p[1] \in DOMAIN outs' => H[outs'[p[1]]] < p[2]
    BY DEF Wider
  <2>2. p[2] \in Nat
    BY <2>1, <1>4
  <2>3. CASE p[1] \in DOMAIN outs /\ p[1] = b
    <3>1. H[s] < p[2] /\ H[outs[b]] <= H[s]
      BY <1>1, <1>5, <2>1, <2>3
    <3>2. H[s] \in Nat /\ H[outs[b]] \in Nat
      BY <1>2, <1>3, <1>4, <2>3
    <3> HIDE DEF s
    <3>3. H[outs[b]] < p[2]
      BY <2>2, <3>1, <3>2
    <3> QED  BY <2>1, <2>3, <3>3 DEF Wider
  <2>4. CASE p[1] \in DOMAIN outs /\ p[1] # b
    BY <1>1, <2>1, <2>4 DEF Wider
  <2>5. CASE p[1] \notin DOMAIN outs
    BY <2>1, <2>5 DEF Wider
  <2> QED  BY <2>3, <2>4, <2>5
<1>7. SolutionChanged(b, s) => A' # A
  <2> SUFFICES ASSUME SolutionChanged(b, s) PROVE A' # A
    OBVIOUS
  <2>1. CASE b \notin DOMAIN outs
    <3> DEFINE p == <<b, 0>>
    <3>1. p \in A
      BY <1>1, <1>4, <2>1 DEF Wider
    <3>2. H[s] \in Nat /\ outs'[b] = s /\ b \in DOMAIN outs'
      BY <1>1, <1>2, <1>4
    <3> HIDE DEF s
    <3>3. p \notin A'
      BY <3>2 DEF Wider
    <3> QED  BY <3>1, <3>3
  <2>2. CASE b \in DOMAIN outs
    <3> DEFINE p == <<b, H[s]>>
    <3>1. H[outs[b]] < H[s]
      BY <1>5, <2>2 DEF SolutionChanged
    <3>2. H[s] \in 0..n /\ outs'[b] = s /\ b \in DOMAIN outs'
      BY <1>1, <1>2, <1>4
    <3> HIDE DEF s
    <3>3. p \in A
      BY <1>1, <3>1, <3>2 DEF Wider
    <3>4. p \notin A'
      BY <1>4, <3>2 DEF Wider
    <3> QED  BY <3>3, <3>4
  <2> QED  BY <2>1, <2>2
<1>8. B' \subseteq B /\ (executable' # executable => B' # B)
  BY <1>1, <1>2
<1>9. IsFiniteSet(A) /\ IsFiniteSet(B) /\ Growth(H, n) = Cardinality(A) + Cardinality(B)
  BY RemainingType DEF Growth
<1>10. Growth(H, n)' = Cardinality(A') + Cardinality(B')
  BY DEF Growth
<1> HIDE DEF A, B, s
<1>11. /\ Cardinality(A) \in Nat /\ Cardinality(A') \in Nat
       /\ Cardinality(A') <= Cardinality(A)
       /\ A' # A => Cardinality(A') < Cardinality(A)
  BY <1>6, <1>9, SubsetGrows
<1>12. /\ Cardinality(B) \in Nat /\ Cardinality(B') \in Nat
       /\ Cardinality(B') <= Cardinality(B)
       /\ B' # B => Cardinality(B') < Cardinality(B)
  BY <1>8, <1>9, SubsetGrows
<1>13. /\ Growth(H, n)' <= Growth(H, n)
       /\ A' # A \/ B' # B => Growth(H, n)' < Growth(H, n)
  BY <1>9, <1>10, <1>11, <1>12
<1> QED  BY <1>7, <1>8, <1>13 DEF s

(* Each iteration of the loop leaves less to do. *)
LEMMA RemainingFalls ==
  ASSUME AnalysisInv, AnalysisInv', IsFiniteSet(Blocks), NEW W, NEW H, NEW n,
         Widening(W, H, n), RisingInv(W), pc = "loop", NEW e \in queue, Moves(e)
  PROVE  Remaining(H, n)' < Remaining(H, n)
<1> DEFINE b == e.target
           s == Transfer(b, Pull(b))
           m == Cardinality(Edge)
           q == Cardinality(queue)
           g == Growth(H, n)
<1>1. TypeOK /\ TypeOK' /\ Visit(b, s) /\ Rises(W, b)
  BY VisitedRises DEF AnalysisInv, Moves
<1>2. /\ q \in Nat /\ q <= m /\ g \in Nat /\ m \in Nat /\ IsFiniteSet(queue)
  BY <1>1, RemainingType
<1>3. /\ q' \in Nat /\ q' <= m /\ g' \in Nat
  BY <1>1, RemainingTypeNext DEF MeasuresOK
<1>4. /\ g' <= g
      /\ SolutionChanged(b, s) \/ executable' # executable => g' < g
  BY <1>1, GrowthFalls
<1>5. queue' = queue \ {e} => q' < q
  <2>1. queue \ {e} \in SUBSET queue /\ queue \ {e} # queue
    OBVIOUS
  <2> QED  BY <1>2, <2>1, SubsetGrows
<1>6. /\ Closing => Remaining(H, n) = q
      /\ ~Closing => Remaining(H, n) = q + (g + 1) * (m + 1)
      /\ Closing' => Remaining(H, n)' = q'
      /\ ~Closing' => Remaining(H, n)' = q' + (g' + 1) * (m + 1)
  <2>1. q + 0 = q /\ q' + 0 = q'
    BY <1>2, <1>3
  <2> QED  BY <2>1 DEF Remaining
<1> HIDE DEF q, g, m
<1>7. CASE Closing
  <2>1. b = Exit /\ queue' = queue \ {e}
    BY <1>7 DEF Closing, Moves
  <2>2. Closing'
    BY <1>7, <2>1 DEF Closing
  <2> QED  BY <1>2, <1>3, <1>5, <1>6, <1>7, <2>1, <2>2
<1>8. CASE ~Closing /\ Closing'
  <2>1. Remaining(H, n) = q + (g + 1) * (m + 1) /\ Remaining(H, n)' = q'
    BY <1>3, <1>6, <1>8
  <2>2. (g + 1) * (m + 1) = g * (m + 1) + m + 1 /\ g * (m + 1) \in Nat
    BY <1>2
  <2> QED  BY <1>2, <1>3, <2>1, <2>2
<1>9. CASE ~Closing /\ ~Closing'
  <2>1. \/ SolutionChanged(b, s) \/ executable' # executable
        \/ queue' = queue \ {e}
    BY <1>9 DEF Moves, Cuts, Closing
  <2>2. /\ Remaining(H, n) = q + (g + 1) * (m + 1)
        /\ Remaining(H, n)' = q' + (g' + 1) * (m + 1)
    BY <1>6, <1>9
  <2>3. CASE SolutionChanged(b, s) \/ executable' # executable
    BY <1>2, <1>3, <1>4, <2>2, <2>3, LessRemains
  <2>4. CASE queue' = queue \ {e}
    BY <1>2, <1>3, <1>4, <1>5, <2>2, <2>4, SameRemains
  <2> QED  BY <2>1, <2>3, <2>4
<1> QED  BY <1>7, <1>8, <1>9

(* An edge that is queued can be given out and its target visited. *)
CanVisit(e) ==
  \/ e.target = Exit
  \/ /\ e.target \in Branches
     /\ Towards(cfg, e.target, "false") # {} /\ Towards(cfg, e.target, "true") # {}
  \/ e.target \notin Branches \cup {Exit} /\ Leaving(cfg, e.target) # {}

(* Where the solutions of a finite method are bounded, an iteration leaves *)
(* less to do; no block's solution ever stands for less than before.       *)
Progress(W, H, n) ==
  /\ pc = "loop" /\ pc' = "loop" => Remaining(H, n)' < Remaining(H, n)
  /\ \A b \in DOMAIN outs : b \in DOMAIN outs' /\ <<outs[b], outs'[b]>> \in W

LEMMA QueuedCanBeVisited == AnalysisInv => \A e \in queue : CanVisit(e)
<1> SUFFICES ASSUME AnalysisInv, NEW e \in queue, e.target # Exit PROVE CanVisit(e)
  BY DEF CanVisit
<1>1. e \in cfg /\ ConsistentCFG(cfg) /\ e.target \in Blocks
  BY DEF AnalysisInv, GraphOK, WorklistOK, TypeOK, wl, Worklist, Edge
<1>2. Leaving(cfg, e.target) # {}
  BY <1>1 DEF ConsistentCFG
<1>3. CASE e.target \in Branches
  <2>1. \E f \in cfg : Towards(cfg, e.target, "false") = {f}
    BY <1>1, <1>2, <1>3 DEF ConsistentCFG
  <2>2. \E f \in cfg : Towards(cfg, e.target, "true") = {f}
    BY <1>1, <1>2, <1>3 DEF ConsistentCFG
  <2> QED  BY <1>3, <2>1, <2>2 DEF CanVisit
<1>4. CASE e.target \notin Branches
  BY <1>2, <1>4 DEF CanVisit
<1> QED  BY <1>3, <1>4

LEMMA ProgressStep ==
  ASSUME IsFiniteSet(Blocks), NEW W, NEW H, NEW n, Widening(W, H, n),
         AnalysisInv, RisingInv(W), Next, UNCHANGED given
  PROVE  Progress(W, H, n)
<1>1. AnalysisInv' /\ TypeOK /\ WorklistOK
  BY AnalysisStep DEF AnalysisInv
<1>2. \A b \in DOMAIN outs : outs[b] \in Solutions
  BY <1>1 DEF TypeOK
<1>3. CASE ForwardBind
  <2>1. DOMAIN outs = {} /\ pc = "start"
    BY <1>3 DEF AnalysisInv, PhaseOK, ForwardBind
  <2> QED  BY <2>1 DEF Progress
<1>4. CASE AnalyseNext
  <2>1. PICK e \in queue : VisitBranch(e) \/ VisitStatement(e) \/ VisitExit(e)
    BY <1>4 DEF AnalyseNext
  <2>2. pc = "loop" /\ Moves(e)
    BY <1>4, <2>1, IterationMoves DEF AnalyseNext
  <2>3. Remaining(H, n)' < Remaining(H, n)
    BY <1>1, <2>2, RemainingFalls
  <2> DEFINE b == e.target
             s == Transfer(b, Pull(b))
  <2>4. Visit(b, s) /\ Rises(W, b)
    BY <2>2, VisitedRises DEF Moves
  <2>5. /\ b # Entry
        /\ DOMAIN outs' = DOMAIN outs \cup {b} /\ outs'[b] = s
        /\ \A t \in DOMAIN outs \ {b} : outs'[t] = outs[t]
    BY <2>4 DEF Visit, SetOut
  <2>6. ASSUME NEW t \in DOMAIN outs PROVE <<outs[t], outs'[t]>> \in W
    <3>1. CASE t = b
      BY <2>4, <2>5, <3>1 DEF Rises
    <3>2. CASE t # b
      BY <1>2, <2>5, <3>2 DEF Widening
    <3> QED  BY <3>1, <3>2
  <2> QED  BY <2>3, <2>5, <2>6 DEF Progress
<1>5. CASE BackwardBind
  BY <1>2, <1>5 DEF BackwardBind, Progress, Widening
<1> QED  BY <1>3, <1>4, <1>5 DEF Next

FiniteMethod == IsFiniteSet(Blocks)

LoopGoesOn(W, H, n) ==
  /\ FiniteMethod /\ Widening(W, H, n)
  /\ AnalysisInv /\ RisingInv(W) /\ Next /\ UNCHANGED given
  => RisingInv(W)' /\ Progress(W, H, n)

LEMMA LoopStep == \A W, H, n : LoopGoesOn(W, H, n)
  BY ProgressStep, RisingStep DEF FiniteMethod, LoopGoesOn

LEMMA MeasureType ==
  \A W, H, n :
    FiniteMethod /\ Widening(W, H, n) /\ TypeOK => Remaining(H, n) \in Nat
  BY RemainingType DEF FiniteMethod

(* The loop ends on every finite method, whatever the lattice, as long as  *)
(* its operations are monotone and its chains bounded: each iteration      *)
(* leaves less to do, a natural number, and no solution ever comes to      *)
(* stand for less.  An edge that is moved to the exit block takes a        *)
(* predecessor from a block, and so may narrow what that block would get;  *)
(* but an edge is moved only when nothing else is queued.                  *)
THEOREM LoopProgresses ==
  ASSUME IsFiniteSet(Blocks), NEW W, NEW H, NEW n, Widening(W, H, n)
  PROVE  RunSpec => /\ [](Remaining(H, n) \in Nat)
                    /\ [][Progress(W, H, n)]_<<vars, runVars>>
<1>1. RunInit => RisingInv(W)
  BY DEF RunInit, Init, RisingInv
<1>2. IInv /\ RisingInv(W) /\ [RunNext]_<<vars, runVars>> => RisingInv(W)'
  <2> SUFFICES ASSUME IInv, RisingInv(W), [RunNext]_<<vars, runVars>> PROVE RisingInv(W)'
    OBVIOUS
  <2>1. AnalysisInv
    BY DEF IInv
  <2>2. [Next]_vars /\ UNCHANGED given
    BY DEF RunNext, Analyse, Run, vars, runVars
  <2> QED  BY <2>1, <2>2, RisingStep
<1>3. IInv /\ RisingInv(W) /\ [RunNext]_<<vars, runVars>>
        => [Progress(W, H, n)]_<<vars, runVars>>
  <2> SUFFICES ASSUME IInv, RisingInv(W), RunNext PROVE Progress(W, H, n)
    OBVIOUS
  <2>1. AnalysisInv
    BY DEF IInv
  <2>2. CASE Analyse
    BY <2>1, <2>2, ProgressStep DEF Analyse
  <2>3. CASE Run
    BY <2>1, <2>3 DEF Run, Progress, Widening, AnalysisInv, TypeOK
  <2> QED  BY <2>2, <2>3 DEF RunNext
<1>4. IInv => Remaining(H, n) \in Nat
  BY RemainingType DEF IInv, AnalysisInv
<1> QED  BY <1>1, <1>2, <1>3, <1>4, Inductive, PTL DEF RunSpec

(* Nor does the loop get stuck: whatever edge the worklist gives out, its  *)
(* target can be visited.                                                  *)
THEOREM NeverStuck == RunSpec => [](\A e \in queue : CanVisit(e))
<1>1. IInv => \A e \in queue : CanVisit(e)
  BY QueuedCanBeVisited DEF IInv
<1> QED  BY <1>1, Inductive, PTL
=============================================================================
