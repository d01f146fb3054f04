-------------------------------- MODULE CFG --------------------------------
(***************************************************************************)
(* The life of the CFG of one method (CFG.cpp): it is built from a list of *)
(* statements with labels and gotos, edited by the optimisations, tidied   *)
(* after each of them, and at last written back as a list.  Then a run of  *)
(* the method as it was is watched beside a run of what it has become.     *)
(***************************************************************************)
EXTENDS FlowGraph, Sequences

CONSTANTS
  Sources,     \* the bodies a method may have
  Labels,
  Known,       \* variables nothing assigns to, of which the analysis knows ...
  KnownValue,  \* ... that their value is KnownValue[x]
  MaxEdits     \* how many edits the optimisations make

Line(Ls) == {s \in Statement : s.op # "branch"}
  \cup [op : {"label", "goto"}, label : Ls]
  \cup [op : {"if"}, rhs : Vars, iftrue : Ls, iffalse : Ls]

Defines(code, l) == {i \in DOMAIN code : code[i] = [op |-> "label", label |-> l]}
Position(code, l) == CHOOSE i \in Defines(code, l) : TRUE
Mentioned(line) ==
  CASE line.op = "goto" -> {line.label}
    [] line.op = "if" -> {line.iftrue, line.iffalse}
    [] OTHER -> {}

(* What the lowering passes give: each label that is used is there once. *)
ASSUME SourcesAssumption ==
  \A code \in Sources :
    /\ code \in Seq(Line(Labels))
    /\ \A i \in DOMAIN code : \A l \in Mentioned(code[i]) :
         \E j \in DOMAIN code : Defines(code, l) = {j}
    /\ \A i \in DOMAIN code : code[i].op \in {"set", "copy", "not", "may"} =>
         code[i].lhs \notin Known

ASSUME EditsAssumption == MaxEdits \in Nat

ASSUME LinesAssumption ==
  \A code \in Sources : DOMAIN code \subseteq Blocks \ {Entry, Exit}

VARIABLES
  source,   \* the statements of the method as it was
  edits,    \* the number of edits so far
  splitting,  \* the edges split_block has yet to give a copy of their target
  last,     \* last_node_count and last_edge_count of clean
  order,    \* the blocks the Linearizer has discovered, in order
  result,   \* the list it makes
  ran,      \* where a run of source is
  rerun     \* where the run of result is

vars == <<pc, source, cfg, edits, splitting, last, order, result, ran, rerun>>

Spot == [at : Nat, store : [Vars -> BOOLEAN]]

CFGTypeOK ==
  /\ pc \in {"build", "unreachable", "fold", "empty", "clean", "edited", "split", "linearize",
             "gotos", "labels", "run", "assertion failed"}
  /\ source \in Seq(Line(Labels))
  /\ cfg \in Graph
  /\ edits \in 0..MaxEdits
  /\ splitting \subseteq Edge
  /\ last \in Nat \X Nat
  /\ order \in Seq(Blocks)
  /\ result \in Seq(Line(Blocks))
  /\ ran \in Spot /\ rerun \in Spot

Stores == {s \in [Vars -> BOOLEAN] : \A x \in Known : s[x] = KnownValue[x]}

Init ==
  /\ pc = "build"
  /\ source \in Sources
  /\ cfg = [stmt |-> [b \in Blocks |-> Empty], edges |-> {}]
  /\ edits = 0
  /\ splitting = {}
  /\ last = <<0, 0>>
  /\ order = << >>
  /\ result = << >>
  /\ \E s \in Stores : ran = [at |-> 1, store |-> s] /\ rerun = ran

-----------------------------------------------------------------------------
(* Mutated forms of operators below. *)
BlockOfEach(line) == IF line.op = "if" THEN [op |-> "branch", rhs |-> line.rhs] ELSE line
BypassUndirected(g, b) ==
  LET succ == CHOOSE s \in Successors(g, b) : TRUE
  IN RipOut([g EXCEPT !.edges = @ \cup
       {[source |-> e.source, target |-> succ, direction |-> "none"] : e \in Entering(g, b)}], {b})
BypassKeepingBlock(g, b) ==
  LET succ == CHOOSE s \in Successors(g, b) : TRUE
  IN [g EXCEPT !.edges = (@ \ Entering(g, b)) \cup {[e EXCEPT !.target = succ] : e \in Entering(g, b)}]
FallsThroughAnywhere(code, i) ==
  i < Len(code) /\ code[i].op = "goto" /\ code[i + 1].op = "label"
SplitToItself(g, e, copy) ==
  LET moved == [g EXCEPT !.edges = (@ \ {e}) \cup {[e EXCEPT !.target = copy]}] IN
  [stmt |-> [g.stmt EXCEPT ![copy] = g.stmt[e.target]],
   edges |-> moved.edges \cup
     {[f EXCEPT !.source = copy, !.target = copy] : f \in Leaving(moved, e.target)}]

(* CFG::add_statements: a block for each statement, Empty_blocks for labels *)
(* and gotos, and the edges that gotos, branches, returns and what follows *)
(* make.                                                                   *)
BlockOf(line) ==
  CASE line.op \in {"label", "goto"} -> Empty
    [] line.op = "if" -> [op |-> "branch", rhs |-> line.rhs]
    [] OTHER -> line

NextLine(code, i) == IF i < Len(code) THEN i + 1 ELSE Exit

EdgesOf(code, i) ==
  LET To(t, d) == [source |-> i, target |-> t, direction |-> d] IN
  CASE code[i].op = "goto" -> {To(Position(code, code[i].label), "none")}
    [] code[i].op = "if" -> {To(Position(code, code[i].iftrue), "true"),
                             To(Position(code, code[i].iffalse), "false")}
    [] code[i].op = "return" -> {To(Exit, "none")}
    [] OTHER -> {To(NextLine(code, i), "none")}

FirstEdge(code) ==
  [source |-> Entry, target |-> IF code = << >> THEN Exit ELSE 1, direction |-> "none"]

CodeEdges(code) == UNION {EdgesOf(code, i) : i \in DOMAIN code}

GraphOf(code) ==
  [stmt |-> [b \in Blocks |-> IF b \in DOMAIN code THEN BlockOf(code[b]) ELSE Empty],
   edges |-> CodeEdges(code) \cup {FirstEdge(code)}]

Build ==
  /\ pc = "build"
  /\ cfg' = GraphOf(source)
  /\ pc' = "unreachable"
  /\ UNCHANGED <<source, edits, splitting, last, order, result, ran, rerun>>

-----------------------------------------------------------------------------
(* CFG::clean: three sweeps, again until they change nothing. *)
Size(g) == <<Cardinality(Present(g)), Cardinality(g.edges)>>

RemoveUnreachableBlocks ==
  /\ pc \in {"unreachable", "edited"}
  /\ last' = Size(cfg)
  /\ \E reachable \in {Reach(cfg, Entry, {})} : cfg' = RipOut(cfg, Blocks \ reachable)
  /\ pc' = "fold"
  /\ UNCHANGED <<source, edits, splitting, order, result, ran, rerun>>

Redundant(g) ==
  {b \in Present(g) : IsBranch(g, b) /\ Towards(g, b, "true") = Towards(g, b, "false")}

FoldRedundantBranches ==
  /\ pc = "fold"
  /\ IF Redundant(cfg) = {}
     THEN cfg' = cfg /\ pc' = "empty"
     ELSE cfg' = SetBranchDirection(cfg, CHOOSE b \in Redundant(cfg) : TRUE, "true") /\ pc' = pc
  /\ UNCHANGED <<source, edits, splitting, last, order, result, ran, rerun>>

(* Infinite loops are left. *)
Removable(g, b) ==
  /\ b \notin {Entry, Exit} /\ g.stmt[b] = Empty
  /\ Leaving(g, b) # {} /\ b \notin Successors(g, b)

Bypass(g, b) ==
  LET succ == CHOOSE s \in Successors(g, b) : TRUE
  IN RipOut([g EXCEPT !.edges = @ \cup {[e EXCEPT !.target = succ] : e \in Entering(g, b)}], {b})

RemoveEmptyBlock(b) ==
  /\ pc = "empty"
  /\ Removable(cfg, b)
  /\ cfg' = Bypass(cfg, b)
  /\ UNCHANGED <<pc, source, edits, splitting, last, order, result, ran, rerun>>

CleanAgain ==
  /\ pc = "empty"
  /\ \A b \in Present(cfg) : ~Removable(cfg, b)
  /\ pc' = IF Size(cfg) = last THEN "clean" ELSE "unreachable"
  /\ UNCHANGED <<source, cfg, edits, splitting, last, order, result, ran, rerun>>

-----------------------------------------------------------------------------
(* The edits: a statement that does nothing (any copy of a variable to     *)
(* itself), a branch whose direction is known, a branch that is copied for *)
(* each of its predecessors (Remove_loop_booleans).                        *)
Edit(g) ==
  /\ pc \in {"clean", "edited"}
  /\ edits < MaxEdits
  /\ cfg' = g
  /\ edits' = edits + 1
  /\ pc' = "edited"
  /\ UNCHANGED <<source, splitting, last, order, result, ran, rerun>>

RemoveStatement(b) ==
  /\ cfg.stmt[b].op = "copy" /\ cfg.stmt[b].lhs = cfg.stmt[b].rhs
  /\ Edit(RemoveBlock(cfg, b))

DecideBranch(b) ==
  /\ IsBranch(cfg, b) /\ cfg.stmt[b].rhs \in Known
  /\ Edit(SetBranchDirection(cfg, b, IF KnownValue[cfg.stmt[b].rhs] THEN "true" ELSE "false"))

(* CFG::split_block: a copy of the branch for each edge that enters it, one *)
(* after the other.  The old block stays behind for clean.                 *)
Split(g, e, copy) ==
  LET moved == [g EXCEPT !.edges = (@ \ {e}) \cup {[e EXCEPT !.target = copy]}] IN
  [stmt |-> [g.stmt EXCEPT ![copy] = g.stmt[e.target]],
   edges |-> moved.edges \cup {[f EXCEPT !.source = copy] : f \in Leaving(moved, e.target)}]

Spare == Blocks \ (Present(cfg) \cup {Exit})

SplitBranch(b) ==
  /\ pc \in {"clean", "edited"}
  /\ edits < MaxEdits
  /\ IsBranch(cfg, b) /\ Cardinality(Entering(cfg, b)) > 1
  /\ Cardinality(Spare) >= Cardinality(Entering(cfg, b))
  /\ splitting' = Entering(cfg, b)
  /\ edits' = edits + 1
  /\ pc' = "split"
  /\ UNCHANGED <<source, cfg, last, order, result, ran, rerun>>

SplitEdge(e) ==
  /\ pc = "split"
  /\ e \in splitting
  /\ cfg' = Split(cfg, e, CHOOSE c \in Spare : TRUE)
  /\ splitting' = splitting \ {e}
  /\ pc' = IF splitting' = {} THEN "edited" ELSE pc
  /\ UNCHANGED <<source, edits, last, order, result, ran, rerun>>

StopEditing ==
  /\ pc = "clean"
  /\ pc' = "linearize"
  /\ UNCHANGED <<source, cfg, edits, splitting, last, order, result, ran, rerun>>

-----------------------------------------------------------------------------
(* CFG::get_linear_statements: depth first, a label, the statement and a   *)
(* goto for each block, the exit's label last.                             *)
Discovered == {order[i] : i \in DOMAIN order}
Undiscovered(b) == Successors(cfg, b) \ Discovered

Discoverable ==
  LET open == {i \in DOMAIN order : Undiscovered(order[i]) # {}} IN
  IF order = << >> THEN {Entry}
  ELSE IF open = {} THEN {}
  ELSE Undiscovered(order[CHOOSE i \in open : \A j \in open : j <= i])

LinesOf(b) ==
  LET label == [op |-> "label", label |-> b]
      goto == [op |-> "goto", label |-> CHOOSE s \in Successors(cfg, b) : TRUE]
      s == cfg.stmt[b] IN
  CASE b = Exit -> << >>
    [] b # Exit /\ s.op = "branch" ->
         <<label, [op |-> "if", rhs |-> s.rhs,
                   iftrue |-> Towards(cfg, b, "true"), iffalse |-> Towards(cfg, b, "false")]>>
    [] b # Exit /\ s.op = "empty" -> <<label, goto>>
    [] OTHER -> <<label, s, goto>>

Discover ==
  /\ pc = "linearize"
  /\ \E b \in Discoverable :
       /\ order' = Append(order, b)
       /\ result' = result \o LinesOf(b)
  /\ UNCHANGED <<pc, source, cfg, edits, splitting, last, ran, rerun>>

(* add_exit_label asks for the exit block, which get_exit_bb asserts. *)
AddExitLabel ==
  /\ pc = "linearize"
  /\ Discoverable = {}
  /\ IF Exit \in Present(cfg)
     THEN /\ result' = Append(result, [op |-> "label", label |-> Exit])
          /\ pc' = "gotos"
     ELSE pc' = "assertion failed" /\ UNCHANGED result
  /\ UNCHANGED <<source, cfg, edits, splitting, last, order, ran, rerun>>

Keeping(code, kept) ==
  LET nth(k) == CHOOSE i \in kept : Cardinality({j \in kept : j <= i}) = k
  IN [k \in 1..Cardinality(kept) |-> code[nth(k)]]

FallsThrough(code, i) ==
  /\ i < Len(code) /\ code[i].op = "goto"
  /\ code[i + 1] = [op |-> "label", label |-> code[i].label]

Unused(code, i) ==
  code[i].op = "label" /\ \A j \in DOMAIN code : code[i].label \notin Mentioned(code[j])

DropGotos ==
  /\ pc = "gotos"
  /\ result' = Keeping(result, {i \in DOMAIN result : ~FallsThrough(result, i)})
  /\ pc' = "labels"
  /\ UNCHANGED <<source, cfg, edits, splitting, last, order, ran, rerun>>

DropLabels ==
  /\ pc = "labels"
  /\ result' = Keeping(result, {i \in DOMAIN result : ~Unused(result, i)})
  /\ pc' = "run"
  /\ UNCHANGED <<source, cfg, edits, splitting, last, order, ran, rerun>>

-----------------------------------------------------------------------------
(* A run of a list: a line after the last one ends it. *)
Ended(code, p) == p.at > Len(code)
Heard(code, p) == p.at \in DOMAIN code => code[p.at].op = "print"
Shown(code, p) == IF Ended(code, p) THEN p.store ELSE p.store[code[p.at].rhs]

Executed(code, p) ==
  LET line == code[p.at] IN
  [at |-> CASE line.op = "goto" -> Position(code, line.label)
            [] line.op = "if" -> Position(code, IF p.store[line.rhs] THEN line.iftrue ELSE line.iffalse)
            [] line.op = "return" -> Len(code) + 1
            [] OTHER -> p.at + 1,
   store |-> Effect(line, p.store)]

RunSource ==
  /\ pc = "run"
  /\ ~Heard(source, ran)
  /\ ran' = Executed(source, ran)
  /\ UNCHANGED <<pc, source, cfg, edits, splitting, last, order, result, rerun>>

RunResult ==
  /\ pc = "run"
  /\ Heard(source, ran) /\ ~Heard(result, rerun)
  /\ rerun' = Executed(result, rerun)
  /\ UNCHANGED <<pc, source, cfg, edits, splitting, last, order, result, ran>>

RunBoth ==
  /\ pc = "run"
  /\ Heard(source, ran) /\ ~Ended(source, ran)
  /\ Heard(result, rerun) /\ ~Ended(result, rerun)
  /\ ran' = Executed(source, ran)
  /\ rerun' = Executed(result, rerun)
  /\ UNCHANGED <<pc, source, cfg, edits, splitting, last, order, result>>

Clean ==
  \/ RemoveUnreachableBlocks
  \/ FoldRedundantBranches
  \/ \E b \in Blocks : RemoveEmptyBlock(b)
  \/ CleanAgain

Edits ==
  \/ \E b \in Blocks : RemoveStatement(b) \/ DecideBranch(b) \/ SplitBranch(b)
  \/ \E e \in splitting : SplitEdge(e)

Linearize == Discover \/ AddExitLabel \/ DropGotos \/ DropLabels

Run == RunSource \/ RunResult \/ RunBoth

Next == Build \/ Clean \/ Edits \/ StopEditing \/ Linearize \/ Run

Spec == Init /\ [][Next]_vars /\ WF_vars(Next)

-----------------------------------------------------------------------------
(* The method means what it meant: whenever both runs are next heard of,   *)
(* they are heard to say the same, and they end with the same variables.   *)
SameRuns ==
  pc = "run" /\ Heard(source, ran) /\ Heard(result, rerun) =>
    /\ Ended(source, ran) <=> Ended(result, rerun)
    /\ Shown(source, ran) = Shown(result, rerun)

(* The new method does not hang, or end in a block without a successor,    *)
(* where the old one would have been heard.                                *)
ResultAnswers ==
  (pc = "run" /\ Heard(source, ran)) ~> (pc = "run" /\ Heard(result, rerun))

(* Each edit and each sweep of clean leaves the graph as consistency_check *)
(* wants it.                                                               *)
GraphConsistent == pc # "build" => Consistent(cfg)

(* clean ends, and the method is written back or given up. *)
WrittenBack == <>(pc \in {"run", "assertion failed"})
=============================================================================
