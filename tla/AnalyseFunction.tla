-------------------------- MODULE AnalyseFunction --------------------------
(***************************************************************************)
(* Whole_program::analyse_function: the conditional, worklist-driven       *)
(* analysis of the control-flow graph of one method, with the Worklist it  *)
(* runs on.  The analyses themselves (aliasing, values, constants) appear  *)
(* here as one solution per basic block, taken from a lattice given by the *)
(* constant operators MeetAll and Transfer; module ValueLattice gives      *)
(* them the meaning they have in Value_analysis.                           *)
(***************************************************************************)
EXTENDS FiniteSets

CONSTANTS
  Blocks,            \* basic blocks, each with the statement it holds
  Entry, Exit,       \* the Entry_block and the Exit_block of the method
  Branches,          \* the blocks that are a Branch_block
  Dies,              \* the blocks whose statement calls die, exit or trigger_error
  CFGs,              \* the control-flow graphs a method may have
  Solutions,         \* what the analyses may know after a block
  EntrySolutions,    \* what forward_bind may leave at the entry block
  MeetAll(_),        \* the merge of a set of predecessors' solutions
  Transfer(_, _),    \* Transfer(b, in): the solution after the statement of b
  Same(_, _),        \* the comparison behind solution_changed
  KnownTrue(_, _),   \* KnownTrue(b, s): s says that branch b is always taken
  KnownFalse(_, _)   \* KnownFalse(b, s): s says that branch b is never taken

(* An edge of a branch block carries the direction that takes it. *)
Directions == {"true", "false", "none"}
Edge == [source : Blocks, target : Blocks, direction : Directions]

Leaving(g, b) == {e \in g : e.source = b}
Entering(g, b) == {e \in g : e.target = b}
Towards(g, b, d) == {e \in Leaving(g, b) : e.direction = d}

(* CFG::consistency_check: the shape every control-flow graph has.  Blocks *)
(* that are not in the graph have no edges.                                *)
ConsistentCFG(g) ==
  /\ g \subseteq Edge
  /\ Leaving(g, Exit) = {}
  /\ Entering(g, Entry) = {}
  /\ Leaving(g, Entry) # {}
  /\ \A b \in Branches : Leaving(g, b) # {} =>
       /\ Towards(g, b, "none") = {}
       /\ \A d \in {"true", "false"} : \E e \in g : Towards(g, b, d) = {e}
  /\ \A b \in Blocks \ Branches : Leaving(g, b) # {} =>
       /\ \E e \in g : Leaving(g, b) = {e} /\ e.direction = "none"
  /\ \A e \in g : e.target = Exit \/ Leaving(g, e.target) # {}

ASSUME CFGAssumption ==
  /\ Entry \in Blocks /\ Exit \in Blocks /\ Entry # Exit
  /\ Branches \subseteq Blocks \ {Entry, Exit}
  /\ Dies \subseteq Blocks \ ({Entry, Exit} \cup Branches)
  /\ \A cfg \in CFGs : ConsistentCFG(cfg)

ASSUME SolutionAssumption ==
  /\ EntrySolutions \subseteq Solutions
  /\ \A S \in SUBSET Solutions : S # {} => MeetAll(S) \in Solutions
  /\ \A b \in Blocks, s \in Solutions : Transfer(b, s) \in Solutions

VARIABLES
  pc,          \* where analyse_function is
  cfg,         \* the edges of the method's graph, which the analysis may change
  queue,       \* Worklist::queue
  bbs,         \* Worklist::bbs, the targets of the queued edges
  executable,  \* the edges whose flag in Worklist::executable_flags is true
  outs         \* WPA_lattice::outs and Aliasing::outs: the solution of each
               \* block analysed so far

vars == <<pc, cfg, queue, bbs, executable, outs>>

Worklist == [queue : SUBSET Edge, bbs : SUBSET Blocks, executable : SUBSET Edge]
wl == [queue |-> queue, bbs |-> bbs, executable |-> executable]

TypeOK ==
  /\ pc \in {"start", "loop", "done", "segfault"}
  /\ ConsistentCFG(cfg)
  /\ wl \in Worklist
  /\ DOMAIN outs \subseteq Blocks
  /\ \A b \in DOMAIN outs : outs[b] \in Solutions

-----------------------------------------------------------------------------
(* Mutated forms of Add, AddSuccessor, Pull and Redirect: what the         *)
(* properties of Coverage are there to refuse.                             *)
AddReturningEarly(w, e) ==
  IF e.target \in w.bbs THEN w
  ELSE [queue |-> w.queue \cup {e}, bbs |-> w.bbs \cup {e.target},
        executable |-> w.executable \cup {e}]
AddUnchecked(w, e) ==
  [queue |-> w.queue \cup {e}, bbs |-> w.bbs \cup {e.target},
   executable |-> w.executable \cup {e}]
AddIfNew(w, e, changed) == IF e \notin w.executable THEN AddUnchecked(w, e) ELSE w
AddAlways(w, e, changed) == AddUnchecked(w, e)
PullOne(b) == MeetAll({outs[CHOOSE p \in DOMAIN outs : \E e \in cfg : e.source = p /\ e.target = b]})
RedirectNone(g, e, f) == g \cup {f}

(* Worklist::add: the flag is always set, but the edge is dropped when an  *)
(* edge to the same block is already queued.                               *)
Add(w, e) ==
  [queue |-> IF e.target \in w.bbs THEN w.queue ELSE w.queue \cup {e},
   bbs |-> w.bbs \cup {e.target},
   executable |-> w.executable \cup {e}]

(* Worklist::next.  The comparison given to the priority queue holds both  *)
(* ways between blocks that do not post-dominate each other, so it is not  *)
(* the ordering std::priority_queue asks for and any edge may come first.  *)
Remove(w, e) ==
  [queue |-> w.queue \ {e},
   bbs |-> w.bbs \ {e.target},
   executable |-> w.executable]

SetWorklist(w) ==
  /\ queue' = w.queue
  /\ bbs' = w.bbs
  /\ executable' = w.executable

(* Add a successor if its block changed, or if it was never executable. *)
AddSuccessor(w, e, changed) ==
  IF changed \/ e \notin w.executable THEN Add(w, e) ELSE w

AddSuccessorIf(w, e, changed, c) == IF c THEN AddSuccessor(w, e, changed) ELSE w

-----------------------------------------------------------------------------
(* pull_results: the merge of the solutions at the sources of the          *)
(* executable edges into block b.                                          *)
ExecutableSources(b) == {e.source : e \in Entering(cfg, b) \cap executable}
Pull(b) == MeetAll({outs[p] : p \in ExecutableSources(b)})

(* get_successors. *)
Successors(g, b, s) ==
  IF b \in Branches
    THEN {e \in Leaving(g, b) :
            \/ e.direction = "false" /\ ~KnownTrue(b, s)
            \/ e.direction = "true" /\ ~KnownFalse(b, s)}
    ELSE Leaving(g, b)

(* add_edge and remove_edge: edge e gives way to f. *)
Redirect(g, e, f) == (g \ {e}) \cup {f}

SetOut(b, s) ==
  outs' = [x \in DOMAIN outs \cup {b} |-> IF x = b THEN s ELSE outs[x]]

SolutionChanged(b, s) == b \notin DOMAIN outs \/ ~Same(s, outs[b])

-----------------------------------------------------------------------------
Init ==
  /\ pc = "start"
  /\ cfg \in CFGs
  /\ queue = {} /\ bbs = {} /\ executable = {}
  /\ outs = [b \in {} |-> {}]

(* The entry edge is queued, and forward_bind analyses the entry block. *)
ForwardBind ==
  /\ pc = "start"
  /\ pc' = "loop"
  /\ \E e \in Leaving(cfg, Entry) : SetWorklist(Add(wl, e))
  /\ \E s \in EntrySolutions : SetOut(Entry, s)
  /\ UNCHANGED cfg

(* One iteration of the loop whose edge leads to a branch block. *)
VisitBranch(e) ==
  LET b == e.target
      s == Transfer(b, Pull(b))
      changed == SolutionChanged(b, s)
  IN /\ b \in Branches
     /\ SetOut(b, s)
     /\ \E f \in Towards(cfg, b, "false"), t \in Towards(cfg, b, "true") :
          SetWorklist(
            AddSuccessorIf(
              AddSuccessorIf(Remove(wl, e), f, changed, ~KnownTrue(b, s)),
              t, changed, ~KnownFalse(b, s)))
     /\ UNCHANGED <<pc, cfg>>

(* One iteration for any other block, the exit block included.  A block    *)
(* that dies while nothing else is queued is connected to the exit block   *)
(* instead of its successor.                                               *)
VisitStatement(e) ==
  LET b == e.target
      s == Transfer(b, Pull(b))
      changed == SolutionChanged(b, s)
      w == Remove(wl, e)
  IN /\ b \notin Branches \cup {Exit}
     /\ SetOut(b, s)
     /\ \E next \in Leaving(cfg, b) :
          LET cut == /\ changed \/ next \notin executable
                     /\ b \in Dies /\ w.queue = {}
                     /\ next.target # Exit
              toExit == [source |-> b, target |-> Exit, direction |-> "none"]
          IN IF cut
               THEN /\ cfg' = Redirect(cfg, next, toExit)
                    /\ SetWorklist(Add(w, toExit))
               ELSE /\ SetWorklist(AddSuccessor(w, next, changed))
                    /\ UNCHANGED cfg
     /\ UNCHANGED pc

VisitExit(e) ==
  /\ e.target = Exit
  /\ SetOut(Exit, Transfer(Exit, Pull(Exit)))
  /\ SetWorklist(Remove(wl, e))
  /\ UNCHANGED <<pc, cfg>>

AnalyseNext ==
  /\ pc = "loop"
  /\ \E e \in queue : VisitBranch(e) \/ VisitStatement(e) \/ VisitExit(e)

(* backward_bind reads the solution of the exit block, which is NULL when  *)
(* the exit block was never analysed.                                      *)
BackwardBind ==
  /\ pc = "loop" /\ queue = {}
  /\ pc' = IF Exit \in DOMAIN outs THEN "done" ELSE "segfault"
  /\ UNCHANGED <<cfg, queue, bbs, executable, outs>>

Next == ForwardBind \/ AnalyseNext \/ BackwardBind

Spec == Init /\ [][Next]_vars /\ WF_vars(Next)
=============================================================================
