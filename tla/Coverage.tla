------------------------------ MODULE Coverage ------------------------------
(***************************************************************************)
(* What analyse_function is for: once it is done, the method runs, and     *)
(* whatever the run does must have been foreseen.  The run follows the     *)
(* control-flow graph the analysis was given; the transformer and the      *)
(* annotator rely on the solutions and on the edges never marked           *)
(* executable.                                                             *)
(***************************************************************************)
EXTENDS AnalyseFunction

CONSTANTS
  Stores,        \* the values of the variables of the running method
  Stops,         \* the blocks whose statement ends the run
  Exec(_, _),    \* Exec(b, m): the stores the statement of b may leave, from m
  IsTrue(_, _),  \* IsTrue(b, m): branch b is taken in m
  Gamma(_)       \* Gamma(s): the stores a solution stands for

VARIABLES
  given,  \* the graph before the analysis
  at,     \* the block the run has just finished
  store

runVars == <<given, at, store>>

ASSUME StoresAssumption == Stores # {}

(* The meaning of the lattice: a solution forgets nothing that can happen. *)
(* Module ValueLattice shows it of the operators of Value_analysis.        *)
LatticeIsSound ==
  /\ \A s \in Solutions : Gamma(s) \subseteq Stores
  /\ \A S \in SUBSET Solutions : \A s \in S : Gamma(s) \subseteq Gamma(MeetAll(S))
  /\ \A b \in Blocks, s \in Solutions, m \in Stores :
       m \in Gamma(s) => Exec(b, m) \subseteq Gamma(Transfer(b, s))
  /\ \A b \in Branches, s \in Solutions, m \in Stores : m \in Gamma(s) =>
       /\ KnownTrue(b, s) => IsTrue(b, m)
       /\ KnownFalse(b, s) => ~IsTrue(b, m)

ASSUME LatticeAssumption == LatticeIsSound

(* solution_changed compares all that a later block or a branch may read. *)
SameIsExact ==
  \A s, t \in Solutions : Same(s, t) =>
    /\ Gamma(s) \subseteq Gamma(t)
    /\ \A b \in Branches :
         /\ KnownTrue(b, t) => KnownTrue(b, s)
         /\ KnownFalse(b, t) => KnownFalse(b, s)

(* The direction a run takes out of block b. *)
Takes(e, m) ==
  \/ e.direction = "none"
  \/ e.direction = "true" /\ IsTrue(e.source, m)
  \/ e.direction = "false" /\ ~IsTrue(e.source, m)

CoverageTypeOK ==
  /\ TypeOK
  /\ ConsistentCFG(given)
  /\ at \in Blocks
  /\ store \in Stores

RunInit ==
  /\ Init
  /\ given = cfg
  /\ at = Entry
  /\ store = CHOOSE m \in Stores : TRUE

(* The run begins, when the analysis is done, in any store that agrees     *)
(* with what forward_bind was told of the parameters.                      *)
Analyse ==
  /\ Next
  /\ store' \in IF pc' = "done" THEN Gamma(outs[Entry]) ELSE {store}
  /\ UNCHANGED <<given, at>>

Run ==
  /\ pc = "done"
  /\ at \notin Stops
  /\ \E e \in Leaving(given, at) :
       /\ Takes(e, store)
       /\ at' = e.target
       /\ store' \in Exec(e.target, store)
  /\ UNCHANGED <<given, pc, cfg, queue, bbs, executable, outs>>

RunNext == Analyse \/ Run

RunSpec == RunInit /\ [][RunNext]_<<vars, runVars>> /\ WF_vars(Analyse)

-----------------------------------------------------------------------------
(* Every block a run reaches was analysed, and its solution stands for the *)
(* store the run has there: what the transformer writes into the block     *)
(* agrees with every execution.                                            *)
Covered ==
  pc = "done" => at \in DOMAIN outs /\ store \in Gamma(outs[at])

(* A run only follows edges the worklist has marked executable, so a block *)
(* that no executable edge enters may be dropped.                          *)
RunsOnExecutableEdges ==
  [][at' # at => \E e \in executable \cap cfg : e.source = at /\ e.target = at']_<<vars, runVars>>

(* The worklist: the queued edges are executable edges of the graph, no    *)
(* two lead to the same block, bbs names their targets, and the source of  *)
(* an executable edge has a solution -- so that pull_results, which takes  *)
(* the first predecessor without looking, always finds one.                *)
WorklistOK ==
  /\ queue \subseteq executable \cap cfg
  /\ bbs = {e.target : e \in queue}
  /\ \A e, f \in queue : e.target = f.target => e = f
  /\ \A e \in executable : e.source \in DOMAIN outs
  /\ \A e \in queue : ExecutableSources(e.target) # {}

(* What is left when no edge is queued is a solution of the whole graph:   *)
(* each edge that may be taken out of an analysed block is executable and  *)
(* the solution of its target takes account of it; until then its target   *)
(* waits in the queue.                                                     *)
Settled ==
  \A b \in DOMAIN outs : \A e \in Successors(cfg, b, outs[b]) :
    /\ e \in executable
    /\ e.target \notin bbs =>
         /\ e.target \in DOMAIN outs
         /\ \A m \in Gamma(outs[b]) : Exec(e.target, m) \subseteq Gamma(outs[e.target])

(* The loop ends. *)
AnalysisEnds == <>(pc \in {"done", "segfault"})
=============================================================================
