---------------------------- MODULE LocalPasses ----------------------------
(***************************************************************************)
(* run_optimization_pass (Pass_manager.cpp) for one pass that wants SSA    *)
(* form: the graph is converted, the pass edits it, and the program runs.  *)
(***************************************************************************)
EXTENDS DeadCode, SimplifyBranches, Lockstep

VARIABLES
  given,   \* the graph before the pass
  pair     \* the runs of both graphs

passVars == <<ssaVars, dceVars, simplifyVars>>
localVars == <<passVars, given, pair>>

LocalInit ==
  /\ SSAInit /\ DeadCodeInit /\ SimplifyInit
  /\ given = cfg
  /\ pair = << >>

ConvertToSSA == SSANext /\ UNCHANGED <<dceVars, simplifyVars, given, pair>>

RunDCE == DeadCodeNext /\ UNCHANGED <<simplifyVars, given, pair>>

RunIfSimplification == SimplifyNext /\ UNCHANGED <<dceVars, given, pair>>

StartRuns ==
  /\ pc \in {"swept", "simplified"}
  /\ pair = << >>
  /\ \E store \in [Vars -> BOOLEAN] : pair' = Start(store)
  /\ UNCHANGED <<passVars, given>>

Step ==
  /\ pair # << >>
  /\ BothHeard(given, cfg, pair) => ~Over(pair)
  /\ pair' = Onward(given, cfg, pair)
  /\ UNCHANGED <<passVars, given>>

LocalNext == ConvertToSSA \/ RunDCE \/ RunIfSimplification \/ StartRuns \/ Step

LocalSpec == LocalInit /\ [][LocalNext]_localVars /\ WF_localVars(LocalNext)

-----------------------------------------------------------------------------
(* Every variable of the conversion and of both passes has its type in     *)
(* every state, the original graph among them.                             *)
LocalTypeOK ==
  /\ pc \in {"insert", "rename", "done", "mark", "sweep", "swept",
            "simplify", "simplified", "unreachable"}
  /\ SSATypeOK /\ DeadCodeTypeOK /\ SimplifyTypeOK
  /\ given \in Graph

AfterSweep == pc = "swept" /\ pair # << >>

(* Dead code is not missed: after a sweep the program is heard to say what *)
(* it said, in the same order, and it ends with the same variables.        *)
NothingMissed == AfterSweep => Agree(given, cfg, pair, Globals)

(* A sweep does not lead a run astray, or past what was to be heard.       *)
SweptAnswers ==
  (AfterSweep /\ IsHeard(given, pair.given)) ~> (AfterSweep /\ BothHeard(given, cfg, pair))

(* A sweep leaves each branch two ways to go and each other block one.     *)
SweptConsistent == pc \in {"sweep", "swept"} => Consistent(cfg)

-----------------------------------------------------------------------------
(* The "!" is what gave the branch its variable, and its operand still     *)
(* holds on every way to the branch what it held there.                    *)
Intact(b, d) ==
  LET open == [given EXCEPT !.edges = {e \in @ : e.target # d}]
  IN /\ reads[<<b, given.stmt[b].rhs>>] = <<"def", d>>
     /\ given.stmt[d].lhs = given.stmt[b].rhs
     /\ \A c \in Reach(open, d, {}) \ {b, d} :
          b \in Reach(open, c, {}) => given.stmt[d].rhs \notin AnyDefs(given, c)

(* A program whose branches are simplified where that is in order is heard *)
(* to say what it said.  The code does not look whether it is in order.    *)
SimplifiedKeepsRuns ==
  pc = "simplified" /\ pair # << >> /\ (\A s \in simplified : Intact(s[1], s[2])) =>
    Agree(given, cfg, pair, Globals)

=============================================================================
