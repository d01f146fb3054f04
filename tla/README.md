# A verification development of phc, the open source PHP compiler

phc turns a PHP script into C code that runs inside the Zend engine.  It parses
the script, lowers it through three tree representations (AST, HIR, MIR),
optimises the MIR with a whole-program analysis and a set of smaller passes, and
writes C text that calls a small runtime.  This directory holds TLA+
specifications of the parts of phc whose correctness is hardest to see from its
tests, the TLC configurations that check them, and TLAPS proofs of their main
properties.  `PROJECT.json` lists the components, runs, mutants, findings,
hazards and theorems, and maps every definition to the source lines it stands
for.  Paths below are those of the repository; most are under `src/`.

Sections: 1 the system; 2 what is modelled; 3 the runs; 4 bounds and fairness;
5 what is proved; 6 what was found; 7 what is not modelled; 8 limits.

## 1. The system

### 1.1 How the parts interact

`phc.cpp` builds three queues of passes (AST, HIR, MIR) in a `Pass_manager`;
plugins may add, move and remove passes.  Each pass is a function from tree to
tree; passes communicate through the tree and its attributes
(`phc.codegen.*`).  The only long-lived shared state is the `Oracle`, the
counter of fresh names, and, inside the optimiser, the state of the
whole-program analysis, which its component analyses keep per basic block.

The whole-program analysis (`optimize/wpa`) is the core.  `Whole_program` runs
an abstract interpreter over the CFG of `__MAIN__` and, nested in it, of every
function it finds called.  For each statement it resolves names to nodes of a
points-to graph (`Aliasing`, `Points_to`) and tells every registered analysis
(`Value_analysis`, `Constant_state`, `Callgraph`, `Include_analysis`, `VRP`)
what happened through a fixed set of callbacks (`set_scalar`, `assign_value`,
`kill_value`, `create_reference`, `pull_*`, `aggregate_results`, ...).  The
results of the last iteration drive `Optimization_transformer` (constants
replace variables, branches are folded) and `Optimization_annotator`
(attributes for the code generator).

The compiler is single-threaded and persists nothing, so there are no races, no
lost messages and no recovery.  What is hard is order: the analysis visits the
blocks of a graph in an order nobody chose, with a graph it changes on the way;
state computed for one moment (an edge's certainty, a killed value, a count of
references) is used at a later one; and all of it must hold for *every* run of
the compiled program, of which tests try a few.  The other program at hand, the
runtime of the generated code, is sequential too; there the difficulty is that
variables share zvals invisibly, and every macro must undo or keep the sharing
correctly whatever happened before.

Around the core, each method's MIR becomes a control-flow graph (`CFG.cpp`) that
local passes edit, in SSA form if they ask for it, and that is tidied and written
back after each of them; before, trees are lowered from PHP's loops and switches to
labels and gotos.  What must hold of all of these is that the program means what it
meant.  The one concurrent part is the test framework, which runs programs in
parallel, reads from them while they run, and stops them when their time is over.

### 1.2 Inventory

| Component | State | Operations | Hard behaviour | What makes it correct |
|---|---|---|---|---|
| Analysis of one method: `Whole_program::analyse_function`, `Worklist` | queue of edges, set of queued targets, executable flags, solutions per block; the CFG itself | `forward_bind`, the loop, `pull_results`, `analyse_block`, `get_successors`, `backward_bind` | blocks in any order, re-analysis on change, edges that become executable late, the graph rewired when a statement dies | at the end the solutions cover every run; the loop ends; the exit block has a solution |
| Lattices: `Abstract_value`, `Lattice_map`, `Value_analysis`, `Constant_state` | a cell per index node (literal, set of types) | meet, equality, transfer of each statement, possible NULLs | order of predecessors; variables that exist on some paths only; comparison that stops early | no possible value is forgotten; the order does not matter |
| Aliasing: `Aliasing`, `Points_to` | index, storage and value nodes; reference and points-to edges, POSSIBLE or DEFINITE | strong and weak assignment, `=&`, `unset`, fields of unknown name, merge | a DEFINITE edge may stop being so; edges are symmetric and transitive; unknown names | every reference of every run has an edge; DEFINITE edges are never wrong; values stay covered |
| Contexts: `Context`, `Callgraph`, the binding of calls | one solution per context, the call graph, function summaries | `invoke_method`, `forward_bind`, `backward_bind`, `merge_contexts`, `generate_summary` | recursion, callees analysed half-way, members shared with nested analyses | the caller sees every effect of the callee |
| Def-use, transformer, annotator | def-use sets per block | `transform_*`, `annotate_*` | use of results of a context that is not the only one | the program means the same |
| CFG | blocks, edges | building from statements, tidying, `remove_branch`, removing blocks, `linearize` | edits one after the other | branches keep two edges; no block is lost; the linear code means the same |
| SSA and SSI | dominance, phi nodes, versions | `Dominance`, `HSSA::convert_to_hssa_form`, `rename_vars`, `Def_use_web` | may-defs and may-uses through aliases; loops | a use sees exactly the definitions that reach it |
| Local optimisations: DCE, if-simplification, loop booleans, inlining | marks, worklist | marking, removing | what a removed branch controlled | the program means the same |
| Copy propagation on HIR (`optimize/hacks`) | counters of uses and defs, a map of copies | one rewriting per visit until a fixed point | rewritings whose conditions an earlier one invalidated | the program means the same |
| Pass manager | three queues | add before/after, remove, move, run from/until | plugins edit queues that are walked | each pass runs once, in an order that respects its needs |
| Parsing | none that outlives a call | parse | - | - |
| AST passes, includes | stack of included files | `Process_includes` | nested and repeated includes | what the interpreter would include |
| AST to HIR | stacks of enclosing constructs | loop lowering, shredding | order of evaluation | the program means the same |
| HIR to MIR | `break_levels`, `continue_levels` | labels and gotos, `foreach`, calls | numbered breaks, at run time too | each break leaves the loops it names |
| Code generation | buffers; attributes | one text pattern per statement | which macro variant the attributes choose | the generated statement does what PHP says |
| Runtime | symbol tables, zvals with reference counts | macros of `templates_new.c`, `zval.c`, `arrays.c`, ... | invisible sharing: copy on write, references, pooled literals | exact counts; sharing is never observed |
| Embedding, library, plugins, generated and vendored code | - | - | - | - |
| Test framework (`async_test.php`) | running and waiting child processes | start, poll, time out, continue | processes that end, hang or write in any order | every test gets one verdict, with all its output |

The hazards each of these is exposed to, at the line where they bite, are in
`PROJECT.json`, each with the properties that would catch it going wrong, or
a note saying why no property does.

## 2. What is modelled

```
AnalyseFunction        the loop of analyse_function over any lattice
  Coverage             ... beside a run of the method it analysed
    Coverage_proofs
ValueLattice           cells, meet, the transfer of scalar statements
  PullResults          pull_results step by step, and one visit of a block
    PullResults_proofs
  PointsTo             reference edges and cells, beside a run
    PointsTo_proofs
  Contexts             one method analysed for each of its calls, the results
                       merged and written into it (INSTANCE AnalyseFunction)
    Contexts_proofs    (INSTANCE Coverage_proofs, for each call)
FlowGraph              the graph the local passes edit, and a run of it
  CFG                  build, edit, tidy, write back; both runs
    CFG_proofs
  Dominance            dominators and dominance frontiers
    SSA                phi nodes, renaming
      DeadCode         marking and sweeping
      SimplifyBranches branches on negations
  Lockstep             two runs that wait for each other when they are heard of
  LocalPasses          = SSA, then DeadCode or SimplifyBranches, then Lockstep
    LocalPasses_proofs (EXTENDS CFG_proofs, for its lemmas on graphs)
StructuredPHP          loops, switches and short circuits, and their runs
  Lowering             the passes that turn them into labels and gotos; both runs
PHPVariables           what PHP says of variables (abstract)
  Zvals                the runtime's zvals, an implementation of it
    Zvals_proofs
TestPool               what the test framework promises (abstract)
  AsyncTests           its calls, the programs it runs, an implementation of it
    AsyncTests_proofs
```

`MC*.tla` give the constants their values for TLC.  `MC*Proved.tla` extend an MC
module and the proofs, so that TLC also evaluates the assumptions the proofs
make.  Operators under a comment "Mutated form of ..." are plausible bugs; no
specification uses them, and `PROJECT.json` says which property refuses each.

### The whole-program analysis

**AnalyseFunction** is `Whole_program::analyse_function` with `Worklist.cpp`.
The method's graph is a set of edges with a direction, of the shape
`CFG::consistency_check` demands.  What the analyses know after a block is one
member of `Solutions`, and the lattice is a parameter (`MeetAll`, `Transfer`,
`Same`, `KnownTrue`, `KnownFalse`).  `ForwardBind` queues the entry edge;
`VisitBranch`, `VisitStatement` and `VisitExit` are one iteration of the loop for
the kinds of blocks (take an edge off the queue, pull, interpret, compare, add
successors, and for a statement that dies with nothing else queued, the
replacement of its edge by one to the exit block); `BackwardBind` reads the exit
block.  `Worklist::add` drops an edge when its target is queued but still sets
the executable flag.  The comparison of the priority queue is no strict weak
order, so `next` may return any edge.

**Coverage** puts a run of the method beside the analysis: once it is done,
`Run` walks the graph the analysis was *given*, with stores as values of the
variables, and the properties say that nothing the run does was unforeseen.

**ValueLattice** is the lattice of `Abstract_value`, `Lattice.h` and
`Value_analysis`: a cell is a literal or none, and a set of types or none; `Meet`
and `SameCell` are `Abstract_value`'s; a solution maps the variables with an index
node to cells; `MeetSolutions` is the merge of predecessors with the possible
NULLs of a variable that is missing from one; `Interpret` is the effect of a
statement on a solution and `Execute` its effect on a store.  `LiteralGamma` and
`TypeGamma` say which stores a solution allows.  MCCoverage instantiates
AnalyseFunction's lattice with these operators.

**PullResults** refines the one step `Pull` of AnalyseFunction into what the code
does: `pull_first_pred`, `pull_pred` for the others in list order,
`pull_possible_null` for each variable that exists after some predecessors only,
and then the statement.  `PulledMeet` is the link: whatever the order, the result
is `MeetSolutions` of the predecessors.

**PointsTo** is `Aliasing` and `Points_to` for one symbol table of scalars: index
nodes, the node UNKNOWN that stands for all variables without one, POSSIBLE and
DEFINITE reference edges, `is_killable`, assignment (`Write`), `=&` (`Refer`, with
the transitive closure through the temporary index), `unset`, writes through `$$x`,
and the merge of two branches (`Fork`, `Join`).  Beside the graph runs the
program: `alias` holds the pairs of variables that are references to the same
value.  `pc = "exception"` is the exception `add_reference` throws for edges of
different certainty, which makes phc give the optimisation up.

**Contexts** is one method called from two places.  Each call is analysed by
AnalyseFunction's own actions (`F!VisitBranch`, ...) from what `forward_bind`
makes of its actual parameters.  The results are kept by context, but the graph
is the method's: an edge that one context moves (a branch that is known, a
statement that dies) stays moved for the next.  `MergeContexts` makes one result
of all, with the variables of whichever context a hash table yields first, and
`ApplyResults` is the `Optimization_transformer`: literals for variables, known
branches replaced.  Then the method is run from any of its calls, on the graph
as it was, and compared with what has become of it.  A call site that is
analysed again in the same context is not modelled.

### The local passes

**FlowGraph** has the blocks with a statement each, the edges, the edits `CFG.cpp`
offers (`replace_bb` by nothing, removing a branch, ...) and one step of a run.
Variables hold a Boolean, which is all a branch tells apart; the statement `may`
writes through a pointer the analysis does not know, for may-definitions.
A run is *heard of* when it prints and when it ends.

**CFG** is the life of a graph: `Build` from a list with labels and gotos, the edits
of the passes one at a time (`RemoveStatement`, `DecideBranch`, `SplitBranch` and
`SplitEdge` for `split_block`), `clean` block by block in any order until nothing
changes, and `linearize` (`Discover` in the order of a depth-first search,
`AddExitLabel`, the tidying of gotos and of labels).  Then the list that came in
and the list that came out run side by side.  `pc = "assertion failed"` is the
assertion that fails for a method without an end (section 6).

**Dominance, SSA** are `calculate_dominance`, `insert_phi_nodes` with its worklist
(`InsertPhis`), and `rename_vars` call by call (`Enter`, `Leave`), with the stacks
it pushes and pops.  The dominator tree is stated by what Boost's
`lengauer_tarjan_dominator_tree` computes; the frontiers are computed as in the
code.  A version is named for what made it instead of by a counter.

**DeadCode** is `DCE::run`: `StartMarking` marks what others see, `Mark` one block's
needs (definitions through phis, and the reverse dominance frontier), `Sweep`
takes one unmarked block away.  **SimplifyBranches** is `If_simplification`.
**LocalPasses** puts one of the two after the conversion, as
`run_optimization_pass` does, and runs both graphs in lockstep.

**StructuredPHP, Lowering** are the passes `Early_lower_control_flow`,
`Lower_expr_flow`, the shredding of conditions, and `Lower_control_flow` with
its `break_levels` and `continue_levels`: one action each, from trees to trees
and at last to a list of labels, gotos and branches.  They are recursive
functions over trees, and a fresh name is the place in the tree it is made for.
`foreach` iterates over a given sequence: the branch that `lower_foreach` puts before
the loop, for an operand that is not an array (a warning and a cast,
`Lower_control_flow.cpp:215-228`), is left out, and so are keys and references.
Runs of the source keep what is left
to do; runs of the code have a line number; they are compared call by call.

### The runtime

**PHPVariables** says what PHP says: an assignment changes the variable and its
references and nothing else, `=&` makes one variable a reference to another,
`unset` and the end of a function take variables away.

**Zvals** is the runtime for scalar variables: symbol-table entries (or locals of
generated functions: `local_x`) point to zvals with a count, an is_ref flag and a
value.  Each statement is one action composed of the macros it is made of --
`get_st_entry`, `read_var`, `write_var`, `sep_copy_on_write`, `copy_into_ref`,
`new_lhs`, the operators' result zval, casts, `++`, `unset` and the clean-up at
the end of a function -- since nothing runs in between.  The uninitialized zval
that stands for every missing variable, and the pooled literals, are zvals others
own.  The Zend engine's own macros (`zval_ptr_dtor`, `Z_ADDREF_P`, ...) are
external: they are not in the repository and are modelled from their use.
`KeepsPHPsPromise` states that Zvals implements PHPVariables under the mapping
`alias <- Aliases, val <- ValueOf`: two variables are references to each other
when they share a zval marked is_ref; sharing without the mark means nothing.
The macro variants chosen by `is_uninitialized`, `is_initialized` and
`cannot_be_ref` leave out tests the analysis found superfluous; the model has the
general ones.

### The test framework

**AsyncTests** is the one concurrent part of the repository: `async_test.php` starts
programs, polls them, reads their pipes, stops them when their time is over, and
starts the next.  The framework is sequential, so its unfinished calls are a
`stack`, and `check_running_procs` carries the copy of the list it walks while the
calls it makes start and end programs.  The programs run beside it: each writes to
a pipe that may be full, exits with 0 or 1, or hangs; time passes when it likes.
A program that has had its time meets `kill_properly` (`header.php:604-627`): its pipes
are closed and the shell that started it is terminated, but the program itself is
killed only if PHP has `posix_kill`, which is "Not necessarily available"
(`header.php:618`).  Both cases are modelled (`session.posix_kill`).  Without it the
program becomes an `"orphan"`: off the list, not polled any more, and alive until it
ends by itself or writes to its closed pipe (`OrphanEnds`), if ever.  The
programs start no programs of their own: `kill_properly` looks up the children of the
shell, not theirs.
Standard error is merged with the output, a test has two programs whose output
must match, as in `CompareWithPHP`, and their exit codes must be 0.  What a test depends on and why it is skipped is not modelled.
With `--reduce` one reduction is modelled: a failure is followed by one smaller
program, which is tested once; `Reduce` may try any number of them, or none.
`ImplementsPool` states that the framework implements **TestPool**: each subject is
opened once, judged once, and only so many are open.

## 3. The runs

| Run | Module, cfg | Question | Result |
|---|---|---|---|
| `analysis_covers_runs` | MCCoverageProved, MCCoverage.cfg | Does the analysis of any small method, in any order of its worklist, foresee every run? Does the loop end? | holds |
| `pull_results` | MCPullResultsProved, MCPullResults.cfg | Is the result of pulling independent of order, and does it and the statement after it allow all stores? | holds |
| `references_cover_runs` | MCPointsToProved, MCPointsTo.cfg | Are references and values covered after any statements, in branches that join? | holds |
| `contexts_keep_runs` | MCContexts, MCContexts.cfg | Do the results of each calling context hold of its runs, and does the method, transformed by the merged results, do what it did? | holds |
| `merged_contexts` | MCContexts, MCMergedContexts.cfg | ... also where a variable exists in one context only | violated: finding |
| `graph_edits_keep_runs` | MCCFG, MCCFG.cfg | Does a method that is built into a graph, edited, tidied and written back do what it did? | holds |
| `local_passes_keep_runs` | MCLocalPasses, MCLocalPasses.cfg | Is the SSA form right, and do dead-code elimination and if-simplification keep what a method does? | holds |
| `ssa_loop_header` | MCLocalPasses, MCLoopHeader.cfg | ... also for a loop header that redefines what it reads | violated: finding |
| `lowering_keeps_runs` | MCLowering, MCLowering.cfg | Do loops, switches, breaks and continues of any number do after lowering what they did? | holds |
| `short_circuits` | MCLowering, MCShortCircuits.cfg | ... also a short circuit in the right operand of another | violated: finding |
| `zvals_keep_php` | MCZvals, MCZvals.cfg | Are counts exact, is nothing shared written, and does every statement do what PHP says? | holds |
| `async_tests` | MCAsyncTests, MCAsyncTests.cfg | Is every test judged, once, by what happened, with no program left behind but those that cannot be killed? | holds |

The properties, and why they could fail:

* `Covered`, `RunsOnExecutableEdges` (Coverage): the run is at a block with a
  solution that stands for its store, and only takes executable edges.  Several
  iterations in an unlucky order are needed to break them; dropping the executable
  flag in `Worklist::add`, or adding a successor only when its edge is new, does.
  `Settled` says that outside the queue the solutions are a fixed point of the
  conditional data-flow equations; `AnalysisEnds` that the loop ends.
* `PulledMeet`, `Foreseen` (PullResults): order does not matter, and nothing is
  forgotten.
* `ValuesCovered`, `ReferencesCovered` (PointsTo): literals and types hold of the
  run's values; each reference has an edge, each DEFINITE edge a reference.
* `ContextsCovered` (Contexts): as `Covered`, though the contexts share and rewire
  one graph.  `AppliedKeepsRuns`: what a run does next, the transformed method does
  too.  `MergedKeepsRuns` asks it without the condition that all contexts have the
  same variables in each block, and is violated.
* `SameRuns`, `LoweredSameRuns`, `NothingMissed` (with Lockstep's `Agree`): whenever
  the program as it was and the program as it has become are both next heard of,
  they are heard to say the same, and they end with the same variables.
  `ResultAnswers`, `LoweredAnswers`, `SweptAnswers`: and the second is heard of
  whenever the first is: it neither hangs nor runs astray.  The other direction is
  false: dead-code elimination may remove a loop that never ends.
* `GraphConsistent`, `SweptConsistent`: every branch has one true and one false
  edge after each single edit, every other block one; what half an edit, or an edit
  of a block that is its own successor, would break.  `WrittenBack`: `clean` ends.
* `UsesSeeTheirDefs`: a use reads a version that stands for exactly the definitions
  that reach it along some path, except the one of its own block around a loop,
  which `EveryUseSeesItsDefs` asks for, too, and which is violated.
  `UsesDominated` is what `ssa_consistency_check` looks at: stacks not unwound
  break it.
* `SimplifiedKeepsRuns`: as above for if-simplification, unless the operand of the
  negation is assigned to before the branch.
* `ErrorsAreReal`: the error about too few loops is given for the programs that
  deserve it and for no other.
* `RefcountsExact`, `OwnedIntact`, `ReferencesShared`, `KeepsPHPsPromise` (Zvals):
  counts equal holders, what is owned by others is never changed
  (`phc_check_invariants`, for pooled literals too), is_ref goes when the second
  holder goes, and the refinement.
* `NoOrphans`, `VerdictsTrue`, `ImplementsPool`, `AllJudged` (AsyncTests): with
  `posix_kill`, what lives is on the list, and without it, what lives off the list
  was timed out; a success is two programs that returned 0 and lost no output, a
  failure one that did not, a timeout one that had its time and was given up, all
  programs before it having returned 0; a subject is judged once, and at last.
* One type invariant per run (`CoverageTypeOK` with AnalyseFunction's `TypeOK`,
  `PullTypeOK`, `PointsToTypeOK`, `ContextsTypeOK`, `CFGTypeOK`, `LocalTypeOK`,
  `LoweringTypeOK`, `ZvalsTypeOK`, `AsyncTypeOK`).  They include the shape of the
  graph, of the edges, of the stack of calls, that a zval has a value exactly while
  it has a count, and that each goto finds its label.

Each property of a passing run has a mutant in `PROJECT.json`: a plausible bug in
the code (a dropped check, a forgotten edge, a count not lowered) with which TLC
finds it violated.

Deadlock is not checked where a run may stop (a program that ended, an analysis
with no statement left, a framework that has judged all); it is checked in
MCZvals, where a program can always go on.

## 4. Bounds and fairness

* MCCoverage: methods of three blocks with a path to the exit, each followed by any
  block or the exit (the false edge of a branch by another block or the exit).  Each
  block has a list of its own of what it may hold, since all statements in all blocks
  are too many: the first an assignment of 1 or a call with a known result type, the
  second an assignment of 0, `die` or a branch, the third unset, concatenation or a
  branch.  One variable, four values of three types; entry with an unknown parameter
  or none.  Three blocks suffice for a loop with a body, a
  diamond, nested loops and a late edge into an analysed block, which are the
  shapes the worklist's cases are about.  Methods with no path to the exit are
  left out because reverse dominance fails for them.
* MCPullResults: three predecessors (first, middle, last), two variables each
  present or absent, cells NULL, 1 and {int, string}, five values.  A third
  predecessor is needed to see the order.
* MCPointsTo: three named variables and UNKNOWN, values NULL and 1, at most five
  statements (`MaxStatements`) over both branches, with and without
  `--flow-insensitive`.  Three variables are needed for the transitive closure of
  references; five statements for reference, fork, unset, join and write.  In the
  passing run a program either names all it writes and refers to, or all its
  variables exist and none is unset; section 6 says why.
* MCContexts: methods of three blocks that test their parameter first and then set,
  copy, compute, test or unset a variable, or die; one formal parameter or two, the
  second with a default; every ordered pair of calls with no argument, 0, 1 or an
  unknown int.  Two contexts are what a merge is of; the first block tests the
  parameter so that contexts take different ways.  Which context comes first is
  chosen once for all blocks: the properties look at one block at a time.
* MCCFG: every body of five lines with two labels and a branch, one of whose tests
  may be on a variable the analysis knows; no edit or one (`MaxEdits = 1`), which
  `clean` follows; ten names for blocks, three more than are built, for the copies
  `split_block` makes.  Five lines hold a loop, a branch out of it and a print.
* MCLocalPasses: every graph of four blocks of the listed kinds of statements, two
  variables, one of which outlives the method, in which every block is reachable
  and reaches the exit (what `clean` has left; reverse dominance fails for others).
  Worklists of which the order does not matter by their use (sets in the code,
  ordered by address) begin with the smallest or the largest block.  One pass per
  behaviour.
* MCLowering: two loops or switches, one in the other, of each of six kinds; in the
  inner one a `break` or `continue` of 1, 2 or 3 levels or of a number known at run
  time only; tests with short circuits; every answer of every call.  Three levels
  are one more than there are.  One more program loops without being heard of.
* MCZvals: three variables, four values, one pooled literal, four zvals of free
  memory.  Three entries hold three zvals at most, so an allocation always
  succeeds; three are needed for a reference of which one member leaves.  No bound
  on the number of statements: the state space is finite.
* MCAsyncTests: three tests on two processors with `posix_kill`, two without, and one
  test with `--reduce`, which makes a second out of it, with and without; a program writes once (`Out = 1`) to a pipe that holds
  one write, so it is full until it is read.  Three tests on two processors are
  needed for a test to wait while others start their second program.

Fairness: `WF_vars(Next)` in AnalyseFunction, CFG, Lowering, SSA and LocalPasses,
`WF(Analyse)` in Coverage and `WF_vars(Compile)` in Contexts: a pass is a sequential
function that waits for nothing, so it takes its next step as long as it has one.
The same fairness drives the runs of the programs in CFG, Lowering and LocalPasses,
which only says that a computer goes on computing; the runs of Coverage and Contexts
have none.  In AsyncTests `WF_vars(Framework)`, for the same reason, and
`WF_vars(\E b \in Bundles : TimePasses(b))`, for the clock does not stop;
nothing is assumed of the programs, which may hang.

## 5. What is proved

All theorems hold for every value of the constants that satisfies the named
assumptions, and are checked by TLAPS to the last leaf.

**Coverage_proofs**: `TypeCorrect`, `WorklistCorrect`, `FixedPoint`,
`AnalysisCovers`, `ExecutableCovers` prove `CoverageTypeOK`, `WorklistOK`,
`Settled`, `Covered` and `RunsOnExecutableEdges` for any graph, lattice and program.
The invariant is `IInv`: types, the graph is the given one except for the edges cut
at blocks that die (`GraphOK`), phases (`PhaseOK`), the worklist, `Settled` and
`Covered`.  `Covered` alone is not inductive: a step of the run needs that the edge
it takes was settled, which needs the worklist's invariant (`WorklistOK`, which no
run lists: the properties above fall with it).  The part of it that speaks of the
analysis only is `AnalysisInv`, which `AnalysisStep` shows every step of
analyse_function to preserve whatever runs beside it.  Assumptions, besides
the shape of graphs and the soundness of the lattice's operators
(`LatticeAssumption`): `StopsAssumption`, a statement the analysis treats as ending
the program ends it, and `SameAssumption`, the comparison behind
`solution_changed` is exact.  Section 6 shows that the code does not establish
them in general (`trigger_error`; types); they are stated because without them the
theorem is false, and the passing instance satisfies them.

`LoopProgresses` and `NeverStuck` are `AnalysisEnds` up to its fairness, for any
lattice with monotone operations and bounded chains (`Widening`: an order `W` of
solutions and how much each stands for, `H`, out of `n`).  Each iteration lowers
`Remaining`: what the solutions may still widen, the edges not yet executable, and the
queue.  That solutions only widen needs `RisingInv`: each is still no more
than what the block would be given now.  An edge moved to the exit takes a
predecessor from its old target and breaks this for that block, but it is moved only when
nothing else is queued, so only the exit is visited after it (`Closing`).

**PullResults_proofs**: `TypeCorrect`, `PullsTheMeet`, `NothingEscapes`,
`CellsOnlyWiden`, and lemmas that `Meet`, `MeetCells` and `Interpret` are sound for
literals and types (`MeetCovers`, `MeetCellsCovers`, `InterpretCovers`).
The invariant (`Merged`) says that `ins` is the merge of the predecessors
already pulled.  `OperatorsAssumption` asks that the table of an operator's result
types be right, which that of `++` is not.

**Contexts_proofs**: `TypeCorrect`, `CallsCovered`, `TransformedKeepsRuns`, for any
method, any list of calls, any scalars and operators, and any order in which the
worklist gives out its edges, calls are merged and hash tables are walked.  The loop
of each call is `AnalyseFunction`, so nothing about it is proved twice:
`C == INSTANCE Coverage_proofs` puts the lattice of `Value_analysis` and the run of
the method in the places of its constants and variables, the lemmas
`...AssumptionHolds` show that what Coverage_proofs assumes is true there (`SameAssumption`
too: for what literals say, `EqualAbsvals` is exact), and `AnalysisStep` may then be
cited for each call.  `Settled` speaks of one call's present solutions; what the other
calls and the transformer need is a fact about the *given* graph that outlives the
call.  `Recorded` is that fact: outside the worklist, wherever a run may go out of a
block on the given graph, the solution *before* the next block stands for all that
the solution after this one stands for.  It is kept through the loop (`PresentInv`);
when the loop is done nothing waits, the edges that were moved left blocks that die,
and it is filed with the results (`ResultsInv`).  `MergedFrom` says what the merge
made of each block and `CodeInv` what the transformer made of that.  A run then
follows the results of its own call (`Follows`); a literal the merge knows every
context knows (`MeetCellsLiteral`), unless the context lacks the variable, which is
where the condition `SameScopes` is needed and where the code goes wrong (section 6).
`BoundCovers` is the start of a run: `forward_bind` is right for a call that leaves
out one parameter at most.  `CallAssumption` says that a method names no
parameter twice and that a call gives no more than are declared (`forward_bind` puts
the rest into variables no statement can name, `unnamed_param`), `MethodAssumption` that the graphs pass `consistency_check` and each block holds a
statement; TLC checks both in the runs of Contexts.

`CompilationProgresses` says, as `LoopProgresses` does of one call, that analysing all of
them, merging and transforming ends (no run asks this).  The rank is the calls
left, the phase, and within a loop `C!Remaining`, with the order in which literals
fade to unknown (`Fading`) as `W`; that `Interpret` and `Meet` are monotone in it
are the lemmas `InterpretFades` and `MeetFades`.

**PointsTo_proofs**: `TypeCorrect`, `RunsCovered`, `ReferencesSound`.  The invariant
adds to the properties that the run's `alias` is an equivalence
(`Equivalence`), that both graphs are well formed, and that the graph of the
branch the run is on is sound (`Sound`).  The heart is that `Bind` and `MayBind`
give back an edge set that covers the new equivalence.
`ProgramsAreSound` restricts programs as in the passing run; section 6 shows
each restriction necessary.

**CFG_proofs**: `Consistency`, `TypeCorrect`, `NoDanglingGoto`, `Meaning`,
`ReadableAgainHolds`, `ResultHeardHolds` and `WritingBackProgresses`, for any methods,
any supply of blocks and any number of edits.  `GraphConsistent` counts the edges that
leave a block; the invariant `WellFormed` names them (`OneWay`, `TwoWays`) and adds that
a branch is never a block no edge touches.  There is one lemma for each way a graph is
made or changed: `GraphOf` (add_statements), `RipOut` of what no walk from the entry
reaches, `Bypass`, `RemoveBlock`, `SetBranchDirection`, `Split`.  In the middle of
`split_block` the edges still to be handled must lead to branches, and there must be
a spare block for each (`Splittable`).  For the lists, `ListInv` says that while
blocks are discovered every discovered block has its label, and that no line
mentions a block that is not a successor of one; when nothing is left to
discover the two meet, and dropping gotos and labels keeps the list `Linked`,
because a label that is mentioned is kept (`KeepingKeeps`).

`Meaning` proves `SameRuns`.  The two runs take different numbers of steps, so no
fixed correspondence of places is inductive; what is (`MeaningInv`) is that *some*
relation leads from what a run of the source is heard of next to where the other run
may be.  `Follows` (for a graph) and `FollowsIn` (for a list) say that such a relation
is kept by a silent step of the other run, that the two say the same where that run is
heard, and that it goes on to wherever the source is heard of next.  There is one lemma
for each change, which takes a relation for what was there and gives one for what is
there now: the same one (`BypassFollows`, `DirectedFollows`, `UnreachableFollows`),
the one read through the map that takes a copy of a branch to the branch
(`SplitFollows`), the one that stands each line of a block for the block
(`WrittenFollows`), and the one that moves a place past the lines dropped
(`KeepingFollows`).  What these need of the graph and the list is in the invariant: a
`return` leads to the exit (`ReturnsLeave`; else a bypassed block would change what
comes after it), and each line belongs to the lines of a discovered block, which stand
together (`Segmented`).  "Heard of next" is the least set closed under silent steps
(`Hearings`), not a recursive function, so that nothing has to be proved by induction.

That what is said is right does not say that anything is said: a goto that led to
itself would be silent for ever and never be wrong.  So `Follows` and `FollowsIn` also ask that
from each place the relation leads to, the run is heard after finitely many
steps (`HeardFrom`, `HeardFromIn`, least sets again), and each of the lemmas shows that its
change keeps this: a bypassed block, a dropped line and a copied branch only
shorten or mirror the way to where the run is heard.  `ResultHeardHolds` reads it off.
Dropping a goto needs that its label is on the next line and nowhere else
(`LabelsOnce`, part of the invariant, as no block is discovered twice), from which
`ReadableAgainHolds` follows with `Linked`: what is written back is again a list as
`SourcesAssumption` asks of those read in.

`WritingBackProgresses` is `WrittenBack` up to its fairness.  `Rank` is, from what matters
most: the edits left; the stage; what that stage has before it (the edges a split
still has to handle, the graph as large as a round of `clean` found it, the blocks not yet
discovered); the sweeps left in the round; and the graph as it is now.  `RoundInv` says
that a round has not made the graph larger, so that one that is not the last has made it
smaller.

**LocalPasses_proofs**: `UsesDominatedHolds`, `UsesSeeTheirDefsHolds`,
`SweptConsistentHolds`, `NothingMissedHolds`, `SweptHeardHolds`, `SimplifiedKeepsRunsHolds` and
`LocalTypeHolds`, for any graphs, any order of the worklist of `insert_phi_nodes`, any
order in which `rename_vars` takes the children, `mark` its list and the sweep the
blocks.  (The module extends CFG_proofs, whose lemmas on graphs and on "heard of
next" it uses.)  What is assumed: a graph has its entry and exit, from and to which
each of its blocks has a way (`GraphsAssumption`, that is `remove_unreachable_blocks` and the exit
the passes insist on); the blocks are finitely many (`BlocksAssumption`); what the
exit uses are variables (`GlobalsAssumption`); a worklist that is not empty gives out
one of its own (`FirstAssumption`).

*SSA.*  The invariant is `SSAInv`.  `FixedInv` says that what was computed of the graph stays
true of it.  `PhisInv`: a block off the worklist has its phis in its frontier, so
that at the end the frontiers are closed.  `PathInv`: the calls of `rename_vars` on the
stack go down the dominator tree.  `StacksInv`, the heart, says that there is a height of each
variable's stack for each call, between which lies what that call pushed, with on top the
version of the latest block above that makes one (`Latest`).  `read_var_stack` pushes a
version of its own where nothing above makes one, and `pop_var_stack` does not count it;
`Heights` says that this happens on an empty stack only, so it never hides what a
block made.  `ReadsInv` and
`ArgsInv` keep what a use and an argument of a phi were given.  `UsesDominated`
follows at once.  `UsesSeeTheirDefs` needs what makes phis sufficient: a path from one
block to another that has no phi on it stays below the block that dominates where it starts
(the frontier lemma), so the latest block above is the same all along, and what comes to
a block is behind the version it has.  `StandsFor` is a least set, so both
inclusions are proved by showing a set closed (`Sound`, `Stands`).

*Dead code.*  `MarkInv`: what a marked block off the list needs is marked, the
definitions behind the versions it reads and the branches in whose reverse frontier it is.
`SweepInv`: each block is as it was or is `Cleared`, and a branch that was
removed leads on to where all the marked blocks that any way from it goes through are still
ahead (`Bypasses`), which is why the nearest marked postdominator is the right
place to go.  For the runs, the same marked blocks postdominate both ends of an edge out of an
unmarked block, else the block would be in the reverse frontier of a marked one.
Two runs are `Abreast` when the same marked blocks lie ahead of them and they agree about
the variables those use as they are now (`Wanted`): the steps of unmarked blocks, on
either side, keep this, and a marked block changes both alike.  As the runs are heard at
different times, `RunsInv` says that the one is abreast of a place the other
goes through before it is next heard (`AheadOf`).
`SweptHeardHolds` says that the swept run gets there: where a branch was swept it goes up
the tree of postdominators, which has no loop, and where nothing was swept it goes the way
the program goes.

*Simplified branches.*  `SimplifyInv`: each branch is as it was or was turned for a "!" that its
variable comes from.  Where that is in order (`Intact`), all ways to the blocks between the "!"
and the branch (`Region`) lead through the "!", and in none of them either of the two
variables is made, so the one is what the other is not (`Opposite`).  The run of
the simplified graph is where the other is or was when it was last heard of (`Trailing`).

`LocalTypeHolds` needs all of these: that the dominators' functions are of the blocks
the graph still has is part of `SweepInv`, not of the types.

**Zvals_proofs**: `TypeCorrect`, `CountsExact`, `SharedIntact`, `MarkedAreShared`,
and `Implements`, that Zvals implements PHPVariables, for any finite set of variables,
any values, any pool and any program.  The invariant is `Good`: each count is the
number of holders plus one if owned, a value is there exactly while the count is not
zero, a marked zval has two holders, an owned one has its value and no mark.  The
argument: there are only two ways a statement changes what a variable is.  A zval
not shared by copies is written in place (`WriteInPlace`), or the variable lets go
of its zval and takes another (`Detach`); both mean an assignment in PHP, and
`sep_copy_on_write` and `get_st_entry` mean nothing.  `=&` (`Refer`) and the end of
variables (`Forget`) are the remaining two.  Each macro is then one or two of these,
and each statement a composition.  The counting of holders rests on the library's
facts on cardinalities.

**AsyncTests_proofs**: `TypeCorrect` and `NothingOrphaned`, for any sessions, any
number of processors, any sizes of outputs and pipes, with and without `posix_kill`.
`NoOrphans` follows from two invariants: `Listed`, that what runs and has not been
given up is on the list, and `OrphansOK`, that orphans come of time-outs where there
is no `posix_kill`.  `Listed` is not inductive,
because a step of `check_running_procs` acts on an entry of a *copy* of the list.
The invariant `IInv` adds: the indices of every copy were given out before
(`Indexed`), a bundle a call has found ended does not live again before that call
is done with it (`EndedStays`), the list never grows past the number of processors
(`Counted`), and which calls may lie on which (`StackOK`), so that at most the
innermost one is in the middle of an entry.

In the same module, `Implements`, that without `--reduce` the framework implements
TestPool, and `VerdictsHold`, that its verdicts are true, again for any sessions,
processors, outputs and pipes.  The invariant of these is `PoolInv`.  Its heart is `OneLoop`:
at most one call of `check_running_procs` on the stack holds a copy, and all of the
copy still runs, so that no test is continued twice.  It is inductive because
`check_capacity`, called for a test that goes on, does not check again: a program
has just left the list (`LeaveOnce`), so there is capacity.  With `--reduce` this is
what fails (section 6).  `Before` says that in the queue the tests that are under
way come before those that are not, which bounds the open ones by the running ones
(`FewOpen`); `BundleOK` relates the queues, the programs, what they returned and
what was read from them, for each test.

**Only model-checked.**  Liveness under fairness is out of the prover's reach.  Of most
of the liveness properties the part that is about the code is proved none the less:
for `AnalysisEnds` and `WrittenBack` that each step lowers a
rank that cannot be lowered for ever, for `ResultAnswers` and `SweptAnswers` that
finitely many steps lead to where the run is heard.  What is left to TLC is that a
fair scheduler takes those steps.  `LoweredAnswers` and `AllJudged` are TLC's alone, and so
are `LoweringTypeOK`, `LoweredSameRuns` and `ErrorsAreReal`, for Lowering is
recursion over trees and a proof about all programs is induction over them.  The runs of the
framework with `--reduce`, beyond `NoOrphans` and the types.  Every other invariant of
the passing runs is stated by a theorem.

## 6. What was found

Three disagreements are shown by runs of their own and listed under "findings":

1. `ssa_loop_header`: a loop header is never in its own dominance frontier
   (`Dominance.cpp:115`), so a header that redefines a variable it reads has no
   phi for it.
2. `short_circuits`: the operands of `||` and `&&` are lowered before they are
   (`Lower_expr_flow.cpp:49`), so a short circuit in the right operand of another
   is evaluated always, and first: the run's program is
   `if ($x () || ($y () && $x ())) $x (); else $y ();`, of which the lowered code asks
   `$y ()` first.  A `?:` within a branch of another goes the same way
   (`post_conditional_expr`, line 79), which the run does not show.
3. `merged_contexts`: the points-to graphs of the contexts are not merged
   (`Aliasing.cpp:289`), so a variable that exists in some contexts only is lost or
   taken to exist in all.

Others were met while modelling.  The passing runs exclude them by the conditions
named here, each of which the models need:

* `Abstract_value::equals` never reaches its comparison of types
  (`Abstract_value.cpp:108`): a loop that changes only the type of a variable
  is left too early.  Coverage compares with literals (`LiteralGamma`).
* A method with an infinite loop never analyses its exit block, whose solution
  is then cloned although it is NULL (`Aliasing.cpp:114`): `pc = "segfault"`.
* `trigger_error` is treated like `die`: what follows is cut off
  (`Whole_program.cpp:1192`).  MCCoverage has `die` only.
* `++` and `--` keep the operand's types although the largest int becomes a real
  (`Whole_program.cpp:3725`).  MCPullResults has no `++`.
* `unset($$x)` leaves DEFINITE edges DEFINITE (`Whole_program.cpp:3785`); `$a =& $$x`
  misses variables that come into being later (`:3382`); a variable created through
  `$$x` on one path and named on another is taken to be NULL on the first (`:2062`).
  MCPointsTo's programs (`ProgramsAreSound`) name all they write, or have all their
  variables from the start and unset none.
* With two parameters missing from a call, the second gets no default
  (`Whole_program.cpp:2277`).  `ContextsCovered` speaks of calls that miss one at most.
* If-simplification takes the operand of a negation although it was assigned to in
  between (`If_simplification.cpp:63`).  `SimplifiedKeepsRuns` has it as a condition.
* The exit label of a method whose exit block `clean` has removed fails an assertion
  (`CFG.cpp:641`): `pc = "assertion failed"`.
* With `--reduce`, a test may be continued and judged twice: the inner
  `check_running_procs` ends it and the outer one finds it in its copy of the list
  (`async_test.php:393`).  `ImplementsPool` is for sessions without `--reduce`.  What
  becomes of a test after that is not the code's way to the letter: the model goes on
  with what the bundle's program returned, the code with a bundle whose counter of
  programs (`state`) has passed its commands.  No property speaks of it: `VerdictsTrue`
  looks at the first verdict, and is proved for sessions without `--reduce`.
* Without `posix_kill`, which need not be there (`header.php:618`), a program that is
  timed out lives on, although the comment above (`:607`) knows that `proc_terminate`
  "won't kill a runaway infinite loop": more programs than PHC_NUM_PROCS may then run,
  until `ulimit -t 300` (`async_test.php:445`) ends those that use their time.
  `NoOrphans` says so: its first part is for sessions with `posix_kill`.

## 7. What is not modelled

* Storage nodes of arrays and objects and their abstract states: `assign_field`,
  `copy_structure` and their neighbours are cut short by exceptions for most programs
  (TODOs throughout), so there is no complete handler to translate.  The operator
  tables of `Value_analysis` are parameters: their entries are data.
* Recursion, reference parameters, return values and the call graph between methods;
  the repetition of the whole analysis until nothing changes.
* `Constant_state` is ValueLattice's lattice with other keys; `Include_analysis` and
  `VRP` are stubs; `mvi` and `mao` are commented out of the queue.
* SSI and ESSA (no pass asks for them), `Mark_initialized`, `Misc_annotations`
  (compiled out), `Inlining` (removes calls of empty functions),
  `Prune_symbol_table` (one walk).
* Copy propagation on HIR: one walk over straight-line code whose hard part is the
  patterns of expressions it overlooks, not an order of steps.  `++`, lists and
  array writes in the lowering, for the same reason.
* Arrays, objects and calls in the runtime: hash tables and
  `zend_call_function` belong to the Zend engine, which is not in the repository.
* In dead-code elimination, the special case for `Foreach_end` (unmarked if the
  `Foreach_reset` that dominates it is not marked, `Dead_code_elimination.cpp:161-190`):
  FlowGraph has no iterators.
* The pass manager's queues: they are filled once and walked once; what runs around
  each pass (`run_optimization_pass`) is in LocalPasses and CFG.
* Parsing, unparsing, XML, MICG templates, escaping, the embedding of the
  interpreter: functions on text or trees without state, or wrappers of code that is
  not here.
* Generated and vendored code (`src/src/generated`, `libltdl`, `src/3rdparty`), and
  recorded outputs (`src/misc`), which are most of the repository's lines.
* The order in which C++ evaluates, memory management of the compiler, and undefined
  behaviour in it, except where it decides what the compiler does
  (the worklist's comparison).

## 8. Limits

* Values are few: Booleans where only control flow matters, four or five values of
  up to three types elsewhere.  A bug that needs two particular integers is not
  seen.
* Each run asks about one stage.  That stages agree at their borders rests on shared
  definitions: Contexts instantiates AnalyseFunction and ValueLattice, PullResults
  shows ValueLattice's `MeetSolutions` to be what the code computes, SSA starts from
  the graphs CFG leaves (`Connected`), CFG from the lists Lowering makes
  (`SourcesAssumption`, which `LoweringTypeOK` checks at the other end).
* LocalPasses runs one pass; that a second pass after it is right follows from the
  first having left a graph of the same kind, tidied by `clean`, which is CFG's
  subject.
