-------------------------------- MODULE SSA --------------------------------
(***************************************************************************)
(* SSA form (Dominance.cpp, HSSA.cpp, Def_use_web.cpp): phi nodes are put  *)
(* into the dominance frontiers of the blocks that define a variable, and  *)
(* a walk over the dominator tree gives each use the version on top of its *)
(* variable's stack.  The number a version has in the code is named here   *)
(* for what made it: a definition, a may-definition, a phi, or a use of a  *)
(* variable whose stack was empty.                                         *)
(***************************************************************************)
EXTENDS Dominance, Sequences

CONSTANTS
  Graphs,    \* the graphs to convert
  First(_),  \* the blocks that may come first in a worklist
  Globals    \* what the Exit_block uses: the variables that outlive the method

Defs(s) == IF s.op \in {"set", "copy", "not"} THEN {s.lhs} ELSE {}
MayDefs(s) == IF s.op = "may" THEN {s.lhs} ELSE {}

(* Each may-def needs a use, of the version it may leave. *)
Uses(s) ==
  CASE s.op \in {"copy", "not", "print", "branch"} -> {s.rhs}
    [] s.op = "may" -> {s.lhs, s.rhs}
    [] OTHER -> {}
UsesAt(g, b) == IF b = Exit THEN Globals ELSE Uses(g.stmt[b])
AnyDefs(g, b) == Defs(g.stmt[b]) \cup MayDefs(g.stmt[b])

ASSUME GraphsAssumption ==
  \A g \in Graphs : Connected(g) /\ g.stmt[Entry] = Empty /\ g.stmt[Exit] = Empty
ASSUME GlobalsAssumption == Globals \subseteq Vars
ASSUME FirstAssumption == \A S \in SUBSET Blocks : First(S) \subseteq S /\ (S # {} => First(S) # {})

-----------------------------------------------------------------------------
VARIABLES
  below,   \* the blocks each block dominates
  parent,  \* idominator
  df,      \* the dominance frontiers
  todo,    \* the worklist of insert_phi_nodes
  phis,    \* the phi nodes, as pairs of a block and a variable
  path,    \* the calls of rename_vars that have not returned
  renamed, \* the blocks rename_vars has been called for
  stacks,  \* var_stacks
  reads,   \* the version each use was given
  args     \* the arguments of the phi nodes, by edge and variable

ssaVars == <<pc, cfg, below, parent, df, todo, phis, path, renamed, stacks, reads, args>>

Version(kind, b) == <<kind, b>>
Versions == {"def", "may", "phi", "use"} \X Blocks
PhisAt(P, b) == {p[2] : p \in {q \in P : q[1] = b}}
Top(stack) == stack[Len(stack)]

SSATypeOK ==
  /\ cfg \in Graph
  /\ DOMAIN below = Present(cfg) /\ \A b \in Present(cfg) : below[b] \subseteq Present(cfg)
  /\ parent \in [Present(cfg) \ {Entry} -> Present(cfg)]
  /\ df \in [Present(cfg) -> SUBSET Present(cfg)]
  /\ todo \subseteq Blocks /\ (pc # "insert" => todo = {})
  /\ phis \subseteq Blocks \X Vars
  /\ path \in Seq(Blocks)
  /\ renamed \subseteq Blocks
  /\ stacks \in [Vars -> Seq(Versions)]
  /\ \A u \in DOMAIN reads : u \in Blocks \X Vars /\ reads[u] \in Versions
  /\ \A a \in DOMAIN args : a \in Blocks \X Blocks \X Vars /\ args[a] \in Versions

SSAInit ==
  /\ pc = "insert"
  /\ cfg \in Graphs
  /\ below = Dominated(cfg, Entry)
  /\ parent = [b \in Present(cfg) \ {Entry} |-> Idominator(below, b)]
  /\ df = [b \in Present(cfg) |-> Df(cfg, below, Entry, b)]
  /\ todo = Present(cfg)
  /\ phis = {}
  /\ path = << >>
  /\ renamed = {}
  /\ stacks = [x \in Vars |-> << >>]
  /\ reads = << >>
  /\ args = << >>

Requeued(frontier, new) == {b \in frontier : \E p \in new : p[1] = b}

(* One round of HSSA::insert_phi_nodes.  The worklist starts as all blocks *)
(* in an order that get_all_bbs_top_down takes from a filter initialised   *)
(* from itself, so it may be any that First allows.                        *)
InsertPhis(b) ==
  /\ pc = "insert"
  /\ b \in First(todo)
  /\ \E new \in {(df[b] \X (AnyDefs(cfg, b) \cup PhisAt(phis, b))) \ phis} :
       /\ phis' = phis \cup new
       /\ todo' = (todo \ {b}) \cup Requeued(df[b], new)
  /\ UNCHANGED <<pc, cfg, below, parent, df, path, renamed, stacks, reads, args>>

StartRenaming ==
  /\ pc = "insert"
  /\ todo = {}
  /\ pc' = "rename"
  /\ UNCHANGED <<cfg, below, parent, df, todo, phis, path, renamed, stacks, reads, args>>

-----------------------------------------------------------------------------
(* rename_vars on its way down: phis, uses, may-defs and defs, in this     *)
(* order, and then the arguments of the successors' phis.  A use of an     *)
(* empty stack pushes a version, which nothing pops.                       *)
Pushed(g, P, b, x, stack) ==
  LET withPhi == IF x \in PhisAt(P, b) THEN Append(stack, Version("phi", b)) ELSE stack
      withUse == IF x \in UsesAt(g, b) /\ withPhi = << >>
                 THEN <<Version("use", b)>> ELSE withPhi
      withMay == IF x \in MayDefs(g.stmt[b]) THEN Append(withUse, Version("may", b)) ELSE withUse
  IN IF x \in Defs(g.stmt[b]) THEN Append(withMay, Version("def", b)) ELSE withMay

ReadBy(P, b, x, stack) ==
  CASE x \in PhisAt(P, b) -> Version("phi", b)
    [] x \notin PhisAt(P, b) /\ stack = << >> -> Version("use", b)
    [] OTHER -> Top(stack)

Children(b) ==
  {c \in DOMAIN parent : parent[c] = b}

Callable ==
  IF path = << >> THEN {Entry} \ renamed
  ELSE Children(Top(path)) \ renamed

Enter(b) ==
  /\ pc = "rename"
  /\ b \in Callable
  /\ path' = Append(path, b)
  /\ renamed' = renamed \cup {b}
  /\ stacks' = [x \in Vars |-> Pushed(cfg, phis, b, x, stacks[x])]
  /\ reads' = [u \in DOMAIN reads \cup ({b} \X UsesAt(cfg, b)) |->
                 IF u[1] = b THEN ReadBy(phis, b, u[2], stacks[u[2]]) ELSE reads[u]]
  /\ LET filled == {<<b, s, x>> : s \in Successors(cfg, b), x \in Vars} IN
     args' = [a \in DOMAIN args \cup
                    {f \in filled : f[3] \in PhisAt(phis, f[2]) /\ stacks'[f[3]] # << >>} |->
                IF a[1] = b THEN Top(stacks'[a[3]]) ELSE args[a]]
  /\ UNCHANGED <<pc, cfg, below, parent, df, todo, phis>>

(* Mutated form of Pops: the definition a phi makes stays. *)
PopsOfDefs(g, P, b, x) == IF x \in AnyDefs(g, b) THEN 1 ELSE 0

Pops(g, P, b, x) ==
  (IF x \in PhisAt(P, b) THEN 1 ELSE 0) + (IF x \in AnyDefs(g, b) THEN 1 ELSE 0)

Popped(stack, n) == SubSeq(stack, 1, IF n < Len(stack) THEN Len(stack) - n ELSE 0)

(* ... and on its way back, once it has been called for all children. *)
Leave ==
  /\ pc = "rename"
  /\ path # << >> /\ Callable = {}
  /\ stacks' = [x \in Vars |-> Popped(stacks[x], Pops(cfg, phis, Top(path), x))]
  /\ path' = Popped(path, 1)
  /\ pc' = IF Len(path) = 1 THEN "done" ELSE pc
  /\ UNCHANGED <<cfg, below, parent, df, todo, phis, renamed, reads, args>>

SSANext ==
  \/ \E b \in Blocks : InsertPhis(b) \/ Enter(b)
  \/ StartRenaming
  \/ Leave

SSASpec == SSAInit /\ [][SSANext]_ssaVars /\ WF_ssaVars(SSANext)

-----------------------------------------------------------------------------
(* The definitions of x a run may have passed last when it comes to b: a   *)
(* path leads from them to b past no definition that is certain.           *)
Kills(g, x) == {b \in Present(g) : x \in Defs(g.stmt[b])}

Reaching(g, b, x) ==
  {d \in Present(g) : x \in AnyDefs(g, d) /\
     LET open == [g EXCEPT !.edges = {e \in @ : e.source = d \/ e.source \notin Kills(g, x)}]
     IN Predecessors(open, b) \cap Reach(open, d, {}) # {}}

(* The definitions a version stands for, through phis and may-defs. *)
Behind(x, v) ==
  CASE v[1] = "phi" -> {args[a] : a \in {a \in DOMAIN args : a[2] = v[2] /\ a[3] = x}}
    [] v[1] = "may" -> {reads[<<v[2], x>>]}
    [] OTHER -> {}

StandsFor(x, v) ==
  LET There == {v} \cup {args[a] : a \in {a \in DOMAIN args : a[3] = x}}
                   \cup {reads[u] : u \in {u \in DOMAIN reads : u[2] = x}}
      Closed == {S \in SUBSET There : v \in S /\ \A w \in S : Behind(x, w) \subseteq S}
  IN {w[2] : w \in {w \in There : w[1] \in {"def", "may"} /\ \A S \in Closed : w \in S}}

(* A use reads a version that stands for the definitions that reach it and *)
(* for no other; but see EveryUseSeesItsDefs.                              *)
UsesSeeTheirDefs ==
  pc = "done" => \A u \in DOMAIN reads :
    LET seen == StandsFor(u[2], reads[u])
        reaching == Reaching(cfg, u[1], u[2])
    IN reaching \ {u[1]} \subseteq seen /\ seen \subseteq reaching

(* The same of the definition in the block of the use, which reaches it    *)
(* around a loop.                                                          *)
EveryUseSeesItsDefs ==
  pc = "done" => \A u \in DOMAIN reads :
    StandsFor(u[2], reads[u]) = Reaching(cfg, u[1], u[2])

(* ssa_consistency_check: a use is dominated by the definition it reads,   *)
(* and each argument of a phi by the block its edge comes from.            *)
UsesDominated ==
  /\ \A u \in DOMAIN reads : reads[u][1] # "use" => u[1] \in below[reads[u][2]]
  /\ \A a \in DOMAIN args : args[a][1] # "use" => a[1] \in below[args[a][2]]

=============================================================================
