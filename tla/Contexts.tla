------------------------------ MODULE Contexts ------------------------------
(***************************************************************************)
(* One method, called from several places.  analyse_function runs once for *)
(* each call -- its context -- with what forward_bind makes of the actual  *)
(* parameters; the results are kept apart by context, but the control-flow *)
(* graph is the method's and there is only one, so that an edge moved in   *)
(* one context stays moved in the next.  merge_contexts then makes one     *)
(* result of each block's results, and Optimization_transformer writes     *)
(* what it says into the method.  At last the method runs, from any call.  *)
(***************************************************************************)
EXTENDS ValueLattice, Naturals, Sequences

CONSTANTS
  Blocks, Entry, Exit, Branches, Dies, CFGs,  \* as in AnalyseFunction
  FormalLists,  \* the formal parameters a method may have
  Default,      \* what default_param gives each, NULL if it has no default
  CallLists     \* the calls of the method: for each the abstract values of
                \* its actual parameters

(* No method names a parameter twice, and each is called somewhere.        *)
(* Actual parameters beyond those declared (unnamed_param) are left out.   *)
ASSUME CallAssumption ==
  /\ \A fs \in FormalLists :
       fs \in Seq(Vars) /\ \A i, j \in 1..Len(fs) : fs[i] = fs[j] => i = j
  /\ \A cs \in CallLists : cs \in Seq(Seq(Absval)) /\ cs # <<>>
  /\ \A fs \in FormalLists, cs \in CallLists :
       \A i \in 1..Len(cs) : Len(cs[i]) <= Len(fs)
  /\ Default \in [Vars -> Values]

VARIABLES
  pc, cfg, queue, bbs, executable, outs,  \* analyse_function, for the present call
  ins,      \* WPA_lattice::ins and Aliasing::ins of the present call
  given,    \* the graph before the first call is analysed
  formals,  \* Method_info's formal parameters
  calls,    \* the calls in the order they are analysed
  results,  \* the ins and outs of the calls analysed so far
  merged,   \* the ins and outs after merge_contexts
  code,     \* the statement each block holds
  run       \* the call that runs, the block it has just finished, its store

analysis == <<pc, cfg, queue, bbs, executable, outs>>
method == <<given, formals, calls>>
vars == <<analysis, ins, method, results, merged, code, run>>

call == calls[Len(results) + 1]
IsTrue(b, m) == m[b.stmt.var] \in TrueValues

-----------------------------------------------------------------------------
(* Mutated forms of Bound and MergedCell. *)
BoundToNull(fs, actuals) ==
  [x \in {fs[i] : i \in 1..(IF Len(actuals) < Len(fs) THEN Len(actuals) + 1 ELSE Len(actuals))} |->
     IF \E i \in 1..Len(actuals) : fs[i] = x
       THEN actuals[CHOOSE i \in 1..Len(actuals) : fs[i] = x]
       ELSE Literal(Null)]
FirstCell(C) == CHOOSE c \in C : TRUE

(* forward_bind: the actual parameters, then the first formal parameter    *)
(* that has none -- an if stands where a loop should.                      *)
Bound(fs, actuals) ==
  LET n == Len(actuals)
      bound == 1..(IF n < Len(fs) THEN n + 1 ELSE n)
  IN [x \in {fs[i] : i \in bound} |->
        IF \E i \in 1..n : fs[i] = x
          THEN actuals[CHOOSE i \in 1..n : fs[i] = x]
          ELSE Literal(Default[x])]

Missing(c) == Len(formals) - Len(c)

F == INSTANCE AnalyseFunction WITH
       Solutions <- Solution,
       EntrySolutions <- UNION {{Bound(fs, cs[i]) : fs \in FormalLists, i \in 1..Len(cs)} :
                                  cs \in CallLists},
       MeetAll <- MeetSolutions,
       Transfer <- LAMBDA b, s : Interpret(b.stmt, s),
       Same <- SameSolution,
       KnownTrue <- LAMBDA b, s : known_true(Read(s, b.stmt.var)),
       KnownFalse <- LAMBDA b, s : known_false(Read(s, b.stmt.var))

ASSUME MethodAssumption ==
  /\ Entry \in Blocks /\ Exit \in Blocks /\ Entry # Exit
  /\ Branches \subseteq Blocks \ {Entry, Exit}
  /\ Dies \subseteq Blocks \ ({Entry, Exit} \cup Branches)
  /\ \A b \in Blocks : b.stmt \in Statement
  /\ \A b \in Branches : b.stmt.op = "branch"
  /\ \A g \in CFGs : F!ConsistentCFG(g)

Nothing == [b \in {} |-> {}]

Init ==
  /\ F!Init
  /\ ins = Nothing
  /\ given = cfg
  /\ formals \in FormalLists
  /\ calls \in CallLists
  /\ results = <<>>
  /\ merged = [in |-> Nothing, out |-> Nothing]
  /\ code = [b \in Blocks |-> b.stmt]
  /\ run = [call |-> 0, at |-> Entry, store |-> [x \in Vars |-> Null]]

-----------------------------------------------------------------------------
(* invoke_method: forward_bind for the present call, then the loop. *)
ForwardBind ==
  /\ F!ForwardBind
  /\ outs'[Entry] = Bound(formals, call)
  /\ UNCHANGED <<ins, method, results, merged, code, run>>

AnalyseBlock ==
  /\ pc = "loop"
  /\ \E e \in queue :
       /\ F!VisitBranch(e) \/ F!VisitStatement(e) \/ F!VisitExit(e)
       /\ ins' = [b \in DOMAIN ins \cup {e.target} |->
                    IF b = e.target THEN F!Pull(b) ELSE ins[b]]
  /\ UNCHANGED <<method, results, merged, code, run>>

BackwardBind ==
  /\ F!BackwardBind
  /\ UNCHANGED <<ins, method, results, merged, code, run>>

(* The next call is analysed with a Worklist and a context of its own, on  *)
(* the graph the last one left.                                            *)
NextPC(done) == IF done = Len(calls) THEN "merging" ELSE "start"

EndCall ==
  /\ pc = "done"
  /\ results' = Append(results, [in |-> ins, out |-> outs])
  /\ pc' = NextPC(Len(results'))
  /\ executable' = {}
  /\ ins' = Nothing /\ outs' = Nothing
  /\ UNCHANGED <<cfg, queue, bbs, method, merged, code, run>>

-----------------------------------------------------------------------------
(* merge_contexts, for one side (in or out).  The cells are met by         *)
(* WPA_lattice::merge_contexts, where a context that lacks the variable is *)
(* TOP and says nothing.  Aliasing::merge_contexts drops the graph that    *)
(* merge returns: the variables are those of the context that comes first, *)
(* and a CX_map is a hash table.                                           *)
Having(side, b) == {c \in 1..Len(results) : b \in DOMAIN results[c][side]}

MergedCell(C) == MeetCells(C)

MergedSolution(side, b, first) ==
  [x \in DOMAIN results[first][side][b] |->
     MergedCell({results[c][side][b][x] :
                   c \in {d \in Having(side, b) : x \in DOMAIN results[d][side][b]}})]

(* One choice of the context that comes first stands for all blocks: what  *)
(* is asked below is asked of one block at a time.                         *)
MergeSide(side, rank) ==
  [b \in UNION {DOMAIN results[c][side] : c \in 1..Len(results)} |->
     MergedSolution(side, b,
       CHOOSE c \in Having(side, b) : \A d \in Having(side, b) : rank[c] <= rank[d])]

MergeContexts ==
  /\ pc = "merging"
  /\ pc' = "merged"
  /\ \E f, g \in {[i \in 1..Len(calls) |-> i], [i \in 1..Len(calls) |-> Len(calls) - i]} :
       merged' = [in |-> MergeSide("in", f), out |-> MergeSide("out", g)]
  /\ UNCHANGED <<cfg, queue, bbs, executable, outs, ins, method, results, code, run>>

-----------------------------------------------------------------------------
(* Optimization_transformer.  visit_block leaves a block without results   *)
(* alone; visit_assign_var writes the value the assigned variable is known *)
(* to have afterwards, and otherwise visit_bin_op the value the operand is *)
(* known to have before (an operator all of whose operands are literals is *)
(* a literal here).                                                        *)
InLiteral(b, x) == Read(merged.in[b], x).lit
OutLiteral(b, x) == Read(merged.out[b], x).lit

Transformed(b) ==
  CASE b \notin DOMAIN merged.in -> b.stmt
    [] b.stmt.op \in {"copy", "operator"} /\ OutLiteral(b, b.stmt.var) # NoLit ->
         [op |-> "literal", var |-> b.stmt.var, value |-> OutLiteral(b, b.stmt.var)]
    [] b.stmt.op = "operator" /\ OutLiteral(b, b.stmt.var) = NoLit
         /\ InLiteral(b, b.stmt.rhs) # NoLit ->
         [op |-> "literal", var |-> b.stmt.var,
          value |-> Fold[b.stmt.operator][InLiteral(b, b.stmt.rhs)]]
    [] OTHER -> b.stmt

(* set_branch_direction: the edge taken loses its direction, the other goes. *)
SetBranch(g, b, direction) ==
  {e \in g : e.source # b} \cup
  {[e EXCEPT !.direction = "none"] : e \in {f \in g : f.source = b /\ f.direction = direction}}

Decided == {b \in Branches \cap DOMAIN merged.in : InLiteral(b, b.stmt.var) # NoLit}
Direction(b) == IF InLiteral(b, b.stmt.var) \in TrueValues THEN "true" ELSE "false"

ApplyResults ==
  /\ pc = "merged"
  /\ pc' = "applied"
  /\ code' = [b \in Blocks |-> Transformed(b)]
  /\ cfg' = {e \in cfg : e.source \notin Decided} \cup
            UNION {{e \in SetBranch(cfg, b, Direction(b)) : e.source = b} : b \in Decided}
  /\ UNCHANGED <<queue, bbs, executable, outs, ins, method, results, merged, run>>

-----------------------------------------------------------------------------
(* The source program: one of the calls runs the method as it was given.   *)
Arguments(c) ==
  {m \in Store : \A x \in Vars :
     IF \E i \in 1..Len(formals) : formals[i] = x
       THEN LET i == CHOOSE j \in 1..Len(formals) : formals[j] = x
            IN IF i <= Len(c) THEN LiteralHolds(c[i], m[x]) /\ TypeHolds(c[i], m[x])
                              ELSE m[x] = Default[x]
       ELSE m[x] = Null}

Begin ==
  /\ pc = "applied"
  /\ run.call = 0
  /\ \E c \in 1..Len(calls) : \E m \in Arguments(calls[c]) :
       run' = [call |-> c, at |-> Entry, store |-> m]
  /\ UNCHANGED <<analysis, ins, method, results, merged, code>>

Takes(e, m) ==
  \/ e.direction = "none"
  \/ e.direction = "true" /\ IsTrue(e.source, m)
  \/ e.direction = "false" /\ ~IsTrue(e.source, m)

(* Where the run goes next. *)
Chosen == {e \in F!Leaving(given, run.at) : run.at \notin Dies /\ Takes(e, run.store)}

Run ==
  /\ run.call # 0
  /\ \E e \in Chosen : \E m \in Execute(e.target.stmt, run.store) :
       run' = [run EXCEPT !.at = e.target, !.store = m]
  /\ UNCHANGED <<analysis, ins, method, results, merged, code>>

Compile ==
  ForwardBind \/ AnalyseBlock \/ BackwardBind \/ EndCall \/ MergeContexts \/ ApplyResults

Next == Compile \/ Begin \/ Run

Spec == Init /\ [][Next]_vars /\ WF_vars(Compile)

-----------------------------------------------------------------------------
ContextsTypeOK ==
  /\ pc \in {"start", "loop", "done", "segfault", "merging", "merged", "applied"}
  /\ pc # "applied" => F!ConsistentCFG(cfg)
  /\ DOMAIN ins \subseteq DOMAIN outs
  /\ \A b \in DOMAIN outs : outs[b] \in Solution
  /\ \A b \in DOMAIN ins : ins[b] \in Solution
  /\ Len(results) <= Len(calls)
  /\ DOMAIN code = Blocks
  /\ run.call \in 0..Len(calls) /\ run.at \in Blocks /\ run.store \in Store

(* A solution stands for a store if the literals it knows are there. *)
StandsFor(s, m) == \A x \in Vars : LiteralHolds(Read(s, x), m[x])

(* The results of each context hold of every run of its call, though the   *)
(* other contexts were analysed on the same graph and may have moved its   *)
(* edges before (Whole_program.cpp:326: "We are modifying the cfg from the *)
(* whole program analysis").  A call that leaves out two parameters is not *)
(* promised that: forward_bind gives a value to the first only.            *)
ContextsCovered ==
  (run.call # 0 /\ Missing(calls[run.call]) <= 1) =>
    LET result == results[run.call].out
    IN run.at \in DOMAIN result /\ StandsFor(result[run.at], run.store)

(* What the run does next, the transformed method does too: the branch     *)
(* still leads where the run goes, and the block there has the same        *)
(* effect.                                                                 *)
TransformedFollows ==
  (run.call # 0) => \A e \in Chosen :
    /\ \E f \in F!Leaving(cfg, run.at) :
         f.target = e.target /\ f.direction \in {"none", e.direction}
    /\ Execute(code[e.target], run.store) = Execute(e.target.stmt, run.store)

FewMissing == \A i \in 1..Len(calls) : Missing(calls[i]) <= 1

(* A variable exists in a block in all contexts or in none. *)
SameScopes ==
  \A side \in {"in", "out"}, c, d \in 1..Len(results) :
    \A b \in DOMAIN results[c][side] \cap DOMAIN results[d][side] :
      DOMAIN results[c][side][b] = DOMAIN results[d][side][b]

(* The transformer keeps what every call of the method does, although it   *)
(* writes the results of all of them into one method -- as long as the     *)
(* contexts agree on which variables exist, for nothing else is left of    *)
(* the difference between them once they are merged.                       *)
AppliedKeepsRuns == (FewMissing /\ SameScopes) => TransformedFollows

(* The same without the condition: what the merge is for.                  *)
MergedKeepsRuns == FewMissing => TransformedFollows
=============================================================================
