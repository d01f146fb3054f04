------------------------------ MODULE Lowering ------------------------------
(***************************************************************************)
(* From the loops, switches and short circuits of PHP to labels, gotos and *)
(* branches: the passes Early_lower_control_flow, Lower_expr_flow, the     *)
(* Shredder and Lower_control_flow, and the runs of what they are given    *)
(* and of what they make.  A fresh name or label is named here for the     *)
(* place in the tree it is made for.                                       *)
(***************************************************************************)
EXTENDS StructuredPHP

(* F of v, with v evaluated once. *)
Once(v, F(_)) == CHOOSE r \in {F(w) : w \in {v}} : TRUE

-----------------------------------------------------------------------------
(* Early_lower_control_flow *)

(* Mutated form of CaseTest: the case is compared before it is evaluated.  *)
CaseTestFirst(matched, val, c, path) ==
  <<If(Var(matched), << >>,
       <<If(Same(Var(val), Var(Name("TL", path))), <<Assign(matched, Const(TRUE))>>, << >>),
         Assign(Name("TL", path), c.arg)>>)>>

CaseTest(matched, val, c, path) ==
  <<If(Var(matched), << >>,
       <<Assign(Name("TL", path), c.arg),
         If(Same(Var(val), Var(Name("TL", path))), <<Assign(matched, Const(TRUE))>>, << >>)>>)>>

(* The last default gets its statements and all statements after it. *)
DefaultBody(cases) ==
  LET defaults == {i \in DOMAIN cases : cases[i].default}
  IN IF defaults = {} THEN << >>
     ELSE FlattenSeq([i \in 1..Len(cases) - Max(defaults) + 1 |-> cases[Max(defaults) + i - 1].body])

(* pre_switch: the loop is there for the sake of break and continue. *)
SwitchAsDo(s, path) ==
  LET val == Name("TEL", path)
      matched == Name("TSM", path)
      Tried(i) ==
        (IF s.cases[i].default THEN << >> ELSE CaseTest(matched, val, s.cases[i], Append(path, i)))
          \o <<If(Var(matched), s.cases[i].body, << >>)>>
      unmatched ==
        IF DefaultBody(s.cases) = << >> THEN << >>
        ELSE <<If(Var(matched), << >>, DefaultBody(s.cases))>>
  IN <<Assign(val, s.test), Assign(matched, Const(FALSE)),
       Do(FlattenSeq([i \in DOMAIN s.cases |-> Tried(i)]) \o unmatched, Const(FALSE))>>

ForHead(first, s) ==
  <<If(Var(first), <<Assign(first, Const(FALSE))>>, <<Eval(s.incr)>>), If(s.test, << >>, <<Break>>)>>

(* Mutated form of DoHead: $first is never reset. *)
DoHeadUntested(first, s) == <<If(Var(first), << >>, <<If(Not(s.test), <<Break>>, << >>)>>)>>

DoHead(first, s) ==
  <<If(Var(first), <<Assign(first, Const(FALSE))>>, <<If(Not(s.test), <<Break>>, << >>)>>)>>

RECURSIVE Early(_, _), EarlyFrom(_, _, _)
EarlyFrom(ss, path, i) ==
  IF i > Len(ss) THEN << >> ELSE Early(ss[i], Append(path, i)) \o EarlyFrom(ss, path, i + 1)
EarlyAll(statements, path) == Once(statements, LAMBDA ss : EarlyFrom(ss, path, 1))
Early(s, path) ==
  CASE s.op = "if" ->
         <<If(s.test, EarlyAll(s.yes, Append(path, 1)), EarlyAll(s.no, Append(path, 2)))>>
    [] s.op = "while" ->
         <<Loop(<<If(Not(s.test), <<Break>>, << >>)>> \o EarlyAll(s.body, path))>>
    [] s.op = "do" ->
         <<Assign(Name("ElcfPD", path), Const(TRUE)),
           Loop(DoHead(Name("ElcfPD", path), s) \o EarlyAll(s.body, path))>>
    [] s.op = "for" ->
         <<Eval(s.init), Assign(Name("ElcfPF", path), Const(TRUE)),
           Loop(ForHead(Name("ElcfPF", path), s) \o EarlyAll(s.body, path))>>
    [] s.op = "switch" -> EarlyAll(SwitchAsDo(s, path), path)
    [] s.op = "foreach" -> <<[s EXCEPT !.body = EarlyAll(@, path)]>>
    [] OTHER -> <<s>>

-----------------------------------------------------------------------------
(* Lower_expr_flow visits the operands before the operator, and all their  *)
(* pieces come before the operator's.                                      *)
RECURSIVE Pieces(_, _)
Pieces(e, path) ==
  LET temp == Name("TEF", path)
      left == Name("TLE", path)
      None(v) == [pieces |-> << >>, value |-> v]
      Choice(before, t, a, b) ==
        [pieces |-> before \o <<If(t, <<Assign(temp, a)>>, <<Assign(temp, b)>>)>>, value |-> Var(temp)]
      L == Pieces(e.left, Append(path, 1))
      R == Pieces(e.right, Append(path, 2))
      Both == L.pieces \o R.pieces \o <<Assign(left, L.value)>>
  IN CASE e.op = "or" -> Choice(Both, Var(left), Var(left), R.value)
       [] e.op = "and" -> Choice(Both, Var(left), R.value, Var(left))
       [] e.op = "cond" ->
            LET T == Pieces(e.test, Append(path, 0))
            IN Choice(T.pieces \o L.pieces \o R.pieces, T.value, L.value, R.value)
       [] e.op = "not" ->
            LET A == Pieces(e.arg, Append(path, 0)) IN [pieces |-> A.pieces, value |-> Not(A.value)]
       [] OTHER -> None(e)

(* children_if keeps the pieces of the branches out of the condition's. *)
RECURSIVE Flow(_, _), FlowFrom(_, _, _)
FlowFrom(ss, path, i) ==
  IF i > Len(ss) THEN << >> ELSE Flow(ss[i], Append(path, i)) \o FlowFrom(ss, path, i + 1)
FlowAll(ss, path) == FlowFrom(ss, path, 1)
Flow(s, path) ==
  CASE s.op = "if" ->
         LET T == Pieces(s.test, path)
         IN Append(T.pieces,
                   If(T.value, FlowAll(s.yes, Append(path, 1)), FlowAll(s.no, Append(path, 2))))
    [] s.op \in {"eval", "assign"} ->
         LET A == Pieces(s.arg, path) IN Append(A.pieces, [s EXCEPT !.arg = A.value])
    [] s.op \in {"loop", "foreach"} -> <<[s EXCEPT !.body = FlowAll(@, path)]>>
    [] OTHER -> <<s>>

-----------------------------------------------------------------------------
(* The Shredder gives each call and each negation a variable of its own. *)
RECURSIVE Shredded(_, _)
Shredded(e, path) ==
  CASE e.op = "var" -> [lines |-> << >>, of |-> e.of]
    [] e.op = "not" ->
         LET A == Shredded(e.arg, Append(path, 0))
             temp == Name("TLE", Append(path, 0))
         IN [lines |-> Append(A.lines, [op |-> "not", to |-> temp, of |-> A.of]), of |-> temp]
    [] e.op = "ask" ->
         LET temp == Name("TLE", path)
         IN [lines |-> <<[op |-> "ask", to |-> temp, of |-> e.of]>>, of |-> temp]
    [] e.op = "const" ->
         LET temp == Name("TLE", path)
         IN [lines |-> <<[op |-> "const", to |-> temp, value |-> e.value]>>, of |-> temp]
    [] e.op = "same" ->
         LET temp == Name("TLE", path)
         IN [lines |-> <<[op |-> "same", to |-> temp, left |-> e.left.of, right |-> e.right.of]>>, of |-> temp]

(* Lower_control_flow. *)
Label(l) == [op |-> "label", name |-> l]
Goto(l) == [op |-> "goto", to |-> l]
Branch(n, yes, no) == [op |-> "branch", of |-> n, yes |-> yes, no |-> no]
Targets(lines) ==
  {l.to : l \in {l \in ToSet(lines) : l.op = "goto"}}
    \cup UNION {{l.yes, l.no} : l \in {l \in ToSet(lines) : l.op = "branch"}}

(* exit_label and add_label: a loop has the label when something in it     *)
(* asked for it.                                                           *)
ExitLabel(op, path) == Name(op, path)
AddLabel(op, path, lines) ==
  IF ExitLabel(op, path) \in Targets(lines) THEN <<Label(ExitLabel(op, path))>> ELSE << >>

(* lower_exit for break $x: one branch and label for each loop around it. *)
LowerExitBy(s, path, loops) ==
  LET n == Len(loops)
      Depth(d) ==
        <<[op |-> "levels", to |-> Name("TB", path), of |-> s.by, depth |-> d],
          Branch(Name("TB", path), ExitLabel(s.op, loops[n - d + 1]), Name("level", Append(path, d))),
          Label(Name("level", Append(path, d)))>>
  IN Append(FlattenSeq([d \in 1..n |-> Depth(d)]), [op |-> "die"])

(* Mutated form of LowerExit: the levels are counted from the outside. *)
LowerExitOutermost(s, path, loops) ==
  IF s.levels = 0 THEN LowerExitBy(s, path, loops)
  ELSE <<Goto(ExitLabel(s.op, loops[s.levels]))>>

LowerExit(s, path, loops) ==
  IF s.levels = 0 THEN LowerExitBy(s, path, loops)
  ELSE <<Goto(ExitLabel(s.op, loops[Len(loops) - s.levels + 1]))>>

(* loops: the loops around a statement, the outermost first. *)
RECURSIVE Lower(_, _, _), LowerFrom(_, _, _, _)
LowerFrom(ss, path, loops, i) ==
  IF i > Len(ss) THEN << >>
  ELSE Lower(ss[i], Append(path, i), loops) \o LowerFrom(ss, path, loops, i + 1)
LowerAll(ss, path, loops) == LowerFrom(ss, path, loops, 1)
Lower(s, path, loops) ==
  CASE s.op = "eval" -> Shredded(s.arg, path).lines
    [] s.op = "assign" ->
         LET A == Shredded(s.arg, path)
         IN Append(A.lines, [op |-> "copy", to |-> s.to, of |-> A.of])
    [] s.op = "if" ->
         LET T == Shredded(s.test, path)
             l1 == Name("then", path)
             l2 == Name("else", path)
             l3 == Name("endif", path)
         IN T.lines \o <<Branch(T.of, l1, l2), Label(l1)>>
              \o LowerAll(s.yes, Append(path, 1), loops) \o <<Goto(l3), Label(l2)>>
              \o LowerAll(s.no, Append(path, 2), loops) \o <<Goto(l3), Label(l3)>>
    [] s.op = "loop" -> Once(LowerAll(s.body, path, Append(loops, path)), LAMBDA body :
         AddLabel("continue", path, body) \o <<Label(Name("loop", path))>> \o body
           \o <<Goto(Name("loop", path))>> \o AddLabel("break", path, body))
    [] s.op = "foreach" -> Once(LowerAll(s.body, path, Append(loops, path)), LAMBDA body :
         LET l0 == Name("head", path)
             l1 == Name("item", path)
             l2 == ExitLabel("break", path)
             has == Name("THK", path)
         IN <<[op |-> "reset", iter |-> path, items |-> s.items], Label(l0),
              [op |-> "has", to |-> has, iter |-> path], Branch(has, l1, l2), Label(l1),
              [op |-> "get", to |-> s.val, iter |-> path]>>
              \o body \o AddLabel("continue", path, body)
              \o <<[op |-> "next", iter |-> path], Goto(l0), Label(l2), [op |-> "end", iter |-> path]>>)
    [] s.op \in {"break", "continue"} -> LowerExit(s, path, loops)

RECURSIVE CanLeaveDeeper(_, _), CanLeave(_, _)
(* Mutated form of CanLeave: one loop too few. *)
CanLeaveDeeper(ss, depth) ==
  \A i \in DOMAIN ss : LET s == ss[i] IN
    CASE s.op \in {"break", "continue"} -> s.levels < depth
      [] s.op = "if" -> CanLeaveDeeper(s.yes, depth) /\ CanLeaveDeeper(s.no, depth)
      [] s.op \in {"loop", "foreach"} -> CanLeaveDeeper(s.body, depth + 1)
      [] OTHER -> TRUE

(* phc_error is called if there is a break for which there are not as many *)
(* loops.                                                                  *)
CanLeave(ss, depth) ==
  \A i \in DOMAIN ss : LET s == ss[i] IN
    CASE s.op \in {"break", "continue"} -> depth # 0 /\ s.levels <= depth
      [] s.op = "if" -> CanLeave(s.yes, depth) /\ CanLeave(s.no, depth)
      [] s.op \in {"loop", "foreach"} -> CanLeave(s.body, depth + 1)
      [] OTHER -> TRUE

-----------------------------------------------------------------------------
VARIABLES
  pass,    \* "elcf", "lef", "lcf", "run", or "error" after phc_error
  source,  \* the method
  code,    \* what the passes have made of it
  ran,     \* the run of the source
  rerun    \* the run of the code: the next line, the variables, the iterators

vars == <<pass, source, code, ran, rerun>>

Init ==
  /\ pass = "elcf"
  /\ source \in Programs
  /\ code = source
  /\ ran = << >>
  /\ rerun = << >>

EarlyLowerControlFlow ==
  /\ pass = "elcf"
  /\ code' = EarlyAll(code, << >>)
  /\ pass' = "lef"
  /\ UNCHANGED <<source, ran, rerun>>

LowerExprFlow ==
  /\ pass = "lef"
  /\ code' = FlowAll(code, << >>)
  /\ pass' = "lcf"
  /\ UNCHANGED <<source, ran, rerun>>

LowerControlFlow ==
  /\ pass = "lcf"
  /\ IF CanLeave(code, 0)
     THEN code' = LowerAll(code, << >>, << >>) /\ pass' = "start"
     ELSE pass' = "error" /\ UNCHANGED code
  /\ UNCHANGED <<source, ran, rerun>>

Start ==
  /\ pass = "start"
  /\ pass' = "run"
  /\ \E values \in [Vars -> BOOLEAN] :
       /\ ran' = Begun(source, values)
       /\ rerun' = [at |-> 1, store |-> Begun(source, values).store, iters |-> << >>]
  /\ UNCHANGED <<source, code>>

-----------------------------------------------------------------------------
(* The runs. *)
Target(l) == CHOOSE i \in DOMAIN code : code[i] = Label(l)

Executed(r) ==
  LET line == code[r.at]
      To(v) == [r EXCEPT !.at = @ + 1, !.store = (line.to :> v) @@ @]
      On(items) == [r EXCEPT !.at = @ + 1, !.iters = (line.iter :> items) @@ @]
  IN CASE line.op \in {"ask", "copy"} -> To(r.store[line.of])
       [] line.op = "const"  -> To(line.value)
       [] line.op = "not"    -> To(~r.store[line.of])
       [] line.op = "same"   -> To(r.store[line.left] = r.store[line.right])
       [] line.op = "levels" -> To(r.store[line.of] = (line.depth = 2))
       [] line.op = "goto"   -> [r EXCEPT !.at = Target(line.to)]
       [] line.op = "branch" -> [r EXCEPT !.at = Target(IF r.store[line.of] THEN line.yes ELSE line.no)]
       [] line.op = "reset"  -> On(line.items)
       [] line.op = "has"    -> To(r.iters[line.iter] # << >>)
       [] line.op = "get"    -> To(Head(r.iters[line.iter]))
       [] line.op = "next"   -> On(Tail(r.iters[line.iter]))
       [] line.op = "die"    -> [r EXCEPT !.at = Len(code) + 1]
       [] OTHER              -> [r EXCEPT !.at = @ + 1]

Ended(r) == r.at > Len(code)
IsHeard(r) == IF Ended(r) THEN TRUE ELSE code[r.at].op \in {"ask", "die"}
Said(r) ==
  IF Ended(r) THEN [n \in Users |-> r.store[n]]
  ELSE IF code[r.at].op = "die" THEN [n \in {} |-> FALSE]
  ELSE [n \in {code[r.at].of} |-> r.store[n]]

RunSource ==
  /\ pass = "run"
  /\ ~IsHeardOf(ran)
  /\ ran' = Advanced(ran)
  /\ UNCHANGED <<pass, source, code, rerun>>

RunCode ==
  /\ pass = "run"
  /\ IsHeardOf(ran) /\ ~IsHeard(rerun)
  /\ rerun' = Executed(rerun)
  /\ UNCHANGED <<pass, source, code, ran>>

RunBoth ==
  /\ pass = "run"
  /\ IsHeardOf(ran) /\ ran.left # << >>
  /\ IsHeard(rerun) /\ ~Ended(rerun)
  /\ ran' = Advanced(ran)
  /\ rerun' = Executed(rerun)
  /\ UNCHANGED <<pass, source, code>>

Next ==
  \/ EarlyLowerControlFlow \/ LowerExprFlow \/ LowerControlFlow
  \/ Start \/ RunSource \/ RunCode \/ RunBoth

Spec == Init /\ [][Next]_vars /\ WF_vars(Next)

-----------------------------------------------------------------------------
(* What a line reads. *)
Reads(line) ==
  CASE line.op \in {"ask", "copy", "not", "levels", "branch"} -> {line.of}
    [] line.op = "same" -> {line.left, line.right}
    [] OTHER -> {}

(* A program goes through the passes in order; each goto and each branch   *)
(* of its code finds one label; the run of the code is at a line of it or  *)
(* at its end, and reads no variable and asks no iterator it has not set.  *)
LoweringTypeOK ==
  /\ pass \in {"elcf", "lef", "lcf", "start", "run", "error"}
  /\ pass = "start" =>
       \A l \in Targets(code) : Cardinality({i \in DOMAIN code : code[i] = Label(l)}) = 1
  /\ pass = "run" =>
       /\ ran.store \in [Users -> BOOLEAN] /\ ran.value \in BOOLEAN
       /\ rerun.at \in 1..Len(code) + 1
       /\ Users \subseteq DOMAIN rerun.store
       /\ rerun.at <= Len(code) =>
            LET line == code[rerun.at]
            IN /\ Reads(line) \subseteq DOMAIN rerun.store
               /\ line.op \in {"has", "get", "next"} => line.iter \in DOMAIN rerun.iters

(* An operand that is only evaluated after a look at another holds no      *)
(* short circuit of its own; but see ShortCircuitsKept.                    *)
RECURSIVE IsPlain(_)
IsPlain(e) ==
  CASE e.op \in {"or", "and"} -> IsPlain(e.left) /\ e.right.op \notin {"or", "and", "cond"}
    [] e.op = "cond" ->
         IsPlain(e.test) /\ {e.left.op, e.right.op} \cap {"or", "and", "cond"} = {}
    [] e.op = "not" -> IsPlain(e.arg)
    [] OTHER -> TRUE

Tests(ss) == {s.test : s \in {s \in ToSet(ss) : s.op \in {"if", "while", "do", "for", "switch"}}}

BothHeard == pass = "run" /\ IsHeardOf(ran) /\ IsHeard(rerun)

(* Loops, switches, their breaks and continues and plain short circuits    *)
(* mean what they meant: whenever both runs are next heard of, they make   *)
(* the same call, fail alike, or end with the same variables.              *)
LoweredSameRuns ==
  BothHeard /\ (\A e \in Tests(source) : IsPlain(e)) => Says(ran) = Said(rerun)

(* The same with short circuits inside of short circuits, which are        *)
(* documented to be evaluated in a branch of their own.                    *)
ShortCircuitsKept == BothHeard => Says(ran) = Said(rerun)

(* The code does not hang or jump astray where the source would be heard.  *)
LoweredAnswers ==
  (pass = "run" /\ IsHeardOf(ran)) ~> BothHeard

(* Some break or continue of the source leaves more loops and switches than *)
(* there are around it.                                                    *)
RECURSIVE TooDeep(_, _)
TooDeep(ss, depth) ==
  \E i \in DOMAIN ss : LET s == ss[i] IN
    CASE s.op \in {"break", "continue"} -> s.levels > depth
      [] s.op = "if" -> TooDeep(s.yes, depth) \/ TooDeep(s.no, depth)
      [] s.op \in {"while", "do", "for", "foreach"} -> TooDeep(s.body, depth + 1)
      [] s.op = "switch" -> \E c \in DOMAIN s.cases : TooDeep(s.cases[c].body, depth + 1)
      [] OTHER -> FALSE

(* phc_error ends the compilation for those methods, and no others, in     *)
(* which a break or continue asks to leave more loops and switches than    *)
(* there are around it in the source; the default that is copied and the   *)
(* loop made of a switch change nothing in that.                           *)
ErrorsAreReal ==
  pass \in {"start", "error"} => ((pass = "error") <=> TooDeep(source, 0))
=============================================================================
