--------------------------- MODULE StructuredPHP ---------------------------
(***************************************************************************)
(* Method bodies with the control flow of PHP, and their runs: a run keeps *)
(* what is left to do, innermost first, in which an entry "again" stands   *)
(* for each loop or switch it is in.                                       *)
(***************************************************************************)
EXTENDS Naturals, FiniteSets, SequencesExt

CONSTANTS
  Programs,   \* the method bodies: sequences of statements
  Vars        \* the names of their variables

Name(kind, path) == [kind |-> kind, at |-> path]
Of(x) == Name(x, << >>)
Users == {Of(x) : x \in Vars}

(* Expressions: a call that is heard of and returns the value of x, a      *)
(* constant, a name, and what they are combined to.                        *)
Ask(x) == [op |-> "ask", of |-> Of(x)]
Const(v) == [op |-> "const", value |-> v]
Var(n) == [op |-> "var", of |-> n]
Not(e) == [op |-> "not", arg |-> e]
Same(a, b) == [op |-> "same", left |-> a, right |-> b]
Or(a, b) == [op |-> "or", left |-> a, right |-> b]
And(a, b) == [op |-> "and", left |-> a, right |-> b]
Cond(c, a, b) == [op |-> "cond", test |-> c, left |-> a, right |-> b]

(* Statements. *)
Eval(e) == [op |-> "eval", arg |-> e]
Assign(n, e) == [op |-> "assign", to |-> n, arg |-> e]
If(e, yes, no) == [op |-> "if", test |-> e, yes |-> yes, no |-> no]
While(e, body) == [op |-> "while", test |-> e, body |-> body]
Do(body, e) == [op |-> "do", test |-> e, body |-> body]
For(init, e, incr, body) == [op |-> "for", init |-> init, test |-> e, incr |-> incr, body |-> body]
Switch(e, cases) == [op |-> "switch", test |-> e, cases |-> cases]
Case(e, body) == [default |-> FALSE, arg |-> e, body |-> body]
Default(body) == [default |-> TRUE, body |-> body]
Foreach(items, n, body) == [op |-> "foreach", items |-> items, val |-> n, body |-> body]
Loop(body) == [op |-> "loop", body |-> body]                      \* while (true)
Leave(op, n) == [op |-> op, levels |-> n]                         \* break 2; continue;
LeaveBy(op, x) == [op |-> op, levels |-> 0, by |-> Of(x)]         \* break $x;
Break == Leave("break", 1)

(* break $x asks for two levels or, if $x is small, for one. *)
Levels(s, store) == IF s.levels # 0 THEN s.levels ELSE IF store[s.by] THEN 2 ELSE 1

-----------------------------------------------------------------------------
Begun(body, values) ==
  [left |-> body, store |-> [n \in Users |-> values[n.kind]], value |-> FALSE]

Pick(yes, no) == [op |-> "pick", yes |-> yes, no |-> no]
Again(s) == [op |-> "again", loop |-> s]

Around(s) == Append(s.body, Again(s))
Tested(s) == <<s.test, Pick(Around(s), << >>)>>

(* What a loop does at its end, and for continue. *)
Repeated(s) ==
  CASE s.op \in {"while", "do"} -> Tested(s)
    [] s.op = "for" -> <<s.incr>> \o Tested(s)
    [] s.op = "foreach" -> <<s>>
    [] s.op = "switch" -> << >>

(* A switch tries its cases in order from i on, and then takes the last    *)
(* default; from the case it takes it runs on to the end.                  *)
Try(s, i, value) == [op |-> "try", switch |-> s, case |-> i, on |-> value]

FromCase(s, i) ==
  Append(FlattenSeq([j \in 1..Len(s.cases) - i + 1 |-> s.cases[i + j - 1].body]), Again(s))

LastDefault(s) ==
  LET defaults == {i \in DOMAIN s.cases : s.cases[i].default}
  IN IF defaults = {} THEN << >> ELSE FromCase(s, Max(defaults))

Tries(t) ==
  CASE t.case > Len(t.switch.cases) -> LastDefault(t.switch)
    [] t.case <= Len(t.switch.cases) /\ t.switch.cases[t.case].default ->
         <<[t EXCEPT !.case = @ + 1]>>
    [] OTHER -> <<t.switch.cases[t.case].arg, [t EXCEPT !.op = "compare"]>>

(* Where the n-th loop around a run stands in what is left to do. *)
LoopAt(left, n) ==
  LET loops == {i \in DOMAIN left : left[i].op = "again"}
  IN CHOOSE i \in loops : Cardinality({j \in loops : j <= i}) = n

Left(s, rest, store) ==
  LET n == Levels(s, store)
  IN IF n > Cardinality({i \in DOMAIN rest : rest[i].op = "again"})
     THEN <<[op |-> "die"]>>
     ELSE SubSeq(rest, LoopAt(rest, n) + (IF s.op = "break" THEN 1 ELSE 0), Len(rest))

(* One step of a run. *)
Advanced(r) ==
  LET s == Head(r.left)
      rest == Tail(r.left)
      Then(first) == [r EXCEPT !.left = first \o rest]
      With(v) == [r EXCEPT !.left = rest, !.value = v]
  IN CASE s.op \in {"ask", "var"} -> With(r.store[s.of])
       [] s.op = "const"   -> With(s.value)
       [] s.op = "not"     -> Then(<<s.arg, [op |-> "negate"]>>)
       [] s.op = "negate"  -> With(~r.value)
       [] s.op = "or"      -> Then(<<s.left, Pick(<< >>, <<s.right>>)>>)
       [] s.op = "and"     -> Then(<<s.left, Pick(<<s.right>>, << >>)>>)
       [] s.op = "cond"    -> Then(<<s.test, Pick(<<s.left>>, <<s.right>>)>>)
       [] s.op = "pick"    -> Then(IF r.value THEN s.yes ELSE s.no)
       [] s.op = "eval"    -> Then(<<s.arg>>)
       [] s.op = "assign"  -> Then(<<s.arg, [op |-> "store", to |-> s.to]>>)
       [] s.op = "store"   -> [r EXCEPT !.left = rest, !.store[s.to] = r.value]
       [] s.op = "if"      -> Then(<<s.test, Pick(s.yes, s.no)>>)
       [] s.op = "while"   -> Then(Tested(s))
       [] s.op = "do"      -> Then(Around(s))
       [] s.op = "for"     -> Then(<<s.init>> \o Tested(s))
       [] s.op = "again"   -> Then(Repeated(s.loop))
       [] s.op = "foreach" ->
            IF s.items = << >> THEN Then(<< >>)
            ELSE [Then(Around([s EXCEPT !.items = Tail(@)])) EXCEPT !.store[s.val] = Head(s.items)]
       [] s.op = "switch"  -> Then(<<s.test, [op |-> "on", switch |-> s]>>)
       [] s.op = "on"      -> Then(<<Try(s.switch, 1, r.value)>>)
       [] s.op = "try"     -> Then(Tries(s))
       [] s.op = "compare" ->
            Then(IF r.value = s.on THEN FromCase(s.switch, s.case)
                 ELSE <<[s EXCEPT !.op = "try", !.case = @ + 1]>>)
       [] s.op \in {"break", "continue"} -> [r EXCEPT !.left = Left(s, rest, r.store)]
       [] s.op = "die"     -> [r EXCEPT !.left = << >>]

(* A run is heard of at a call, when it fails and when it ends. *)
IsHeardOf(r) == IF r.left = << >> THEN TRUE ELSE Head(r.left).op \in {"ask", "die"}
Says(r) ==
  IF r.left = << >> THEN [n \in Users |-> r.store[n]]
  ELSE IF Head(r.left).op = "die" THEN [n \in {} |-> FALSE]
  ELSE [n \in {Head(r.left).of} |-> r.store[n]]
=============================================================================
