----------------------------- MODULE MCLowering -----------------------------
(***************************************************************************)
(* Lowering for two nested loops or switches, of each kind in each, and a  *)
(* way out of one of them or of both; and for a short circuit within one.  *)
(***************************************************************************)
EXTENDS Lowering

MCVars == {"x", "y"}

X == Ask("x")
Y == Ask("y")
Flip(v) == Assign(Of(v), Not(Var(Of(v))))

Around2(e, body) ==
  {<<While(e, body)>>, <<Do(body, e)>>, <<For(X, e, Y, body)>>,
   <<Foreach(<<TRUE, FALSE>>, Of("y"), body)>>,
   <<Switch(e, <<Case(Y, body), Default(<<Flip("x")>>), Case(Const(TRUE), <<Eval(X)>>)>>)>>,
   <<Switch(e, <<Default(<<Eval(Y)>>), Case(Y, <<Flip("x")>>), Default(body), Case(X, <<Eval(X)>>)>>)>>}

Exits ==
  {Leave(op, n) : op \in {"break", "continue"}, n \in 1..3} \cup {LeaveBy(op, "x") : op \in {"break", "continue"}}

Inner(exit) ==
  UNION {Around2(e, <<Flip("y"), If(X, <<exit>>, <<Flip("x")>>)>>) : e \in {And(Or(X, Y), Y)}}

(* A loop that is not heard of before it ends. *)
Silent == <<Do(<<Flip("x")>>, Var(Of("x"))), Eval(X)>>

MCPrograms ==
  {Silent} \cup
  UNION {Around2(Cond(X, Not(Y), X), inner \o <<Eval(Y), Flip("x")>>) :
           inner \in UNION {Inner(exit) : exit \in Exits}}

(* if ($x () || ($y () && $x ())) $x (); else $y (); *)
MCShortCircuits == {<<If(Or(X, And(Y, X)), <<Eval(X)>>, <<Eval(Y)>>)>>}
=============================================================================
