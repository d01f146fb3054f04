----------------------------- MODULE MCContexts -----------------------------
(***************************************************************************)
(* Contexts for the methods of three blocks that test their parameter $p   *)
(* first, and then set, unset or test $x, compute from it, or die; and for *)
(* every two calls of such a method.                                       *)
(***************************************************************************)
EXTENDS Contexts

MCVars == {"p", "x"}
MCValues == {"NULL", "0", "1"}
MCTypes == {"unset", "int"}
MCTypeOf == [v \in MCValues |-> IF v = "NULL" THEN "unset" ELSE "int"]
MCTrueValues == {"1"}

(* $x ^ 1, with PHP's bitwise operator. *)
MCOps == {"^1"}
MCFold == [o \in MCOps |-> [v \in MCValues |-> IF v = "1" THEN "0" ELSE "1"]]
MCResultTypes == [o \in MCOps |-> [t \in MCTypes |-> {"int"}]]

-----------------------------------------------------------------------------
Put(v) == [op |-> "literal", var |-> "x", value |-> v]
Copy == [op |-> "copy", var |-> "x", rhs |-> "p"]
Flip == [op |-> "operator", var |-> "x", rhs |-> "x", operator |-> "^1"]
Unset == [op |-> "unset", var |-> "x"]
Test(v) == [op |-> "branch", var |-> v]
Die == [op |-> "die"]
Skip == [op |-> "skip"]

Statements(i) ==
  CASE i = 1 -> {Test("p")}
    [] i = 2 -> {Put("1"), Die, Unset, Copy}
    [] i = 3 -> {Test("x"), Copy, Flip}

MCEntry == [id |-> 0, stmt |-> Skip]
MCExit == [id |-> 4, stmt |-> Skip]
Filled == UNION {[id : {i}, stmt : Statements(i)] : i \in 1..3}
MCBlocks == Filled \cup {MCEntry, MCExit}
MCBranches == {b \in Filled : b.stmt.op = "branch"}
MCDies == {b \in Filled : b.stmt = Die}

(* A method: a statement for each slot, and where each goes next. *)
Out(b, onTrue, onFalse) ==
  IF b \in MCBranches
    THEN {[source |-> b, target |-> onTrue, direction |-> "true"],
          [source |-> b, target |-> onFalse, direction |-> "false"]}
    ELSE {[source |-> b, target |-> onTrue, direction |-> "none"]}

MCCFGs ==
  {Out(MCEntry, m[1], MCExit) \cup Out(m[1], m[t], m[f]) \cup Out(m[2], m[u], MCExit)
     \cup Out(m[3], m[v], m[w]) :
   m \in {[i \in 1..4 |-> IF i = 4 THEN MCExit ELSE [id |-> i, stmt |-> s[i]]] :
            s \in Statements(1) \X Statements(2) \X Statements(3)},
   t \in {2, 3}, f \in {2, 3}, u \in {3, 4}, v \in {1, 2, 4}, w \in {4}}

-----------------------------------------------------------------------------
MCFormalLists == {<<"p">>, <<"p", "x">>}
MCDefault == [v \in MCVars |-> IF v = "x" THEN "1" ELSE "NULL"]

Given == {<<>>, <<Literal("0")>>, <<Literal("1")>>, <<Typed({"int"})>>}
MCCallLists == {<<c, d>> : c, d \in Given}
=============================================================================
