------------------------------- MODULE MCCFG -------------------------------
(***************************************************************************)
(* CFG for all methods of five lines with two labels and a branch.         *)
(***************************************************************************)
EXTENDS CFG

MCVars == {"x", "k"}
MCLabels == {"L1", "L2"}
MCKnown == {"k"}
MCKnownValue == [x \in MCKnown |-> TRUE]

L(l) == [op |-> "label", label |-> l]
Goto(l) == [op |-> "goto", label |-> l]
If(x) == [op |-> "if", rhs |-> x, iftrue |-> "L1", iffalse |-> "L2"]
Show == [op |-> "print", rhs |-> "x"]
Flip == [op |-> "not", lhs |-> "x", rhs |-> "x"]
Nothing == [op |-> "copy", lhs |-> "x", rhs |-> "x"]
Return == [op |-> "return"]

Lines == {Goto("L1"), If("x"), If("k"), Show, Flip, Nothing, Return}

Length == 5
MCSources ==
  LET Places == {p \in (1..Length) \X (1..Length) : p[1] < p[2]} IN
  UNION {{[i \in 1..Length |-> IF i = p[1] THEN L("L1") ELSE IF i = p[2] THEN L("L2") ELSE f[i]] :
            f \in {f \in [1..Length \ {p[1], p[2]} -> Lines] : \E i \in DOMAIN f : f[i].op = "if"}} :
          p \in Places}

MCEntry == 0
MCExit == 9
MCBlocks == {MCEntry, MCExit} \cup (1..Length) \cup {6, 7, 8}
=============================================================================
