--------------------------- MODULE MCLocalPasses ---------------------------
(***************************************************************************)
(* LocalPasses for all clean graphs of four blocks over two variables.     *)
(***************************************************************************)
EXTENDS LocalPasses

MCVars == {"x", "y"}
MCGlobals == {"y"}
MCEntry == 0
MCExit == 5
Slots == 1..4
MCBlocks == 0..5

MCFirst(S) == {b \in S : (\A c \in S : b <= c) \/ (\A c \in S : b >= c)}

Not(x, y) == [op |-> "not", lhs |-> x, rhs |-> y]
May == [op |-> "may", lhs |-> "x", rhs |-> "y"]
Show == [op |-> "print", rhs |-> "x"]
Test(x) == [op |-> "branch", rhs |-> x]

Kinds(i) ==
  CASE i = 1 -> {Test("y"), Not("x", "y")}
    [] i = 2 -> {Not("x", "x"), Not("y", "y"), May}
    [] i = 3 -> {Test("x"), Not("y", "x")}
    [] i = 4 -> {Show}

To(s, t, d) == [source |-> s, target |-> t, direction |-> d]
Exits(i, stmt) ==
  IF stmt.op = "branch"
  THEN {{To(i, t, "true"), To(i, f, "false")} : t, f \in Slots \cup {MCExit}}
  ELSE {{To(i, t, "none")} : t \in (IF i = 4 THEN {2, 3} ELSE Slots) \cup {MCExit}}

MCGraphs ==
  LET Filled(i) == UNION {{<<s, E>> : E \in Exits(i, s)} : s \in Kinds(i)}
      All == {[stmt |-> [b \in MCBlocks |-> IF b \in Slots THEN f[b][1] ELSE Empty],
               edges |-> {To(0, 1, "none")} \cup UNION {f[i][2] : i \in Slots}] :
                f \in {<<a, b, c, d>> : a \in Filled(1), b \in Filled(2), c \in Filled(3), d \in Filled(4)}}
      Entered(g) == \A b \in Slots \cup {MCExit} : Predecessors(g, b) \ {b} # {}
  IN {g \in All : Entered(g) /\ Connected(g)}
=============================================================================
