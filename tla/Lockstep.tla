------------------------------ MODULE Lockstep ------------------------------
(***************************************************************************)
(* Two runs from the same variables, one of the graph g a pass was given   *)
(* and one of the graph h it made, each of which waits for the other when  *)
(* it is heard of.                                                         *)
(***************************************************************************)
EXTENDS FlowGraph

Start(store) == [given |-> [at |-> Entry, store |-> store], made |-> [at |-> Entry, store |-> store]]

BothHeard(g, h, pair) == IsHeard(g, pair.given) /\ IsHeard(h, pair.made)

Over(pair) == Exit \in {pair.given.at, pair.made.at}

(* The run of g goes first. *)
Onward(g, h, pair) ==
  CASE ~IsHeard(g, pair.given) -> [pair EXCEPT !.given = After(g, @)]
    [] IsHeard(g, pair.given) /\ ~IsHeard(h, pair.made) -> [pair EXCEPT !.made = After(h, @)]
    [] OTHER -> [given |-> After(g, pair.given), made |-> After(h, pair.made)]

(* At the end a run shows the variables that outlive the method. *)
Observed(g, p, Kept) ==
  IF p.at = Exit THEN [x \in Kept |-> p.store[x]] ELSE [x \in {"printed"} |-> p.store[g.stmt[p.at].rhs]]

Agree(g, h, pair, Kept) ==
  BothHeard(g, h, pair) =>
    /\ (pair.given.at = Exit) <=> (pair.made.at = Exit)
    /\ Observed(g, pair.given, Kept) = Observed(h, pair.made, Kept)
=============================================================================
