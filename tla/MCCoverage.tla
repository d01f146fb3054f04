----------------------------- MODULE MCCoverage -----------------------------
(***************************************************************************)
(* Coverage for methods of three blocks over one variable, each block with *)
(* a list of its own of statements, with the lattice of Value_analysis     *)
(* read for its literals.                                                  *)
(***************************************************************************)
EXTENDS Coverage, Integers

CONSTANTS NoLit, SlotStatements(_)

Vars == {"x"}
MCValues == {"NULL", "0", "1", "'a'"}
MCTypes == {"unset", "int", "string"}
MCTypeOf == [v \in MCValues |->
  IF v = "NULL" THEN "unset" ELSE IF v = "'a'" THEN "string" ELSE "int"]
MCOps == {"."}
MCFold == [o \in MCOps |-> [v \in MCValues |-> "'a'"]]
MCResultTypes == [o \in MCOps |-> [t \in MCTypes |-> {"string"}]]

L == INSTANCE ValueLattice WITH
       Values <- MCValues, Null <- "NULL", Types <- MCTypes, TypeOf <- MCTypeOf,
       TrueValues <- {"1", "'a'"}, Ops <- MCOps, Fold <- MCFold,
       ResultTypes <- MCResultTypes

-----------------------------------------------------------------------------
Put(v) == [op |-> "literal", var |-> "x", value |-> v]
CallInt == [op |-> "call", var |-> "x", types |-> {"int"}]
Concat == [op |-> "operator", var |-> "x", rhs |-> "x", operator |-> "."]
Unset == [op |-> "unset", var |-> "x"]
Test == [op |-> "branch", var |-> "x"]
Die == [op |-> "die"]
Skip == [op |-> "skip"]

(* The statements of each slot. *)
AllStatements(i) ==
  CASE i = 1 -> {Put("1"), CallInt}
    [] i = 2 -> {Put("0"), Die, Test}
    [] i = 3 -> {Unset, Concat, Test}

Slots == 1..3
MCEntry == [id |-> 0, stmt |-> Skip]
MCExit == [id |-> 4, stmt |-> Skip]
Filled == UNION {[id : {i}, stmt : SlotStatements(i)] : i \in Slots}
MCBlocks == Filled \cup {MCEntry, MCExit}
MCBranches == {b \in Filled : b.stmt = Test}
MCDies == {b \in Filled : b.stmt = Die}

(* A method: a statement for each slot, and where each goes next. *)
Out(b, onTrue, onFalse) ==
  IF b \in MCBranches
    THEN {[source |-> b, target |-> onTrue, direction |-> "true"],
          [source |-> b, target |-> onFalse, direction |-> "false"]}
    ELSE {[source |-> b, target |-> onTrue, direction |-> "none"]}

Methods ==
  {Out(MCEntry, b1, MCExit)
     \cup Out(b1, t1, f1) \cup Out(b2, t2, f2) \cup Out(b3, t3, f3) :
   <<b1, b2, b3, t1, f1, t2, f2, t3, f3>> \in
     UNION {{m[1]} \X {m[2]} \X {m[3]} \X
              {m[1], m[2], m[3], MCExit} \X
              (IF m[1].stmt = Test THEN {m[2], m[3], MCExit} ELSE {MCExit}) \X
              {m[1], m[2], m[3], MCExit} \X
              (IF m[2].stmt = Test THEN {m[1], m[3], MCExit} ELSE {MCExit}) \X
              {m[1], m[2], m[3], MCExit} \X
              (IF m[3].stmt = Test THEN {m[1], m[2], MCExit} ELSE {MCExit}) :
            m \in [id : {1}, stmt : SlotStatements(1)] \X [id : {2}, stmt : SlotStatements(2)]
                    \X [id : {3}, stmt : SlotStatements(3)]}}

(* Methods with a path to the exit block: without one there is no reverse  *)
(* dominance, and the analysis gives up with an exception.                 *)
Reached(g) ==
  LET reached[n \in 0..4] ==
        IF n = 0 THEN {MCEntry}
        ELSE reached[n - 1] \cup {e.target : e \in {f \in g : f.source \in reached[n - 1]}}
  IN reached[4]
MCCFGs == {g \in Methods : MCExit \in Reached(g)}

-----------------------------------------------------------------------------
MCSolutions == L!Solution
MCMeetAll(S) == L!MeetSolutions(S)
MCTransfer(b, s) == L!Interpret(b.stmt, s)
MCSame(s, t) == L!SameSolution(s, t)
MCKnownTrue(b, s) == L!known_true(L!Read(s, b.stmt.var))
MCKnownFalse(b, s) == L!known_false(L!Read(s, b.stmt.var))

(* A parameter that may be anything, or a method without parameters. *)
MCEntrySolutions == {[x \in {} |-> 0], [x \in {"x"} |-> L!Typed(MCTypes)]}

MCStores == L!Store
MCExec(b, m) == L!Execute(b.stmt, m)
MCIsTrue(b, m) == m[b.stmt.var] \in {"1", "'a'"}
MCGamma(s) == L!LiteralGamma(s)
=============================================================================
