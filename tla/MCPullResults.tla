--------------------------- MODULE MCPullResults ---------------------------
(***************************************************************************)
(* PullResults for three predecessors and two variables.                   *)
(***************************************************************************)
EXTENDS PullResults

MCValues == {"NULL", "1", "'a'", "MAX", "1.5"}
MCTypes == {"unset", "int", "string", "real"}
MCTypeOf == [v \in MCValues |->
  CASE v = "NULL" -> "unset" [] v = "'a'" -> "string" [] v = "1.5" -> "real" [] OTHER -> "int"]
MCTrueValues == MCValues \ {"NULL"}

(* "." concatenates, and "*" may overflow an int into a real. *)
MCOps == {".", "*"}
MCFold == [o \in MCOps |-> [v \in MCValues |->
  IF o = "." THEN "'a'" ELSE IF v \in {"MAX", "1.5"} THEN "1.5" ELSE "1"]]
MCResultTypes == [o \in MCOps |-> [t \in MCTypes |->
  IF o = "." THEN {"string"} ELSE IF t = "real" THEN {"real"} ELSE {"int", "real"}]]

Cells == {Literal("NULL"), Literal("1"), Typed({"int", "string"})}
MCGiven == UNION {[D -> Cells] : D \in SUBSET Vars}

Operator(o) == [op |-> "operator", var |-> "x", rhs |-> "y", operator |-> o]
Common ==
  {[op |-> "literal", var |-> "x", value |-> "1"],
   [op |-> "call", var |-> "x", types |-> {"int"}],
   [op |-> "copy", var |-> "x", rhs |-> "y"],
   [op |-> "unset", var |-> "x"],
   [op |-> "branch", var |-> "x"],
   Operator("."), Operator("*")}
=============================================================================
