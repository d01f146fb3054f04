------------------------------- MODULE MCZvals -------------------------------
(***************************************************************************)
(* Zvals for three variables, one of which, "t", is a local that goes at   *)
(* the end of its function.                                                *)
(***************************************************************************)
EXTENDS Zvals

MCEntries == {"x", "y", "t"}
MCValues == {"NULL", "1", "2", "'1'"}
MCOperator == [v \in MCValues |-> [w \in MCValues |-> IF v = "1" /\ w = "1" THEN "2" ELSE "1"]]
MCIncrement == [v \in MCValues |-> IF v = "NULL" THEN "1" ELSE "2"]
MCConvert == [v \in MCValues |-> IF v = "NULL" THEN "NULL" ELSE "'1'"]
MCPool == [v \in {"1"} |-> "pool_1"]

CONSTANTS a1, a2, a3, a4
MCAddresses == {"uninitialized", "pool_1", a1, a2, a3, a4}

MCProgram ==
  [op : {"literal"}, lhs : {"x", "t"}, value : {"1", "2"}]
    \cup [op : {"copy", "ref"}, lhs : MCEntries, rhs : MCEntries]
    \cup [op : {"cast"}, lhs : {"x"}, rhs : {"x", "y"}]
    \cup [op : {"operator"}, lhs : {"x"}, left : {"x", "y"}, right : {"y"}]
    \cup [op : {"increment"}, lhs : {"y", "t"}]
    \cup [op : {"forget"}, entries : {{"x"}, {"y", "t"}}]
=============================================================================
