----------------------------- MODULE MCPointsTo -----------------------------
(***************************************************************************)
(* PointsTo for three variables.                                           *)
(***************************************************************************)
EXTENDS PointsTo

MCVars == {"a", "b", "c", "UNKNOWN"}
MCValues == {"NULL", "1"}
MCTypes == {"unset", "int"}
MCTypeOf == [v \in MCValues |-> IF v = "NULL" THEN "unset" ELSE "int"]
MCFold == [o \in {} |-> [v \in MCValues |-> v]]
MCResultTypes == [o \in {} |-> [t \in MCTypes |-> {t}]]

Put(S) == [op : {"literal"}, lhs : S, value : {"1"}]
Copies(S, T) == [op : {"copy"}, lhs : S, rhs : T]
Refs(S, T) == [op : {"ref"}, lhs : S, rhs : T]
Unsets(S) == [op : {"unset"}, lhs : S]

(* Statements that name what they write; a copy may read any variable. *)
Named ==
  [defined : {{}}, flow_insensitive : BOOLEAN,
   statements : {Put({"a", "b"}) \cup Copies({"c"}, {"a", "UNKNOWN"}) \cup Refs(Names, {"a", "b"}) \cup Unsets({"a", "b"})}]

(* Writes and references through a name that is not known, where all the   *)
(* variables exist and stay.                                               *)
Indirect ==
  [defined : {Names}, flow_insensitive : BOOLEAN,
   statements : {Put({"a", "UNKNOWN"}) \cup Copies({"b"}, Vars) \cup Refs({"a", "UNKNOWN"}, Names)
     \cup Refs(Names, {"UNKNOWN"})}]

MCPrograms == Named \cup Indirect
=============================================================================
