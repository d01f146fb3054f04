---------------------------- MODULE PHPVariables ----------------------------
(***************************************************************************)
(* What PHP says of the variables of a running program, which the code phc *)
(* generates promises to keep: an assignment changes the variable and      *)
(* those that are references to it, and no other; =& makes a variable a    *)
(* reference to another; unset and the end of a function take variables    *)
(* away and leave the rest as they are.                                    *)
(*                                                                         *)
(* A variable that does not exist reads as NULL.                           *)
(***************************************************************************)
CONSTANTS
  Entries,    \* the variables: entries of the symbol tables, and temporaries
  Values,     \* PHP's scalars, as far as the model tells them apart
  Null,
  Operator,   \* Operator[v][w]: the result of a binary operator
  Increment,  \* Increment[v]: the result of ++
  Convert,    \* Convert[v]: the result of a cast
  Program     \* the statements the program is made of

ValuesOK ==
  /\ Null \in Values
  /\ Operator \in [Values -> [Values -> Values]]
  /\ Increment \in [Values -> Values]
  /\ Convert \in [Values -> Values]

Statement ==
  [op : {"literal"}, lhs : Entries, value : Values]
    \cup [op : {"copy", "ref", "cast"}, lhs : Entries, rhs : Entries]
    \cup [op : {"operator"}, lhs : Entries, left : Entries, right : Entries]
    \cup [op : {"increment"}, lhs : Entries]
    \cup [op : {"forget"}, entries : SUBSET Entries]

ProgramOK == Program \subseteq Statement

VARIABLES
  alias,  \* the pairs of variables that are references to the same value
  val,
  stmt    \* the statement just executed

vars == <<alias, val, stmt>>

Init ==
  /\ alias = {e \in Entries \X Entries : e[1] = e[2]}
  /\ val = [x \in Entries |-> Null]
  /\ stmt = [op |-> "forget", entries |-> Entries]

SetValue(x, v) ==
  /\ val' = [y \in Entries |-> IF <<x, y>> \in alias THEN v ELSE val[y]]
  /\ UNCHANGED alias

MakeReference(x, y) ==
  LET Renamed(p) == IF p = x THEN y ELSE p IN
  /\ alias' = {e \in Entries \X Entries : <<Renamed(e[1]), Renamed(e[2])>> \in alias}
  /\ val' = [p \in Entries |-> val[Renamed(p)]]

Forget(S) ==
  /\ alias' = {e \in Entries \X Entries :
       \/ e[1] = e[2]
       \/ e \in alias /\ {e[1], e[2]} \cap S = {}}
  /\ val' = [p \in Entries |-> IF p \in S THEN Null ELSE val[p]]

Perform(s) ==
  \/ s.op = "literal" /\ SetValue(s.lhs, s.value)
  \/ s.op = "copy" /\ SetValue(s.lhs, val[s.rhs])
  \/ s.op = "cast" /\ SetValue(s.lhs, Convert[val[s.rhs]])
  \/ s.op = "operator" /\ SetValue(s.lhs, Operator[val[s.left]][val[s.right]])
  \/ s.op = "increment" /\ SetValue(s.lhs, Increment[val[s.lhs]])
  \/ s.op = "ref" /\ MakeReference(s.lhs, s.rhs)
  \/ s.op = "forget" /\ Forget(s.entries)

Next == \E s \in Program : stmt' = s /\ Perform(s)

Spec == Init /\ [][Next]_vars
=============================================================================
