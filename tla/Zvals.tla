-------------------------------- MODULE Zvals --------------------------------
(***************************************************************************)
(* The runtime of the code phc generates: symbol tables whose entries      *)
(* point to zvals, counted references, values shared until they are        *)
(* written (copy on write) and values shared for good (is_ref).            *)
(*                                                                         *)
(* A statement of the program is a macro of templates_new.c; it runs to    *)
(* its end without anything else running, so it is one action, composed of *)
(* the macros and functions it calls.                                      *)
(***************************************************************************)
EXTENDS Integers, FiniteSets

CONSTANTS
  Entries, Values, Null, Operator, Increment, Convert, Program,
                     \* as in PHPVariables
  Addresses,         \* the zvals there is memory for
  NoEntry,           \* what a variable without entry points to
  uninitialized_zval,  \* EG(uninitialized_zval)
  pool_name,         \* the zvals of the pooled literals
  Garbage            \* what freed memory holds

ASSUME EntriesAssumption == IsFiniteSet(Entries)

ASSUME AddressAssumption ==
  /\ NoEntry \notin Addresses /\ Garbage \notin Values
  /\ DOMAIN pool_name \subseteq Values
  /\ uninitialized_zval \in Addresses
  /\ \A v \in DOMAIN pool_name :
       /\ pool_name[v] \in Addresses \ {uninitialized_zval}
       /\ \A w \in DOMAIN pool_name : pool_name[v] = pool_name[w] => v = w

VARIABLES
  st,    \* the zval each entry points to
  heap,  \* the zvals
  stmt   \* the statement just executed

vars == <<st, heap, stmt>>

-----------------------------------------------------------------------------
Zval == [refcount : Nat, is_ref : BOOLEAN, value : Values \cup {Garbage}]
NewZval(v) == [refcount |-> 1, is_ref |-> FALSE, value |-> v]
FreeZval == [refcount |-> 0, is_ref |-> FALSE, value |-> Garbage]

(* The interpreter owns a reference to the uninitialized zval, and the     *)
(* generated code one to each pooled literal.                              *)
Owned == {uninitialized_zval} \cup {pool_name[v] : v \in DOMAIN pool_name}
OwnedValue(a) ==
  IF a = uninitialized_zval THEN Null ELSE CHOOSE v \in DOMAIN pool_name : pool_name[v] = a

(* Every zval has a value exactly while something may use it. *)
ZvalsTypeOK ==
  /\ st \in [Entries -> Addresses \cup {NoEntry}]
  /\ heap \in [Addresses -> Zval]
  /\ \A a \in Addresses : heap[a].refcount = 0 <=> heap[a].value = Garbage
  /\ stmt \in Program \cup {[op |-> "forget", entries |-> Entries]}

-----------------------------------------------------------------------------
(* Macros of the Zend engine. *)
AddRef(h, a) ==
  [h EXCEPT ![a] = [refcount |-> h[a].refcount + 1, is_ref |-> h[a].is_ref, value |-> h[a].value]]
SetIsRef(h, a) ==
  [h EXCEPT ![a] = [refcount |-> h[a].refcount, is_ref |-> TRUE, value |-> h[a].value]]
SetZvalValue(h, a, v) ==
  [h EXCEPT ![a] = [refcount |-> h[a].refcount, is_ref |-> h[a].is_ref, value |-> v]]

(* A mutated form of Dropped, refused by ReferencesShared. *)
DroppedKeepsIsRef(z, k) ==
  IF z.refcount = k THEN FreeZval
  ELSE [refcount |-> z.refcount - k, is_ref |-> z.is_ref, value |-> z.value]

(* zval_ptr_dtor, called k times: the zval is freed with its last          *)
(* reference, and one whose references go down to one is no reference.     *)
Dropped(z, k) ==
  IF z.refcount = k THEN FreeZval
  ELSE [refcount |-> z.refcount - k, is_ref |-> z.is_ref /\ z.refcount # k + 1, value |-> z.value]

PtrDtor(h, a) == [h EXCEPT ![a] = Dropped(h[a], 1)]

(* zvp_clone_ex, into fresh memory n. *)
Clone(h, a, n) == [h EXCEPT ![n] = NewZval(h[a].value)]

in_copy_on_write(h, a) == h[a].refcount > 1 /\ ~h[a].is_ref

-----------------------------------------------------------------------------
(* Mutated forms of sep_copy_on_write and ResultZval, and below of         *)
(* AssignZval: each leaves out a step the sharing of zvals makes necessary. *)
SepNothing(m, e, n) == m
SepKeepsCount(m, e, n) ==
  IF in_copy_on_write(m.heap, m.st[e])
    THEN [st |-> [m.st EXCEPT ![e] = n], heap |-> Clone(m.heap, m.st[e], n)]
    ELSE m
ResultInPlace(m, l, n) == m

(* get_st_entry: an entry is made for a variable that has none. *)
get_st_entry(m, e) ==
  IF m.st[e] # NoEntry THEN m
  ELSE [st |-> [m.st EXCEPT ![e] = uninitialized_zval],
        heap |-> AddRef(m.heap, uninitialized_zval)]

(* read_rvalue, read_var: no entry is made. *)
read_var(m, e) == IF m.st[e] # NoEntry THEN m.st[e] ELSE uninitialized_zval

sep_copy_on_write(m, e, n) ==
  IF in_copy_on_write(m.heap, m.st[e])
    THEN [st |-> [m.st EXCEPT ![e] = n],
          heap |-> PtrDtor(Clone(m.heap, m.st[e], n), m.st[e])]
    ELSE m

copy_into_ref(m, l, r) ==
  [st |-> [m.st EXCEPT ![l] = m.st[r]],
   heap |-> PtrDtor(AddRef(SetIsRef(m.heap, m.st[r]), m.st[r]), m.st[l])]

(* write_var and write_var_inner; a reference is overwritten in place. *)
write_var(m, l, a, n) ==
  IF m.heap[m.st[l]].is_ref
    THEN [st |-> m.st, heap |-> SetZvalValue(m.heap, m.st[l], m.heap[a].value)]
  ELSE IF m.heap[a].is_ref
    THEN [st |-> [m.st EXCEPT ![l] = n], heap |-> Clone(PtrDtor(m.heap, m.st[l]), a, n)]
  ELSE [st |-> [m.st EXCEPT ![l] = a], heap |-> AddRef(PtrDtor(m.heap, m.st[l]), a)]

AssignUnchecked(m, l, a, n) == write_var(m, l, a, n)

(* "if ( *p_lhs != rhs)" write_var *)
AssignZval(m, l, a, n) == IF m.st[l] = a THEN m ELSE write_var(m, l, a, n)

(* new_lhs, with the value the macro then puts there. *)
new_lhs(m, l, v, n) ==
  IF m.heap[m.st[l]].is_ref
    THEN [st |-> m.st, heap |-> SetZvalValue(m.heap, m.st[l], v)]
    ELSE [st |-> [m.st EXCEPT ![l] = n],
          heap |-> PtrDtor([m.heap EXCEPT ![n] = NewZval(v)], m.st[l])]

(* The zval a binary or unary operator writes its result to. *)
ResultZval(m, l, n) ==
  IF in_copy_on_write(m.heap, m.st[l])
    THEN [st |-> [m.st EXCEPT ![l] = n],
          heap |-> [PtrDtor(m.heap, m.st[l]) EXCEPT ![n] = NewZval(Null)]]
    ELSE m

-----------------------------------------------------------------------------
(* The statements, with n the memory an allocation gets. *)
assign_expr_literal(m, l, v, n) ==
  LET g == get_st_entry(m, l) IN
  IF v \in DOMAIN pool_name THEN AssignZval(g, l, pool_name[v], n) ELSE new_lhs(g, l, v, n)

assign_expr_var(m, l, r, n) ==
  LET g == get_st_entry(m, l) IN AssignZval(g, l, read_var(g, r), n)

(* get_st_entry for both sides, and then the two of them. *)
assign_expr_ref_var(m, l, r, n) ==
  copy_into_ref(sep_copy_on_write(get_st_entry(get_st_entry(m, l), r), r, n), l, r)

(* A value that is of the type already is left alone.  The assignment and  *)
(* the cast never both allocate.                                           *)
assign_expr_cast(m, l, r, n) ==
  LET a == assign_expr_var(m, l, r, n)
      v == a.heap[a.st[l]].value
      s == sep_copy_on_write(a, l, n)
  IN IF Convert[v] = v THEN a
     ELSE [st |-> s.st, heap |-> SetZvalValue(s.heap, s.st[l], Convert[v])]

assign_expr_bin_op(m, l, x, y, n) ==
  LET g == get_st_entry(m, l)
      left == read_var(g, x)
      right == read_var(g, y)
      res == ResultZval(g, l, n)
  IN [st |-> res.st,
      heap |-> SetZvalValue(res.heap, res.st[l],
                 Operator[res.heap[left].value][res.heap[right].value])]

pre_op(m, l, n) ==
  LET s == sep_copy_on_write(get_st_entry(m, l), l, n)
  IN [st |-> s.st, heap |-> SetZvalValue(s.heap, s.st[l], Increment[s.heap[s.st[l]].value])]

(* unset, and the end of a function for all of its locals: zval_ptr_dtor   *)
(* for each entry that goes.                                               *)
Forgotten(m, S) ==
  [st |-> [e \in Entries |-> IF e \in S THEN NoEntry ELSE m.st[e]],
   heap |-> [a \in Addresses |->
     LET gone == {e \in S : m.st[e] = a}
     IN IF gone = {} THEN m.heap[a] ELSE Dropped(m.heap[a], Cardinality(gone))]]

After(m, s, n) ==
  CASE s.op = "literal" -> assign_expr_literal(m, s.lhs, s.value, n)
    [] s.op = "copy" -> assign_expr_var(m, s.lhs, s.rhs, n)
    [] s.op = "ref" -> assign_expr_ref_var(m, s.lhs, s.rhs, n)
    [] s.op = "cast" -> assign_expr_cast(m, s.lhs, s.rhs, n)
    [] s.op = "operator" -> assign_expr_bin_op(m, s.lhs, s.left, s.right, n)
    [] s.op = "increment" -> pre_op(m, s.lhs, n)
    [] s.op = "forget" -> Forgotten(m, s.entries)

-----------------------------------------------------------------------------
Init ==
  /\ st = [e \in Entries |-> NoEntry]
  /\ heap = [a \in Addresses |-> IF a \in Owned THEN NewZval(OwnedValue(a)) ELSE FreeZval]
  /\ stmt = [op |-> "forget", entries |-> Entries]

Execute(s) ==
  \E n \in Addresses :
    LET m == After([st |-> st, heap |-> heap], s, n) IN
    /\ heap[n] = FreeZval
    /\ st' = m.st
    /\ heap' = m.heap
    /\ stmt' = s

Next == \E s \in Program : Execute(s)

Spec == Init /\ [][Next]_vars

-----------------------------------------------------------------------------
Holders(a) == {e \in Entries : st[e] = a}

(* A zval counts the entries that point to it, so it is freed when the     *)
(* last of them goes and not before.                                       *)
RefcountsExact ==
  \A a \in Addresses :
    heap[a].refcount = Cardinality(Holders(a)) + (IF a \in Owned THEN 1 ELSE 0)

(* phc_check_invariants, for the pooled literals too: what many variables  *)
(* share is never written, and never becomes a reference.                  *)
OwnedIntact ==
  \A a \in Owned :
    /\ heap[a].refcount >= 1
    /\ heap[a].value = OwnedValue(a)
    /\ ~heap[a].is_ref

(* A zval is marked as a reference while at least two entries share it:    *)
(* one that is left alone goes back to copy on write.                      *)
ReferencesShared == \A a \in Addresses : heap[a].is_ref => heap[a].refcount > 1

(* What the zvals mean to PHP: the value of a variable is that of the zval *)
(* it points to, and two variables are references to the same value when   *)
(* they share a zval that is marked so.                                    *)
ValueOf(e) == heap[IF st[e] # NoEntry THEN st[e] ELSE uninitialized_zval].value
Aliases ==
  {e \in Entries \X Entries :
     \/ e[1] = e[2]
     \/ st[e[1]] # NoEntry /\ st[e[1]] = st[e[2]] /\ heap[st[e[1]]].is_ref}

PHP == INSTANCE PHPVariables WITH
         alias <- Aliases, val <- [e \in Entries |-> ValueOf(e)]

ASSUME PHPAssumption == PHP!ValuesOK /\ PHP!ProgramOK

(* Every statement of the generated code does to the variables what PHP    *)
(* says it does, and nothing to the others: sharing is never observed.     *)
KeepsPHPsPromise == PHP!Spec
=============================================================================
