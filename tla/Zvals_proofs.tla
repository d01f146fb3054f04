---------------------------- MODULE Zvals_proofs ----------------------------
(***************************************************************************)
(* Proofs about Zvals, for any number of variables, values and statements: *)
(* reference counts are exact, nothing shared is written, and the          *)
(* generated code implements PHPVariables.                                 *)
(***************************************************************************)
EXTENDS Zvals, FiniteSetTheorems, TLAPS

Holding(s, a) == {e \in Entries : s[e] = a}
Cnt(s, a) == Cardinality(Holding(s, a))
Own(a) == IF a \in Owned THEN 1 ELSE 0

(* The inductive invariant, of a machine between two calls. *)
Good(m) ==
  /\ m.st \in [Entries -> Addresses \cup {NoEntry}]
  /\ m.heap \in [Addresses -> Zval]
  /\ \A a \in Addresses :
       /\ m.heap[a].refcount = 0 <=> m.heap[a].value = Garbage
       /\ m.heap[a].refcount = Cnt(m.st, a) + Own(a)
       /\ m.heap[a].is_ref => m.heap[a].refcount > 1
       /\ a \in Owned => m.heap[a].value = OwnedValue(a) /\ ~m.heap[a].is_ref

(* What a machine means to PHP. *)
Val(m, e) == m.heap[read_var(m, e)].value
Aliased(m, x, y) ==
  \/ x = y
  \/ m.st[x] # NoEntry /\ m.st[x] = m.st[y] /\ m.heap[m.st[x]].is_ref

(* m2 means the same as m. *)
Agrees(m, m2) ==
  /\ \A x, y \in Entries : Aliased(m2, x, y) <=> Aliased(m, x, y)
  /\ \A y \in Entries : Val(m2, y) = Val(m, y)

(* m2 is m after l and its references were given the value v. *)
Assigns(m, m2, l, v) ==
  /\ \A x, y \in Entries : Aliased(m2, x, y) <=> Aliased(m, x, y)
  /\ \A y \in Entries : Val(m2, y) = IF Aliased(m, l, y) THEN v ELSE Val(m, y)

(* m2 is m after l became a reference to r, or after those of S went. *)
Renamed(l, r, p) == IF p = l THEN r ELSE p
Refers(m, m2, l, r) ==
  /\ \A x, y \in Entries : Aliased(m2, x, y) <=> Aliased(m, Renamed(l, r, x), Renamed(l, r, y))
  /\ \A y \in Entries : Val(m2, y) = Val(m, Renamed(l, r, y))
Forgets(m, m2, S) ==
  /\ \A x, y \in Entries :
       Aliased(m2, x, y) <=> (x = y \/ (Aliased(m, x, y) /\ x \notin S /\ y \notin S))
  /\ \A y \in Entries : Val(m2, y) = IF y \in S THEN Null ELSE Val(m, y)

-----------------------------------------------------------------------------
(* Counting holders. *)

LEMMA HoldingFinite ==
  ASSUME NEW s, NEW a
  PROVE  IsFiniteSet(Holding(s, a)) /\ Cnt(s, a) \in Nat
BY EntriesAssumption, FS_Subset, FS_CardinalityType DEF Holding, Cnt

LEMMA CntOne ==
  ASSUME NEW s, NEW a, NEW x \in Entries, s[x] = a
  PROVE  Cnt(s, a) \in Nat /\ Cnt(s, a) >= 1
<1>1. x \in Holding(s, a)
  BY DEF Holding
<1>2. Cnt(s, a) # 0
  BY <1>1, HoldingFinite, FS_EmptySet DEF Cnt
<1> QED  BY <1>2, HoldingFinite

LEMMA CntTwo ==
  ASSUME NEW s, NEW a, NEW x \in Entries, NEW y \in Entries, x # y, s[x] = a, s[y] = a
  PROVE  Cnt(s, a) \in Nat /\ Cnt(s, a) >= 2
<1>1. {x, y} \subseteq Holding(s, a)
  BY DEF Holding
<1>2. Cardinality({x}) = 1 /\ IsFiniteSet({x})
  BY FS_Singleton
<1>3. {x, y} = {x} \cup {y}
  OBVIOUS
<1>4. Cardinality({x, y}) = 2
  BY <1>2, <1>3, FS_AddElement
<1> QED  BY <1>1, <1>4, HoldingFinite, FS_Subset DEF Cnt

LEMMA CntThree ==
  ASSUME NEW s, NEW a, NEW x \in Entries, NEW y \in Entries, NEW z \in Entries,
         x # y, x # z, y # z, s[x] = a, s[y] = a, s[z] = a
  PROVE  Cnt(s, a) \in Nat /\ Cnt(s, a) >= 3
<1>1. {x, y, z} \subseteq Holding(s, a)
  BY DEF Holding
<1>2. Cardinality({x}) = 1 /\ IsFiniteSet({x})
  BY FS_Singleton
<1>3. {x, y} = {x} \cup {y} /\ {x, y, z} = {x, y} \cup {z}
  OBVIOUS
<1>4. Cardinality({x, y}) = 2 /\ IsFiniteSet({x, y})
  BY <1>2, <1>3, FS_AddElement
<1>5. Cardinality({x, y, z}) = 3
  BY <1>3, <1>4, FS_AddElement
<1> QED  BY <1>1, <1>5, HoldingFinite, FS_Subset DEF Cnt

(* An entry that lets go of one zval and takes another. *)
LEMMA CntMove ==
  ASSUME NEW s \in [Entries -> Addresses \cup {NoEntry}], NEW l \in Entries,
         NEW b \in Addresses \cup {NoEntry}, NEW a \in Addresses
  PROVE  Cnt([s EXCEPT ![l] = b], a) =
           Cnt(s, a) + (IF b = a THEN 1 ELSE 0) - (IF s[l] = a THEN 1 ELSE 0)
<1> DEFINE t == [s EXCEPT ![l] = b]
<1>1. IsFiniteSet(Holding(s, a)) /\ Cnt(s, a) \in Nat
  BY HoldingFinite
<1>2. CASE b = a /\ s[l] = a
  <2>1. Holding(t, a) = Holding(s, a)
    BY <1>2 DEF Holding
  <2>2. Cnt(t, a) = Cnt(s, a)
    BY <2>1 DEF Cnt
  <2> QED  BY <1>1, <1>2, <2>2
<1>3. CASE b = a /\ s[l] # a
  <2>1. Holding(t, a) = Holding(s, a) \cup {l} /\ l \notin Holding(s, a)
    BY <1>3 DEF Holding
  <2>2. Cardinality(Holding(s, a) \cup {l}) = Cardinality(Holding(s, a)) + 1
    BY <1>1, <2>1, FS_AddElement
  <2>3. Cnt(t, a) = Cnt(s, a) + 1
    BY <2>1, <2>2 DEF Cnt
  <2> HIDE DEF t
  <2> QED  BY <1>1, <1>3, <2>3 DEF t
<1>4. CASE b # a /\ s[l] = a
  <2>1. Holding(t, a) = Holding(s, a) \ {l} /\ l \in Holding(s, a)
    BY <1>4 DEF Holding
  <2>2. Cardinality(Holding(s, a) \ {l}) = Cardinality(Holding(s, a)) - 1
    BY <1>1, <2>1, FS_RemoveElement
  <2>3. Cnt(t, a) = Cnt(s, a) - 1
    BY <2>1, <2>2 DEF Cnt
  <2> QED  BY <1>1, <1>4, <2>3
<1>5. CASE b # a /\ s[l] # a
  <2>1. Holding(t, a) = Holding(s, a)
    BY <1>5 DEF Holding
  <2>2. Cnt(t, a) = Cnt(s, a)
    BY <2>1 DEF Cnt
  <2> QED  BY <1>1, <1>5, <2>2
<1> QED  BY <1>2, <1>3, <1>4, <1>5
-----------------------------------------------------------------------------
(* Facts about a good machine. *)

LEMMA OwnedFacts ==
  /\ Owned \subseteq Addresses /\ uninitialized_zval \in Owned
  /\ OwnedValue(uninitialized_zval) = Null
  /\ \A a \in Owned : OwnedValue(a) \in Values
  /\ \A v \in DOMAIN pool_name : pool_name[v] \in Owned /\ OwnedValue(pool_name[v]) = v
<1>1. Null \in Values
  BY PHPAssumption DEF PHP!ValuesOK
<1>2. \A v \in DOMAIN pool_name : OwnedValue(pool_name[v]) = v
  BY AddressAssumption DEF OwnedValue
<1> QED  BY <1>1, <1>2, AddressAssumption DEF Owned, OwnedValue

(* What an entry points to is in use. *)
LEMMA Live ==
  ASSUME NEW m, Good(m), NEW e \in Entries, m.st[e] # NoEntry
  PROVE  /\ m.st[e] \in Addresses
         /\ m.heap[m.st[e]] \in Zval
         /\ m.heap[m.st[e]].refcount >= 1
         /\ m.heap[m.st[e]].value \in Values
         /\ m.st[e] \in Owned => m.heap[m.st[e]].refcount >= 2
<1> DEFINE a == m.st[e]
<1>1. a \in Addresses /\ m.heap[a] \in Zval
  BY DEF Good
<1>2. Cnt(m.st, a) \in Nat /\ Cnt(m.st, a) >= 1
  BY CntOne
<1>3. m.heap[a].refcount = Cnt(m.st, a) + Own(a)
  BY <1>1 DEF Good
<1>4. m.heap[a].refcount >= 1 /\ (a \in Owned => m.heap[a].refcount >= 2)
  BY <1>2, <1>3 DEF Own
<1>5. m.heap[a].value # Garbage
  BY <1>1, <1>4 DEF Good
<1> QED  BY <1>1, <1>4, <1>5 DEF Zval

LEMMA OwnedLive ==
  ASSUME NEW m, Good(m), NEW a \in Owned
  PROVE  /\ a \in Addresses /\ m.heap[a] \in Zval
         /\ m.heap[a].refcount >= 1 /\ ~m.heap[a].is_ref
         /\ m.heap[a].value = OwnedValue(a) /\ m.heap[a].value \in Values
<1>1. a \in Addresses
  BY OwnedFacts
<1>2. Cnt(m.st, a) \in Nat
  BY HoldingFinite
<1> QED  BY <1>1, <1>2, OwnedFacts DEF Good, Own

LEMMA ReadLive ==
  ASSUME NEW m, Good(m), NEW e \in Entries
  PROVE  /\ read_var(m, e) \in Addresses
         /\ m.heap[read_var(m, e)] \in Zval
         /\ m.heap[read_var(m, e)].refcount >= 1
         /\ Val(m, e) \in Values
BY Live, OwnedLive, OwnedFacts DEF read_var, Val

(* A zval that is not a reference is held by one entry, or is shared. *)
LEMMA Alone ==
  ASSUME NEW m, Good(m), NEW e \in Entries, m.st[e] # NoEntry,
         ~in_copy_on_write(m.heap, m.st[e])
  PROVE  /\ m.st[e] \notin Owned
         /\ ~m.heap[m.st[e]].is_ref => \A x \in Entries : m.st[x] = m.st[e] => x = e
<1> DEFINE a == m.st[e]
<1>1. a \in Addresses /\ m.heap[a] \in Zval
  BY DEF Good
<1>2. a \notin Owned
  BY <1>1, Live DEF Good, in_copy_on_write, Zval
<1>3. ASSUME NEW x \in Entries, m.st[x] = a, x # e, ~m.heap[a].is_ref
      PROVE  FALSE
  <2>1. Cnt(m.st, a) \in Nat /\ Cnt(m.st, a) >= 2
    BY <1>3, CntTwo
  <2>2. m.heap[a].refcount = Cnt(m.st, a)
    BY <1>1, <1>2, <2>1 DEF Good, Own
  <2> QED  BY <1>3, <2>1, <2>2 DEF in_copy_on_write
<1> QED  BY <1>2, <1>3

LEMMA AliasedAgree ==
  ASSUME NEW m, NEW x, NEW y, Aliased(m, x, y)
  PROVE  Val(m, x) = Val(m, y) /\ Aliased(m, y, x)
BY DEF Aliased, Val, read_var

-----------------------------------------------------------------------------
(* The two ways to change what one variable is. *)

(* A zval that is not shared by copies is written in place. *)
LEMMA WriteInPlace ==
  ASSUME NEW m, Good(m), NEW l \in Entries, m.st[l] # NoEntry,
         ~in_copy_on_write(m.heap, m.st[l]), NEW v \in Values, NEW m2,
         m2 = [st |-> m.st, heap |-> SetZvalValue(m.heap, m.st[l], v)]
  PROVE  Good(m2) /\ Assigns(m, m2, l, v)
<1> DEFINE a == m.st[l]
<1>1. /\ a \in Addresses \ Owned /\ m.heap[a] \in Zval /\ m.heap[a].refcount >= 1
      /\ ~m.heap[a].is_ref => \A x \in Entries : m.st[x] = a => x = l
  BY Live, Alone
<1>2. m2.st = m.st
  OBVIOUS
<1>3. /\ m2.heap[a] = [refcount |-> m.heap[a].refcount, is_ref |-> m.heap[a].is_ref, value |-> v]
      /\ \A c \in Addresses \ {a} : m2.heap[c] = m.heap[c]
      /\ m2.heap \in [Addresses -> Zval]
  BY <1>1 DEF SetZvalValue, Good, Zval
<1>4. Good(m2)
  <2>1. v # Garbage
    BY AddressAssumption
  <2>2. ASSUME NEW c \in Addresses
        PROVE  /\ m2.heap[c].refcount = 0 <=> m2.heap[c].value = Garbage
               /\ m2.heap[c].refcount = m.heap[c].refcount
               /\ m2.heap[c].is_ref = m.heap[c].is_ref
               /\ c \in Owned => m2.heap[c].value = m.heap[c].value
    <3>1. CASE c = a
      BY <1>1, <1>3, <2>1, <3>1 DEF Zval
    <3>2. CASE c # a
      BY <1>3, <3>2 DEF Good
    <3> QED  BY <3>1, <3>2
  <2> HIDE DEF a
  <2> QED  BY <1>2, <1>3, <2>2 DEF Good
<1>5. ASSUME NEW x \in Entries, NEW y \in Entries
      PROVE  Aliased(m2, x, y) <=> Aliased(m, x, y)
  <2>1. m.st[x] # NoEntry => m2.heap[m.st[x]].is_ref = m.heap[m.st[x]].is_ref
    BY <1>1, <1>3 DEF Good
  <2> QED  BY <1>2, <2>1 DEF Aliased
<1>6. ASSUME NEW y \in Entries
      PROVE  Val(m2, y) = IF Aliased(m, l, y) THEN v ELSE Val(m, y)
  <2> DEFINE c == read_var(m, y)
  <2>1. read_var(m2, y) = c /\ c \in Addresses
    BY <1>2, ReadLive DEF read_var
  <2>2. c = a <=> Aliased(m, l, y)
    BY <1>1, OwnedFacts DEF read_var, Aliased
  <2> HIDE DEF c
  <2> QED  BY <1>3, <2>1, <2>2 DEF Val, c
<1> QED  BY <1>4, <1>5, <1>6 DEF Assigns

(* A variable lets go of the zval it shares by copy and takes another: new *)
(* memory, or a zval to share.                                             *)
LEMMA Detach ==
  ASSUME NEW m, Good(m), NEW l \in Entries, m.st[l] # NoEntry,
         ~m.heap[m.st[l]].is_ref, NEW v \in Values,
         NEW b \in Addresses, b # m.st[l],
         \/ m.heap[b] = FreeZval
         \/ m.heap[b].value = v /\ ~m.heap[b].is_ref,
         NEW m2, m2.st = [m.st EXCEPT ![l] = b],
         m2.heap \in [Addresses -> Zval],
         m2.heap[b] = [refcount |-> m.heap[b].refcount + 1, is_ref |-> FALSE, value |-> v],
         m2.heap[m.st[l]] = Dropped(m.heap[m.st[l]], 1),
         \A c \in Addresses \ {b, m.st[l]} : m2.heap[c] = m.heap[c]
  PROVE  Good(m2) /\ Assigns(m, m2, l, v)
<1> DEFINE o == m.st[l]
<1>1. /\ o \in Addresses /\ m.heap[o] \in Zval /\ m.heap[o].refcount >= 1
      /\ m.heap[o].value \in Values /\ (o \in Owned => m.heap[o].refcount >= 2)
      /\ v # Garbage
  BY Live, AddressAssumption
<1>2. /\ m.heap[b] \in Zval /\ ~m.heap[b].is_ref
      /\ m.heap[b].refcount # 0 => m.heap[b].value = v
  BY DEF Good, FreeZval
<1>3. /\ m2.heap[o].refcount = m.heap[o].refcount - 1 /\ ~m2.heap[o].is_ref
      /\ m.heap[o].refcount = 1 => m2.heap[o].value = Garbage
      /\ m.heap[o].refcount >= 2 => m2.heap[o].value = m.heap[o].value
  BY <1>1 DEF Dropped, FreeZval, Zval
<1>4. m.st \in [Entries -> Addresses \cup {NoEntry}] /\ m2.st \in [Entries -> Addresses \cup {NoEntry}]
  BY DEF Good
<1>5. ASSUME NEW c \in Addresses
      PROVE  Cnt(m2.st, c) = Cnt(m.st, c) + (IF b = c THEN 1 ELSE 0) - (IF o = c THEN 1 ELSE 0)
  BY <1>4, CntMove
<1>6. Good(m2)
  <2>1. ASSUME NEW c \in Addresses
        PROVE  /\ m2.heap[c].refcount = 0 <=> m2.heap[c].value = Garbage
               /\ m2.heap[c].refcount = Cnt(m2.st, c) + Own(c)
               /\ m2.heap[c].is_ref => m2.heap[c].refcount > 1
               /\ c \in Owned => m2.heap[c].value = OwnedValue(c) /\ ~m2.heap[c].is_ref
    <3>1. /\ m.heap[c].refcount = 0 <=> m.heap[c].value = Garbage
          /\ m.heap[c].refcount = Cnt(m.st, c) + Own(c)
          /\ m.heap[c].is_ref => m.heap[c].refcount > 1
          /\ c \in Owned => m.heap[c].value = OwnedValue(c) /\ ~m.heap[c].is_ref
      BY DEF Good
    <3>2. Cnt(m.st, c) \in Nat /\ Own(c) \in {0, 1} /\ (c \in Owned => Own(c) = 1)
      BY HoldingFinite DEF Own
    <3>3. CASE c = b
      <4>1. c \in Owned => m.heap[c].refcount # 0
        BY <3>1, <3>2
      <4>2. Cnt(m2.st, c) = Cnt(m.st, c) + 1
        BY <1>5, <3>2, <3>3
      <4> QED  BY <1>1, <1>2, <3>1, <3>2, <3>3, <4>1, <4>2 DEF Zval
    <3>4. CASE c = o
      <4>2. Cnt(m2.st, c) = Cnt(m.st, c) - 1
        BY <1>5, <3>2, <3>4
      <4>3. m.heap[c].refcount \in Nat /\ m.heap[c].value # Garbage
        BY <1>1, <3>4, AddressAssumption DEF Zval
      <4>4. /\ m2.heap[c].refcount = m.heap[c].refcount - 1 /\ ~m2.heap[c].is_ref
            /\ m.heap[c].refcount = 1 => m2.heap[c].value = Garbage
            /\ m.heap[c].refcount >= 2 => m2.heap[c].value = m.heap[c].value
            /\ m.heap[c].refcount >= 1 /\ (c \in Owned => m.heap[c].refcount >= 2)
        BY <1>1, <1>3, <3>4
      <4> HIDE DEF o
      <4>5. m2.heap[c].refcount = 0 <=> m2.heap[c].value = Garbage
        BY <4>3, <4>4
      <4>6. m2.heap[c].refcount = Cnt(m2.st, c) + Own(c)
        BY <3>1, <3>2, <4>2, <4>3, <4>4
      <4> QED  BY <3>1, <4>4, <4>5, <4>6
    <3>5. CASE c # b /\ c # o
      <4>1. m2.heap[c] = m.heap[c]
        BY <3>5
      <4>2. Cnt(m2.st, c) = Cnt(m.st, c)
        BY <1>5, <3>2, <3>5
      <4> QED  BY <3>1, <4>1, <4>2
    <3> QED  BY <3>3, <3>4, <3>5
  <2> QED  BY <1>4, <2>1 DEF Good
<1>7. m2.st[l] = b /\ \A x \in Entries \ {l} : m2.st[x] = m.st[x]
  BY <1>4
<1>8. ASSUME NEW x \in Entries, NEW y \in Entries
      PROVE  Aliased(m2, x, y) <=> Aliased(m, x, y)
  <2>1. \A c \in Addresses : m2.heap[c].is_ref <=> m.heap[c].is_ref
    BY <1>2, <1>3
  <2>2. CASE x = l \/ y = l
    BY <1>2, <1>7, <2>1, <2>2 DEF Aliased
  <2>3. CASE x # l /\ y # l
    BY <1>4, <1>7, <2>1, <2>3 DEF Aliased
  <2> QED  BY <2>2, <2>3
<1>9. ASSUME NEW y \in Entries
      PROVE  Val(m2, y) = IF Aliased(m, l, y) THEN v ELSE Val(m, y)
  <2>1. CASE y = l
    <3>1. read_var(m2, y) = b
      BY <1>7, <2>1, AddressAssumption DEF read_var
    <3> QED  BY <2>1, <3>1 DEF Val, Aliased
  <2>2. CASE y # l
    <3> DEFINE c == read_var(m, y)
    <3>1. ~Aliased(m, l, y)
      BY <2>2 DEF Aliased
    <3>2. read_var(m2, y) = c /\ c \in Addresses /\ m.heap[c] \in Zval /\ m.heap[c].refcount >= 1
      BY <1>7, <2>2, ReadLive DEF read_var
    <3>3. CASE c = b
      <4>1. m.heap[b].value = v
        BY <1>2, <3>2, <3>3
      <4> QED  BY <3>1, <3>2, <3>3, <4>1 DEF Val
    <3>4. CASE c = o
      <4>1. CASE c \in Owned
        BY <1>1, <1>3, <3>1, <3>2, <3>4, <4>1 DEF Val
      <4>2. CASE c \notin Owned
        <5>1. m.st[y] = o
          BY <3>4, <4>2, OwnedFacts DEF read_var
        <5>2. Cnt(m.st, o) \in Nat /\ Cnt(m.st, o) >= 2
          BY <2>2, <5>1, CntTwo
        <5>3. m.heap[o].refcount >= 2
          BY <1>1, <3>4, <4>2, <5>2 DEF Good, Own
        <5> QED  BY <1>3, <3>1, <3>2, <3>4, <5>3 DEF Val
      <4> QED  BY <4>1, <4>2
    <3>5. CASE c # b /\ c # o
      <4>1. m2.heap[c] = m.heap[c]
        BY <3>2, <3>5
      <4> QED  BY <3>1, <3>2, <4>1 DEF Val
    <3> QED  BY <3>3, <3>4, <3>5
  <2> QED  BY <2>1, <2>2
<1> QED  BY <1>6, <1>8, <1>9 DEF Assigns

-----------------------------------------------------------------------------
(* The functions of zval.c and the macros the statements share. *)

LEMMA PtrDtorType ==
  ASSUME NEW h \in [Addresses -> Zval], NEW a \in Addresses, h[a].refcount >= 1
  PROVE  PtrDtor(h, a) \in [Addresses -> Zval]
<1>1. h[a] \in Zval
  OBVIOUS
<1>2. Dropped(h[a], 1) \in Zval
  BY <1>1 DEF Dropped, FreeZval, Zval
<1> QED  BY <1>2 DEF PtrDtor

(* Free memory is nobody's. *)
LEMMA FreeFacts ==
  ASSUME NEW m, Good(m), NEW n \in Addresses, m.heap[n] = FreeZval
  PROVE  /\ n \notin Owned /\ n # uninitialized_zval
         /\ \A e \in Entries : m.st[e] # n /\ read_var(m, e) # n
<1>1. m.heap[n].refcount = 0
  BY DEF FreeZval
<1>2. n \notin Owned
  BY <1>1, OwnedLive
<1>3. ASSUME NEW e \in Entries
      PROVE  m.st[e] # n /\ read_var(m, e) # n
  <2>1. read_var(m, e) # n
    BY <1>1, ReadLive
  <2>2. n # NoEntry
    BY AddressAssumption
  <2> QED  BY <2>1, <2>2 DEF read_var
<1> QED  BY <1>2, <1>3, OwnedFacts

LEMMA GetEntry ==
  ASSUME NEW m, Good(m), NEW e \in Entries
  PROVE  LET g == get_st_entry(m, e) IN
         /\ Good(g) /\ Agrees(m, g) /\ g.st[e] # NoEntry
         /\ \A x \in Entries : m.st[x] # NoEntry => g.st[x] = m.st[x]
         /\ \A n \in Addresses : m.heap[n] = FreeZval => g.heap[n] = FreeZval
<1> DEFINE g == get_st_entry(m, e)
           u == uninitialized_zval
<1>1. CASE m.st[e] # NoEntry
  BY <1>1 DEF get_st_entry, Agrees
<1>2. CASE m.st[e] = NoEntry
  <2>1. g.st = [m.st EXCEPT ![e] = u] /\ g.heap = AddRef(m.heap, u)
    BY <1>2 DEF get_st_entry
  <2>2. /\ u \in Addresses /\ m.heap[u] \in Zval /\ u \in Owned /\ m.heap[u].refcount >= 1
        /\ ~m.heap[u].is_ref /\ m.heap[u].value # Garbage /\ u # NoEntry
    BY OwnedFacts, OwnedLive, AddressAssumption
  <2>3. m.st \in [Entries -> Addresses \cup {NoEntry}] /\ m.heap \in [Addresses -> Zval]
    BY DEF Good
  <2>4. /\ g.st \in [Entries -> Addresses \cup {NoEntry}]
        /\ g.st[e] = u /\ \A x \in Entries \ {e} : g.st[x] = m.st[x]
    BY <2>1, <2>2, <2>3
  <2>5. /\ g.heap[u].refcount = m.heap[u].refcount + 1
        /\ g.heap[u].is_ref = m.heap[u].is_ref /\ g.heap[u].value = m.heap[u].value
        /\ \A c \in Addresses \ {u} : g.heap[c] = m.heap[c]
        /\ g.heap \in [Addresses -> Zval]
    BY <2>1, <2>2, <2>3 DEF AddRef, Zval
  <2> HIDE DEF u
  <2>6. Good(g)
    <3>1. ASSUME NEW c \in Addresses
          PROVE  /\ g.heap[c].refcount = 0 <=> g.heap[c].value = Garbage
                 /\ g.heap[c].refcount = Cnt(g.st, c) + Own(c)
                 /\ g.heap[c].is_ref => g.heap[c].refcount > 1
                 /\ c \in Owned => g.heap[c].value = OwnedValue(c) /\ ~g.heap[c].is_ref
      <4>1. /\ m.heap[c].refcount = 0 <=> m.heap[c].value = Garbage
            /\ m.heap[c].refcount = Cnt(m.st, c) + Own(c)
            /\ m.heap[c].is_ref => m.heap[c].refcount > 1
            /\ c \in Owned => m.heap[c].value = OwnedValue(c) /\ ~m.heap[c].is_ref
        BY DEF Good
      <4>2. Cnt(m.st, c) \in Nat /\ Own(c) \in {0, 1}
        BY HoldingFinite DEF Own
      <4>3. Cnt(g.st, c) = Cnt(m.st, c) + (IF u = c THEN 1 ELSE 0)
        <5>1. Cnt(g.st, c) = Cnt(m.st, c) + (IF u = c THEN 1 ELSE 0) - (IF NoEntry = c THEN 1 ELSE 0)
          BY <1>2, <2>1, <2>2, <2>3, CntMove
        <5>2. NoEntry # c
          BY AddressAssumption
        <5> QED  BY <4>2, <5>1, <5>2
      <4>4. CASE c = u
        BY <2>2, <2>5, <4>1, <4>2, <4>3, <4>4
      <4>5. CASE c # u
        <5>1. g.heap[c] = m.heap[c] /\ Cnt(g.st, c) = Cnt(m.st, c)
          BY <2>5, <4>2, <4>3, <4>5
        <5> QED  BY <4>1, <5>1
      <4> QED  BY <4>4, <4>5
    <3> QED  BY <2>4, <2>5, <3>1 DEF Good
  <2>7. \A c \in Addresses : g.heap[c].is_ref = m.heap[c].is_ref /\ g.heap[c].value = m.heap[c].value
    BY <2>5
  <2>8. ASSUME NEW x \in Entries, NEW y \in Entries
        PROVE  Aliased(g, x, y) <=> Aliased(m, x, y)
    <3>1. CASE x = e \/ y = e
      BY <1>2, <2>2, <2>4, <2>7, <3>1 DEF Aliased
    <3>2. CASE x # e /\ y # e
      BY <2>3, <2>4, <2>7, <3>2 DEF Aliased
    <3> QED  BY <3>1, <3>2
  <2>9. ASSUME NEW y \in Entries
        PROVE  Val(g, y) = Val(m, y)
    <3>1. read_var(g, y) = read_var(m, y) /\ read_var(m, y) \in Addresses
      BY <1>2, <2>2, <2>4, ReadLive DEF read_var, u
    <3> QED  BY <2>7, <3>1 DEF Val
  <2>10. ASSUME NEW n \in Addresses, m.heap[n] = FreeZval
         PROVE  g.heap[n] = FreeZval
    BY <2>5, <2>10, FreeFacts DEF u
  <2>11. \A x \in Entries : m.st[x] # NoEntry => g.st[x] = m.st[x]
    BY <1>2, <2>4
  <2> HIDE DEF g
  <2> QED  BY <2>2, <2>4, <2>6, <2>8, <2>9, <2>10, <2>11 DEF Agrees, g
<1> QED  BY <1>1, <1>2

(* What is as before and then assigned is assigned; what is assigned twice *)
(* is what it was assigned last.                                           *)
LEMMA AgreesThen ==
  ASSUME NEW m, NEW g, NEW m2, NEW l \in Entries, NEW v, Agrees(m, g), Assigns(g, m2, l, v)
  PROVE  Assigns(m, m2, l, v)
BY DEF Agrees, Assigns

LEMMA ThenAgrees ==
  ASSUME NEW m, NEW g, NEW m2, NEW l \in Entries, NEW v, Assigns(m, g, l, v), Agrees(g, m2)
  PROVE  Assigns(m, m2, l, v)
BY DEF Agrees, Assigns

LEMMA AssignsTwice ==
  ASSUME NEW m, NEW g, NEW m2, NEW l \in Entries, NEW v, NEW w,
         Assigns(m, g, l, v), Assigns(g, m2, l, w)
  PROVE  Assigns(m, m2, l, w)
BY DEF Assigns

LEMMA AssignsOwn ==
  ASSUME NEW m, NEW m2, NEW l \in Entries, Assigns(m, m2, l, Val(m, l))
  PROVE  Agrees(m, m2)
BY AliasedAgree DEF Agrees, Assigns

LEMMA AssignsNothing ==
  ASSUME NEW m, NEW l \in Entries
  PROVE  Assigns(m, m, l, Val(m, l))
BY AliasedAgree DEF Assigns

(* Memory for a copy is needed only when there is something to separate. *)
LEMMA Sep ==
  ASSUME NEW m, Good(m), NEW e \in Entries, m.st[e] # NoEntry, NEW n \in Addresses,
         in_copy_on_write(m.heap, m.st[e]) => m.heap[n] = FreeZval
  PROVE  LET s == sep_copy_on_write(m, e, n) IN
         /\ Good(s) /\ Agrees(m, s) /\ s.st[e] # NoEntry
         /\ ~in_copy_on_write(s.heap, s.st[e])
         /\ \A x \in Entries : m.st[x] # NoEntry => s.st[x] # NoEntry
<1> DEFINE s == sep_copy_on_write(m, e, n)
           o == m.st[e]
<1>1. CASE ~in_copy_on_write(m.heap, o)
  BY <1>1 DEF sep_copy_on_write, Agrees
<1>2. CASE in_copy_on_write(m.heap, o)
  <2>1. s.st = [m.st EXCEPT ![e] = n] /\ s.heap = PtrDtor(Clone(m.heap, o, n), o)
    BY <1>2 DEF sep_copy_on_write
  <2>2. /\ o \in Addresses /\ m.heap[o] \in Zval /\ m.heap[o].value \in Values
        /\ ~m.heap[o].is_ref /\ m.heap[o].refcount > 1
    BY <1>2, Live DEF in_copy_on_write
  <2>3. m.heap[n] = FreeZval /\ n # o /\ n # NoEntry
    BY <1>2, FreeFacts, AddressAssumption
  <2>4. m.heap \in [Addresses -> Zval] /\ m.st \in [Entries -> Addresses \cup {NoEntry}]
    BY DEF Good
  <2>5. /\ s.heap[n] = NewZval(m.heap[o].value)
        /\ s.heap[o] = Dropped(m.heap[o], 1)
        /\ \A c \in Addresses \ {n, o} : s.heap[c] = m.heap[c]
    BY <2>1, <2>2, <2>3, <2>4 DEF PtrDtor, Clone
  <2>6. s.heap \in [Addresses -> Zval]
    <3>1. NewZval(m.heap[o].value) \in Zval
      BY <2>2 DEF NewZval, Zval
    <3>2. Clone(m.heap, o, n) \in [Addresses -> Zval] /\ Clone(m.heap, o, n)[o] = m.heap[o]
      BY <2>2, <2>3, <2>4, <3>1 DEF Clone
    <3> QED  BY <2>1, <2>2, <3>2, PtrDtorType DEF Zval
  <2>7. s.heap[n] = [refcount |-> m.heap[n].refcount + 1, is_ref |-> FALSE, value |-> Val(m, e)]
    BY <2>3, <2>5 DEF NewZval, FreeZval, Val, read_var
  <2>8. Val(m, e) \in Values
    BY ReadLive
  <2> HIDE DEF s, o
  <2>9. Good(s) /\ Assigns(m, s, e, Val(m, e))
    BY <2>1, <2>2, <2>3, <2>5, <2>6, <2>7, <2>8, Detach DEF o
  <2>10. s.st[e] = n /\ \A x \in Entries \ {e} : s.st[x] = m.st[x]
    BY <2>1, <2>4
  <2>11. ~in_copy_on_write(s.heap, s.st[e])
    BY <2>5, <2>10 DEF in_copy_on_write, NewZval
  <2> QED  BY <2>3, <2>9, <2>10, <2>11, AssignsOwn DEF s
<1> QED  BY <1>1, <1>2

(* After an assignment there is nothing to separate, or memory left to     *)
(* separate it into.                                                       *)
LEMMA Assign ==
  ASSUME NEW m, Good(m), NEW l \in Entries, m.st[l] # NoEntry, NEW a \in Addresses,
         m.heap[a].refcount >= 1, NEW n \in Addresses, m.heap[n] = FreeZval
  PROVE  LET m2 == AssignZval(m, l, a, n) IN
         /\ Good(m2) /\ Assigns(m, m2, l, m.heap[a].value) /\ m2.st[l] # NoEntry
         /\ in_copy_on_write(m2.heap, m2.st[l]) => m2.heap[n] = FreeZval
<1> DEFINE m2 == AssignZval(m, l, a, n)
           o == m.st[l]
           v == m.heap[a].value
<1>1. /\ o \in Addresses /\ m.heap[o] \in Zval /\ m.heap[o].refcount >= 1 /\ o # n
      /\ m.heap[a] \in Zval /\ v \in Values /\ a # n
  <2>1. m.heap[a] \in Zval /\ m.heap[a].value # Garbage
    BY DEF Good, Zval
  <2>2. a # n
    BY DEF FreeZval
  <2> QED  BY <2>1, <2>2, Live, FreeFacts DEF Zval
<1>2. /\ m.st \in [Entries -> Addresses \cup {NoEntry}] /\ m.heap \in [Addresses -> Zval]
      /\ NoEntry \notin Addresses
  BY AddressAssumption DEF Good
<1>3. CASE o = a
  <2>1. m2 = m
    BY <1>3 DEF AssignZval
  <2>2. v = Val(m, l)
    BY <1>3 DEF Val, read_var
  <2> HIDE DEF m2, v
  <2> QED  BY <2>1, <2>2, AssignsNothing DEF m2, v
<1>4. CASE o # a /\ m.heap[o].is_ref
  <2>1. m2 = [st |-> m.st, heap |-> SetZvalValue(m.heap, o, v)]
    BY <1>4 DEF AssignZval, write_var
  <2>2. ~in_copy_on_write(m.heap, o)
    BY <1>4 DEF in_copy_on_write
  <2>3. m2.heap[o].is_ref
    BY <1>1, <1>2, <1>4, <2>1 DEF SetZvalValue
  <2> HIDE DEF m2, v
  <2>4. Good(m2) /\ Assigns(m, m2, l, v)
    BY <1>1, <2>1, <2>2, WriteInPlace
  <2> QED  BY <2>1, <2>3, <2>4 DEF m2, v, in_copy_on_write
<1>5. CASE o # a /\ ~m.heap[o].is_ref /\ m.heap[a].is_ref
  <2>1. m2.st = [m.st EXCEPT ![l] = n] /\ m2.heap = Clone(PtrDtor(m.heap, o), a, n)
    BY <1>5 DEF AssignZval, write_var
  <2>2. PtrDtor(m.heap, o) \in [Addresses -> Zval]
    BY <1>1, <1>2, PtrDtorType
  <2>3. PtrDtor(m.heap, o)[a] = m.heap[a]
    BY <1>2, <1>5 DEF PtrDtor
  <2>4. NewZval(v) \in Zval
    BY <1>1 DEF NewZval, Zval
  <2>5. /\ m2.heap \in [Addresses -> Zval]
        /\ m2.heap[n] = NewZval(v)
        /\ m2.heap[o] = Dropped(m.heap[o], 1)
        /\ \A c \in Addresses \ {n, o} : m2.heap[c] = m.heap[c]
    BY <1>1, <1>2, <2>1, <2>2, <2>3, <2>4 DEF PtrDtor, Clone
  <2>6. m2.heap[n] = [refcount |-> m.heap[n].refcount + 1, is_ref |-> FALSE, value |-> v]
    BY <2>5 DEF NewZval, FreeZval
  <2>7. m2.st[l] = n
    BY <1>2, <2>1
  <2>8. ~in_copy_on_write(m2.heap, n)
    BY <2>5 DEF in_copy_on_write, NewZval
  <2> HIDE DEF m2, v
  <2>9. Good(m2) /\ Assigns(m, m2, l, v)
    BY <1>1, <1>5, <2>1, <2>5, <2>6, Detach
  <2> QED  BY <1>2, <2>7, <2>8, <2>9 DEF m2, v
<1>6. CASE o # a /\ ~m.heap[o].is_ref /\ ~m.heap[a].is_ref
  <2>1. m2.st = [m.st EXCEPT ![l] = a] /\ m2.heap = AddRef(PtrDtor(m.heap, o), a)
    BY <1>6 DEF AssignZval, write_var
  <2>2. PtrDtor(m.heap, o) \in [Addresses -> Zval]
    BY <1>1, <1>2, PtrDtorType
  <2>3. PtrDtor(m.heap, o)[a] = m.heap[a]
    BY <1>2, <1>6 DEF PtrDtor
  <2>4. m2.heap[a] = [refcount |-> m.heap[a].refcount + 1, is_ref |-> FALSE, value |-> v]
    BY <1>1, <1>6, <2>1, <2>2, <2>3 DEF AddRef, Zval
  <2>5. m2.heap[a] \in Zval
    BY <1>1, <2>4 DEF Zval
  <2>6. /\ m2.heap \in [Addresses -> Zval]
        /\ m2.heap[o] = Dropped(m.heap[o], 1)
        /\ \A c \in Addresses \ {a, o} : m2.heap[c] = m.heap[c]
    <3>1. m2.heap = [PtrDtor(m.heap, o) EXCEPT ![a] = m2.heap[a]]
      BY <2>1, <2>2 DEF AddRef
    <3> HIDE DEF m2
    <3> QED  BY <1>1, <1>2, <1>6, <2>2, <2>5, <3>1 DEF PtrDtor
  <2>7. m2.st[l] # NoEntry /\ m2.heap[n] = FreeZval
    BY <1>1, <1>2, <2>1, <2>6
  <2> HIDE DEF m2, v
  <2>8. Good(m2) /\ Assigns(m, m2, l, v)
    BY <1>1, <1>6, <2>1, <2>4, <2>6, Detach DEF v
  <2> QED  BY <2>7, <2>8 DEF m2, v
<1> QED  BY <1>3, <1>4, <1>5, <1>6

LEMMA NewLhs ==
  ASSUME NEW m, Good(m), NEW l \in Entries, m.st[l] # NoEntry, NEW v \in Values,
         NEW n \in Addresses, m.heap[n] = FreeZval
  PROVE  Good(new_lhs(m, l, v, n)) /\ Assigns(m, new_lhs(m, l, v, n), l, v)
<1> DEFINE m2 == new_lhs(m, l, v, n)
           o == m.st[l]
<1>1. o \in Addresses /\ m.heap[o] \in Zval /\ m.heap[o].refcount >= 1 /\ o # n
  BY Live, FreeFacts
<1>2. CASE m.heap[o].is_ref
  <2>1. m2 = [st |-> m.st, heap |-> SetZvalValue(m.heap, o, v)]
    BY <1>2 DEF new_lhs
  <2>2. ~in_copy_on_write(m.heap, o)
    BY <1>2 DEF in_copy_on_write
  <2> HIDE DEF m2
  <2> QED  BY <2>1, <2>2, WriteInPlace DEF m2
<1>3. CASE ~m.heap[o].is_ref
  <2> DEFINE h == [m.heap EXCEPT ![n] = NewZval(v)]
  <2>1. m2.st = [m.st EXCEPT ![l] = n] /\ m2.heap = PtrDtor(h, o)
    BY <1>3 DEF new_lhs
  <2>2. NewZval(v) \in Zval
    BY DEF NewZval, Zval
  <2>3. /\ h \in [Addresses -> Zval] /\ h[n] = NewZval(v)
        /\ \A c \in Addresses \ {n} : h[c] = m.heap[c]
    BY <2>2 DEF Good
  <2> HIDE DEF h, m2
  <2>4. m2.heap \in [Addresses -> Zval]
    BY <1>1, <2>1, <2>3, PtrDtorType
  <2>5. /\ m2.heap[n] = NewZval(v)
        /\ m2.heap[o] = Dropped(m.heap[o], 1)
        /\ \A c \in Addresses \ {n, o} : m2.heap[c] = m.heap[c]
    BY <1>1, <2>1, <2>3 DEF PtrDtor
  <2>6. m2.heap[n] = [refcount |-> m.heap[n].refcount + 1, is_ref |-> FALSE, value |-> v]
    BY <2>5 DEF NewZval, FreeZval
  <2> QED  BY <1>1, <1>3, <2>1, <2>4, <2>5, <2>6, Detach DEF m2
<1> QED  BY <1>2, <1>3

(* The result of an operator goes to memory of its own, or in place. *)
LEMMA Result ==
  ASSUME NEW m, Good(m), NEW l \in Entries, m.st[l] # NoEntry,
         NEW x \in Entries, NEW y \in Entries, NEW n \in Addresses, m.heap[n] = FreeZval
  PROVE  LET res == ResultZval(m, l, n)
             v == Operator[res.heap[read_var(m, x)].value][res.heap[read_var(m, y)].value]
             m2 == [st |-> res.st, heap |-> SetZvalValue(res.heap, res.st[l], v)]
         IN Good(m2) /\ Assigns(m, m2, l, Operator[Val(m, x)][Val(m, y)])
<1> DEFINE res == ResultZval(m, l, n)
           v == Operator[res.heap[read_var(m, x)].value][res.heap[read_var(m, y)].value]
           m2 == [st |-> res.st, heap |-> SetZvalValue(res.heap, res.st[l], v)]
           w == Operator[Val(m, x)][Val(m, y)]
           o == m.st[l]
<1>1. w \in Values
  BY ReadLive, PHPAssumption DEF PHP!ValuesOK
<1>2. CASE ~in_copy_on_write(m.heap, o)
  <2>1. res = m /\ v = w
    BY <1>2 DEF ResultZval, Val
  <2>2. m2 = [st |-> m.st, heap |-> SetZvalValue(m.heap, o, w)]
    BY <2>1
  <2> HIDE DEF m2, w
  <2> QED  BY <1>1, <1>2, <2>2, WriteInPlace DEF m2, w
<1>3. CASE in_copy_on_write(m.heap, o)
  <2>1. /\ res.st = [m.st EXCEPT ![l] = n]
        /\ res.heap = [PtrDtor(m.heap, o) EXCEPT ![n] = NewZval(Null)]
    BY <1>3 DEF ResultZval
  <2>2. /\ o \in Addresses /\ m.heap[o] \in Zval /\ o # n
        /\ ~m.heap[o].is_ref /\ m.heap[o].refcount > 1
    BY <1>3, Live, FreeFacts DEF in_copy_on_write
  <2>3. m.heap \in [Addresses -> Zval] /\ m.st \in [Entries -> Addresses \cup {NoEntry}]
    BY DEF Good
  <2>4. PtrDtor(m.heap, o) \in [Addresses -> Zval]
    BY <2>2, <2>3, PtrDtorType DEF Zval
  <2>5. Dropped(m.heap[o], 1).value = m.heap[o].value
    BY <2>2 DEF Dropped, Zval
  <2>6. /\ res.heap[n] = NewZval(Null) /\ res.heap[o] = Dropped(m.heap[o], 1)
        /\ \A c \in Addresses \ {n, o} : res.heap[c] = m.heap[c]
    BY <2>1, <2>2, <2>3, <2>4 DEF PtrDtor
  <2> HIDE DEF res
  <2>7. \A z \in Entries : res.heap[read_var(m, z)].value = Val(m, z)
    BY <2>5, <2>6, ReadLive, FreeFacts DEF Val
  <2>8. v = w
    BY <2>7
  <2>9. Null \in Values
    BY PHPAssumption DEF PHP!ValuesOK
  <2>10. res.heap \in [Addresses -> Zval] /\ res.st[l] = n
    BY <2>1, <2>3, <2>4, <2>9 DEF NewZval, Zval
  <2>11. m2.st = [m.st EXCEPT ![l] = n] /\ m2.heap = SetZvalValue(res.heap, n, w)
    BY <2>1, <2>8, <2>10
  <2> HIDE DEF m2, v, w
  <2>12. /\ m2.heap[n] = [refcount |-> 1, is_ref |-> FALSE, value |-> w]
         /\ \A c \in Addresses \ {n} : m2.heap[c] = res.heap[c]
         /\ m2.heap \in [Addresses -> Zval]
    BY <1>1, <2>6, <2>10, <2>11 DEF SetZvalValue, NewZval, Zval
  <2>13. m2.heap[n] = [refcount |-> m.heap[n].refcount + 1, is_ref |-> FALSE, value |-> w]
    BY <2>12 DEF FreeZval
  <2>14. m2.heap[o] = Dropped(m.heap[o], 1) /\ \A c \in Addresses \ {n, o} : m2.heap[c] = m.heap[c]
    BY <2>2, <2>6, <2>12
  <2>15. Good(m2) /\ Assigns(m, m2, l, w)
    BY <1>1, <2>2, <2>11, <2>12, <2>13, <2>14, Detach
  <2> QED  BY <2>15 DEF m2, v, w, res
<1> QED  BY <1>2, <1>3

(* =& of a separated variable. *)
LEMMA Refer ==
  ASSUME NEW m, Good(m), NEW l \in Entries, NEW r \in Entries,
         m.st[l] # NoEntry, m.st[r] # NoEntry, ~in_copy_on_write(m.heap, m.st[r])
  PROVE  Good(copy_into_ref(m, l, r)) /\ Refers(m, copy_into_ref(m, l, r), l, r)
<1> DEFINE m2 == copy_into_ref(m, l, r)
           o == m.st[l]
           b == m.st[r]
           h == AddRef(SetIsRef(m.heap, b), b)
<1>1. /\ o \in Addresses /\ m.heap[o] \in Zval /\ m.heap[o].refcount >= 1
      /\ o \in Owned => m.heap[o].refcount >= 2
      /\ m.heap[o].value \in Values
  BY Live
<1>2. /\ b \in Addresses \ Owned /\ m.heap[b] \in Zval /\ m.heap[b].refcount >= 1
      /\ m.heap[b].value \in Values
      /\ ~m.heap[b].is_ref => m.heap[b].refcount = 1 /\ \A x \in Entries : m.st[x] = b => x = r
  BY Live, Alone DEF in_copy_on_write, Zval
<1>3. m.heap \in [Addresses -> Zval] /\ m.st \in [Entries -> Addresses \cup {NoEntry}]
  BY DEF Good
<1>4. /\ h[b] = [refcount |-> m.heap[b].refcount + 1, is_ref |-> TRUE, value |-> m.heap[b].value]
      /\ h \in [Addresses -> Zval]
      /\ \A c \in Addresses \ {b} : h[c] = m.heap[c]
  <2> DEFINE i == SetIsRef(m.heap, b)
  <2>1. /\ i[b] = [refcount |-> m.heap[b].refcount, is_ref |-> TRUE, value |-> m.heap[b].value]
        /\ i \in [Addresses -> Zval]
        /\ \A c \in Addresses \ {b} : i[c] = m.heap[c]
    BY <1>2, <1>3 DEF SetIsRef, Zval
  <2> HIDE DEF i
  <2>2. [refcount |-> i[b].refcount + 1, is_ref |-> i[b].is_ref, value |-> i[b].value] \in Zval
    BY <1>2, <2>1 DEF Zval
  <2> QED  BY <1>2, <2>1, <2>2 DEF AddRef, i
<1>5. m2.st = [m.st EXCEPT ![l] = b] /\ m2.heap = PtrDtor(h, o)
  BY DEF copy_into_ref
<1> HIDE DEF h
<1>6. CASE o = b
  <2>1. m.heap[b].is_ref => m.heap[b].refcount > 1
    BY <1>2 DEF Good
  <2>2. m2.heap[b] = m.heap[b]
    <3>1. m2.heap[b] = Dropped(h[b], 1)
      BY <1>2, <1>4, <1>5, <1>6 DEF PtrDtor
    <3>2. h[b].refcount # 1 /\ h[b].refcount - 1 = m.heap[b].refcount
      BY <1>2, <1>4 DEF Zval
    <3>3. CASE m.heap[b].is_ref
      BY <1>2, <1>4, <2>1, <3>1, <3>2, <3>3 DEF Dropped, Zval
    <3>4. CASE ~m.heap[b].is_ref
      BY <1>2, <1>4, <3>1, <3>2, <3>4 DEF Dropped, Zval
    <3> QED  BY <3>3, <3>4
  <2>3. m2.heap = m.heap /\ m2.st = m.st
    <3>1. m2.heap \in [Addresses -> Zval] /\ \A c \in Addresses \ {b} : m2.heap[c] = m.heap[c]
      <4>1. h[o].refcount >= 1
        BY <1>1, <1>4, <1>6 DEF Zval
      <4> QED  BY <1>1, <1>4, <1>5, <1>6, <4>1, PtrDtorType DEF PtrDtor
    <3> HIDE DEF m2
    <3> QED  BY <1>3, <1>5, <1>6, <2>2, <3>1
  <2>4. l = r \/ m.heap[b].is_ref
    BY <1>2, <1>6
  <2>5. Good(m2)
    BY <2>3 DEF Good
  <2>6. \A x, y \in Entries : Aliased(m2, x, y) <=> Aliased(m, x, y)
    BY <2>3 DEF Aliased
  <2>7. \A y \in Entries : Val(m2, y) = Val(m, y)
    BY <2>3 DEF Val, read_var
  <2> HIDE DEF m2
  <2>8. ASSUME NEW x \in Entries, NEW y \in Entries
        PROVE  Aliased(m, x, y) <=> Aliased(m, Renamed(l, r, x), Renamed(l, r, y))
    BY <1>6, <2>4 DEF Aliased, Renamed
  <2>9. ASSUME NEW y \in Entries
        PROVE  Val(m, y) = Val(m, Renamed(l, r, y))
    BY <1>6 DEF Val, read_var, Renamed
  <2> QED  BY <2>5, <2>6, <2>7, <2>8, <2>9 DEF Refers, m2
<1>7. CASE o # b
  <2>1. /\ m2.heap \in [Addresses -> Zval]
        /\ m2.heap[b] = h[b] /\ m2.heap[o] = Dropped(m.heap[o], 1)
        /\ \A c \in Addresses \ {b, o} : m2.heap[c] = m.heap[c]
    <3>1. h[o] = m.heap[o]
      BY <1>1, <1>4, <1>7
    <3> QED  BY <1>1, <1>2, <1>4, <1>5, <1>7, <3>1, PtrDtorType DEF PtrDtor
  <2>2. /\ m2.heap[o].refcount = m.heap[o].refcount - 1
        /\ m.heap[o].refcount = 1 => m2.heap[o].value = Garbage /\ ~m2.heap[o].is_ref
        /\ m.heap[o].refcount >= 2 =>
             /\ m2.heap[o].value = m.heap[o].value
             /\ m2.heap[o].is_ref <=> m.heap[o].is_ref /\ m.heap[o].refcount # 2
    BY <1>1, <2>1 DEF Dropped, FreeZval, Zval
  <2>3. /\ m2.st \in [Entries -> Addresses \cup {NoEntry}]
        /\ m2.st[l] = b /\ \A x \in Entries \ {l} : m2.st[x] = m.st[x]
    BY <1>2, <1>3, <1>5
  <2>4. \A c \in Addresses :
          Cnt(m2.st, c) = Cnt(m.st, c) + (IF b = c THEN 1 ELSE 0) - (IF o = c THEN 1 ELSE 0)
    BY <1>2, <1>3, <1>5, CntMove
  <2>5. b # NoEntry /\ o # NoEntry /\ l # r
    BY <1>7
  <2> HIDE DEF m2, o, b
  <2>6. Good(m2)
    <3>1. ASSUME NEW c \in Addresses
          PROVE  /\ m2.heap[c].refcount = 0 <=> m2.heap[c].value = Garbage
                 /\ m2.heap[c].refcount = Cnt(m2.st, c) + Own(c)
                 /\ m2.heap[c].is_ref => m2.heap[c].refcount > 1
                 /\ c \in Owned => m2.heap[c].value = OwnedValue(c) /\ ~m2.heap[c].is_ref
      <4>1. /\ m.heap[c].refcount = 0 <=> m.heap[c].value = Garbage
            /\ m.heap[c].refcount = Cnt(m.st, c) + Own(c)
            /\ m.heap[c].is_ref => m.heap[c].refcount > 1
            /\ c \in Owned => m.heap[c].value = OwnedValue(c) /\ ~m.heap[c].is_ref
        BY DEF Good
      <4>2. Cnt(m.st, c) \in Nat /\ Own(c) \in {0, 1} /\ m.heap[c].refcount \in Nat
        BY <1>3, HoldingFinite DEF Own, Zval
      <4>3. CASE c = b
        <5>1. Cnt(m2.st, c) = Cnt(m.st, c) + 1
          BY <1>7, <2>4, <4>2, <4>3
        <5>2. /\ m2.heap[c].refcount = m.heap[c].refcount + 1
              /\ m2.heap[c].value = m.heap[c].value /\ m2.heap[c].value # Garbage
              /\ c \notin Owned /\ m.heap[c].refcount >= 1
          BY <1>2, <1>4, <2>1, <4>3, AddressAssumption
        <5> QED  BY <4>1, <4>2, <5>1, <5>2
      <4>4. CASE c = o
        <5>1. Cnt(m2.st, c) = Cnt(m.st, c) - 1
          BY <1>7, <2>4, <4>2, <4>4
        <5>2. /\ m2.heap[c].refcount = m.heap[c].refcount - 1 /\ m.heap[c].refcount >= 1
              /\ m.heap[c].value # Garbage
              /\ m.heap[c].refcount = 1 => m2.heap[c].value = Garbage /\ ~m2.heap[c].is_ref
              /\ m.heap[c].refcount >= 2 =>
                   /\ m2.heap[c].value = m.heap[c].value
                   /\ m2.heap[c].is_ref <=> m.heap[c].is_ref /\ m.heap[c].refcount # 2
              /\ c \in Owned => m.heap[c].refcount >= 2
          BY <1>1, <2>2, <4>4, AddressAssumption
        <5>3. m2.heap[c].refcount = Cnt(m2.st, c) + Own(c)
          BY <4>1, <4>2, <5>1, <5>2
        <5>4. m2.heap[c].refcount = 0 <=> m2.heap[c].value = Garbage
          BY <4>1, <4>2, <5>2
        <5>5. m2.heap[c].is_ref => m2.heap[c].refcount > 1
          BY <4>1, <4>2, <5>2
        <5>6. c \in Owned => m2.heap[c].value = OwnedValue(c) /\ ~m2.heap[c].is_ref
          BY <4>1, <5>2
        <5> QED  BY <5>3, <5>4, <5>5, <5>6
      <4>5. CASE c # b /\ c # o
        <5>1. m2.heap[c] = m.heap[c] /\ Cnt(m2.st, c) = Cnt(m.st, c)
          BY <2>1, <2>4, <4>2, <4>5
        <5> QED  BY <4>1, <5>1
      <4> QED  BY <4>3, <4>4, <4>5
    <3> QED  BY <2>1, <2>3, <3>1 DEF Good
  <2>7. ASSUME NEW x \in Entries, NEW y \in Entries
        PROVE  Aliased(m2, x, y) <=> Aliased(m, Renamed(l, r, x), Renamed(l, r, y))
    <3>1. CASE x = y
      BY <3>1 DEF Aliased
    <3>2. CASE x # y /\ (x = l \/ y = l)
      BY <1>2, <1>4, <2>1, <2>3, <2>5, <3>2 DEF Aliased, Renamed, b
    <3>3. CASE x # y /\ x # l /\ y # l
      <4>1. m2.st[x] = m.st[x] /\ m2.st[y] = m.st[y] /\ Renamed(l, r, x) = x /\ Renamed(l, r, y) = y
        BY <2>3, <3>3 DEF Renamed
      <4>2. CASE m.st[x] = m.st[y] /\ m.st[x] = b
        <5>1. m.heap[b].is_ref
          BY <1>2, <3>3, <4>2
        <5>2. m2.heap[b].is_ref
          BY <1>4, <2>1
        <5> QED  BY <2>5, <4>1, <4>2, <5>1, <5>2 DEF Aliased
      <4>3. CASE m.st[x] = m.st[y] /\ m.st[x] = o
        <5>1. Cnt(m.st, o) \in Nat /\ Cnt(m.st, o) >= 3
          BY <3>3, <4>3, CntThree DEF o
        <5>2. m.heap[o].refcount >= 3
          BY <1>1, <5>1 DEF Good, Own
        <5>3. m2.heap[o].is_ref <=> m.heap[o].is_ref
          BY <1>1, <2>2, <5>2 DEF Zval
        <5> QED  BY <4>1, <4>3, <5>3 DEF Aliased
      <4>4. CASE m.st[x] # m.st[y] \/ (m.st[x] # b /\ m.st[x] # o)
        BY <1>3, <2>1, <4>1, <4>4 DEF Aliased
      <4> QED  BY <4>2, <4>3, <4>4
    <3> QED  BY <3>1, <3>2, <3>3
  <2>8. ASSUME NEW y \in Entries
        PROVE  Val(m2, y) = Val(m, Renamed(l, r, y))
    <3>1. CASE y = l
      BY <1>4, <2>1, <2>3, <2>5, <3>1 DEF Val, read_var, Renamed, b
    <3>2. CASE y # l
      <4> DEFINE c == read_var(m, y)
      <4>1. /\ read_var(m2, y) = c /\ Renamed(l, r, y) = y
            /\ c \in Addresses /\ m.heap[c] \in Zval /\ m.heap[c].refcount >= 1
        BY <2>3, <3>2, ReadLive DEF read_var, Renamed
      <4>2. CASE c = o
        <5>1. m.heap[o].refcount >= 2
          <6>1. CASE c \in Owned
            BY <1>1, <4>2, <6>1
          <6>2. CASE c \notin Owned
            <7>1. m.st[y] = o
              BY <4>2, <6>2, OwnedFacts DEF read_var
            <7>2. Cnt(m.st, o) \in Nat /\ Cnt(m.st, o) >= 2
              BY <3>2, <7>1, CntTwo DEF o
            <7> QED  BY <1>1, <4>2, <6>2, <7>2 DEF Good, Own
          <6> QED  BY <6>1, <6>2
        <5> QED  BY <2>2, <4>1, <4>2, <5>1 DEF Val
      <4>3. CASE c = b
        BY <1>4, <2>1, <4>1, <4>3 DEF Val
      <4>4. CASE c # b /\ c # o
        <5>1. m2.heap[c] = m.heap[c]
          BY <2>1, <4>1, <4>4
        <5> QED  BY <4>1, <5>1 DEF Val
      <4> QED  BY <4>2, <4>3, <4>4
    <3> QED  BY <3>1, <3>2
  <2> QED  BY <2>6, <2>7, <2>8 DEF Refers, m2
<1> QED  BY <1>6, <1>7

(* Variables that go away. *)
Gone(s, S, a) == {e \in S : s[e] = a}

LEMMA CntForget ==
  ASSUME NEW s, NEW S \in SUBSET Entries, NEW t, NEW a \in Addresses,
         t = [e \in Entries |-> IF e \in S THEN NoEntry ELSE s[e]]
  PROVE  /\ Cardinality(Gone(s, S, a)) \in Nat
         /\ Cardinality(Gone(s, S, a)) = 0 <=> Gone(s, S, a) = {}
         /\ Cnt(t, a) = Cnt(s, a) - Cardinality(Gone(s, S, a))
<1> DEFINE gone == Gone(s, S, a)
<1>1. Holding(t, a) = Holding(s, a) \ gone
  BY AddressAssumption DEF Holding, Gone
<1>2. Holding(s, a) \cap gone = gone
  BY DEF Holding, Gone
<1>3. IsFiniteSet(gone)
  BY EntriesAssumption, FS_Subset DEF Gone
<1>4. Cardinality(gone) \in Nat /\ (Cardinality(gone) = 0 <=> gone = {})
  BY <1>3, FS_CardinalityType, FS_EmptySet
<1>5. Cardinality(Holding(s, a) \ gone) = Cardinality(Holding(s, a)) - Cardinality(Holding(s, a) \cap gone)
  BY <1>3, HoldingFinite, FS_Difference
<1>6. Cnt(t, a) = Cnt(s, a) - Cardinality(gone)
  BY <1>1, <1>2, <1>5 DEF Cnt
<1> QED  BY <1>4, <1>6

LEMMA Forget ==
  ASSUME NEW m, Good(m), NEW S \in SUBSET Entries
  PROVE  Good(Forgotten(m, S)) /\ Forgets(m, Forgotten(m, S), S)
<1> DEFINE m2 == Forgotten(m, S)
           gone(a) == Gone(m.st, S, a)
           k(a) == Cardinality(gone(a))
<1>1. m.heap \in [Addresses -> Zval] /\ m.st \in [Entries -> Addresses \cup {NoEntry}]
  BY DEF Good
<1>2. /\ m2.st = [e \in Entries |-> IF e \in S THEN NoEntry ELSE m.st[e]]
      /\ \A a \in Addresses : m2.heap[a] = IF gone(a) = {} THEN m.heap[a] ELSE Dropped(m.heap[a], k(a))
      /\ DOMAIN m2.heap = Addresses
      /\ m2.heap = [a \in Addresses |-> m2.heap[a]]
  BY DEF Forgotten, Gone
<1>3. ASSUME NEW a \in Addresses
      PROVE  /\ k(a) \in Nat /\ (k(a) = 0 <=> gone(a) = {})
             /\ Cnt(m2.st, a) = Cnt(m.st, a) - k(a)
             /\ Cnt(m2.st, a) \in Nat /\ Cnt(m.st, a) \in Nat
  <2>1. Cnt(m2.st, a) \in Nat /\ Cnt(m.st, a) \in Nat
    BY HoldingFinite
  <2> HIDE DEF m2
  <2>2. m2.st = [e \in Entries |-> IF e \in S THEN NoEntry ELSE m.st[e]]
    BY <1>2
  <2>3. /\ Cardinality(Gone(m.st, S, a)) \in Nat
        /\ Cardinality(Gone(m.st, S, a)) = 0 <=> Gone(m.st, S, a) = {}
        /\ Cnt(m2.st, a) = Cnt(m.st, a) - Cardinality(Gone(m.st, S, a))
    BY <2>2, CntForget
  <2> QED  BY <2>1, <2>3
<1> HIDE DEF m2, k, gone
<1>4. ASSUME NEW a \in Addresses
      PROVE  /\ m2.heap[a] \in Zval
             /\ m2.heap[a].refcount = m.heap[a].refcount - k(a)
             /\ m2.heap[a].refcount # 0 => m2.heap[a].value = m.heap[a].value
             /\ m2.heap[a].refcount > 1 => (m2.heap[a].is_ref <=> m.heap[a].is_ref)
             /\ m2.heap[a].is_ref => m.heap[a].is_ref /\ m2.heap[a].refcount > 1
             /\ m2.heap[a].refcount = 0 <=> m2.heap[a].value = Garbage
             /\ m2.heap[a].refcount = Cnt(m2.st, a) + Own(a)
  <2>1. /\ m.heap[a] \in Zval /\ m.heap[a].refcount = Cnt(m.st, a) + Own(a)
        /\ m.heap[a].is_ref => m.heap[a].refcount > 1
        /\ m.heap[a].refcount = 0 <=> m.heap[a].value = Garbage
    BY <1>1 DEF Good
  <2>2. Own(a) \in {0, 1}
    BY DEF Own
  <2>3. CASE gone(a) = {}
    <3>1. m2.heap[a] = m.heap[a] /\ k(a) = 0
      BY <1>2, <1>3, <2>3
    <3>2. m2.heap[a].refcount = Cnt(m2.st, a) + Own(a)
      BY <1>3, <2>1, <2>2, <3>1
    <3> QED  BY <2>1, <3>1, <3>2 DEF Zval
  <2>4. CASE gone(a) # {}
    <3>1. m2.heap[a] = Dropped(m.heap[a], k(a)) /\ k(a) # 0
      BY <1>2, <1>3, <2>4
    <3>2. /\ m.heap[a].refcount \in Nat /\ k(a) \in Nat /\ k(a) <= m.heap[a].refcount
          /\ m.heap[a].refcount - k(a) = Cnt(m2.st, a) + Own(a)
      BY <1>3, <2>1, <2>2
    <3>3. CASE m.heap[a].refcount = k(a)
      <4>1. m2.heap[a] = FreeZval
        BY <3>1, <3>3 DEF Dropped
      <4>2. /\ m2.heap[a].refcount = 0 /\ m2.heap[a].value = Garbage /\ ~m2.heap[a].is_ref
            /\ m2.heap[a] \in Zval
        BY <4>1 DEF FreeZval, Zval
      <4> QED  BY <3>2, <3>3, <4>2
    <3>4. CASE m.heap[a].refcount # k(a)
      <4> DEFINE z == m.heap[a].is_ref /\ m.heap[a].refcount # k(a) + 1
      <4>1. m2.heap[a] = [refcount |-> m.heap[a].refcount - k(a), is_ref |-> z,
                          value |-> m.heap[a].value]
        BY <3>1, <3>4 DEF Dropped
      <4>2. m2.heap[a] \in Zval
        BY <2>1, <3>2, <3>4, <4>1 DEF Zval
      <4>3. m.heap[a].value # Garbage
        BY <2>1, <3>1, <3>2
      <4>4. m2.heap[a].is_ref <=> m.heap[a].is_ref /\ m.heap[a].refcount # k(a) + 1
        <5> HIDE DEF z
        <5>1. m2.heap[a].is_ref = z
          BY <4>1
        <5> QED  BY <5>1 DEF z
      <4>5. m2.heap[a].refcount = m.heap[a].refcount - k(a) /\ m2.heap[a].value = m.heap[a].value
        BY <4>1
      <4> HIDE DEF Dropped
      <4>6. m2.heap[a].refcount >= 1 /\ (m2.heap[a].refcount = 1 <=> m.heap[a].refcount = k(a) + 1)
        BY <3>2, <3>4, <4>5
      <4>7. m2.heap[a].is_ref => m.heap[a].is_ref /\ m2.heap[a].refcount > 1
        BY <3>2, <4>4, <4>5, <4>6
      <4>8. m2.heap[a].refcount > 1 => (m2.heap[a].is_ref <=> m.heap[a].is_ref)
        BY <4>4, <4>6
      <4>9. m2.heap[a].refcount = 0 <=> m2.heap[a].value = Garbage
        BY <4>3, <4>5, <4>6
      <4> QED  BY <3>2, <4>2, <4>5, <4>7, <4>8, <4>9
    <3> QED  BY <3>3, <3>4
  <2> QED  BY <2>3, <2>4
<1>5. Good(m2)
  <2>1. m2.heap \in [Addresses -> Zval]
    BY <1>2, <1>4
  <2>2. m2.st \in [Entries -> Addresses \cup {NoEntry}]
    BY <1>1, <1>2
  <2>3. ASSUME NEW a \in Owned
        PROVE  m2.heap[a].value = OwnedValue(a) /\ ~m2.heap[a].is_ref
    <3>1. a \in Addresses /\ m.heap[a].value = OwnedValue(a) /\ ~m.heap[a].is_ref
      BY OwnedLive
    <3>2. m2.heap[a].refcount # 0
      BY <1>3, <1>4, <3>1 DEF Own
    <3> QED  BY <1>4, <3>1, <3>2
  <2> QED  BY <1>4, <2>1, <2>2, <2>3 DEF Good
<1>6. ASSUME NEW x \in Entries, NEW y \in Entries
      PROVE  Aliased(m2, x, y) <=> (x = y \/ (Aliased(m, x, y) /\ x \notin S /\ y \notin S))
  <2>1. CASE x \in S \/ y \in S
    BY <1>2, <2>1 DEF Aliased
  <2>2. CASE x \notin S /\ y \notin S /\ x # y /\ m.st[x] = m.st[y] /\ m.st[x] # NoEntry
    <3> DEFINE a == m.st[x]
    <3>1. a \in Addresses /\ m2.st[x] = a /\ m2.st[y] = a
      BY <1>1, <1>2, <2>2
    <3>2. Cnt(m2.st, a) \in Nat /\ Cnt(m2.st, a) >= 2
      BY <2>2, <3>1, CntTwo
    <3>3. m2.heap[a].refcount > 1
      BY <1>4, <3>1, <3>2 DEF Own
    <3>4. m2.heap[a].is_ref <=> m.heap[a].is_ref
      BY <1>4, <3>1, <3>3
    <3> QED  BY <2>2, <3>1, <3>4 DEF Aliased
  <2>3. CASE x \notin S /\ y \notin S /\ (x = y \/ m.st[x] # m.st[y] \/ m.st[x] = NoEntry)
    BY <1>2, <2>3 DEF Aliased
  <2> QED  BY <2>1, <2>2, <2>3
<1>7. ASSUME NEW y \in Entries
      PROVE  Val(m2, y) = IF y \in S THEN Null ELSE Val(m, y)
  <2>1. CASE y \in S
    <3>1. read_var(m2, y) = uninitialized_zval
      BY <1>2, <2>1 DEF read_var
    <3> QED  BY <1>5, <2>1, <3>1, OwnedLive, OwnedFacts DEF Val
  <2>2. CASE y \notin S
    <3>1. read_var(m2, y) = read_var(m, y)
      BY <1>2, <2>2 DEF read_var
    <3>2. m2.heap[read_var(m, y)].refcount # 0 /\ read_var(m, y) \in Addresses
      <4>1. m2.heap[read_var(m2, y)].refcount >= 1 /\ read_var(m2, y) \in Addresses
        BY <1>5, ReadLive
      <4> QED  BY <3>1, <4>1
    <3> QED  BY <1>4, <2>2, <3>1, <3>2 DEF Val
  <2> QED  BY <2>1, <2>2
<1> QED  BY <1>5, <1>6, <1>7 DEF Forgets, m2

-----------------------------------------------------------------------------
(* The statements. *)

LEMMA Literal ==
  ASSUME NEW m, Good(m), NEW n \in Addresses, m.heap[n] = FreeZval,
         NEW l \in Entries, NEW v \in Values
  PROVE  /\ Good(assign_expr_literal(m, l, v, n))
         /\ Assigns(m, assign_expr_literal(m, l, v, n), l, v)
<1> DEFINE g == get_st_entry(m, l)
           m2 == assign_expr_literal(m, l, v, n)
<1>1. Good(g) /\ Agrees(m, g) /\ g.st[l] # NoEntry /\ g.heap[n] = FreeZval
  BY GetEntry
<1>2. Good(m2) /\ Assigns(g, m2, l, v)
  <2>1. CASE v \in DOMAIN pool_name
    <3> DEFINE a == pool_name[v]
    <3>1. m2 = AssignZval(g, l, a, n)
      BY <2>1 DEF assign_expr_literal
    <3>2. a \in Owned /\ OwnedValue(a) = v
      BY <2>1, OwnedFacts
    <3> HIDE DEF g, m2, a
    <3>3. a \in Addresses /\ g.heap[a].refcount >= 1 /\ g.heap[a].value = v
      BY <1>1, <3>2, OwnedLive
    <3> QED  BY <1>1, <3>1, <3>3, Assign
  <2>2. CASE v \notin DOMAIN pool_name
    <3>1. m2 = new_lhs(g, l, v, n)
      BY <2>2 DEF assign_expr_literal
    <3> HIDE DEF g, m2
    <3> QED  BY <1>1, <3>1, NewLhs
  <2> QED  BY <2>1, <2>2
<1> HIDE DEF g, m2
<1> QED  BY <1>1, <1>2, AgreesThen DEF m2

LEMMA Copy ==
  ASSUME NEW m, Good(m), NEW n \in Addresses, m.heap[n] = FreeZval,
         NEW l \in Entries, NEW r \in Entries
  PROVE  LET m2 == assign_expr_var(m, l, r, n) IN
         /\ Good(m2) /\ Assigns(m, m2, l, Val(m, r)) /\ m2.st[l] # NoEntry
         /\ in_copy_on_write(m2.heap, m2.st[l]) => m2.heap[n] = FreeZval
<1> DEFINE g == get_st_entry(m, l)
           m2 == assign_expr_var(m, l, r, n)
           a == read_var(g, r)
<1>1. Good(g) /\ Agrees(m, g) /\ g.st[l] # NoEntry /\ g.heap[n] = FreeZval
  BY GetEntry
<1>2. m2 = AssignZval(g, l, a, n)
  BY DEF assign_expr_var
<1> HIDE DEF g, m2
<1>3. a \in Addresses /\ g.heap[a].refcount >= 1
  BY <1>1, ReadLive
<1>4. g.heap[a].value = Val(m, r)
  BY <1>1 DEF Agrees, Val
<1>5. /\ Good(m2) /\ Assigns(g, m2, l, Val(m, r)) /\ m2.st[l] # NoEntry
      /\ in_copy_on_write(m2.heap, m2.st[l]) => m2.heap[n] = FreeZval
  BY <1>1, <1>2, <1>3, <1>4, Assign
<1> QED  BY <1>1, <1>5, AgreesThen DEF m2

LEMMA Cast ==
  ASSUME NEW m, Good(m), NEW n \in Addresses, m.heap[n] = FreeZval,
         NEW l \in Entries, NEW r \in Entries
  PROVE  /\ Good(assign_expr_cast(m, l, r, n))
         /\ Assigns(m, assign_expr_cast(m, l, r, n), l, Convert[Val(m, r)])
<1> DEFINE a == assign_expr_var(m, l, r, n)
           v == a.heap[a.st[l]].value
           s == sep_copy_on_write(a, l, n)
           m2 == assign_expr_cast(m, l, r, n)
<1>1. /\ Good(a) /\ Assigns(m, a, l, Val(m, r)) /\ a.st[l] # NoEntry
      /\ in_copy_on_write(a.heap, a.st[l]) => a.heap[n] = FreeZval
  BY Copy
<1>2. m2 = IF Convert[v] = v THEN a
           ELSE [st |-> s.st, heap |-> SetZvalValue(s.heap, s.st[l], Convert[v])]
  BY DEF assign_expr_cast
<1> HIDE DEF a, m2
<1>3. v = Val(m, r)
  <2>1. v = Val(a, l)
    BY <1>1 DEF Val, read_var
  <2>2. Aliased(m, l, l)
    BY DEF Aliased
  <2> QED  BY <1>1, <2>1, <2>2 DEF Assigns
<1>4. Convert[v] \in Values
  BY <1>3, ReadLive, PHPAssumption DEF PHP!ValuesOK
<1>5. CASE Convert[v] = v
  BY <1>1, <1>2, <1>3, <1>5 DEF m2
<1>6. CASE Convert[v] # v
  <2>1. /\ Good(s) /\ Agrees(a, s) /\ s.st[l] # NoEntry /\ ~in_copy_on_write(s.heap, s.st[l])
    BY <1>1, Sep
  <2>2. m2 = [st |-> s.st, heap |-> SetZvalValue(s.heap, s.st[l], Convert[v])]
    BY <1>2, <1>6
  <2> HIDE DEF s
  <2>3. Good(m2) /\ Assigns(s, m2, l, Convert[v])
    BY <1>4, <2>1, <2>2, WriteInPlace
  <2>4. Assigns(a, m2, l, Convert[v])
    BY <2>1, <2>3, AgreesThen
  <2>5. Assigns(m, m2, l, Convert[v])
    BY <1>1, <2>4, AssignsTwice
  <2> QED  BY <1>3, <2>3, <2>5 DEF m2
<1> QED  BY <1>5, <1>6

LEMMA BinOp ==
  ASSUME NEW m, Good(m), NEW n \in Addresses, m.heap[n] = FreeZval,
         NEW l \in Entries, NEW x \in Entries, NEW y \in Entries
  PROVE  /\ Good(assign_expr_bin_op(m, l, x, y, n))
         /\ Assigns(m, assign_expr_bin_op(m, l, x, y, n), l, Operator[Val(m, x)][Val(m, y)])
<1> DEFINE g == get_st_entry(m, l)
           res == ResultZval(g, l, n)
           v == Operator[res.heap[read_var(g, x)].value][res.heap[read_var(g, y)].value]
           m2 == assign_expr_bin_op(m, l, x, y, n)
<1>1. Good(g) /\ Agrees(m, g) /\ g.st[l] # NoEntry /\ g.heap[n] = FreeZval
  BY GetEntry
<1>2. m2 = [st |-> res.st, heap |-> SetZvalValue(res.heap, res.st[l], v)]
  BY DEF assign_expr_bin_op
<1> HIDE DEF g, m2
<1>3. Good(m2) /\ Assigns(g, m2, l, Operator[Val(g, x)][Val(g, y)])
  BY <1>1, <1>2, Result
<1>4. Val(g, x) = Val(m, x) /\ Val(g, y) = Val(m, y)
  BY <1>1 DEF Agrees
<1> QED  BY <1>1, <1>3, <1>4, AgreesThen DEF m2

LEMMA PreOp ==
  ASSUME NEW m, Good(m), NEW n \in Addresses, m.heap[n] = FreeZval, NEW l \in Entries
  PROVE  Good(pre_op(m, l, n)) /\ Assigns(m, pre_op(m, l, n), l, Increment[Val(m, l)])
<1> DEFINE g == get_st_entry(m, l)
           s == sep_copy_on_write(g, l, n)
           v == Increment[s.heap[s.st[l]].value]
           m2 == pre_op(m, l, n)
<1>1. Good(g) /\ Agrees(m, g) /\ g.st[l] # NoEntry /\ g.heap[n] = FreeZval
  BY GetEntry
<1>2. m2 = [st |-> s.st, heap |-> SetZvalValue(s.heap, s.st[l], v)]
  BY DEF pre_op
<1> HIDE DEF g, m2
<1>3. Good(s) /\ Agrees(g, s) /\ s.st[l] # NoEntry /\ ~in_copy_on_write(s.heap, s.st[l])
  BY <1>1, Sep
<1> HIDE DEF s
<1>4. s.heap[s.st[l]].value = Val(m, l)
  BY <1>1, <1>3 DEF Agrees, Val, read_var
<1>5. v = Increment[Val(m, l)] /\ v \in Values
  BY <1>4, ReadLive, PHPAssumption DEF PHP!ValuesOK
<1>6. Good(m2) /\ Assigns(s, m2, l, v)
  BY <1>2, <1>3, <1>5, WriteInPlace
<1>7. Assigns(m, m2, l, v)
  <2>1. Assigns(g, m2, l, v)
    BY <1>3, <1>6, AgreesThen
  <2> QED  BY <1>1, <2>1, AgreesThen
<1> QED  BY <1>5, <1>6, <1>7 DEF m2

LEMMA Ref ==
  ASSUME NEW m, Good(m), NEW n \in Addresses, m.heap[n] = FreeZval,
         NEW l \in Entries, NEW r \in Entries
  PROVE  /\ Good(assign_expr_ref_var(m, l, r, n))
         /\ Refers(m, assign_expr_ref_var(m, l, r, n), l, r)
<1> DEFINE g == get_st_entry(m, l)
           h == get_st_entry(g, r)
           s == sep_copy_on_write(h, r, n)
           m2 == assign_expr_ref_var(m, l, r, n)
<1>1. Good(g) /\ Agrees(m, g) /\ g.st[l] # NoEntry /\ g.heap[n] = FreeZval
  BY GetEntry
<1>2. m2 = copy_into_ref(s, l, r)
  BY DEF assign_expr_ref_var
<1> HIDE DEF g, m2
<1>3. /\ Good(h) /\ Agrees(g, h) /\ h.st[l] # NoEntry /\ h.st[r] # NoEntry
      /\ h.heap[n] = FreeZval
  BY <1>1, GetEntry
<1> HIDE DEF h
<1>4. /\ Good(s) /\ Agrees(h, s) /\ s.st[l] # NoEntry /\ s.st[r] # NoEntry
      /\ ~in_copy_on_write(s.heap, s.st[r])
  BY <1>3, Sep
<1> HIDE DEF s
<1>5. Good(m2) /\ Refers(s, m2, l, r)
  BY <1>2, <1>4, Refer
<1>6. Agrees(m, s)
  BY <1>1, <1>3, <1>4 DEF Agrees
<1>7. Refers(m, m2, l, r)
  BY <1>5, <1>6 DEF Agrees, Refers, Renamed
<1> QED  BY <1>5, <1>7 DEF m2

(* What a statement of PHP means for two machines. *)
Performed(m, m2, s) ==
  \/ s.op = "literal" /\ Assigns(m, m2, s.lhs, s.value)
  \/ s.op = "copy" /\ Assigns(m, m2, s.lhs, Val(m, s.rhs))
  \/ s.op = "cast" /\ Assigns(m, m2, s.lhs, Convert[Val(m, s.rhs)])
  \/ s.op = "operator" /\ Assigns(m, m2, s.lhs, Operator[Val(m, s.left)][Val(m, s.right)])
  \/ s.op = "increment" /\ Assigns(m, m2, s.lhs, Increment[Val(m, s.lhs)])
  \/ s.op = "ref" /\ Refers(m, m2, s.lhs, s.rhs)
  \/ s.op = "forget" /\ Forgets(m, m2, s.entries)

LEMMA StatementFields ==
  ASSUME NEW s \in Program
  PROVE  \/ s.op = "literal" /\ s.lhs \in Entries /\ s.value \in Values
         \/ s.op \in {"copy", "ref", "cast"} /\ s.lhs \in Entries /\ s.rhs \in Entries
         \/ s.op = "operator" /\ s.lhs \in Entries /\ s.left \in Entries /\ s.right \in Entries
         \/ s.op = "increment" /\ s.lhs \in Entries
         \/ s.op = "forget" /\ s.entries \in SUBSET Entries
<1>1. s \in PHP!Statement
  BY PHPAssumption DEF PHP!ProgramOK
<1> QED  BY <1>1 DEF PHP!Statement

LEMMA Statements ==
  ASSUME NEW m, Good(m), NEW n \in Addresses, m.heap[n] = FreeZval, NEW s \in Program
  PROVE  Good(After(m, s, n)) /\ Performed(m, After(m, s, n), s)
<1>1. CASE s.op = "literal"
  <2>1. s.lhs \in Entries /\ s.value \in Values
    BY <1>1, StatementFields
  <2>2. After(m, s, n) = assign_expr_literal(m, s.lhs, s.value, n)
    BY <1>1 DEF After
  <2> QED  BY <1>1, <2>1, <2>2, Literal DEF Performed
<1>2. CASE s.op = "copy"
  <2>1. s.lhs \in Entries /\ s.rhs \in Entries
    BY <1>2, StatementFields
  <2>2. After(m, s, n) = assign_expr_var(m, s.lhs, s.rhs, n)
    BY <1>2 DEF After
  <2> QED  BY <1>2, <2>1, <2>2, Copy DEF Performed
<1>3. CASE s.op = "ref"
  <2>1. s.lhs \in Entries /\ s.rhs \in Entries
    BY <1>3, StatementFields
  <2>2. After(m, s, n) = assign_expr_ref_var(m, s.lhs, s.rhs, n)
    BY <1>3 DEF After
  <2> QED  BY <1>3, <2>1, <2>2, Ref DEF Performed
<1>4. CASE s.op = "cast"
  <2>1. s.lhs \in Entries /\ s.rhs \in Entries
    BY <1>4, StatementFields
  <2>2. After(m, s, n) = assign_expr_cast(m, s.lhs, s.rhs, n)
    BY <1>4 DEF After
  <2> QED  BY <1>4, <2>1, <2>2, Cast DEF Performed
<1>5. CASE s.op = "operator"
  <2>1. s.lhs \in Entries /\ s.left \in Entries /\ s.right \in Entries
    BY <1>5, StatementFields
  <2>2. After(m, s, n) = assign_expr_bin_op(m, s.lhs, s.left, s.right, n)
    BY <1>5 DEF After
  <2> QED  BY <1>5, <2>1, <2>2, BinOp DEF Performed
<1>6. CASE s.op = "increment"
  <2>1. s.lhs \in Entries
    BY <1>6, StatementFields
  <2>2. After(m, s, n) = pre_op(m, s.lhs, n)
    BY <1>6 DEF After
  <2> QED  BY <1>6, <2>1, <2>2, PreOp DEF Performed
<1>7. CASE s.op = "forget"
  <2>1. s.entries \in SUBSET Entries
    BY <1>7, StatementFields
  <2>2. After(m, s, n) = Forgotten(m, s.entries)
    BY <1>7 DEF After
  <2> QED  BY <1>7, <2>1, <2>2, Forget DEF Performed
<1> QED  BY <1>1, <1>2, <1>3, <1>4, <1>5, <1>6, <1>7, StatementFields

-----------------------------------------------------------------------------
(* The inductive invariant of Zvals, and the two ends of a step. *)
Now == [st |-> st, heap |-> heap]
IInv == Good(Now) /\ stmt \in Program \cup {[op |-> "forget", entries |-> Entries]}

LEMMA InitGood == Init => IInv
<1> SUFFICES ASSUME Init PROVE IInv
  OBVIOUS
<1>1. Now.st = [e \in Entries |-> NoEntry] /\ Now.heap = heap
  BY DEF Init, Now
<1>2. Now.st \in [Entries -> Addresses \cup {NoEntry}]
  BY <1>1
<1>3. ASSUME NEW a \in Addresses
      PROVE  /\ heap[a] \in Zval
             /\ heap[a].refcount = 0 <=> heap[a].value = Garbage
             /\ heap[a].refcount = Cnt(Now.st, a) + Own(a)
             /\ heap[a].is_ref => heap[a].refcount > 1
             /\ a \in Owned => heap[a].value = OwnedValue(a) /\ ~heap[a].is_ref
  <2>1. Holding(Now.st, a) = {}
    BY <1>1, AddressAssumption DEF Holding
  <2>2. Cnt(Now.st, a) = 0
    BY <2>1, FS_EmptySet DEF Cnt
  <2>3. CASE a \in Owned
    <3>1. heap[a] = NewZval(OwnedValue(a))
      BY <2>3 DEF Init
    <3> QED  BY <2>2, <2>3, <3>1, OwnedFacts, AddressAssumption DEF NewZval, Zval, Own
  <2>4. CASE a \notin Owned
    <3>1. heap[a] = FreeZval
      BY <2>4 DEF Init
    <3> QED  BY <2>2, <2>4, <3>1 DEF FreeZval, Zval, Own
  <2> QED  BY <2>3, <2>4
<1>4. Now.heap \in [Addresses -> Zval]
  BY <1>1, <1>3 DEF Init
<1>5. Good(Now)
  BY <1>1, <1>2, <1>3, <1>4 DEF Good
<1> QED  BY <1>5 DEF Init, IInv

LEMMA StepGood ==
  ASSUME IInv, NEW s \in Program, Execute(s)
  PROVE  IInv' /\ Performed(Now, Now', s) /\ stmt' = s
<1>1. PICK n \in Addresses :
        /\ heap[n] = FreeZval /\ stmt' = s
        /\ st' = After(Now, s, n).st /\ heap' = After(Now, s, n).heap
  BY DEF Execute, Now
<1>2. Good(Now) /\ Now.heap[n] = FreeZval
  BY <1>1 DEF IInv, Now
<1> DEFINE m2 == After(Now, s, n)
<1>3. Good(m2) /\ Performed(Now, m2, s)
  BY <1>2, Statements
<1>4. Now'.st = m2.st /\ Now'.heap = m2.heap
  BY <1>1 DEF Now
<1> HIDE DEF m2
<1>5. Good(Now')
  BY <1>3, <1>4 DEF Good
<1>6. Performed(Now, Now', s)
  <2>1. \A x, y : Aliased(Now', x, y) <=> Aliased(m2, x, y)
    BY <1>4 DEF Aliased
  <2>2. \A x : Val(Now', x) = Val(m2, x)
    BY <1>4 DEF Val, read_var
  <2>3. /\ \A l, v : Assigns(Now, m2, l, v) => Assigns(Now, Now', l, v)
        /\ \A l, r : Refers(Now, m2, l, r) => Refers(Now, Now', l, r)
        /\ \A S : Forgets(Now, m2, S) => Forgets(Now, Now', S)
    BY <2>1, <2>2 DEF Assigns, Refers, Forgets
  <2> QED  BY <1>3, <2>3 DEF Performed
<1> QED  BY <1>1, <1>5, <1>6 DEF IInv, Good, Now

LEMMA Inductive == Spec => []IInv
<1>1. IInv /\ [Next]_vars => IInv'
  <2> SUFFICES ASSUME IInv, [Next]_vars PROVE IInv'
    OBVIOUS
  <2>1. CASE Next
    BY <2>1, StepGood DEF Next
  <2>2. CASE UNCHANGED vars
    <3>1. Now' = Now /\ stmt' = stmt
      BY <2>2 DEF vars, Now
    <3>2. Good(Now')
      BY <3>1 DEF IInv
    <3> QED  BY <3>1, <3>2 DEF IInv, Good, Now
  <2> QED  BY <2>1, <2>2
<1> QED  BY <1>1, InitGood, PTL DEF Spec

-----------------------------------------------------------------------------
(* Every zval has a value exactly while something may use it: no value is  *)
(* freed that a variable still has, and none is kept that nobody has.      *)
THEOREM TypeCorrect == Spec => []ZvalsTypeOK
<1>1. IInv => ZvalsTypeOK
  BY DEF IInv, Good, Now, ZvalsTypeOK
<1> QED  BY <1>1, Inductive, PTL

(* The count of a zval is the number of variables that point to it, and    *)
(* one more when the interpreter or the literal pool owns it.              *)
THEOREM CountsExact == Spec => []RefcountsExact
<1>1. IInv => RefcountsExact
  <2> SUFFICES ASSUME IInv, NEW a \in Addresses
               PROVE  heap[a].refcount = Cardinality(Holders(a)) + (IF a \in Owned THEN 1 ELSE 0)
    BY DEF RefcountsExact
  <2>1. heap[a].refcount = Cnt(st, a) + Own(a)
    BY DEF IInv, Good, Now
  <2> QED  BY <2>1 DEF Cnt, Own, Holding, Holders
<1> QED  BY <1>1, Inductive, PTL

(* phc_check_invariants never fails, and no pooled literal is written.     *)
THEOREM SharedIntact == Spec => []OwnedIntact
<1>1. IInv => OwnedIntact
  BY OwnedLive DEF IInv, OwnedIntact, Now
<1> QED  BY <1>1, Inductive, PTL

(* A zval marked as a reference is shared by two variables at least. *)
THEOREM MarkedAreShared == Spec => []ReferencesShared
<1>1. IInv => ReferencesShared
  BY DEF IInv, Good, Now, ReferencesShared
<1> QED  BY <1>1, Inductive, PTL

-----------------------------------------------------------------------------
(* The abstract state, in the terms of the lemmas. *)
LEMMA Meaning ==
  /\ Aliases = {e \in Entries \X Entries : Aliased(Now, e[1], e[2])}
  /\ \A e \in Entries : ValueOf(e) = Val(Now, e)
BY DEF Aliases, Aliased, Now, ValueOf, Val, read_var

LEMMA MeaningNext ==
  /\ Aliases' = {e \in Entries \X Entries : Aliased(Now', e[1], e[2])}
  /\ \A e \in Entries : ValueOf(e)' = Val(Now', e)
BY DEF Aliases, Aliased, Now, ValueOf, Val, read_var

LEMMA AssignsMeans ==
  ASSUME NEW l \in Entries, NEW v, Assigns(Now, Now', l, v)
  PROVE  PHP!SetValue(l, v)
<1>1. \A y \in Entries : <<l, y>> \in Aliases <=> Aliased(Now, l, y)
  BY Meaning
<1>2. Aliases' = Aliases
  BY Meaning, MeaningNext DEF Assigns
<1>3. \A y \in Entries : ValueOf(y)' = IF <<l, y>> \in Aliases THEN v ELSE ValueOf(y)
  BY <1>1, Meaning, MeaningNext DEF Assigns
<1> QED  BY <1>2, <1>3 DEF PHP!SetValue

LEMMA RefersMeans ==
  ASSUME NEW l \in Entries, NEW r \in Entries, Refers(Now, Now', l, r)
  PROVE  PHP!MakeReference(l, r)
<1> DEFINE R(p) == IF p = l THEN r ELSE p
<1>1. \A p \in Entries : R(p) \in Entries /\ Renamed(l, r, p) = R(p)
  BY DEF Renamed
<1>2. \A x, y \in Entries : Aliased(Now', x, y) <=> Aliased(Now, R(x), R(y))
  BY <1>1 DEF Refers
<1>3. \A y \in Entries : Val(Now', y) = Val(Now, R(y))
  BY <1>1 DEF Refers
<1>4. Aliases' = {e \in Entries \X Entries : <<R(e[1]), R(e[2])>> \in Aliases}
  <2>1. \A x, y \in Entries : <<R(x), R(y)>> \in Aliases <=> Aliased(Now, R(x), R(y))
    BY <1>1, Meaning
  <2> HIDE DEF R
  <2> QED  BY <1>2, <2>1, MeaningNext
<1>5. \A p \in Entries : ValueOf(p)' = ValueOf(R(p))
  BY <1>1, <1>3, Meaning, MeaningNext
<1>6. [e \in Entries |-> ValueOf(e)]' = [p \in Entries |-> [e \in Entries |-> ValueOf(e)][R(p)]]
  BY <1>1, <1>5
<1> QED  BY <1>4, <1>6 DEF PHP!MakeReference

LEMMA ForgetsMeans ==
  ASSUME NEW S \in SUBSET Entries, Forgets(Now, Now', S)
  PROVE  PHP!Forget(S)
<1>1. Aliases' = {e \in Entries \X Entries :
                    e[1] = e[2] \/ (e \in Aliases /\ {e[1], e[2]} \cap S = {})}
  <2>1. ASSUME NEW e \in Entries \X Entries
        PROVE  Aliased(Now', e[1], e[2]) <=>
                 e[1] = e[2] \/ (e \in Aliases /\ {e[1], e[2]} \cap S = {})
    <3>1. e[1] \in Entries /\ e[2] \in Entries /\ (e \in Aliases <=> Aliased(Now, e[1], e[2]))
      BY Meaning
    <3>2. {e[1], e[2]} \cap S = {} <=> e[1] \notin S /\ e[2] \notin S
      OBVIOUS
    <3>3. Aliased(Now', e[1], e[2]) <=>
            (e[1] = e[2] \/ (Aliased(Now, e[1], e[2]) /\ e[1] \notin S /\ e[2] \notin S))
      BY <3>1 DEF Forgets
    <3> QED  BY <3>1, <3>2, <3>3
  <2>2. {e \in Entries \X Entries : Aliased(Now', e[1], e[2])} =
          {e \in Entries \X Entries :
             e[1] = e[2] \/ (e \in Aliases /\ {e[1], e[2]} \cap S = {})}
    BY <2>1
  <2> QED  BY <2>2, MeaningNext
<1>2. \A y \in Entries : ValueOf(y)' = IF y \in S THEN Null ELSE ValueOf(y)
  BY Meaning, MeaningNext DEF Forgets
<1> QED  BY <1>1, <1>2 DEF PHP!Forget

(* The generated code does to the variables of a program what PHP says its *)
(* statements do, and nothing else.                                        *)
THEOREM Implements == Spec => KeepsPHPsPromise
<1>1. Init => PHP!Init
  <2> SUFFICES ASSUME Init PROVE PHP!Init
    OBVIOUS
  <2>1. \A e \in Entries : st[e] = NoEntry
    BY DEF Init
  <2>2. Aliases = {e \in Entries \X Entries : e[1] = e[2]}
    BY <2>1 DEF Aliases
  <2>3. heap[uninitialized_zval].value = Null
    BY OwnedFacts DEF Init, NewZval
  <2>4. \A e \in Entries : ValueOf(e) = Null
    BY <2>1, <2>3 DEF ValueOf
  <2> QED  BY <2>2, <2>4 DEF PHP!Init, Init
<1>2. ASSUME IInv, NEW s \in Program, Execute(s)
      PROVE  stmt' = s /\ PHP!Perform(s)
  <2>1. Performed(Now, Now', s) /\ stmt' = s
    BY <1>2, StepGood
  <2>2. ASSUME NEW e \in Entries
        PROVE  [x \in Entries |-> ValueOf(x)][e] = Val(Now, e)
    BY Meaning
  <2>3. CASE s.op = "literal"
    <3>1. s.lhs \in Entries /\ Assigns(Now, Now', s.lhs, s.value)
      BY <2>1, <2>3, StatementFields DEF Performed
    <3>2. PHP!SetValue(s.lhs, s.value)
      BY <3>1, AssignsMeans
    <3> QED  BY <2>1, <2>3, <3>2 DEF PHP!Perform
  <2>4. CASE s.op = "copy"
    <3>1. s.lhs \in Entries /\ s.rhs \in Entries /\ Assigns(Now, Now', s.lhs, Val(Now, s.rhs))
      BY <2>1, <2>4, StatementFields DEF Performed
    <3>2. PHP!SetValue(s.lhs, Val(Now, s.rhs))
      BY <3>1, AssignsMeans
    <3> QED  BY <2>1, <2>2, <2>4, <3>1, <3>2 DEF PHP!Perform
  <2>5. CASE s.op = "cast"
    <3>1. s.lhs \in Entries /\ s.rhs \in Entries /\ Assigns(Now, Now', s.lhs, Convert[Val(Now, s.rhs)])
      BY <2>1, <2>5, StatementFields DEF Performed
    <3>2. PHP!SetValue(s.lhs, Convert[Val(Now, s.rhs)])
      BY <3>1, AssignsMeans
    <3> QED  BY <2>1, <2>2, <2>5, <3>1, <3>2 DEF PHP!Perform
  <2>6. CASE s.op = "operator"
    <3>1. /\ s.lhs \in Entries /\ s.left \in Entries /\ s.right \in Entries
          /\ Assigns(Now, Now', s.lhs, Operator[Val(Now, s.left)][Val(Now, s.right)])
      BY <2>1, <2>6, StatementFields DEF Performed
    <3>2. PHP!SetValue(s.lhs, Operator[Val(Now, s.left)][Val(Now, s.right)])
      BY <3>1, AssignsMeans
    <3> QED  BY <2>1, <2>2, <2>6, <3>1, <3>2 DEF PHP!Perform
  <2>7. CASE s.op = "increment"
    <3>1. s.lhs \in Entries /\ Assigns(Now, Now', s.lhs, Increment[Val(Now, s.lhs)])
      BY <2>1, <2>7, StatementFields DEF Performed
    <3>2. PHP!SetValue(s.lhs, Increment[Val(Now, s.lhs)])
      BY <3>1, AssignsMeans
    <3> QED  BY <2>1, <2>2, <2>7, <3>1, <3>2 DEF PHP!Perform
  <2>8. CASE s.op = "ref"
    <3>1. s.lhs \in Entries /\ s.rhs \in Entries /\ Refers(Now, Now', s.lhs, s.rhs)
      BY <2>1, <2>8, StatementFields DEF Performed
    <3>2. PHP!MakeReference(s.lhs, s.rhs)
      BY <3>1, RefersMeans
    <3> QED  BY <2>1, <2>8, <3>2 DEF PHP!Perform
  <2>9. CASE s.op = "forget"
    <3>1. s.entries \in SUBSET Entries /\ Forgets(Now, Now', s.entries)
      BY <2>1, <2>9, StatementFields DEF Performed
    <3>2. PHP!Forget(s.entries)
      BY <3>1, ForgetsMeans
    <3> QED  BY <2>1, <2>9, <3>2 DEF PHP!Perform
  <2> QED  BY <2>3, <2>4, <2>5, <2>6, <2>7, <2>8, <2>9, StatementFields
<1>3. IInv /\ [Next]_vars => [PHP!Next]_(PHP!vars)
  <2> SUFFICES ASSUME IInv, [Next]_vars PROVE [PHP!Next]_(PHP!vars)
    OBVIOUS
  <2>1. CASE Next
    <3>1. PICK s \in Program : Execute(s)
      BY <2>1 DEF Next
    <3>2. stmt' = s /\ PHP!Perform(s)
      BY <1>2, <3>1
    <3> QED  BY <3>2 DEF PHP!Next
  <2>2. CASE UNCHANGED vars
    <3>1. Now' = Now /\ stmt' = stmt
      BY <2>2 DEF vars, Now
    <3>2. Aliases' = Aliases /\ \A e \in Entries : ValueOf(e)' = ValueOf(e)
      BY <3>1, Meaning, MeaningNext
    <3> QED  BY <3>1, <3>2 DEF PHP!vars
  <2> QED  BY <2>1, <2>2
<1> QED  BY <1>1, <1>3, Inductive, PTL DEF Spec, KeepsPHPsPromise, PHP!Spec
=============================================================================
