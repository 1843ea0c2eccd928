-------------------------- MODULE StringMap_proofs --------------------------
(* Theorems about StringMap, for every set of keys and every hash function. *)
EXTENDS StringMap, FiniteSetTheorems, TLAPS

USE ConstantsAssumption

-----------------------------------------------------------------------------
(* Lemmas about slots and tables. *)

\* hash & (size - 1) is a slot of the table.
LEMMA HomeIsSlot ==
  ASSUME NEW k \in Keys, NEW n \in Nat, n >= 1
  PROVE  Home(k, n) \in Nat /\ Home(k, n) < n
  BY DEF Home

\* The wrap-around step stays in the table.
LEMMA SuccIsSlot ==
  ASSUME NEW n \in Nat, n >= 1, NEW j \in Nat
  PROVE  Succ(j, n) \in Nat /\ Succ(j, n) < n
  BY DEF Succ

\* A table after calloc is well formed and empty.
LEMMA ZeroedTable ==
  ASSUME NEW n \in Nat
  PROVE  Zeroed(n) \in Table(n) /\ Occupied(Zeroed(n)) = {}
  BY DEF Zeroed, Table, Entry, EmptyEntry, Occupied

\* The occupied slots of a table are a finite set of slots.
LEMMA OccupiedFinite ==
  ASSUME NEW n \in Nat, NEW t \in Table(n)
  PROVE  /\ IsFiniteSet(Occupied(t)) /\ Cardinality(Occupied(t)) \in Nat
         /\ Occupied(t) \subseteq 0..n-1
<1>1. Occupied(t) \subseteq 0..n-1
  BY DEF Occupied, Table
<1>2. IsFiniteSet(0..n-1)
  BY FS_Interval
<1>3. QED
  BY <1>1, <1>2, FS_Subset, FS_CardinalityType

\* The slots copied so far are finitely many, none beyond those occupied.
LEMMA CopiedFinite ==
  ASSUME TypeOK
  PROVE  /\ IsFiniteSet(Copied) /\ Cardinality(Copied) \in Nat
         /\ Cardinality(Copied) <= Cardinality(Occupied(entries))
<1>1. Copied \subseteq Occupied(entries)
  BY DEF Copied
<1>2. IsFiniteSet(Occupied(entries))
  BY OccupiedFinite DEF TypeOK
<1>3. QED
  BY <1>1, <1>2, FS_Subset, FS_CardinalityType

\* Writing one entry occupies at most one slot more.
LEMMA StoreOneEntry ==
  ASSUME NEW n \in Nat, NEW t \in Table(n), NEW j \in Nat, j < n, NEW e \in Entry
  PROVE  /\ [t EXCEPT ![j] = e] \in Table(n)
         /\ Cardinality(Occupied([t EXCEPT ![j] = e])) <= Cardinality(Occupied(t)) + 1
<1> DEFINE u == [t EXCEPT ![j] = e]
<1>1. u \in Table(n)
  BY DEF Table
<1>2. Occupied(u) \subseteq Occupied(t) \cup {j}
  BY DEF Occupied, Table
<1>3. IsFiniteSet(Occupied(t)) /\ Cardinality(Occupied(t)) \in Nat
  BY OccupiedFinite
<1>4. /\ IsFiniteSet(Occupied(t) \cup {j})
      /\ Cardinality(Occupied(t) \cup {j})
           = IF j \in Occupied(t) THEN Cardinality(Occupied(t)) ELSE Cardinality(Occupied(t)) + 1
  BY <1>3, FS_AddElement
<1>5. Cardinality(Occupied(t) \cup {j}) \in Nat
  BY <1>4, FS_CardinalityType
<1>6. /\ Cardinality(Occupied(u)) \in Nat
      /\ Cardinality(Occupied(u)) <= Cardinality(Occupied(t) \cup {j})
  BY <1>2, <1>4, OccupiedFinite, <1>1, FS_Subset
<1>7. QED
  BY <1>1, <1>3, <1>4, <1>5, <1>6

\* entry_put_unchecked on the live table writes one well-formed entry at index.
LEMMA PutWritesEntry ==
  ASSUME TypeOK, PutUpdate \/ PutInsert
  PROVE  /\ index < size
         /\ \E e \in Entry : entries' = [entries EXCEPT ![index] = e]
<1>1. call \in [op : {"put"}, key : Keys, value : Values]
  BY DEF PutUpdate, PutInsert, TypeOK, Requests, NoCall
<1>2. index < size /\ entries[index] \in Entry
  BY DEF PutUpdate, PutInsert, TypeOK, Table
<1>3. CASE PutUpdate
  <2>1. [entries[index] EXCEPT !.value = call.value] \in Entry
    BY <1>1, <1>2 DEF Entry
  <2>2. entries' = [entries EXCEPT ![index] = [entries[index] EXCEPT !.value = call.value]]
    BY <1>3 DEF PutUpdate
  <2>3. QED
    BY <1>2, <2>1, <2>2
<1>4. CASE PutInsert
  <2>1. [key |-> call.key, value |-> call.value] \in Entry
    BY <1>1 DEF Entry
  <2>2. QED
    BY <1>2, <1>4, <2>1 DEF PutInsert
<1>5. QED
  BY <1>3, <1>4

\* A rehash step writes one well-formed entry of the old table into the new one.
LEMMA RehashWritesEntry ==
  ASSUME TypeOK, RehashPlace
  PROVE  /\ index < NewSize /\ NewSize \in Nat
         /\ newEntries \in Table(NewSize)
         /\ entries[i] \in Entry
  BY DEF RehashPlace, TypeOK, Table, NewSize

-----------------------------------------------------------------------------
(* Type correctness *)

\* Every index the loops use is inside the array it indexes, for every hash
\* function: the type invariant holds in every reachable state.
THEOREM TypeCorrect == Spec => []TypeOK
<1>1. Init => TypeOK
  <2> SUFFICES ASSUME Init PROVE TypeOK
    OBVIOUS
  <2>1. size = 2 /\ entries \in Table(size)
    BY ZeroedTable DEF Init
  <2>2. call = NoCall /\ call \in Requests /\ call.op = "none" /\ pc = "idle"
    BY DEF Init, NoCall, Requests
  <2>3. /\ len \in Nat /\ index \in Nat /\ startIndex \in Nat /\ wrapped \in BOOLEAN
        /\ i \in Nat /\ nextIndex \in Nat /\ visited \in SUBSET Keys
    BY DEF Init
  <2>4. QED
    BY <2>1, <2>2, <2>3 DEF TypeOK
<1>2. TypeOK /\ [Next]_vars => TypeOK'
  <2> SUFFICES ASSUME TypeOK, [Next]_vars PROVE TypeOK'
    OBVIOUS
  <2> USE DEF map, locals, probe, iter
  <2>1. ASSUME NEW k \in Keys, NEW v \in Values, CallPut(k, v) PROVE TypeOK'
    <3>1. call' \in Requests /\ call'.op = "put" /\ call' # NoCall
      BY <2>1 DEF CallPut, Requests, NoCall
    <3>2. Home(k, size) \in Nat /\ Home(k, size) < size
      BY HomeIsSlot DEF TypeOK
    <3>3. CASE len + 1 >= size
      <4>1. newEntries' \in Table(NewSize') /\ i' = 0 /\ pc' = "expand"
        BY <2>1, <3>3, ZeroedTable DEF CallPut, NewSize, TypeOK
      <4>2. QED
        BY <2>1, <3>1, <3>3, <4>1 DEF CallPut, TypeOK
    <3>4. CASE ~(len + 1 >= size)
      BY <2>1, <3>1, <3>2, <3>4 DEF CallPut, StartProbe, TypeOK
    <3>5. QED
      BY <3>3, <3>4
  <2>2. ASSUME NEW op \in {"get", "has"}, NEW k \in Keys, CallLookup(op, k) PROVE TypeOK'
    <3>1. call' \in Requests /\ call'.op \in {"get", "has"} /\ call' # NoCall
      BY <2>2 DEF CallLookup, Requests, NoCall
    <3>2. Home(k, size) \in Nat /\ Home(k, size) < size
      BY HomeIsSlot DEF TypeOK
    <3>3. QED
      BY <2>2, <3>1, <3>2 DEF CallLookup, StartProbe, TypeOK
  <2>3. CASE CallWalk
    <3>1. call' \in Requests /\ call'.op = "walk" /\ call' # NoCall
      BY <2>3 DEF CallWalk, Requests, NoCall
    <3>2. QED
      BY <2>3, <3>1 DEF CallWalk, TypeOK
  <2>4. ASSUME NEW r, Return(r), len' \in Nat, size' = size, entries' \in Table(size),
               newEntries' = newEntries, i' = i
        PROVE  TypeOK'
    <3>1. NoCall \in Requests /\ NoCall.op = "none"
      BY DEF NoCall, Requests
    <3>2. QED
      BY <2>4, <3>1 DEF Return, TypeOK
  <2>5. CASE LookupMiss
    BY <2>4, <2>5 DEF LookupMiss, TypeOK
  <2>6. CASE LookupHit
    BY <2>4, <2>6 DEF LookupHit, TypeOK
  <2>7. CASE LookupAdvance
    <3>1. index' \in Nat /\ index' < size /\ wrapped' \in BOOLEAN
      BY <2>7, SuccIsSlot DEF LookupAdvance, TypeOK
    <3>2. QED
      BY <2>7, <3>1 DEF LookupAdvance, TypeOK
  <2>8. ASSUME PutUpdate \/ PutInsert PROVE TypeOK'
    <3>1. PICK e \in Entry : entries' = [entries EXCEPT ![index] = e]
      BY <2>8, PutWritesEntry
    <3>2. entries' \in Table(size)
      BY <2>8, <3>1, PutWritesEntry, StoreOneEntry DEF TypeOK
    <3>3. Return({}) /\ len' = len + 1 /\ UNCHANGED <<size, locals>>
      BY <2>8 DEF PutUpdate, PutInsert
    <3>4. QED
      BY <2>4, <3>2, <3>3 DEF TypeOK
  <2>9. CASE PutAdvance
    <3>1. index' \in Nat /\ index' < size
      BY <2>9, SuccIsSlot DEF PutAdvance, TypeOK
    <3>2. QED
      BY <2>9, <3>1 DEF PutAdvance, TypeOK
  <2>10. CASE ExpandSkip
    BY <2>10 DEF ExpandSkip, TypeOK, NewSize
  <2>11. CASE ExpandTake
    <3>1. entries[i].key \in Keys
      BY <2>11 DEF ExpandTake, TypeOK, Table, Entry
    <3>2. Home(entries[i].key, NewSize) \in Nat /\ Home(entries[i].key, NewSize) < NewSize
      BY <3>1, HomeIsSlot DEF TypeOK, NewSize
    <3>3. QED
      BY <2>11, <3>2 DEF ExpandTake, StartProbe, TypeOK, NewSize
  <2>12. CASE RehashPlace
    <3>1. newEntries' \in Table(NewSize)
      BY <2>12, RehashWritesEntry, StoreOneEntry DEF RehashPlace, TypeOK
    <3>2. QED
      BY <2>12, <3>1 DEF RehashPlace, TypeOK, NewSize
  <2>13. CASE RehashAdvance
    <3>1. index' \in Nat /\ index' < NewSize
      BY <2>13, SuccIsSlot DEF RehashAdvance, TypeOK, NewSize
    <3>2. QED
      BY <2>13, <3>1 DEF RehashAdvance, TypeOK, NewSize
  <2>14. CASE ExpandSwap
    <3>1. call.key \in Keys
      BY <2>14 DEF ExpandSwap, TypeOK, Requests, NoCall
    <3>2. Home(call.key, NewSize) \in Nat /\ Home(call.key, NewSize) < NewSize
      BY <3>1, HomeIsSlot DEF TypeOK, NewSize
    <3>3. size' \in Nat /\ size' >= 2 /\ entries' \in Table(size')
      BY <2>14 DEF ExpandSwap, TypeOK, NewSize
    <3>4. index' \in Nat /\ index' < size' /\ startIndex' \in Nat /\ wrapped' \in BOOLEAN
      BY <2>14, <3>2 DEF ExpandSwap, StartProbe
    <3>5. QED
      BY <2>14, <3>3, <3>4 DEF ExpandSwap, TypeOK
  <2>15. CASE WalkSkip
    BY <2>15 DEF WalkSkip, TypeOK
  <2>16. CASE WalkVisit
    <3>1. entries[nextIndex].key \in Keys
      BY <2>16 DEF WalkVisit, TypeOK, Table, Entry
    <3>2. QED
      BY <2>16, <3>1 DEF WalkVisit, TypeOK
  <2>17. CASE WalkEnd
    BY <2>4, <2>17 DEF WalkEnd, TypeOK
  <2>18. CASE UNCHANGED vars
    BY <2>18 DEF vars, TypeOK, NewSize
  <2>19. QED
    BY <2>1, <2>2, <2>3, <2>5, <2>6, <2>7, <2>8, <2>9, <2>10, <2>11, <2>12, <2>13,
       <2>14, <2>15, <2>16, <2>17, <2>18 DEF Next, Step
<1>3. QED
  BY <1>1, <1>2, PTL DEF Spec

-----------------------------------------------------------------------------
(* There is always an empty slot *)

\* The table is never full: RoomLeft is inductive with the type invariant.
THEOREM TableNeverFull == Spec => []RoomLeft
<1>1. Init => RoomLeft
  <2> SUFFICES ASSUME Init PROVE RoomLeft
    OBVIOUS
  <2>1. Occupied(entries) = {}
    BY ZeroedTable DEF Init
  <2>2. Cardinality(Occupied(entries)) = 0
    BY <2>1, FS_EmptySet
  <2>3. QED
    BY <2>2 DEF Init, RoomLeft
<1>2. TypeOK /\ TypeOK' /\ RoomLeft /\ [Next]_vars => RoomLeft'
  <2> SUFFICES ASSUME TypeOK, TypeOK', RoomLeft, [Next]_vars PROVE RoomLeft'
    OBVIOUS
  <2> USE DEF map, locals, probe, iter
  <2>a. /\ Cardinality(Occupied(entries)) \in Nat
        /\ Cardinality(Occupied(entries)) <= len /\ len < size
        /\ len \in Nat /\ size \in Nat /\ size >= 2
    BY OccupiedFinite DEF TypeOK, RoomLeft
  <2>1. ASSUME NEW k \in Keys, NEW v \in Values, CallPut(k, v) PROVE RoomLeft'
    <3>1. CASE len + 1 >= size
      <4>1. Occupied(newEntries') = {}
        BY <2>1, <3>1, <2>a, ZeroedTable DEF CallPut
      <4>2. Cardinality(Occupied(newEntries')) = 0
        BY <4>1, FS_EmptySet
      <4>3. Cardinality(Copied') = 0
        <5>1. Copied' = {}
          BY <2>1, <3>1 DEF CallPut, Copied, Occupied, TypeOK, Table
        <5>2. QED
          BY <5>1, FS_EmptySet
      <4>4. QED
        BY <2>1, <3>1, <2>a, <4>2, <4>3 DEF CallPut, RoomLeft
    <3>2. CASE ~(len + 1 >= size)
      BY <2>1, <3>2, <2>a DEF CallPut, RoomLeft
    <3>3. QED
      BY <3>1, <3>2
  <2>2. ASSUME UNCHANGED map, pc' \notin {"put", "expand", "rehash"} PROVE RoomLeft'
    BY <2>2, <2>a DEF RoomLeft
  <2>3. ASSUME NEW op \in {"get", "has"}, NEW k \in Keys, CallLookup(op, k) PROVE RoomLeft'
    BY <2>2, <2>3 DEF CallLookup
  <2>4. CASE CallWalk
    BY <2>2, <2>4 DEF CallWalk
  <2>5. CASE LookupMiss \/ LookupHit \/ LookupAdvance \/ WalkSkip \/ WalkVisit \/ WalkEnd
    BY <2>2, <2>5 DEF LookupMiss, LookupHit, LookupAdvance, WalkSkip, WalkVisit, WalkEnd, Return
  <2>6. ASSUME PutUpdate \/ PutInsert PROVE RoomLeft'
    <3>1. PICK e \in Entry : entries' = [entries EXCEPT ![index] = e]
      BY <2>6, PutWritesEntry
    <3>3. Cardinality(Occupied(entries')) <= Cardinality(Occupied(entries)) + 1
      BY <2>6, <3>1, PutWritesEntry, StoreOneEntry DEF TypeOK
    <3>4. Cardinality(Occupied(entries')) \in Nat
      BY OccupiedFinite DEF TypeOK
    <3>5. len' = len + 1 /\ len + 1 < size /\ size' = size /\ pc' = "idle"
      BY <2>6 DEF PutUpdate, PutInsert, Return, RoomLeft
    <3>6. QED
      BY <2>a, <3>3, <3>4, <3>5 DEF RoomLeft
  <2>7. CASE PutAdvance
    BY <2>7, <2>a DEF PutAdvance, RoomLeft
  <2>8. CASE ExpandSkip
    <3>1. Copied' = Copied
      BY <2>8 DEF ExpandSkip, Copied, Occupied, TypeOK, Table
    <3>2. QED
      BY <2>8, <2>a, <3>1 DEF ExpandSkip, RoomLeft
  <2>9. CASE ExpandTake
    <3>1. Copied' = Copied
      BY <2>9 DEF ExpandTake, Copied
    <3>2. QED
      BY <2>9, <2>a, <3>1 DEF ExpandTake, RoomLeft
  <2>10. CASE RehashPlace
    <3>1. Cardinality(Occupied(newEntries')) <= Cardinality(Occupied(newEntries)) + 1
      BY <2>10, RehashWritesEntry, StoreOneEntry DEF RehashPlace, TypeOK
    <3>2. Cardinality(Copied') = Cardinality(Copied) + 1
      <4>1. Copied' = Copied \cup {i}
        BY <2>10 DEF RehashPlace, Copied, Occupied, TypeOK, Table
      <4>2. i \notin Copied
        BY DEF Copied, TypeOK
      <4>3. IsFiniteSet(Copied)
        BY CopiedFinite
      <4>4. QED
        BY <4>1, <4>2, <4>3, FS_AddElement
    <3>3. /\ Cardinality(Occupied(newEntries)) \in Nat
          /\ Cardinality(Occupied(newEntries')) \in Nat
          /\ Cardinality(Copied) \in Nat
      BY <2>10, <2>a, OccupiedFinite, CopiedFinite DEF RehashPlace, TypeOK, NewSize
    <3>4. QED
      BY <2>10, <2>a, <3>1, <3>2, <3>3 DEF RehashPlace, RoomLeft
  <2>11. CASE RehashAdvance
    <3>1. Copied' = Copied
      BY <2>11 DEF RehashAdvance, Copied
    <3>2. QED
      BY <2>11, <2>a, <3>1 DEF RehashAdvance, RoomLeft
  <2>12. CASE ExpandSwap
    <3>1. Cardinality(Occupied(newEntries)) <= Cardinality(Copied)
      BY <2>12 DEF ExpandSwap, RoomLeft
    <3>2. Cardinality(Copied) <= Cardinality(Occupied(entries)) /\ Cardinality(Copied) \in Nat
      BY CopiedFinite
    <3>3. Cardinality(Occupied(newEntries)) \in Nat
      BY <2>12, <2>a, OccupiedFinite DEF ExpandSwap, TypeOK, NewSize
    <3>4. QED
      BY <2>12, <2>a, <3>1, <3>2, <3>3 DEF ExpandSwap, RoomLeft, NewSize
  <2>13. CASE UNCHANGED vars
    <3>1. Copied' = Copied
      BY <2>13 DEF vars, Copied
    <3>2. QED
      BY <2>13, <3>1 DEF vars, RoomLeft
  <2>14. QED
    BY <2>1, <2>3, <2>4, <2>5, <2>6, <2>7, <2>8, <2>9, <2>10, <2>11, <2>12, <2>13
       DEF Next, Step
<1>3. QED
  BY <1>1, <1>2, TypeCorrect, PTL DEF Spec
-----------------------------------------------------------------------------
(* The order in which a probe meets the slots. *)

\* Of two slots, the probe for a key meets one before the other.
LEMMA ProbeOrder ==
  ASSUME NEW k \in Keys, NEW n \in Nat, n >= 1,
         NEW j \in 0..n-1, NEW p \in 0..n-1, j # p
  PROVE  j \in Before(k, p, n) \/ p \in Before(k, j, n)
<1>1. Home(k, n) \in Nat /\ Home(k, n) < n
  BY HomeIsSlot
<1> QED
  BY <1>1 DEF Before

\* It starts at home, and one step passes one slot.
LEMMA ProbeSteps ==
  ASSUME NEW k \in Keys, NEW n \in Nat, n >= 1, NEW j \in 0..n-1
  PROVE  /\ Before(k, j, n) \subseteq 0..n-1
         /\ Before(k, Home(k, n), n) = {}
         /\ Before(k, Succ(j, n), n) \subseteq Before(k, j, n) \cup {j}
<1>1. Home(k, n) \in Nat /\ Home(k, n) < n
  BY HomeIsSlot
<1> DEFINE h == Home(k, n)
<1>2. h \in Nat /\ h < n
  BY <1>1
<1>3. Before(k, h, n) = {}
  <2>1. Before(k, h, n) = h..h-1
    BY <1>1 DEF Before
  <2> QED
    BY <1>2, <2>1
<1>4. Before(k, j, n) = IF h <= j THEN h..j-1 ELSE (h..n-1) \cup (0..j-1)
  BY DEF Before
<1>5. Before(k, Succ(j, n), n) \subseteq Before(k, j, n) \cup {j}
  <2> DEFINE s == Succ(j, n)
  <2>1. Before(k, s, n) = IF h <= s THEN h..s-1 ELSE (h..n-1) \cup (0..s-1)
    BY DEF Before
  <2>2. s = IF j + 1 >= n THEN 0 ELSE j + 1
    BY DEF Succ
  <2> HIDE DEF h, s
  <2>3. Before(k, s, n) \subseteq Before(k, j, n) \cup {j}
    BY <1>2, <1>4, <2>1, <2>2
  <2> QED
    BY <2>3 DEF s
<1> QED
  BY <1>2, <1>3, <1>4, <1>5

-----------------------------------------------------------------------------
(* What one write does to a table whose chains are unbroken. *)

Good(t, n) == t \in Table(n) /\ ChainUnbroken(t, n) /\ KeysUnique(t)
Stored(t)  == {t[j] : j \in Occupied(t)}
\* u is t with e written to slot p.
Writes(t, p, e, u) == u = [t EXCEPT ![p] = e]

\* A table after calloc has no chain to break and stores nothing.
LEMMA EmptyIsGood == ASSUME NEW n \in Nat PROVE Good(Zeroed(n), n) /\ Stored(Zeroed(n)) = {}
BY ZeroedTable DEF Good, ChainUnbroken, KeysUnique, Stored

\* The first empty slot that the probe for a key meets ends it: the key is in
\* no slot of the table.
LEMMA EmptySlotEndsProbe ==
  ASSUME NEW n \in Nat, n >= 1, NEW t, Good(t, n), NEW k \in Keys,
         NEW p \in 0..n-1, t[p].key = NULL,
         \A q \in Before(k, p, n) : t[q].key # k
  PROVE  \A j \in 0..n-1 : t[j].key # k
<1> SUFFICES ASSUME NEW j \in 0..n-1, t[j].key = k PROVE FALSE
  OBVIOUS
<1>1. j \in Occupied(t) /\ p \notin Occupied(t)
  BY DEF Good, Table, Occupied
<1>2. p \notin Before(k, j, n)
  BY <1>1 DEF Good, ChainUnbroken
<1>3. j \notin Before(k, p, n)
  OBVIOUS
<1> QED
  BY <1>1, <1>2, <1>3, ProbeOrder

\* Storing a new key in the first empty slot of its probe keeps every chain.
LEMMA InsertKeepsGood ==
  ASSUME NEW n \in Nat, n >= 1, NEW t, Good(t, n), NEW e \in Entry, e.key \in Keys,
         NEW p \in 0..n-1, t[p].key = NULL,
         \A q \in Before(e.key, p, n) : t[q].key # NULL,
         \A j \in 0..n-1 : t[j].key # e.key,
         NEW u, Writes(t, p, e, u)
  PROVE  Good(u, n) /\ Stored(u) = Stored(t) \cup {e}
<1>1. u \in Table(n) /\ u[p] = e /\ \A j \in 0..n-1 : j # p => u[j] = t[j]
  BY DEF Good, Table, Writes
<1>2. Occupied(u) = Occupied(t) \cup {p}
  BY <1>1 DEF Good, Table, Occupied
<1>3. p \notin Occupied(t) /\ Occupied(t) \subseteq 0..n-1
  BY DEF Occupied, Good, Table
<1>4. ChainUnbroken(u, n)
  <2> SUFFICES ASSUME NEW j \in Occupied(u), NEW q \in Before(u[j].key, j, n)
               PROVE  q \in Occupied(u)
    BY DEF ChainUnbroken
  <2>1. CASE j = p
    <3>1. q \in Before(e.key, p, n)
      BY <1>1, <2>1
    <3>2. q \in 0..n-1 /\ t[q].key # NULL
      BY <3>1, ProbeSteps
    <3> QED
      BY <1>2, <3>2 DEF Occupied, Good, Table
  <2>2. CASE j # p
    <3>1. j \in Occupied(t) /\ u[j] = t[j]
      BY <1>1, <1>2, <1>3, <2>2
    <3> QED
      BY <1>2, <3>1 DEF Good, ChainUnbroken
  <2> QED
    BY <2>1, <2>2
<1>5. KeysUnique(u)
  BY <1>1, <1>2, <1>3 DEF KeysUnique, Good
<1>6. Stored(u) = Stored(t) \cup {e}
  BY <1>1, <1>2, <1>3 DEF Stored
<1> QED
  BY <1>1, <1>4, <1>5, <1>6 DEF Good

\* Storing another value for a key that is there moves nothing.
LEMMA UpdateKeepsGood ==
  ASSUME NEW n \in Nat, n >= 1, NEW t, Good(t, n), NEW e \in Entry,
         NEW p \in 0..n-1, t[p].key = e.key, e.key # NULL,
         NEW u, Writes(t, p, e, u)
  PROVE  Good(u, n) /\ Stored(u) = {d \in Stored(t) : d.key # e.key} \cup {e}
<1>1. u \in Table(n) /\ u[p] = e /\ \A j \in 0..n-1 : j # p => u[j] = t[j]
  BY DEF Good, Table, Writes
<1>2. Occupied(u) = Occupied(t) /\ p \in Occupied(t) /\ Occupied(t) \subseteq 0..n-1
  BY <1>1 DEF Good, Table, Occupied
<1>3. \A j \in Occupied(t) : u[j].key = t[j].key
  BY <1>1, <1>2
<1>4. ChainUnbroken(u, n) /\ KeysUnique(u)
  BY <1>2, <1>3 DEF ChainUnbroken, KeysUnique, Good
<1>5. \A j \in Occupied(t) : t[j].key = e.key <=> j = p
  BY <1>2 DEF Good, KeysUnique
<1>6. Stored(u) = {d \in Stored(t) : d.key # e.key} \cup {e}
  BY <1>1, <1>2, <1>3, <1>5 DEF Stored
<1> QED
  BY <1>1, <1>4, <1>6 DEF Good

-----------------------------------------------------------------------------
(* The inductive invariant: chains, expansion, and what each loop knows of   *)
(* the slots that it has passed.                                             *)

\* The slots that a lookup has seen, around the end of the table if wrapped.
Seen == IF wrapped THEN (startIndex..size-1) \cup (0..index-1) ELSE startIndex..index-1
LookupSound ==
  pc = "lookup" =>
    /\ startIndex = Home(call.key, size)
    /\ IF wrapped THEN index <= startIndex ELSE startIndex <= index
    /\ \A q \in Seen : entries[q].key \notin {NULL, call.key}
PutSound ==
  pc = "put" =>
    \A q \in Before(call.key, index, size) : entries[q].key \notin {NULL, call.key}
RehashSound ==
  pc = "rehash" =>
    \A q \in Before(entries[i].key, index, NewSize) : newEntries[q].key # NULL
WalkSound ==
  pc = "walk" => visited = {entries[j].key : j \in {q \in Occupied(entries) : q < nextIndex}}
ValuesStored == \A e \in Stored(entries) : e.value \in Values

LoopsSound == LookupSound /\ PutSound /\ RehashSound /\ WalkSound
IInv == TypeOK /\ ChainsUnbroken /\ ExpansionFaithful /\ ValuesStored /\ LoopsSound

\* What the call in progress asks for.
LEMMA CallParts ==
  ASSUME TypeOK
  PROVE  /\ pc \in {"lookup", "put", "expand", "rehash"} => call.key \in Keys
         /\ pc \in {"put", "expand", "rehash"} => call.op = "put" /\ call.value \in Values
BY DEF TypeOK, Requests, NoCall

\* The live table, and the new one while there is one, keep their chains.
LEMMA TablesGood ==
  ASSUME TypeOK
  PROVE  ChainsUnbroken <=>
           /\ Good(entries, size)
           /\ pc \in {"expand", "rehash"} => Good(newEntries, NewSize)
BY DEF TypeOK, ChainsUnbroken, Good

\* A step that leaves the tables and the loops' places alone.
LEMMA Undisturbed ==
  ASSUME IInv, TypeOK', UNCHANGED map, pc' = "idle"
  PROVE  IInv'
BY DEF IInv, map, ChainsUnbroken, ExpansionFaithful, ValuesStored, LoopsSound,
       LookupSound, PutSound, RehashSound, WalkSound

\* A new map satisfies the invariant.
LEMMA InitKeepsChains == ASSUME Init, TypeOK PROVE IInv
<1>1. Good(entries, 2) /\ Stored(entries) = {}
  BY EmptyIsGood DEF Init
<1> QED
  BY <1>1 DEF Init, IInv, Good, ChainsUnbroken, ExpansionFaithful, ValuesStored, LoopsSound,
       LookupSound, PutSound, RehashSound, WalkSound

\* A call begins on a table whose chains are unbroken.
LEMMA CallsKeepChains ==
  ASSUME IInv, TypeOK',
         \/ \E k \in Keys, v \in Values : CallPut(k, v)
         \/ \E op \in {"get", "has"}, k \in Keys : CallLookup(op, k)
         \/ CallWalk
  PROVE  IInv'
<1> USE DEF map, locals, probe, iter
<1>0. size \in Nat /\ size >= 2 /\ Good(entries, size)
  BY TablesGood DEF IInv, TypeOK
<1>1. ASSUME NEW k \in Keys, NEW v \in Values, CallPut(k, v) PROVE IInv'
  <2>1. CASE len + 1 >= size
    <3>1. newEntries' = Zeroed(NewSize) /\ i' = 0 /\ pc' = "expand" /\ UNCHANGED map
      BY <1>1, <2>1 DEF CallPut, NewSize
    <3>2. Good(newEntries', NewSize) /\ Stored(newEntries') = {}
      BY <1>0, <3>1, EmptyIsGood DEF NewSize
    <3>3. Copied' = {}
      BY <1>0, <3>1 DEF Copied, Occupied, Good, Table
    <3>4. ExpansionFaithful'
      BY <3>2, <3>3 DEF ExpansionFaithful, Stored
    <3>5. ChainsUnbroken'
      BY <1>0, <3>1, <3>2 DEF ChainsUnbroken, Good, NewSize
    <3>6. ValuesStored' /\ LoopsSound'
      BY <3>1 DEF IInv, ValuesStored, LoopsSound, LookupSound, PutSound, RehashSound, WalkSound
    <3> QED
      BY <3>4, <3>5, <3>6 DEF IInv
  <2>2. CASE ~(len + 1 >= size)
    <3>1. pc' = "put" /\ index' = Home(k, size) /\ call'.key = k /\ UNCHANGED map
      BY <1>1, <2>2 DEF CallPut, StartProbe
    <3>2. Before(k, Home(k, size), size) = {}
      <4>1. Home(k, size) \in 0..size-1
        BY <1>0, HomeIsSlot
      <4> QED
        BY <1>0, <4>1, ProbeSteps
    <3> QED
      BY <3>1, <3>2 DEF IInv, ChainsUnbroken, ExpansionFaithful, ValuesStored, LoopsSound,
           LookupSound, PutSound, RehashSound, WalkSound
  <2> QED
    BY <2>1, <2>2
<1>2. ASSUME NEW op \in {"get", "has"}, NEW k \in Keys, CallLookup(op, k) PROVE IInv'
  <2>1. /\ pc' = "lookup" /\ index' = Home(k, size) /\ startIndex' = Home(k, size)
        /\ wrapped' = FALSE /\ call'.key = k /\ UNCHANGED map
    BY <1>2 DEF CallLookup, StartProbe
  <2>2. Home(k, size) \in Nat
    BY <1>0, HomeIsSlot
  <2>3. Seen' = {}
    BY <2>1, <2>2 DEF Seen
  <2>4. LookupSound'
    BY <2>1, <2>2, <2>3 DEF LookupSound
  <2> QED
    BY <2>1, <2>4 DEF IInv, ChainsUnbroken, ExpansionFaithful, ValuesStored, LoopsSound,
         PutSound, RehashSound, WalkSound
<1>3. CASE CallWalk
  <2>1. pc' = "walk" /\ nextIndex' = 0 /\ visited' = {} /\ UNCHANGED map
    BY <1>3 DEF CallWalk
  <2>2. WalkSound'
    BY <1>0, <2>1 DEF WalkSound, Good, Table, Occupied
  <2> QED
    BY <2>1, <2>2 DEF IInv, ChainsUnbroken, ExpansionFaithful, ValuesStored, LoopsSound,
         LookupSound, PutSound, RehashSound
<1> QED
  BY <1>1, <1>2, <1>3

\* The loops that only read.
LEMMA ReadingKeepsChains ==
  ASSUME IInv, TypeOK',
         LookupMiss \/ LookupHit \/ LookupAdvance \/ WalkSkip \/ WalkVisit \/ WalkEnd
  PROVE  IInv'
<1> USE DEF map, locals, probe, iter
<1>0. size \in Nat /\ size >= 2 /\ Good(entries, size) /\ TypeOK
  BY TablesGood DEF IInv, TypeOK
<1>1. CASE LookupMiss \/ LookupHit \/ WalkEnd
  BY <1>1, Undisturbed DEF LookupMiss, LookupHit, WalkEnd, Return
<1>2. CASE LookupAdvance
  <2>1. /\ pc = "lookup" /\ pc' = "lookup" /\ UNCHANGED <<map, call, startIndex>>
        /\ entries[index].key \notin {NULL, call.key} /\ ~RoundTrip
        /\ index' = Succ(index, size) /\ wrapped' = (wrapped \/ index + 1 >= size)
    BY <1>2 DEF LookupAdvance
  <2>2. index \in Nat /\ index < size /\ startIndex \in Nat /\ wrapped \in BOOLEAN
    BY <1>0, <2>1 DEF TypeOK
  <2>3. startIndex < size
    BY <1>0, <2>1, HomeIsSlot, CallParts DEF IInv, LoopsSound, LookupSound
  <2>a. IF wrapped THEN index < startIndex ELSE startIndex <= index
    BY <2>1, <2>2 DEF IInv, LoopsSound, LookupSound, RoundTrip
  <2>b. index' = IF index + 1 >= size THEN 0 ELSE index + 1
    BY <2>1 DEF Succ
  <2>4. IF wrapped' THEN index' <= startIndex' ELSE startIndex' <= index'
    <3>1. CASE wrapped
      <4>1. wrapped' = TRUE
        BY <2>1, <3>1
      <4>2. index < startIndex /\ startIndex' = startIndex
        BY <2>1, <2>a, <3>1
      <4>3. index' = index + 1
        BY <1>0, <2>2, <2>3, <2>b, <4>2
      <4> QED
        BY <2>2, <4>1, <4>2, <4>3
    <3>2. CASE ~wrapped /\ index + 1 >= size
      <4>1. wrapped' = TRUE /\ index' = 0 /\ startIndex' = startIndex
        BY <2>1, <2>b, <3>2
      <4> QED
        BY <2>2, <4>1
    <3>3. CASE ~wrapped /\ ~(index + 1 >= size)
      <4>1. wrapped' = FALSE /\ index' = index + 1 /\ startIndex' = startIndex
        BY <2>1, <2>b, <3>3
      <4> QED
        BY <2>2, <2>a, <3>3, <4>1
    <3> QED
      BY <2>2, <3>1, <3>2, <3>3
  <2>5. Seen' \subseteq Seen \cup {index}
    BY <1>0, <2>1, <2>2, <2>3 DEF IInv, LoopsSound, LookupSound, Succ, RoundTrip, Seen
  <2>6. LookupSound'
    BY <2>1, <2>4, <2>5 DEF IInv, LoopsSound, LookupSound
  <2> QED
    BY <2>1, <2>6 DEF IInv, ChainsUnbroken, ExpansionFaithful, ValuesStored, LoopsSound,
         PutSound, RehashSound, WalkSound
<1>3. CASE WalkSkip \/ WalkVisit
  <2>1. /\ pc = "walk" /\ pc' = "walk" /\ UNCHANGED map
        /\ nextIndex \in Nat /\ nextIndex < size /\ nextIndex' = nextIndex + 1
        /\ visited' = visited \cup {entries[q].key : q \in Occupied(entries) \cap {nextIndex}}
    <3>1. nextIndex \in DOMAIN entries
      BY <1>0, <1>3 DEF WalkSkip, WalkVisit, TypeOK, Table
    <3>2. CASE WalkSkip
      BY <1>0, <3>1, <3>2 DEF WalkSkip, TypeOK, Occupied
    <3>3. CASE WalkVisit
      BY <1>0, <3>1, <3>3 DEF WalkVisit, TypeOK, Occupied
    <3> QED
      BY <1>3, <3>2, <3>3
  <2>2. Occupied(entries) \subseteq 0..size-1
    BY <1>0 DEF Good, Table, Occupied
  <2>3. {q \in Occupied(entries) : q < nextIndex'}
          = {q \in Occupied(entries) : q < nextIndex} \cup (Occupied(entries) \cap {nextIndex})
    BY <1>0, <2>1, <2>2
  <2>4. WalkSound'
    BY <2>1, <2>3 DEF IInv, LoopsSound, WalkSound
  <2> QED
    BY <2>1, <2>4 DEF IInv, ChainsUnbroken, ExpansionFaithful, ValuesStored, LoopsSound,
         LookupSound, PutSound, RehashSound
<1> QED
  BY <1>1, <1>2, <1>3

\* What holds whenever entry_put_unchecked looks at a slot of the live table.
LEMMA PutPlace ==
  ASSUME IInv, PutUpdate \/ PutInsert \/ PutAdvance
  PROVE  /\ size \in Nat /\ size >= 1 /\ Good(entries, size)
         /\ pc = "put" /\ index \in 0..size-1
         /\ call.key \in Keys /\ call.key # NULL /\ call.value \in Values /\ call.op = "put"
         /\ \A q \in Before(call.key, index, size) : entries[q].key \notin {NULL, call.key}
BY TablesGood, CallParts
   DEF IInv, TypeOK, PutUpdate, PutInsert, PutAdvance, LoopsSound, PutSound

Added == [key |-> call.key, value |-> call.value]

\* What the end of a put has stored: the call's pair, in place of any other of
\* its key.
LEMMA PutStores ==
  ASSUME IInv, PutUpdate \/ PutInsert
  PROVE  /\ Good(entries', size)
         /\ Stored(entries') = {d \in Stored(entries) : d.key # call.key} \cup {Added}
         /\ UNCHANGED size
<1> DEFINE e == Added
<1>0. /\ size \in Nat /\ size >= 1 /\ Good(entries, size)
      /\ pc = "put" /\ index \in 0..size-1
      /\ call.key \in Keys /\ call.key # NULL /\ call.value \in Values
      /\ \A q \in Before(call.key, index, size) : entries[q].key \notin {NULL, call.key}
  BY PutPlace
<1>e. e \in Entry /\ e.key = call.key /\ e.value = call.value /\ e.key # NULL
  BY <1>0 DEF Entry, Added
<1> HIDE DEF e
<1>2. CASE PutUpdate
  <2>1. /\ entries[index].key = e.key /\ UNCHANGED size
        /\ entries' = [entries EXCEPT ![index].value = call.value]
    BY <1>2, <1>e DEF PutUpdate
  <2>2. entries' = [entries EXCEPT ![index] = e]
    <3>1. entries[index] \in Entry
      BY <1>0 DEF Good, Table
    <3>2. [entries[index] EXCEPT !.value = call.value] = e
      BY <1>e, <2>1, <3>1 DEF Entry, e, Added
    <3>3. entries' = [entries EXCEPT ![index] = [entries[index] EXCEPT !.value = call.value]]
      BY <2>1
    <3> QED
      BY <3>2, <3>3
  <2>3. Writes(entries, index, e, entries')
    BY <2>2 DEF Writes
  <2>4. /\ Good(entries', size)
        /\ Stored(entries') = {d \in Stored(entries) : d.key # e.key} \cup {e}
    <3>1. entries[index].key = e.key
      BY <2>1
    <3> QED
      BY <1>0, <1>e, <2>3, <3>1, UpdateKeepsGood
  <2> QED
    BY <1>e, <2>1, <2>4 DEF e
<1>3. CASE PutInsert
  <2>1. entries[index].key = NULL /\ entries' = [entries EXCEPT ![index] = e] /\ UNCHANGED size
    BY <1>3 DEF PutInsert, e, Added
  <2>2. \A j \in 0..size-1 : entries[j].key # e.key
    BY <1>0, <1>e, <2>1, EmptySlotEndsProbe
  <2>3. Writes(entries, index, e, entries')
    BY <2>1 DEF Writes
  <2>4. Good(entries', size) /\ Stored(entries') = Stored(entries) \cup {e}
    <3>1. /\ e.key \in Keys /\ entries[index].key = NULL
          /\ \A q \in Before(e.key, index, size) : entries[q].key # NULL
      BY <1>0, <1>e, <2>1
    <3>2. size \in Nat /\ size >= 1 /\ index \in 0..size-1 /\ Good(entries, size)
      BY <1>0
    <3> QED
      BY <1>e, <2>2, <2>3, <3>1, <3>2, InsertKeepsGood
  <2>5. Stored(entries) = {d \in Stored(entries) : d.key # call.key}
    BY <1>0, <1>e, <2>2 DEF Stored, Occupied, Good, Table
  <2> QED
    BY <2>1, <2>4, <2>5 DEF e
<1> QED
  BY <1>2, <1>3

\* entry_put_unchecked on the live table.
LEMMA PuttingKeepsChains ==
  ASSUME IInv, TypeOK', PutUpdate \/ PutInsert \/ PutAdvance
  PROVE  IInv'
<1> USE DEF map, locals, probe, iter
<1>0. /\ size \in Nat /\ size >= 1 /\ Good(entries, size)
      /\ pc = "put" /\ index \in 0..size-1
      /\ call.key \in Keys /\ call.value \in Values
      /\ \A q \in Before(call.key, index, size) : entries[q].key \notin {NULL, call.key}
  BY PutPlace
<1>1. CASE PutUpdate \/ PutInsert
  <2>1. pc' = "idle"
    BY <1>1 DEF PutUpdate, PutInsert, Return
  <2>2. ChainsUnbroken'
    BY <1>1, <2>1, PutStores DEF Good, ChainsUnbroken
  <2>3. ValuesStored'
    <3>1. Added.value \in Values
      BY <1>0 DEF Added
    <3> QED
      BY <1>1, <3>1, PutStores DEF IInv, ValuesStored
  <2> QED
    BY <2>1, <2>2, <2>3 DEF IInv, ExpansionFaithful, LoopsSound, LookupSound, PutSound,
         RehashSound, WalkSound
<1>2. CASE PutAdvance
  <2>1. /\ pc' = "put" /\ UNCHANGED <<map, call>> /\ index' = Succ(index, size)
        /\ entries[index].key \notin {NULL, call.key}
    BY <1>0, <1>2 DEF PutAdvance
  <2>2. Before(call.key, index', size) \subseteq Before(call.key, index, size) \cup {index}
    BY <1>0, <2>1, ProbeSteps
  <2>3. PutSound'
    BY <1>0, <2>1, <2>2 DEF PutSound
  <2> QED
    BY <2>1, <2>3 DEF IInv, ChainsUnbroken, ExpansionFaithful, ValuesStored, LoopsSound,
         LookupSound, RehashSound, WalkSound
<1> QED
  BY <1>1, <1>2

\* The key of the slot that is being copied is in no slot of the new table.
LEMMA CopyIsNew ==
  ASSUME IInv, pc = "rehash"
  PROVE  \A j \in Occupied(newEntries) : newEntries[j].key # entries[i].key
<1> SUFFICES ASSUME NEW j \in Occupied(newEntries), newEntries[j].key = entries[i].key
             PROVE  FALSE
  OBVIOUS
<1>1. PICK c \in Copied : newEntries[j] = entries[c]
  BY DEF IInv, ExpansionFaithful
<1>2. i \in Occupied(entries)
  BY DEF IInv, TypeOK, Table, Occupied
<1>3. c \in Occupied(entries) /\ c < i /\ entries[c].key = entries[i].key
  BY <1>1 DEF Copied
<1> QED
  BY <1>2, <1>3 DEF IInv, ChainsUnbroken, KeysUnique, TypeOK, Table, Occupied

\* expand_string_map, and entry_put_unchecked on the new table.
LEMMA ExpandingKeepsChains ==
  ASSUME IInv, TypeOK',
         ExpandSkip \/ ExpandTake \/ RehashPlace \/ RehashAdvance \/ ExpandSwap
  PROVE  IInv'
<1> USE DEF map, locals, probe, iter
<1>0. /\ size \in Nat /\ size >= 2 /\ TypeOK /\ i \in Nat
      /\ NewSize \in Nat /\ NewSize >= 1
      /\ Good(entries, size) /\ Good(newEntries, NewSize)
      /\ Stored(newEntries) = {entries[j] : j \in Copied}
      /\ call.key \in Keys
  <2>1. pc \in {"expand", "rehash"}
    BY DEF ExpandSkip, ExpandTake, RehashPlace, RehashAdvance, ExpandSwap
  <2>2. size \in Nat /\ size >= 2 /\ TypeOK /\ i \in Nat
    BY DEF IInv, TypeOK
  <2>3. Good(entries, size) /\ Good(newEntries, NewSize)
    BY <2>1, <2>2, TablesGood DEF IInv
  <2>4. Stored(newEntries) = {entries[j] : j \in Copied}
    BY <2>1 DEF IInv, ExpansionFaithful, Stored
  <2> QED
    BY <2>1, <2>2, <2>3, <2>4, CallParts DEF NewSize
<1>1. CASE ExpandSkip
  <2>1. pc = "expand" /\ pc' = "expand" /\ UNCHANGED <<map, newEntries>> /\ i' = i + 1
    BY <1>1 DEF ExpandSkip
  <2>2. Copied' = Copied
    BY <1>0, <1>1, <2>1 DEF ExpandSkip, Copied, Occupied, Good, Table
  <2> QED
    BY <2>1, <2>2 DEF IInv, ChainsUnbroken, ExpansionFaithful, ValuesStored, LoopsSound,
         LookupSound, PutSound, RehashSound, WalkSound, NewSize
<1>2. CASE ExpandTake
  <2>1. /\ pc = "expand" /\ pc' = "rehash" /\ UNCHANGED <<map, newEntries, i>>
        /\ i < size /\ entries[i].key # NULL /\ index' = Home(entries[i].key, NewSize)
    BY <1>2 DEF ExpandTake, StartProbe
  <2>2. entries[i].key \in Keys
    BY <1>0, <2>1 DEF Good, Table, Entry
  <2>3. Home(entries[i].key, NewSize) \in 0..NewSize-1
    BY <1>0, <2>2, HomeIsSlot
  <2>4. Before(entries[i].key, index', NewSize) = {}
    BY <1>0, <2>1, <2>2, <2>3, ProbeSteps
  <2>5. RehashSound'
    BY <2>1, <2>4 DEF RehashSound, NewSize
  <2>6. Copied' = Copied
    BY <2>1 DEF Copied
  <2> QED
    BY <2>1, <2>5, <2>6 DEF IInv, ChainsUnbroken, ExpansionFaithful, ValuesStored, LoopsSound,
         LookupSound, PutSound, WalkSound, NewSize
<1>3. ASSUME pc = "rehash" PROVE
        /\ index \in 0..NewSize-1 /\ i \in 0..size-1
        /\ entries[i] \in Entry /\ entries[i].key \in Keys
        /\ \A q \in Before(entries[i].key, index, NewSize) : newEntries[q].key # NULL
        /\ \A j \in 0..NewSize-1 : newEntries[j].key # entries[i].key
  <2>1. index \in 0..NewSize-1 /\ i \in 0..size-1 /\ entries[i].key # NULL
    BY <1>0, <1>3 DEF TypeOK
  <2>2. entries[i] \in Entry /\ entries[i].key \in Keys
    BY <1>0, <2>1 DEF Good, Table, Entry
  <2>3. \A j \in 0..NewSize-1 : newEntries[j].key # entries[i].key
    BY <1>0, <1>3, <2>1, CopyIsNew DEF Occupied, Good, Table
  <2> QED
    BY <1>3, <2>1, <2>2, <2>3 DEF IInv, LoopsSound, RehashSound
<1>4. CASE RehashPlace
  <2>1. /\ pc = "rehash" /\ pc' = "expand" /\ UNCHANGED map /\ i' = i + 1
        /\ newEntries[index].key = NULL
        /\ newEntries' = [newEntries EXCEPT ![index] = entries[i]]
    BY <1>3, <1>4 DEF RehashPlace
  <2>w. Writes(newEntries, index, entries[i], newEntries')
    BY <2>1 DEF Writes
  <2>a. \A q \in Before(entries[i].key, index, NewSize) : newEntries[q].key # NULL
    BY <1>3, <2>1
  <2>2. /\ Good(newEntries', NewSize)
        /\ Stored(newEntries') = Stored(newEntries) \cup {entries[i]}
    <3>1. newEntries[index].key = NULL /\ pc = "rehash"
      BY <2>1
    <3>2. /\ NewSize \in Nat /\ NewSize >= 1 /\ Good(newEntries, NewSize)
          /\ index \in 0..NewSize-1
          /\ entries[i] \in Entry /\ entries[i].key \in Keys
          /\ \A j \in 0..NewSize-1 : newEntries[j].key # entries[i].key
      BY <1>0, <1>3, <3>1
    <3> QED
      BY <2>a, <2>w, <3>1, <3>2, InsertKeepsGood
  <2>3. Copied' = Copied \cup {i}
    BY <1>0, <1>3, <2>1 DEF Copied, Occupied, Good, Table
  <2>4. Stored(newEntries') = {entries[j] : j \in Copied'}
    BY <1>0, <2>2, <2>3
  <2>5. ExpansionFaithful'
    BY <2>1, <2>4 DEF ExpansionFaithful, Stored
  <2>6. ChainsUnbroken'
    BY <1>0, <2>1, <2>2 DEF ChainsUnbroken, Good, NewSize
  <2> QED
    BY <2>1, <2>5, <2>6 DEF IInv, ValuesStored, LoopsSound, LookupSound, PutSound,
         RehashSound, WalkSound
<1>5. CASE RehashAdvance
  <2>1. /\ pc = "rehash" /\ pc' = "rehash" /\ UNCHANGED <<map, newEntries, i>>
        /\ newEntries[index].key # NULL /\ index' = Succ(index, NewSize)
    BY <1>5 DEF RehashAdvance
  <2>2. Before(entries[i].key, index', NewSize)
          \subseteq Before(entries[i].key, index, NewSize) \cup {index}
    BY <1>0, <1>3, <2>1, ProbeSteps
  <2>3. RehashSound'
    BY <1>3, <2>1, <2>2 DEF RehashSound, NewSize
  <2>4. Copied' = Copied
    BY <2>1 DEF Copied
  <2> QED
    BY <2>1, <2>3, <2>4 DEF IInv, ChainsUnbroken, ExpansionFaithful, ValuesStored, LoopsSound,
         LookupSound, PutSound, WalkSound, NewSize
<1>6. CASE ExpandSwap
  <2>1. /\ pc = "expand" /\ pc' = "put" /\ i >= size /\ UNCHANGED call
        /\ entries' = newEntries /\ size' = NewSize /\ index' = Home(call.key, NewSize)
    BY <1>6 DEF ExpandSwap, StartProbe
  <2>2. Copied = Occupied(entries)
    BY <1>0, <2>1 DEF Copied, Occupied, Good, Table
  <2>3. Stored(entries') = Stored(entries)
    BY <1>0, <2>1, <2>2 DEF Stored
  <2>4. Home(call.key, NewSize) \in 0..NewSize-1
    BY <1>0, HomeIsSlot
  <2>5. Before(call.key, index', size') = {}
    BY <1>0, <2>1, <2>4, ProbeSteps
  <2>6. PutSound'
    BY <2>1, <2>5 DEF PutSound
  <2>7. ChainsUnbroken' /\ ValuesStored'
    BY <1>0, <2>1, <2>3 DEF ChainsUnbroken, Good, IInv, ValuesStored
  <2> QED
    BY <2>1, <2>6, <2>7 DEF IInv, ExpansionFaithful, LoopsSound, LookupSound, RehashSound, WalkSound
<1> QED
  BY <1>1, <1>2, <1>4, <1>5, <1>6

\* Every call, and every iteration of every loop, keeps it.
LEMMA ChainsInvariant == Spec => []IInv
<1>1. Init /\ TypeOK => IInv
  BY InitKeepsChains
<1>2. IInv /\ TypeOK' /\ [Next]_vars => IInv'
  <2> SUFFICES ASSUME IInv, TypeOK', [Next]_vars PROVE IInv'
    OBVIOUS
  <2>1. CASE UNCHANGED vars
    <3>1. UNCHANGED <<entries, size, len, newEntries, i, index, startIndex, wrapped, nextIndex,
                      visited, call, result, pc>>
      BY <2>1 DEF vars, map, locals, probe, iter
    <3>2. ChainsUnbroken' /\ ValuesStored'
      BY <3>1 DEF IInv, ChainsUnbroken, ValuesStored, NewSize
    <3>3. ExpansionFaithful'
      BY <3>1 DEF IInv, ExpansionFaithful, Copied, NewSize
    <3>4. LookupSound' /\ PutSound' /\ WalkSound'
      BY <3>1 DEF IInv, LoopsSound, LookupSound, PutSound, WalkSound, Seen
    <3>5. RehashSound'
      BY <3>1 DEF IInv, LoopsSound, RehashSound, Seen, NewSize
    <3> QED
      BY <3>2, <3>3, <3>4, <3>5 DEF IInv, LoopsSound
  <2> QED
    BY <2>1, CallsKeepChains, ReadingKeepsChains, PuttingKeepsChains, ExpandingKeepsChains
       DEF Next, Step
<1> QED
  BY <1>1, <1>2, TypeCorrect, PTL DEF Spec

\* Whatever the keys and however they collide: every stored key can be reached
\* from its home slot without meeting an empty one, and is stored once, in the
\* live table and at every point of an expansion in the new one.  The invariant
\* adds to this what the loops know of the slots that they have passed.
THEOREM ChainsNeverBroken == Spec => []ChainsUnbroken
<1>1. IInv => ChainsUnbroken
  BY DEF IInv
<1> QED
  BY <1>1, ChainsInvariant, PTL

\* At every point of an expansion the new table stores what the slots copied so
\* far stored: nothing is lost, overwritten or stored twice.
THEOREM ExpansionLosesNothing == Spec => []ExpansionFaithful
<1>1. IInv => ExpansionFaithful
  BY DEF IInv
<1> QED
  BY <1>1, ChainsInvariant, PTL

-----------------------------------------------------------------------------
(* The table implements the partial function. *)

\* What a table holds, as Contents says it of the live one.
Meaning(t) ==
  [k \in Keys |->
     IF \E j \in DOMAIN t : t[j].key = k
     THEN t[CHOOSE j \in DOMAIN t : t[j].key = k].value
     ELSE NULL]

\* It depends on what is stored and not on where.
LEMMA MeaningOfStored ==
  ASSUME NEW n \in Nat, NEW t, Good(t, n)
  PROVE  /\ \A e \in Stored(t) : e.key \in Keys /\ Meaning(t)[e.key] = e.value
         /\ \A k \in Keys : (\A e \in Stored(t) : e.key # k) => Meaning(t)[k] = NULL
         /\ DOMAIN Meaning(t) = Keys
<1>1. DOMAIN t = 0..n-1 /\ Occupied(t) \subseteq DOMAIN t
  BY DEF Good, Table, Occupied
<1>2. ASSUME NEW e \in Stored(t) PROVE e.key \in Keys /\ Meaning(t)[e.key] = e.value
  <2>1. PICK j \in Occupied(t) : e = t[j]
    BY DEF Stored
  <2>2. e.key \in Keys
    BY <1>1, <2>1 DEF Occupied, Good, Table, Entry
  <2>3. \A p \in DOMAIN t : t[p].key = e.key => p = j
    BY <2>1, <2>2 DEF Occupied, Good, KeysUnique
  <2>4. j \in DOMAIN t /\ t[j].key = e.key
    BY <1>1, <2>1
  <2>5. (CHOOSE p \in DOMAIN t : t[p].key = e.key) = j
    BY <2>3, <2>4
  <2>6. Meaning(t)[e.key] = t[CHOOSE p \in DOMAIN t : t[p].key = e.key].value
    BY <2>2, <2>4 DEF Meaning
  <2> QED
    BY <2>1, <2>2, <2>5, <2>6
<1>3. ASSUME NEW k \in Keys, \A e \in Stored(t) : e.key # k PROVE Meaning(t)[k] = NULL
  <2>1. ~\E j \in DOMAIN t : t[j].key = k
    BY <1>1, <1>3 DEF Occupied, Stored
  <2> QED
    BY <2>1 DEF Meaning
<1>4. DOMAIN Meaning(t) = Keys
  BY DEF Meaning
<1> QED
  BY <1>2, <1>3, <1>4

\* So two tables that store the same mean the same,
LEMMA SameMeaning ==
  ASSUME NEW n \in Nat, NEW t, Good(t, n), NEW m \in Nat, NEW u, Good(u, m),
         Stored(t) = Stored(u)
  PROVE  Meaning(t) = Meaning(u)
<1>1. \A k \in Keys : Meaning(t)[k] = Meaning(u)[k]
  <2> SUFFICES ASSUME NEW k \in Keys PROVE Meaning(t)[k] = Meaning(u)[k]
    OBVIOUS
  <2>1. CASE \E e \in Stored(t) : e.key = k
    BY <2>1, MeaningOfStored
  <2>2. CASE \A e \in Stored(t) : e.key # k
    <3>1. Meaning(t)[k] = NULL
      BY <2>2, MeaningOfStored
    <3>2. Meaning(u)[k] = NULL
      BY <2>2, MeaningOfStored
    <3> QED
      BY <3>1, <3>2
  <2> QED
    BY <2>1, <2>2
<1> QED
  BY <1>1 DEF Meaning

\* and storing one more pair is what the abstract put does.
LEMMA PutMeaning ==
  ASSUME NEW n \in Nat, NEW t, Good(t, n), NEW u, Good(u, n), NEW e, e.key \in Keys,
         Stored(u) = {d \in Stored(t) : d.key # e.key} \cup {e}
  PROVE  Meaning(u) = [Meaning(t) EXCEPT ![e.key] = e.value]
<1>1. \A k \in Keys : Meaning(u)[k] = IF k = e.key THEN e.value ELSE Meaning(t)[k]
  <2> SUFFICES ASSUME NEW k \in Keys
               PROVE  Meaning(u)[k] = IF k = e.key THEN e.value ELSE Meaning(t)[k]
    OBVIOUS
  <2>1. CASE k = e.key
    <3>1. e \in Stored(u)
      OBVIOUS
    <3> QED
      BY <2>1, <3>1, MeaningOfStored
  <2>2. CASE k # e.key /\ \E d \in Stored(t) : d.key = k
    <3>1. PICK d \in Stored(t) : d.key = k
      BY <2>2
    <3>2. d \in Stored(u)
      BY <2>2, <3>1
    <3>3. Meaning(t)[k] = d.value
      BY <3>1, MeaningOfStored
    <3>4. Meaning(u)[k] = d.value
      BY <3>1, <3>2, MeaningOfStored
    <3> QED
      BY <2>2, <3>3, <3>4
  <2>3. CASE k # e.key /\ \A d \in Stored(t) : d.key # k
    <3>1. \A d \in Stored(u) : d.key # k
      BY <2>3
    <3>2. Meaning(t)[k] = NULL
      BY <2>3, MeaningOfStored
    <3>3. Meaning(u)[k] = NULL
      BY <3>1, MeaningOfStored
    <3> QED
      BY <2>3, <3>2, <3>3
  <2> QED
    BY <2>1, <2>2, <2>3
<1>2. PICK f, g : f = Meaning(u) /\ g = Meaning(t)
  OBVIOUS
<1>3. f = [k \in Keys |-> f[k]] /\ g = [k \in Keys |-> g[k]]
  BY <1>2 DEF Meaning
<1>4. \A k \in Keys : f[k] = [g EXCEPT ![e.key] = e.value][k]
  BY <1>1, <1>2, <1>3
<1>5. [g EXCEPT ![e.key] = e.value] = [k \in Keys |-> [g EXCEPT ![e.key] = e.value][k]]
  BY <1>3
<1> QED
  BY <1>2, <1>3, <1>4, <1>5

\* The refinement mapping, as the meaning of the live table.
LEMMA ContentsAreMeaning == Contents = Meaning(entries)
BY DEF Contents, Meaning

\* A call in progress has no answer yet.
Unanswered == pc # "idle" => result = {}

\* The answer is written by the step that ends the call.
LEMMA AnswersComeLast == Spec => []Unanswered
<1>1. Init => Unanswered
  BY DEF Init, Unanswered
<1>2. Unanswered /\ [Next]_vars => Unanswered'
  <2> SUFFICES ASSUME Unanswered, [Next]_vars PROVE Unanswered'
    OBVIOUS
  <2>1. CASE (\E k \in Keys, v \in Values : CallPut(k, v))
               \/ (\E op \in {"get", "has"}, k \in Keys : CallLookup(op, k)) \/ CallWalk
    BY <2>1 DEF CallPut, CallLookup, CallWalk, Unanswered
  <2>2. CASE LookupMiss \/ LookupHit \/ PutUpdate \/ PutInsert \/ WalkEnd
    BY <2>2 DEF LookupMiss, LookupHit, PutUpdate, PutInsert, WalkEnd, Return, Unanswered
  <2>3. CASE LookupAdvance \/ PutAdvance \/ WalkSkip \/ WalkVisit
    BY <2>3 DEF LookupAdvance, PutAdvance, WalkSkip, WalkVisit, Unanswered
  <2>4. CASE ExpandSkip \/ ExpandTake \/ RehashPlace \/ RehashAdvance \/ ExpandSwap
    BY <2>4 DEF ExpandSkip, ExpandTake, RehashPlace, RehashAdvance, ExpandSwap, Unanswered
  <2>5. CASE UNCHANGED vars
    BY <2>5 DEF vars, Unanswered
  <2> QED
    BY <2>1, <2>2, <2>3, <2>4, <2>5 DEF Next, Step
<1> QED
  BY <1>1, <1>2, PTL DEF Spec

\* A new map holds nothing.
LEMMA InitRefines == ASSUME Init PROVE KV!Init
<1>1. Good(entries, 2) /\ Stored(entries) = {}
  BY EmptyIsGood DEF Init
<1>2. \A k \in Keys : Contents[k] = NULL
  BY <1>1, MeaningOfStored, ContentsAreMeaning
<1>3. Contents = [k \in Keys |-> NULL]
  BY <1>2 DEF Contents
<1> QED
  BY <1>3 DEF Init, KV!Init, NoCall, KV!NoCall

\* A step that does not write the live table leaves the contents.
LEMMA SameContents == UNCHANGED entries => UNCHANGED Contents
BY DEF Contents

\* The beginning of a call is the abstract one's.
LEMMA CallsRefine ==
  ASSUME TypeOK, TypeOK',
         \/ \E k \in Keys, v \in Values : CallPut(k, v)
         \/ \E op \in {"get", "has"}, k \in Keys : CallLookup(op, k)
         \/ CallWalk
  PROVE  KV!Next
<1>1. /\ pc = "idle" /\ pc' # "idle" /\ result' = {} /\ UNCHANGED entries
  BY DEF CallPut, CallLookup, CallWalk, map
<1>2. call = NoCall /\ call' # NoCall /\ call' \in Requests
  BY <1>1 DEF TypeOK
<1>3. NoCall = KV!NoCall /\ Requests = KV!Requests
  BY DEF NoCall, KV!NoCall, Requests, KV!Requests
<1>4. KV!Invoke(call')
  BY <1>1, <1>2, <1>3, SameContents DEF KV!Invoke
<1> QED
  BY <1>2, <1>3, <1>4 DEF KV!Next

\* A put ends with the abstract put.
LEMMA PutRefines ==
  ASSUME IInv, Unanswered, PutUpdate \/ PutInsert
  PROVE  KV!Next
<1>1. /\ size \in Nat /\ Good(entries, size) /\ Good(entries', size)
      /\ call.op = "put" /\ call.key \in Keys
      /\ Stored(entries') = {d \in Stored(entries) : d.key # call.key} \cup {Added}
  BY PutPlace, PutStores
<1>2. Added.key = call.key /\ Added.value = call.value
  BY DEF Added
<1>3. Meaning(entries') = [Meaning(entries) EXCEPT ![call.key] = call.value]
  <2> HIDE DEF Added
  <2>1. Stored(entries') = {d \in Stored(entries) : d.key # Added.key} \cup {Added}
    BY <1>1, <1>2
  <2>2. Meaning(entries') = [Meaning(entries) EXCEPT ![Added.key] = Added.value]
    BY <1>1, <1>2, <2>1, PutMeaning
  <2> QED
    BY <1>2, <2>2
<1>4. Contents' = [Contents EXCEPT ![call.key] = call.value]
  <2>1. Contents' = Meaning(entries')
    BY DEF Contents, Meaning
  <2> QED
    BY <1>3, <2>1, ContentsAreMeaning
<1>5. call' = KV!NoCall /\ result' = {} /\ result = {}
  BY DEF PutUpdate, PutInsert, Return, NoCall, KV!NoCall, Unanswered
<1> QED
  BY <1>1, <1>4, <1>5 DEF KV!Put, KV!Next

\* A lookup ends with the abstract get or has: a hit with the value stored, and a
\* miss only if the key is in no slot.
LEMMA LookupsRefine ==
  ASSUME IInv, LookupMiss \/ LookupHit
  PROVE  KV!Next
<1>0. /\ size \in Nat /\ size >= 2 /\ Good(entries, size)
      /\ pc = "lookup" /\ index \in 0..size-1
      /\ call.key \in Keys /\ call.op \in {"get", "has"}
      /\ startIndex = Home(call.key, size)
      /\ IF wrapped THEN index <= startIndex ELSE startIndex <= index
      /\ \A q \in Seen : entries[q].key \notin {NULL, call.key}
  BY TablesGood, CallParts
     DEF IInv, TypeOK, LookupMiss, LookupHit, LoopsSound, LookupSound
<1>1. PICK vs : /\ result' = Answer(vs)
                /\ vs = {Contents[call.key]} \ {NULL}
  <2>1. CASE LookupHit
    <3>1. entries[index].key = call.key /\ result' = Answer({entries[index].value})
      BY <2>1 DEF LookupHit, Return
    <3>2. entries[index] \in Stored(entries)
      BY <1>0, <3>1 DEF Stored, Occupied, Good, Table
    <3>3. entries[index].value # NULL /\ Contents[call.key] = entries[index].value
      BY <1>0, <3>1, <3>2, MeaningOfStored, ContentsAreMeaning DEF IInv, ValuesStored
    <3> QED
      BY <3>1, <3>3
  <2>2. CASE LookupMiss
    <3>1. result' = Answer({})
      BY <2>2 DEF LookupMiss, Return
    <3>2. \A j \in 0..size-1 : entries[j].key # call.key
      <4>1. CASE RoundTrip
        <5>1. Seen = 0..size-1
          BY <1>0, <4>1 DEF RoundTrip, Seen
        <5> QED
          BY <1>0, <5>1
      <4>2. CASE ~RoundTrip
        <5>1. entries[index].key = NULL
          BY <2>2, <4>2 DEF LookupMiss
        <5>2. Before(call.key, index, size) \subseteq Seen
          BY <1>0, <4>2 DEF RoundTrip, Seen, Before
        <5> QED
          BY <1>0, <5>1, <5>2, EmptySlotEndsProbe
      <4> QED
        BY <4>1, <4>2
    <3>3. \A e \in Stored(entries) : e.key # call.key
      BY <3>2 DEF Stored, Occupied, IInv, TypeOK, Table
    <3>4. Contents[call.key] = NULL
      BY <1>0, <3>3, MeaningOfStored, ContentsAreMeaning
    <3> QED
      BY <3>1, <3>4
  <2> QED
    BY <2>1, <2>2
<1>2. call' = KV!NoCall /\ UNCHANGED entries
  BY DEF LookupMiss, LookupHit, Return, NoCall, KV!NoCall, map
<1>3. UNCHANGED Contents
  BY <1>2, SameContents
<1>4. CASE call.op = "get"
  <2>1. result' = {Contents[call.key]} \ {NULL}
    BY <1>1, <1>4 DEF Answer
  <2>2. KV!Get
    BY <1>2, <1>3, <1>4, <2>1 DEF KV!Get
  <2> QED
    BY <2>2 DEF KV!Next
<1>5. CASE call.op = "has"
  <2>1. result' = {TRUE : v \in vs}
    BY <1>1, <1>5 DEF Answer
  <2>2. vs = {} <=> KV!Present \cap {call.key} = {}
    BY <1>0, <1>1 DEF KV!Present
  <2>3. result' = {TRUE : k \in KV!Present \cap {call.key}}
    BY <2>1, <2>2
  <2>4. KV!Has
    BY <1>2, <1>3, <1>5, <2>3 DEF KV!Has
  <2> QED
    BY <2>4 DEF KV!Next
<1> QED
  BY <1>0, <1>4, <1>5

\* An iteration has returned every key that is present.
LEMMA WalkRefines ==
  ASSUME IInv, WalkEnd
  PROVE  KV!Next
<1>1. /\ size \in Nat /\ Good(entries, size) /\ nextIndex >= size /\ pc = "walk"
      /\ call.op = "walk" /\ result' = visited
  BY TablesGood DEF IInv, TypeOK, WalkEnd, Return
<1>2. call' = KV!NoCall /\ UNCHANGED entries
  BY DEF WalkEnd, Return, NoCall, KV!NoCall, map
<1>3. visited = {e.key : e \in Stored(entries)}
  <2>1. {q \in Occupied(entries) : q < nextIndex} = Occupied(entries)
    BY <1>1 DEF Occupied, Good, Table, IInv, TypeOK
  <2>2. visited = {entries[j].key : j \in Occupied(entries)}
    BY <1>1, <2>1 DEF IInv, LoopsSound, WalkSound
  <2> QED
    BY <2>2 DEF Stored
<1>4. \A e \in Stored(entries) : e.key \in Keys /\ Contents[e.key] # NULL
  BY <1>1, MeaningOfStored, ContentsAreMeaning DEF IInv, ValuesStored
<1>5. \A k \in Keys : (\A e \in Stored(entries) : e.key # k) => Contents[k] = NULL
  BY <1>1, MeaningOfStored, ContentsAreMeaning
<1>6. visited = KV!Present
  BY <1>3, <1>4, <1>5 DEF KV!Present
<1>7. UNCHANGED Contents
  BY <1>2, SameContents
<1>8. KV!Walk
  BY <1>1, <1>2, <1>6, <1>7 DEF KV!Walk
<1> QED
  BY <1>8 DEF KV!Next

\* What the loops do in between nobody sees, the exchange of the tables included.
LEMMA LoopsStutter ==
  ASSUME IInv,
         \/ LookupAdvance \/ PutAdvance \/ WalkSkip \/ WalkVisit
         \/ ExpandSkip \/ ExpandTake \/ RehashPlace \/ RehashAdvance \/ ExpandSwap
         \/ UNCHANGED vars
  PROVE  UNCHANGED KV!vars
<1>1. UNCHANGED <<call, result>>
  BY DEF LookupAdvance, PutAdvance, WalkSkip, WalkVisit, ExpandSkip, ExpandTake, RehashPlace,
         RehashAdvance, ExpandSwap, vars
<1>2. CASE ExpandSwap
  <2>1. /\ pc = "expand" /\ i >= size /\ entries' = newEntries
        /\ size \in Nat /\ NewSize \in Nat /\ i \in Nat
        /\ Good(entries, size) /\ Good(newEntries, NewSize)
    BY <1>2, TablesGood DEF ExpandSwap, IInv, TypeOK, NewSize
  <2>2. Copied = Occupied(entries)
    BY <2>1 DEF Copied, Occupied, Good, Table
  <2>3. Stored(newEntries) = Stored(entries)
    BY <2>1, <2>2 DEF Stored, IInv, ExpansionFaithful
  <2>4. Meaning(newEntries) = Meaning(entries)
    BY <2>1, <2>3, SameMeaning
  <2>5. Contents' = Meaning(newEntries)
    BY <2>1 DEF Contents, Meaning
  <2> QED
    BY <1>1, <2>4, <2>5, ContentsAreMeaning DEF KV!vars
<1>3. CASE ~ExpandSwap
  <2>1. UNCHANGED entries
    BY <1>3 DEF LookupAdvance, PutAdvance, WalkSkip, WalkVisit, ExpandSkip, ExpandTake,
         RehashPlace, RehashAdvance, vars, map
  <2> QED
    BY <1>1, <2>1, SameContents DEF KV!vars
<1> QED
  BY <1>2, <1>3

\* The hash table is a partial function, for every set of keys and values and
\* every hash function: through collisions, wrap-around and expansions a get
\* returns what the last put of its key has stored, has says whether there was
\* one, and an iteration returns the keys that there are.
THEOREM TableImplementsMap == Spec => ImplementsMap
<1>1. Init => KV!Init
  BY InitRefines
<1>2. IInv /\ TypeOK' /\ Unanswered /\ [Next]_vars => [KV!Next]_(KV!vars)
  <2> SUFFICES ASSUME IInv, TypeOK', Unanswered, [Next]_vars PROVE [KV!Next]_(KV!vars)
    OBVIOUS
  <2>1. TypeOK
    BY DEF IInv
  <2> QED
    BY <2>1, CallsRefine, PutRefines, LookupsRefine, WalkRefines, LoopsStutter DEF Next, Step
<1> QED
  BY <1>1, <1>2, ChainsInvariant, TypeCorrect, AnswersComeLast, PTL DEF Spec, ImplementsMap, KV!Spec
=============================================================================
