----------------------------- MODULE StringMap -----------------------------
(***************************************************************************)
(* src/utils/stringmap.c: an open-addressing hash table with linear        *)
(* probing that doubles when it is nearly full.  One step is one           *)
(* iteration of one of the file's loops, so that the states in which a     *)
(* probe or an expansion is half done are states of the model.             *)
(*                                                                         *)
(* The table is a function on 0..size-1 to entries; an entry whose key is  *)
(* NULL is an empty slot, as after calloc.  FNV-1a is any function Hash.   *)
(***************************************************************************)
EXTENDS Integers, FiniteSets

CONSTANTS Keys, Values, NULL,
          Hash,     \* what fnv1a_hash returns for each key
          MaxPuts   \* bound on the puts ever made

ASSUME ConstantsAssumption ==
  /\ NULL \notin Keys \cup Values
  /\ Hash \in [Keys -> Nat]
  /\ MaxPuts \in Nat

VARIABLES
  entries, size, len,          \* struct StringMap
  newEntries, i,               \* locals of expand_string_map
  index, startIndex, wrapped,  \* locals of the probing loops
  nextIndex, visited,          \* the iterator, and the keys it has returned
  call, result,                \* the call in progress, the last answer
  pc                           \* the loop that is running

map    == <<entries, size, len>>
locals == <<newEntries, i>>
probe  == <<index, startIndex, wrapped>>
iter   == <<nextIndex, visited>>
vars   == <<map, locals, probe, iter, call, result, pc>>

-----------------------------------------------------------------------------
(* Tables. *)

Entry      == [key : Keys \cup {NULL}, value : Values \cup {NULL}]
EmptyEntry == [key |-> NULL, value |-> NULL]
Table(n)   == [0..n-1 -> Entry]
Zeroed(n)  == [j \in 0..n-1 |-> EmptyEntry]

\* hash & (size - 1), with size a power of two
Home(k, n) == Hash[k] % n

\* Mutant of Succ: the index wraps one slot late.
SuccLate(j, n) == IF j + 1 > n THEN 0 ELSE j + 1

\* index++; if (index >= size) index = 0
Succ(j, n) == IF j + 1 >= n THEN 0 ELSE j + 1

Occupied(t) == {j \in DOMAIN t : t[j].key # NULL}

\* The occupied slots expand_string_map has already copied.
Copied == {j \in Occupied(entries) : j < i}
-----------------------------------------------------------------------------
(* The calls. *)

NoCall   == [op |-> "none", key |-> NULL, value |-> NULL]
Requests == {NoCall}
       \cup [op : {"put"}, key : Keys, value : Values]
       \cup [op : {"get", "has"}, key : Keys, value : {NULL}]
       \cup [op : {"walk"}, key : {NULL}, value : {NULL}]

\* Between calls the locals of the loops do not exist: they stand at 0.
Init ==
  /\ entries = Zeroed(2) /\ size = 2 /\ len = 0
  /\ newEntries = Zeroed(0) /\ i = 0
  /\ index = 0 /\ startIndex = 0 /\ wrapped = FALSE
  /\ nextIndex = 0 /\ visited = {}
  /\ call = NoCall /\ result = {} /\ pc = "idle"

StartProbe(k, n) == /\ index' = Home(k, n)
                    /\ startIndex' = Home(k, n)
                    /\ wrapped' = FALSE

\* Mutant of CallPut: the load test lets the table fill up.
CallPutLate(k, v) ==
  /\ pc = "idle"
  /\ len < MaxPuts
  /\ call' = [op |-> "put", key |-> k, value |-> v]
  /\ IF len > size
     THEN /\ pc' = "expand"
          /\ newEntries' = Zeroed(2 * size) /\ i' = 0
          /\ UNCHANGED probe
     ELSE /\ pc' = "put"
          /\ StartProbe(k, size)
          /\ UNCHANGED locals
  /\ result' = {}
  /\ UNCHANGED <<map, iter>>

\* string_map_put: expand first when one more entry would fill the table.
CallPut(k, v) ==
  /\ pc = "idle"
  /\ len < MaxPuts
  /\ call' = [op |-> "put", key |-> k, value |-> v]
  /\ IF len + 1 >= size
     THEN /\ pc' = "expand"
          /\ newEntries' = Zeroed(2 * size) /\ i' = 0
          /\ UNCHANGED probe
     ELSE /\ pc' = "put"
          /\ StartProbe(k, size)
          /\ UNCHANGED locals
  /\ result' = {}
  /\ UNCHANGED <<map, iter>>

\* string_map_get and string_map_has
CallLookup(op, k) ==
  /\ pc = "idle"
  /\ call' = [op |-> op, key |-> k, value |-> NULL]
  /\ pc' = "lookup"
  /\ StartProbe(k, size)
  /\ result' = {}
  /\ UNCHANGED <<map, locals, iter>>

\* string_map_iterator, then string_map_next until it returns false
CallWalk ==
  /\ pc = "idle"
  /\ call' = [op |-> "walk", key |-> NULL, value |-> NULL]
  /\ pc' = "walk"
  /\ nextIndex' = 0 /\ visited' = {}
  /\ result' = {}
  /\ UNCHANGED <<map, locals, probe>>

Return(r) ==
  /\ pc' = "idle" /\ call' = NoCall /\ result' = r
  /\ index' = 0 /\ startIndex' = 0 /\ wrapped' = FALSE
  /\ nextIndex' = 0 /\ visited' = {}
-----------------------------------------------------------------------------
(* The loop of string_map_get and string_map_has. *)

\* What it answers on finding the values in vs (none or one).
Answer(vs) == IF call.op = "has" THEN {TRUE : v \in vs} ELSE vs

\* The loop came back to where it started.
RoundTrip == wrapped /\ index = startIndex

LookupMiss ==
  /\ pc = "lookup"
  /\ entries[index].key = NULL \/ RoundTrip
  /\ Return(Answer({}))
  /\ UNCHANGED <<map, locals>>

LookupHit ==
  /\ pc = "lookup"
  /\ ~RoundTrip
  /\ entries[index].key = call.key
  /\ Return(Answer({entries[index].value}))
  /\ UNCHANGED <<map, locals>>

LookupAdvance ==
  /\ pc = "lookup"
  /\ ~RoundTrip
  /\ entries[index].key \notin {NULL, call.key}
  /\ index' = Succ(index, size)
  /\ wrapped' = (wrapped \/ index + 1 >= size)
  /\ UNCHANGED <<map, locals, startIndex, iter, call, result, pc>>
-----------------------------------------------------------------------------
(* The loop of entry_put_unchecked, on the map's entries. *)

\* Mutant of PutUpdate: a key that is there keeps its old value.
PutKeepsOld ==
  /\ pc = "put"
  /\ entries[index].key = call.key
  /\ len' = len + 1
  /\ Return({})
  /\ UNCHANGED <<entries, size, locals>>

PutUpdate ==
  /\ pc = "put"
  /\ entries[index].key = call.key
  /\ entries' = [entries EXCEPT ![index].value = call.value]
  /\ len' = len + 1
  /\ Return({})
  /\ UNCHANGED <<size, locals>>

PutInsert ==
  /\ pc = "put"
  /\ entries[index].key = NULL
  /\ entries' = [entries EXCEPT ![index] = [key |-> call.key, value |-> call.value]]
  /\ len' = len + 1
  /\ Return({})
  /\ UNCHANGED <<size, locals>>

PutAdvance ==
  /\ pc = "put"
  /\ entries[index].key \notin {NULL, call.key}
  /\ index' = Succ(index, size)
  /\ UNCHANGED <<map, locals, startIndex, wrapped, iter, call, result, pc>>
-----------------------------------------------------------------------------
(* expand_string_map, and the loop of entry_put_unchecked on new_entries. *)

NewSize == 2 * size

\* Mutant of ExpandSkip: continue without i++.
ExpandSkipStays ==
  /\ pc = "expand"
  /\ i < size
  /\ entries[i].key = NULL
  /\ UNCHANGED vars

ExpandSkip ==
  /\ pc = "expand"
  /\ i < size
  /\ entries[i].key = NULL
  /\ i' = i + 1
  /\ UNCHANGED <<map, newEntries, probe, iter, call, result, pc>>

\* Mutant of ExpandTake: the new slot is computed with the old size.
ExpandTakeOldSize ==
  /\ pc = "expand"
  /\ i < size
  /\ entries[i].key # NULL
  /\ StartProbe(entries[i].key, size)
  /\ pc' = "rehash"
  /\ UNCHANGED <<map, locals, iter, call, result>>

ExpandTake ==
  /\ pc = "expand"
  /\ i < size
  /\ entries[i].key # NULL
  /\ StartProbe(entries[i].key, NewSize)
  /\ pc' = "rehash"
  /\ UNCHANGED <<map, locals, iter, call, result>>

\* Mutant of RehashPlace: the home slot is taken without looking at it.
RehashOverwrites ==
  /\ pc = "rehash"
  /\ newEntries' = [newEntries EXCEPT ![index] = entries[i]]
  /\ i' = i + 1
  /\ pc' = "expand"
  /\ UNCHANGED <<map, probe, iter, call, result>>

RehashPlace ==
  /\ pc = "rehash"
  /\ newEntries[index].key \in {NULL, entries[i].key}
  /\ newEntries' = [newEntries EXCEPT ![index] = entries[i]]
  /\ i' = i + 1
  /\ pc' = "expand"
  /\ UNCHANGED <<map, probe, iter, call, result>>

RehashAdvance ==
  /\ pc = "rehash"
  /\ newEntries[index].key \notin {NULL, entries[i].key}
  /\ index' = Succ(index, NewSize)
  /\ UNCHANGED <<map, locals, startIndex, wrapped, iter, call, result, pc>>

\* The new table replaces the old one and the put begins on it.
ExpandSwap ==
  /\ pc = "expand"
  /\ i >= size
  /\ entries' = newEntries /\ size' = NewSize
  /\ StartProbe(call.key, NewSize)
  /\ pc' = "put"
  /\ newEntries' = Zeroed(0) /\ i' = 0
  /\ UNCHANGED <<len, iter, call, result>>
-----------------------------------------------------------------------------
(* string_map_next *)

WalkSkip ==
  /\ pc = "walk"
  /\ nextIndex < size
  /\ entries[nextIndex].key = NULL
  /\ nextIndex' = nextIndex + 1
  /\ UNCHANGED <<map, locals, probe, visited, call, result, pc>>

WalkVisit ==
  /\ pc = "walk"
  /\ nextIndex < size
  /\ entries[nextIndex].key # NULL
  /\ nextIndex' = nextIndex + 1
  /\ visited' = visited \cup {entries[nextIndex].key}
  /\ UNCHANGED <<map, locals, probe, call, result, pc>>

WalkEnd ==
  /\ pc = "walk"
  /\ nextIndex >= size
  /\ Return(visited)
  /\ UNCHANGED <<map, locals>>
-----------------------------------------------------------------------------
\* One iteration of whichever loop is running.
Step ==
  \/ LookupMiss \/ LookupHit \/ LookupAdvance
  \/ PutUpdate \/ PutInsert \/ PutAdvance
  \/ ExpandSkip \/ ExpandTake \/ RehashPlace \/ RehashAdvance \/ ExpandSwap
  \/ WalkSkip \/ WalkVisit \/ WalkEnd

Next ==
  \/ \E k \in Keys, v \in Values : CallPut(k, v)
  \/ \E op \in {"get", "has"}, k \in Keys : CallLookup(op, k)
  \/ CallWalk
  \/ Step

Spec == Init /\ [][Next]_vars

\* The loops run on the calling thread: once called they keep going.
FairSpec == Spec /\ WF_vars(Step)
-----------------------------------------------------------------------------
(* Properties *)

\* The types of the struct and of the loops' locals.  The indices stay inside
\* the arrays they index, which is what the C code never checks.
TypeOK ==
  /\ size \in Nat /\ size >= 2
  /\ len \in Nat
  /\ entries \in Table(size)
  /\ index \in Nat /\ startIndex \in Nat /\ wrapped \in BOOLEAN
  /\ i \in Nat /\ nextIndex \in Nat
  /\ visited \in SUBSET Keys
  /\ pc \in {"idle", "lookup", "put", "expand", "rehash", "walk"}
  /\ call \in Requests
  /\ pc = "idle" <=> call = NoCall
  /\ pc = "walk" <=> call.op = "walk"
  /\ pc = "lookup" <=> call.op \in {"get", "has"}
  /\ pc \in {"lookup", "put"} => index < size
  /\ pc \in {"expand", "rehash"} => newEntries \in Table(NewSize) /\ i <= size
  /\ pc = "rehash" => index < NewSize /\ i < size /\ entries[i].key # NULL

\* The load never reaches the table's size, although updates inflate len and
\* entry_put_unchecked itself never looks: so the probe loops always meet an
\* empty slot (entry_put_unchecked has no other way out on a new key).
RoomLeft ==
  /\ Cardinality(Occupied(entries)) <= len
  /\ len < size
  /\ pc = "put" => len + 1 < size
  /\ pc \in {"expand", "rehash"} =>
       Cardinality(Occupied(newEntries)) <= Cardinality(Copied)

\* The slots a probe for k passes before it stands at slot j.
Before(k, j, n) ==
  LET h == Home(k, n)
  IN IF h <= j THEN h..j-1 ELSE (h..n-1) \cup (0..j-1)

ChainUnbroken(t, n) ==
  \A j \in Occupied(t) : \A p \in Before(t[j].key, j, n) : p \in Occupied(t)

KeysUnique(t) ==
  \A j1, j2 \in Occupied(t) : t[j1].key = t[j2].key => j1 = j2

\* Every stored key can be reached from its home slot over occupied slots, and
\* is stored once: in the live table always, and in the new table at every
\* point of an expansion.
ChainsUnbroken ==
  /\ ChainUnbroken(entries, size) /\ KeysUnique(entries)
  /\ pc \in {"expand", "rehash"} =>
       ChainUnbroken(newEntries, NewSize) /\ KeysUnique(newEntries)

\* A half-done expansion has copied exactly the slots before i.
ExpansionFaithful ==
  pc \in {"expand", "rehash"} =>
    {newEntries[j] : j \in Occupied(newEntries)} = {entries[j] : j \in Copied}

\* What the map holds: the value in the slot of k.
Contents ==
  [k \in Keys |->
     IF \E j \in DOMAIN entries : entries[j].key = k
     THEN entries[CHOOSE j \in DOMAIN entries : entries[j].key = k].value
     ELSE NULL]

KV == INSTANCE KeyValueMap WITH store <- Contents

\* The table behaves as the partial function its header promises: a get returns
\* what the last put of that key stored, through collisions and expansions, and
\* an iteration returns each present key.
ImplementsMap == KV!Spec

\* Every call returns: no probe loop runs forever.
CallsReturn == pc # "idle" ~> pc = "idle"
=============================================================================
