---------------------------- MODULE KeyValueMap ----------------------------
(***************************************************************************)
(* What include/utils/stringmap.h promises its callers: a partial function *)
(* from keys to values.  A caller makes one call at a time and waits for   *)
(* the answer.  StringMap implements this module.                          *)
(***************************************************************************)
CONSTANTS Keys,   \* the strings used as keys
          Values, \* the pointers stored
          NULL    \* the null pointer: "no value", "no key"

VARIABLES store,  \* what the map holds: [Keys -> Values \cup {NULL}]
          call,   \* the call in progress, with op = "none" between calls
          result  \* what the last get, has or walk answered, as a set:
                  \* {} stands for NULL and false

vars == <<store, call, result>>

NoCall == [op |-> "none", key |-> NULL, value |-> NULL]

Requests == {NoCall}
       \cup [op : {"put"}, key : Keys, value : Values]
       \cup [op : {"get", "has"}, key : Keys, value : {NULL}]
       \cup [op : {"walk"}, key : {NULL}, value : {NULL}]

Present == {k \in Keys : store[k] # NULL}

Init == /\ store = [k \in Keys |-> NULL]
        /\ call = NoCall
        /\ result = {}

Invoke(c) == /\ call = NoCall
             /\ call' = c
             /\ result' = {}
             /\ UNCHANGED store

Put == /\ call.op = "put"
       /\ store' = [store EXCEPT ![call.key] = call.value]
       /\ call' = NoCall
       /\ UNCHANGED result

Get == /\ call.op = "get"
       /\ result' = {store[call.key]} \ {NULL}
       /\ call' = NoCall
       /\ UNCHANGED store

Has == /\ call.op = "has"
       /\ result' = {TRUE : k \in Present \cap {call.key}}
       /\ call' = NoCall
       /\ UNCHANGED store

\* A whole iteration: every present key, each exactly once.
Walk == /\ call.op = "walk"
        /\ result' = Present
        /\ call' = NoCall
        /\ UNCHANGED store

Next == \/ \E c \in Requests \ {NoCall} : Invoke(c)
        \/ Put \/ Get \/ Has \/ Walk

Spec == Init /\ [][Next]_vars
=============================================================================
