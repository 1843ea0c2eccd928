---------------------------- MODULE Compilation ----------------------------
(***************************************************************************)
(* What one call of the compiler promises, whatever its stages, files and  *)
(* helpers do: an executable of the named program if and only if the call  *)
(* succeeds and was to make one, and otherwise no new executable.          *)
(***************************************************************************)
VARIABLES
  request,  \* stops: a flag asks to stop early; correct: up to there, the
            \* program is one of the language; both fixed by the call
  exe,      \* the executable: "absent", "old" or "new"
  outcome   \* "none", then "success" or "failure"

vars == <<request, exe, outcome>>

Init ==
  /\ request \in [stops : BOOLEAN, correct : BOOLEAN]
  /\ exe \in {"absent", "old"}
  /\ outcome = "none"

Build ==
  /\ outcome = "none" /\ ~request.stops /\ request.correct
  /\ exe' = "new"
  /\ UNCHANGED <<request, outcome>>

\* A failed attempt may cost the old executable.
Lose ==
  /\ outcome = "none" /\ exe = "old"
  /\ exe' = "absent"
  /\ UNCHANGED <<request, outcome>>

Succeed ==
  /\ outcome = "none"
  /\ IF request.stops THEN request.correct ELSE exe = "new"
  /\ outcome' = "success"
  /\ UNCHANGED <<request, exe>>

Fail ==
  /\ outcome = "none" /\ exe # "new"
  /\ outcome' = "failure"
  /\ UNCHANGED <<request, exe>>

Next == Build \/ Lose \/ Succeed \/ Fail
Spec == Init /\ [][Next]_vars
=============================================================================
