----------------------------- MODULE MCRegAlloc -----------------------------
(* Register allocation of what create_inst makes of the sample IR. *)
EXTENDS RegAlloc, Gen, SampleIR

Selection(ir) == FlattenSeq([k \in DOMAIN ir |-> create_inst(ir[k])])

v == <<5, 2>>

\* The map has room for five temporaries: Many(5) fills it.
MCPrograms == {Selection(ir) : ir \in Binaries(v) \cup Unaries(v) \cup Shorts(v)
                                       \cup Chains(v) \cup Bare \cup {Many(5), Many(6)}}
MCTwoReturns == {Selection(TwoReturns)} \cup {Selection(ir) : ir \in Shorts(v)}
MCMany       == {Selection(Many(n)) : n \in 1..6}
=============================================================================
