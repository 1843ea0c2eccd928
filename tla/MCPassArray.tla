---------------------------- MODULE MCPassArray ----------------------------
(* Arrays that grow while they are built and while they are walked. *)
EXTENDS PassArray, Gen, SampleIR

FromIR(ir) == FlattenSeq([k \in DOMAIN ir |-> create_inst(ir[k])])

v == <<5, 2>>

\* Every operator with two variables and with a constant on the left, and the
\* unary ones; short circuits, with their labels; programs without a frame, and
\* from one that grows the array once to one that fills the map and one beyond it.
MCInputs == {FromIR(SetUp(v) \o <<compute(op, 2, a, t(1)), ret(t(2))>>) :
                op \in BinaryTypes, a \in {t(0), Const(3)}}
       \cup {FromIR(SetUp(v) \o <<compute("DIVIDE", 2, t(0), Const(3)), ret(t(2))>>)}
       \cup {FromIR(ir) : ir \in Unaries(v) \cup Shorts(v) \cup Bare \cup {Many(n) : n \in 1..5}}
=============================================================================
