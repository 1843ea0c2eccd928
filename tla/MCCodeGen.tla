----------------------------- MODULE MCCodeGen -----------------------------
EXTENDS CodeGen, SampleIR

\* The words the two variables hold: both signs, zero, the operands idiv
\* faults on.
Words == {<<5, 2>>, <<-8, -1>>, <<-7, 3>>, <<4, 0>>}

\* The map has room for four temporaries: the last program needs five.
MCIRPrograms ==
  UNION {Binaries(v) \cup Unaries(v) \cup Shorts(v) : v \in Words}
    \cup Chains(<<5, 2>>) \cup Bare \cup {Many(5)}

MCJunk == {-8, 5}
=============================================================================
