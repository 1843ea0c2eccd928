SPECIFICATION Spec
CONSTANT Inputs <- MCInputs
INVARIANTS VerdictSound RenamingFaithful
CHECK_DEADLOCK FALSE
