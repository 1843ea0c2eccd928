SPECIFICATION Spec
CONSTANT Inputs <- MCInputs
INVARIANT AcceptsOnlyLegal
CHECK_DEADLOCK FALSE
