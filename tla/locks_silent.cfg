SPECIFICATION Spec
CONSTANT Silence = TRUE
INVARIANT NoDeadlock
