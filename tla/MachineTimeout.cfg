\* A request of the start that times out.
SPECIFICATION Spec
CONSTANT Scenarios <- JustLoses
INVARIANT ErrorIsSafe
CHECK_DEADLOCK FALSE
