\* Feeding and stopping, with nothing that fails.
SPECIFICATION Spec
CONSTANT Scenarios <- JustFeeds
INVARIANT EveryEventHasTransition
CHECK_DEADLOCK FALSE
