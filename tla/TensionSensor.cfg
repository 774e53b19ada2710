\* Observers, timer and worker in any order.  The deadlock that
\* StopsUnlessDeadlocked names is one of the model as well.
SPECIFICATION FairSpec
INVARIANTS TypeOK QuietWhenOff LastToldIsLast RepeatsWhileTense InStepWithPins
PROPERTY StopsUnlessDeadlocked
CHECK_DEADLOCK FALSE
