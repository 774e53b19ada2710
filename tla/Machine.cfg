\* Heating, feeding, pausing and stopping with nothing that fails; broken hardware and
\* lost requests, one fault in a behaviour.
SPECIFICATION Spec
CONSTANT Scenarios <- AllScenarios
INVARIANTS MachineInvariant OffIsSafe FailuresSurface StoppedIsSafe NeverStuck TellsTruth
    RunningRuns
CHECK_DEADLOCK FALSE
