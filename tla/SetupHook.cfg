SPECIFICATION FairHookSpec
CHECK_DEADLOCK FALSE
CONSTANTS
    Child = {a, b}
    MaxHookSignals = 2
INVARIANTS
    ClearedMeansCleared
PROPERTIES
    RetiredNumberIsNeverSignalled
    InterruptedHookIsKilled
    HookStepEnds
