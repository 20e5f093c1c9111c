CONSTANTS
    CounterNames = {"c1", "c2"}
    Descs = {"no description", "d"}
    IntWidth = 4
    UArgs <- MCUArgs
    IntArgs <- MCIntArgs
    MaxCalls = 5

SPECIFICATION Spec

PROPERTY IncreaseNeverDecreases

CHECK_DEADLOCK FALSE
