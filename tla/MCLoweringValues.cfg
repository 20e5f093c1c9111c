CONSTANTS
    NoName = NoName
    NullValue = NullValue
    OutputsPrecreated = FALSE
    Kinds <- MCKinds
    Names <- MCNames
    IROps <- MCIROps
    SrcGraphs <- MCSrcGraphs
    Registries <- MCRegistries

SPECIFICATION LowerSpec

INVARIANT NoDanglingValue

CHECK_DEADLOCK FALSE
