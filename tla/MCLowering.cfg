CONSTANTS
    NoName = NoName
    NullValue = NullValue
    OutputsPrecreated = TRUE
    Kinds <- MCKinds
    Names <- MCNames
    IROps <- MCIROps
    SrcGraphs <- MCSrcGraphs
    Registries <- MCRegistries

SPECIFICATION LowerSpec

PROPERTY LoweringRefinesSpec

CHECK_DEADLOCK FALSE
