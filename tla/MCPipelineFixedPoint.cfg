CONSTANTS
    NoName = NoName
    NullValue = NullValue
    OutputsPrecreated = TRUE
    NoCtable = NoCtable
    Kinds <- MCKinds
    Names <- MCNames
    IROps <- MCIROps
    SrcGraphs <- MCSrcGraphs
    Registries <- MCRegistries
    Passes <- MCPasses
    CtableVals = {"c1", "c2"}
    BackendCtable <- MCBackendCtable
    LegalOp <- MCLegalOp
    Unlegalizable = {"HardSigmoid"}
    FixTo = 2

SPECIFICATION Spec

PROPERTY PipelineTerminates

CHECK_DEADLOCK FALSE
