CONSTANTS
    Slots = {a1, a2}
    Classes <- MCClasses
    BareKinds <- MCNoBareKinds
    Vals = {DefaultVal, "x"}
    DefaultVal = DefaultVal
    MaxVec = 2
    None = None

SPECIFICATION Spec

PROPERTY KindImmutable
