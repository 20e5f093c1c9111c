CONSTANTS
    Files = {f1, f2}
    Groups = {"g"}
    EmptyGroup = EmptyGroup
    GroupVals <- MCGroupVals
    Absent = Absent
    NoPath = NoPath
    Undef = Undef
    NonObject = NonObject
    Illegal = Illegal
    Missing = Missing
    PrintMayFail = TRUE

SPECIFICATION Spec

PROPERTY SyncReturnsTruthfully
