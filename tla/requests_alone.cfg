SPECIFICATION Spec
CONSTANTS
    Requests = {q1, q2, q3}
    Kinds = {"initialSetup", "addData", "deleteData", "postKeyRotation", "deleteMachine", "deleteKeyRotation", "getData"}
    Overlapping = FALSE
    NoOne = NoOne
SYMMETRY RequestSymmetry
INVARIANTS SuccessIsStored AloneInv ServiceInv
PROPERTIES AtomicEffect OnlyLeaksBreak ImplementsService
