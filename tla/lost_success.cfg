SPECIFICATION Spec
CONSTANTS
    Requests = {q1, q2}
    Kinds = {"postKeyRotation", "initialSetup"}
    Overlapping = TRUE
    NoOne = NoOne
INVARIANT AckedIsStored
