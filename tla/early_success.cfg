SPECIFICATION Spec
CONSTANTS
    Requests = {q1}
    Kinds = {"addData"}
    Overlapping = FALSE
    NoOne = NoOne
INVARIANT AckedIsStored
