SPECIFICATION FairSpec
CONSTANTS
    Requests = {q1, q2}
    Kinds = {"initialSetup", "addData", "deleteData", "postKeyRotation", "deleteMachine", "deleteKeyRotation", "updateMachineKey", "createMachine", "getData"}
    Overlapping = TRUE
    NoOne = NoOne
INVARIANTS TypeOK OnlyRemovalsLeak NoSilentLoss MixedInv
PROPERTIES StepsRunOut EveryRequestEnds
