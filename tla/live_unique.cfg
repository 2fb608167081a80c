SPECIFICATION Spec
CONSTANTS
    Challengers = {c1, c2}
    Responders = {r1, r2, r3}
    Users = {alice, bob}
    Names = {laptop, desktop}
    Phrases = {p1, p2}
    PhraseOf <- OwnPhrase
    Enrolled <- OneMachineEach
    NoOne = NoOne
SYMMETRY ApproverSymmetry
INVARIANTS HandoverSafe KeyHasTaker SingleApprover Approved DeliveredIsMember OnlyLateAnswersPanic WaitsHaveWakers IInv
PROPERTY ImplementsPairing
