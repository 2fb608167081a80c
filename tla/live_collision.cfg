SPECIFICATION Spec
CONSTANTS
    Challengers = {c1, c2}
    Responders = {r1, r2}
    Users = {alice, bob}
    Names = {laptop, desktop}
    Phrases = {p1, p2}
    PhraseOf <- SamePhrase
    Enrolled <- OneMachineEach
    NoOne = NoOne
SYMMETRY ApproverSymmetry
INVARIANTS TypeOK NoStaleEntry
