SPECIFICATION Spec
CONSTANTS
    Challengers = {c1}
    Responders = {r1}
    Users = {alice}
    Names = {laptop, desktop}
    Phrases = {p1, p2}
    PhraseOf <- OwnPhrase
    Enrolled <- OneMachineEach
    NoOne = NoOne
INVARIANT NotifyNeverPanics
