SPECIFICATION FairSpec
CONSTANTS
    Challengers = {c1}
    Responders = {r1, r2, r3}
    Users = {alice, bob}
    Names = {laptop, desktop}
    Phrases = {p1, p2}
    PhraseOf <- OwnPhrase
    Enrolled <- OneMachineEach
    NoOne = NoOne
PROPERTIES ChallengeDecided KeyWaitEnds HangOnlyIfAbandoned
