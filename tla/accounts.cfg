SPECIFICATION Spec
CONSTANTS
    b1 = b1
    b2 = b2
    w1 = w1
    w2 = w2
    Browser = {b1, b2}
    NoBrowser = NoBrowser
    Worker = {w1, w2}
    MaxToken = 2
    MaxPassword = 2
    MaxTime = 2
    Lifetime = 2
    IdleTimeout = 1
    MaxFaults = 1
SYMMETRY Interchangeable
CHECK_DEADLOCK FALSE
INVARIANTS
    EndedBeforeAnswered
    OnlyRacersSurviveAChange
    OnlySweepsDeadlock
PROPERTIES
    PasswordGoesBackOnlyByRehash
