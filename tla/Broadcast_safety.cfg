\* Two workers, three guests in batches of two: mixed and partial batches, crashes, repeated tasks.
SPECIFICATION Spec
CONSTANTS
    Guest = {g1, g2, g3}
    Worker = {w1, w2}
    BatchSize = 2
    MaxTasks = 2
    MaxFaults = 1
    NoGuest = NoGuest
SYMMETRY BroadcastSymmetry
INVARIANTS
    TypeOK
    AtMostOnce
    OutcomesTrue
    SentIsComplete
PROPERTIES
    RowsFinal
    ImplementsMailing
CHECK_DEADLOCK FALSE
