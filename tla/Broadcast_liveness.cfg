\* Two workers, two guests, one fault: a campaign ends and no claim lasts for ever.
SPECIFICATION FairSpec
CONSTANTS
    Guest = {g1, g2}
    Worker = {w1, w2}
    BatchSize = 1
    MaxTasks = 2
    MaxFaults = 1
    NoGuest = NoGuest
PROPERTIES
    SendingEnds
    NoClaimForever
CHECK_DEADLOCK FALSE
