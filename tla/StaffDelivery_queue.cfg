\* Two employees, two workers, two faults and one retry: an order, a call and the updates.
SPECIFICATION Spec
CONSTANTS
    e1 = e1
    e2 = e2
    Employee = {e1, e2}
    Worker = {w1, w2}
    Guest = Guest
    Call = {call}
    Allowed <- Transitions
    Wants <- Interests
    MaxRetries = 1
    MaxFaults = 2
SYMMETRY Symmetry
INVARIANTS
    TakenOnce
    NoneForgotten
    LastStatusTold
CHECK_DEADLOCK FALSE
