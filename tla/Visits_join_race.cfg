\* A guest joins a visit that the staff are closing.
SPECIFICATION Spec
CONSTANTS
    Guest = {g1, g2}
    Diner = {g1}
    Table = {t1}
    MaxSessions = 2
    MaxVisits = 2
    MaxOrders = 0
    None = None
SYMMETRY VisitsSymmetry
INVARIANTS
    NoSessionInClosedVisit
CHECK_DEADLOCK FALSE
