\* Three guests of a visit ask for their bills and two payments follow up on them at once.  Two
\* orders and one act of the staff or of a guest who moves, or three orders.
SPECIFICATION Spec
CONSTANTS
    g1 = g1
    g2 = g2
    g3 = g3
    Guest = {g1, g2, g3}
    Cashier = {c1, c2}
    Manager = manager
    Wants <- TwoShared
    Places <- OneEach
    AutoClose = TRUE
    MaxOrders = 3
    MaxBills = 2
    MaxRequests = 2
    MaxActs = 1
    MaxWork = 3
    None = None
SYMMETRY Symmetry
INVARIANTS
    PendingBillOpen
    PaymentsProceed
PROPERTIES
    RequestsFinal
CHECK_DEADLOCK FALSE
