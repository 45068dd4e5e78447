\* A request is canceled while a payment that has listed it is under way.
SPECIFICATION Spec
CONSTANTS
    g1 = g1
    g2 = g2
    g3 = g3
    Guest = {g1, g2}
    Cashier = {c1, c2}
    Manager = manager
    Wants <- OwnAndShared
    Places <- Anyone
    AutoClose = TRUE
    MaxOrders = 2
    MaxBills = 2
    MaxRequests = 2
    MaxActs = 1
    MaxWork = 3
    None = None
PROPERTIES
    PaymentStands
CHECK_DEADLOCK FALSE
