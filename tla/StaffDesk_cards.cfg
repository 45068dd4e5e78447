\* Two employees, one of whom may change bills; a pickup order of two lines, an order of one, two bills.
SPECIFICATION Spec
CONSTANTS
    pickup = pickup
    table = table
    b1 = b1
    b2 = b2
    l1 = l1
    l2 = l2
    l3 = l3
    Employee = {e1, e2}
    Cashier = {e1, e2}
    Adjuster = {e1}
    Pickup = {pickup}
    AtTable = {table}
    Bill = {b1, b2}
    Lines <- OrderLines
    PickupBill <- CheckoutBill
    Allowed <- Transitions
    Offered <- Transitions
    Bonuses = 1
    None = None
INVARIANTS
    TransferSettledOnce
    PaidOnce
    BonusesWhole
