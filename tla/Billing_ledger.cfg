\* Two bills over an order of two lines and a prepaid order of one guest with bonuses.
SPECIFICATION Spec
CONSTANTS
    o1 = o1  o2 = o2
    l1 = l1  l2 = l2  l3 = l3
    b1 = b1  b2 = b2
    g1 = g1  g2 = g2
    visit = visit
    None = None
    Order = {o1, o2}
    Line = {l1, l2, l3}
    Bill = {b1, b2}
    Guest = {g1, g2}
    Context = {visit}
    OrderOf <- TwoLinesOne
    GuestOf <- SameGuest
    ContextOf <- OneVisit
    Pickup = {o2}
    Worth <- PriceWorth
    InitialBonus <- OneBonus
    MaxRedeemShare = 100
    Accruals = {1}
SYMMETRY BillSymmetry
INVARIANTS
    TypeOK
    MoneyAddsUp
    LinkedMeansCharged
    PickupPaidBeforeWork
    RewardedOnce
    BonusesConserved
PROPERTIES
    ImplementsSettlement
CHECK_DEADLOCK FALSE
