\* Two orders of one line each, two bills, commands interleaved; no bonuses.
SPECIFICATION Spec
CONSTANTS
    o1 = o1  o2 = o2
    l1 = l1  l2 = l2  l3 = l3
    b1 = b1  b2 = b2
    g1 = g1  g2 = g2
    visit = visit
    None = None
    Order = {o1, o2}
    Line = {l1, l2}
    Bill = {b1, b2}
    Guest = {g1, g2}
    Context = {visit}
    OrderOf <- OneLineEach
    GuestOf <- TwoGuests
    ContextOf <- OneVisit
    Pickup = {}
    Worth <- PriceWorth
    InitialBonus <- NoBonus
    MaxRedeemShare = 0
    Accruals = {0}
SYMMETRY BillSymmetry
INVARIANTS
    RunningCommandsSound
    ChargedOnce
    VoidedIsEmpty
    SettledTogether
PROPERTIES
    ClosedBillsFinal
    CancelLeavesNoLine
CHECK_DEADLOCK FALSE
