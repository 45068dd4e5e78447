\* Two taps at once on the cart, the summary and both checkouts, at two tables and at none.
SPECIFICATION Spec
CONSTANTS
    soup = soup
    cake = cake
    Tap = {t1, t2}
    Item = {soup, cake}
    SoldIn <- Menu
    Worth <- Price
    StartBalance = 2
    RedeemShare = 50
    MaxCarts = 2
    MaxOrders = 2
    MaxSessions = 2
    MaxElsewhere = 1
SYMMETRY Symmetry
INVARIANTS
    OneOrderPerCart
    ChargedAsShown
    BonusesKept
CHECK_DEADLOCK FALSE
