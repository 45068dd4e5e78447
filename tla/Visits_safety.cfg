\* Two guests at two tables scan, order, pay and are sent off in every order.
SPECIFICATION Spec
CONSTANTS
    Guest = {g1, g2}
    Diner = {g1}
    Table = {t1, t2}
    MaxSessions = 4
    MaxVisits = 3
    MaxOrders = 1
    None = None
SYMMETRY VisitsSymmetry
INVARIANTS
    TypeOK
    ClosedWithoutDebt
    NoForgottenVisit
PROPERTIES
    ClosesSettled
    JoinsOpenVisit
CHECK_DEADLOCK FALSE
