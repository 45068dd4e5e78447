\* A cashier sells to one guest, with two cards in the chat, tapping faster than the bot answers.
SPECIFICATION Spec
CONSTANTS
  Cashiers = {c1}
  Guests = {g1}
  Items = {i1}
  Updates = {u1, u2}
  Programs <- MCPrograms
  Prices <- MCPrices
  FirstBalance = 7
  MaxQuantity = 1
  MaxCards = 2
  MaxSales = 2
  MaxChanges = 1
SYMMETRY Symmetry
INVARIANT VisitBonusOnce
PROPERTY RedeemsWhatIsHeld
