CONSTANTS
  Players = {p1, p2}
  None = None
  Things = {}
  RentPeriod = "weekly"
  MaxCoins = 1
  MaxDay = 5
  CanCrash = TRUE
  NeedPremium = FALSE
  Thing = t1
  Address = a1
  Slots = {s1, s2}
SPECIFICATION AllSpec
CHECK_DEADLOCK FALSE
SYMMETRY Symmetry
INVARIANTS
  HouseSound
  HouseholdSound
  ChannelsSound
PROPERTIES
  DebtorHasTime
