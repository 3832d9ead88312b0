SPECIFICATION Spec
CONSTANTS
  Players = {p1, p2}
  None = None
  Things = {t1}
  RentPeriod = "daily"
  MaxCoins = 1
  MaxDay = 4
  CanCrash = FALSE
  NeedPremium = TRUE
CHECK_DEADLOCK FALSE
PROPERTY RentIsTaken
