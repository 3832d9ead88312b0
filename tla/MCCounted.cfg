CONSTANTS
  Players = {a, b, c}
  Things = {bag, coin}
  Papers = {x, y}
  Houses = {h}
  Bags = {bag}
  Deep = {bag}
  Ground = Ground
  Nowhere = Nowhere
  MaxUses = 3
  P = p1
  M1 = m1
  M2 = m2
  None = None
SPECIFICATION AllSpec
CHECK_DEADLOCK FALSE
SYMMETRY Symmetry
INVARIANTS
  TradeSound
  CreaturesSound
PROPERTIES
  TradesBothWays
