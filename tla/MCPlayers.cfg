CONSTANTS
  Players = {a, b, c}
  Parties = {p, q}
  NoParty = NoParty
  Places = {1, 3}
  Radius = 1
  Gap = 2
  Levels = {1}
  Worths = {300}
  Losses = {200}
  MaxExp = 300
  Limit = 20
  Percent = 20
  Ring = ring
SPECIFICATION AllSpec
CHECK_DEADLOCK FALSE
SYMMETRY Symmetry
INVARIANTS
  PartySound
  PartyNeeded
  BelongingsSound
  PaysWhatIsAsked
  DecaySound
PROPERTIES
  SharesItsWorth
