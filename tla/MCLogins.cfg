CONSTANTS
  Protocols = {p1, p2, p3}
  Players = {o1, o2, o3}
  None = None
  Ann = Ann
  Bob = Bob
  Gus = Gus
  Hal = Hal
  Names = {Ann, Bob}
  AlwaysLogin = {Bob}
  States = {"NORMAL", "CLOSING", "CLOSED"}
  AllowClones = 0
  ReplaceKick = TRUE
SPECIFICATION AllSpec
CHECK_DEADLOCK FALSE
SYMMETRY Symmetry
INVARIANTS
  SessionsSound
  ClonesSound
  ClientShows
PROPERTIES
  WaitsInTurn
  ReportsAgree
