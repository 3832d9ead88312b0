SPECIFICATION Spec
CONSTANTS
  Protocols = {p1, p2, p3}
  Players = {o1, o2, o3}
  Names = {Ann}
  AlwaysLogin = {}
  States = {"NORMAL"}
  AllowClones = 0
  ReplaceKick = TRUE
  None = None
INVARIANTS OneReplacement
CHECK_DEADLOCK FALSE
