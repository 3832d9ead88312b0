CONSTANTS
  Messages = {m1, m2}
  NoMessage = NoMessage
  SlowLimit = 100
  RefWrap = 16
  Msgs = {o1, o2, o3}
  None = None
  Ports = {7171, 7172}
  MaxFailures = 3
  MaxSpurious = 1
SPECIFICATION AllSpec
CHECK_DEADLOCK FALSE
INVARIANTS
  LifetimesSound
  WritesSound
PROPERTIES
  CloseCompletes
  MessagesReturn
  LocksSound
  PortsSound
