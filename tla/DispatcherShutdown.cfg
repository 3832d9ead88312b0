CONSTANTS
  Tasks = {plain, term, posted}
  FrontTasks = {}
  Expiring = {}
  Closers = {}
  Shutters = {term, posted}
  Posted = posted
  Threads = {net}
  NoTask = NoTask
SPECIFICATION Spec
CHECK_DEADLOCK FALSE
PROPERTY ShutdownCompletes
