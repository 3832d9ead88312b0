CONSTANTS
  Tasks = {front, urgent, late, close, again, term, posted}
  FrontTasks = {front, urgent}
  Expiring = {late}
  Closers = {close, again}
  Shutters = {term, posted}
  Posted = posted
  Threads = {net, sched}
  NoTask = NoTask
SPECIFICATION Spec
CHECK_DEADLOCK FALSE
INVARIANTS DispatcherSound OneOwner
PROPERTIES Served ImplementsQueue
