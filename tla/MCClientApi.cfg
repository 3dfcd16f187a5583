\* Two entries in the event queue and in the log buffer; two observers.
CONSTANTS
  MaxEvents = 2
  LogSize = 2
  o1 = o1
  o2 = o2
  Observers = {o1, o2}
  Format <- MCFormat
  Values = {0, 1}
  Workloads = {"events", "log", "properties"}
  MaxSends = 3
  MaxRequests = 2
  MaxChanges = 2
SPECIFICATION FairSpec
CHECK_DEADLOCK FALSE
INVARIANTS RepliesReserved MemoryAlive
PROPERTIES EventsFaithful ValueTold NothingLeft
