\* A target that sleeps on its own and is woken by wakeup_fn (the VO thread).
SPECIFICATION LiveSpec

CONSTANTS
  Target = target
  Clients = {c1, c2}
  Fns = {f}
  HasWakeupFn = TRUE
  MaxDepth = 1
  MaxItems = 1
  NoThread = NoThread
  NoItem = NoItem
INVARIANTS NoLostWakeup
PROPERTIES CallsReturn
