\* A target without wakeup_fn (the player core), nested queue_process calls.
SPECIFICATION LiveSpec

CONSTANTS
  Target = target
  Clients = {c1, c2}
  Fns = {f}
  HasWakeupFn = FALSE
  MaxDepth = 2
  MaxItems = 1
  NoThread = NoThread
  NoItem = NoItem
INVARIANTS ExclusiveAccess Asserts StackItemLifetime NoLostWakeup
PROPERTIES ImplementsCoreAccess CallsReturn
