CONSTANTS
  Thread = {t1, t2, t3}
  NoOwner = NoOwner
  InitialCount = 1
  MaxCount = 2
  Item = {a, b}
  NoItem = NoItem
  Capacity = 2
  Bit = {1, 2}
  WaitArgs <- MCWaitArgs
  HeapSize = 16
  SizeSpan = 64
  Requests = {1, 9}
  Timer = {x, y, z}
  NoTimer = NoTimer
  MaxTimers = 2
  Periods = {1, 2}
  TickSpan = 16
  MaxSchedTasks = 2
  Intervals = {2, 4}
  MaxRun = 2
  N = 4
  Delays = {4, 8, 12, 13}
  Tables <- MCTables
  Interval <- MCInterval
  Reload = 15
  AgeCap = 6
  SliceSteps = 3
SPECIFICATION TasksSpec
INVARIANTS
  MutualExclusion
  OwnerInside
  PermitsConserved
  BitsNotConsumedTwice
  BlocksDisjoint
  ListedOnce
  EveryInterval
  NoWatchdogReset
  SkewBounded
  PacketFresh
PROPERTIES
  FifoOrder
  WalkExact
