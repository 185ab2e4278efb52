CONSTANTS
  Port = {0, 1}
  Pin = {2, 3, 5, 6, 7, 8, 9, 10}
  CallPin = {}
  PinConfig = {}
  MaxCalls = 0
  ResetWait = 3
  StartupTime = 2
  StrayBits = {0, 1, 2}
  Flaky = {TRUE}
SPECIFICATION StartSpec
INVARIANT InitMeansSetUp
CHECK_DEADLOCK FALSE
