CONSTANTS
  Parts = {"spi"}
  LenSpan = 4
  SpiLengths = {1, 2, 3}
  SpiTidy = {FALSE}
  UsartLengths = {1, 2, 3}
  UsartApis = {"polling", "interrupt"}
  UsartPaces = {TRUE, FALSE}
  MaxLost = 1
  I2cLengths = {1, 2, 3}
  I2cApis = {"polling", "interrupt"}
  I2cPatience = {TRUE}
  PacketLen = 4
  Span = 3
  Port = {0, 1}
  Pin = {2, 3, 5, 6, 7, 8, 9, 10}
  CallPin = {5, 6}
  PinConfig <- MCPinConfig
  MaxCalls = 3
  ResetWait = 3
  StartupTime = 2
  StrayBits = {0, 1, 2}
  Flaky = {TRUE, FALSE}
  AhbCodes = {0, 8, 9, 10, 11, 12, 13, 14, 15}
  ApbCodes = {0, 4, 5, 6, 7}
  Bauds <- MCBauds
  Speeds = {100000, 200000, 400000}
  Readings = {0, 1, 2, 3}
  WindowSize = 5
  N = 4
  Delays = {1, 2}
  GpioIrqs = {6}
  SpiIrqs = {35}
  UsartIrqs = {71}
  I2cIrqs = {32}
  Priorities = {{0}}
SPECIFICATION BoardSpec
INVARIANT TxeOffWhenOver
CHECK_DEADLOCK FALSE
