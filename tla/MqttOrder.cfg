CONSTANTS
  MaxSockets = 2
  PayloadLens = {80}
  MaxLosses = 0
  MaxCommands = 0
SPECIFICATION Spec
PROPERTY PublishesIfConnected
CHECK_DEADLOCK FALSE
