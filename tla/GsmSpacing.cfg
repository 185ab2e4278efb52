CONSTANTS
  Interval = 2
  Settle = 3
  Debounce = 1
  SendTicks = 4
  HeldPoll = 1
  Cooldown = 3
SPECIFICATION Spec
PROPERTY SmsSpaced
