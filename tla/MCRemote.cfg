CONSTANTS
  MaxSockets = 2
  PayloadLens = {80, 110}
  MaxLosses = 2
  MaxCommands = 2
  Interval = 2
  Settle = 3
  Debounce = 1
  SendTicks = 4
  HeldPoll = 1
  Cooldown = 3
  SeqSpan = 4
  MaxOwed = 3
  Paces = {TRUE, FALSE}
  PathCooldown = 2
SPECIFICATION FairRemote
INVARIANTS
  NeverDeaf
  NoPhantomCommand
  CommandKeptIfPrompt
  PublishesLatest
  FailedAttemptsClosed
PROPERTIES
  CommandsSpaced
  OnePressOneSms
  CommandAnswered
  CommandHeard
  CommandRaised
  CommandTexted
CHECK_DEADLOCK FALSE
