CONSTANTS
  N = 4
  Delays = {4, 8, 12, 13}
  Tables <- MCDataPath
  Interval <- MCInterval
  Reload = 15
  AgeCap = 6
  SliceSteps = 3
SPECIFICATION AppSpec
INVARIANT PacketsFiltered
