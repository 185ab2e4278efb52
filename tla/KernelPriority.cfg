CONSTANTS
  N = 3
  Delays = {1, 2}
SPECIFICATION Spec
PROPERTY IdleRunsLast
