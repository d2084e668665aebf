CONSTANTS
  AW = 2
  Noise <- None
  DATA_W = 4
  Junk = Junk
  Frames <- PathFrames
  Fr <- PathFr
  MinGap = 3
  MaxSent = 2
  MaxResets = 1
  StartsLate = TRUE
SPECIFICATION Spec
INVARIANTS
  GoodIsWhole
  Reported
PROPERTIES
  QueuePromise
