CONSTANTS
  Rfds = {0}
  Rbds = {0, 1}
  Cbs = {0, 1, 2}
  Kinds = {"mb", "ob", "3280"}
  Speeds = {TRUE, FALSE}
  Tries = 2
  Sends = 2
  Frames = 3
  MaxLen = 3
  SlowFrames = 1
  MaxFaults = 2
  Null = Null
SPECIFICATION Spec
INVARIANTS
  PolledWhole
  
PROPERTIES
  CallsReturn
CHECK_DEADLOCK FALSE
