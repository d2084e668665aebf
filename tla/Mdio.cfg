SPECIFICATION FairSpec
CONSTANTS
  PreambleBits = 12
  AddrBits = 2
  DataBits = 3
  MII_BMCR = {}
  MII_ADVERTISE = {0}
  MII_CTRL1000 = {1}
  PHY_ADDR = {0}
  Present = {{0}, {1}}
  ResetReads = 1
  ResetPolls = 3
  ADV_VALUE = {0}
  GIG_VALUE = {1, 2}
  ANEG_VALUE = {0, 1}
  Masters = {"prog", "host", "bitbang"}
  Asked = {{0}, {1}}
  Held = {{0, 1}}
  HeldValue = {1}
  Touched = {{}, {0, 1}}
  Offered = {{1}, {0, 2}}
  MaxAsked = 3
  MaxCuts = 1
INVARIANTS
  OneDriver
  
  InStep
PROPERTIES
  ProgEnds
CHECK_DEADLOCK FALSE
