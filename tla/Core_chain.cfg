CONSTANTS
  Block = {b1, b2}
  BadBlock = {}
  Vector = {v1}
  RootVector = v1
  Zero = zero
  None = None
  MaxDomains = 3
  Irq = {3}
  Grant = {{"config", "enable", "sgi"}}
  Handler = {4}
  NoInstance = none
  MaxInstance = 2
  Paged = {b1}
SPECIFICATION CoreSpec
INVARIANT ChainMatchesPath
CHECK_DEADLOCK FALSE
