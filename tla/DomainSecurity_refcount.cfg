CONSTANTS
  Block = {b1, b2}
  BadBlock = {}
  Vector = {v1}
  RootVector = v1
  Zero = zero
  None = None
  MaxDomains = 4
  Attested = {0, 1}
  Start = {}
  MaxHandle = 3
  MaxRef = 3
SPECIFICATION SysSpec
INVARIANT RefCountsBound
