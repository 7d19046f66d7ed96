CONSTANTS
  Block = {b1, b2}
  BadBlock = {}
  Vector = {v1}
  RootVector = v1
  Zero = zero
  None = None
  MaxDomains = 4
  Irq = {3}
  Grant = {{"config", "enable", "sgi"}}
  Handler = {4}
  NoInstance = none
  MaxInstance = 2
  Paged = {b1, b2}
SYMMETRY BlockSymmetry
CONSTRAINT CreationBound
SPECIFICATION CoreSpec
INVARIANTS CoreTypeOK CoreInStep ResumesOwnCode HandlerReturns PagedChainMatches
\* HALT stops the core.
CHECK_DEADLOCK FALSE
