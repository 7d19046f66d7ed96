CONSTANTS
  Block = {b1, b2}
  BadBlock = {}
  Vector = {v1}
  RootVector = v1
  Zero = zero
  None = None
  MaxDomains = 4
  Irq = {3}
  Grant = {{"config", "enable", "sgi"}}
  Handler = {4}
  NoInstance = none
  MaxInstance = 1
  \* The chain has no part in the two properties; without page tables it is empty.
  Paged = {}
SPECIFICATION MachineSpec
INVARIANT ResumesOwnCode
PROPERTY TransferRealigns
\* HALT stops the core, and the host may leave it so.
CHECK_DEADLOCK FALSE
