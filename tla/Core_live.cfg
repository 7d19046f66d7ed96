CONSTANTS
  Block = {b1}
  BadBlock = {}
  Vector = {v1}
  RootVector = v1
  Zero = zero
  None = None
  MaxDomains = 2
  Irq = {3, 5}
  Grant = {{"config", "enable", "sgi"}}
  Handler = {4}
  NoInstance = none
  MaxInstance = 2
  Paged = {b1}
SPECIFICATION FairCoreSpec
PROPERTIES EveryWaitEnds InterruptedCodeRuns
\* HALT stops the core.
CHECK_DEADLOCK FALSE
