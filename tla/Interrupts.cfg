CONSTANTS
  Owner = {0, 1}
  Irq = {3}
  Grant = {{"config", "enable", "sgi"}, {}}
  Handler = {4}
  NoInstance = none
  MaxInstance = 3
SPECIFICATION IrqSpec
INVARIANTS IrqTypeOK NoneHidden ListsExact ChildLinkSound DelegationComposes
\* The run may end once MaxInstance instances are requested and all released.
CHECK_DEADLOCK FALSE
