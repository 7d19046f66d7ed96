CONSTANTS
  Block = {b1, b2, b3}
  BadBlock = {odd}
  Vector = {v1}
  RootVector = v1
  Zero = zero
  None = None
  MaxDomains = 5
  Conventions = {"fresh block", "leaf exit"}
SYMMETRY BlockSymmetry
SPECIFICATION Spec
INVARIANTS ChainLinked ViewsAgree DistinctIds HierarchyExact OnePerLevel
PROPERTIES OnlyOwnExit ImplementsChain
