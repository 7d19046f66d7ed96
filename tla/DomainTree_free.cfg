CONSTANTS
  Block = {b1, b2}
  BadBlock = {odd}
  Vector = {v1}
  RootVector = v1
  Zero = zero
  None = None
  MaxDomains = 4
  Conventions = {}
SYMMETRY BlockSymmetry
SPECIFICATION Spec
INVARIANTS TypeOK RegistryAnchored
