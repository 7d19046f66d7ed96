CONSTANTS
  Domain = {0, 4}
  Attested = {0}
  Start = {s1}
  None = None
  MaxHandle = 3
  MaxRef = 2
SPECIFICATION GroupsSpec
INVARIANTS GroupsTypeOK RefCoversBound MembershipSound ConfidentialSealed RegionsOwned RootGroupLives
PROPERTY HandlesNotReused
