CONSTANTS
  c1 = c1
  c2 = c2
  Client <- MCClient
  KeyOrder <- MCKeyOrder
  PrivateKey = "bsvPrivateKey"
  IdentityKey = "bsvIdentityKey"
  MaxValue = 4
  MaxCrashes = 1
  MaxFlips = 2
SPECIFICATION Spec
SYMMETRY MCSymmetry
INVARIANTS
  TypeOK
  StartsAgree
  QuietEditSurvives
PROPERTIES
  KeychainKept
