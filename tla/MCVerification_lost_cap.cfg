\* An attempt may edit the checkout and its manifest tells; data is only acquired
\* by the scripts of the repository.
CONSTANTS
  c1 = c1
  c2 = c2
  Claims <- MCClaims
  Values <- MCValues
  NoValue = NoValue
  Close <- MCClose
  ClaimClose <- MCClaimClose
  KMin = 2
  Facts <- MCFacts
  Deep = TRUE
  TopK = 0
  K = 2
  Supplies = {"edited"}
  Recorded = {"edited"}
  FetchData = FALSE
  AcquireData = TRUE
  AllowGpu = FALSE
SYMMETRY Symmetry
SPECIFICATION Spec
INVARIANT ForeignNeverConfirmed
CHECK_DEADLOCK FALSE
