\* Two claims of which one is held, k = 2 unless determinism is proven, every
\* retry allowed; an attempt may edit the checkout.
CONSTANTS
  c1 = c1
  c2 = c2
  Claims <- MCClaims
  Values <- MCValues
  NoValue = NoValue
  Close <- MCClose
  ClaimClose <- MCClaimClose
  KMin = 2
  Facts <- MCFacts
  Deep = TRUE
  TopK = 1
  K = 2
  Supplies = {"edited"}
  Recorded = {"edited"}
  FetchData = TRUE
  AcquireData = TRUE
  AllowGpu = TRUE
SYMMETRY Symmetry
SPECIFICATION Spec
INVARIANTS
  ConfirmedIsEarned
  RefutedIsEarned
  HeldNeverVerified
  LeakyNeverVerified
  ModifiedNeverAffirmed
PROPERTY
  OverlaysOnlyWithdraw
CHECK_DEADLOCK FALSE
