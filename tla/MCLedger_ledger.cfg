SPECIFICATION LSpec
CONSTANTS
  Workers = {w1, w2}
  Zero = Zero
  MaxAppends = 3
INVARIANT UntamperedChainIntact
CHECK_DEADLOCK FALSE
