SPECIFICATION DeliveryFairSpec
CONSTANTS
  Fast = FALSE
  RenderAhead = TRUE
  MaxUpdates = 3
INVARIANTS UpdateKept
PROPERTIES LatestShown
