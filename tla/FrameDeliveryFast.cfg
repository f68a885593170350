SPECIFICATION DeliveryFairSpec
CONSTANTS
  Fast = TRUE
  RenderAhead = FALSE
  MaxUpdates = 2
PROPERTY LatestShown
