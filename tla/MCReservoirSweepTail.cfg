SPECIFICATION Spec
CONSTANTS
  SweepChunkSize = 5
  PromotionPercent = 60
  Scores = {0, 1}
  MaxPushes = 9
CHECK_DEADLOCK FALSE

PROPERTIES
  RemovalsExact
