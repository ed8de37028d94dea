SPECIFICATION Spec
CONSTANTS
  None = None
  Mismatch = Mismatch
  p1 = p1
  p2 = p2
  Second = 3
  Plans <- MCPlans
  Capacity <- MCCapacity
  Extras <- MCExtras
  Filters <- MCFilters
  NameOrder <- MCNameOrder
INVARIANTS ReportsAreBetween SumsAgree SameMetricsEitherWay TimeIsCountedOnce EndCoversTheStream SkewMeasuresBalance BytesCoverTheBatches
CHECK_DEADLOCK FALSE
