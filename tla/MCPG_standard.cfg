SPECIFICATION Spec
CHECK_DEADLOCK FALSE
CONSTANTS
  Requests <- StandardRequests
  Archived <- ArchivedBV
INVARIANTS OwnEstimate RingHoldsModuli DownwardEstimateExact
PROPERTY GenerationReturns
