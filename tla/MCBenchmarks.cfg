SPECIFICATION Spec
INVARIANTS
  MeasuresOwnKernel
  NoInvalidHandle
  SuccessReleasesAll
  MeasuresMigration
  MeasuresCompletion
  SampleAfterCompletion
  UsedCountAccurate
  NoAliasing
  BufferFits
  EventResetBeforeSignal
  OutcomeAccounted
PROPERTIES
  RunReturns
  EventReleasedBeforeReuse
  RefinesAllocator
CHECK_DEADLOCK FALSE
