CONSTANTS
  Kinds <- MCKinds
  LineBytes <- MCLineBytes
  SizeSteady <- MCSizeSteady
  TimeSteady <- MCTimeSteady
  MaxTime <- MCMaxTime
  MaxRecords <- MCMaxRecords
  SrvWindow <- MCSrvWindow
  InboxCap <- MCInboxCap
SPECIFICATION Spec
INVARIANT ShutdownWaitsForFinalBatch
