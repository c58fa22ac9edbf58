CONSTANTS
  Chain = {c1, c2}
  NoChain = NoChain
  CompRetries = 2
  MaxRetries = 3
  GcThreshold = 1
  BatchLimit = 1
  MaxFaults = 6
SPECIFICATION Spec
INVARIANT AckedSummaryKept
PROPERTIES SummarizedStepsKept NoSilentDrop RowsSettle
