CONSTANTS
  none = none
  Workloads <- MCWorkloads
  Keys <- MCKeys
  Indexes <- MCIndexes
  None = none
  MaxTables = 2
  MaxClock = 1
  MaxLabels = 2
  MaxRecords = 2
  MaxNumber = 2
  MaxBackups = 1
  LambdaWorkloads <- MCLambdaWorkloads
  Names = {"f"}
  Invocations = {i1, i2}
  MaxRevisions = 3
  MaxEnvironments = 2
  MaxJobs = 3
SPECIFICATION AwsSpec
SYMMETRY Symmetry
CHECK_DEADLOCK FALSE
INVARIANTS SavesWhole ReadersComplete FilesOutliveUse 
PROPERTY NoExpiredItem
