CONSTANTS
  none = none
  Workloads <- MCWorkloads
  Keys <- MCKeys
  Indexes <- MCIndexes
  None = none
  MaxTables = 2
  MaxClock = 1
  MaxLabels = 2
  MaxRecords = 2
  MaxNumber = 2
  MaxBackups = 1
  LambdaWorkloads <- MCRetyped
  Names = {"f"}
  Invocations = {i1}
  MaxRevisions = 3
  MaxEnvironments = 2
  MaxJobs = 4
SPECIFICATION AwsSpec
CHECK_DEADLOCK FALSE
INVARIANT PackagePresent
