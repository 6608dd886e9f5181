CONSTANTS
    Datasets = {"d1"}
    Tables = {"t1", "t2"}
    Routines = {"r1"}
    Callers = {"c1", "c2"}
    Jobs = {"j1"}
    AutoJobs = {"a1"}
    DatasetOf <- MCDatasetOf
    None = None
    MaxRows = 3
    MaxDepth = 2
    PageRows = 2
    Workloads <- MCWorkloads
    Clients = {"c1", "c2"}
    Relations = {"t", "u", "v"}
    SchemaOf <- MCSchemaOf
    ClusterNames = {"devcloud", "other"}
    SnapshotNames = {"n"}
    Shapes = {"small", "large"}
    Tags = {"a"}
    Tokens = {"k"}
    RedshiftWorkloads <- MCRedshiftWorkloads
    RedshiftMaxRows = 4
    Nothing = Nothing
SPECIFICATION WarehouseSpec
INVARIANTS BigQueryRows BigQueryJobs 
CHECK_DEADLOCK FALSE
