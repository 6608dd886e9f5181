SPECIFICATION Spec
CONSTANTS
    Buckets = {"b1", "b2"}
    Keys = {"k1", "k2"}
    Uploads = {"u1"}
    MaxClock = 5
    Workloads <- MCWorkloads
INVARIANTS UploadsExact 
 
CHECK_DEADLOCK FALSE
