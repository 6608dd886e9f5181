SPECIFICATION Spec
CONSTANTS
    Clients = {"c1", "c2"}
    Streams = {s1, s2}
    Readers = {r1}
    None = None
    MaxSessions = 2
    MaxStreams = 1
    StreamRoom = 1
    MaxParts = 6
    MaxDepth = 2
    Structures <- MCStructures
    Workloads <- MCWorkloads
INVARIANTS StoreSafe SessionsSafe 
CHECK_DEADLOCK FALSE
