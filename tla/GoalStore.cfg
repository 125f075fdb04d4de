SPECIFICATION Spec
CONSTANTS
    Backends = {"jsonl", "postgres"}
    Workloads <- AllWorkloads
    MaxFaults = 1
INVARIANTS
    
    QueueIsComplete
    

    
CHECK_DEADLOCK FALSE
