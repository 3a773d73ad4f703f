SPECIFICATION Spec

CONSTANTS
    m1 = m1
    t1 = t1
    n1 = n1

    Mails     = {m1}
    Threads   = {t1}
    Notes     = {n1}
    Finished  = {"completed"}
    PageSize  = 3
    MaxIssues = 2
    MaxTime   = 1
    MaxFaults = 1

INVARIANTS
    
    
    
    FlagsAreTrue
    RecordedMeansTold


    

CHECK_DEADLOCK FALSE
