SPECIFICATION FairSpec
CONSTANTS
    api1 = api1
    api2 = api2
    j1 = j1
    Processes <- MCProcesses
    Jobs <- MCJobs
    Total = 2
    Workers = 1
    ClaimLimit = 1
    None = None
PROPERTY OutcomesStand
PROPERTY ResultsSurvive
PROPERTY EveryJobEnds
