\* Delivery of the durable notifications by two concurrent passes.
CONSTANTS
    Notes = {n1, n2}
    Workers = {w1, w2}
    NoClaim = NoClaim
    NoNote = NoNote
    MaxRetries = 2
    MaxFaults = 2
SPECIFICATION FairSpec
INVARIANTS
    SentWasAccepted
    GivesUpAfterFailures
    DuplicatesHaveFaults
PROPERTIES
    OutcomesStand
    EverySettles
