CONSTANTS
    p1 = p1
    p2 = p2
    r1 = r1
    r2 = r2
    Runs <- MCRuns
    Requests <- MCRequests
    Schema <- MCSchema
    Nobody = Nobody
SPECIFICATION FairSpec
INVARIANTS IInv ServesMigrated RaceHasWinner CutForCause PoolOutlivesHandlers ExitTellsTruth NeverStuck
PROPERTIES StopsInTheEnd
CHECK_DEADLOCK FALSE
