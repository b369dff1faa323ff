CONSTANTS
    c1 = c1
    Clients <- MCClients
    ProcessEnvs <- MCProcessEnvs
    EditLines <- MCEditLines
    Writable <- MCWritable
    MaxKeys = 3
    MaxStarts = 2
    MaxEdits = 1
SPECIFICATION Spec
INVARIANTS IInv PrecedenceKept KeygenTakesEffect HalvesMatch ClientsOutliveRuns
CHECK_DEADLOCK FALSE
