CONSTANTS
    r = r
    p = p
    R = r
    P = p
    Putters <- MCPutters
    StorageSize = 2
    ParamMax = 6
    Execs = {"e1", "e2", "e3"}
    Inputs <- MCInputs
    MaxId = 3
SPECIFICATION MCSpec
INVARIANTS StorageSound RungIsThere ExecAnswered
