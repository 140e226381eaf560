CONSTANTS
    p1 = p1
    p2 = p2
    w1 = w1
    w2 = w2
    h1 = h1
    Procs = {p1, p2}
    Workers = {w1}
    Handles = {h1}
    Threads <- MCThreads
    Conns <- MCConns
    ProcOf <- MCProcOf
    NoProc = NoProc
    NoConn = NoConn
    nslots = 2
    MaxRun = 3
    MaxActive = 2
    MaxCount = 2
    MaxExtra = 1
    MaxHits = 3
    Crashable = {p1, p2}
    PromptCallbacks = TRUE
SPECIFICATION Spec
SYMMETRY MCSymmetry
INVARIANTS
    IdleMeansCompleted
    FeedbackExact
PROPERTIES
    ImplementsFeedbackRun
