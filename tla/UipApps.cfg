SPECIFICATION FairApps
CONSTANTS
    Mss = 2
    BufSize = 2
    Programs <- MCPrograms
    WebMss = 2
    RequestLen = 3
    LineSize = 3
    WEBCLIENT_TIMEOUT = 2
    WebConns = 3
    Responses <- MCResponses
    MaxReports = 2
    NUMLINES = 4
    PerSegment = 2
    TelnetBuf = 3
    Inputs <- MCInputs
    TelnetConns = 2
    Hostnames = {"a", "b"}
    RESOLV_ENTRIES = 2
    MAX_RETRIES = 3
    SeqNoMod = 3
    Files <- MCFiles
    Scripts = {"/s.shtml", "/t.shtml"}
    Index = "/i"
    NotFound = "/404"
    HttpMss = 2
    OtherConns = {1, 2}
    NumStats = 2
    MaxPolls = 3
    MaxRtx = 1
    Bodies <- MCBodies
    MaxCalls = 4
    Requests <- MCRequests
INVARIANTS
    ThreadsSafe
    
    FirstReportIsTrue
    LinesAccounted
PROPERTIES
    QueryEnds
    HttpServes
CHECK_DEADLOCK FALSE
