SPECIFICATION SafeSpec
CONSTANTS
    u1 = u1
    d1 = d1
    d2 = d2
    f1 = f1
    f2 = f2
    c1 = c1
    c2 = c2
    s1 = s1
    s2 = s2
    j1 = j1
    j2 = j2
    NoRow = NoRow
    Users <- MCUsers
    Rows <- OneRow
    RowUser <- OneRowUser
    Pdfs <- MCPdfs
    PdfUser <- MCPdfUser
    Calls <- MCCalls
    CallUser <- MCCallUser
    Scans <- OneScan
    Jobs <- MCJobs
    MaxRetry = 1
    MaxFaults = 0
PROPERTIES
    CancelledIsNotCarriedOut
CHECK_DEADLOCK FALSE
