SPECIFICATION Spec
CONSTANTS
    u1 = u1
    d1 = d1
    d2 = d2
    f1 = f1
    f2 = f2
    c1 = c1
    c2 = c2
    s1 = s1
    s2 = s2
    j1 = j1
    j2 = j2
    NoRow = NoRow
    Users <- MCUsers
    Rows <- TwoRows
    RowUser <- TwoRowUser
    Pdfs <- MCPdfs
    PdfUser <- MCPdfUser
    Calls <- MCCalls
    CallUser <- MCCallUser
    Scans <- TwoScans
    Jobs <- MCJobs
    MaxRetry = 1
    MaxFaults = 2
INVARIANTS
    OneActiveRequest
    CompletedMeansErased
    NoOrphanedPDF
    ProcessingHasJob
PROPERTIES
    CompletedIsFinal
    ExpiredRequestsEnd
CHECK_DEADLOCK FALSE
