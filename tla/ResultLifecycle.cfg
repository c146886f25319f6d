SPECIFICATION Spec
CONSTANTS
    g1 = g1
    u1 = u1
    u2 = u2
    r1 = r1
    e1 = e1
    Nobody = Nobody
    NoRow = NoRow
    Guests <- MCGuests
    Users <- MCUsers
    CookieOf <- MCCookieOf
    Deleted <- MCDeleted
    Results <- MCResults
    Edits <- MCEdits
    EditOf <- MCEditOf
    MaxRetry = 1
    MaxFaults = 2
    MaxStale = 1
INVARIANTS
    KeptOnceClaimed
    NoOrphanedObject
    ErasedMeansNoTraces
    PurgedMeansForgotten
    Downloadable
PROPERTIES
    OwnerIsFinal
    ExpiredArePurged
    PdfSettles
CHECK_DEADLOCK FALSE
