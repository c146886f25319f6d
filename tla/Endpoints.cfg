SPECIFICATION Spec
CONSTANTS
    r1 = r1
    r2 = r2
    r3 = r3
    r4 = r4
    a1 = a1
    a2 = a2
    s1 = s1
    s2 = s2
    b1 = b1
    b2 = b2
    b3 = b3
    q1 = q1
    q2 = q2
    q3 = q3
    u1 = u1
    u2 = u2
    c1 = c1
    c2 = c2
    c3 = c3
    n1 = n1
    n2 = n2
    n3 = n3
    g1 = g1
    ann = ann
    bob = bob
    Nobody = Nobody
    Signups <- MCSignups
    EmailOf <- MCEmailOf
    Sessions <- MCSessions
    CookieOf <- MCCookieOf
    CodeOf <- MCCodeOf
    MaxSignupFaults = 1
    Requests <- MCRequests
    Addresses <- MCAddresses
    AddressOf <- MCAddressOf
    Senders <- MCSenders
    Spenders <- MCSpenders
    Costs <- MCCosts
    Askers <- MCAskers
    Owners <- MCOwners
    OwnerOf <- MCOwnerOf
    Codes <- MCCodes
    Bank <- MCBank
    Values <- MCValues
    Templates <- MCTemplates
    Locales <- MCLocales
    GritScores <- MCGritScores
    Limits <- MCLimits
    NoCode = NoCode
    Limit = 2
    OtpCap = 2
    MaxFaults = 1
    Budget = 10
    LastDay = 2
    MaxUnlogged = 1
    MaxAttempts = 2
    MaxAnswers = 3
    MaxLimit = 2
    DefaultLimit = 1
    MaxResults = 4
INVARIANTS
    HonestAnswers
    SignupsAreWhole
    OtpSendsBounded
    EachCrossingOnce
    OneReferralCode
    PagesSkipNothing
    InsightsAgree
PROPERTIES
    IpWindowsClose
    ScoresAreMeans
CHECK_DEADLOCK FALSE
