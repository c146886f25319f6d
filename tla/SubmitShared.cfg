SPECIFICATION SafeSpec
CONSTANTS
    p1 = p1
    p2 = p2
    m1 = m1
    g1 = g1
    r1 = r1
    r2 = r2
    r3 = r3
    key1 = key1
    key2 = key2
    essay = essay
    other = other
    plain = plain
    NoToken = NoToken
    Procs <- MCProcs
    Keys <- MCKeys
    Requests <- MCRequests
    Members <- MCMembers
    Referred <- MCMembers
    CodeKnown = {}
    IdemKeys <- MCIdemKeys
    Payloads <- MCPayloads
    BadPayloads <- MCBad
    PlainPayloads <- MCPlain
    MemberQuota = 1
    GuestQuota = 2
    Slots = 1
    ProcOf <- SharedProcOf
    KeyOf <- SharedKeyOf
    IdemKeyOf <- SharedIdemKeyOf
    PayloadOf <- SharedPayloadOf
    Prior <- GuestUsed
    MaxOverruns = 1
    MaxFaults = 1
    Budget = 1
    MaxMonth = 1
INVARIANTS
    QuotaRespected
    AnswersAreDurable
    OvershootBounded
PROPERTIES
    ForeignLockKept
CHECK_DEADLOCK FALSE
