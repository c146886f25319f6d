SPECIFICATION SafeSpec
CONSTANTS
    p1 = p1
    p2 = p2
    m1 = m1
    g1 = g1
    r1 = r1
    r2 = r2
    r3 = r3
    key1 = key1
    key2 = key2
    essay = essay
    other = other
    plain = plain
    NoToken = NoToken
    Procs <- MCProcs
    Keys <- MCKeys
    Requests <- MCRequests
    Members <- MCMembers
    Referred <- MCMembers
    CodeKnown <- MCMembers
    IdemKeys <- MCIdemKeys
    Payloads <- MCPayloads
    BadPayloads <- MCBad
    PlainPayloads <- MCPlain
    MemberQuota = 3
    GuestQuota = 2
    Slots = 1
    ProcOf <- QuotaProcOf
    KeyOf <- QuotaKeyOf
    IdemKeyOf <- QuotaIdemKeyOf
    PayloadOf <- QuotaPayloadOf
    Prior <- GuestUsed
    MaxOverruns = 0
    MaxFaults = 0
    Budget = 2
    MaxMonth = 1
INVARIANTS
    NeverDoubleSubmits
CHECK_DEADLOCK FALSE
