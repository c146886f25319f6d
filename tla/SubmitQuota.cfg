SPECIFICATION Spec
CONSTANTS
    p1 = p1
    p2 = p2
    m1 = m1
    g1 = g1
    r1 = r1
    r2 = r2
    r3 = r3
    key1 = key1
    key2 = key2
    essay = essay
    other = other
    plain = plain
    NoToken = NoToken
    Procs <- MCProcs
    Keys <- QuotaKeys
    Requests <- MCRequests
    Members <- MCMembers
    Referred <- MCMembers
    CodeKnown <- MCMembers
    IdemKeys <- MCIdemKeys
    Payloads <- MCPayloads
    BadPayloads <- MCBad
    PlainPayloads <- MCPlain
    MemberQuota = 1
    GuestQuota = 1
    Slots = 1
    ProcOf <- QuotaProcOf
    KeyOf <- QuotaKeyOf
    IdemKeyOf <- QuotaIdemKeyOf
    PayloadOf <- QuotaPayloadOf
    Prior <- NothingUsed
    MaxOverruns = 0
    MaxFaults = 1
    Budget = 1
    MaxMonth = 2
INVARIANTS
    QuotaRespected
    RetryIsIdempotent
    OneReferralEvent
    NoSessionLockedOut
PROPERTIES
    ImplementsLedger
    EventuallyFree
    ImplementsMutex
    EveryRequestAnswered
CHECK_DEADLOCK FALSE
