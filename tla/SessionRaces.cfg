SPECIFICATION Spec
CONSTANTS
    c1 = c1
    c2 = c2
    c3 = c3
    pw1 = pw1
    pw2 = pw2
    Earlier = Earlier
    Erased = Erased
    Calls <- ThreeCalls
    Passwords <- TwoPasswords
    MaxWrong = 2
    MaxFailures = 2
    MaxStale = 1
    MaxFaults = 1
SYMMETRY Interchangeable
INVARIANTS
    RevocationHolds
    SessionsFollowPassword
    ResetTokenSingleUse
PROPERTIES
    RotatedTokenRejected
    SpentCodeRejected
CHECK_DEADLOCK FALSE
