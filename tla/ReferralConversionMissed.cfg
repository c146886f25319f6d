SPECIFICATION RegistrationSpec
CONSTANTS
    s1 = s1
    s2 = s2
    g1 = g1
    mail1 = mail1
    mail2 = mail2
    Nobody = Nobody
    Signups <- MCSignups
    EmailOf <- MCEmailOf
    Sessions <- MCSessions
    CookieOf <- MCCookieOf
    CodeOf <- MCCodeOf
    MaxSignupFaults = 0
INVARIANTS
    ConversionsCounted
CHECK_DEADLOCK FALSE
