SPECIFICATION Spec
CONSTANTS
    t1 = t1
    Tabs = {t1}
    Emails = {"Ann"}
    Passwords = {8, 10}
    Identifiers = {"office", "host"}
    ToLower <- Lower
    IpOf <- Address
    WindowMs = 2
    Limit = 1
    MaxNow = 2
    MaxCalls = 2
    MaxTokens = 3
    MaxFaults = 1
INVARIANTS
    RegistrationInv
    OneAccountPerEmail
    SignedInToAccount
    TokenSubmittedOnce
    CodeSurvives
    WindowBound
CHECK_DEADLOCK FALSE
