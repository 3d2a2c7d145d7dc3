SPECIFICATION Spec
CONSTANTS
    r1 = r1
    r2 = r2
    f1 = f1
    f2 = f2
    None = None
    Emails = {e1}
    Phones <- MCPhones
    Requests <- MCRequests
    MaxAttempts = 2
    MaxPins = 2
    MaxTokens = 2
    MaxIssues = 2
    MaxPasswords = 2
    MaxMishaps = 1
SYMMETRY MCSymmetry
INVARIANTS
    TypeOK
    PhoneAsAsked
    GuessesBounded
    TokenPerPin
    SessionsOfThisPassword
    ExchangedOnce
CHECK_DEADLOCK FALSE
