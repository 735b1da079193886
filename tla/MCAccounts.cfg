CONSTANTS
    c1 = c1
    c2 = c2
    c3 = c3
    c4 = c4
    c5 = c5
    Calls = {c1, c2, c3, c4, c5}
    Requests <- MCRequests
    Scripts <- MCScripts
    Emails <- MCEmails
    Normal <- MCNormal
    Passwords <- MCPasswords
    CurrencyText <- MCCurrencyText
    Upper <- MCUpper
    Storable = {"INR"}
    BadToken = BadToken
SPECIFICATION FairSpec
INVARIANTS
    TypeOK
    OneRowPerKey
    AnswersTruthful
    ServerErrorNeedsRace
PROPERTIES
    RegisteredCanLogIn
    EveryCallAnswered
CHECK_DEADLOCK FALSE
