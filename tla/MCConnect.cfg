\* DC 3 is one the list does not know.
SPECIFICATION AccountSpec
CONSTANTS
    DefaultDCOptions <- MCOptions
    Homes = {1, 2, 3}
    P = 5
    G = 2
    K = 3
    Passwords = {"", "right", "wrong"}
    AccountPassword = "right"
    PH2 <- MCPH2
    U <- MCU
INVARIANTS
    TypeOK
    NoConnectionLeaked
    KeyAgreed
    DialledAtMostTwice
    SavedSessionWorks
    RightPasswordAccepted
PROPERTY
    AccountLoggedIn
\* a login ends
CHECK_DEADLOCK FALSE
