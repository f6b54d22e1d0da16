CONSTANTS
    Connections = {c, d}
    Wallets = {w}
    InTable = {w}
    NoWallet = NoWallet
    MaxRequests = 3
SPECIFICATION FairSpec
CHECK_DEADLOCK FALSE
INVARIANTS
    TypeOK
    SignupKnown
    ServedWhereUnlocked
PROPERTIES
    EveryRequestAnswered
