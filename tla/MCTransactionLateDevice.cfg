CONSTANTS
    a1 = a1
    a2 = a2
    Accounts <- MCAccounts
    FirstWallet = a1
    NoNonce = NoNonce
    WalletType = "ledger"
    Operation = "incorporationSend"
    InitCount <- MCInitCount
    MaxFees = 1
    MaxSends = 2
    MaxUnlocks = 0
    Failures = {}
SPECIFICATION FairSpec
INVARIANTS
    TimeoutMeansNotSent
CHECK_DEADLOCK FALSE
