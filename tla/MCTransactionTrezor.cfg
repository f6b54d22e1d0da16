CONSTANTS
    a1 = a1
    a2 = a2
    Accounts <- MCAccounts
    FirstWallet = a1
    NoNonce = NoNonce
    WalletType = "trezor"
    Operation = "confirmSend"
    InitCount <- MCInitCount
    MaxFees = 2
    MaxSends = 2
    MaxUnlocks = 1
    Failures = {"lose", "poll", "fetch"}
SPECIFICATION FairSpec
INVARIANTS
    TypeOK
    NoNonceGap
    SentIsRecorded
PROPERTIES
    EverySendReported
    TimeoutIsFinal
CHECK_DEADLOCK FALSE
