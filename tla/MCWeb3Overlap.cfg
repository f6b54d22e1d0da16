CONSTANTS
    alice = alice
    bob = bob
    NoTicket = NoTicket
    NoKey = NoKey
    Clients = {"stake", "withdraw", "pay"}
    Exclusive = {}
    Program <- OverlapProgram
    Sends <- OverlapSends
    From <- OverlapFrom
    Accounts = {alice, bob}
    Wallets <- MixedWallets
    InitCount <- OneMined
    MaxNonce = 4
    Failures = {"count", "device"}
SPECIFICATION FairSpec
INVARIANTS
    NoNonceReuse
    SignerIsSender
CHECK_DEADLOCK FALSE
