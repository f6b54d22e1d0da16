CONSTANTS
    alice = alice
    bob = bob
    NoTicket = NoTicket
    NoKey = NoKey
    Clients = {"stake", "withdraw", "reader"}
    Exclusive = {"stake", "withdraw"}
    Program <- StakingProgram
    Sends <- StakingSends
    From <- StakingFrom
    Accounts = {alice}
    Wallets <- AliceWallets
    InitCount <- OneMined
    MaxNonce = 5
    Failures = {"throw", "read", "count", "refuse", "reply", "revert", "timeout"}
SPECIFICATION FairSpec
INVARIANTS
    TypeOK
    NoNonceReuse
    NoNonceGap
    InCallOrder
PROPERTIES
    EveryTicketSettles
    ReportedTxCompletes
CHECK_DEADLOCK FALSE
