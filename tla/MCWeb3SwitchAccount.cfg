CONSTANTS
    alice = alice
    bob = bob
    NoTicket = NoTicket
    NoKey = NoKey
    Clients = {"withdraw", "pay", "reader"}
    Exclusive = {}
    Program <- PairProgram
    Sends <- PairSends
    From <- PairFrom
    Accounts = {alice, bob}
    Wallets <- BothLocal
    InitCount <- OneMined
    MaxNonce = 4
    Failures = {}
SPECIFICATION FairSpec
PROPERTIES
    ReportedTxCompletes
CHECK_DEADLOCK FALSE
