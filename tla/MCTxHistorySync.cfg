CONSTANTS
    Wallets = {"alice", "bob"}
    Txs <- HistoryTxs
    Owners <- HistoryOwners
    Sender <- HistorySender
    Nonce <- HistoryNonce
    InEthList = {"pay", "move", "publish"}
    InTokenList = {"move"}
    ZeroValue = {"move"}
    Creations = {"publish"}
    Reverted = {"pay"}
    NoStatus = {"move"}
    Recorded = {"pay", "move"}
    Matching <- HistoryMatching
    Unnumbered = {"pay"}
    PageSize = 1
    Failures = {"request", "tokenlist", "lookup", "receipt"}
    MaxBlock = 2
    MaxRestarts = 1
SPECIFICATION FairSpec
INVARIANTS
    TypeOK
    HistoryComplete
PROPERTIES
    MinedRowStays
    MinedIsRecorded
    PendingResolved
CHECK_DEADLOCK FALSE
