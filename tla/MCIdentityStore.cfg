CONSTANTS
    Wallets = {v, w}
    NoWallet = NoWallet
    MaxAttributes = 2
    MaxDocuments = 2
    MaxEdits = 2
    MaxPending = 2
SYMMETRY WalletSymmetry
SPECIFICATION Spec
INVARIANTS
    TypeOK
    StoreMatchesTables
PROPERTIES
    NeverOlder
