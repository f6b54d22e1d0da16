CONSTANTS
    Accounts = {a, d}
    Devices = {"ledger", "trezor"}
    OnDevice = {d}
    Tasks = {p, q}
    NoAccount = NoAccount
SPECIFICATION FairSpec
INVARIANTS
    TypeOK
    KeyOfAccount
    RowHasKeyFile
PROPERTIES
    EveryOperationEnds
