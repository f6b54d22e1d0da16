---------------------------- MODULE WalletStore ----------------------------
(***************************************************************************)
(* src/main/wallet/wallet-service.js, src/common/app, src/common/wallet    *)
(* and src/common/create-wallet: a wallet is created or unlocked in steps  *)
(* that change, one after the other, the keys of web3, the key files, the  *)
(* table wallets and the wallet of the store.  Screens stay usable while a *)
(* step is awaited, so operations overlap; a Ledger or a Trezor is asked   *)
(* against a timer.  Files and rows survive a restart of the app.          *)
(*                                                                         *)
(* Left out: pictures, names and the setup flag (an update of one of them  *)
(* rewrites the whole wallet of the store, which is modelled), walletType  *)
(* but for the device whose addresses are listed (the page selectAddress   *)
(* is named after it), the KYC data that loadWallets clears, PIN and       *)
(* passphrase screens, and the text of errors.  What unlockIdentity loads  *)
(* is in IdentityStore.                                                    *)
(***************************************************************************)
CONSTANTS
    Accounts,
    Devices,     \* "ledger", "trezor"
    OnDevice,    \* accounts of a Ledger or Trezor; the others have a key
    Tasks,       \* bound: how many operations overlap
    NoAccount

ASSUME ConstantsAssumption ==
    /\ Devices \subseteq {"ledger", "trezor"}
    /\ OnDevice \subseteq Accounts
    /\ NoAccount \notin Accounts

VARIABLES
    op,          \* op[p]: an operation: its kind, account, and where it is
    rows,        \* rows[a]: the row of wallets, with or without keystoreFilePath
    files,       \* accounts with a key file in walletsDirectoryPath
    unwritten,   \* history: accounts whose key file could not be written
    web3,        \* the provider, the keys of accounts.wallet, and defaultAccount
    store,       \* state.wallet: publicKey and privateKey
    app          \* the error of state.app; the router's page

vars == <<op, rows, files, unwritten, web3, store, app>>

Unlocks == {"password", "file", "key", "public"}
Kinds == Unlocks \cup {"create", "update", "refresh"} \cup Devices

Idle == [kind |-> "none", acc |-> NoAccount, at |-> "idle", found |-> FALSE,
         key |-> NoAccount]
NoWallet == [publicKey |-> NoAccount, privateKey |-> NoAccount]

TypeOK ==
    /\ op \in [Tasks -> [kind : Kinds \cup {"none"}, acc : Accounts \cup {NoAccount},
                         at : {"idle", "read", "copy", "write", "find", "insert", "row",
                               "balance", "identity", "switch", "accounts", "late"},
                         found : BOOLEAN, key : Accounts \cup {NoAccount}]]
    /\ \A p \in Tasks : (op[p].at = "idle") = (op[p].kind = "none")
    /\ \A p \in Tasks : op[p].key \in {NoAccount, op[p].acc}
    /\ rows \in [Accounts -> {"none", "plain", "path"}]
    /\ files \subseteq Accounts \ OnDevice
    /\ unwritten \subseteq Accounts
    /\ web3 \in [provider : {"http"} \cup Devices, keys : SUBSET (Accounts \ OnDevice),
                 default : Accounts \cup {NoAccount}]
    /\ store \in [publicKey : Accounts \cup {NoAccount}, privateKey : Accounts \cup {NoAccount}]
    /\ app \in [error : BOOLEAN, page : {"unlock", "dashboard"} \cup Devices]

NewWeb3(provider) == [provider |-> provider, keys |-> {}, default |-> NoAccount]
NewApp == [error |-> FALSE, page |-> "unlock"]

Init ==
    /\ op = [p \in Tasks |-> Idle]
    /\ web3 = NewWeb3("http")
    /\ store = NoWallet
    /\ app = NewApp
    /\ rows = [a \in Accounts |-> "none"]
    /\ files = {}
    /\ unwritten = {}

-----------------------------------------------------------------------------
(* Steps of an operation. *)

Goes(p, stage) == op' = [op EXCEPT ![p].at = stage]
Ends(p) == op' = [op EXCEPT ![p] = Idle]

Starts(p, kind, a, stage) ==
    /\ op[p] = Idle
    /\ op' = [op EXCEPT ![p] = [Idle EXCEPT !.kind = kind, !.acc = a, !.at = stage]]

(* web3.eth.accounts.wallet.add and defaultAccount, in one go *)
AddsKey(a) == web3' = [web3 EXCEPT !.keys = @ \cup {a}, !.default = a]

(* An exception: unlocks and loads show it, an update only logs it, and    *)
(* createWallet and updateBalances leave it to their caller.               *)
Fails(p) ==
    /\ op[p].at \notin {"idle", "late"}
    /\ Ends(p)
    /\ app' = IF op[p].kind \in Unlocks \cup Devices THEN [app EXCEPT !.error = TRUE] ELSE app
    /\ UNCHANGED <<rows, files, unwritten, web3, store>>

(* loadWallets, when an unlock screen opens *)
LoadWallets ==
    /\ app' = [app EXCEPT !.page = "unlock"]
    /\ UNCHANGED <<op, rows, files, unwritten, web3, store>>

(* unlockWalletWithPassword of a listed wallet, unlockWalletWithNewFile *)
UnlockWithFile(p, kind, a) ==
    /\ app.page = "unlock"
    /\ a \notin OnDevice
    /\ kind = "password" => rows[a] = "path"
    /\ Starts(p, kind, a, "read")
    /\ UNCHANGED <<rows, files, unwritten, web3, store, app>>

(* The key file is read and decrypted *)
Decrypt(p) ==
    /\ op[p].at = "read"
    /\ op[p].kind = "password" => op[p].acc \in files
    /\ AddsKey(op[p].acc)
    /\ op' = [op EXCEPT ![p].key = op[p].acc,
                        ![p].at = IF op[p].kind = "password" THEN "balance" ELSE "copy"]
    /\ UNCHANGED <<rows, files, unwritten, store, app>>

(* Mutant: the row comes before the file. *)
CopyAfterInsert(p) ==
    /\ op[p].at = "copy"
    /\ Goes(p, "find")
    /\ UNCHANGED <<rows, files, unwritten, web3, store, app>>

CopyKeyFile(p) ==
    /\ op[p].at = "copy"
    /\ files' = files \cup {op[p].acc}
    /\ Goes(p, "find")
    /\ UNCHANGED <<rows, unwritten, web3, store, app>>

(* unlockWalletWithPrivateKey and createWallet begin with the key itself *)
BeginWithKey(p, kind, a) ==
    /\ app.page = "unlock"
    /\ a \notin OnDevice
    /\ kind = "create" => rows[a] = "none" /\ a \notin files \cup unwritten
    /\ op[p] = Idle
    /\ op' = [op EXCEPT ![p] = [kind |-> kind, acc |-> a, found |-> FALSE, key |-> a,
                                at |-> IF kind = "create" THEN "write" ELSE "find"]]
    /\ AddsKey(a)
    /\ UNCHANGED <<rows, files, unwritten, store, app>>

(* createWallet goes on when the file cannot be written *)
WriteKeyFile(p) ==
    /\ op[p].at = "write"
    /\ \/ files' = files \cup {op[p].acc} /\ UNCHANGED unwritten
       \/ unwritten' = unwritten \cup {op[p].acc} /\ UNCHANGED files
    /\ Goes(p, "insert")
    /\ UNCHANGED <<rows, web3, store, app>>

(* unlockWalletWithPublicKey, of a listed device *)
UnlockWithPublicKey(p, a) ==
    /\ app.page \in Devices
    /\ a \in OnDevice
    /\ Starts(p, "public", a, "find")
    /\ UNCHANGED <<rows, files, unwritten, web3, store, app>>

FindRow(p) ==
    /\ op[p].at = "find"
    /\ op' = [op EXCEPT ![p].found = rows[op[p].acc] # "none", ![p].at = "insert"]
    /\ web3' = IF op[p].kind = "public" THEN [web3 EXCEPT !.default = op[p].acc] ELSE web3
    /\ UNCHANGED <<rows, files, unwritten, store, app>>

(* Wallet.create in a database transaction; publicKey is unique *)
CreateRow(p) ==
    /\ op[p].at = "insert"
    /\ op[p].found \/ rows[op[p].acc] = "none"
    /\ rows' = IF op[p].found THEN rows
               ELSE [rows EXCEPT ![op[p].acc] =
                       IF op[p].kind \in {"create", "file"} THEN "path" ELSE "plain"]
    /\ Goes(p, "balance")
    /\ UNCHANGED <<files, unwritten, web3, store, app>>

(* updateWalletAvatar, updateWalletName, updateWalletSetup *)
UpdateWallet(p) ==
    /\ store.publicKey # NoAccount
    /\ Starts(p, "update", store.publicKey, "row")
    /\ UNCHANGED <<rows, files, unwritten, web3, store, app>>

(* Mutant: the account of the row with the key of the store's wallet. *)
RowUpdatedOwnAccount(p) ==
    /\ op[p].at = "row"
    /\ op' = [op EXCEPT ![p].at = "balance", ![p].key = store.privateKey]
    /\ UNCHANGED <<rows, files, unwritten, web3, store, app>>

(* The row is written; the store's wallet is the one that is there by now *)
RowUpdated(p) ==
    /\ op[p].at = "row"
    /\ op' = [op EXCEPT ![p].at = "balance", ![p].acc = store.publicKey,
                        ![p].key = store.privateKey]
    /\ UNCHANGED <<rows, files, unwritten, web3, store, app>>

(* updateBalances of the transaction duck *)
RefreshBalance(p) ==
    /\ store.publicKey # NoAccount
    /\ op[p] = Idle
    /\ op' = [op EXCEPT ![p] = [kind |-> "refresh", acc |-> store.publicKey, at |-> "balance",
                                found |-> FALSE, key |-> store.privateKey]]
    /\ UNCHANGED <<rows, files, unwritten, web3, store, app>>

(* Mutant: a wallet without a key brings no field privateKey. *)
KeptKey(o) == IF o.key = NoAccount THEN store.privateKey ELSE o.key

(* The row of a device has the field too, and it is null *)
MergedKey(o) == o.key

(* updateWalletWithBalance: the reducer merges the wallet into the store's *)
BalanceAnswered(p) ==
    /\ op[p].at = "balance"
    /\ store' = [publicKey |-> op[p].acc, privateKey |-> MergedKey(op[p])]
    /\ IF op[p].kind \in Unlocks THEN Goes(p, "identity") ELSE Ends(p)
    /\ UNCHANGED <<rows, files, unwritten, web3, app>>

(* unlockIdentity has loaded documents and attributes *)
IdentityUnlocked(p) ==
    /\ op[p].at = "identity"
    /\ app' = [app EXCEPT !.page = "dashboard"]
    /\ Ends(p)
    /\ UNCHANGED <<rows, files, unwritten, web3, store>>

-----------------------------------------------------------------------------
(* Devices. *)

(* A device is asked for its first accounts, or from the list for others *)
Asked(d) == d \in Devices /\ app.page \in {"unlock", d}

(* loadLedgerWallets: switchToLedgerWallet awaits nothing *)
LoadLedger(p) ==
    /\ Asked("ledger")
    /\ Starts(p, "ledger", NoAccount, "accounts")
    /\ web3' = NewWeb3("ledger")
    /\ UNCHANGED <<rows, files, unwritten, store, app>>

(* loadTrezorWallets *)
LoadTrezor(p) ==
    /\ Asked("trezor")
    /\ Starts(p, "trezor", NoAccount, "switch")
    /\ UNCHANGED <<rows, files, unwritten, web3, store, app>>

(* switchToTrezorWallet: this.web3 = new Web3(engine), once the device is there *)
SwitchProvider(p) ==
    /\ op[p].at \in {"switch", "late"}
    /\ web3' = NewWeb3(op[p].kind)
    /\ IF op[p].at = "late" THEN Ends(p) ELSE Goes(p, "accounts")
    /\ UNCHANGED <<rows, files, unwritten, store, app>>

(* _getWallets; selectAddress lists the accounts *)
AccountsAnswered(p) ==
    /\ op[p].at = "accounts"
    /\ app' = [app EXCEPT !.page = op[p].kind]
    /\ Ends(p)
    /\ UNCHANGED <<rows, files, unwritten, web3, store>>

(* Mutant: only a device that is switched to already is given up. *)
TimeoutAfterSwitch(p) ==
    /\ op[p].at = "accounts"
    /\ app' = [app EXCEPT !.error = TRUE]
    /\ Ends(p)
    /\ UNCHANGED <<rows, files, unwritten, web3, store>>

(* timeoutPromise rejects; the service goes on, with nobody to answer to *)
Timeout(p) ==
    /\ op[p].at \in {"switch", "accounts"}
    /\ app' = [app EXCEPT !.error = TRUE]
    /\ IF op[p].at = "switch" THEN Goes(p, "late") ELSE Ends(p)
    /\ UNCHANGED <<rows, files, unwritten, web3, store>>

(* The app is closed, or crashes, at any moment and is started again *)
Restart ==
    /\ op' = [p \in Tasks |-> Idle]
    /\ web3' = NewWeb3("http")
    /\ store' = NoWallet
    /\ app' = NewApp
    /\ UNCHANGED <<rows, files, unwritten>>

(* What needs no device *)
Step(p) ==
    /\ op[p].at \notin {"switch", "accounts", "late"}
    /\ \/ Decrypt(p) \/ CopyKeyFile(p) \/ WriteKeyFile(p) \/ FindRow(p)
       \/ CreateRow(p) \/ RowUpdated(p) \/ BalanceAnswered(p) \/ IdentityUnlocked(p)
       \/ Fails(p)

Next ==
    \/ LoadWallets
    \/ Restart
    \/ \E p \in Tasks :
        \/ \E a \in Accounts : UnlockWithPublicKey(p, a)
        \/ \E a \in Accounts, kind \in {"password", "file"} : UnlockWithFile(p, kind, a)
        \/ \E a \in Accounts, kind \in {"key", "create"} : BeginWithKey(p, kind, a)
        \/ LoadLedger(p) \/ LoadTrezor(p)
        \/ UpdateWallet(p) \/ RefreshBalance(p)
        \/ Step(p)
        \/ SwitchProvider(p) \/ AccountsAnswered(p) \/ Fails(p)
        \/ Timeout(p)

Spec == Init /\ [][Next]_vars

(* Files, the database and the node answer or fail, and timers fire; a     *)
(* device, and the user, need never do anything.                           *)
FairSpec == Spec /\ \A p \in Tasks : WF_vars(Step(p)) /\ WF_vars(Timeout(p))

-----------------------------------------------------------------------------

(* The private key in the store is the one of its public key, whatever     *)
(* operations overlap: the reducer of common/wallet (lines 7-17) merges    *)
(* fields, and a device's wallet comes from the same table.                *)
KeyOfAccount == store.privateKey \in {NoAccount, store.publicKey}

(* A row with a keystoreFilePath has its key file, also when the app stops *)
(* between the two writes of createWallet (lines 26-37) and of             *)
(* unlockWalletWithNewFile (lines 118-130): the key of a listed wallet is  *)
(* not lost.  Only createWallet's ignored write error makes an exception.  *)
RowHasKeyFile == \A a \in Accounts : rows[a] = "path" => a \in files \cup unwritten

(* Every operation ends, also when the device never answers: the timers of *)
(* loadLedgerWallets and loadTrezorWallets (lines 179-182, 210-215) and    *)
(* the handlers of the unlocks (lines 116-173) leave nobody waiting.       *)
EveryOperationEnds ==
    \A p \in Tasks : op[p].at # "idle" ~> op[p].at \in {"idle", "late"}

=============================================================================
