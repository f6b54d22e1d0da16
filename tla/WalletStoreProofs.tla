------------------------- MODULE WalletStoreProofs -------------------------
(***************************************************************************)
(* Proofs about WalletStore, for every set of accounts, of devices and of  *)
(* overlapping operations, and with a restart at any moment.               *)
(***************************************************************************)
EXTENDS WalletStore, TLAPS

OpType == [kind : Kinds \cup {"none"}, acc : Accounts \cup {NoAccount},
           at : {"idle", "read", "copy", "write", "find", "insert", "row",
                 "balance", "identity", "switch", "accounts", "late"},
           found : BOOLEAN, key : Accounts \cup {NoAccount}]

(* What an operation has to be for its next step; kept are the accounts    *)
(* whose key is in a file, or could not be written to one.                 *)
OpOK(o, kept) ==
    /\ (o.at = "idle") = (o.kind = "none")
    /\ o.key \in {NoAccount, o.acc}
    /\ o.at \in {"read", "copy", "write"} => o.acc \in Accounts \ OnDevice
    /\ o.at \in {"switch", "accounts", "late"} => o.kind \in Devices
    /\ o.at = "identity" => o.kind \in Unlocks
    /\ (o.at \in {"find", "insert"} /\ o.kind \in {"file", "create"}) => o.acc \in kept

(* Every operation is as its stage demands: the part of the invariant that *)
(* the steps of one operation, and the growth of the files, preserve.      *)
OpsOK == op \in [Tasks -> OpType] /\ \A p \in Tasks : OpOK(op[p], files \cup unwritten)

(* The types of everything else *)
RestOK ==
    /\ rows \in [Accounts -> {"none", "plain", "path"}]
    /\ files \subseteq Accounts \ OnDevice
    /\ unwritten \subseteq Accounts
    /\ web3 \in [provider : {"http"} \cup Devices, keys : SUBSET (Accounts \ OnDevice),
                 default : Accounts \cup {NoAccount}]
    /\ store \in [publicKey : Accounts \cup {NoAccount}, privateKey : Accounts \cup {NoAccount}]
    /\ app \in [error : BOOLEAN, page : {"unlock", "dashboard"} \cup Devices]

(* The inductive invariant: RowHasKeyFile needs OpsOK, since a row may be  *)
(* inserted long after its key file was written, and KeyOfAccount needs    *)
(* the keys that operations carry.                                         *)
WalletInv == OpsOK /\ RestOK /\ KeyOfAccount /\ RowHasKeyFile

(* An operation that goes on as its new stage demands leaves the others    *)
(* as theirs demand.                                                       *)
LEMMA OneOperation ==
    ASSUME OpsOK, NEW p \in Tasks, NEW o \in OpType,
           OpOK(o, files' \cup unwritten'), op' = [op EXCEPT ![p] = o],
           files \subseteq files', unwritten \subseteq unwritten'
    PROVE  OpsOK'
<1>1. op' \in [Tasks -> OpType]
  BY DEF OpsOK
<1> SUFFICES ASSUME NEW q \in Tasks PROVE OpOK(op'[q], files' \cup unwritten')
  BY <1>1 DEF OpsOK
<1>2. CASE q = p
  BY <1>2 DEF OpsOK
<1>3. CASE q # p
  BY <1>3 DEF OpsOK, OpOK
<1> QED BY <1>2, <1>3

(* An operation that ends does so. *)
LEMMA OperationEnds ==
    ASSUME OpsOK, NEW p \in Tasks, Ends(p), UNCHANGED <<files, unwritten>>
    PROVE  OpsOK'
<1>1. Idle \in OpType /\ OpOK(Idle, files' \cup unwritten')
  BY DEF Idle, OpType, OpOK
<1> QED BY <1>1, OneOperation DEF Ends

(* An operation that only goes to a later stage does so. *)
LEMMA OperationGoes ==
    ASSUME OpsOK, NEW p \in Tasks, op[p].at # "idle",
           NEW s \in {"find", "insert", "balance", "identity", "accounts", "late"}, Goes(p, s),
           (s \in {"find", "insert"} /\ op[p].kind \in {"file", "create"})
             => op[p].acc \in files' \cup unwritten',
           s = "identity" => op[p].kind \in Unlocks,
           s \in {"accounts", "late"} => op[p].kind \in Devices,
           files \subseteq files', unwritten \subseteq unwritten'
    PROVE  OpsOK'
<1>1. op[p] \in OpType /\ OpOK(op[p], files \cup unwritten)
  BY DEF OpsOK
<1> DEFINE o == [op[p] EXCEPT !.at = s]
<1>2. op' = [op EXCEPT ![p] = o]
  BY DEF Goes, OpsOK
<1>3. o \in OpType /\ o.at = s /\ o.kind = op[p].kind /\ o.acc = op[p].acc /\ o.key = op[p].key
  BY <1>1 DEF OpType
<1>4. OpOK(o, files' \cup unwritten')
  BY <1>1, <1>3 DEF OpOK
<1> QED BY <1>2, <1>3, <1>4, OneOperation

(* An operation that begins does so. *)
LEMMA OperationBegins ==
    ASSUME OpsOK, NEW p \in Tasks, UNCHANGED <<files, unwritten>>,
           NEW o \in OpType, op' = [op EXCEPT ![p] = o],
           o.kind \in Kinds, o.at # "idle", o.key \in {NoAccount, o.acc},
           o.at \in {"read", "copy", "write"} => o.acc \in Accounts \ OnDevice,
           o.at \in {"switch", "accounts", "late"} => o.kind \in Devices,
           o.at # "identity",
           o.at \in {"find", "insert"} => o.kind \notin {"file", "create"}
    PROVE  OpsOK'
<1>1. o.kind # "none"
  BY ConstantsAssumption DEF Kinds, Unlocks
<1>2. OpOK(o, files' \cup unwritten')
  BY <1>1 DEF OpOK
<1> QED BY <1>2, OneOperation

(***************************************************************************)
(* The steps, in the order of WalletStore.                                 *)
(***************************************************************************)

(* The user begins something. *)
LEMMA BeginningKeeps ==
    ASSUME WalletInv, NEW p \in Tasks,
           \/ \E a \in Accounts : UnlockWithPublicKey(p, a)
           \/ \E a \in Accounts, kind \in {"password", "file"} : UnlockWithFile(p, kind, a)
           \/ \E a \in Accounts, kind \in {"key", "create"} : BeginWithKey(p, kind, a)
           \/ LoadLedger(p)
           \/ LoadTrezor(p)
           \/ UpdateWallet(p)
           \/ RefreshBalance(p)
    PROVE  WalletInv'
<1> USE DEF WalletInv
<1>1. ASSUME NEW a \in Accounts, UnlockWithPublicKey(p, a) PROVE WalletInv'
  <2> DEFINE o == [Idle EXCEPT !.kind = "public", !.acc = a, !.at = "find"]
  <2>1. o \in OpType /\ o.kind = "public" /\ o.at = "find" /\ o.key = NoAccount
    BY DEF Idle, OpType, Kinds, Unlocks
  <2>2. op' = [op EXCEPT ![p] = o] /\ UNCHANGED <<rows, files, unwritten, web3, store, app>>
    BY <1>1 DEF UnlockWithPublicKey, Starts
  <2>3. OpsOK'
    BY <2>1, <2>2, OperationBegins DEF Kinds, Unlocks
  <2> QED BY <2>2, <2>3 DEF RestOK, KeyOfAccount, RowHasKeyFile
<1>2. ASSUME NEW a \in Accounts, NEW kind \in {"password", "file"}, UnlockWithFile(p, kind, a)
      PROVE  WalletInv'
  <2> DEFINE o == [Idle EXCEPT !.kind = kind, !.acc = a, !.at = "read"]
  <2>1. o \in OpType /\ o.kind = kind /\ o.at = "read" /\ o.key = NoAccount /\ o.acc = a
    BY DEF Idle, OpType, Kinds, Unlocks
  <2>2. op' = [op EXCEPT ![p] = o] /\ UNCHANGED <<rows, files, unwritten, web3, store, app>>
    BY <1>2 DEF UnlockWithFile, Starts
  <2>3. a \notin OnDevice
    BY <1>2 DEF UnlockWithFile
  <2>4. OpsOK'
    BY <2>1, <2>2, <2>3, OperationBegins DEF Kinds, Unlocks
  <2> QED BY <2>2, <2>4 DEF RestOK, KeyOfAccount, RowHasKeyFile
<1>3. ASSUME NEW a \in Accounts, NEW kind \in {"key", "create"}, BeginWithKey(p, kind, a)
      PROVE  WalletInv'
  <2> DEFINE o == [kind |-> kind, acc |-> a, found |-> FALSE, key |-> a,
                   at |-> IF kind = "create" THEN "write" ELSE "find"]
  <2>1. o \in OpType
    BY DEF OpType, Kinds, Unlocks
  <2>2. op' = [op EXCEPT ![p] = o] /\ UNCHANGED <<rows, files, unwritten, store, app>>
    BY <1>3 DEF BeginWithKey
  <2>3. a \in Accounts \ OnDevice
    BY <1>3 DEF BeginWithKey
  <2>4. OpsOK'
    BY <2>1, <2>2, <2>3, OperationBegins DEF Kinds, Unlocks
  <2>5. RestOK'
    BY <1>3, <2>2, <2>3 DEF RestOK, BeginWithKey, AddsKey
  <2> QED BY <2>2, <2>4, <2>5 DEF KeyOfAccount, RowHasKeyFile
<1>4. ASSUME NEW d \in Devices, NEW s \in {"switch", "accounts"},
             Starts(p, d, NoAccount, s), UNCHANGED <<rows, files, unwritten, store, app>>,
             web3' \in {web3, NewWeb3(d)}
      PROVE  WalletInv'
  <2> DEFINE o == [Idle EXCEPT !.kind = d, !.acc = NoAccount, !.at = s]
  <2>1. o \in OpType /\ o.kind = d /\ o.at = s /\ o.key = NoAccount
    BY DEF Idle, OpType, Kinds, Unlocks
  <2>2. op' = [op EXCEPT ![p] = o]
    BY <1>4 DEF Starts
  <2>3. OpsOK'
    BY <1>4, <2>1, <2>2, OperationBegins DEF Kinds, Unlocks
  <2>4. CASE web3' = NewWeb3(d)
    <3>1. RestOK'
      BY <1>4, <2>4 DEF RestOK, NewWeb3
    <3> QED BY <1>4, <2>3, <3>1 DEF KeyOfAccount, RowHasKeyFile
  <2>5. CASE web3' = web3
    <3>1. RestOK'
      BY <1>4, <2>5 DEF RestOK
    <3> QED BY <1>4, <2>3, <3>1 DEF KeyOfAccount, RowHasKeyFile
  <2> QED BY <1>4, <2>4, <2>5
<1>5. CASE UpdateWallet(p)
  <2> DEFINE o == [Idle EXCEPT !.kind = "update", !.acc = store.publicKey, !.at = "row"]
  <2>1. o \in OpType /\ o.kind = "update" /\ o.at = "row" /\ o.key = NoAccount
    BY DEF Idle, OpType, Kinds, Unlocks, RestOK
  <2>2. op' = [op EXCEPT ![p] = o] /\ UNCHANGED <<rows, files, unwritten, web3, store, app>>
    BY <1>5 DEF UpdateWallet, Starts
  <2>3. OpsOK'
    BY <2>1, <2>2, OperationBegins DEF Kinds, Unlocks
  <2> QED BY <2>2, <2>3 DEF RestOK, KeyOfAccount, RowHasKeyFile
<1>6. CASE RefreshBalance(p)
  <2> DEFINE o == [kind |-> "refresh", acc |-> store.publicKey, at |-> "balance",
                   found |-> FALSE, key |-> store.privateKey]
  <2>1. o \in OpType /\ o.key \in {NoAccount, o.acc}
    BY DEF OpType, Kinds, RestOK, KeyOfAccount
  <2>2. op' = [op EXCEPT ![p] = o] /\ UNCHANGED <<rows, files, unwritten, web3, store, app>>
    BY <1>6 DEF RefreshBalance
  <2>3. OpsOK'
    BY <2>1, <2>2, OperationBegins DEF Kinds, Unlocks
  <2> QED BY <2>2, <2>3 DEF RestOK, KeyOfAccount, RowHasKeyFile
<1> QED BY <1>1, <1>2, <1>3, <1>4, <1>5, <1>6 DEF LoadLedger, Asked, LoadTrezor

(* A key or a key file comes in: the steps before the row. *)
LEMMA KeyStepsKeep ==
    ASSUME WalletInv, NEW p \in Tasks,
           Decrypt(p) \/ CopyKeyFile(p) \/ WriteKeyFile(p) \/ FindRow(p)
    PROVE  WalletInv'
<1> USE DEF WalletInv
<1>0. op[p] \in OpType /\ OpOK(op[p], files \cup unwritten)
  BY DEF OpsOK
<1>1. CASE Decrypt(p)
  <2> DEFINE o == [op[p] EXCEPT !.key = op[p].acc,
                                !.at = IF op[p].kind = "password" THEN "balance" ELSE "copy"]
  <2>1. op[p].at = "read" /\ op[p].acc \in Accounts \ OnDevice
    BY <1>0, <1>1 DEF Decrypt, OpOK
  <2>2. /\ o \in OpType
        /\ o.kind = op[p].kind /\ o.acc = op[p].acc /\ o.key = op[p].acc
        /\ o.at \in {"balance", "copy"}
    BY <1>0, <2>1 DEF OpType
  <2>3. op' = [op EXCEPT ![p] = o] /\ UNCHANGED <<rows, files, unwritten, store, app>>
    BY <1>1 DEF Decrypt, OpsOK
  <2>4. OpOK(o, files' \cup unwritten')
    BY <1>0, <2>1, <2>2 DEF OpOK
  <2>5. OpsOK'
    BY <2>2, <2>3, <2>4, OneOperation
  <2>6. RestOK'
    BY <1>1, <2>1, <2>3 DEF RestOK, Decrypt, AddsKey
  <2> QED BY <2>3, <2>5, <2>6 DEF KeyOfAccount, RowHasKeyFile
<1>2. CASE CopyKeyFile(p)
  <2>1. op[p].at = "copy" /\ op[p].acc \in Accounts \ OnDevice
    BY <1>0, <1>2 DEF CopyKeyFile, OpOK
  <2>2. /\ Goes(p, "find")
        /\ files' = files \cup {op[p].acc}
        /\ UNCHANGED <<rows, unwritten, web3, store, app>>
    BY <1>2 DEF CopyKeyFile
  <2>3. OpsOK'
    BY <2>1, <2>2, OperationGoes
  <2> QED BY <2>1, <2>2, <2>3 DEF RestOK, KeyOfAccount, RowHasKeyFile
<1>3. CASE WriteKeyFile(p)
  <2>1. op[p].at = "write" /\ op[p].acc \in Accounts \ OnDevice
    BY <1>0, <1>3 DEF WriteKeyFile, OpOK
  <2>2. /\ Goes(p, "insert")
        /\ UNCHANGED <<rows, web3, store, app>>
        /\ \/ files' = files \cup {op[p].acc} /\ unwritten' = unwritten
           \/ unwritten' = unwritten \cup {op[p].acc} /\ files' = files
    BY <1>3 DEF WriteKeyFile
  <2>3. OpsOK'
    BY <2>1, <2>2, OperationGoes
  <2> QED BY <2>1, <2>2, <2>3 DEF RestOK, KeyOfAccount, RowHasKeyFile
<1>4. CASE FindRow(p)
  <2> DEFINE o == [op[p] EXCEPT !.found = rows[op[p].acc] # "none", !.at = "insert"]
  <2>1. /\ o \in OpType
        /\ o.kind = op[p].kind /\ o.acc = op[p].acc /\ o.key = op[p].key /\ o.at = "insert"
    BY <1>0 DEF OpType
  <2>2. op' = [op EXCEPT ![p] = o] /\ UNCHANGED <<rows, files, unwritten, store, app>>
    BY <1>4 DEF FindRow, OpsOK
  <2>3. OpOK(o, files' \cup unwritten')
    BY <1>0, <1>4, <2>1, <2>2 DEF OpOK, FindRow
  <2>4. OpsOK'
    BY <2>1, <2>2, <2>3, OneOperation
  <2>5. op[p].acc \in Accounts \cup {NoAccount}
    BY <1>0 DEF OpType
  <2>6. RestOK'
    BY <1>4, <2>2, <2>5 DEF RestOK, FindRow
  <2> QED BY <2>2, <2>4, <2>6 DEF KeyOfAccount, RowHasKeyFile
<1> QED BY <1>1, <1>2, <1>3, <1>4

(* The row, the balance and the identity: the steps that end an unlock or  *)
(* an update.                                                              *)
LEMMA StoreStepsKeep ==
    ASSUME WalletInv, NEW p \in Tasks,
           CreateRow(p) \/ RowUpdated(p) \/ BalanceAnswered(p) \/ IdentityUnlocked(p) \/ Fails(p)
    PROVE  WalletInv'
<1> USE DEF WalletInv
<1>0. op[p] \in OpType /\ OpOK(op[p], files \cup unwritten)
  BY DEF OpsOK
<1>1. CASE CreateRow(p)
  <2>1. op[p].at = "insert" /\ Goes(p, "balance") /\ UNCHANGED <<files, unwritten, web3, store, app>>
    BY <1>1 DEF CreateRow
  <2>2. OpsOK'
    BY <2>1, OperationGoes
  <2>3. RestOK'
    BY <1>1, <2>1 DEF RestOK, CreateRow
  <2>4. RowHasKeyFile'
    <3> SUFFICES ASSUME NEW a \in Accounts, rows'[a] = "path"
                 PROVE  a \in files' \cup unwritten'
      BY DEF RowHasKeyFile
    <3>1. CASE rows[a] = "path"
      BY <2>1, <3>1 DEF RowHasKeyFile
    <3>2. CASE rows[a] # "path"
      <4>1. a = op[p].acc /\ op[p].kind \in {"create", "file"}
        BY <1>1, <3>2 DEF CreateRow, RestOK
      <4> QED BY <1>0, <2>1, <4>1 DEF OpOK
    <3> QED BY <3>1, <3>2
  <2> QED BY <2>1, <2>2, <2>3, <2>4 DEF KeyOfAccount
<1>2. CASE RowUpdated(p)
  <2> DEFINE o == [op[p] EXCEPT !.at = "balance", !.acc = store.publicKey,
                                !.key = store.privateKey]
  <2>1. op[p].at = "row" /\ UNCHANGED <<rows, files, unwritten, web3, store, app>>
    BY <1>2 DEF RowUpdated
  <2>2. /\ o \in OpType
        /\ o.kind = op[p].kind /\ o.at = "balance" /\ o.acc = store.publicKey
        /\ o.key = store.privateKey
    BY <1>0 DEF OpType, RestOK
  <2>3. op' = [op EXCEPT ![p] = o]
    BY <1>2 DEF RowUpdated, OpsOK
  <2>4. OpOK(o, files' \cup unwritten')
    BY <1>0, <2>1, <2>2 DEF OpOK, KeyOfAccount
  <2>5. OpsOK'
    BY <2>1, <2>2, <2>3, <2>4, OneOperation
  <2> QED BY <2>1, <2>5 DEF RestOK, KeyOfAccount, RowHasKeyFile
<1>3. CASE BalanceAnswered(p)
  <2>1. /\ op[p].at = "balance"
        /\ store' = [publicKey |-> op[p].acc, privateKey |-> op[p].key]
        /\ UNCHANGED <<rows, files, unwritten, web3, app>>
    BY <1>3 DEF BalanceAnswered, MergedKey
  <2>2. OpsOK'
    <3>1. CASE op[p].kind \in Unlocks
      BY <1>3, <2>1, <3>1, OperationGoes DEF BalanceAnswered
    <3>2. CASE op[p].kind \notin Unlocks
      BY <1>3, <2>1, <3>2, OperationEnds DEF BalanceAnswered
    <3> QED BY <3>1, <3>2
  <2>3. RestOK' /\ KeyOfAccount'
    BY <1>0, <2>1 DEF RestOK, KeyOfAccount, OpOK, OpType
  <2> QED BY <2>1, <2>2, <2>3 DEF RowHasKeyFile
<1>4. CASE IdentityUnlocked(p)
  <2>1. op[p].kind \in Unlocks /\ UNCHANGED <<rows, files, unwritten, web3, store>>
    BY <1>0, <1>4 DEF IdentityUnlocked, OpOK
  <2>2. OpsOK'
    BY <1>4, <2>1, OperationEnds DEF IdentityUnlocked
  <2>3. RestOK'
    BY <1>4, <2>1 DEF IdentityUnlocked, RestOK
  <2> QED BY <2>1, <2>2, <2>3 DEF KeyOfAccount, RowHasKeyFile
<1>5. CASE Fails(p)
  <2>1. Ends(p) /\ UNCHANGED <<rows, files, unwritten, web3, store>>
    BY <1>5 DEF Fails
  <2>2. RestOK'
    BY <1>5, <2>1 DEF Fails, RestOK
  <2> QED BY <2>1, <2>2, OperationEnds DEF KeyOfAccount, RowHasKeyFile
<1> QED BY <1>1, <1>2, <1>3, <1>4, <1>5

(* The device answers, or its timer fires. *)
LEMMA DeviceStepsKeep ==
    ASSUME WalletInv, NEW p \in Tasks, SwitchProvider(p) \/ AccountsAnswered(p) \/ Timeout(p)
    PROVE  WalletInv'
<1> USE DEF WalletInv
<1>0. op[p].at \in {"switch", "accounts", "late"} /\ op[p].kind \in Devices
  BY DEF OpsOK, OpOK, SwitchProvider, AccountsAnswered, Timeout
<1>1. CASE SwitchProvider(p)
  <2>1. web3' = NewWeb3(op[p].kind) /\ UNCHANGED <<rows, files, unwritten, store, app>>
    BY <1>1 DEF SwitchProvider
  <2>2. OpsOK'
    BY <1>0, <1>1, <2>1, OperationGoes, OperationEnds DEF SwitchProvider
  <2>3. RestOK'
    BY <1>0, <2>1 DEF RestOK, NewWeb3
  <2> QED BY <2>1, <2>2, <2>3 DEF KeyOfAccount, RowHasKeyFile
<1>2. CASE AccountsAnswered(p)
  <2>1. Ends(p) /\ UNCHANGED <<rows, files, unwritten, web3, store>>
    BY <1>2 DEF AccountsAnswered
  <2>2. RestOK'
    BY <1>0, <1>2, <2>1 DEF AccountsAnswered, RestOK
  <2> QED BY <2>1, <2>2, OperationEnds DEF KeyOfAccount, RowHasKeyFile
<1>3. CASE Timeout(p)
  <2>1. UNCHANGED <<rows, files, unwritten, web3, store>>
    BY <1>3 DEF Timeout
  <2>2. OpsOK'
    BY <1>0, <1>3, <2>1, OperationGoes, OperationEnds DEF Timeout
  <2>3. RestOK'
    BY <1>3, <2>1 DEF Timeout, RestOK
  <2> QED BY <2>1, <2>2, <2>3 DEF KeyOfAccount, RowHasKeyFile
<1> QED BY <1>1, <1>2, <1>3

(* Opening an unlock screen, and a restart. *)
LEMMA AppStepsKeep ==
    ASSUME WalletInv, LoadWallets \/ Restart
    PROVE  WalletInv'
<1> USE DEF WalletInv
<1>1. CASE LoadWallets
  BY <1>1 DEF LoadWallets, OpsOK, RestOK, KeyOfAccount, RowHasKeyFile
<1>2. CASE Restart
  <2>1. OpsOK'
    BY <1>2 DEF Restart, Idle, OpsOK, OpType, OpOK
  <2>2. RestOK'
    BY <1>2 DEF Restart, RestOK, NewWeb3, NoWallet, NewApp
  <2> QED BY <1>2, <2>1, <2>2 DEF Restart, NoWallet, KeyOfAccount, RowHasKeyFile
<1> QED BY <1>1, <1>2

(***************************************************************************)
(* The theorems.                                                           *)
(***************************************************************************)

(* WalletInv holds always. *)
LEMMA Invariance == Spec => []WalletInv
<1>1. Init => WalletInv
  <2> SUFFICES ASSUME Init PROVE WalletInv
    OBVIOUS
  <2>1. OpsOK
    BY DEF Init, Idle, OpsOK, OpType, OpOK
  <2>2. RestOK
    BY DEF Init, RestOK, NewWeb3, NoWallet, NewApp
  <2> QED BY <2>1, <2>2 DEF Init, WalletInv, NoWallet, KeyOfAccount, RowHasKeyFile
<1>2. WalletInv /\ [Next]_vars => WalletInv'
  <2> SUFFICES ASSUME WalletInv, [Next]_vars PROVE WalletInv'
    OBVIOUS
  <2>1. CASE LoadWallets \/ Restart
    BY <2>1, AppStepsKeep
  <2>2. ASSUME NEW p \in Tasks, Step(p) PROVE WalletInv'
    BY <2>2, KeyStepsKeep, StoreStepsKeep DEF Step
  <2>3. ASSUME NEW p \in Tasks, SwitchProvider(p) \/ AccountsAnswered(p) \/ Timeout(p)
        PROVE  WalletInv'
    BY <2>3, DeviceStepsKeep
  <2>4. ASSUME NEW p \in Tasks, Fails(p) PROVE WalletInv'
    BY <2>4, StoreStepsKeep
  <2>5. CASE UNCHANGED vars
    BY <2>5 DEF vars, WalletInv, OpsOK, RestOK, KeyOfAccount, RowHasKeyFile
  <2> QED BY <2>1, <2>2, <2>3, <2>4, <2>5, BeginningKeeps DEF Next
<1> QED BY <1>1, <1>2, PTL DEF Spec

(* The variables have their types, however many operations overlap; an     *)
(* operation carries no key but the one of its own account.                *)
THEOREM TypeCorrect == Spec => []TypeOK
<1>1. WalletInv => TypeOK
  BY DEF WalletInv, OpsOK, OpOK, OpType, RestOK, TypeOK
<1> QED BY <1>1, Invariance, PTL

(* The private key in the store is never that of another account than its  *)
(* public key (common/wallet, reducers, lines 7-17), whatever unlocks,     *)
(* balance answers and updates overlap.                                    *)
THEOREM KeysMatch == Spec => []KeyOfAccount
<1>1. WalletInv => KeyOfAccount
  BY DEF WalletInv
<1> QED BY <1>1, Invariance, PTL

(* No row with a keystoreFilePath is without its key file, unless          *)
(* createWallet ignored that the file could not be written (lines 26-37),  *)
(* with any number of overlapping unlocks and a crash between any steps.   *)
THEOREM FileBeforeRow == Spec => []RowHasKeyFile
<1>1. WalletInv => RowHasKeyFile
  BY DEF WalletInv
<1> QED BY <1>1, Invariance, PTL

=============================================================================
