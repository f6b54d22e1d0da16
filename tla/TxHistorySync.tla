--------------------------- MODULE TxHistorySync ---------------------------
(***************************************************************************)
(* src/main/blockchain/tx-history-service.js and tx-history.js: the job    *)
(* that copies the transactions of every wallet from the block explorer    *)
(* into the table tx_history, next to createTxHistry of the transaction    *)
(* duck, which writes the record of a transaction that is still pending.   *)
(* The table and wallet_settings survive a restart, the job does not.      *)
(*                                                                         *)
(* A row is its status; of the addresses a pending one holds, Matching     *)
(* says which wallets they match.  Left out: the delay between requests    *)
(* (AsyncTaskQueue), the formatting of amounts, and showProgress, which no *)
(* caller of the repository passes (the RPC syncTxHistoryByWallet has no   *)
(* caller).  The explorer and the chain are external; no block is undone.  *)
(***************************************************************************)
EXTENDS Naturals, FiniteSets

CONSTANTS
    Wallets,
    Txs,          \* transactions that concern one of the wallets
    Owners,       \* Owners[t]: the wallets that are its 'from' or its 'to'
    Sender,       \* Sender[t]: the account that sent t
    Nonce,
    InEthList,    \* those the explorer lists under 'txlist'
    InTokenList,  \* those it lists under 'tokentx'
    ZeroValue,    \* those that move no ether
    Creations,    \* those without a 'to'
    Reverted,     \* those whose execution fails
    NoStatus,     \* those 'txlist' gives no receipt status of
    Recorded,     \* those the app sends itself
    Matching,     \* Matching[t]: the wallets whose lower-cased address is the
                  \* 'from' or the 'to' that createTxHistry writes: a local
                  \* wallet's 'from' is in mixed case, a 'to' as it was typed
    Unnumbered,   \* those whose record has no nonce, as the form had none
    PageSize,     \* OFFSET: entries of a full page
    Failures,     \* which requests may fail
    MaxBlock,     \* bound: number of blocks of the run
    MaxRestarts   \* bound: number of restarts of the app

FailureKinds == {"request", "tokenlist", "lookup", "receipt"}

ASSUME ConstantsAssumption ==
    /\ IsFiniteSet(Txs)
    /\ Owners \in [Txs -> SUBSET Wallets]
    /\ Nonce \in [Txs -> Nat]
    /\ DOMAIN Sender = Txs
    /\ \A s \in {InEthList, InTokenList, ZeroValue, Creations, Reverted, NoStatus, Recorded} :
         s \subseteq Txs
    /\ InEthList \cup InTokenList = Txs
    /\ Reverted \cap InTokenList = {}   \* no transfer took place
    /\ \A t \in Txs : Matching[t] \subseteq Owners[t]
    /\ Unnumbered \subseteq Recorded
    /\ Recorded \cap Creations = {}   \* the form always has an address
    /\ PageSize \in Nat \ {0}
    /\ Failures \subseteq FailureKinds
    /\ MaxBlock \in Nat
    /\ MaxRestarts \in Nat

VARIABLES
    pool,       \* transactions the node knows and no block holds
    block,      \* block[t]: the block that holds t, 0 for none
    head,       \* the newest block
    rows,       \* rows[t]: the status of the row of t in tx_history
    lastBlock,  \* wallet_settings.txHistoryLastSyncedBlock
    job,        \* the syncing job: where it is suspended and its local variables
    record,     \* record[t]: where createTxHistry and its addOrUpdate are
    restarts,
    spoiled     \* history: transactions some answer was spoiled for

chainVars == <<pool, block, head>>
tableVars == <<rows, lastBlock>>
vars == <<chainVars, tableVars, job, record, restarts, spoiled>>

Final == {"ok", "failed"}          \* rows with a block number
NoJob == [at |-> "off", left |-> {}, wallet |-> "none", end |-> 0, eth |-> {},
          token |-> {}, todo |-> {}, tx |-> "none", status |-> "none", found |-> FALSE,
          count |-> 0]

TypeOK ==
    /\ pool \subseteq Txs
    /\ block \in [Txs -> 0 .. MaxBlock]
    /\ head \in 0 .. MaxBlock
    /\ rows \in [Txs -> {"none", "pending"} \cup Final]
    /\ lastBlock \in [Wallets -> 0 .. head]
    /\ job.at \in {"off", "wallet", "block", "page", "tx", "receipt", "find", "write", "count",
                   "delete", "dead"}
    /\ job.left \subseteq Wallets
    /\ job.at \notin {"off", "wallet", "dead"} => job.wallet \in Wallets
    /\ job.end \in 0 .. head
    /\ job.eth \subseteq InEthList
    /\ job.token \subseteq InTokenList
    /\ job.todo \subseteq job.eth \cup job.token
    /\ job.at \in {"receipt", "find", "write"} => job.tx \in Txs
    /\ job.at \in {"find", "write"} => job.status \in Final
    /\ job.count \in 0 .. Cardinality(Txs)
    /\ record \in [Txs -> {"none", "sent", "absent", "present", "done"}]
    /\ restarts \in 0 .. MaxRestarts
    /\ spoiled \subseteq Txs

Init ==
    /\ pool = {} /\ block = [t \in Txs |-> 0] /\ head = 0
    /\ rows = [t \in Txs |-> "none"]
    /\ lastBlock = [w \in Wallets |-> 0]
    /\ job = NoJob
    /\ record = [t \in Txs |-> "none"]
    /\ restarts = 0
    /\ spoiled = {}

-----------------------------------------------------------------------------
(* The chain. *)

Known(a) == {t \in Txs : Sender[t] = a /\ (t \in pool \/ block[t] > 0)}
Before(t) == {u \in Txs : Sender[u] = Sender[t] /\ Nonce[u] < Nonce[t]}

(* A transaction reaches the node; nonces of one account follow each other *)
Send(t) ==
    /\ t \notin Known(Sender[t])
    /\ Nonce[t] = Cardinality(Known(Sender[t]))
    /\ pool' = pool \cup {t}
    /\ record' = [record EXCEPT ![t] = IF @ = "none" /\ t \in Recorded THEN "sent" ELSE @]
    /\ UNCHANGED <<block, head, tableVars, job, restarts, spoiled>>

(* The node forgets the last one of an account; another may take its nonce *)
Drop(t) ==
    /\ t \in pool
    /\ Nonce[t] + 1 = Cardinality(Known(Sender[t]))
    /\ pool' = pool \ {t}
    /\ UNCHANGED <<block, head, tableVars, job, record, restarts, spoiled>>

(* Blocks that concern no wallet are left out.                             *)
NewBlock(S) ==
    /\ head < MaxBlock /\ S # {}
    /\ \A t \in S : Before(t) \cap pool \subseteq S
    /\ head' = head + 1
    /\ pool' = pool \ S
    /\ block' = [t \in Txs |-> IF t \in S THEN head + 1 ELSE block[t]]
    /\ UNCHANGED <<tableVars, job, record, restarts, spoiled>>

-----------------------------------------------------------------------------
(* The job.  A failure inside next() of syncByWallet settles nothing and   *)
(* one of the other requests ends the chain of next() of startSyncingJob:  *)
(* either way the job is dead until the app is started again.              *)

JobGoes(j) ==
    /\ job' = j
    /\ UNCHANGED <<chainVars, record, restarts>>

(* The job without the local variables of syncByWallet *)
Idle(stage) == [NoJob EXCEPT !.at = stage, !.left = job.left, !.wallet = job.wallet]

(* did-finish-load *)
StartSyncingJob ==
    /\ job.at = "off"
    /\ JobGoes([job EXCEPT !.at = "wallet", !.left = Wallets])
    /\ UNCHANGED <<tableVars, spoiled>>

RequestFails ==
    /\ "request" \in Failures
    /\ job.at \in {"block", "page", "receipt", "count"}
    /\ JobGoes([NoJob EXCEPT !.at = "dead"])
    /\ UNCHANGED <<tableVars, spoiled>>

(* sync: the wallets one after the other, then the next cycle *)
NextWallet ==
    /\ job.at = "wallet"
    /\ \/ /\ job.left = {}
          /\ JobGoes([job EXCEPT !.left = Wallets])
       \/ \E w \in job.left :
            JobGoes([job EXCEPT !.at = "block", !.wallet = w, !.left = @ \ {w}])
    /\ UNCHANGED <<tableVars, spoiled>>

(* Mutant: the range ends behind the newest block. *)
BlockAnsweredPlusOne ==
    /\ job.at = "block"
    /\ JobGoes([job EXCEPT !.at = "page", !.end = head + 1])
    /\ UNCHANGED <<tableVars, spoiled>>

(* getMostResentBlock *)
BlockAnswered ==
    /\ job.at = "block"
    /\ JobGoes([job EXCEPT !.at = "page", !.end = head])
    /\ UNCHANGED <<tableVars, spoiled>>

(* Mutant: without the end of the range. *)
ListedBefore(L) == {t \in L : job.wallet \in Owners[t] /\ block[t] > 0
                              /\ block[t] \in lastBlock[job.wallet] .. job.end - 1}

Listed(L) == {t \in L : job.wallet \in Owners[t] /\ block[t] > 0
                        /\ block[t] \in lastBlock[job.wallet] .. job.end}

(* The next page of list L, newest first (sort=desc), behind what is loaded *)
Pages(L, loaded) ==
    LET rest == Listed(L) \ loaded IN
    {S \in SUBSET rest :
        /\ Cardinality(S) <= PageSize
        /\ S # rest => Cardinality(S) = PageSize
        /\ \A t \in S, u \in rest \ S : block[t] >= block[u]}

MorePages(E, K) == Cardinality(E) = PageSize \/ Cardinality(K) = PageSize

(* One page of both lists.  A refused token list is a string: concat adds  *)
(* it as one element that processTx drops.                                 *)
LoadPage ==
    /\ job.at = "page"
    /\ \E E \in Pages(InEthList, job.eth), K \in Pages(InTokenList, job.token) :
        \/ /\ LET eth == job.eth \cup E
                  token == job.token \cup K
              IN JobGoes(IF MorePages(E, K)
                         THEN [job EXCEPT !.eth = eth, !.token = token]
                         ELSE [job EXCEPT !.at = "tx", !.eth = eth, !.token = token,
                                          !.todo = eth \cup token])
           /\ UNCHANGED spoiled
        \/ /\ "tokenlist" \in Failures
           /\ LET eth == job.eth \cup E IN
              JobGoes(IF MorePages(E, {})
                      THEN [job EXCEPT !.eth = eth]
                      ELSE [job EXCEPT !.at = "tx", !.eth = eth, !.todo = eth \cup job.token])
           /\ spoiled' = spoiled \cup (Listed(InTokenList) \ job.token)
    /\ UNCHANGED tableVars

(* A call without ether that moved no token counts as a failed transfer *)
IsFailedERC20TokenTx(t, token) == t \notin token /\ t \in ZeroValue

(* The status of the receipt, which 'txlist' repeats *)
Outcome(t) == IF t \in Reverted THEN "failed" ELSE "ok"

(* The status of an entry of 'tokentx' is never known: line 171 reads the  *)
(* key of the other entry that is renamed in processedTx only.             *)
NeedsReceipt(t, token) == t \in token \cup NoStatus

(* processTx returns null: no row is written *)
Skip(t) ==
    /\ JobGoes([job EXCEPT !.at = "tx", !.todo = @ \ {t}, !.tx = NoJob.tx,
                           !.status = NoJob.status])
    /\ spoiled' = spoiled \cup ({t} \ Creations)

(* processTx up to the status.  One that makes a contract is skipped, and  *)
(* a transfer of a token that neither entry nor contract describes.        *)
ProcessTx(t) ==
    /\ job.at = "tx"
    /\ t \in job.todo
    /\ \/ /\ t \notin Creations
          /\ JobGoes(IF NeedsReceipt(t, job.token)
                     THEN [job EXCEPT !.at = "receipt", !.tx = t]
                     ELSE [job EXCEPT !.at = "find", !.tx = t, !.status = Outcome(t)])
          /\ UNCHANGED spoiled
       \/ /\ t \in Creations \/ ("lookup" \in Failures /\ t \in job.token)
          /\ Skip(t)
    /\ UNCHANGED tableVars

(* getTxReceiptStatus: a missing receipt, or one without a status, is 0.   *)
ReceiptAnswered ==
    /\ job.at = "receipt"
    /\ \/ /\ JobGoes([job EXCEPT !.at = "find", !.status = Outcome(job.tx)])
          /\ UNCHANGED spoiled
       \/ /\ "receipt" \in Failures
          /\ JobGoes([job EXCEPT !.at = "find", !.status = "failed"])
          /\ spoiled' = spoiled \cup {job.tx}
    /\ UNCHANGED tableVars

(* The rest of processTx, which skips a failed transfer whose contract     *)
(* answers nothing, and the findOne of addOrUpdate                         *)
FindRow ==
    /\ job.at = "find"
    /\ \/ /\ JobGoes([job EXCEPT
                !.at = "write", !.found = rows[job.tx] # "none",
                !.status = IF IsFailedERC20TokenTx(job.tx, job.token) THEN "failed" ELSE @])
          /\ UNCHANGED spoiled
       \/ /\ "lookup" \in Failures /\ IsFailedERC20TokenTx(job.tx, job.token)
          /\ Skip(job.tx)
    /\ UNCHANGED tableVars

(* addOrUpdate: an insert of a hash that is there by now is rejected *)
AddOrUpdate ==
    /\ job.at = "write"
    /\ IF ~job.found /\ rows[job.tx] # "none"
       THEN /\ JobGoes([NoJob EXCEPT !.at = "dead"])
            /\ UNCHANGED rows
       ELSE /\ rows' = [rows EXCEPT ![job.tx] = job.status]
            /\ JobGoes([job EXCEPT !.at = "tx", !.todo = @ \ {job.tx}, !.tx = NoJob.tx,
                                   !.status = NoJob.status, !.found = FALSE])
    /\ UNCHANGED <<lastBlock, spoiled>>

(* Mutant: the last block is saved before the rows are written. *)
SaveLastBlockFirst ==
    /\ job.at = "tx" /\ lastBlock[job.wallet] # job.end
    /\ lastBlock' = [lastBlock EXCEPT ![job.wallet] = job.end]
    /\ JobGoes(IF job.todo = {} THEN Idle("count") ELSE job)
    /\ UNCHANGED <<rows, spoiled>>

(* All rows are written: WalletSetting.updateById *)
SaveLastBlock ==
    /\ job.at = "tx" /\ job.todo = {}
    /\ lastBlock' = [lastBlock EXCEPT ![job.wallet] = job.end]
    /\ JobGoes(Idle("count"))
    /\ UNCHANGED <<rows, spoiled>>

(* getTransactionCount(address, 'pending') *)
CountAnswered ==
    /\ job.at = "count"
    /\ JobGoes([job EXCEPT !.at = "delete", !.count = Cardinality(Known(job.wallet))])
    /\ UNCHANGED <<tableVars, spoiled>>

NonceBelow(t, n) == t \in Unnumbered \/ Nonce[t] < n

(* Mutant: without whereNull('blockNumber'). *)
NotMinedIsAny(t) == rows[t] # "none" /\ job.wallet \in Matching[t] /\ NonceBelow(t, job.count)

(* Mutant: a pending record with the next nonce is expected. *)
NotMinedBelow(t) ==
    rows[t] = "pending" /\ job.wallet \in Matching[t] /\ NonceBelow(t, job.count - 1)

(* The address is compared in lower case with what createTxHistry wrote.   *)
NotMinedPending(t) ==
    rows[t] = "pending" /\ job.wallet \in Matching[t] /\ NonceBelow(t, job.count)

RemoveNotMinedPendingTxs ==
    /\ job.at = "delete"
    /\ rows' = [t \in Txs |-> IF NotMinedPending(t) THEN "none" ELSE rows[t]]
    /\ JobGoes(Idle("wallet"))
    /\ UNCHANGED <<lastBlock, spoiled>>

JobStep ==
    \/ StartSyncingJob
    \/ RequestFails
    \/ NextWallet
    \/ BlockAnswered
    \/ LoadPage
    \/ \E t \in Txs : ProcessTx(t)
    \/ ReceiptAnswered
    \/ FindRow
    \/ AddOrUpdate
    \/ SaveLastBlock
    \/ CountAnswered
    \/ RemoveNotMinedPendingTxs

-----------------------------------------------------------------------------
(* createTxHistry, when the hash of a transaction arrives: addOrUpdate     *)
(* with the form's data, which has no block number and no status.          *)

HashEvent(t) ==
    /\ record[t] = "sent"
    /\ record' = [record EXCEPT ![t] = IF rows[t] = "none" THEN "absent" ELSE "present"]
    /\ UNCHANGED <<chainVars, tableVars, job, restarts, spoiled>>

CreateTxHistory(t) ==
    /\ record[t] \in {"absent", "present"}
    /\ record' = [record EXCEPT ![t] = "done"]
    /\ rows' = IF record[t] = "absent" /\ rows[t] = "none"
               THEN [rows EXCEPT ![t] = "pending"]
               ELSE rows
    /\ UNCHANGED <<chainVars, lastBlock, job, restarts, spoiled>>

(* The app is closed at any moment and started again: what it awaited is   *)
(* lost, also the hash of a transaction that is on its way.                *)
Restart ==
    /\ restarts < MaxRestarts
    /\ job.at # "off"
    /\ restarts' = restarts + 1
    /\ job' = NoJob
    /\ record' = [t \in Txs |-> IF record[t] = "none" THEN "none" ELSE "done"]
    /\ UNCHANGED <<chainVars, tableVars, spoiled>>

Next ==
    \/ \E t \in Txs : Send(t) \/ Drop(t)
    \/ \E S \in SUBSET pool : NewBlock(S)
    \/ JobStep
    \/ \E t \in Txs : HashEvent(t) \/ CreateTxHistory(t)
    \/ Restart

Spec == Init /\ [][Next]_vars

(* Queries of the table end, requests are answered or fail. *)
FairSpec == Spec /\ WF_vars(JobStep) /\ \A t \in Txs : WF_vars(CreateTxHistory(t))

-----------------------------------------------------------------------------

(* What the table should hold of a mined transaction: what the chain and   *)
(* the complete lists say of it                                            *)
Expected(t) == IF t \in Creations THEN "none"
               ELSE IF IsFailedERC20TokenTx(t, InTokenList) THEN "failed"
               ELSE Outcome(t)

(* syncByWallet (lines 270-297) never looks at blocks before the saved one *)
(* again, so everything up to it must be in the table with its status,     *)
(* also when the app was closed between two writes, when a list has        *)
(* several pages, or when createTxHistry wrote the same hash meanwhile.   *)
(* The exceptions are transactions an answer was spoiled for, which stay   *)
(* missing or wrong: a token list that was refused, a contract that did    *)
(* not answer (skipped), a receipt that did not come ('failed').           *)
HistoryComplete ==
    \A t \in Txs : \A w \in Owners[t] :
        block[t] > 0 /\ block[t] <= lastBlock[w] => rows[t] = Expected(t) \/ t \in spoiled

(* removeNotMinedPendingTxs (lines 309-316) and a late createTxHistry     *)
(* never delete the row of a mined transaction or make it pending again.   *)
MinedRowStays == [][\A t \in Txs : rows[t] \in Final => rows'[t] \in Final]_vars

(* The job (lines 318-331) records every mined transaction with its status *)
(* unless it died or an answer was spoiled for it, as above.               *)
MinedIsRecorded ==
    \A t \in Txs : block[t] > 0 ~> rows[t] = Expected(t) \/ t \in spoiled \/ job.at = "dead"

(* The nonce of t is taken for good and a lower-cased address of its       *)
(* record is compared with the count that shows it.                        *)
Removable(t) == IF t \in Unnumbered THEN Matching[t] # {}
                ELSE Sender[t] \in Matching[t] /\ Nonce[t] < Cardinality(Known(Sender[t]))

(* A pending record does not stay while the nonce of its transaction is    *)
(* taken, by itself or by another after the node dropped it (lines         *)
(* 309-316), unless the job died.  This is so for a record that has a      *)
(* lower-cased address of its sender, that is of a hardware wallet: the    *)
(* record of a local wallet goes only when the transaction is mined.       *)
PendingResolved ==
    \A t \in Txs : rows[t] = "pending" ~> rows[t] # "pending" \/ ~Removable(t) \/ job.at = "dead"

=============================================================================
