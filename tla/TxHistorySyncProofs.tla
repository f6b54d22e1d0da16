------------------------ MODULE TxHistorySyncProofs ------------------------
(***************************************************************************)
(* Proofs about TxHistorySync, for any transactions, wallets, page size,   *)
(* failures and number of blocks and restarts.  HistoryComplete speaks of  *)
(* the blocks up to the last one that was saved; the invariant says what   *)
(* the job owes for the blocks after it, wherever it is suspended.         *)
(***************************************************************************)
EXTENDS TxHistorySync, FiniteSetTheorems, TLAPS

Stages == {"off", "wallet", "block", "page", "tx", "receipt", "find", "write", "count", "delete",
           "dead"}
OneTx == {"receipt", "find", "write"}    \* a transaction is being processed
Processing == {"tx"} \cup OneTx

Jobs == [at : Stages, left : SUBSET Wallets, wallet : Wallets \cup {"none"},
         end : 0 .. MaxBlock, eth : SUBSET InEthList, token : SUBSET InTokenList,
         todo : SUBSET Txs, tx : Txs \cup {"none"}, status : {"none"} \cup Final,
         found : BOOLEAN, count : Nat]

(* Blocks are those of the chain, and what is mined is not in the pool. *)
ChainOK ==
    \A t \in Txs : block[t] \in 0 .. head /\ (t \in pool => block[t] = 0)

(* Nobody writes a row for a transaction that makes a contract. *)
RowsOK ==
    /\ \A t \in Creations : rows[t] = "none"
    /\ \A t \in Txs : record[t] \in {"sent", "absent", "present"} => t \in Recorded

Settled(t) == rows[t] = Expected(t) \/ t \in spoiled

InRange(t) ==
    /\ job.wallet \in Owners[t] /\ block[t] > 0
    /\ block[t] \in lastBlock[job.wallet] .. job.end

(* What is loaded is in the range; once all is loaded, a transaction of    *)
(* the range is still to be processed or is settled; the transfers of      *)
(* tokens are known, and the rows depend on them.  The status that is      *)
(* about to be written is right, a failed transfer's from FindRow on.      *)
JobOK ==
    /\ job.at \notin {"page"} \cup Processing => job.eth = {} /\ job.token = {}
    /\ \A t \in job.eth \cup job.token : InRange(t)
    /\ job.at \in Processing =>
         \A t \in Txs : InRange(t) =>
            /\ t \in job.todo \/ Settled(t)
            /\ t \in InTokenList => t \in job.token \/ t \in spoiled
    /\ job.at \in OneTx => job.tx \in job.todo \ Creations

StatusOK ==
    /\ job.at = "find" => job.status = Outcome(job.tx) \/ job.tx \in spoiled
    /\ job.at = "write" => job.status = Expected(job.tx) \/ job.tx \in spoiled

HistoryInv ==
    TypeOK /\ job \in Jobs /\ ChainOK /\ RowsOK /\ JobOK /\ StatusOK /\ HistoryComplete

(* Everything a proof needs of the tables and the chain *)
LEMMA Types ==
    ASSUME HistoryInv
    PROVE  /\ head \in 0 .. MaxBlock /\ MaxBlock \in Nat
           /\ \A t \in Txs : block[t] \in 0 .. head /\ Owners[t] \subseteq Wallets
           /\ \A w \in Wallets : lastBlock[w] \in 0 .. head
           /\ rows \in [Txs -> {"none", "pending"} \cup Final]
           /\ job.end \in 0 .. head
           /\ job.todo \subseteq Txs
  BY ConstantsAssumption DEF HistoryInv, TypeOK, ChainOK, Jobs

-----------------------------------------------------------------------------
(* Steps of the environment: the chain grows behind the range of the job,  *)
(* and what it had in its blocks stays there.                              *)

ChainGrows ==
    /\ head' \in head .. MaxBlock /\ pool' \subseteq Txs
    /\ \A t \in Txs : \/ block'[t] = block[t]
                      \/ block[t] = 0 /\ block'[t] = head + 1 /\ head' = head + 1
    /\ block' \in [Txs -> 0 .. MaxBlock]
    /\ \A t \in Txs : t \in pool' => block'[t] = 0
    /\ UNCHANGED <<tableVars, job, restarts, spoiled>>
    /\ \/ UNCHANGED record
       \/ \E t \in Recorded : record' = [record EXCEPT ![t] = "sent"]

LEMMA SendGrows == ASSUME HistoryInv, NEW t \in Txs, Send(t) PROVE ChainGrows
  <1>1. /\ pool' = pool \cup {t} /\ block[t] = 0
        /\ UNCHANGED <<block, head, tableVars, job, restarts, spoiled>>
    BY Types DEF Send, Known
  <1>2. \/ UNCHANGED record
        \/ t \in Recorded /\ record' = [record EXCEPT ![t] = "sent"]
    BY DEF Send, HistoryInv, TypeOK
  <1> QED
    BY <1>1, <1>2, Types DEF HistoryInv, TypeOK, ChainOK, ChainGrows

LEMMA DropGrows == ASSUME HistoryInv, NEW t \in Txs, Drop(t) PROVE ChainGrows
  BY Types DEF HistoryInv, TypeOK, ChainOK, Drop, ChainGrows

LEMMA NewBlockGrows == ASSUME HistoryInv, NEW S \in SUBSET pool, NewBlock(S) PROVE ChainGrows
  BY Types DEF HistoryInv, TypeOK, ChainOK, NewBlock, ChainGrows

LEMMA ChainStep == ASSUME HistoryInv, ChainGrows PROVE HistoryInv'
  <1>2. ChainOK'
    BY Types DEF ChainGrows, ChainOK
  <1>3. TypeOK'
    BY Types DEF ChainGrows, HistoryInv, TypeOK, tableVars
  <1>4. \A t \in Txs, w \in Wallets :
          block'[t] > 0 /\ (block'[t] <= lastBlock[w] \/ block'[t] <= job.end)
            => block'[t] = block[t]
    BY Types DEF ChainGrows
  <1>5. \A t \in Txs : InRange(t)' <=> InRange(t)
    BY Types DEF ChainGrows, InRange, tableVars
  <1>6. \A t \in Txs : Settled(t)' <=> Settled(t)
    BY DEF ChainGrows, Settled, Expected, Outcome, IsFailedERC20TokenTx, tableVars
  <1>7. JobOK'
    <2>1. job' = job /\ spoiled' = spoiled /\ job.eth \cup job.token \subseteq Txs
      BY ConstantsAssumption DEF ChainGrows, HistoryInv, TypeOK
    <2> QED
      BY <1>5, <1>6, <2>1 DEF HistoryInv, JobOK
  <1>8. RowsOK'
    BY DEF ChainGrows, HistoryInv, TypeOK, RowsOK, tableVars
  <1>10. StatusOK'
    BY DEF ChainGrows, HistoryInv, StatusOK, Expected, Outcome, IsFailedERC20TokenTx
  <1>9. HistoryComplete'
    BY <1>4, <1>6, Types DEF ChainGrows, HistoryInv, HistoryComplete, Settled, tableVars
  <1> QED
    BY <1>2, <1>3, <1>7, <1>8, <1>9, <1>10 DEF HistoryInv, ChainGrows

-----------------------------------------------------------------------------
(* Steps of the job and of createTxHistory. *)

(* The types of the job's local variables *)
JobTyped ==
    /\ job \in Jobs
    /\ job.at \notin {"off", "wallet", "dead"} => job.wallet \in Wallets
    /\ job.end \in 0 .. head
    /\ job.todo \subseteq job.eth \cup job.token
    /\ job.at \in OneTx => job.tx \in Txs
    /\ job.at \in {"find", "write"} => job.status \in Final
    /\ job.count \in 0 .. Cardinality(Txs)

RowsTyped ==
    /\ rows \in [Txs -> {"none", "pending"} \cup Final]
    /\ record \in [Txs -> {"none", "sent", "absent", "present", "done"}]
    /\ spoiled \subseteq Txs

(* What was settled stays so: then all that is left to show is what the    *)
(* job owes where it now stands.                                           *)
LEMMA Preserved ==
    ASSUME HistoryInv, UNCHANGED <<chainVars, lastBlock>>, restarts' \in 0 .. MaxRestarts,
           RowsTyped', RowsOK', JobTyped', JobOK', StatusOK',
           \A t \in Txs : Settled(t) => Settled(t)'
    PROVE  HistoryInv'
  <1>1. TypeOK'
    BY DEF HistoryInv, TypeOK, RowsTyped, JobTyped, Jobs, Stages, OneTx, chainVars
  <1>2. ChainOK'
    BY DEF HistoryInv, ChainOK, chainVars
  <1>3. HistoryComplete'
    BY DEF HistoryInv, HistoryComplete, Settled, chainVars
  <1> QED
    BY <1>1, <1>2, <1>3 DEF HistoryInv, JobTyped

LEMMA Typed == ASSUME HistoryInv PROVE JobTyped /\ RowsTyped /\ restarts \in 0 .. MaxRestarts
  BY DEF HistoryInv, TypeOK, JobTyped, RowsTyped, OneTx

(* A step that leaves the table and the record alone *)
LEMMA JobMoves ==
    ASSUME HistoryInv, UNCHANGED <<chainVars, tableVars, record, restarts>>,
           spoiled \subseteq spoiled', spoiled' \subseteq Txs, JobTyped', JobOK', StatusOK'
    PROVE  HistoryInv'
  <1>1. \A t \in Txs : Settled(t) => Settled(t)'
    BY DEF Settled, Expected, Outcome, IsFailedERC20TokenTx, tableVars
  <1>2. RowsTyped' /\ RowsOK'
    BY Typed DEF HistoryInv, RowsTyped, RowsOK, tableVars
  <1> QED
    BY <1>1, <1>2, Preserved, Typed DEF tableVars

(* Between two wallets nothing is loaded, and nothing is owed. *)
LEMMA NothingLoaded ==
    ASSUME job'.at \notin Processing, job'.eth = {}, job'.token = {}
    PROVE  JobOK' /\ StatusOK'
  BY DEF JobOK, StatusOK, Processing, OneTx

LEMMA CountBound == Cardinality(Txs) \in Nat /\ \A a : Cardinality(Known(a)) \in 0 .. Cardinality(Txs)
  <1>1. ASSUME NEW a
        PROVE  Cardinality(Known(a)) \in 0 .. Cardinality(Txs)
    <2>1. Known(a) \subseteq Txs
      BY DEF Known
    <2> QED
      BY <2>1, FS_Subset, FS_CardinalityType, ConstantsAssumption
  <1> QED
    BY <1>1, FS_CardinalityType, ConstantsAssumption

LEMMA NoJobTyped ==
    /\ NoJob \in Jobs /\ [NoJob EXCEPT !.at = "dead"] \in Jobs
    /\ \A stage \in Stages : job \in Jobs => Idle(stage) \in Jobs
  <1>1. MaxBlock \in Nat /\ 0 \in 0 .. MaxBlock
    BY ConstantsAssumption
  <1>2. NoJob \in Jobs
    BY <1>1 DEF NoJob, Jobs, Stages
  <1>3. [NoJob EXCEPT !.at = "dead"] \in Jobs
    BY <1>2 DEF Jobs, Stages
  <1>4. ASSUME NEW stage \in Stages, job \in Jobs
        PROVE  Idle(stage) \in Jobs
    BY <1>1, <1>4 DEF Idle, NoJob, Jobs
  <1> QED
    BY <1>2, <1>3, <1>4

LEMMA IdleStep ==
    ASSUME HistoryInv,
           StartSyncingJob \/ RequestFails \/ NextWallet \/ BlockAnswered \/ CountAnswered
    PROVE  HistoryInv'
  <1>1. UNCHANGED <<chainVars, tableVars, record, restarts, spoiled>>
    BY DEF StartSyncingJob, RequestFails, NextWallet, BlockAnswered, CountAnswered, JobGoes
  <1>2. job'.at \notin Processing /\ job'.eth = {} /\ job'.token = {} /\ JobTyped'
    <2> USE Typed, Types, <1>1
    <2>1. CASE StartSyncingJob
      BY <2>1 DEF StartSyncingJob, JobGoes, JobTyped, Jobs, Stages, HistoryInv, JobOK, chainVars,
                   Processing, OneTx
    <2>2. CASE RequestFails
      <3>1. job' = [NoJob EXCEPT !.at = "dead"]
        BY <2>2 DEF RequestFails, JobGoes
      <3>2. job' \in Jobs
        BY <3>1, NoJobTyped
      <3>3. job'.count = 0 /\ 0 \in 0 .. Cardinality(Txs)
        BY <3>1, CountBound DEF NoJob
      <3> QED
        BY <3>1, <3>2, <3>3 DEF JobTyped, NoJob, chainVars, Processing, OneTx
    <2>3. CASE NextWallet
      <3>1. CASE job' = [job EXCEPT !.left = Wallets]
        BY <2>3, <3>1 DEF NextWallet, JobGoes, JobTyped, Jobs, Stages, HistoryInv, JobOK, chainVars,
                     Processing, OneTx
      <3>2. ASSUME NEW w \in job.left,
                   job' = [job EXCEPT !.at = "block", !.wallet = w, !.left = @ \ {w}]
            PROVE  job'.at \notin Processing /\ job'.eth = {} /\ job'.token = {} /\ JobTyped'
        <4>1. job \in Jobs /\ w \in Wallets /\ job.left \subseteq Wallets
          BY DEF JobTyped, Jobs
        <4>2. /\ job' \in Jobs /\ job'.wallet \in Wallets /\ job'.at = "block"
              /\ job'.eth = job.eth /\ job'.token = job.token /\ job'.todo = job.todo
              /\ job'.end = job.end /\ job'.count = job.count
          BY <3>2, <4>1 DEF Jobs, Stages
        <4> QED
          BY <4>2, <2>3 DEF NextWallet, JobTyped, HistoryInv, JobOK, chainVars, Processing, OneTx
      <3> QED
        BY <2>3, <3>1, <3>2 DEF NextWallet, JobGoes
    <2>4. CASE BlockAnswered
      <3>1. /\ job' = [job EXCEPT !.at = "page", !.end = head]
            /\ job \in Jobs /\ head \in 0 .. MaxBlock /\ job.at = "block"
        BY <2>4 DEF BlockAnswered, JobGoes, JobTyped
      <3>2. /\ job' \in Jobs /\ job'.wallet = job.wallet /\ job'.at = "page"
            /\ job'.eth = job.eth /\ job'.token = job.token /\ job'.todo = job.todo
            /\ job'.end = head /\ job'.count = job.count
        BY <3>1 DEF Jobs, Stages
      <3> QED
        BY <3>1, <3>2 DEF JobTyped, HistoryInv, JobOK, chainVars, Processing, OneTx
    <2>5. CASE CountAnswered
      <3> DEFINE n == Cardinality(Known(job.wallet))
      <3>1. job' = [job EXCEPT !.at = "delete", !.count = n] /\ job \in Jobs /\ job.at = "count"
        BY <2>5 DEF CountAnswered, JobGoes, JobTyped
      <3>2. n \in 0 .. Cardinality(Txs) /\ n \in Nat
        BY CountBound
      <3> HIDE DEF n
      <3>3. /\ job' \in Jobs /\ job'.wallet = job.wallet /\ job'.at = "delete"
            /\ job'.eth = job.eth /\ job'.token = job.token /\ job'.todo = job.todo
            /\ job'.end = job.end /\ job'.count = n
        BY <3>1, <3>2 DEF Jobs, Stages
      <3> QED
        BY <3>1, <3>2, <3>3 DEF JobTyped, HistoryInv, JobOK, chainVars, Processing, OneTx
    <2> QED
      BY <2>1, <2>2, <2>3, <2>4, <2>5
  <1> QED
    BY <1>1, <1>2, NothingLoaded, JobMoves, Typed DEF RowsTyped

-----------------------------------------------------------------------------
(* Loading: a page that is not full is the last one. *)

LEMMA ListedInRange == \A L \in SUBSET Txs : \A t \in L : t \in Listed(L) <=> InRange(t)
  BY DEF Listed, InRange

LEMMA LastPage ==
    ASSUME NEW L, NEW loaded, NEW S \in Pages(L, loaded)
    PROVE  S \subseteq Listed(L) /\ (Cardinality(S) # PageSize => Listed(L) \subseteq loaded \cup S)
  BY DEF Pages

(* What a page does to the job, the answer complete or the token list      *)
(* refused                                                                 *)
Loads(E, K) ==
    /\ \/ job' = [job EXCEPT !.eth = @ \cup E, !.token = @ \cup K]
       \/ /\ job' = [job EXCEPT !.at = "tx", !.eth = @ \cup E, !.token = @ \cup K,
                                !.todo = job.eth \cup E \cup job.token \cup K]
          /\ Listed(InEthList) \subseteq job.eth \cup E
          /\ Listed(InTokenList) \subseteq job.token \cup K \cup spoiled'
    /\ spoiled \subseteq spoiled' /\ spoiled' \subseteq Txs

LEMMA LoadPageLoads ==
    ASSUME HistoryInv, LoadPage
    PROVE  \E E \in SUBSET Listed(InEthList), K \in SUBSET Listed(InTokenList) : Loads(E, K)
  <1>1. PICK E \in Pages(InEthList, job.eth), K \in Pages(InTokenList, job.token) : LoadPage!2!(E, K)
    BY DEF LoadPage
  <1>2. /\ E \subseteq Listed(InEthList) /\ K \subseteq Listed(InTokenList)
        /\ Cardinality(E) # PageSize => Listed(InEthList) \subseteq job.eth \cup E
        /\ Cardinality(K) # PageSize => Listed(InTokenList) \subseteq job.token \cup K
    BY LastPage
  <1>3. spoiled \subseteq Txs /\ Listed(InTokenList) \subseteq Txs /\ job \in Jobs
    BY Typed, ConstantsAssumption DEF JobTyped, RowsTyped, Listed
  <1>4. CASE LoadPage!2!(E, K)!1
    <2> USE <1>2, <1>3, <1>4 DEF JobGoes
    <2>1. CASE MorePages(E, K)
      BY <2>1 DEF Loads
    <2>2. CASE ~MorePages(E, K)
      <3>1. job' = [job EXCEPT !.at = "tx", !.eth = @ \cup E, !.token = @ \cup K,
                               !.todo = job.eth \cup E \cup job.token \cup K]
        BY <2>2
      <3> QED
        BY <2>2, <3>1 DEF Loads, MorePages
    <2> QED
      BY <2>1, <2>2
  <1>5. CASE LoadPage!2!(E, K)!2
    <2>1. spoiled' = spoiled \cup (Listed(InTokenList) \ job.token)
      BY <1>5
    <2>2. CASE MorePages(E, {})
      <3>1. job' = [job EXCEPT !.eth = job.eth \cup E]
        BY <1>5, <2>2 DEF JobGoes
      <3>2. job' = [job EXCEPT !.eth = @ \cup E, !.token = @ \cup {}]
        BY <1>3, <3>1 DEF Jobs
      <3>3. Loads(E, {})
        BY <1>3, <2>1, <3>2 DEF Loads
      <3> QED
        BY <1>2, <3>3
    <2>3. CASE ~MorePages(E, {})
      <3>1. job' = [job EXCEPT !.at = "tx", !.eth = job.eth \cup E,
                               !.todo = job.eth \cup E \cup job.token]
        BY <1>5, <2>3 DEF JobGoes
      <3>2. job' = [job EXCEPT !.at = "tx", !.eth = @ \cup E, !.token = @ \cup {},
                               !.todo = job.eth \cup E \cup job.token \cup {}]
        BY <1>3, <3>1 DEF Jobs
      <3>3. Loads(E, {})
        BY <1>2, <1>3, <2>1, <2>3, <3>2 DEF Loads, MorePages
      <3> QED
        BY <1>2, <3>3
    <2> QED
      BY <2>2, <2>3
  <1> QED
    BY <1>1, <1>4, <1>5

LEMMA LoadStep == ASSUME HistoryInv, LoadPage PROVE HistoryInv'
  <1>1. /\ UNCHANGED <<chainVars, tableVars, record, restarts>>
        /\ job \in Jobs /\ job.at = "page" /\ job.wallet \in Wallets
    BY Typed DEF LoadPage, JobGoes, JobTyped
  <1>2. PICK E \in SUBSET Listed(InEthList), K \in SUBSET Listed(InTokenList) : Loads(E, K)
    BY LoadPageLoads
  <1>3. E \in SUBSET InEthList /\ K \in SUBSET InTokenList
    BY DEF Listed
  <1>4. /\ job' \in Jobs /\ job'.wallet = job.wallet /\ job'.end = job.end
        /\ job'.count = job.count /\ job'.eth = job.eth \cup E /\ job'.token = job.token \cup K
        /\ \/ job'.at = "page" /\ job'.todo = job.todo
           \/ /\ job'.at = "tx" /\ job'.todo = job'.eth \cup job'.token
              /\ Listed(InEthList) \subseteq job'.eth
              /\ Listed(InTokenList) \subseteq job'.token \cup spoiled'
    <2>1. job.eth \cup E \in SUBSET InEthList /\ job.token \cup K \in SUBSET InTokenList
          /\ job.eth \cup E \cup job.token \cup K \in SUBSET Txs
      BY <1>1, <1>3, ConstantsAssumption DEF Jobs
    <2>2. CASE job' = [job EXCEPT !.eth = @ \cup E, !.token = @ \cup K]
      BY <1>1, <2>1, <2>2 DEF Jobs
    <2>3. CASE /\ job' = [job EXCEPT !.at = "tx", !.eth = @ \cup E, !.token = @ \cup K,
                                     !.todo = job.eth \cup E \cup job.token \cup K]
               /\ Listed(InEthList) \subseteq job.eth \cup E
               /\ Listed(InTokenList) \subseteq job.token \cup K \cup spoiled'
      BY <1>1, <2>1, <2>3 DEF Jobs, Stages
    <2> QED
      BY <1>2, <2>2, <2>3 DEF Loads
  <1>5. JobTyped'
    BY <1>1, <1>4, Typed DEF JobTyped, chainVars, Processing, OneTx
  <1>6. \A t \in Txs : InRange(t)' <=> InRange(t)
    BY <1>1, <1>4 DEF InRange, chainVars, tableVars
  <1>7. \A t \in job'.eth \cup job'.token : t \in Txs /\ InRange(t)'
    BY <1>3, <1>4, <1>6, ListedInRange, ConstantsAssumption DEF HistoryInv, JobOK, Jobs
  <1>8. ASSUME job'.at = "tx", NEW t \in Txs, InRange(t)'
        PROVE  /\ t \in job'.todo \/ t \in spoiled'
               /\ t \in InTokenList => t \in job'.token \/ t \in spoiled'
    BY <1>4, <1>6, <1>8, ListedInRange, ConstantsAssumption
  <1>9. JobOK'
    BY <1>4, <1>7, <1>8 DEF JobOK, Settled, Processing, OneTx
  <1> QED
    BY <1>1, <1>2, <1>4, <1>5, <1>9, JobMoves DEF Loads, StatusOK

-----------------------------------------------------------------------------
(* Writing the rows *)

(* What has a row to come is in the range, so the list of token transfers  *)
(* it is judged by is complete, unless an answer was spoiled.              *)
LEMMA FailureIsKnown ==
    ASSUME HistoryInv, job.at \in Processing, NEW t \in job.todo
    PROVE  /\ t \in Txs
           /\ \/ t \in spoiled
              \/ IsFailedERC20TokenTx(t, job.token) <=> IsFailedERC20TokenTx(t, InTokenList)
  <1>1. t \in Txs /\ InRange(t) /\ job.token \subseteq InTokenList
    BY Typed, Types DEF HistoryInv, JobOK, JobTyped, Jobs
  <1>2. t \in InTokenList <=> t \in job.token \/ (t \in spoiled /\ t \in InTokenList)
    BY <1>1 DEF HistoryInv, JobOK
  <1> QED
    BY <1>1, <1>2 DEF IsFailedERC20TokenTx

(* While the rows are written, what leaves todo must be settled. *)
LEMMA StillOwed ==
    ASSUME HistoryInv, job.at \in Processing, job'.at \in Processing,
           UNCHANGED <<chainVars, lastBlock>>,
           job'.wallet = job.wallet, job'.end = job.end,
           job'.eth = job.eth, job'.token = job.token,
           spoiled \subseteq spoiled',
           \A t \in Txs : Settled(t) => Settled(t)',
           \A t \in Txs : t \in job.todo => t \in job'.todo \/ Settled(t)',
           job'.at \in OneTx => job'.tx \in job'.todo \ Creations
    PROVE  JobOK'
  <1>1. \A t \in Txs : InRange(t)' <=> InRange(t)
    BY DEF InRange, chainVars
  <1>2. job.eth \cup job.token \subseteq Txs
    BY Typed, ConstantsAssumption DEF JobTyped, Jobs
  <1> QED
    BY <1>1, <1>2 DEF HistoryInv, JobOK, Processing, OneTx

(* A step of processTx: it goes on with one transaction, or drops one that *)
(* is settled.                                                             *)
Processes(t) ==
    /\ UNCHANGED <<chainVars, tableVars, record, restarts>>
    /\ job \in Jobs /\ job.at \in Processing /\ job.wallet \in Wallets /\ t \in job.todo
    /\ spoiled \subseteq spoiled' /\ spoiled' \subseteq Txs
    /\ job' \in Jobs /\ job'.wallet = job.wallet /\ job'.end = job.end
    /\ job'.count = job.count /\ job'.eth = job.eth /\ job'.token = job.token
    /\ \/ /\ job'.at \in OneTx /\ job'.todo = job.todo /\ job'.tx = t /\ t \notin Creations
          /\ job'.at \in {"find", "write"} => job'.status \in Final
          /\ job'.at = "find" => job'.status = Outcome(t) \/ t \in spoiled'
          /\ job'.at = "write" => job'.status = Expected(t) \/ t \in spoiled'
       \/ job'.at = "tx" /\ job'.todo = job.todo \ {t} /\ (t \in Creations \/ t \in spoiled')

LEMMA SkipProcesses ==
    ASSUME HistoryInv, NEW t \in job.todo, job.at \in Processing, Skip(t), UNCHANGED tableVars
    PROVE  Processes(t)
  <1>1. job \in Jobs /\ t \in Txs /\ spoiled \subseteq Txs /\ job.wallet \in Wallets
    BY Typed, Types DEF JobTyped, RowsTyped, Processing, OneTx
  <1>2. job' = [job EXCEPT !.at = "tx", !.todo = @ \ {t}, !.tx = "none", !.status = "none"]
    BY DEF Skip, JobGoes, NoJob
  <1>3. /\ job' \in Jobs /\ job'.wallet = job.wallet /\ job'.end = job.end
        /\ job'.count = job.count /\ job'.eth = job.eth /\ job'.token = job.token
        /\ job'.at = "tx" /\ job'.todo = job.todo \ {t}
    BY <1>1, <1>2 DEF Jobs, Stages
  <1> QED
    BY <1>1, <1>3 DEF Skip, JobGoes, Processes

LEMMA ProcessesStep ==
    ASSUME HistoryInv, NEW t, Processes(t)
    PROVE  HistoryInv'
  <1>1. JobTyped'
    BY Typed, Types DEF Processes, JobTyped, chainVars, Processing, OneTx
  <1>2. \A u \in Txs : Settled(u) => Settled(u)'
    BY DEF Processes, Settled, Expected, Outcome, IsFailedERC20TokenTx, tableVars
  <1>3. \A u \in Txs : u \in job.todo => u \in job'.todo \/ Settled(u)'
    <2>1. t \in Creations => rows[t] = Expected(t)
      BY DEF HistoryInv, RowsOK, Expected
    <2> QED
      BY <2>1 DEF Processes, Settled, Expected, Outcome, IsFailedERC20TokenTx, tableVars
  <1>4. JobOK'
    BY <1>2, <1>3, StillOwed DEF Processes, tableVars, Processing, OneTx
  <1>5. StatusOK'
    BY DEF Processes, StatusOK, Expected, Outcome, IsFailedERC20TokenTx
  <1> QED
    BY <1>1, <1>4, <1>5, JobMoves DEF Processes

LEMMA ProcessStep == ASSUME HistoryInv, NEW t \in Txs, ProcessTx(t) PROVE HistoryInv'
  <1>1. /\ UNCHANGED <<chainVars, tableVars, record, restarts>>
        /\ job \in Jobs /\ job.at = "tx" /\ job.wallet \in Wallets /\ t \in job.todo
        /\ spoiled \subseteq Txs /\ Outcome(t) \in Final
    BY Typed DEF ProcessTx, Skip, JobGoes, JobTyped, RowsTyped, Outcome, Final
  <1>2. CASE t \notin Creations /\ job' = [job EXCEPT !.at = "receipt", !.tx = t] /\ UNCHANGED spoiled
    BY <1>1, <1>2, ProcessesStep DEF Processes, Jobs, Stages, Processing, OneTx
  <1>3. CASE /\ t \notin Creations /\ UNCHANGED spoiled
             /\ job' = [job EXCEPT !.at = "find", !.tx = t, !.status = Outcome(t)]
    <2>1. /\ job' \in Jobs /\ job'.wallet = job.wallet /\ job'.end = job.end
          /\ job'.count = job.count /\ job'.eth = job.eth /\ job'.token = job.token
          /\ job'.at = "find" /\ job'.todo = job.todo /\ job'.tx = t /\ job'.status = Outcome(t)
      BY <1>1, <1>3 DEF Jobs, Stages
    <2> QED
      BY <1>1, <1>3, <2>1, ProcessesStep DEF Processes, Processing, OneTx
  <1>4. CASE Skip(t) /\ UNCHANGED tableVars
    BY <1>1, <1>4, SkipProcesses, ProcessesStep DEF Processing
  <1> QED
    BY <1>2, <1>3, <1>4 DEF ProcessTx, JobGoes

LEMMA ReceiptStep == ASSUME HistoryInv, ReceiptAnswered PROVE HistoryInv'
  <1>1. PICK st \in Final :
          /\ job' = [job EXCEPT !.at = "find", !.status = st]
          /\ st = Outcome(job.tx) \/ job.tx \in spoiled'
    BY DEF ReceiptAnswered, JobGoes, Outcome, Final
  <1>2. /\ UNCHANGED <<chainVars, tableVars, record, restarts>>
        /\ job \in Jobs /\ job.at = "receipt" /\ job.wallet \in Wallets /\ job.tx \in Txs
        /\ spoiled \subseteq spoiled' /\ spoiled' \subseteq Txs
        /\ job.tx \in job.todo \ Creations
    BY Typed DEF ReceiptAnswered, JobGoes, JobTyped, RowsTyped, HistoryInv, JobOK, OneTx
  <1>3. /\ job' \in Jobs /\ job'.wallet = job.wallet /\ job'.end = job.end
        /\ job'.count = job.count /\ job'.eth = job.eth /\ job'.token = job.token
        /\ job'.at = "find" /\ job'.todo = job.todo /\ job'.tx = job.tx /\ job'.status = st
    BY <1>1, <1>2 DEF Jobs, Stages
  <1> QED
    BY <1>1, <1>2, <1>3, ProcessesStep DEF Processes, Processing, OneTx

(* From here on a failed transfer has its status. *)
LEMMA FindStep == ASSUME HistoryInv, FindRow PROVE HistoryInv'
  <1>1. /\ UNCHANGED <<chainVars, tableVars, record, restarts>>
        /\ job \in Jobs /\ job.at = "find" /\ job.wallet \in Wallets /\ job.tx \in Txs
        /\ spoiled \subseteq Txs /\ job.tx \in job.todo \ Creations /\ job.status \in Final
        /\ job.status = Outcome(job.tx) \/ job.tx \in spoiled
    BY Typed DEF FindRow, Skip, JobGoes, JobTyped, RowsTyped, HistoryInv, JobOK, StatusOK, OneTx
  <1>2. CASE Skip(job.tx) /\ UNCHANGED tableVars
    BY <1>1, <1>2, SkipProcesses, ProcessesStep DEF Processing, OneTx
  <1> DEFINE st == IF IsFailedERC20TokenTx(job.tx, job.token) THEN "failed" ELSE job.status
             there == rows[job.tx] # "none"
  <1>3. CASE /\ job' = [job EXCEPT !.at = "write", !.found = there, !.status = st]
             /\ UNCHANGED spoiled
    <2>1. st \in Final /\ there \in BOOLEAN /\ (st = Expected(job.tx) \/ job.tx \in spoiled)
      BY <1>1, FailureIsKnown DEF Expected, Final, Processing, OneTx
    <2> HIDE DEF st, there
    <2>2. /\ job' \in Jobs /\ job'.wallet = job.wallet /\ job'.end = job.end
          /\ job'.count = job.count /\ job'.eth = job.eth /\ job'.token = job.token
          /\ job'.at = "write" /\ job'.todo = job.todo /\ job'.tx = job.tx /\ job'.status = st
      BY <1>1, <1>3, <2>1 DEF Jobs, Stages
    <2> QED
      BY <1>1, <1>3, <2>1, <2>2, ProcessesStep DEF Processes, Processing, OneTx
  <1>4. \/ Skip(job.tx)
        \/ job' = [job EXCEPT !.at = "write", !.found = there, !.status = st] /\ UNCHANGED spoiled
    <2>1. \/ Skip(job.tx)
          \/ /\ job' = [job EXCEPT
                  !.at = "write", !.found = rows[job.tx] # "none",
                  !.status = IF IsFailedERC20TokenTx(job.tx, job.token) THEN "failed" ELSE @]
             /\ UNCHANGED spoiled
      BY DEF FindRow, JobGoes
    <2> QED
      BY <1>1, <2>1 DEF Jobs
  <1> QED
    BY <1>1, <1>2, <1>3, <1>4

LEMMA AddOrUpdateStep == ASSUME HistoryInv, AddOrUpdate PROVE HistoryInv'
  <1>1. /\ UNCHANGED <<chainVars, lastBlock, record, restarts, spoiled>>
        /\ job \in Jobs /\ job.at = "write" /\ job.wallet \in Wallets /\ job.tx \in Txs
        /\ job.tx \in job.todo \ Creations /\ job.status \in Final
        /\ job.status = Expected(job.tx) \/ job.tx \in spoiled
    BY Typed DEF AddOrUpdate, JobGoes, JobTyped, HistoryInv, JobOK, StatusOK, OneTx
  <1>2. CASE job' = [NoJob EXCEPT !.at = "dead"] /\ UNCHANGED rows
    <2>1. /\ job' \in Jobs /\ job'.at = "dead" /\ job'.eth = {} /\ job'.token = {}
          /\ job'.todo = {} /\ job'.end = 0 /\ job'.count = 0
      BY <1>2, NoJobTyped DEF NoJob
    <2>2. JobTyped'
      BY <1>1, <2>1, Types, CountBound DEF JobTyped, chainVars, Processing, OneTx
    <2> QED
      BY <1>1, <1>2, <2>1, <2>2, NothingLoaded, JobMoves, Typed DEF RowsTyped, tableVars, Processing, OneTx
  <1>3. ASSUME NEW t \in Txs, t = job.tx, rows' = [rows EXCEPT ![t] = job.status],
               job' = [job EXCEPT !.at = "tx", !.todo = @ \ {t}, !.tx = NoJob.tx,
                                  !.status = NoJob.status, !.found = FALSE]
        PROVE  HistoryInv'
    <2>1. /\ job' \in Jobs /\ job'.wallet = job.wallet /\ job'.end = job.end
          /\ job'.count = job.count /\ job'.eth = job.eth /\ job'.token = job.token
          /\ job'.at = "tx" /\ job'.todo = job.todo \ {t}
      BY <1>1, <1>3 DEF Jobs, Stages, NoJob
    <2>2. JobTyped'
      BY <1>1, <2>1, Typed DEF JobTyped, chainVars, Processing, OneTx
    <2>3. /\ rows'[t] = job.status
          /\ \A u \in Txs \ {t} : rows'[u] = rows[u]
      BY <1>3, Typed DEF RowsTyped
    <2>4. Settled(t)'
      BY <1>1, <1>3, <2>3 DEF Settled, Expected, Outcome, IsFailedERC20TokenTx
    <2>5. \A u \in Txs : Settled(u) => Settled(u)'
      BY <1>1, <2>3, <2>4 DEF Settled, Expected, Outcome, IsFailedERC20TokenTx
    <2>6. JobOK'
      BY <1>1, <2>1, <2>4, <2>5, StillOwed DEF Processing, OneTx
    <2>8. StatusOK'
      BY <2>1 DEF StatusOK
    <2>7. RowsTyped' /\ RowsOK'
      BY <1>1, <1>3, Typed
         DEF RowsTyped, RowsOK, HistoryInv, Final
    <2> QED
      BY <1>1, <2>2, <2>5, <2>6, <2>7, <2>8, Preserved, Typed
  <1> QED
    BY <1>1, <1>2, <1>3 DEF AddOrUpdate, JobGoes

(* Once every transaction of the range is settled, the whole range up to   *)
(* its end may be saved as complete.                                       *)
LEMMA SaveStep == ASSUME HistoryInv, SaveLastBlock PROVE HistoryInv'
  <1> DEFINE w == job.wallet
  <1>1. /\ UNCHANGED <<chainVars, record, restarts, rows, spoiled>>
        /\ job \in Jobs /\ job.at = "tx" /\ job.todo = {} /\ w \in Wallets
        /\ job' = Idle("count") /\ job.end \in 0 .. head
        /\ lastBlock' = [lastBlock EXCEPT ![w] = job.end]
    BY Typed DEF SaveLastBlock, JobGoes, JobTyped
  <1>2. /\ job' \in Jobs /\ job'.wallet = w /\ job'.end = 0 /\ job'.count = 0
        /\ job'.eth = {} /\ job'.token = {} /\ job'.at = "count" /\ job'.todo = {}
    BY <1>1, NoJobTyped DEF Idle, NoJob, Stages
  <1>3. JobOK' /\ StatusOK'
    BY <1>2, NothingLoaded DEF Processing, OneTx
  <1>4. TypeOK'
    BY <1>1, <1>2, Types, CountBound DEF HistoryInv, TypeOK, Jobs, chainVars
  <1>5. ChainOK' /\ RowsOK'
    BY <1>1 DEF HistoryInv, ChainOK, RowsOK, chainVars
  <1>6. \A t \in Txs : InRange(t) => Settled(t)
    BY <1>1 DEF HistoryInv, JobOK, Processing, OneTx
  <1>7. ASSUME NEW t \in Txs, NEW v \in Owners[t], block[t] > 0, block[t] <= lastBlock'[v]
        PROVE  Settled(t)
    <2>1. v \in Wallets /\ block[t] \in 0 .. head /\ lastBlock[v] \in 0 .. head /\ head \in Nat
      BY Types
    <2>2. CASE block[t] <= lastBlock[v]
      BY <1>7, <2>2 DEF HistoryInv, HistoryComplete, Settled
    <2>3. CASE block[t] > lastBlock[v]
      <3>1. v = w /\ block[t] <= job.end
        BY <1>1, <1>7, <2>1, <2>3, Types
      <3>2. InRange(t)
        BY <1>1, <1>7, <2>1, <2>3, <3>1 DEF InRange
      <3> QED
        BY <1>6, <3>2
    <2> QED
      BY <2>1, <2>2, <2>3
  <1>8. HistoryComplete'
    BY <1>1, <1>7 DEF HistoryComplete, Settled, Expected, Outcome, IsFailedERC20TokenTx, chainVars
  <1> QED
    BY <1>2, <1>3, <1>4, <1>5, <1>8 DEF HistoryInv

(* Only pending rows are removed, and no settled transaction is pending.   *)
LEMMA RemoveStep == ASSUME HistoryInv, RemoveNotMinedPendingTxs PROVE HistoryInv'
  <1>1. /\ UNCHANGED <<chainVars, lastBlock, record, restarts, spoiled>>
        /\ job \in Jobs /\ job.wallet \in Wallets /\ job' = Idle("wallet")
        /\ rows' = [t \in Txs |-> IF NotMinedPending(t) THEN "none" ELSE rows[t]]
    BY Typed DEF RemoveNotMinedPendingTxs, JobGoes, JobTyped
  <1>2. /\ job' \in Jobs /\ job'.wallet = job.wallet /\ job'.end = 0 /\ job'.count = 0
        /\ job'.eth = {} /\ job'.token = {} /\ job'.at = "wallet" /\ job'.todo = {}
    BY <1>1, NoJobTyped DEF Idle, NoJob, Stages
  <1>3. JobOK' /\ StatusOK'
    BY <1>2, NothingLoaded DEF Processing, OneTx
  <1>4. JobTyped'
    BY <1>1, <1>2, Types, CountBound DEF JobTyped, chainVars, Processing, OneTx
  <1>5. \A t \in Txs : rows'[t] = rows[t] \/ (rows[t] = "pending" /\ rows'[t] = "none")
    BY <1>1 DEF NotMinedPending
  <1>6. RowsTyped' /\ RowsOK'
    <2>1. RowsTyped'
      BY <1>1, Typed DEF RowsTyped
    <2>2. Creations \subseteq Txs
      BY ConstantsAssumption
    <2> QED
      BY <1>1, <1>5, <2>1, <2>2 DEF RowsOK, HistoryInv
  <1>7. \A t \in Txs : Settled(t) => Settled(t)'
    BY <1>1, <1>5 DEF Settled, Expected, Outcome, IsFailedERC20TokenTx
  <1> QED
    BY <1>1, <1>3, <1>4, <1>6, <1>7, Preserved, Typed

-----------------------------------------------------------------------------
(* createTxHistory and the restart *)

LEMMA RecordStep ==
    ASSUME HistoryInv, NEW t \in Txs, HashEvent(t) \/ CreateTxHistory(t)
    PROVE  HistoryInv'
  <1>1. /\ UNCHANGED <<chainVars, lastBlock, job, restarts, spoiled>>
        /\ \A u \in Txs : \/ rows'[u] = rows[u]
                          \/ rows[u] = "none" /\ rows'[u] = "pending" /\ u \in Recorded
    BY Typed DEF HashEvent, CreateTxHistory, tableVars, HistoryInv, RowsOK, RowsTyped
  <1>2. RowsTyped'
    BY Typed DEF HashEvent, CreateTxHistory, tableVars, RowsTyped
  <1>3. RowsOK'
    <2>1. \A u \in Creations : rows'[u] = "none"
      BY <1>1, ConstantsAssumption DEF HistoryInv, RowsOK
    <2>2. \A u \in Txs : record'[u] \in {"sent", "absent", "present"} => u \in Recorded
      BY Typed DEF HashEvent, CreateTxHistory, HistoryInv, RowsOK, RowsTyped
    <2> QED
      BY <2>1, <2>2 DEF RowsOK
  <1>4. \A u \in Txs : Settled(u) => Settled(u)'
    BY <1>1, ConstantsAssumption DEF Settled, Expected, Outcome, IsFailedERC20TokenTx
  <1>5. JobTyped' /\ StatusOK'
    BY <1>1, Typed DEF JobTyped, chainVars, HistoryInv, StatusOK, Expected, Outcome,
                       IsFailedERC20TokenTx
  <1>6. CASE job.at \in Processing
    <2>1. \A u \in Txs : u \in job.todo => u \in job'.todo
      BY <1>1
    <2>2. job.at \in OneTx => job.tx \in job.todo \ Creations
      BY DEF HistoryInv, JobOK
    <2>3. JobOK'
      BY <1>1, <1>4, <1>6, <2>1, <2>2, StillOwed
    <2> QED
      BY <1>1, <1>2, <1>3, <1>4, <1>5, <2>3, Preserved, Typed
  <1>7. CASE job.at \notin Processing
    <2>1. job.eth \cup job.token \subseteq Txs
      BY Typed, ConstantsAssumption DEF JobTyped, Jobs
    <2>2. JobOK'
      BY <1>1, <1>7, <2>1 DEF HistoryInv, JobOK, InRange, chainVars
    <2> QED
      BY <1>1, <1>2, <1>3, <1>4, <1>5, <2>2, Preserved, Typed
  <1> QED
    BY <1>6, <1>7

LEMMA RestartStep == ASSUME HistoryInv, Restart PROVE HistoryInv'
  <1>1. /\ UNCHANGED <<chainVars, tableVars, spoiled>> /\ job' = NoJob
        /\ restarts' \in 0 .. MaxRestarts
        /\ record' = [t \in Txs |-> IF record[t] = "none" THEN "none" ELSE "done"]
    BY Typed, ConstantsAssumption DEF Restart
  <1>2. /\ job' \in Jobs /\ job'.end = 0 /\ job'.count = 0
        /\ job'.eth = {} /\ job'.token = {} /\ job'.at = "off" /\ job'.todo = {}
    BY <1>1, NoJobTyped DEF NoJob
  <1>3. JobOK' /\ StatusOK'
    BY <1>2, NothingLoaded DEF Processing, OneTx
  <1>4. JobTyped'
    BY <1>1, <1>2, Types, CountBound DEF JobTyped, chainVars, Processing, OneTx
  <1>5. RowsTyped' /\ RowsOK'
    BY <1>1, Typed DEF RowsTyped, RowsOK, HistoryInv, tableVars
  <1>6. \A t \in Txs : Settled(t) => Settled(t)'
    BY <1>1 DEF Settled, Expected, Outcome, IsFailedERC20TokenTx, tableVars
  <1> QED
    BY <1>1, <1>3, <1>4, <1>5, <1>6, Preserved DEF tableVars

-----------------------------------------------------------------------------

LEMMA InitInv == ASSUME Init PROVE HistoryInv
  <1>1. NoJob \in Jobs /\ 0 \in 0 .. MaxBlock /\ 0 \in 0 .. MaxRestarts
    BY NoJobTyped, ConstantsAssumption
  <1>2. TypeOK
    BY <1>1, CountBound DEF Init, TypeOK, NoJob
  <1>3. ChainOK /\ HistoryComplete
    BY ConstantsAssumption DEF Init, ChainOK, HistoryComplete
  <1>4. RowsOK /\ JobOK /\ StatusOK
    BY ConstantsAssumption DEF Init, RowsOK, JobOK, StatusOK, NoJob, Processing, OneTx
  <1> QED
    BY <1>1, <1>2, <1>3, <1>4 DEF HistoryInv, Init

LEMMA NextInv == ASSUME HistoryInv, [Next]_vars PROVE HistoryInv'
  <1>1. ASSUME NEW t \in Txs, Send(t) \/ Drop(t) PROVE HistoryInv'
    BY <1>1, SendGrows, DropGrows, ChainStep
  <1>2. ASSUME NEW S \in SUBSET pool, NewBlock(S) PROVE HistoryInv'
    BY <1>2, NewBlockGrows, ChainStep
  <1>3. CASE JobStep
    BY <1>3, IdleStep, LoadStep, ProcessStep, ReceiptStep, FindStep, AddOrUpdateStep,
       SaveStep, RemoveStep DEF JobStep
  <1>4. ASSUME NEW t \in Txs, HashEvent(t) \/ CreateTxHistory(t) PROVE HistoryInv'
    BY <1>4, RecordStep
  <1>5. CASE Restart
    BY <1>5, RestartStep
  <1>6. CASE UNCHANGED vars
    <2>1. /\ UNCHANGED <<chainVars, tableVars, job, record, restarts, spoiled>>
      BY <1>6 DEF vars
    <2>2. ChainGrows
      BY <2>1, Types DEF ChainGrows, HistoryInv, TypeOK, ChainOK, chainVars
    <2> QED
      BY <2>2, ChainStep
  <1> QED
    BY <1>1, <1>2, <1>3, <1>4, <1>5, <1>6 DEF Next

LEMMA InvHolds == Spec => []HistoryInv
  BY InitInv, NextInv, PTL DEF Spec

(* The job, its local variables and the two tables always have their       *)
(* types; in particular no wallet is ever saved as synced beyond the       *)
(* newest block, and the count of the node never exceeds what exists.      *)
THEOREM TypeCorrect == Spec => []TypeOK
  <1>1. HistoryInv => TypeOK
    BY DEF HistoryInv
  <1> QED
    BY <1>1, InvHolds, PTL

(* syncByWallet: what lies up to the saved block is in the table, however  *)
(* the pages fall, whoever wrote the same hash meanwhile and wherever the  *)
(* app was closed, unless an answer was spoiled for it.                    *)
THEOREM Complete == Spec => []HistoryComplete
  <1>1. HistoryInv => HistoryComplete
    BY DEF HistoryInv
  <1> QED
    BY <1>1, InvHolds, PTL

(* removeNotMinedPendingTxs and createTxHistory: no step deletes the row   *)
(* of a mined transaction or makes it pending again.                       *)
THEOREM MinedStays == Spec => MinedRowStays
  <1>1. ASSUME HistoryInv, [Next]_vars
        PROVE  [\A t \in Txs : rows[t] \in Final => rows'[t] \in Final]_vars
    <2> SUFFICES ASSUME NEW t \in Txs, rows[t] \in Final
                 PROVE  rows'[t] \in Final
      OBVIOUS
    <2>1. rows \in [Txs -> {"none", "pending"} \cup Final]
      BY <1>1, Typed DEF RowsTyped
    <2>2. CASE UNCHANGED rows
      BY <2>2
    <2>3. CASE AddOrUpdate
      BY <1>1, <2>1, <2>3, Typed DEF AddOrUpdate, JobTyped, Final
    <2>4. CASE RemoveNotMinedPendingTxs
      BY <2>1, <2>4 DEF RemoveNotMinedPendingTxs, NotMinedPending, Final
    <2>5. ASSUME NEW u \in Txs, CreateTxHistory(u)
          PROVE  rows'[t] \in Final
      BY <2>1, <2>5 DEF CreateTxHistory, Final
    <2>6. \/ UNCHANGED rows
          \/ AddOrUpdate \/ RemoveNotMinedPendingTxs
          \/ \E u \in Txs : CreateTxHistory(u)
      BY <1>1 DEF Next, JobStep, vars, tableVars, Send, Drop, NewBlock, StartSyncingJob, RequestFails,
             NextWallet, BlockAnswered, LoadPage, ProcessTx, ReceiptAnswered, FindRow,
             SaveLastBlock, CountAnswered,
             HashEvent, Restart
    <2> QED
      BY <2>2, <2>3, <2>4, <2>5, <2>6
  <1> QED
    BY <1>1, InvHolds, PTL DEF Spec, MinedRowStays

=============================================================================
