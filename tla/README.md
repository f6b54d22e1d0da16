# Identity Wallet: a verification project

TLA+ models of the SelfKey Identity Wallet (Electron; sources under `src/src`), the TLC
configurations that check them on small instances, and theorems about them checked by
TLAPS. Every definition is translated from the code; `PROJECT.json` maps each of them to
its lines, lists the runs, the mutants that show each property can fail, the hazards and
the findings.

    tlc -workers 2 -config MCWeb3Sequential.cfg MCWeb3Service    # one run
    tlapm TransactionSendProofs.tla                              # one proof module

## 1. The system

A single JavaScript process (Electron main) holds the services, the database and the
store of record; renderer processes show a copy of the store and send actions to it.
Nothing runs in parallel, but every operation is a chain of `await`s, so operations
interleave at each of them, with each other, with timers, with the events of web3, and
with what the user does next. That is where nearly all the hazards below come from.

| Component | State it keeps | Operations | Talks to | What makes it correct |
|---|---|---|---|---|
| `AsyncTaskQueue` | async queue with one worker, `nextExecution` | `push`, `handleTask` | its executor | spacing; nothing lost; answers in order |
| `Web3Service` | `q`, `nonce`, provider | `waitForTicket`, `handleTicket`, `sendSignedTransaction`, `checkTransactionStatus`, `switchTo*Wallet` | node, device, store (wallet) | no nonce twice, none skipped; every ticket settles; signed by the account named |
| Transaction duck | `state.transaction`, timers, listeners | `init`, `setAddress`, `setAmount`, `setGasPrice`, `setTransactionFee`, `confirmSend`, `incorporationSend`, `createTxHistry` | `Web3Service`, web3 events, router, `TxHistory` | the nonce of an account's own count fits its pool; user is told; history matches what was sent |
| `StakingService`, marketplace service and duck | `MarketplaceTransactions` rows, store lists | `placeStake`, `withdrawStake`, `checkMpTxStatus`, ... | `waitForTicket`, database | (not modelled: no screen reaches them, section 6) |
| `TxHistoryService`, `TxHistory` | rows, `txHistoryLastSyncedBlock`, one job | `startSyncingJob`, `sync`, `removeNotMinedPendingTxs`, `addOrUpdate` | explorer, node, transaction duck | rows complete up to the last block; no mined row lost; pending rows resolved |
| `WalletService`, wallet, app and create-wallet ducks | key files, `Wallet` rows, `state.wallet`, web3's keys and provider | `createWallet`, four `unlock*`, `updateWallet*`, balance refresh, `loadLedgerWallets`, `loadTrezorWallets` | file system, database, node, devices, timers | key, account, row and file agree; nobody waits for ever |
| Identity duck | documents and attributes, listed by wallet and by attribute | `unlockIdentity`, `createIdAttribute`, `editIdAttribute`, `removeIdAttribute` | tables | what the store lists of a wallet is in the tables, and never goes back |
| Identity tables, repositories | rows for repositories, types, relations, forms | `addRemoteRepo`, `diffAttributes`, `updateAttributes` | remote JSON | tables equal the content held; nothing refers to what was deleted (but for the races of section 4) |
| KYC duck and incorporation screens | one session entry, current application, cancel route, one timer handle | `loadRelyingParty`, `startCurrentApplication`, `submitCurrentApplication`, payment, clear | relying party, device, router | the user is released from each page that waits, and a submission ends on its page or with its error kept |
| LWS service | per connection: unlocked identities; `login_attempts` | `wallets`, `unlock`, `attributes`, `auth`, `signup` | WebSocket, database, relying party | answered once; locked means refused; a signup is remembered |
| prices, exchanges, tokens, countries, gas station, balances | rows or one store value | periodic download | HTTP | (not modelled: one write per download) |
| address book, wallet tokens, incorporations | store lists | one call, one dispatch | database | (not modelled) |
| migrations, RPC handler, shell, updater, screens | - | - | - | (not modelled: one-shot conversion, wiring, I/O) |

How they meet: a screen dispatches an action; the operation runs in the main process and
calls a service; whatever goes to the Ethereum node by `waitForTicket` passes the **one**
queue of `Web3Service`, which starts a request at most every 500 ms and is occupied by a
contract transaction until that is broadcast; web3 answers by promises and events, much
later and in any order. `confirmSend` does not use the queue for its transaction, only
for the nonce. Hardware wallets exchange web3's provider, and then every signature waits
for a user. The wallet in the store decides who signs.

## 2. Plan

Order: what moves money first, then what is lost for ever when it goes wrong (keys,
history, documents), then what a user waits for.

| # | Module | Role | Status |
|---|---|---|---|
| 1 | `FifoServer` | abstract: a server that answers one task at a time, in order | done |
| 2 | `AsyncTaskQueue` (+ `...Proofs`, MC) | the queue, with time; implements 1 | done, proved |
| 3 | `Web3Service` (+ `...Proofs`, MC) | tickets and nonces; composed from 1 by `INSTANCE` | done, proved |
| 4 | `TransactionSend` (+ `...Proofs`, MC) | the form, the fees, the send | done, proved |
| 5 | `TxHistorySync` (+ `...Proofs`, MC) | job, rows, records of pending transactions, crash between rows and last block | done, proved |
| 6 | `WalletStore` (+ `...Proofs`, MC) | create, unlock, update, refresh, devices against timers; files, rows, store; crash | done, proved |
| 7 | `IdentityStore` (+ `...Proofs`, MC) | a cache kept by hand against two tables | done, proved |
| 8 | `RepositoryUpdate` (+ `...Proofs`, MC) | difference of contents applied to four tables, overlapping updates | done, proved |
| 9 | `LoginService` (+ `RelyingPartyProofs`, MC) | requests of several connections interleaving at every query | done, proved |
| 10 | `KycSession` (+ `RelyingPartyProofs`, MC) | sessions, submissions and one timer variable | done; types and the timer's page proved |

Planned first and dropped: `StakeRecords`. The screens that stake are switched off
(`src/renderer/marketplace/services/service-details-page.jsx` 137-141: the
condition of the button is constant false); `Web3Service` has a stake's two sends as a
caller's program.

Every safety invariant and every action property that a run checks is now a theorem
(section 5); what is left is liveness, which the prover does not reach. Theorems still
worth having: the nonces of two sends that overlap while no read fails (the run
`web3_overlap`), and the invariants that the liveness properties of `WalletStore` and
`LoginService` rest on, as `TimerOfThePage` is for `TimerPageLeft`.

## 3. The modules and the code

### `FifoServer` and `AsyncTaskQueue` (`src/common/utils/async-task-queue.js`)

`pending` is the buffer of the async library, `slot` its one worker: idle, in the
`_.delay` of line 17 (`"delayed"`), or with an executor whose promise has not settled
(`"executing"`). `nextExecution` and `answer` (the promise of `push`) are the code's;
`started` is history. `Process` hands the oldest task to `handleTask`, `TimerFires` calls
it again; `HandleTask` is `Redelay` (lines 16-19) or `Execute` (lines 20-31, where the
executor may return a promise, return a value, or throw). `Settle` is lines 27-30.
`Date.now()` is `now`; it stops at `nextExecution`, since the code only compares the two.
`TimerSlack` lets a timer fire early.

`FifoServer` has no time and no delay: `Submit`, `Begin`, `Finish`, `Serve`. The mapping
puts a delayed task back at the head of `waiting` and makes an executing one `current`.

### `Web3Service` (`src/main/blockchain/web3-service.js`)

Composed from `FifoServer` (`Q!Submit`, `Q!Begin`, `Q!Finish`, `Q!Serve` are conjuncts of
its actions), which `AsyncTaskQueue` is shown to implement; the 500 ms are thereby left
out. `lastNonce` is `this.nonce`; `stage`, `held`, `seen` are the running
`sendSignedTransaction`: the await it is suspended at, its `wallet` and its `nonce`.
`ticket` is what `waitForTicket` told its caller.

| Action | Code |
|---|---|
| `WaitForTicket` | the caller awaits one ticket after another (125-128) |
| `HandleRead` | `handleTicket` of a read: the request has left when it returns (120) |
| `HandlerThrows` | the checks of 197-212, or web3 rejecting the ticket's arguments |
| `BeginSend` | 196-213, up to the first await |
| `CountAnswered`, `CountFails` | the awaits of 215, 219 and 225 |
| `Broadcast` | 226-243: nothing is awaited |
| `DeviceSends`, `DeviceDeclines` | 208, then 131 or 149 |
| `ReadAnswered`, `NodeAccepts`, `NodeRefuses` | 134-147 |
| `Mine`, `GivesUp` | the chain, and web3's polling for the receipt |
| `ChangeWallet` | another wallet is unlocked |

External: the pool, its pending count, which nonces the node refuses.

### `TransactionSend` (`src/common/transaction/operations.js`)

`form` is `state.transaction`: whether it is filled in, and the nonce; `counted`, a
history variable, says whose count the nonce was. `fee[f]` is the f-th
`setTransactionFee` (the wallet it read, what it was answered), `send[s]` the s-th
confirmation: web3's call, the fate on the chain, the running timer, whether listeners
are attached, what the user was told. `onForm` says whether the form is on the screen.
`wallet` is `state.wallet`, `signer` is web3's default account: they differ when the
balance of a wallet arrives after another one was unlocked (`BalanceArrives`).

`SetPayment` is `setAddress`, `setAmount`, and `setGasPrice` or `setLimitPrice` of a
filled form: each starts a computation. `Counted` is the node's answer for the account
the computation began with, `FeeWritten` the dispatch of 136-143 into a form that may
have changed, `FeeFails` the catch. `OpenForm` is `init`, which resets `nouce` and so keeps
`nonce`, also that of another account (`Unlock`). `ConfirmSend` is 186-224 (and 270-307
for `incorporationSend`: `Timed` has both conditions). `NodeTakes`, `NodeRefuses` and
`ReplyLost` - the node has the transaction and web3 reports an error - are the node's
side; `TimerFires`, `HashEvent`, `ErrorEvent`, `ReceiptEvent` are the callbacks. Gas prices
and limits only decide what the node refuses and are left out, as are dollar amounts,
the status line and the choice of the error page. The wallets of a run are of one type,
and no form is on the screen while an unlock waits for its balance.

### `TxHistorySync` (`src/main/blockchain/tx-history-service.js`, `tx-history.js`)

`job` is the one running `startSyncingJob` (318-331): the await it is suspended at and
its locals: wallets left, range, the two lists, entries still to do. `JobStep` is the
union of `StartSyncingJob`, `NextWallet`, `BlockAnswered`, `LoadPage`, `ProcessTx`,
`ReceiptAnswered`, `FindRow`, `AddOrUpdate`, `SaveLastBlock`, `CountAnswered`,
`RemoveNotMinedPendingTxs`, and `RequestFails`, whose exception ends the job for the
session (`at = "dead"`). `processTx` has three requests: the contract of a token transfer
(`Skip` when it does not answer, 173-177), the receipt (`NeedsReceipt`: of each token
transfer, and where `txlist` has no status; when it is missing the row says failed,
231-237), and the contract of a call that moved nothing (`IsFailedERC20TokenTx`, 227-229).
`AddOrUpdate` is split at its query, so `createTxHistry` of the transaction duck
(`HashEvent`, `CreateTxHistory`, `operations.js` 372-389) may insert in between. A row is
its status; which wallets' lower-cased addresses a record of `createTxHistry` contains
is the constant `Matching` (a local wallet's `from` is in mixed case and matches nothing).
`Restart` keeps rows and last block and drops the job and records under way. `Send`,
`Drop` and `NewBlock` are the chain, where a dropped transaction leaves its nonce to
another; `Pages`, `MorePages`, `LoadPage` the explorer, whose two lists are separate
requests and may be refused one by one.

### `WalletStore` (`wallet-service.js`, `wallet.js`, ducks `app`, `wallet`, `create-wallet`)

`op[p]` is an operation: kind, account, the await it is at, whether it found a row, the
key it carries. `UnlockWithFile` is `unlockWalletWithPassword` and `...WithNewFile`
(`Decrypt`, then `CopyKeyFile`), `BeginWithKey` is `unlockWalletWithPrivateKey` and
`createWallet` (`WriteKeyFile`), then `FindRow`, `CreateRow`, `BalanceAnswered`,
`IdentityUnlocked`. `UpdateWallet` and `RowUpdated` are the updates of picture, name and
flag. `LoadLedger` and `LoadTrezor` start on the unlock page or on the device's own list
of addresses (`Asked`), and differ: `SwitchProvider` sets another provider or builds a new
`Web3` and so drops its keys; `Timeout` answers the user, the device's answer may still
come (`at = "late"`). `Fails` is each catch; `Restart` keeps files and rows.

### `IdentityStore` (`src/common/identity`, `id-attribute.js`, `document.js`)

`calls` are the operations under way, in the order of their pending query: knex's pool
for sqlite has one connection, so `Answer` takes the first and runs what follows it up to
the next query, which goes to the end. The reducers are operators on `store`:
`SetDocuments` with the comparison of line 54 as it is (see the findings),
`SetAttributeDocuments`, `SetIdAttributes`, ... `tagged` are the documents that carry a
`walletId`: those the query of 36-41 returned. `Shown` and `ShownDocuments` are what the
selectors select; an id that `store.documents` lists twice is one member of the set, so how
often a document is listed is not claimed (see the findings). `latest` is the wallet loaded
last, `wallet` that of the store: `LateBalance` sets it back to one unlocked before and
loads nothing (`wallet/operations.js` 8-24). `Rejected` is an insert, edit or removal
whose transaction is rolled back.

### `RepositoryUpdate` (`repository.js`, `id-attribute-type.js`, `ui-schema.js`)

A content is a function from type URLs to forms or `NoForm`. `update[j]` is one of
`Repository.addRemoteRepo`, `IdAttributeType.addRemote`, `UiSchema.addRemote`, each of which
reads, fetches, and commits: `AddRemoteRepo`, `AddRemoteType`, `AddRemoteForm` start it with
what the list or `findByUrl` gave, `FindType` and `FindForm` are the queries that follow the
fetch, the `Commit...` actions what is written then. `CommitRepository` is the transaction
195-206: `Gone`, `Changed`, `Added`, `DeletedForms` are `diffAttributes` (84-144), `Deletable`
the two questions of 178-186, `FormsAfter` the order of 139-175 (deleted before added).
`Publishable(url)` are the contents a server gives over time: each update may fetch any of
them, so two of one URL may fetch different ones. A row whose content was replaced while an
update to a third content ran is `torn`. `CommitForm` inserts a form that is gone with the
ids of the list it came from, or writes them into the row that it found: `restored`. The
user picks a type (`ChooseType`) and later adds an attribute of it (`UseType`, which asks
nothing of the table: `late` if the type is gone), or removes the last one (`ReleaseType`).
Any updates overlap, because the first failure ends the wait of `Promise.all`
(`identity-service.js` 17-19) and the next list is started beside the rest.

### `LoginService` (`src/main/lws`, `src/main/platform/relying-party.js`)

`request[r]` is one message: connection, kind, wallet, the await it is suspended at, and
what it has collected. `HandleMessage` is `handleRequest` up to its first await, `Step(r)`
one answer and what follows it. `AuthResp` records the attempt (`Record`), logs it
(`ActionLogged`) and answers. `LoginAttempt` has the rule of 277-294 that a signup
without attributes is recorded as a login. `knew` is history: the wallets whose signup
had been told to somebody when the request came. `Close` empties nothing: handlers of a
closed connection run on and their answer is dropped. Each query may fail:
`SignupUnread` and its like answer where the code has a try, and otherwise leave the
request `Lost`, an unhandled rejection.

### `KycSession` (`src/common/kyc/index.js`, `renderer/marketplace/incorporation`)

`rp` is the entry of the relying party `incorporations`: absent, that of a failed load,
public or authenticated. `app` is `currentApplication`: null, started, with an error, or
`{}`, which `CancelCurrentApplication` leaves as it dispatches no payload (220-224).
`op[t]` is a load, a submission or a saving of a payment, at one of its awaits. `armed`
are the timers that run, `handle` the module variable of line 14 that can hold one of
them: `Begins` overwrites it, `Clear` stops only what it holds. The screens call the duck
as they appear (`DetailsMounts`, `CheckoutMounts`, `ApplicationMounts`, `StartedMounts`);
`Push` of the route one is at mounts nothing. `LoadAnswered` clears the timer only when
there is a route to go on to (318-321), `SubmitEnds` starts another load (478),
`PaymentListed` writes back the entry read at the start (380). Left out: templates and
requirements, the list of applications, expiry of a token and age of an entry (both
answers are possible), which of four pages a refusal shows, other relying parties.

## 4. The runs

| Run | What it asks | Result |
|---|---|---|
| `queue` | three tasks, delay 2, timers up to 1 early | `TypeOK`, `Spacing`, `NothingLost`, `EveryPushAnswered`, `ServesInOrder` hold (463 states) |
| `web3_sequential` | a stake (two transactions), then or before it a withdrawal, reads in between, all failures but the device's, local wallet locked or not | `TypeOK`, `NoNonceReuse`, `NoNonceGap`, `InCallOrder`, `EveryTicketSettles`, `ReportedTxCompletes` hold (12 704) |
| `web3_overlap` | two transactions of alice at once, bob on a device, wallet switches | `NoNonceReuse`, `SignerIsSender` hold (1 034) |
| `web3_switch_account` | one transaction of each of two local accounts | **violated** `ReportedTxCompletes` |
| `transaction_trezor` | two confirmations, two overlapping fee computations, another wallet unlocked and brought back by a late balance, timer, refusals, lost replies | `TypeOK`, `NoNonceGap`, `SentIsRecorded`, `EverySendReported`, `TimeoutIsFinal` hold (962 668, three minutes) |
| `transaction_late_device` | an incorporation paid from a Ledger | **violated** `TimeoutMeansNotSent` |
| `history` | bob pays alice from a local wallet, alice moves a token from a device or publishes a contract with the same nonce; a dropped transaction, two pages, receipts and contracts that do not come, every failure, one restart | `TypeOK`, `HistoryComplete`, `MinedRowStays`, `MinedIsRecorded`, `PendingResolved` hold (273 563) |
| `wallet` | an account with a key and one on a device, Ledger and Trezor, two operations at a time, further loads from the list of addresses, crash anywhere | `TypeOK`, `KeyOfAccount`, `RowHasKeyFile`, `EveryOperationEnds` hold (546 502, two and a half minutes) |
| `identity` | two wallets, two attributes, two documents, two edits, two operations under way, late balances, restart | `TypeOK`, `StoreMatchesTables`, `NeverOlder` hold (545 782, up to symmetry) |
| `repository` | two URLs that share two types and a form, two updates of any kind at a time whatever each fetches, a user who adds attributes, failures, restart | `TypeOK`, `TablesMatchContent`, `ReferencesHold` hold (1.25 million, up to symmetry) |
| `login` | three requests of any kind on two connections, calls and queries that fail, closing | `TypeOK`, `SignupKnown`, `ServedWhereUnlocked`, `EveryRequestAnswered` hold (371 680) |
| `kyc` | two operations or timers at a time, also two submissions, with a device or not | `SessionTypeOK`, `TimerPageLeft`, `SubmitSettled` hold (75 585) |

Why the bounds are enough. Queue: one task executing, one delayed, one waiting is every
situation of the worker; delay 2 with slack 1 makes a timer too early and not. Web3:
`this.nonce` remembers one transaction, so three sends show each use of a stale value;
`MaxNonce` is at least what those sends can reach from `InitCount`, so no action is ever
cut off. Their `InitCount` is 1: an account with no transaction has the count 0, equal to
the initial `this.nonce`, and its first transaction gets nonce 1 - a gap in every
behaviour, which would hide all else (hazard list). Transactions: two computations can
overtake each other, two sends can take one nonce, and one unlock is enough for a nonce, a
computation and a transaction of another account, with counts 1 and 0 so that a kept nonce
is too high for one and too low for the other; `MaxFees`, `MaxSends` and `MaxUnlocks` are
the only counters. History: a page of one entry makes a list of two entries two pages, and
the two lists of different length; two blocks make a range that was saved and one that was
not; the three transactions are the three ways into `processTx` (both lists, one list, no
recipient), one of them shared by two wallets, one reverted, one without a status in
`txlist`, two recorded by the send screen, one of a local wallet and one of a device,
whose nonce another takes when it is dropped. Wallet: every hazard is between two
operations, and a third can only repeat what one of the two does, as every operation reads
what it needs itself. Identity: calls are answered in their order, and what an answer
mends or spoils is due to one other call: an edit, a removal or a load of the other
wallet; the theorems hold for any number under way. Repository: `u` publishes nothing or
both types, with the form for either, `v` at most one type: so a type is dropped by one
and kept or added by the other, and the form moves from type to type; two transactions
that insert (`MaxInserts` counts also what the migrations left) are a type or form and its
successor, or one of a stale list, after it was deleted. Login: one request to be told,
one to make it true, one in between. Kyc: two is the least at which the timer variable is
overwritten. The theorems of section 5 remove these bounds for what they state.

What the web3 runs do not show: with two sends in flight **and** a failing read request,
line 135 forgets the nonce of the first and the second may reuse it, and a third send in
flight is not covered by the comparison at all. `web3_overlap` therefore has no failing
reads and two sends of one account; the hazard is listed.

Exceptions in the properties, all named in their comments; each is what the code does,
and is among the findings or observations below:

- `NoNonceGap`: a transaction whose nonce was counted for another account.
- `SentIsRecorded`: the timer removed the listeners, or the node's reply was lost; then
  the user was told of a timeout or an error.
- `HistoryComplete`, `MinedIsRecorded` (`spoiled`): the explorer refused a token list, a
  contract did not answer, a receipt did not come. `MinedIsRecorded` and
  `PendingResolved`: the job died.
- `PendingResolved` (`Removable`): records with no lower-cased address of the sender, that
  is of local wallets.
- `RowHasKeyFile` (`unwritten`): a key file whose write failed, which `createWallet` ignores.
- `StoreMatchesTables`: the documents of a wallet that is not the one loaded last. After a
  late balance they may be those the load of the other wallet dropped. How often an id
  is listed is not said.
- `TablesMatchContent`, `ReferencesHold` (`torn`, `restored`, `late`): a row whose content was
  replaced under an update to a third one; a form that `UiSchema.addRemote` brought back;
  an attribute added when its type was gone.
- `SignupKnown`: an attempt that could not be inserted. `EveryRequestAnswered`: the queries
  outside every try (`reqWallets`, and the first of `reqUnlock`), and `version`.
- `SubmitSettled` says that the submission ends on the payment page, or with its error in
  the current application - not that the error is seen: where the entry is gone or that
  of a failed load, the popup shows a spinner (`current-application-popup.jsx` 267-274).
  On a device the load of line 478 may put its confirmation page over it (241-245).

Fairness. The event loop runs what is ready (`Process`, `Handler`, callbacks), timers
fire, promises of the executor settle, the node answers what it is asked, blocks are
mined: weak fairness of each. In the other modules likewise: queries of the database,
files and requests end or fail, and timers fire (`JobStep`, `CreateTxHistory`; `Step`,
`Timeout`; `Step`; `TimerFires`, `SubmitAnswers`) - a weak fairness each, since nothing
disables a pending answer but itself. The user owes nothing, on the screen or on the
device, and neither does the code that calls: no fairness on `Push`, `WaitForTicket`,
`ConfirmSend`, `DeviceSigns`, `DeviceSends`, `SwitchProvider`, `AccountsAnswered`,
`HandleMessage`, `StartClick`, nor on an answer that `KycSession` needs from a device
(`OnDevice`). `history` has no fairness for `NewBlock`: that a transaction is mined is a
premise of its properties. `identity` and `repository` check safety only. Executors
settle because every one in the code is a network request that answers or times out -
except a device send (line 208), which is why `EveryTicketSettles` is checked for local
wallets. Deadlock checking is off where a user who has done everything stops, which is no
error; it is on in `wallet`, `identity`, `repository` and `kyc`.

### Findings

Details and quotations are in `PROJECT.json`. With a run: `this.nonce` is shared by
accounts; the timeout page says a transaction was not sent that may still be. Without:

- web3 and send: the ticket of a device send fails after the transaction was executed
  (reached only from the staking screens); the `'ledget'` typo of `operations.js` 216; the
  `nouce` of line 36, which leaves the nonce of the wallet unlocked before in the form.
- History: the record of a live pending transaction is deleted each cycle; that of a
  local wallet is compared in the wrong case, neither listed nor removed; every token
  transfer asks for its receipt, and says failed for good when there is none; a refused
  token list loses transfers.
- Wallet and identity: a late balance brings back the old wallet, without its documents;
  the wrong `walletId` in `setDocumentsReducer`.
- Repositories: two updates of one row with different contents leave forms and relations
  that no later update removes; `UiSchema.addRemote` restores a deleted form with stale
  ids; `IdAttribute.create` takes a type that may be deleted.
- Relying parties: `version` has no handler; failing queries of `reqWallets` and
  `reqUnlock` leave the extension without an answer; a confirmed authentication times
  out; a cleared KYC session comes back with the payment; `clearCurrentApplication` leaves
  `{}`, for which a payment hash is saved.

### Observed while modelling

Smaller things the models contain because the code does them:

- Send: a record's `from` is the wallet of the moment its hash arrives; a late
  `createTxHistry` writes it also into the row of a mined transaction, which a local wallet,
  in mixed case, does not list from then on.
- History: an insert that collides with `createTxHistry` ends the job for the session; a
  failed lookup of a contract loses the transaction.
- Wallet: a Trezor that answers after its timeout still gets `new Web3(engine)` and drops
  the keys and default account of a wallet unlocked meanwhile. `unlockWalletWithNewFile`
  of a known account does not store the path. Two unlocks of an unknown account both
  insert; the second reports an error after the first succeeded.
- Identity: `createIdAttribute` reads the current wallet at each await (`operations.js`
  81-82), so a switch in the middle of `createSelfkeyId` writes into the other wallet;
  retrying it duplicates the attributes it had created (116-150).
- Repository: line 98 `return;` drops the accumulator of a reduce; a type whose form
  changes is related once more (155); `loadRemote` for several types of one unknown
  repository inserts it several times (`url` is not unique); a type deleted while it is
  downloaded is created again (`id-attribute-type.js` 129-130). An attribute whose type was
  deleted stays without one, also when a type of that URL is added again.
- Login: unlocking a wallet that is not in the table throws uncaught (62); a signup
  without attributes is recorded as a login (283); a crash between `createUser` and the
  record leaves a signup that is not known.
- KYC: the check of a token's expiry (`relyingPartyShouldUpdateSelector`, line 85) is
  inverted and compares seconds with milliseconds; a late public load replaces an authenticated
  session, and a failed reload hides the error of a submission behind a spinner; cancelling
  during a submission is followed by the payment page, or by the
  cancelled application with an error; a retry after `createKYCApplication` succeeded and
  the fetch failed creates a second application; paying from the details page after a
  restart never saves the payment hash (`process-started.jsx` 122-124).

## 5. The theorems

| Module | Theorem | For every |
|---|---|---|
| `AsyncTaskQueueProofs` | `TypeCorrect`, `ExecutionsSpaced`, `NoTaskLost` | set of tasks, delay, slack |
| | `ImplementsFifoServer`: `Spec => Abstract!Spec` | " |
| `Web3ServiceProofs` | `TypeCorrect`, `SignedBySender` | callers, programs, accounts, wallets, nonces, failures |
| | `NoReuse`, `NoGap`, `Ordered` | " with `OneAtATime` |
| `TransactionSendProofs` | `TypeCorrect`, `NoGap`, `Recording`, `TimeoutsFinal` | accounts, number of edits, sends and unlocks, wallet type, operation, failures |
| `TxHistorySyncProofs` | `TypeCorrect`, `Complete`, `MinedStays` | wallets, transactions, statuses, addresses of records, pages, blocks, failures, restarts |
| `WalletStoreProofs` | `TypeCorrect`, `KeysMatch`, `FileBeforeRow` | accounts, devices, number of overlapping operations |
| `IdentityStoreProofs` | `TypeCorrect`, `ScreensAreTables`, `DataNeverOlder` | wallets, attributes, documents, edits, operations under way |
| `RepositoryUpdateProofs` | `TypeCorrect`, `TablesCorrect`, `NothingDangles` | URLs, types, forms, number of updates, rows and inserts, published contents |
| `RelyingPartyProofs` | `TypeCorrect`, `OnlyUnlockedServed`, `SignupsKnown` (of `LoginService`) | connections, wallets, number of requests |
| | `SessionTypeCorrect`, `TimerOfThePage` (of `KycSession`) | number of operations and timers |

Assumptions are the named `ASSUME`s of the modules: `NoTask` is no task; delay and slack
are naturals; `NoNonce` is no number; `NoAccount`, `NoWallet`, `NoForm`, `None` are none of
theirs; a repository publishes contents; a ticket is one call, at one place of one
caller's program; transactions are finitely many, one that creates a contract is not
recorded by the send screen, and a reverted one moved no token.
`Web3Service` assumes of the store that a wallet's key is that of its account:
`KeyOfAccount`, which `WalletStoreProofs` proves of the module that writes the store.

`OneAtATime(a)` is a hypothesis of the three theorems on nonces, no assumption of the
module, for the code is wrong without it: `a` has a transaction on the chain
(`InitCount[a] > 0`, else its first nonce is 1: the hazard at line 39); every send is
from `a` (else `this.nonce` of one account is compared with the count of another: the
run `web3_switch_account`); and only callers that wait for each other send (`Exclusive`;
two sends at once and a failing read may take one nonce: the hazard at line 135). The
constants of `web3_sequential` satisfy it, and those runs reach every send. What the
hypothesis leaves free is what the code has to cope with: several transactions per
caller, reads of anybody in between, locked wallets, failed counts, refusals, receipts
that come late or never, devices that answer after the ticket has failed.

- *Spacing.* `Spacing` alone is not inductive; `SpacingInv` adds that the last execution
  began at least `Delay` before `nextExecution`, which `TooEarly` then guards.
- *Nothing lost.* `Held` says a task is pending exactly if it is in the buffer or the
  slot; to be inductive it needs `HeldOnce`: it is there only once, or settling one copy
  would leave the other.
- *Refinement.* Initial states map to initial states; each action maps to a step or a
  stutter (`StepImplements`): `Redelay`, `Tick` stutter, `Process` into an executor that
  settles at once is `Serve`, ...
- *Signers.* `HeldIsSender`: while a send is in the worker, the wallet held by the
  handler is the one whose account was compared with `opts.from`, so what the store holds
  at the signature does not matter. The type of `seen` needs that a pending count always
  exists: it is the least number from `mined` on that no pooled transaction has.
- *Nonces of the queue.* `NonceInv` has the state of the one sender in parts. `CallsOK`,
  `QueueOK`, `TicketsOK` and `RequestsOK` say where a ticket can be: only the last one
  pushed by a caller is unresolved, and what is resolved has left the handler.
  `Frontier(a, n)` says that n is the node's pending count; `PoolOK` that the pool has no
  hole and that what is on its way to the node comes next, `Distinct` that no nonce is
  there twice. `ChoiceOK` is the core: what a handler signs with is still the frontier,
  and `this.nonce`, unless it is behind the chain, is the nonce of a transaction that was
  sent - so that the comparison of lines 225-228 raises the count only past a nonce in
  use. `OrderOK` orders the nonces as the calls.
- *History.* `HistoryComplete` speaks of what is saved; `HistoryInv` adds what is not
  yet. `ChainOK` places blocks and pool, `RowsOK` says who never has a row. `JobOK` is
  the core: what the job has loaded lies in its range, and once the pages are loaded each
  transaction of the range is still to be processed or settled, and known as a transfer
  of a token if the explorer lists it as one. `StatusOK` carries the status through the
  three requests of `processTx`: what is about to be written is what the chain says, or
  an answer was spoiled. The last block is saved only when nothing is left to process.
  `MinedStays` needs the types of the rows alone: `removeNotMinedPendingTxs` deletes
  pending rows, the send screen inserts only where there is none, and `addOrUpdate` writes
  the status of a mined transaction.
- *The store and its tables.* `StoreMatchesTables` holds when nothing is pending.
  `StoreInv` says for all other moments which pending call will mend what is wrong:
  whatever the current wallet does not show is brought by a load of it, or by the answer
  to its creation or edit (`Reached`); what is shown with old data, or though it is gone,
  waits for its edit (`ListedOK`, `DocumentOK`, `RowOK`). That is inductive only with the
  order of the queue, `MayPrecede`: since no operation begins while a load is pending, a
  load is answered after all edits it could undo, and edits in their order. `LoadsOK`
  bounds the harm of the wrong comparison of line 54: a load that drops the documents of
  the wallet loaded last (`latest`) has a load of them behind it. Of a wallet that a late
  balance brings back the invariant keeps attributes and data only, as the code does.
- *No gap.* A nonce n of an account is *reached* if all from the chain's next nonce to n-1 are in the
  pool. `GapInv`: every nonce in the form, in an answer under way, or in a transaction
  that is being signed, flying or in the pool is reached for the account it was counted
  for, whichever account is the sender. `PoolKept`: a nonce leaves the
  pool only when the chain executes it, so what is reached stays reached, however late it
  is used; `CountReached`: the node's count is reached when it is given.
- *Reports.* `ReportInv` ties the timer, the listeners, what was told, the fate of the
  transaction and the history together: told means no timer; timed out means no
  listeners; a hash comes only from what the node took, and a lost reply never has one.
  `SentIsRecorded` and `TimeoutIsFinal` follow.
- *Keys and files.* `WalletInv` says of each operation what its stage demands (`OpOK`):
  the key it carries is its account's, and one that is about to insert a row with a path
  has its file written, or failed to write it. `KeyOfAccount` and `RowHasKeyFile` alone
  say nothing of the awaits in between.
- *Repositories.* `RepositoryInv` says more of each row than the two properties. `AllFit`:
  a row that is not torn has exactly the relations and forms of its content, and only the
  first row of a form is one that `addAttribute` wrote. `Heads`: a relation refers to the
  first row of a type, the one `findByUrl` finds, so that `unrelate` and the deletion of a
  type meet the same row although loads of a stale list insert further ones. `JobsKnown`,
  `RowsKnown`: what an update found is a row, or nothing. `Attributes`: the type of an
  attribute that was present stays. An update finds the row at the content it read, or
  already at the one it fetched; in both cases the difference, applied in the code's
  order, leaves the relations and forms of the new content, and otherwise the row is torn.
- *Login.* `RequestOK` has three parts for each request: its stage fits its kind
  (`Staged`); what was let through is for a wallet unlocked on its connection
  (`Permitted`); a signup announced or about to be is in the table, and whoever knew of
  it finds it (`Recorded`). They survive the steps of all other requests because nothing
  that was unlocked or recorded is taken back (`Grows`).
- *The timer's page.* `TimerPageHasTimer`: whatever clears the timer set last also leaves
  the page. It is inductive with the types; `TimerPageLeft` follows from it under
  fairness, which is the model checker's part.

Only model-checked: everything under fairness (`EveryPushAnswered`, the liveness half of
`ServesInOrder`, `EveryTicketSettles`, `ReportedTxCompletes`, `EverySendReported`,
`MinedIsRecorded`, `PendingResolved`, `EveryOperationEnds`, `EveryRequestAnswered`,
`TimerPageLeft`, `SubmitSettled`), which the prover does not reach; and `NoNonceReuse` of
callers that overlap, which holds for the constants of `web3_overlap` and not for every
value, as section 4 says.

## 6. Not modelled

- Staking and the marketplace ducks: no screen reaches them at this commit (section 2).
- Prices, exchanges, tokens, countries, gas station: a download replaces rows or one
  value. Address book, wallet tokens, incorporations: one call and one dispatch. There is
  no second step for anything to come between.
- Database migrations: conversions inside one transaction, run before anything else.
- The RPC handler, the shell, the updater: wiring; each of the handler's 1300 lines
  passes one message to one model method.
- Screens: most of the repository's lines are React components that lay out one value of
  the store. What they let a user do are the guards of the models; the incorporation
  screens, which start operations as they appear, are actions of `KycSession`. This is
  why the definitions map only a small share of all lines.
- Of the modelled parts: `checkTransactionStatus` (a read), token transfers' encoding,
  gas limits and fees in dollars, pictures and names of wallets, PIN and passphrase
  screens, contents of attributes, validation against schemas, `createSelfkeyId` (three
  calls of `createIdAttribute`), contents and expiry of types and forms, templates and lists
  of KYC applications, origins and certificates of the WebSocket server. The `note` of
  each component and the hazards without a property in `PROJECT.json` say what remains.
