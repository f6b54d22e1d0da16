--------------------------- MODULE TransactionSend ---------------------------
(***************************************************************************)
(* src/common/transaction: the form from which the user sends ETH or       *)
(* tokens.  Every edit starts a setTransactionFee, which asks the node for *)
(* the nonce and writes it into the form when the answer comes; confirmSend*)
(* sends what the form holds at that moment and listens to the events of   *)
(* web3, on a hardware wallet for at most 30 seconds.                      *)
(*                                                                         *)
(* Left out: what the user enters (the form is filled in or not), the gas  *)
(* price and limit (the node may refuse any of them), dollar amounts, the  *)
(* status line, and which error page is shown for which error.             *)
(* The user may unlock another wallet of the same kind while answers are   *)
(* on their way: the form keeps its nonce, web3 sends from the account     *)
(* unlocked last, and a late balance may bring the old wallet back into    *)
(* the state.  The node, its pool, the device and web3 are external.       *)
(***************************************************************************)
EXTENDS Naturals, FiniteSets

CONSTANTS
    Accounts,    \* public keys of the user's wallets
    FirstWallet, \* the one unlocked when the run starts
    NoNonce,     \* transaction.nonce before it is written for the first time
    WalletType,  \* state.app.walletType
    Operation,   \* which of the two sends the screen calls
    InitCount,   \* for each account, its transactions mined before
    MaxFees,     \* bound: fee computations of the run
    MaxSends,    \* bound: confirmations of the run
    MaxUnlocks,  \* bound: wallets unlocked in the run
    Failures     \* "lose": the node's answer may be lost; "poll": web3 may stop
                 \* polling for a receipt; "fetch": a count may fail

Hardware == {"ledger", "trezor"}
LocalKey == {"", "existingAddress", "newAddress", "privateKey"}
Fees == 1 .. MaxFees
Sends == 1 .. MaxSends
Nonces == UNION {0 .. InitCount[a] + MaxSends : a \in Accounts}

ASSUME FormAssumption == NoNonce \notin Nat
ASSUME WalletAssumption ==
    /\ FirstWallet \in Accounts
    /\ WalletType \in LocalKey \cup Hardware
    /\ Operation \in {"confirmSend", "incorporationSend"}
ASSUME BoundsAssumption ==
    /\ InitCount \in [Accounts -> Nat]
    /\ MaxFees \in Nat /\ MaxSends \in Nat /\ MaxUnlocks \in Nat
ASSUME FailuresAssumption == Failures \subseteq {"lose", "poll", "fetch"}

VARIABLES
    form,      \* state.transaction
    onForm,    \* whether the form is on the screen, or another page
    fee,       \* fee[f]: the f-th setTransactionFee
    send,      \* send[s]: the s-th confirmation
    history,   \* the TxHistory records made by createTxHistry
    mined,     \* mined[a]: the nonce of a the chain executes next
    wallet,    \* state.wallet.publicKey
    signer,    \* web3.eth.defaultAccount, the account web3 sends from
    balances,  \* the accounts a balance of updateWalletWithBalance is due for
    unlocks    \* wallets unlocked so far

walletVars == <<wallet, signer, balances, unlocks>>
vars == <<form, onForm, fee, send, history, mined, walletVars>>

(* counted: whose count the nonce is, a history variable of the model.     *)
NoFee == [stage |-> "none", nonce |-> NoNonce, counted |-> FirstWallet]
NoSend == [call |-> "none", chain |-> "none", told |-> "none", listening |-> FALSE,
           timer |-> FALSE, lost |-> FALSE,
           nonce |-> NoNonce, counted |-> FirstWallet, from |-> FirstWallet]

Calls == {"none", "signing", "flying", "hash", "receipt", "error", "ended"}

FormType == [filled : BOOLEAN, nonce : Nonces \cup {NoNonce}, counted : Accounts]
FeeType == [stage : {"none", "asked", "answered", "ended"},
            nonce : Nonces \cup {NoNonce}, counted : Accounts]
SendType == [call : Calls, chain : {"none", "pool", "mined"},
             told : {"none", "hash", "timeout", "error"},
             listening : BOOLEAN, timer : BOOLEAN, lost : BOOLEAN,
             nonce : Nonces \cup {NoNonce}, counted : Accounts, from : Accounts]

TypeOK ==
    /\ form \in FormType
    /\ onForm \in BOOLEAN
    /\ fee \in [Fees -> FeeType]
    /\ send \in [Sends -> SendType]
    /\ history \subseteq [hash : Sends, from : Accounts]
    /\ mined \in [Accounts -> Nat]
    /\ wallet \in Accounts /\ signer \in Accounts /\ balances \subseteq Accounts
    /\ unlocks \in Nat
    /\ \A s \in Sends : send[s].timer => send[s].listening

Init ==
    /\ form = [filled |-> FALSE, nonce |-> NoNonce, counted |-> FirstWallet]
    /\ onForm = TRUE
    /\ fee = [f \in Fees |-> NoFee]
    /\ send = [s \in Sends |-> NoSend]
    /\ history = {}
    /\ mined = InitCount
    /\ wallet = FirstWallet /\ signer = FirstWallet
    /\ balances = {} /\ unlocks = 0

-----------------------------------------------------------------------------
(* The node. *)

InPool(a, n) ==
    \E s \in Sends : send[s].chain = "pool" /\ send[s].from = a /\ send[s].nonce = n

(* n is what eth_getTransactionCount(a, 'pending') answers. *)
IsPendingCount(a, n) ==
    /\ n \in Nonces
    /\ mined[a] <= n
    /\ ~InPool(a, n)
    /\ \A m \in mined[a] .. n - 1 : InPool(a, m)

-----------------------------------------------------------------------------
(* The form. *)

(* setTransactionFee up to its first await: the wallet it read is kept in  *)
(* its variables.                                                          *)
StartFee ==
    \E f \in Fees :
        /\ fee[f].stage = "none"
        /\ \A e \in 1 .. f - 1 : fee[e].stage # "none"
        /\ fee' = [fee EXCEPT ![f] = [NoFee EXCEPT !.stage = "asked", !.counted = wallet]]

(* setAddress and setAmount, or setGasPrice and setLimitPrice of a form    *)
(* filled in: each edit asks for the count again.                          *)
SetPayment ==
    /\ onForm
    /\ form' = [form EXCEPT !.filled = TRUE]
    /\ StartFee
    /\ UNCHANGED <<onForm, send, history, mined, walletVars>>

(* Mutant: one more than the count, the comparison of web3-service.js 226. *)
NextAfterCount(f) ==
    /\ fee[f].stage = "asked"
    /\ \E n \in Nonces :
          /\ n > 0 /\ IsPendingCount(fee[f].counted, n - 1)
          /\ fee' = [fee EXCEPT ![f].stage = "answered", ![f].nonce = n]
    /\ UNCHANGED <<form, onForm, send, history, mined, walletVars>>

(* The node counts; the answer and the gas estimate are on their way. *)
Counted(f) ==
    /\ fee[f].stage = "asked"
    /\ \E n \in Nonces :
          /\ IsPendingCount(fee[f].counted, n)
          /\ fee' = [fee EXCEPT ![f].stage = "answered", ![f].nonce = n]
    /\ UNCHANGED <<form, onForm, send, history, mined, walletVars>>

(* The end of setTransactionFee, whatever the form has become meanwhile. *)
FeeWritten(f) ==
    /\ fee[f].stage = "answered"
    /\ fee' = [fee EXCEPT ![f] = [NoFee EXCEPT !.stage = "ended"]]
    /\ form' = [form EXCEPT !.nonce = fee[f].nonce, !.counted = fee[f].counted]
    /\ UNCHANGED <<onForm, send, history, mined, walletVars>>

(* A request fails: the catch of setTransactionFee only logs. *)
FeeFails(f) ==
    /\ "fetch" \in Failures
    /\ fee[f].stage \in {"asked", "answered"}
    /\ fee' = [fee EXCEPT ![f] = [NoFee EXCEPT !.stage = "ended"]]
    /\ UNCHANGED <<form, onForm, send, history, mined, walletVars>>

(* init, when the form is shown again: it writes nouce, so nonce stays,    *)
(* also when another wallet has been unlocked in between.                  *)
OpenForm ==
    /\ ~onForm
    /\ onForm' = TRUE
    /\ form' = [form EXCEPT !.filled = FALSE]
    /\ UNCHANGED <<fee, send, history, mined, walletVars>>

-----------------------------------------------------------------------------
(* The wallet. *)

(* An unlock sets defaultAccount, the wallet when its balance has come, and*)
(* goes to the dashboard; until then no form is on the screen.  What the   *)
(* old wallet's computations and transactions still do goes on.            *)
Unlock(a) ==
    /\ unlocks < MaxUnlocks
    /\ a # signer
    /\ unlocks' = unlocks + 1
    /\ signer' = a
    /\ wallet' = a
    /\ onForm' = FALSE
    /\ UNCHANGED <<form, fee, send, history, mined, balances>>

(* updateWalletWithBalance, when the answer comes: the wallet it was asked *)
(* with is written, whichever has been unlocked since.                     *)
BalanceArrives(a) ==
    /\ a \in balances
    /\ balances' = balances \ {a}
    /\ wallet' = a
    /\ UNCHANGED <<form, onForm, fee, send, history, mined, signer, unlocks>>

-----------------------------------------------------------------------------
(* confirmSend and incorporationSend *)

NeverTimed == FALSE             \* mutant: the timer of line 217 is missing

(* Which wallets get the 30 seconds: confirmSend compares with 'ledget'.   *)
Timed ==
    \/ Operation = "confirmSend" /\ WalletType \in {"ledget", "trezor"}
    \/ Operation = "incorporationSend" /\ WalletType # ""

(* The nonce of the form, of whichever account it was counted for; without *)
(* one web3 asks the node for the sender's.                                *)
NonceSent(n, counted) ==
    IF form.nonce # NoNonce THEN n = form.nonce /\ counted = form.counted
    ELSE /\ counted = signer
         /\ IF WalletType \in Hardware
            THEN IsPendingCount(signer, n) ELSE n = mined[signer]

ConfirmSend ==
    /\ onForm
    /\ form.filled
    /\ \E s \in Sends, n \in Nonces, counted \in Accounts :
          /\ send[s].call = "none"
          /\ \A r \in 1 .. s - 1 : send[r].call # "none"
          /\ NonceSent(n, counted)
          /\ send' = [send EXCEPT ![s] =
                [NoSend EXCEPT
                    !.call = IF WalletType \in Hardware THEN "signing" ELSE "flying",
                    !.listening = TRUE, !.timer = Timed,
                    !.nonce = n, !.counted = counted, !.from = signer]]
    /\ UNCHANGED <<form, onForm, fee, history, mined, walletVars>>

(* Mutant: the callback removes the listeners and stays set. *)
TimerFiresAgain(s) ==
    /\ send[s].timer
    /\ send' = [send EXCEPT ![s].listening = FALSE, ![s].told = "timeout"]
    /\ onForm' = FALSE
    /\ UNCHANGED <<form, fee, history, mined, walletVars>>

(* The setTimeout callback: the listeners go, the transaction does not. *)
TimerFires(s) ==
    /\ send[s].timer
    /\ send' = [send EXCEPT ![s].timer = FALSE, ![s].listening = FALSE,
                            ![s].told = "timeout"]
    /\ onForm' = FALSE
    /\ UNCHANGED <<form, fee, history, mined, walletVars>>

(* Mutant: lines 227 and 243 are missing. *)
TellLeavingTimer(s, call, what) ==
    send' = [send EXCEPT ![s].call = call, ![s].told = what]

(* The handlers of hash and error clear the timer and tell the user. *)
Tell(s, call, what) ==
    send' = [send EXCEPT ![s].call = call, ![s].told = what, ![s].timer = FALSE]

RecordNothing(s) == UNCHANGED history          \* mutant: line 235 is missing

(* createTxHistry: the record names the wallet of this moment as sender. *)
CreateTxHistory(s) ==
    history' = history \cup {[hash |-> s, from |-> wallet]}

(* on('transactionHash') *)
HashEvent(s) ==
    /\ send[s].call = "hash"
    /\ IF send[s].listening
       THEN /\ Tell(s, "receipt", "hash")
            /\ onForm' = FALSE
            /\ CreateTxHistory(s)
       ELSE /\ send' = [send EXCEPT ![s].call = "receipt"]
            /\ UNCHANGED <<onForm, history>>
    /\ UNCHANGED <<form, fee, mined, walletVars>>

(* on('error') *)
ErrorEvent(s) ==
    /\ send[s].call = "error"
    /\ IF send[s].listening
       THEN /\ Tell(s, "ended", "error")
            /\ onForm' = FALSE
       ELSE /\ send' = [send EXCEPT ![s].call = "ended"]
            /\ UNCHANGED onForm
    /\ UNCHANGED <<form, fee, history, mined, walletVars>>

(* on('receipt'): web3 is done with the transaction, updateBalances asks   *)
(* for the balance of the wallet; an incorporation goes on to the page     *)
(* process-started.                                                        *)
ReceiptEvent(s) ==
    /\ send[s].call = "receipt"
    /\ send[s].chain = "mined"
    /\ send' = [send EXCEPT ![s].call = "ended"]
    /\ balances' = IF send[s].listening THEN balances \cup {wallet} ELSE balances
    /\ onForm' = (onForm /\ ~(Operation = "incorporationSend" /\ send[s].listening))
    /\ UNCHANGED <<form, fee, history, mined, wallet, signer, unlocks>>

-----------------------------------------------------------------------------
(* The device and the node. *)

Becomes(s, call) ==
    /\ send' = [send EXCEPT ![s].call = call]
    /\ UNCHANGED <<form, onForm, fee, history, mined, walletVars>>

DeviceSigns(s) == send[s].call = "signing" /\ Becomes(s, "flying")

DeviceDeclines(s) == send[s].call = "signing" /\ Becomes(s, "error")

(* A nonce that is used up or in the pool is not taken again. *)
Takable(s) ==
    /\ send[s].call = "flying"
    /\ send[s].nonce >= mined[send[s].from]
    /\ ~InPool(send[s].from, send[s].nonce)

NodeTakes(s) ==
    /\ Takable(s)
    /\ send' = [send EXCEPT ![s].call = "hash", ![s].chain = "pool"]
    /\ UNCHANGED <<form, onForm, fee, history, mined, walletVars>>

(* The node has it and the reply does not come back: web3 emits an error   *)
(* and no transactionHash.                                                 *)
ReplyLost(s) ==
    /\ "lose" \in Failures
    /\ Takable(s)
    /\ send' = [send EXCEPT ![s].call = "error", ![s].chain = "pool", ![s].lost = TRUE]
    /\ UNCHANGED <<form, onForm, fee, history, mined, walletVars>>

(* For the nonce, the gas price, the balance or any other reason. *)
NodeRefuses(s) == send[s].call = "flying" /\ Becomes(s, "error")

Mine(s) ==
    /\ send[s].chain = "pool"
    /\ send[s].nonce = mined[send[s].from]
    /\ send' = [send EXCEPT ![s].chain = "mined"]
    /\ mined' = [mined EXCEPT ![send[s].from] = @ + 1]
    /\ UNCHANGED <<form, onForm, fee, history, walletVars>>

(* 'was not mined within 50 blocks' *)
PollingEnds(s) == "poll" \in Failures /\ send[s].call = "receipt" /\ Becomes(s, "error")

-----------------------------------------------------------------------------
Computing(f) == Counted(f) \/ FeeWritten(f) \/ FeeFails(f)

Answered(s) ==
    \/ NodeTakes(s) \/ ReplyLost(s) \/ NodeRefuses(s)
    \/ HashEvent(s) \/ ErrorEvent(s) \/ ReceiptEvent(s)

Next ==
    \/ SetPayment
    \/ OpenForm
    \/ \E a \in Accounts : Unlock(a) \/ BalanceArrives(a)
    \/ ConfirmSend
    \/ \E f \in Fees : Computing(f)
    \/ \E s \in Sends :
          \/ TimerFires(s)
          \/ DeviceSigns(s) \/ DeviceDeclines(s)
          \/ Answered(s)
          \/ Mine(s)
          \/ PollingEnds(s)

Spec == Init /\ [][Next]_vars

(* Timers fire, the node answers, blocks are mined.  The user need not do  *)
(* anything, on the screen or on the device.                               *)
FairSpec ==
    /\ Spec
    /\ \A f \in Fees : WF_vars(Computing(f))
    /\ \A s \in Sends : WF_vars(TimerFires(s)) /\ WF_vars(Answered(s)) /\ WF_vars(Mine(s))

-----------------------------------------------------------------------------
(* No transaction waits behind a nonce that nobody will use, however late  *)
(* the counts of setTransactionFee arrive, whichever of them the form holds*)
(* when the user confirms (lines 110 and 193) and whatever else has been   *)
(* sent since, by this account or another.  The exception is a nonce that  *)
(* was counted for another account: init keeps it when another wallet is   *)
(* unlocked, a late computation of the old wallet writes it, and           *)
(* transactionObject.nonce sends it; such a transaction may wait for ever. *)
NoNonceGap ==
    \A s \in Sends : send[s].chain = "pool" /\ send[s].counted = send[s].from =>
        \A n \in mined[send[s].from] .. send[s].nonce - 1 : InPool(send[s].from, n)

(* The user is told of every transaction what became of it, also when the  *)
(* device never answers (lines 217-236).  It holds for the wallets that    *)
(* get the timer and for local keys; for a Ledger line 216 reads 'ledget'. *)
EverySendReported ==
    <>[](\A s \in Sends : send[s].call # "none" => send[s].told # "none")

(* What the user was told is not taken back by the timer, and after the    *)
(* timer nothing else is told: lines 218-221, 227 and 243.                 *)
TimeoutIsFinal ==
    [][\A s \in Sends :
          /\ send[s].told = "timeout" => send'[s].told = "timeout"
          /\ send[s].told \in {"hash", "error"} => send'[s].told # "timeout"]_vars

(* What was sent is in the history or about to be written there, also when *)
(* sends overlap, web3 reports an error after the hash and another wallet  *)
(* is unlocked meanwhile; only two ways lead past the hash event: the timer*)
(* removed the listeners, or the node's reply was lost, and then the user  *)
(* is told of an error.  And nothing is recorded that the node did not take*)
(* or that the user was told is given up (lines 226-243 and 372-388).      *)
SentIsRecorded ==
    \A s \in Sends :
        LET recorded == \E h \in history : h.hash = s
            reported == send[s].call = "error" \/ send[s].told \in {"error", "timeout"}
        IN  /\ send[s].chain # "none" =>
                  \/ recorded \/ send[s].call = "hash"
                  \/ send[s].told = "timeout"
                  \/ send[s].lost /\ reported
            /\ recorded => send[s].chain # "none" /\ ~send[s].lost
                           /\ send[s].told # "timeout"

(* "You did not confirm this transaction on your device so it was not sent *)
(* to the network": the page shown by the timer.  It is violated: the      *)
(* timer removes the listeners and leaves the request on the device.       *)
TimeoutMeansNotSent ==
    \A s \in Sends : send[s].told = "timeout" => send[s].chain = "none"
=============================================================================
