---------------------------- MODULE Web3Service ----------------------------
(***************************************************************************)
(* src/main/blockchain/web3-service.js: every request to the Ethereum node *)
(* is a ticket pushed on one queue (waitForTicket); the queue's handler    *)
(* either starts a read request (handleTicket) or prepares, signs and      *)
(* broadcasts a contract transaction (sendSignedTransaction), choosing its *)
(* nonce from the node's pending count and this.nonce.                     *)
(*                                                                         *)
(* The queue is FifoServer, which AsyncTaskQueue implements: the 500 ms    *)
(* between tickets are left out, an answer of the node may take longer.    *)
(* The node, its pool and the chain are external: they are modelled by     *)
(* what the service sees of them.  A handler occupies the queue only until *)
(* it has started its request, so answers to earlier tickets arrive while  *)
(* a later transaction is being prepared.                                  *)
(***************************************************************************)
EXTENDS Naturals, Sequences, FiniteSets

CONSTANTS
    Clients,      \* the callers: placeStake, withdrawStake, balance checks...
    Program,      \* Program[c]: the tickets caller c awaits one after another
    Exclusive,    \* callers that the user starts one after another
    Sends,        \* tickets with method 'send'; the others are read requests
    From,         \* From[t]: opts.from of a send, as its caller took it
    Accounts,
    Wallets,      \* what the store's wallet may be
    InitCount,    \* InitCount[a]: transactions of a mined before the app started
    MaxNonce,     \* bound: no nonce of the run is larger
    Failures,     \* which requests may fail
    NoTicket, NoKey

Tickets == UNION {{Program[c][i] : i \in 1 .. Len(Program[c])} : c \in Clients}

FailureKinds ==
    {"throw", "read", "count", "refuse", "reply", "revert", "timeout", "device"}

ASSUME ConstantsAssumption ==
    /\ Exclusive \subseteq Clients
    /\ Sends \subseteq Tickets
    /\ NoTicket \notin Tickets
    /\ NoKey \notin Accounts
    /\ From \in [Sends -> Accounts]
    /\ \A c \in Clients : Program[c] \in Seq(Tickets)
    /\ \A c, d \in Clients : \A i \in 1 .. Len(Program[c]), j \in 1 .. Len(Program[d]) :
         Program[c][i] = Program[d][j] => c = d /\ i = j   \* a ticket is one call
    /\ MaxNonce \in Nat
    /\ InitCount \in [Accounts -> 0 .. MaxNonce + 1]
    /\ Failures \subseteq FailureKinds
    /\ Wallets \subseteq [publicKey : Accounts, key : Accounts \cup {NoKey},
                          hardware : BOOLEAN]
    /\ \A w \in Wallets : w.key \in {w.publicKey, NoKey}   \* WalletStore: KeyOfAccount

VARIABLES
    waiting, current, answer,  \* this.q, see FifoServer
    lastNonce,   \* this.nonce
    stage,       \* where the running sendSignedTransaction is suspended
    held,        \* its local variable wallet
    seen,        \* its local variable nonce, before the comparison
    ticket,      \* ticket[t]: what waitForTicket(t) told its caller
    request,     \* request[t]: what became of the request at the node
    watched,     \* tickets whose ticketPromise has not settled
    signer,      \* signer[t]: the account whose key signed t
    nonceOf,     \* nonceOf[t]: the nonce t was signed with
    mined,       \* mined[a]: the nonce the chain executes next
    wallet,      \* store.getState().wallet
    pc           \* pc[c]: how many tickets of its program c has pushed

queueVars == <<waiting, current, answer>>
handlerVars == <<stage, held, seen>>
nodeVars == <<request, watched, signer, nonceOf, mined>>
vars == <<queueVars, lastNonce, handlerVars, ticket, nodeVars, wallet, pc>>

Q == INSTANCE FifoServer WITH Tasks <- Tickets, NoTask <- NoTicket

RequestStates ==
    {"none", "asked", "answered", "flying", "refused", "pooled", "mined", "reverted"}

TypeOK ==
    /\ Q!TypeOK
    /\ lastNonce \in 0 .. MaxNonce
    /\ stage \in {"none", "count", "sign", "device"}
    /\ (stage = "none") = (current = NoTicket)
    /\ held \in Wallets
    /\ seen \in 0 .. MaxNonce + 1
    /\ ticket \in [Tickets -> {"none", "waiting", "resolved", "rejected"}]
    /\ request \in [Tickets -> RequestStates]
    /\ watched \subseteq Tickets
    /\ signer \in [Tickets -> Accounts \cup {NoKey}]
    /\ nonceOf \in [Tickets -> 0 .. MaxNonce]
    /\ mined \in [Accounts -> 0 .. MaxNonce + 1]
    /\ wallet \in Wallets
    /\ pc \in [Clients -> Nat]

Init ==
    /\ Q!Init
    /\ lastNonce = 0
    /\ stage = "none"
    /\ wallet \in Wallets
    /\ held = wallet
    /\ seen = 0
    /\ ticket = [t \in Tickets |-> "none"]
    /\ request = [t \in Tickets |-> "none"]
    /\ watched = {}
    /\ signer = [t \in Tickets |-> NoKey]
    /\ nonceOf = [t \in Tickets |-> 0]
    /\ mined = InitCount
    /\ pc = [c \in Clients |-> 0]

-----------------------------------------------------------------------------
(* The node. *)

Pooled(a) == {t \in Tickets : request[t] = "pooled" /\ signer[t] = a}

(* eth_getTransactionCount(a, 'pending'): mined transactions and those of  *)
(* the pool that follow them without a gap.                                *)
PendingCount(a) ==
    CHOOSE n \in mined[a] .. MaxNonce + 1 :
        /\ \A t \in Pooled(a) : nonceOf[t] # n
        /\ \A m \in mined[a] .. n - 1 : \E t \in Pooled(a) : nonceOf[t] = m

(* 'nonce too low' and 'replacement transaction underpriced' *)
NonceTaken(t) ==
    \/ nonceOf[t] < mined[signer[t]]
    \/ \E u \in Pooled(signer[t]) : nonceOf[u] = nonceOf[t]

(* Mutant: the rejections of lines 131, 136 and 149 are forgotten. *)
SettleOnlyResolved(t, r) ==
    ticket' = [ticket EXCEPT ![t] = IF @ = "waiting" /\ r = "resolved" THEN r ELSE @]

(* The promise of waitForTicket settles once; later calls do nothing. *)
Settle(t, r) ==
    ticket' = [ticket EXCEPT ![t] = IF @ = "waiting" THEN r ELSE @]

(* Mutant: line 135 is missing. *)
PromiseFailsKeepingNonce(t) ==
    /\ watched' = watched \ {t}
    /\ Settle(t, "rejected")
    /\ UNCHANGED lastNonce

(* ticketPromise.catch in waitForTicket *)
PromiseFails(t) ==
    /\ watched' = watched \ {t}
    /\ lastNonce' = 0
    /\ Settle(t, "rejected")

-----------------------------------------------------------------------------
(* waitForTicket: a caller pushes its next ticket when the one before has  *)
(* resolved; a rejection ends its program.                                 *)

Busy(c) ==
    /\ pc[c] > 0
    /\ LET last == Program[c][pc[c]] IN
         \/ ticket[last] = "waiting"
         \/ ticket[last] = "resolved" /\ pc[c] < Len(Program[c])

WaitForTicket(c) ==
    /\ pc[c] < Len(Program[c])
    /\ pc[c] = 0 =>
         (c \in Exclusive => \A d \in Exclusive : ~Busy(d))
    /\ pc[c] > 0 => ticket[Program[c][pc[c]]] = "resolved"
    /\ LET t == Program[c][pc[c] + 1] IN
         /\ Q!Submit(t)
         /\ ticket' = [ticket EXCEPT ![t] = "waiting"]
    /\ pc' = [pc EXCEPT ![c] = @ + 1]
    /\ UNCHANGED <<lastNonce, handlerVars, nodeVars, wallet>>

(* handleTicket of a read request: the request is on its way when the      *)
(* handler returns.                                                        *)
HandleRead ==
    /\ current = NoTicket /\ waiting # <<>>
    /\ LET t == Head(waiting) IN
         /\ t \notin Sends
         /\ request' = [request EXCEPT ![t] = "asked"]
         /\ watched' = watched \cup {t}
    /\ Q!Serve("resolved")
    /\ UNCHANGED <<lastNonce, handlerVars, ticket, signer, nonceOf, mined, wallet, pc>>

(* sendSignedTransaction, first part, of the ticket at the head: the       *)
(* checks on the wallet, which throw before anything is awaited.           *)
WalletRefused(t) ==
    /\ t \in Sends
    /\ \/ wallet.publicKey # From[t]
       \/ ~wallet.hardware /\ wallet.key = NoKey

(* The handler throws, or web3 does on the ticket's address or arguments.  *)
HandlerThrows ==
    /\ current = NoTicket /\ waiting # <<>>
    /\ WalletRefused(Head(waiting)) \/ "throw" \in Failures
    /\ Settle(Head(waiting), "rejected")
    /\ Q!Serve("rejected")
    /\ UNCHANGED <<lastNonce, handlerVars, nodeVars, wallet, pc>>

BeginSend ==
    /\ waiting # <<>>
    /\ Head(waiting) \in Sends
    /\ ~WalletRefused(Head(waiting))
    /\ Q!Begin
    /\ held' = wallet
    /\ stage' = IF wallet.hardware THEN "device" ELSE "count"
    /\ UNCHANGED <<lastNonce, seen, ticket, nodeVars, wallet, pc>>

(* Mutant: the running call is not given up. *)
CountFailsAndStays ==
    /\ "count" \in Failures
    /\ stage = "count"
    /\ Q!Finish("rejected")
    /\ Settle(current, "rejected")
    /\ UNCHANGED <<lastNonce, handlerVars, nodeVars, wallet, pc>>

(* Gas price, gas estimate and pending count: the handler waits for them   *)
(* in turn.  If one is not answered the ticket fails, this.nonce stays.    *)
CountFails ==
    /\ "count" \in Failures
    /\ stage = "count"
    /\ Q!Finish("rejected")
    /\ Settle(current, "rejected")
    /\ stage' = "none"
    /\ UNCHANGED <<lastNonce, held, seen, nodeVars, wallet, pc>>

(* Mutant: the count leaves out 'pending'. *)
CountWithoutPending ==
    /\ stage = "count"
    /\ seen' = mined[From[current]]
    /\ stage' = "sign"
    /\ UNCHANGED <<queueVars, lastNonce, held, ticket, nodeVars, wallet, pc>>

CountAnswered ==
    /\ stage = "count"
    /\ seen' = PendingCount(From[current])
    /\ stage' = "sign"
    /\ UNCHANGED <<queueVars, lastNonce, held, ticket, nodeVars, wallet, pc>>

(* sendSignedTransaction, last part: nothing is awaited between the count  *)
(* and the broadcast.                                                      *)
AlwaysTheCount == seen          \* mutant: lines 226-228 are missing
ChosenNonce == IF seen = lastNonce THEN seen + 1 ELSE seen

(* The wallet whose key signs is the local variable checked on line 204. *)
StoreWallet == wallet           \* mutant: line 238 reads the store again
SigningWallet == held

Broadcast ==
    /\ stage = "sign"
    /\ ChosenNonce <= MaxNonce
    /\ nonceOf' = [nonceOf EXCEPT ![current] = ChosenNonce]
    /\ lastNonce' = ChosenNonce
    /\ signer' = [signer EXCEPT ![current] = SigningWallet.key]
    /\ request' = [request EXCEPT ![current] = "flying"]
    /\ watched' = watched \cup {current}
    /\ Q!Finish("resolved")
    /\ stage' = "none"
    /\ UNCHANGED <<held, seen, ticket, mined, wallet, pc>>

(* A hardware wallet: the handler awaits contract.send itself, which ends  *)
(* with the receipt.  The receipt has no ticketPromise, so waitForTicket   *)
(* rejects with 'Failed to process ticket'.                                *)
DeviceSends ==
    /\ stage = "device"
    /\ Pooled(held.publicKey) = {}
    /\ mined[held.publicKey] <= MaxNonce
    /\ request' = [request EXCEPT ![current] = "mined"]
    /\ signer' = [signer EXCEPT ![current] = held.publicKey]
    /\ nonceOf' = [nonceOf EXCEPT ![current] = mined[held.publicKey]]
    /\ mined' = [mined EXCEPT ![held.publicKey] = @ + 1]
    /\ Q!Finish("resolved")
    /\ Settle(current, "rejected")
    /\ stage' = "none"
    /\ UNCHANGED <<lastNonce, held, seen, watched, wallet, pc>>

DeviceDeclines ==
    /\ "device" \in Failures
    /\ stage = "device"
    /\ Q!Finish("rejected")
    /\ Settle(current, "rejected")
    /\ stage' = "none"
    /\ UNCHANGED <<lastNonce, held, seen, nodeVars, wallet, pc>>

-----------------------------------------------------------------------------
(* Answers of the node to requests that are on their way. *)

ReadAnswered(t) ==
    /\ request[t] = "asked"
    /\ request' = [request EXCEPT ![t] = "answered"]
    /\ \/ /\ watched' = watched \ {t}
          /\ Settle(t, "resolved")
          /\ UNCHANGED lastNonce
       \/ /\ "read" \in Failures
          /\ PromiseFails(t)
    /\ UNCHANGED <<queueVars, handlerVars, signer, nonceOf, mined, wallet, pc>>

(* The node takes the transaction: the transactionHash event. *)
NodeAccepts(t) ==
    /\ request[t] = "flying"
    /\ ~NonceTaken(t)
    /\ request' = [request EXCEPT ![t] = "pooled"]
    /\ \/ /\ Settle(t, "resolved")
          /\ UNCHANGED <<lastNonce, watched>>
       \/ /\ "reply" \in Failures   \* taken, but the answer is lost
          /\ PromiseFails(t)
    /\ UNCHANGED <<queueVars, handlerVars, signer, nonceOf, mined, wallet, pc>>

NodeRefuses(t) ==
    /\ request[t] = "flying"
    /\ NonceTaken(t) \/ "refuse" \in Failures
    /\ request' = [request EXCEPT ![t] = "refused"]
    /\ PromiseFails(t)
    /\ UNCHANGED <<queueVars, handlerVars, signer, nonceOf, mined, wallet, pc>>

(* A block executes the transaction: the receipt settles the promise, with *)
(* an error if the transaction was reverted.                               *)
Mine(t) ==
    /\ request[t] = "pooled"
    /\ nonceOf[t] = mined[signer[t]]
    /\ mined' = [mined EXCEPT ![signer[t]] = @ + 1]
    /\ \/ /\ request' = [request EXCEPT ![t] = "mined"]
          /\ watched' = watched \ {t}
          /\ UNCHANGED <<lastNonce, ticket>>
       \/ /\ "revert" \in Failures
          /\ request' = [request EXCEPT ![t] = "reverted"]
          /\ IF t \in watched THEN PromiseFails(t)
                              ELSE UNCHANGED <<watched, lastNonce, ticket>>
    /\ UNCHANGED <<queueVars, handlerVars, signer, nonceOf, wallet, pc>>

(* web3 stops polling for the receipt: 'was not mined within 50 blocks'. *)
GivesUp(t) ==
    /\ "timeout" \in Failures
    /\ request[t] = "pooled"
    /\ t \in watched
    /\ PromiseFails(t)
    /\ UNCHANGED <<queueVars, handlerVars, request, signer, nonceOf, mined, wallet, pc>>

(* Another wallet is unlocked. *)
ChangeWallet ==
    /\ wallet' \in Wallets \ {wallet}
    /\ UNCHANGED <<queueVars, lastNonce, handlerVars, ticket, nodeVars, pc>>

-----------------------------------------------------------------------------
Handler ==
    HandleRead \/ HandlerThrows \/ BeginSend \/ CountFails \/ CountAnswered \/ Broadcast

Answered(t) == ReadAnswered(t) \/ NodeAccepts(t) \/ NodeRefuses(t) \/ Mine(t)

Next ==
    \/ Handler
    \/ DeviceSends \/ DeviceDeclines
    \/ \E t \in Tickets : Answered(t) \/ GivesUp(t)
    \/ ChangeWallet
    \/ \E c \in Clients : WaitForTicket(c)

Spec == Init /\ [][Next]_vars

(* The queue's worker runs, the node answers what it is asked, and blocks  *)
(* are mined.  Callers and users owe nothing: nobody has to confirm on the *)
(* device, and the code puts no timeout on it.                             *)
FairSpec == Spec /\ WF_vars(Handler) /\ \A t \in Tickets : WF_vars(Answered(t))

-----------------------------------------------------------------------------
Sent == {"flying", "pooled", "mined", "reverted"}
Executed == {"mined", "reverted"}

(* Two transactions of one account never carry the same nonce, whatever    *)
(* was refused, reverted or given up between them: one of the two would be *)
(* lost (the count and comparison of lines 225-228, the reset of 135).     *)
NoNonceReuse ==
    \A t, u \in Sends :
        t # u /\ request[t] \in Sent /\ request[u] \in Sent /\ signer[t] = signer[u]
            => nonceOf[t] # nonceOf[u]

(* No transaction waits behind a nonce that nothing on its way to the      *)
(* chain will fill: this.nonce must not be taken for the node's count when *)
(* it is not (lines 135 and 226).                                          *)
NoNonceGap ==
    \A t \in Sends :
        request[t] \in {"flying", "pooled"} =>
            \A n \in mined[signer[t]] .. nonceOf[t] - 1 :
                \E u \in Sends :
                    /\ request[u] \in {"flying", "pooled"}
                    /\ signer[u] = signer[t]
                    /\ nonceOf[u] = n

(* The chain executes a caller's transactions in the order it sent them:   *)
(* a deposit never overtakes the approval it needs.                        *)
InCallOrder ==
    \A c \in Clients : \A i, j \in 1 .. Len(Program[c]) :
        LET t == Program[c][i]
            u == Program[c][j]
        IN  i < j /\ {t, u} \subseteq Sends /\ request[u] \in Executed
                => request[t] \in Executed

(* A transaction is signed by the account its caller named, although the   *)
(* store's wallet may change between the call, the check on line 204, and  *)
(* the signature on line 238.                                              *)
SignerIsSender ==
    \A t \in Sends : request[t] \in Sent => signer[t] = From[t]

(* The queue's promise seen from the callers: every ticket is answered,    *)
(* also those behind a ticket that threw, was refused or is slow.          *)
EveryTicketSettles ==
    \A t \in Tickets : ticket[t] = "waiting" ~> ticket[t] # "waiting"

(* A transaction reported to its caller is executed in the end: "the time  *)
(* it takes to complete will depend on the amount of network traffic".  It *)
(* needs the nonces of lines 225-228 and the reset of line 135; it fails   *)
(* when the sends are of two accounts, which share this.nonce.             *)
ReportedTxCompletes ==
    \A t \in Sends : ticket[t] = "resolved" ~> request[t] \in Executed
=============================================================================
