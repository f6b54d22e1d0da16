------------------------- MODULE Web3ServiceProofs -------------------------
(***************************************************************************)
(* Proofs about Web3Service: types, and that a transaction is signed by    *)
(* the account its caller named.  The second relates three moments: the    *)
(* check of the wallet, the awaits after it, in which the store may get    *)
(* another wallet, and the signature.                                      *)
(***************************************************************************)
EXTENDS Web3Service, SequenceTheorems, WellFoundedInduction, TLAPS

(* The wallet that was checked belongs to the sender of the running call *)
HeldIsSender ==
    stage # "none" =>
        /\ current \in Sends
        /\ held.publicKey = From[current]
        /\ stage \in {"count", "sign"} => held.key = From[current]

Web3Inv == TypeOK /\ HeldIsSender /\ SignerIsSender

-----------------------------------------------------------------------------
(* Data *)

(* A set of natural numbers that is not empty has a least element: what    *)
(* the pending count is chosen by.                                         *)
LEMMA LeastNumber ==
    ASSUME NEW S, S \subseteq Nat, S # {}
    PROVE  \E n \in S : \A o \in S : n <= o
  <1> DEFINE less == OpToRel(<, Nat)
  <1>1. IsWellFoundedOn(less, Nat)
    BY NatLessThanWellFounded
  <1>2. \A m, n \in Nat : m < n => <<m, n>> \in less
    BY DEF OpToRel
  <1> HIDE DEF less
  <1>3. \E n \in S : \A o \in S : ~(<<o, n>> \in less)
    BY <1>1, WFMin
  <1>4. PICK n \in S : \A o \in S : ~(o < n)
    BY <1>2, <1>3
  <1>5. \A o \in S : n <= o
    BY <1>4
  <1> QED
    BY <1>5

(* The node's count exists: no nonce of the pool is larger than MaxNonce. *)
LEMMA PendingCountIs ==
    ASSUME TypeOK, NEW a \in Accounts
    PROVE  /\ PendingCount(a) \in mined[a] .. MaxNonce + 1
           /\ \A t \in Pooled(a) : nonceOf[t] # PendingCount(a)
           /\ \A m \in mined[a] .. PendingCount(a) - 1 : \E t \in Pooled(a) : nonceOf[t] = m
  <1> DEFINE taken(n) == \E t \in Pooled(a) : nonceOf[t] = n
             free == {n \in mined[a] .. MaxNonce + 1 : ~taken(n)}
  <1>1. MaxNonce \in Nat /\ mined[a] \in 0 .. MaxNonce + 1
    BY ConstantsAssumption DEF TypeOK
  <1>2. \A t \in Pooled(a) : nonceOf[t] \in 0 .. MaxNonce
    BY DEF TypeOK, Pooled
  <1>3. MaxNonce + 1 \in free
    BY <1>1, <1>2
  <1>4. PICK n \in free : \A o \in free : n <= o
    BY <1>1, <1>3, LeastNumber, free \subseteq Nat
  <1>5. \A m \in mined[a] .. n - 1 : taken(m)
    BY <1>1, <1>4
  <1>6. \A t \in Pooled(a) : nonceOf[t] # n
    BY <1>4
  <1> QED
    BY <1>4, <1>5, <1>6 DEF PendingCount

LEMMA PendingCountType ==
    ASSUME TypeOK, NEW a \in Accounts
    PROVE  PendingCount(a) \in 0 .. MaxNonce + 1
  <1>1. MaxNonce \in Nat /\ mined[a] \in 0 .. MaxNonce + 1
    BY ConstantsAssumption DEF TypeOK
  <1> QED
    BY <1>1, PendingCountIs

LEMMA SettleType ==
    ASSUME TypeOK, NEW t \in Tickets, NEW r \in {"resolved", "rejected"}, Settle(t, r)
    PROVE  ticket' \in [Tickets -> {"none", "waiting", "resolved", "rejected"}]
  BY DEF TypeOK, Settle

LEMMA PromiseFailsType ==
    ASSUME TypeOK, NEW t \in Tickets, PromiseFails(t)
    PROVE  /\ ticket' \in [Tickets -> {"none", "waiting", "resolved", "rejected"}]
           /\ lastNonce' \in 0 .. MaxNonce /\ watched' \subseteq Tickets
  <1>1. lastNonce' = 0 /\ watched' = watched \ {t} /\ Settle(t, "rejected")
    BY DEF PromiseFails
  <1>2. ticket' \in [Tickets -> {"none", "waiting", "resolved", "rejected"}]
    BY <1>1, SettleType
  <1> QED
    BY <1>1, <1>2, ConstantsAssumption DEF TypeOK

-----------------------------------------------------------------------------
(* The queue *)

LEMMA HeadIsTicket ==
    ASSUME TypeOK, waiting # << >>
    PROVE  Head(waiting) \in Tickets /\ Head(waiting) # NoTicket /\ Tail(waiting) \in Seq(Tickets)
  <1>1. waiting \in Seq(Tickets)
    BY DEF TypeOK, Q!TypeOK
  <1>2. Head(waiting) \in Tickets /\ Tail(waiting) \in Seq(Tickets)
    BY <1>1
  <1> QED
    BY <1>2, ConstantsAssumption

LEMMA QueueSteps ==
    ASSUME TypeOK
    PROVE  /\ \A t \in Tickets : Q!Submit(t) => Q!TypeOK' /\ current' = current
           /\ Q!Begin => /\ Q!TypeOK' /\ current = NoTicket
                         /\ current' = Head(waiting) /\ current' # NoTicket
           /\ \A r \in {"resolved", "rejected"} :
                /\ Q!Finish(r) => Q!TypeOK' /\ current' = NoTicket
                /\ Q!Serve(r) => Q!TypeOK' /\ current' = current
           /\ UNCHANGED queueVars => Q!TypeOK' /\ current' = current
  <1>1. /\ waiting \in Seq(Tickets) /\ current \in Tickets \cup {NoTicket}
        /\ answer \in [Tickets -> Q!AnswerStates]
    BY DEF TypeOK, Q!TypeOK
  <1>2. {"pending", "resolved", "rejected"} \subseteq Q!AnswerStates
    BY DEF Q!AnswerStates, Q!Answers
  <1>3. \A t \in Tickets : Append(waiting, t) \in Seq(Tickets)
    BY <1>1
  <1>4. ASSUME NEW t \in Tickets, Q!Submit(t)
        PROVE  Q!TypeOK' /\ current' = current
    BY <1>1, <1>2, <1>3, <1>4 DEF Q!Submit, Q!TypeOK
  <1>5. ASSUME Q!Begin
        PROVE  /\ Q!TypeOK' /\ current = NoTicket
               /\ current' = Head(waiting) /\ current' # NoTicket
    BY <1>1, <1>5, HeadIsTicket DEF Q!Begin, Q!TypeOK
  <1>6. ASSUME NEW r \in {"resolved", "rejected"}, Q!Finish(r)
        PROVE  Q!TypeOK' /\ current' = NoTicket
    BY <1>1, <1>2, <1>6 DEF Q!Finish, Q!TypeOK
  <1>7. ASSUME NEW r \in {"resolved", "rejected"}, Q!Serve(r)
        PROVE  Q!TypeOK' /\ current' = current
    BY <1>1, <1>2, <1>7, HeadIsTicket DEF Q!Serve, Q!TypeOK
  <1>8. ASSUME UNCHANGED queueVars
        PROVE  Q!TypeOK' /\ current' = current
    BY <1>1, <1>8 DEF queueVars, Q!TypeOK
  <1> QED
    BY <1>4, <1>5, <1>6, <1>7, <1>8

-----------------------------------------------------------------------------
(* One lemma for each kind of step *)

LEMMA WaitStep ==
    ASSUME Web3Inv, NEW c \in Clients, WaitForTicket(c)
    PROVE  Web3Inv'
  <1> DEFINE t == Program[c][pc[c] + 1]
  <1>1. TypeOK
    BY DEF Web3Inv
  <1>2. t \in Tickets
    <2>1. pc[c] \in Nat /\ pc[c] < Len(Program[c]) /\ Program[c] \in Seq(Tickets)
      BY <1>1, ConstantsAssumption DEF TypeOK, WaitForTicket
    <2> QED
      BY <2>1, ElementOfSeq
  <1> HIDE DEF t
  <1>3. /\ Q!Submit(t) /\ ticket' = [ticket EXCEPT ![t] = "waiting"]
        /\ pc' = [pc EXCEPT ![c] = @ + 1]
        /\ UNCHANGED <<lastNonce, handlerVars, nodeVars, wallet>>
    BY DEF WaitForTicket, t
  <1>4. Q!TypeOK' /\ current' = current
    BY <1>1, <1>2, <1>3, QueueSteps
  <1>5. TypeOK'
    BY <1>1, <1>2, <1>3, <1>4 DEF TypeOK, handlerVars, nodeVars
  <1>6. HeldIsSender' /\ SignerIsSender'
    BY <1>3, <1>4 DEF Web3Inv, HeldIsSender, SignerIsSender, handlerVars, nodeVars
  <1> QED
    BY <1>5, <1>6 DEF Web3Inv

LEMMA HandleReadStep ==
    ASSUME Web3Inv, HandleRead
    PROVE  Web3Inv'
  <1> DEFINE t == Head(waiting)
  <1>1. TypeOK /\ t \in Tickets /\ t \notin Sends
    BY HeadIsTicket DEF Web3Inv, HandleRead
  <1>2. Q!TypeOK' /\ current' = current
    BY <1>1, QueueSteps DEF HandleRead
  <1>3. TypeOK'
    BY <1>1, <1>2 DEF TypeOK, HandleRead, handlerVars, RequestStates
  <1>4. HeldIsSender' /\ SignerIsSender'
    BY <1>1, <1>2, ConstantsAssumption
    DEF Web3Inv, TypeOK, HeldIsSender, SignerIsSender, HandleRead, handlerVars
  <1> QED
    BY <1>3, <1>4 DEF Web3Inv

LEMMA ThrowStep ==
    ASSUME Web3Inv, HandlerThrows
    PROVE  Web3Inv'
  <1>1. TypeOK /\ Head(waiting) \in Tickets
    BY HeadIsTicket DEF Web3Inv, HandlerThrows
  <1>2. Q!TypeOK' /\ current' = current
    BY <1>1, QueueSteps DEF HandlerThrows
  <1>3. ticket' \in [Tickets -> {"none", "waiting", "resolved", "rejected"}]
    BY <1>1, SettleType DEF HandlerThrows
  <1>4. UNCHANGED <<lastNonce, handlerVars, nodeVars, wallet, pc>>
    BY DEF HandlerThrows
  <1>5. TypeOK'
    BY <1>1, <1>2, <1>3, <1>4 DEF TypeOK, handlerVars, nodeVars
  <1>6. HeldIsSender' /\ SignerIsSender'
    BY <1>2, <1>4 DEF Web3Inv, HeldIsSender, SignerIsSender, handlerVars, nodeVars
  <1> QED
    BY <1>5, <1>6 DEF Web3Inv

(* The checks of the wallet: who is the sender, and whether there is a key *)
LEMMA BeginStep ==
    ASSUME Web3Inv, BeginSend
    PROVE  Web3Inv'
  <1>1. TypeOK /\ wallet \in Wallets /\ Head(waiting) \in Sends
    BY DEF Web3Inv, TypeOK, BeginSend
  <1>2. Q!TypeOK' /\ current = NoTicket /\ current' = Head(waiting) /\ current' # NoTicket
    BY <1>1, QueueSteps DEF BeginSend
  <1>3. /\ held' = wallet /\ stage' = IF wallet.hardware THEN "device" ELSE "count"
        /\ UNCHANGED <<lastNonce, seen, ticket, nodeVars, wallet, pc>>
    BY DEF BeginSend
  <1>4. TypeOK'
    BY <1>1, <1>2, <1>3 DEF TypeOK, nodeVars
  <1>5. /\ wallet.publicKey = From[Head(waiting)]
        /\ ~wallet.hardware => wallet.key = wallet.publicKey
    BY <1>1, ConstantsAssumption DEF BeginSend, WalletRefused
  <1>6. HeldIsSender'
    BY <1>1, <1>2, <1>3, <1>5 DEF HeldIsSender
  <1>7. SignerIsSender'
    BY <1>3 DEF Web3Inv, SignerIsSender, nodeVars
  <1> QED
    BY <1>4, <1>6, <1>7 DEF Web3Inv

(* The ends of a call that leave no transaction *)
LEMMA GiveUpStep ==
    ASSUME Web3Inv, CountFails \/ DeviceDeclines
    PROVE  Web3Inv'
  <1>1. /\ TypeOK /\ current \in Tickets
        /\ Q!Finish("rejected") /\ Settle(current, "rejected") /\ stage' = "none"
        /\ UNCHANGED <<lastNonce, held, seen, nodeVars, wallet, pc>>
    BY ConstantsAssumption DEF Web3Inv, HeldIsSender, CountFails, DeviceDeclines
  <1>2. Q!TypeOK' /\ current' = NoTicket
    BY <1>1, QueueSteps
  <1>3. ticket' \in [Tickets -> {"none", "waiting", "resolved", "rejected"}]
    BY <1>1, SettleType
  <1>4. TypeOK'
    BY <1>1, <1>2, <1>3 DEF TypeOK, nodeVars
  <1>5. HeldIsSender' /\ SignerIsSender'
    BY <1>1 DEF Web3Inv, HeldIsSender, SignerIsSender, nodeVars
  <1> QED
    BY <1>4, <1>5 DEF Web3Inv

LEMMA CountStep ==
    ASSUME Web3Inv, CountAnswered
    PROVE  Web3Inv'
  <1>1. /\ TypeOK /\ stage = "count" /\ current \in Sends /\ From[current] \in Accounts
        /\ seen' = PendingCount(From[current]) /\ stage' = "sign"
        /\ UNCHANGED <<queueVars, lastNonce, held, ticket, nodeVars, wallet, pc>>
    BY ConstantsAssumption DEF Web3Inv, HeldIsSender, CountAnswered
  <1>2. Q!TypeOK' /\ current' = current
    BY <1>1, QueueSteps
  <1>3. seen' \in 0 .. MaxNonce + 1
    BY <1>1, PendingCountType
  <1>4. TypeOK'
    BY <1>1, <1>2, <1>3 DEF TypeOK, nodeVars
  <1>5. HeldIsSender' /\ SignerIsSender'
    BY <1>1, <1>2 DEF Web3Inv, HeldIsSender, SignerIsSender, nodeVars
  <1> QED
    BY <1>4, <1>5 DEF Web3Inv

LEMMA BroadcastStep ==
    ASSUME Web3Inv, Broadcast
    PROVE  Web3Inv'
  <1>1. /\ TypeOK /\ stage = "sign" /\ current \in Sends /\ current \in Tickets
        /\ held.key = From[current] /\ From[current] \in Accounts
    BY ConstantsAssumption DEF Web3Inv, HeldIsSender, Broadcast
  <1>2. /\ nonceOf' = [nonceOf EXCEPT ![current] = ChosenNonce] /\ lastNonce' = ChosenNonce
        /\ signer' = [signer EXCEPT ![current] = held.key]
        /\ request' = [request EXCEPT ![current] = "flying"]
        /\ watched' = watched \cup {current} /\ stage' = "none"
        /\ UNCHANGED <<held, seen, ticket, mined, wallet, pc>>
    BY DEF Broadcast, SigningWallet
  <1>3. Q!TypeOK' /\ current' = NoTicket
    BY <1>1, QueueSteps DEF Broadcast
  <1>4. ChosenNonce \in 0 .. MaxNonce
    BY <1>1, ConstantsAssumption DEF TypeOK, Broadcast, ChosenNonce
  <1> HIDE DEF ChosenNonce
  <1>5. TypeOK'
    BY <1>1, <1>2, <1>3, <1>4 DEF TypeOK, RequestStates
  <1>6. HeldIsSender' /\ SignerIsSender'
    BY <1>1, <1>2 DEF Web3Inv, TypeOK, HeldIsSender, SignerIsSender
  <1> QED
    BY <1>5, <1>6 DEF Web3Inv

LEMMA DeviceStep ==
    ASSUME Web3Inv, DeviceSends
    PROVE  Web3Inv'
  <1> DEFINE a == held.publicKey
  <1>1. /\ TypeOK /\ stage = "device" /\ current \in Sends /\ current \in Tickets
        /\ a = From[current] /\ a \in Accounts /\ mined[a] \in 0 .. MaxNonce
    BY ConstantsAssumption DEF Web3Inv, TypeOK, HeldIsSender, DeviceSends
  <1>2. /\ request' = [request EXCEPT ![current] = "mined"]
        /\ signer' = [signer EXCEPT ![current] = a]
        /\ nonceOf' = [nonceOf EXCEPT ![current] = mined[a]]
        /\ mined' = [mined EXCEPT ![a] = @ + 1] /\ stage' = "none"
        /\ UNCHANGED <<lastNonce, held, seen, watched, wallet, pc>>
        /\ Settle(current, "rejected") /\ Q!Finish("resolved")
    BY DEF DeviceSends
  <1> HIDE DEF a
  <1>3. Q!TypeOK' /\ current' = NoTicket
    BY <1>1, <1>2, QueueSteps
  <1>4. ticket' \in [Tickets -> {"none", "waiting", "resolved", "rejected"}]
    BY <1>1, <1>2, SettleType
  <1>5. /\ mined[a] + 1 \in 0 .. MaxNonce + 1
        /\ mined \in [Accounts -> 0 .. MaxNonce + 1]
        /\ nonceOf \in [Tickets -> 0 .. MaxNonce]
    BY <1>1, ConstantsAssumption DEF TypeOK
  <1>6. mined' \in [Accounts -> 0 .. MaxNonce + 1] /\ nonceOf' \in [Tickets -> 0 .. MaxNonce]
    BY <1>1, <1>2, <1>5
  <1>7. /\ request' \in [Tickets -> RequestStates]
        /\ signer' \in [Tickets -> Accounts \cup {NoKey}]
    BY <1>1, <1>2 DEF TypeOK, RequestStates
  <1>8. TypeOK'
    BY <1>1, <1>2, <1>3, <1>4, <1>6, <1>7 DEF TypeOK
  <1>9. HeldIsSender' /\ SignerIsSender'
    BY <1>1, <1>2 DEF Web3Inv, TypeOK, HeldIsSender, SignerIsSender
  <1> QED
    BY <1>8, <1>9 DEF Web3Inv

(* The node's answers leave signatures alone *)
LEMMA AnswerStep ==
    ASSUME Web3Inv, NEW t \in Tickets, Answered(t) \/ GivesUp(t)
    PROVE  Web3Inv'
  <1>1. TypeOK
    BY DEF Web3Inv
  <1>2. UNCHANGED <<queueVars, handlerVars, signer, nonceOf, wallet, pc>>
    BY DEF Answered, ReadAnswered, NodeAccepts, NodeRefuses, Mine, GivesUp
  <1>3. Q!TypeOK' /\ current' = current
    BY <1>1, <1>2, QueueSteps
  <1>4. \/ UNCHANGED <<lastNonce, ticket, watched>>
        \/ UNCHANGED lastNonce /\ watched' \subseteq watched
            /\ (UNCHANGED ticket \/ Settle(t, "resolved"))
        \/ PromiseFails(t)
    BY DEF Answered, ReadAnswered, NodeAccepts, NodeRefuses, Mine, GivesUp
  <1>5. /\ lastNonce' \in 0 .. MaxNonce /\ watched' \subseteq Tickets
        /\ ticket' \in [Tickets -> {"none", "waiting", "resolved", "rejected"}]
    BY <1>1, <1>4, SettleType, PromiseFailsType DEF TypeOK
  <1>6. /\ request' \in [Tickets -> RequestStates]
        /\ \A u \in Sends : request'[u] \in Sent => request[u] \in Sent
    BY <1>1, ConstantsAssumption
    DEF TypeOK, RequestStates, Sent, Answered, ReadAnswered, NodeAccepts, NodeRefuses, Mine, GivesUp
  <1>7. mined' \in [Accounts -> 0 .. MaxNonce + 1]
    <2>1. CASE Mine(t)
      <3>1. /\ mined' = [mined EXCEPT ![signer[t]] = @ + 1]
            /\ nonceOf[t] = mined[signer[t]] /\ nonceOf[t] \in 0 .. MaxNonce
        BY <2>1, <1>1 DEF Mine, TypeOK
      <3>2. nonceOf[t] + 1 \in 0 .. MaxNonce + 1
        BY <3>1, ConstantsAssumption
      <3>3. mined \in [Accounts -> 0 .. MaxNonce + 1]
        BY <1>1 DEF TypeOK
      <3> QED
        BY <3>1, <3>2, <3>3
    <2>2. CASE ~Mine(t)
      BY <2>2, <1>1 DEF TypeOK, Answered, ReadAnswered, NodeAccepts, NodeRefuses, GivesUp
    <2> QED
      BY <2>1, <2>2
  <1>8. TypeOK'
    BY <1>1, <1>2, <1>3, <1>5, <1>6, <1>7 DEF TypeOK, handlerVars
  <1>9. HeldIsSender' /\ SignerIsSender'
    BY <1>2, <1>3, <1>6 DEF Web3Inv, HeldIsSender, SignerIsSender, handlerVars
  <1> QED
    BY <1>8, <1>9 DEF Web3Inv

LEMMA OtherStep ==
    ASSUME Web3Inv, ChangeWallet \/ UNCHANGED vars
    PROVE  Web3Inv'
  <1>1. /\ TypeOK /\ wallet' \in Wallets
        /\ UNCHANGED <<queueVars, lastNonce, handlerVars, ticket, nodeVars, pc>>
    BY DEF Web3Inv, TypeOK, ChangeWallet, vars
  <1>2. Q!TypeOK' /\ current' = current
    BY <1>1, QueueSteps
  <1>3. TypeOK'
    BY <1>1, <1>2 DEF TypeOK, handlerVars, nodeVars
  <1>4. HeldIsSender' /\ SignerIsSender'
    BY <1>1, <1>2 DEF Web3Inv, HeldIsSender, SignerIsSender, handlerVars, nodeVars
  <1> QED
    BY <1>3, <1>4 DEF Web3Inv

-----------------------------------------------------------------------------
LEMMA InitInv == Init => Web3Inv
  <1> SUFFICES ASSUME Init PROVE Web3Inv
    OBVIOUS
  <1>1. Q!TypeOK
    BY DEF Init, Q!Init, Q!TypeOK, Q!AnswerStates
  <1>2. current = NoTicket
    BY DEF Init, Q!Init
  <1>3. TypeOK
    BY <1>1, <1>2, ConstantsAssumption DEF Init, TypeOK, RequestStates
  <1>4. HeldIsSender /\ SignerIsSender
    BY ConstantsAssumption DEF Init, HeldIsSender, SignerIsSender, Sent
  <1> QED
    BY <1>3, <1>4 DEF Web3Inv

LEMMA Inductive == Web3Inv /\ [Next]_vars => Web3Inv'
  <1> SUFFICES ASSUME Web3Inv, [Next]_vars PROVE Web3Inv'
    OBVIOUS
  <1>1. CASE \E c \in Clients : WaitForTicket(c)
    BY <1>1, WaitStep
  <1>2. CASE HandleRead
    BY <1>2, HandleReadStep
  <1>3. CASE HandlerThrows
    BY <1>3, ThrowStep
  <1>4. CASE BeginSend
    BY <1>4, BeginStep
  <1>5. CASE CountFails \/ DeviceDeclines
    BY <1>5, GiveUpStep
  <1>6. CASE CountAnswered
    BY <1>6, CountStep
  <1>7. CASE Broadcast
    BY <1>7, BroadcastStep
  <1>8. CASE DeviceSends
    BY <1>8, DeviceStep
  <1>9. CASE \E t \in Tickets : Answered(t) \/ GivesUp(t)
    BY <1>9, AnswerStep
  <1>10. CASE ChangeWallet \/ UNCHANGED vars
    BY <1>10, OtherStep
  <1> QED
    BY <1>1, <1>2, <1>3, <1>4, <1>5, <1>6, <1>7, <1>8, <1>9, <1>10 DEF Next, Handler

LEMMA Invariant == Spec => []Web3Inv
  BY InitInv, Inductive, PTL DEF Spec

(***************************************************************************)
(* Queue, handler, tickets and chain have their types, and a handler runs  *)
(* exactly while a ticket is current, for any callers, programs, wallets   *)
(* and failures; the node's pending count always exists.                   *)
(***************************************************************************)
THEOREM TypeCorrect == Spec => []TypeOK
  <1>1. Web3Inv => TypeOK
    BY DEF Web3Inv
  <1> QED
    BY <1>1, Invariant, PTL

(***************************************************************************)
(* No transaction is signed by another account than its caller named,      *)
(* however often the store's wallet is replaced between the check and the  *)
(* signature (web3-service.js 201-206 and 238).                            *)
(***************************************************************************)
THEOREM SignedBySender == Spec => []SignerIsSender
  <1>1. Web3Inv => SignerIsSender
    BY DEF Web3Inv
  <1> QED
    BY <1>1, Invariant, PTL

-----------------------------------------------------------------------------
(* Nonces.  The choice of lines 225-228 is right under three conditions,   *)
(* and each is needed: the user starts one sending caller after another    *)
(* (two counts at once may be equal), all send from one account a (two     *)
(* accounts share this.nonce), and a has sent before the app started (the  *)
(* initial this.nonce = 0 is taken for a nonce that was used).             *)
OneAtATime(a) ==
    /\ InitCount[a] > 0
    /\ \A t \in Sends : From[t] = a
    /\ \A c \in Clients \ Exclusive : \A i \in 1 .. Len(Program[c]) : Program[c][i] \notin Sends

(* A caller has pushed a prefix of its program, and all of it but the last *)
(* ticket has resolved; one exclusive caller at most is at work.           *)
CallsOK ==
    /\ \A c \in Clients :
        /\ pc[c] <= Len(Program[c])
        /\ \A i \in 1 .. Len(Program[c]) :
            /\ ticket[Program[c][i]] = "none" <=> i > pc[c]
            /\ i < pc[c] => ticket[Program[c][i]] = "resolved"
    /\ \A c, d \in Exclusive : Busy(c) /\ Busy(d) => c = d

Queued(t) == \E i \in 1 .. Len(waiting) : waiting[i] = t

NoDuplicates == \A i, j \in 1 .. Len(waiting) : waiting[i] = waiting[j] => i = j

(* What is queued or being handled has asked the node for nothing yet. *)
QueueOK ==
    /\ NoDuplicates
    /\ \A t \in Tickets : Queued(t) =>
         t # current /\ ticket[t] = "waiting" /\ request[t] = "none"
    /\ current # NoTicket => ticket[current] = "waiting" /\ request[current] = "none"

(* A transaction the node has not answered still has its caller waiting;   *)
(* one that was reported is in the pool or executed.                       *)
RequestsOK ==
    /\ \A t \in Tickets : ticket[t] = "none" => request[t] = "none"
    /\ \A t \in Tickets \ Sends : request[t] \in {"none", "asked", "answered"}
    /\ \A t \in Sends :
        /\ request[t] \notin {"asked", "answered"}
        /\ request[t] = "flying" => ticket[t] = "waiting"
        /\ ticket[t] = "resolved" => request[t] \in {"pooled", "mined", "reverted"}

TicketsOK == Web3Inv /\ CallsOK /\ QueueOK /\ RequestsOK

LEMMA TicketInProgram ==
    ASSUME NEW t \in Tickets
    PROVE  \E c \in Clients : \E i \in 1 .. Len(Program[c]) : Program[c][i] = t
  BY DEF Tickets

LEMMA ProgramTickets ==
    \A c \in Clients : /\ Len(Program[c]) \in Nat
                       /\ \A i \in 1 .. Len(Program[c]) : Program[c][i] \in Tickets
  BY ConstantsAssumption

(* Of the transactions of exclusive callers, one at most is waited for. *)
LEMMA OneWaiting ==
    ASSUME TicketsOK, NEW a, OneAtATime(a), NEW t \in Sends, NEW u \in Sends,
           ticket[t] = "waiting", ticket[u] = "waiting"
    PROVE  t = u
  <1>1. ASSUME NEW s \in Sends, ticket[s] = "waiting"
        PROVE  \E c \in Exclusive : pc[c] > 0 /\ Program[c][pc[c]] = s /\ Busy(c)
    <2>0. PICK c \in Clients : \E i \in 1 .. Len(Program[c]) : Program[c][i] = s
      BY TicketInProgram, ConstantsAssumption
    <2>1. PICK i \in 1 .. Len(Program[c]) : Program[c][i] = s
      BY <2>0
    <2>2. c \in Exclusive
      BY <2>1 DEF OneAtATime
    <2>3. i = pc[c] /\ pc[c] > 0
      <3>1. pc[c] \in Nat
        BY <2>1 DEF TicketsOK, Web3Inv, TypeOK
      <3> QED
        BY <1>1, <2>1, <3>1 DEF TicketsOK, CallsOK
    <2> QED
      BY <1>1, <2>1, <2>2, <2>3 DEF Busy
  <1>2. PICK c \in Exclusive : Program[c][pc[c]] = t /\ Busy(c)
    BY <1>1
  <1>3. PICK d \in Exclusive : Program[d][pc[d]] = u /\ Busy(d)
    BY <1>1
  <1> QED
    BY <1>2, <1>3 DEF TicketsOK, CallsOK

(* What every step but WaitForTicket does to the tickets: some settle. *)
Settling ==
    /\ UNCHANGED pc
    /\ \A t \in Tickets : \/ ticket'[t] = ticket[t]
                          \/ ticket[t] = "waiting" /\ ticket'[t] \in {"resolved", "rejected"}

LEMMA SettleSettles ==
    ASSUME Web3Inv, NEW t \in Tickets, NEW r \in {"resolved", "rejected"}, Settle(t, r), UNCHANGED pc
    PROVE  /\ Settling /\ \A u \in Tickets : u # t => ticket'[u] = ticket[u]
           /\ ticket'[t] # "waiting" /\ (ticket[t] = "waiting" => ticket'[t] = r)
  <1>1. ticket \in [Tickets -> {"none", "waiting", "resolved", "rejected"}]
    BY DEF Web3Inv, TypeOK
  <1>2. ticket'[t] = IF ticket[t] = "waiting" THEN r ELSE ticket[t]
    BY <1>1 DEF Settle
  <1>3. \A u \in Tickets : u # t => ticket'[u] = ticket[u]
    BY <1>1 DEF Settle
  <1>4. /\ \/ ticket'[t] = ticket[t]
           \/ ticket[t] = "waiting" /\ ticket'[t] \in {"resolved", "rejected"}
        /\ ticket'[t] # "waiting" /\ (ticket[t] = "waiting" => ticket'[t] = r)
    BY <1>2
  <1>5. Settling
    BY <1>3, <1>4 DEF Settling
  <1> QED
    BY <1>3, <1>4, <1>5

LEMMA CallsKept == ASSUME Web3Inv, CallsOK, Settling PROVE CallsOK'
  <1>1. \A c \in Clients : pc[c] \in Nat /\ pc[c] <= Len(Program[c])
    BY DEF Web3Inv, TypeOK, CallsOK
  <1>2. \A c \in Exclusive : Busy(c)' => Busy(c)
    <2> SUFFICES ASSUME NEW c \in Exclusive, Busy(c)' PROVE Busy(c)
      OBVIOUS
    <2>1. pc'[c] = pc[c] /\ pc[c] > 0 /\ pc[c] \in 1 .. Len(Program[c])
      BY <1>1, ConstantsAssumption DEF Busy, Settling
    <2>2. Program[c][pc[c]] \in Tickets
      BY <2>1, ProgramTickets, ConstantsAssumption
    <2>3. \/ ticket'[Program[c][pc[c]]] = ticket[Program[c][pc[c]]]
          \/ ticket[Program[c][pc[c]]] = "waiting"
      BY <2>2 DEF Settling
    <2> QED
      BY <2>1, <2>3 DEF Busy, Settling
  <1>3. \A c, d \in Exclusive : Busy(c)' /\ Busy(d)' => c = d
    BY <1>2 DEF CallsOK
  <1>4. ASSUME NEW c \in Clients, NEW i \in 1 .. Len(Program[c])
        PROVE  /\ ticket'[Program[c][i]] = "none" <=> i > pc'[c]
               /\ i < pc'[c] => ticket'[Program[c][i]] = "resolved"
    <2>1. /\ ticket[Program[c][i]] = "none" <=> i > pc[c]
          /\ i < pc[c] => ticket[Program[c][i]] = "resolved"
      BY DEF CallsOK
    <2> QED
      BY <2>1, ProgramTickets DEF Settling
  <1> QED
    BY <1>1, <1>3, <1>4 DEF CallsOK, Settling

(* The queue's steps, in terms of what is in it *)
LEMMA QueueContents ==
    ASSUME Web3Inv, NoDuplicates
    PROVE  /\ \A t \in Tickets : Q!Submit(t) /\ ~Queued(t) =>
                NoDuplicates' /\ \A u \in Tickets : Queued(u)' => Queued(u) \/ u = t
           /\ waiting # << >> /\ waiting' = Tail(waiting) =>
                /\ Queued(Head(waiting)) /\ NoDuplicates'
                /\ \A u \in Tickets : Queued(u)' => Queued(u) /\ u # Head(waiting)
           /\ waiting' = waiting => NoDuplicates' /\ \A u \in Tickets : Queued(u)' => Queued(u)
  <1>1. waiting \in Seq(Tickets) /\ Len(waiting) \in Nat
    BY DEF Web3Inv, TypeOK, Q!TypeOK
  <1>2. ASSUME NEW t \in Tickets, Q!Submit(t), ~Queued(t)
        PROVE  NoDuplicates' /\ \A u \in Tickets : Queued(u)' => Queued(u) \/ u = t
    <2>1. /\ waiting' = Append(waiting, t) /\ Len(waiting') = Len(waiting) + 1
          /\ waiting'[Len(waiting) + 1] = t
          /\ \A i \in 1 .. Len(waiting) : waiting'[i] = waiting[i] /\ waiting[i] # t
      BY <1>1, <1>2 DEF Q!Submit, Queued
    <2> QED
      BY <1>1, <2>1 DEF NoDuplicates, Queued
  <1>3. ASSUME waiting # << >>, waiting' = Tail(waiting)
        PROVE  /\ Queued(Head(waiting)) /\ NoDuplicates'
               /\ \A u \in Tickets : Queued(u)' => Queued(u) /\ u # Head(waiting)
    <2>1. /\ Len(waiting) > 0 /\ Len(waiting') = Len(waiting) - 1 /\ Head(waiting) = waiting[1]
          /\ \A i \in 1 .. Len(waiting') : waiting'[i] = waiting[i + 1]
      BY <1>1, <1>3
    <2> QED
      BY <1>1, <2>1 DEF NoDuplicates, Queued
  <1>4. ASSUME waiting' = waiting
        PROVE  NoDuplicates' /\ \A u \in Tickets : Queued(u)' => Queued(u)
    BY <1>4 DEF NoDuplicates, Queued
  <1> QED
    BY <1>2, <1>3, <1>4

(* A caller pushes a ticket of its own: nobody has pushed it before. *)
LEMMA WaitTickets == ASSUME TicketsOK, NEW c \in Clients, WaitForTicket(c)
                     PROVE  CallsOK' /\ QueueOK' /\ RequestsOK'
  <1> DEFINE k == pc[c] + 1
             t == Program[c][k]
  <1>1. /\ pc[c] \in Nat /\ k \in 1 .. Len(Program[c]) /\ t \in Tickets
        /\ ticket[t] = "none" /\ request[t] = "none"
    <2>1. pc[c] \in Nat /\ k \in 1 .. Len(Program[c])
      BY ProgramTickets DEF TicketsOK, Web3Inv, TypeOK, WaitForTicket
    <2> QED
      BY <2>1, ProgramTickets DEF TicketsOK, CallsOK, RequestsOK
  <1>2. /\ Q!Submit(t) /\ ticket' = [ticket EXCEPT ![t] = "waiting"]
        /\ pc' = [pc EXCEPT ![c] = @ + 1]
        /\ UNCHANGED <<lastNonce, handlerVars, nodeVars, wallet>>
    BY DEF WaitForTicket
  <1>3. \A d \in Clients : \A i \in 1 .. Len(Program[d]) : Program[d][i] = t => d = c /\ i = k
    BY <1>1, ConstantsAssumption
  <1>4. /\ k = 1 => (c \in Exclusive => \A d \in Exclusive : ~Busy(d))
        /\ k > 1 => ticket[Program[c][k - 1]] = "resolved"
    BY <1>1 DEF WaitForTicket
  <1> HIDE DEF t
  <1>5. /\ ticket'[t] = "waiting" /\ \A u \in Tickets : u # t => ticket'[u] = ticket[u]
        /\ pc'[c] = k /\ \A d \in Clients : d # c => pc'[d] = pc[d]
    BY <1>1, <1>2 DEF TicketsOK, Web3Inv, TypeOK
  <1>6. ASSUME NEW d \in Clients, d # c, NEW i \in 1 .. Len(Program[d])
        PROVE  /\ pc'[d] = pc[d] /\ ticket'[Program[d][i]] = ticket[Program[d][i]]
    BY <1>3, <1>5, <1>6, ProgramTickets
  <1>7. ASSUME NEW i \in 1 .. Len(Program[c])
        PROVE  /\ ticket'[Program[c][i]] = "none" <=> i > k
               /\ i < k => ticket'[Program[c][i]] = "resolved"
    <2>1. i # k => ticket'[Program[c][i]] = ticket[Program[c][i]]
      BY <1>3, <1>5, ProgramTickets
    <2>2. Program[c][k] = t
      BY DEF t
    <2> QED
      BY <1>1, <1>4, <1>5, <2>1, <2>2 DEF TicketsOK, CallsOK
  <1>8. ASSUME NEW d \in Clients, d # c, Busy(d)'
        PROVE  Busy(d)
    <2>1. pc[d] \in 1 .. Len(Program[d])
      BY <1>5, <1>8 DEF Busy, TicketsOK, Web3Inv, TypeOK, CallsOK
    <2> QED
      BY <1>6, <1>8, <2>1 DEF Busy
  <1>9. \A d, e \in Exclusive : Busy(d)' /\ Busy(e)' => d = e
    <2>1. CASE c \in Exclusive
      <3>1. k > 1 => Busy(c)
        BY <1>1, <1>4 DEF Busy
      <3>2. \A d \in Exclusive : d # c => ~Busy(d)
        BY <1>1, <1>4, <2>1, <3>1 DEF TicketsOK, CallsOK
      <3> QED
        BY <1>8, <3>2, ConstantsAssumption
    <2>2. CASE c \notin Exclusive
      BY <1>8, <2>2, ConstantsAssumption DEF TicketsOK, CallsOK
    <2> QED
      BY <2>1, <2>2
  <1>10. CallsOK'
    <2>1. ASSUME NEW d \in Clients
          PROVE  /\ pc'[d] <= Len(Program[d])
                 /\ \A i \in 1 .. Len(Program[d]) :
                      /\ ticket'[Program[d][i]] = "none" <=> i > pc'[d]
                      /\ i < pc'[d] => ticket'[Program[d][i]] = "resolved"
      <3>1. CASE d = c
        BY <1>1, <1>5, <1>7, <3>1
      <3>2. CASE d # c
        BY <1>5, <1>6, <3>2 DEF TicketsOK, CallsOK
      <3> QED
        BY <3>1, <3>2
    <2> QED
      BY <1>9, <2>1 DEF CallsOK
  <1>11. QueueOK'
    <2>1. ~Queued(t) /\ t # current /\ current' = current /\ request' = request
      BY <1>1, <1>2, ConstantsAssumption DEF TicketsOK, QueueOK, Q!Submit, nodeVars
    <2>2. NoDuplicates' /\ \A u \in Tickets : Queued(u)' => Queued(u) \/ u = t
      BY <1>1, <1>2, <2>1, QueueContents DEF TicketsOK, QueueOK
    <2>3. current # NoTicket => current \in Tickets
      BY DEF TicketsOK, Web3Inv, TypeOK, Q!TypeOK
    <2> QED
      BY <1>1, <1>5, <2>1, <2>2, <2>3 DEF TicketsOK, QueueOK
  <1>12. RequestsOK'
    BY <1>1, <1>2, <1>5, ConstantsAssumption DEF TicketsOK, RequestsOK, nodeVars
  <1> QED
    BY <1>10, <1>11, <1>12

LEMMA HeadIsUnasked ==
    ASSUME TicketsOK, waiting # << >>
    PROVE  /\ Head(waiting) \in Tickets /\ Head(waiting) # NoTicket
           /\ ticket[Head(waiting)] = "waiting" /\ request[Head(waiting)] = "none"
  <1>1. TypeOK /\ waiting \in Seq(Tickets)
    BY DEF TicketsOK, Web3Inv, TypeOK, Q!TypeOK
  <1>2. Queued(Head(waiting))
    BY <1>1 DEF Queued
  <1> QED
    BY <1>1, <1>2, HeadIsTicket DEF TicketsOK, QueueOK

(* The handler takes a ticket: a read request is asked for, a send throws  *)
(* or becomes current.                                                     *)
LEMMA TakeTickets ==
    ASSUME TicketsOK, HandleRead \/ HandlerThrows \/ BeginSend
    PROVE  Settling /\ QueueOK' /\ RequestsOK'
  <1> DEFINE h == Head(waiting)
  <1>1. /\ waiting # << >> /\ waiting' = Tail(waiting) /\ current = NoTicket
        /\ pc' = pc
    BY DEF HandleRead, HandlerThrows, BeginSend, Q!Serve, Q!Begin
  <1>2. /\ h \in Tickets /\ h # NoTicket /\ ticket[h] = "waiting" /\ request[h] = "none"
        /\ Web3Inv /\ ticket \in [Tickets -> {"none", "waiting", "resolved", "rejected"}]
        /\ request \in [Tickets -> RequestStates]
    BY <1>1, HeadIsUnasked DEF TicketsOK, Web3Inv, TypeOK
  <1>3. NoDuplicates' /\ \A u \in Tickets : Queued(u)' => Queued(u) /\ u # h
    BY <1>1, QueueContents DEF TicketsOK, QueueOK
  <1> HIDE DEF h
  <1>4. CASE HandleRead
    <2>1. /\ ticket' = ticket /\ request' = [request EXCEPT ![h] = "asked"]
          /\ current' = NoTicket /\ h \notin Sends
      BY <1>1, <1>4 DEF HandleRead, Q!Serve, h
    <2>2. Settling
      BY <1>1, <2>1 DEF Settling
    <2>3. QueueOK'
      BY <1>2, <1>3, <2>1, ConstantsAssumption DEF TicketsOK, QueueOK
    <2>4. RequestsOK'
      BY <1>2, <2>1, ConstantsAssumption DEF TicketsOK, RequestsOK
    <2> QED
      BY <2>2, <2>3, <2>4
  <1>5. CASE HandlerThrows
    <2>1. Settle(h, "rejected") /\ request' = request /\ current' = NoTicket
      BY <1>1, <1>5 DEF HandlerThrows, Q!Serve, nodeVars, h
    <2>2. /\ Settling /\ \A u \in Tickets : u # h => ticket'[u] = ticket[u]
          /\ ticket'[h] = "rejected"
      BY <1>1, <1>2, <2>1, SettleSettles
    <2>3. QueueOK'
      BY <1>2, <1>3, <2>1, <2>2, ConstantsAssumption DEF TicketsOK, QueueOK
    <2>4. RequestsOK'
      BY <1>2, <2>1, <2>2, ConstantsAssumption DEF TicketsOK, RequestsOK
    <2> QED
      BY <2>2, <2>3, <2>4
  <1>6. CASE BeginSend
    <2>1. ticket' = ticket /\ request' = request /\ current' = h
      BY <1>6 DEF BeginSend, Q!Begin, nodeVars, h
    <2>2. Settling
      BY <1>1, <2>1 DEF Settling
    <2>3. QueueOK'
      BY <1>2, <1>3, <2>1 DEF TicketsOK, QueueOK
    <2>4. RequestsOK'
      BY <2>1 DEF TicketsOK, RequestsOK
    <2> QED
      BY <2>2, <2>3, <2>4
  <1> QED
    BY <1>4, <1>5, <1>6

LEMMA FinishTickets ==
    ASSUME TicketsOK, CountFails \/ DeviceDeclines \/ Broadcast \/ DeviceSends
    PROVE  Settling /\ QueueOK' /\ RequestsOK'
  <1>1. /\ waiting' = waiting /\ current # NoTicket /\ current' = NoTicket /\ pc' = pc
    BY DEF CountFails, DeviceDeclines, Broadcast, DeviceSends, Q!Finish
  <1>2. PICK t \in Sends : t = current /\ t \in Tickets
    BY ConstantsAssumption
    DEF TicketsOK, Web3Inv, TypeOK, HeldIsSender, CountFails, DeviceDeclines, Broadcast, DeviceSends
  <1>3. /\ ticket[t] = "waiting" /\ request[t] = "none" /\ ~Queued(t)
        /\ Web3Inv /\ ticket \in [Tickets -> {"none", "waiting", "resolved", "rejected"}]
        /\ request \in [Tickets -> RequestStates]
    BY <1>1, <1>2 DEF TicketsOK, Web3Inv, TypeOK, QueueOK
  <1>4. NoDuplicates' /\ \A u \in Tickets : Queued(u)' => Queued(u) /\ u # t
    BY <1>1, <1>3, QueueContents DEF TicketsOK, QueueOK
  <1>5. /\ Settling /\ \A u \in Tickets : u # t => ticket'[u] = ticket[u] /\ request'[u] = request[u]
        /\ \/ ticket'[t] = "waiting" /\ request'[t] = "flying"
           \/ ticket'[t] = "rejected" /\ request'[t] \in {"none", "mined"}
    <2>1. CASE Broadcast
      <3>1. ticket' = ticket /\ request' = [request EXCEPT ![t] = "flying"]
        BY <1>2, <2>1 DEF Broadcast
      <3>2. Settling
        BY <1>1, <3>1 DEF Settling
      <3> QED
        BY <1>2, <1>3, <3>1, <3>2
    <2>2. CASE CountFails \/ DeviceDeclines
      <3>1. Settle(t, "rejected") /\ request' = request
        BY <1>2, <2>2 DEF CountFails, DeviceDeclines, nodeVars
      <3> QED
        BY <1>1, <1>2, <1>3, <3>1, SettleSettles
    <2>3. CASE DeviceSends
      <3>1. Settle(t, "rejected") /\ request' = [request EXCEPT ![t] = "mined"]
        BY <1>2, <2>3 DEF DeviceSends
      <3> QED
        BY <1>1, <1>2, <1>3, <3>1, SettleSettles
    <2> QED
      BY <2>1, <2>2, <2>3
  <1>6. QueueOK'
    BY <1>1, <1>4, <1>5, ConstantsAssumption DEF TicketsOK, QueueOK
  <1>7. RequestsOK'
    BY <1>2, <1>5, ConstantsAssumption DEF TicketsOK, RequestsOK
  <1> QED
    BY <1>5, <1>6, <1>7

LEMMA AnswerTickets ==
    ASSUME TicketsOK, NEW t \in Tickets, Answered(t) \/ GivesUp(t)
    PROVE  Settling /\ QueueOK' /\ RequestsOK'
  <1>1. UNCHANGED <<waiting, current, pc>> /\ request[t] # "none"
    BY DEF Answered, ReadAnswered, NodeAccepts, NodeRefuses, Mine, GivesUp, queueVars
  <1>2. ~Queued(t) /\ t # current /\ Web3Inv
    BY <1>1, ConstantsAssumption DEF TicketsOK, QueueOK
  <1>3. Settling /\ \A u \in Tickets : u # t => ticket'[u] = ticket[u]
    <2>1. ticket' = ticket \/ Settle(t, "resolved") \/ Settle(t, "rejected")
      BY DEF Answered, ReadAnswered, NodeAccepts, NodeRefuses, Mine, GivesUp, PromiseFails
    <2> QED
      BY <1>1, <1>2, <2>1, SettleSettles DEF Settling
  <1>4. /\ request \in [Tickets -> RequestStates]
        /\ \A u \in Tickets : u # t => request'[u] = request[u]
    BY DEF TicketsOK, Web3Inv, TypeOK, Answered, ReadAnswered, NodeAccepts, NodeRefuses, Mine, GivesUp
  <1>5. QueueOK'
    <2>1. NoDuplicates' /\ \A u \in Tickets : Queued(u)' => Queued(u) /\ u # t
      BY <1>1, <1>2, QueueContents DEF TicketsOK, QueueOK
    <2>2. current # NoTicket => current \in Tickets
      BY DEF TicketsOK, Web3Inv, TypeOK, Q!TypeOK
    <2> QED
      BY <1>1, <1>2, <1>3, <1>4, <2>1, <2>2 DEF TicketsOK, QueueOK
  <1>6. RequestsOK'
    <2>1. CASE ReadAnswered(t)
      <3>1. request'[t] = "answered" /\ t \notin Sends /\ ticket'[t] # "none"
        BY <1>3, <1>4, <2>1, ConstantsAssumption DEF ReadAnswered, TicketsOK, RequestsOK, Settling
      <3> QED
        BY <1>3, <1>4, <3>1, ConstantsAssumption DEF TicketsOK, RequestsOK
    <2>2. CASE NodeAccepts(t)
      <3>1. request'[t] = "pooled" /\ t \in Sends /\ ticket'[t] # "none"
        BY <1>3, <1>4, <2>2, ConstantsAssumption DEF NodeAccepts, TicketsOK, RequestsOK, Settling
      <3> QED
        BY <1>3, <1>4, <3>1, ConstantsAssumption DEF TicketsOK, RequestsOK
    <2>3. CASE NodeRefuses(t)
      <3>1. request'[t] = "refused" /\ t \in Sends /\ ticket[t] = "waiting"
        BY <1>4, <2>3, ConstantsAssumption DEF NodeRefuses, TicketsOK, RequestsOK
      <3>2. ticket'[t] = "rejected"
        BY <1>1, <1>2, <2>3, <3>1, SettleSettles DEF NodeRefuses, PromiseFails
      <3> QED
        BY <1>3, <1>4, <3>1, <3>2, ConstantsAssumption DEF TicketsOK, RequestsOK
    <2>4. CASE Mine(t) \/ GivesUp(t)
      <3>1. request'[t] \in {"pooled", "mined", "reverted"} /\ t \in Sends /\ ticket'[t] # "none"
        BY <1>3, <1>4, <2>4, ConstantsAssumption DEF Mine, GivesUp, TicketsOK, RequestsOK, Settling
      <3> QED
        BY <1>3, <1>4, <3>1, ConstantsAssumption DEF TicketsOK, RequestsOK
    <2> QED
      BY <2>1, <2>2, <2>3, <2>4 DEF Answered
  <1> QED
    BY <1>3, <1>5, <1>6

LEMMA OtherTickets ==
    ASSUME TicketsOK, CountAnswered \/ ChangeWallet \/ UNCHANGED vars
    PROVE  Settling /\ QueueOK' /\ RequestsOK'
  <1>1. UNCHANGED <<waiting, current, ticket, request, pc>>
    BY DEF CountAnswered, ChangeWallet, vars, queueVars, nodeVars
  <1>2. Settling
    BY <1>1 DEF Settling
  <1>3. QueueOK'
    BY <1>1, QueueContents DEF TicketsOK, QueueOK
  <1>4. RequestsOK'
    BY <1>1 DEF TicketsOK, RequestsOK
  <1> QED
    BY <1>2, <1>3, <1>4

LEMMA TicketsStep == ASSUME TicketsOK, [Next]_vars PROVE TicketsOK'
  <1>1. Web3Inv'
    BY Inductive DEF TicketsOK
  <1>2. \/ Settling /\ QueueOK' /\ RequestsOK'
        \/ CallsOK' /\ QueueOK' /\ RequestsOK'
    BY WaitTickets, TakeTickets, FinishTickets, AnswerTickets, OtherTickets DEF Next, Handler
  <1> QED
    BY <1>1, <1>2, CallsKept DEF TicketsOK

LEMMA TicketsInit == ASSUME Init PROVE TicketsOK
  <1>1. Web3Inv
    BY InitInv
  <1>2. waiting = << >> /\ current = NoTicket
    BY DEF Init, Q!Init
  <1>3. QueueOK
    BY <1>2 DEF QueueOK, NoDuplicates, Queued
  <1>4. RequestsOK
    BY ConstantsAssumption DEF Init, RequestsOK
  <1>5. CallsOK
    BY ProgramTickets, ConstantsAssumption DEF Init, CallsOK, Busy
  <1> QED
    BY <1>1, <1>3, <1>4, <1>5 DEF TicketsOK

-----------------------------------------------------------------------------
(* The nonces of a, while TicketsOK says that one transaction at most is   *)
(* between its call and the node's answer *)

InPool(t) == request[t] = "pooled"

(* n is the node's pending count *)
Frontier(a, n) ==
    /\ n >= mined[a]
    /\ \A t \in Sends : InPool(t) => nonceOf[t] # n
    /\ \A m \in mined[a] .. n - 1 : \E t \in Sends : InPool(t) /\ nonceOf[t] = m

(* What is executed is behind the count, what is in the pool follows it    *)
(* without a gap, and what is on its way to the node comes next.           *)
PoolOK(a) ==
    \A t \in Sends :
        /\ request[t] \in Executed => nonceOf[t] < mined[a]
        /\ InPool(t) =>
             /\ nonceOf[t] >= mined[a]
             /\ \A m \in mined[a] .. nonceOf[t] - 1 : \E u \in Sends : InPool(u) /\ nonceOf[u] = m
        /\ request[t] = "flying" => Frontier(a, nonceOf[t])

Distinct ==
    \A t, u \in Sends :
        t # u /\ request[t] \in Sent /\ request[u] \in Sent => nonceOf[t] # nonceOf[u]

(* The count a handler has read is still true when it signs, and           *)
(* this.nonce equals it only if it was used.                               *)
ChoiceOK(a) ==
    /\ mined[a] > 0
    /\ stage = "sign" => Frontier(a, seen)
    /\ lastNonce >= mined[a] =>
         \E t \in Sends : request[t] \in {"flying", "pooled"} /\ nonceOf[t] = lastNonce

(* Later transactions of a caller have larger nonces. *)
OrderOK ==
    \A c \in Clients : \A i, j \in 1 .. Len(Program[c]) :
        LET t == Program[c][i]
            u == Program[c][j]
        IN  i < j /\ {t, u} \subseteq Sends /\ request[u] \in Sent => nonceOf[t] < nonceOf[u]

NoncesOK(a) == PoolOK(a) /\ Distinct /\ ChoiceOK(a) /\ OrderOK

LEMMA NonceTypes ==
    ASSUME TicketsOK, NEW a \in Accounts
    PROVE  /\ mined[a] \in Nat /\ lastNonce \in Nat /\ seen \in Nat /\ MaxNonce \in Nat
           /\ \A t \in Tickets : nonceOf[t] \in Nat
  BY ConstantsAssumption DEF TicketsOK, Web3Inv, TypeOK

LEMMA PooledOfSender ==
    ASSUME TicketsOK, NEW a \in Accounts, OneAtATime(a)
    PROVE  /\ \A t \in Tickets : t \in Pooled(a) <=> t \in Sends /\ InPool(t)
           /\ \A t \in Sends : request[t] \in Sent => signer[t] = a
  <1>1. \A t \in Sends : request[t] \in Sent => signer[t] = a
    BY DEF TicketsOK, Web3Inv, SignerIsSender, OneAtATime
  <1>2. \A t \in Tickets : InPool(t) => t \in Sends
    BY DEF TicketsOK, RequestsOK, InPool
  <1> QED
    BY <1>1, <1>2, ConstantsAssumption DEF Pooled, InPool, Sent

(* Everything that was taken by the node lies below the frontier. *)
LEMMA BelowFrontier ==
    ASSUME TicketsOK, NEW a \in Accounts, PoolOK(a), NEW n \in Nat, Frontier(a, n),
           NEW t \in Sends, request[t] \in {"pooled", "mined", "reverted"}
    PROVE  nonceOf[t] < n
  <1>1. mined[a] \in Nat /\ nonceOf[t] \in Nat
    BY NonceTypes, ConstantsAssumption
  <1>2. CASE InPool(t)
    <2>1. ~(n \in mined[a] .. nonceOf[t] - 1)
      BY <1>2 DEF PoolOK, Frontier
    <2> QED
      BY <1>1, <1>2, <2>1 DEF PoolOK, Frontier
  <1>3. CASE ~InPool(t)
    BY <1>1, <1>3 DEF PoolOK, Frontier, InPool, Executed
  <1> QED
    BY <1>2, <1>3

(* A step that signs nothing and leaves the pool alone; a transaction may  *)
(* be refused, and this.nonce may be reset.                                *)
Quiet ==
    /\ UNCHANGED <<mined, nonceOf>>
    /\ \A t \in Sends : \/ request'[t] = request[t]
                        \/ request[t] = "flying" /\ request'[t] = "refused" /\ lastNonce' = 0
    /\ lastNonce' \in {lastNonce, 0}
    /\ stage' = "sign" => stage = "sign" /\ seen' = seen

LEMMA QuietKeeps ==
    ASSUME TicketsOK, NEW a \in Accounts, NoncesOK(a), Quiet
    PROVE  NoncesOK(a)'
  <1>1. /\ \A t \in Sends : InPool(t)' <=> InPool(t)
        /\ \A t \in Sends : request'[t] \in Sent => request[t] = request'[t]
    BY DEF Quiet, InPool, Sent
  <1>2. \A n : Frontier(a, n) => Frontier(a, n)'
    BY <1>1 DEF Quiet, Frontier
  <1>3. PoolOK(a)'
    BY <1>1, <1>2 DEF NoncesOK, PoolOK, Quiet, Sent, Executed
  <1>4. Distinct' /\ OrderOK'
    BY <1>1, ProgramTickets DEF NoncesOK, Distinct, OrderOK, Quiet
  <1>5. ChoiceOK(a)'
    <2>1. lastNonce' >= mined[a] => lastNonce' = lastNonce /\ \A t \in Sends : request'[t] = request[t]
      BY NonceTypes DEF NoncesOK, ChoiceOK, Quiet
    <2> QED
      BY <1>2, <2>1 DEF NoncesOK, ChoiceOK, Quiet
  <1> QED
    BY <1>3, <1>4, <1>5 DEF NoncesOK

LEMMA QuietSteps ==
    ASSUME TicketsOK,
           \/ \E c \in Clients : WaitForTicket(c)
           \/ HandleRead \/ HandlerThrows \/ BeginSend \/ CountFails \/ DeviceDeclines
           \/ \E t \in Tickets : ReadAnswered(t) \/ NodeRefuses(t) \/ GivesUp(t)
           \/ ChangeWallet \/ UNCHANGED vars
    PROVE  Quiet
  <1>1. CASE \/ \E c \in Clients : WaitForTicket(c)
             \/ HandlerThrows \/ BeginSend \/ CountFails \/ DeviceDeclines
             \/ ChangeWallet \/ UNCHANGED vars
    BY <1>1
    DEF Quiet, WaitForTicket, HandlerThrows, BeginSend, CountFails, DeviceDeclines,
        ChangeWallet, vars, nodeVars, handlerVars
  <1>2. CASE HandleRead
    BY <1>2, ConstantsAssumption DEF Quiet, HandleRead, handlerVars, TicketsOK, Web3Inv, TypeOK
  <1>3. ASSUME NEW t \in Tickets, ReadAnswered(t)
        PROVE  Quiet
    <2>1. /\ UNCHANGED <<mined, nonceOf, handlerVars>> /\ lastNonce' \in {lastNonce, 0}
          /\ request' = [request EXCEPT ![t] = "answered"] /\ t \notin Sends
      BY <1>3, ConstantsAssumption DEF ReadAnswered, PromiseFails, TicketsOK, RequestsOK
    <2> QED
      BY <2>1, ConstantsAssumption DEF Quiet, handlerVars, TicketsOK, Web3Inv, TypeOK
  <1>4. ASSUME NEW t \in Tickets, NodeRefuses(t)
        PROVE  Quiet
    <2>1. /\ UNCHANGED <<mined, nonceOf, handlerVars>> /\ lastNonce' = 0
          /\ request' = [request EXCEPT ![t] = "refused"] /\ request[t] = "flying"
      BY <1>4 DEF NodeRefuses, PromiseFails
    <2> QED
      BY <2>1, ConstantsAssumption DEF Quiet, handlerVars, TicketsOK, Web3Inv, TypeOK
  <1>5. ASSUME NEW t \in Tickets, GivesUp(t)
        PROVE  Quiet
    BY <1>5 DEF GivesUp, PromiseFails, Quiet, handlerVars
  <1> QED
    BY <1>1, <1>2, <1>3, <1>4, <1>5

LEMMA CountNonces ==
    ASSUME TicketsOK, NEW a \in Accounts, OneAtATime(a), NoncesOK(a), CountAnswered
    PROVE  NoncesOK(a)'
  <1>1. /\ stage = "count" /\ seen' = PendingCount(a) /\ TypeOK
        /\ UNCHANGED <<request, nonceOf, mined, lastNonce>>
    BY DEF CountAnswered, TicketsOK, Web3Inv, HeldIsSender, OneAtATime, nodeVars
  <1>2. Frontier(a, PendingCount(a))
    <2>1. /\ mined[a] \in Nat /\ MaxNonce \in Nat
          /\ \A t \in Sends : t \in Pooled(a) <=> InPool(t)
          /\ \A t \in Pooled(a) : t \in Sends
      BY PooledOfSender, NonceTypes, ConstantsAssumption DEF Pooled
    <2> QED
      BY <1>1, <2>1, PendingCountIs DEF Frontier
  <1>3. Frontier(a, seen)'
    BY <1>1, <1>2 DEF Frontier, InPool
  <1>4. PoolOK(a)' /\ Distinct' /\ OrderOK'
    BY <1>1 DEF NoncesOK, PoolOK, Distinct, OrderOK, Frontier, InPool
  <1>5. ChoiceOK(a)'
    BY <1>1, <1>3 DEF NoncesOK, ChoiceOK
  <1> QED
    BY <1>4, <1>5 DEF NoncesOK

(* While a send is the current ticket no other one is on its way. *)
LEMMA NothingFlies ==
    ASSUME TicketsOK, NEW a \in Accounts, OneAtATime(a), NEW s \in Sends, ticket[s] = "waiting",
           request[s] = "none"
    PROVE  \A t \in Sends : request[t] # "flying"
  BY OneWaiting DEF TicketsOK, RequestsOK

(* The send at hand signs with the frontier n: its nonce is new, and no    *)
(* earlier call of its caller has a larger one. *)
LEMMA NewNonce ==
    ASSUME TicketsOK, NEW a \in Accounts, OneAtATime(a), NoncesOK(a),
           NEW s \in Sends, ticket[s] = "waiting", request[s] = "none",
           NEW n \in Nat, Frontier(a, n),
           request'[s] \in Sent, nonceOf'[s] = n,
           \A t \in Tickets : t # s => request'[t] = request[t] /\ nonceOf'[t] = nonceOf[t]
    PROVE  Distinct' /\ OrderOK'
  <1>1. \A t \in Sends : request[t] \in Sent => nonceOf[t] < n /\ nonceOf[t] \in Nat
    BY NothingFlies, BelowFrontier, NonceTypes, ConstantsAssumption DEF NoncesOK, Sent
  <1>2. Distinct'
    BY <1>1, ConstantsAssumption DEF NoncesOK, Distinct
  <1>3. ASSUME NEW c \in Clients, NEW i \in 1 .. Len(Program[c]), NEW j \in 1 .. Len(Program[c]),
               i < j, Program[c][i] \in Sends, Program[c][j] \in Sends,
               request'[Program[c][j]] \in Sent
        PROVE  nonceOf'[Program[c][i]] < nonceOf'[Program[c][j]]
    <2> DEFINE t == Program[c][i]
               u == Program[c][j]
    <2>1. t \in Tickets /\ u \in Tickets /\ t # u /\ pc[c] \in Nat
      BY <1>3, ProgramTickets, ConstantsAssumption DEF TicketsOK, Web3Inv, TypeOK
    <2>2. ticket[u] # "none"
      BY <1>3, <2>1 DEF TicketsOK, RequestsOK, Sent
    <2>3. ticket[t] = "resolved"
      BY <1>3, <2>1, <2>2 DEF TicketsOK, CallsOK
    <2>4. request[t] \in Sent /\ t # s
      BY <1>3, <2>3 DEF TicketsOK, RequestsOK, Sent
    <2>5. CASE u = s
      BY <1>1, <1>3, <2>1, <2>4, <2>5
    <2>6. CASE u # s
      BY <1>3, <2>1, <2>4, <2>6 DEF NoncesOK, OrderOK
    <2> QED
      BY <2>5, <2>6
  <1> QED
    BY <1>2, <1>3 DEF OrderOK

LEMMA FrontierKept ==
    ASSUME NEW a, mined'[a] = mined[a], NEW n, Frontier(a, n),
           \A t \in Sends : (InPool(t)' <=> InPool(t)) /\ (InPool(t) => nonceOf'[t] = nonceOf[t])
    PROVE  Frontier(a, n)'
  BY DEF Frontier

LEMMA BroadcastNonces ==
    ASSUME TicketsOK, NEW a \in Accounts, OneAtATime(a), NoncesOK(a), Broadcast
    PROVE  NoncesOK(a)'
  <1>1. /\ stage = "sign" /\ stage' = "none" /\ mined' = mined /\ lastNonce' = ChosenNonce
        /\ nonceOf' = [nonceOf EXCEPT ![current] = ChosenNonce]
        /\ request' = [request EXCEPT ![current] = "flying"]
        /\ nonceOf \in [Tickets -> 0 .. MaxNonce] /\ request \in [Tickets -> RequestStates]
    BY DEF Broadcast, TicketsOK, Web3Inv, TypeOK
  <1>2. PICK s \in Sends : s = current /\ s \in Tickets /\ ticket[s] = "waiting" /\ request[s] = "none"
    BY <1>1, ConstantsAssumption DEF TicketsOK, Web3Inv, HeldIsSender, QueueOK
  <1>3. \A t \in Sends : request[t] # "flying"
    BY <1>2, NothingFlies
  <1>4. PICK n \in Nat : n = seen /\ n = ChosenNonce /\ Frontier(a, n)
    BY <1>1, <1>3, NonceTypes DEF NoncesOK, ChoiceOK, Frontier, InPool, ChosenNonce
  <1> HIDE DEF ChosenNonce
  <1>5. /\ request'[s] = "flying" /\ nonceOf'[s] = n /\ lastNonce' = n
        /\ \A t \in Tickets : t # s => request'[t] = request[t] /\ nonceOf'[t] = nonceOf[t]
    BY <1>1, <1>2, <1>4
  <1>6. Distinct' /\ OrderOK'
    BY <1>2, <1>4, <1>5, NewNonce DEF Sent
  <1>7. \A t \in Sends : (InPool(t)' <=> InPool(t)) /\ (InPool(t) => nonceOf'[t] = nonceOf[t])
    BY <1>2, <1>5, ConstantsAssumption DEF InPool
  <1>8. Frontier(a, n)'
    BY <1>1, <1>4, <1>7, FrontierKept
  <1>9. PoolOK(a)'
    <2> SUFFICES ASSUME NEW t \in Sends
                 PROVE  /\ request'[t] \in Executed => nonceOf'[t] < mined'[a]
                        /\ InPool(t)' =>
                             /\ nonceOf'[t] >= mined'[a]
                             /\ \A m \in mined'[a] .. nonceOf'[t] - 1 :
                                  \E u \in Sends : InPool(u)' /\ nonceOf'[u] = m
                        /\ request'[t] = "flying" => Frontier(a, nonceOf[t])'
      BY DEF PoolOK
    <2>1. CASE t = s
      BY <1>5, <1>8, <2>1 DEF Frontier, InPool, Executed
    <2>2. CASE t # s
      BY <1>1, <1>3, <1>5, <1>7, <2>2, ConstantsAssumption DEF NoncesOK, PoolOK
    <2> QED
      BY <2>1, <2>2
  <1>10. ChoiceOK(a)'
    BY <1>1, <1>2, <1>5 DEF NoncesOK, ChoiceOK
  <1> QED
    BY <1>6, <1>9, <1>10 DEF NoncesOK

LEMMA DeviceNonces ==
    ASSUME TicketsOK, NEW a \in Accounts, OneAtATime(a), NoncesOK(a), DeviceSends
    PROVE  NoncesOK(a)'
  <1>1. /\ stage = "device" /\ stage' = "none" /\ lastNonce' = lastNonce
        /\ held.publicKey = From[current] /\ current \in Sends
    BY DEF DeviceSends, TicketsOK, Web3Inv, HeldIsSender
  <1>2. /\ held.publicKey = a /\ Pooled(a) = {}
        /\ mined' = [mined EXCEPT ![a] = @ + 1] /\ mined \in [Accounts -> 0 .. MaxNonce + 1]
        /\ nonceOf' = [nonceOf EXCEPT ![current] = mined[a]]
        /\ request' = [request EXCEPT ![current] = "mined"]
        /\ nonceOf \in [Tickets -> 0 .. MaxNonce] /\ request \in [Tickets -> RequestStates]
    BY <1>1 DEF DeviceSends, TicketsOK, Web3Inv, TypeOK, OneAtATime
  <1>3. PICK s \in Sends : s = current /\ s \in Tickets /\ ticket[s] = "waiting" /\ request[s] = "none"
    BY <1>1, ConstantsAssumption DEF TicketsOK, QueueOK
  <1>4. \A t \in Sends : request[t] # "flying" /\ ~InPool(t)
    BY <1>2, <1>3, NothingFlies, PooledOfSender, ConstantsAssumption
  <1>5. PICK n \in Nat : n = mined[a]
    BY NonceTypes
  <1>6. Frontier(a, n)
    BY <1>4, <1>5 DEF Frontier
  <1>7. /\ request'[s] = "mined" /\ nonceOf'[s] = n /\ mined'[a] = n + 1
        /\ \A t \in Tickets : t # s => request'[t] = request[t] /\ nonceOf'[t] = nonceOf[t]
    BY <1>2, <1>3, <1>5
  <1>8. Distinct' /\ OrderOK'
    BY <1>3, <1>6, <1>7, NewNonce DEF Sent
  <1>9. \A t \in Sends : t # s =>
          ~InPool(t)' /\ request'[t] # "flying" /\ (request'[t] \in Executed => nonceOf'[t] < n)
    BY <1>4, <1>5, <1>7, ConstantsAssumption DEF NoncesOK, PoolOK, InPool
  <1>10. PoolOK(a)'
    <2>1. request'[s] = "mined" /\ nonceOf'[s] < mined'[a]
      BY <1>7
    <2>2. \A t \in Sends : t # s /\ request'[t] \in Executed => nonceOf'[t] < mined'[a]
      <3>1. \A t \in Sends : t # s => nonceOf'[t] \in Nat
        BY <1>7, NonceTypes, ConstantsAssumption
      <3> QED
        BY <1>7, <1>9, <3>1
    <2> QED
      BY <1>9, <2>1, <2>2 DEF PoolOK, InPool
  <1>11. ChoiceOK(a)'
    <2>1. ~(lastNonce >= n)
      BY <1>4, <1>5 DEF NoncesOK, ChoiceOK, InPool
    <2> QED
      BY <1>1, <1>5, <1>7, <2>1, NonceTypes DEF ChoiceOK
  <1> QED
    BY <1>8, <1>10, <1>11 DEF NoncesOK

LEMMA AcceptNonces ==
    ASSUME TicketsOK, NEW a \in Accounts, OneAtATime(a), NoncesOK(a),
           NEW t \in Tickets, NodeAccepts(t)
    PROVE  NoncesOK(a)'
  <1>1. /\ request[t] = "flying" /\ request' = [request EXCEPT ![t] = "pooled"]
        /\ request \in [Tickets -> RequestStates] /\ lastNonce' \in {lastNonce, 0}
        /\ UNCHANGED <<mined, nonceOf, handlerVars>>
    BY DEF NodeAccepts, PromiseFails, TicketsOK, Web3Inv, TypeOK
  <1>2. t \in Sends /\ ticket[t] = "waiting"
    BY <1>1, ConstantsAssumption DEF TicketsOK, RequestsOK
  <1>3. \A u \in Sends : u # t => request[u] # "flying"
    BY <1>2, OneWaiting DEF TicketsOK, RequestsOK
  <1>4. stage # "sign"
    BY <1>1, <1>2, OneWaiting, ConstantsAssumption DEF TicketsOK, Web3Inv, HeldIsSender, QueueOK
  <1>5. /\ request'[t] = "pooled" /\ Frontier(a, nonceOf[t]) /\ nonceOf[t] \in Nat /\ mined[a] \in Nat
        /\ \A u \in Tickets : u # t => request'[u] = request[u]
    BY <1>1, <1>2, NonceTypes DEF NoncesOK, PoolOK
  <1>6. \A u \in Sends : (request'[u] \in Sent <=> request[u] \in Sent) /\ (InPool(u) => InPool(u)')
    BY <1>1, <1>5, ConstantsAssumption DEF Sent, InPool
  <1>7. Distinct' /\ OrderOK'
    BY <1>1, <1>6 DEF NoncesOK, Distinct, OrderOK
  <1>8. ASSUME NEW u \in Sends
        PROVE  /\ request'[u] \in Executed => nonceOf[u] < mined[a]
               /\ InPool(u)' =>
                    /\ nonceOf[u] >= mined[a]
                    /\ \A m \in mined[a] .. nonceOf[u] - 1 : \E v \in Sends : InPool(v)' /\ nonceOf[v] = m
               /\ request'[u] # "flying"
    <2>1. CASE u = t
      BY <1>5, <1>6, <2>1 DEF Frontier, Executed
    <2>2. CASE u # t
      BY <1>3, <1>5, <1>6, <2>2, ConstantsAssumption DEF NoncesOK, PoolOK, InPool
    <2> QED
      BY <2>1, <2>2
  <1>9. PoolOK(a)'
    BY <1>1, <1>8 DEF PoolOK
  <1>10. ChoiceOK(a)'
    <2>1. \A u \in Sends : request[u] \in {"flying", "pooled"} => request'[u] \in {"flying", "pooled"}
      BY <1>5, ConstantsAssumption
    <2>2. lastNonce' >= mined[a] => lastNonce' = lastNonce
      BY <1>1, <1>5 DEF NoncesOK, ChoiceOK
    <2> QED
      BY <1>1, <1>4, <2>1, <2>2 DEF NoncesOK, ChoiceOK, handlerVars
  <1> QED
    BY <1>7, <1>9, <1>10 DEF NoncesOK

(* A block takes the lowest nonce of the pool: the frontier stays.         *)
LEMMA MineNonces ==
    ASSUME TicketsOK, NEW a \in Accounts, OneAtATime(a), NoncesOK(a),
           NEW t \in Tickets, Mine(t)
    PROVE  NoncesOK(a)'
  <1>1. /\ request[t] = "pooled" /\ nonceOf[t] = mined[signer[t]]
        /\ mined' = [mined EXCEPT ![signer[t]] = @ + 1]
        /\ lastNonce' \in {lastNonce, 0} /\ UNCHANGED <<nonceOf, handlerVars>>
        /\ request' = [request EXCEPT ![t] = "mined"] \/ request' = [request EXCEPT ![t] = "reverted"]
        /\ request \in [Tickets -> RequestStates] /\ mined \in [Accounts -> 0 .. MaxNonce + 1]
    BY DEF Mine, PromiseFails, TicketsOK, Web3Inv, TypeOK
  <1>2. t \in Sends /\ signer[t] = a
    <2>1. t \in Sends
      BY <1>1 DEF TicketsOK, RequestsOK
    <2> QED
      BY <1>1, <2>1, PooledOfSender DEF Sent
  <1>3. PICK k \in Nat : k = mined[a]
    BY NonceTypes
  <1>4. /\ mined'[a] = k + 1 /\ nonceOf[t] = k /\ request'[t] \in Executed
        /\ \A u \in Tickets : u # t => request'[u] = request[u]
    BY <1>1, <1>2, <1>3 DEF Executed
  <1>5. /\ \A u \in Sends : request'[u] \in Sent <=> request[u] \in Sent
        /\ \A u \in Sends : InPool(u)' <=> InPool(u) /\ u # t
        /\ \A u \in Sends : InPool(u) /\ u # t => nonceOf[u] # k
        /\ \A u \in Sends : nonceOf[u] \in Nat
    BY <1>1, <1>2, <1>4, NonceTypes, ConstantsAssumption
    DEF Sent, Executed, InPool, NoncesOK, Distinct
  <1>6. Distinct' /\ OrderOK'
    BY <1>1, <1>5 DEF NoncesOK, Distinct, OrderOK
  <1>7. ASSUME NEW n \in Nat, Frontier(a, n)
        PROVE  Frontier(a, n)'
    <2>1. n >= k + 1
      BY <1>1, <1>2, <1>3, <1>4, <1>7 DEF Frontier, InPool
    <2>2. \A u \in Sends : InPool(u)' => nonceOf'[u] # n
      BY <1>1, <1>5, <1>7 DEF Frontier
    <2>3. \A m \in k + 1 .. n - 1 : \E u \in Sends : InPool(u)' /\ nonceOf'[u] = m
      BY <1>1, <1>3, <1>4, <1>5, <1>7 DEF Frontier
    <2> QED
      BY <1>4, <2>1, <2>2, <2>3 DEF Frontier
  <1>8. ASSUME NEW u \in Sends
        PROVE  /\ request'[u] \in Executed => nonceOf[u] < k + 1
               /\ InPool(u)' =>
                    /\ nonceOf[u] >= k + 1
                    /\ \A m \in k + 1 .. nonceOf[u] - 1 : \E v \in Sends : InPool(v)' /\ nonceOf[v] = m
               /\ request'[u] = "flying" => Frontier(a, nonceOf[u])'
    <2>1. CASE u = t
      BY <1>4, <1>5, <2>1 DEF InPool, Executed
    <2>2. CASE u # t
      <3>1. request'[u] = request[u] /\ nonceOf[u] \in Nat
        BY <1>4, <1>5, <2>2, ConstantsAssumption
      <3>2. request[u] \in Executed => nonceOf[u] < k + 1
        BY <1>3, <3>1 DEF NoncesOK, PoolOK
      <3>3. InPool(u) => /\ nonceOf[u] >= k + 1
                         /\ \A m \in k + 1 .. nonceOf[u] - 1 :
                              \E v \in Sends : InPool(v)' /\ nonceOf[v] = m
        BY <1>3, <1>4, <1>5, <2>2, <3>1 DEF NoncesOK, PoolOK
      <3>4. request[u] = "flying" => Frontier(a, nonceOf[u])'
        <4>1. PICK n \in Nat : n = nonceOf[u] /\ n = nonceOf'[u]
          BY <1>1, <3>1
        <4> QED
          BY <1>7, <4>1 DEF NoncesOK, PoolOK
      <3> QED
        BY <1>5, <2>2, <3>1, <3>2, <3>3, <3>4
    <2> QED
      BY <2>1, <2>2
  <1>9. PoolOK(a)'
    BY <1>1, <1>4, <1>8 DEF PoolOK
  <1>10. ChoiceOK(a)'
    <2>1. lastNonce' >= k + 1 => lastNonce' = lastNonce /\ lastNonce >= k
      BY <1>1, <1>3, NonceTypes
    <2>2. ASSUME NEW u \in Sends, request[u] \in {"flying", "pooled"}, nonceOf[u] >= k + 1
          PROVE  request'[u] = request[u]
      BY <1>3, <1>4, <2>2, ConstantsAssumption
    <2>3. stage' = "sign" => Frontier(a, seen)'
      <3>1. PICK n \in Nat : n = seen /\ n = seen'
        BY <1>1, NonceTypes DEF handlerVars
      <3> QED
        BY <1>1, <1>7, <3>1 DEF NoncesOK, ChoiceOK, handlerVars
    <2> QED
      BY <1>1, <1>3, <1>4, <2>1, <2>2, <2>3 DEF NoncesOK, ChoiceOK
  <1> QED
    BY <1>6, <1>9, <1>10 DEF NoncesOK

NonceInv(a) == TicketsOK /\ NoncesOK(a)

LEMMA NoncesStep ==
    ASSUME NEW a \in Accounts, OneAtATime(a), NonceInv(a), [Next]_vars
    PROVE  NonceInv(a)'
  <1>1. TicketsOK'
    BY TicketsStep DEF NonceInv
  <1>2. NoncesOK(a)'
    BY QuietSteps, QuietKeeps, CountNonces, BroadcastNonces, DeviceNonces, AcceptNonces, MineNonces
    DEF NonceInv, Next, Handler, Answered
  <1> QED
    BY <1>1, <1>2 DEF NonceInv

LEMMA NoncesInit ==
    ASSUME NEW a \in Accounts, OneAtATime(a), Init
    PROVE  NonceInv(a)
  <1>1. /\ \A t \in Tickets : request[t] = "none"
        /\ stage = "none" /\ lastNonce = 0 /\ mined[a] > 0 /\ mined[a] \in Nat
    BY ConstantsAssumption DEF Init, OneAtATime
  <1>2. PoolOK(a) /\ Distinct /\ OrderOK
    BY <1>1, ConstantsAssumption DEF PoolOK, Distinct, OrderOK, InPool, Executed, Sent
  <1>3. ChoiceOK(a)
    BY <1>1 DEF ChoiceOK
  <1> QED
    BY <1>2, <1>3, TicketsInit DEF NonceInv, NoncesOK

LEMMA NonceInvariant == ASSUME NEW a \in Accounts, OneAtATime(a) PROVE Spec => []NonceInv(a)
  <1>1. Init => NonceInv(a)
    BY NoncesInit
  <1>2. NonceInv(a) /\ [Next]_vars => NonceInv(a)'
    BY NoncesStep
  <1> QED
    BY <1>1, <1>2, PTL DEF Spec

(***************************************************************************)
(* Two transactions never carry the same nonce, whatever is refused,       *)
(* reverted, given up or answered too late between them (lines 225-228 and *)
(* the reset of line 135).                                                 *)
(***************************************************************************)
THEOREM NoReuse == ASSUME NEW a \in Accounts, OneAtATime(a) PROVE Spec => []NoNonceReuse
  <1>1. NonceInv(a) => NoNonceReuse
    BY DEF NonceInv, NoncesOK, Distinct, NoNonceReuse
  <1> QED
    BY <1>1, NonceInvariant, PTL

(***************************************************************************)
(* No transaction waits behind a nonce that nothing will fill: this.nonce  *)
(* is never taken for a count it only happens to equal.                    *)
(***************************************************************************)
THEOREM NoGap == ASSUME NEW a \in Accounts, OneAtATime(a) PROVE Spec => []NoNonceGap
  <1>1. ASSUME NonceInv(a)
        PROVE  NoNonceGap
    <2> SUFFICES ASSUME NEW t \in Sends, request[t] \in {"flying", "pooled"},
                        NEW n \in mined[signer[t]] .. nonceOf[t] - 1
                 PROVE  \E u \in Sends : /\ request[u] \in {"flying", "pooled"}
                                         /\ signer[u] = signer[t] /\ nonceOf[u] = n
      BY DEF NoNonceGap
    <2>1. \A u \in Sends : request[u] \in Sent => signer[u] = a
      BY <1>1, PooledOfSender DEF NonceInv
    <2>2. \E u \in Sends : InPool(u) /\ nonceOf[u] = n
      BY <1>1, <2>1 DEF NonceInv, NoncesOK, PoolOK, Frontier, InPool, Sent
    <2> QED
      BY <2>1, <2>2 DEF InPool, Sent
  <1> QED
    BY <1>1, NonceInvariant, PTL

(***************************************************************************)
(* The chain executes what a caller sends in the order of the calls: a     *)
(* deposit never overtakes the approval it needs.                          *)
(***************************************************************************)
THEOREM Ordered == ASSUME NEW a \in Accounts, OneAtATime(a) PROVE Spec => []InCallOrder
  <1>1. ASSUME NonceInv(a)
        PROVE  InCallOrder
    <2> SUFFICES ASSUME NEW c \in Clients, NEW i \in 1 .. Len(Program[c]), NEW j \in 1 .. Len(Program[c]),
                        i < j, Program[c][i] \in Sends, Program[c][j] \in Sends,
                        request[Program[c][j]] \in Executed
                 PROVE  request[Program[c][i]] \in Executed
      BY DEF InCallOrder
    <2> DEFINE t == Program[c][i]
               u == Program[c][j]
    <2>1. t \in Tickets /\ u \in Tickets /\ pc[c] \in Nat
      BY <1>1, ProgramTickets DEF NonceInv, TicketsOK, Web3Inv, TypeOK
    <2>2. ticket[u] # "none"
      BY <1>1, <2>1 DEF NonceInv, TicketsOK, RequestsOK, Executed
    <2>3. ticket[t] = "resolved"
      BY <1>1, <2>1, <2>2 DEF NonceInv, TicketsOK, CallsOK
    <2>4. request[t] \in {"pooled", "mined", "reverted"}
      BY <1>1, <2>3 DEF NonceInv, TicketsOK, RequestsOK
    <2>5. nonceOf[t] < nonceOf[u] /\ nonceOf[u] < mined[a]
      BY <1>1 DEF NonceInv, NoncesOK, OrderOK, PoolOK, Sent, Executed
    <2>6. ~InPool(t)
      BY <1>1, <2>1, <2>5, NonceTypes DEF NonceInv, NoncesOK, PoolOK
    <2> QED
      BY <2>4, <2>6 DEF InPool, Executed
  <1> QED
    BY <1>1, NonceInvariant, PTL

=============================================================================
