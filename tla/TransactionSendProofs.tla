----------------------- MODULE TransactionSendProofs -----------------------
(***************************************************************************)
(* Proofs about TransactionSend, for every number of edits and sends, every*)
(* wallet, and every failure of the node.                                  *)
(***************************************************************************)
EXTENDS TransactionSend, TLAPS

(***************************************************************************)
(* Type correctness.                                                       *)
(***************************************************************************)

(* An edit of the form starts a fee computation of the right type. *)
LEMMA StartFeeTyped ==
    ASSUME TypeOK, StartFee
    PROVE  fee' \in [Fees -> FeeType]
<1>1. PICK f \in Fees :
         fee' = [fee EXCEPT ![f] = [NoFee EXCEPT !.stage = "asked", !.counted = wallet]]
  BY DEF StartFee
<1>2. [NoFee EXCEPT !.stage = "asked", !.counted = wallet] \in FeeType
  BY WalletAssumption DEF NoFee, FeeType, TypeOK
<1> QED BY <1>1, <1>2 DEF TypeOK

(* The steps of the user and of setTransactionFee keep the types. *)
LEMMA FormTyped ==
    ASSUME TypeOK,
           \/ SetPayment
           \/ OpenForm
           \/ \E a \in Accounts : Unlock(a) \/ BalanceArrives(a)
           \/ \E f \in Fees : Computing(f)
    PROVE  TypeOK'
<1> USE DEF TypeOK, FormType, FeeType, walletVars
<1>1. ASSUME SetPayment PROVE TypeOK'
  <2>1. fee' \in [Fees -> FeeType]
    BY <1>1, StartFeeTyped DEF SetPayment
  <2> QED BY <1>1, <2>1 DEF SetPayment
<1>2. ASSUME NEW a \in Accounts, Unlock(a) \/ BalanceArrives(a) PROVE TypeOK'
  <2>1. wallet' \in Accounts /\ signer' \in Accounts /\ balances' \subseteq Accounts
    BY <1>2, Zenon DEF Unlock, BalanceArrives
  <2>2. unlocks' \in Nat
    BY <1>2 DEF Unlock, BalanceArrives
  <2>3. onForm' \in BOOLEAN
    BY <1>2, Zenon DEF Unlock, BalanceArrives
  <2>4. UNCHANGED <<form, fee, send, history, mined>>
    BY <1>2 DEF Unlock, BalanceArrives
  <2> QED BY <2>1, <2>2, <2>3, <2>4
<1>3. ASSUME OpenForm PROVE TypeOK'
  BY <1>3 DEF OpenForm
<1>4. ASSUME NEW f \in Fees, Counted(f) PROVE TypeOK'
  <2>1. PICK n \in Nonces : fee' = [fee EXCEPT ![f].stage = "answered", ![f].nonce = n]
    BY <1>4 DEF Counted
  <2>2. fee[f] \in FeeType
    OBVIOUS
  <2>3. [fee[f] EXCEPT !.stage = "answered", !.nonce = n] \in FeeType
    BY <2>2
  <2>4. fee' = [fee EXCEPT ![f] = [fee[f] EXCEPT !.stage = "answered", !.nonce = n]]
    BY <2>1, <2>2
  <2>5. fee' \in [Fees -> FeeType]
    BY <2>3, <2>4
  <2> QED BY <1>4, <2>5 DEF Counted
<1>5. ASSUME NEW f \in Fees, FeeWritten(f) PROVE TypeOK'
  BY <1>5, WalletAssumption DEF FeeWritten, NoFee
<1>6. ASSUME NEW f \in Fees, FeeFails(f) PROVE TypeOK'
  BY <1>6, WalletAssumption DEF FeeFails, NoFee
<1> QED BY <1>1, <1>2, <1>3, <1>4, <1>5, <1>6 DEF Computing

(* A change of one transaction keeps the types if its new record has them. *)
LEMMA SendChanged ==
    ASSUME TypeOK, NEW s \in Sends, NEW r \in SendType,
           r.timer => r.listening,
           send' = [send EXCEPT ![s] = r]
    PROVE  /\ send' \in [Sends -> SendType]
           /\ \A t \in Sends : send'[t].timer => send'[t].listening
BY DEF TypeOK

(* The steps of one transaction keep the types. *)
LEMMA SendTyped ==
    ASSUME TypeOK, NEW s \in Sends,
           \/ TimerFires(s) \/ DeviceSigns(s) \/ DeviceDeclines(s)
           \/ Answered(s) \/ Mine(s) \/ PollingEnds(s)
    PROVE  TypeOK'
<1> DEFINE r == send'[s]
<1>0. send[s] \in SendType /\ (send[s].timer => send[s].listening)
  BY DEF TypeOK
<1>1. send' = [send EXCEPT ![s] = r]
  BY DEF TypeOK, TimerFires, DeviceSigns, DeviceDeclines, PollingEnds, Becomes, Answered,
         NodeTakes, ReplyLost, NodeRefuses, HashEvent, ErrorEvent, ReceiptEvent, Tell, Mine
<1>2. r \in SendType /\ (r.timer => r.listening)
  <2>1. CASE TimerFires(s)
    BY <1>0, <2>1 DEF TimerFires, TypeOK, SendType
  <2>2. CASE DeviceSigns(s) \/ DeviceDeclines(s) \/ PollingEnds(s) \/ NodeRefuses(s)
    BY <1>0, <2>2
    DEF DeviceSigns, DeviceDeclines, PollingEnds, NodeRefuses, Becomes, TypeOK, SendType,
        Calls
  <2>3. CASE NodeTakes(s) \/ ReplyLost(s)
    BY <1>0, <2>3 DEF NodeTakes, ReplyLost, TypeOK, SendType, Calls
  <2>4. CASE HashEvent(s) \/ ErrorEvent(s) \/ ReceiptEvent(s)
    BY <1>0, <2>4 DEF HashEvent, ErrorEvent, ReceiptEvent, Tell, TypeOK, SendType, Calls
  <2>5. CASE Mine(s)
    BY <1>0, <2>5 DEF Mine, TypeOK, SendType
  <2> QED BY <2>1, <2>2, <2>3, <2>4, <2>5 DEF Answered
<1>3. /\ send' \in [Sends -> SendType]
      /\ \A t \in Sends : send'[t].timer => send'[t].listening
  <2> HIDE DEF r
  <2> QED BY <1>1, <1>2, SendChanged
<1>4. /\ UNCHANGED <<form, fee, wallet, signer, unlocks>> /\ onForm' \in BOOLEAN
  BY DEF TypeOK, walletVars, TimerFires, DeviceSigns, DeviceDeclines, PollingEnds,
         Becomes, Answered, NodeTakes, ReplyLost, NodeRefuses, HashEvent, ErrorEvent,
         ReceiptEvent, Mine
<1>6. mined' \in [Accounts -> Nat] /\ balances' \subseteq Accounts
  <2>1. CASE Mine(s)
    BY <1>0, <2>1 DEF Mine, walletVars, TypeOK, SendType
  <2>2. CASE ~Mine(s)
    BY <2>2
    DEF TypeOK, walletVars, TimerFires, DeviceSigns, DeviceDeclines, PollingEnds, Becomes,
        Answered, NodeTakes, ReplyLost, NodeRefuses, HashEvent, ErrorEvent, ReceiptEvent
  <2> QED BY <2>1, <2>2
<1>5. history' \subseteq [hash : Sends, from : Accounts]
  BY DEF TypeOK, TimerFires, DeviceSigns, DeviceDeclines, PollingEnds, Becomes,
         Answered, NodeTakes, ReplyLost, NodeRefuses, HashEvent, ErrorEvent, ReceiptEvent, Mine,
         CreateTxHistory
<1> QED BY <1>3, <1>4, <1>5, <1>6 DEF TypeOK

(* Every step keeps every variable in its type. *)
LEMMA TypeOKInductive ==
    ASSUME TypeOK, [Next]_vars
    PROVE  TypeOK'
<1>1. CASE ConfirmSend
  <2>1. PICK s \in Sends, n \in Nonces, counted \in Accounts :
           send' = [send EXCEPT ![s] =
              [NoSend EXCEPT
                  !.call = IF WalletType \in Hardware THEN "signing" ELSE "flying",
                  !.listening = TRUE, !.timer = Timed,
                  !.nonce = n, !.counted = counted, !.from = signer]]
    BY <1>1 DEF ConfirmSend
  <2> DEFINE r == [NoSend EXCEPT
                  !.call = IF WalletType \in Hardware THEN "signing" ELSE "flying",
                  !.listening = TRUE, !.timer = Timed,
                  !.nonce = n, !.counted = counted, !.from = signer]
  <2>2. r \in SendType /\ (r.timer => r.listening)
    <3>1. Timed \in BOOLEAN
      BY Zenon DEF Timed
    <3> QED BY <3>1 DEF TypeOK, FormType, SendType, NoSend, Calls
  <2>3. UNCHANGED <<form, onForm, fee, history, mined, wallet, signer, balances, unlocks>>
    BY <1>1 DEF ConfirmSend, walletVars
  <2> HIDE DEF r
  <2>4. /\ send' \in [Sends -> SendType]
        /\ \A t \in Sends : send'[t].timer => send'[t].listening
    BY <2>1, <2>2, SendChanged DEF r
  <2> QED BY <2>3, <2>4 DEF TypeOK
<1>2. CASE UNCHANGED vars
  BY <1>2 DEF vars, walletVars, TypeOK
<1> QED BY <1>1, <1>2, FormTyped, SendTyped DEF Next

(* The form, the fee computations and the sends always have their types,   *)
(* and a running timer has listeners to remove (lines 217-227).            *)
THEOREM TypeCorrect == Spec => []TypeOK
<1>1. Init => TypeOK
  BY FormAssumption, WalletAssumption, BoundsAssumption
  DEF Init, TypeOK, FormType, FeeType, SendType, NoFee, NoSend, Calls
<1> QED BY <1>1, TypeOKInductive, PTL DEF Spec

(***************************************************************************)
(* No nonce gap.  Whatever nonce is around (an answer of the node, the     *)
(* form, a transaction on its way) was once the count of the account it was*)
(* counted for, so every nonce of that account before it was in the pool.  *)
(* The pool loses a nonce only to the chain, so this stays true while the  *)
(* answers and the device dawdle, and whichever wallet is unlocked.        *)
(***************************************************************************)

Reached(a, n) == n \in Nat /\ \A m \in mined[a] .. n - 1 : InPool(a, m)

Unsent == {"none", "signing", "flying"}

GapInv ==
    /\ form.nonce # NoNonce => Reached(form.counted, form.nonce)
    /\ \A f \in Fees : fee[f].stage = "answered" => Reached(fee[f].counted, fee[f].nonce)
    /\ \A s \in Sends :
          /\ send[s].call \in {"signing", "flying"} \/ send[s].chain = "pool"
                => Reached(send[s].counted, send[s].nonce)
          /\ send[s].call \in Unsent => send[s].chain = "none"

(* A transaction that a step may change is either the step's own or not    *)
(* sent yet; a nonce leaves the pool only when the chain executes it.      *)
LEMMA PoolKept ==
    ASSUME TypeOK, GapInv, [Next]_vars, NEW a \in Accounts
    PROVE  /\ mined'[a] >= mined[a]
           /\ \A m \in Nat : m >= mined'[a] /\ InPool(a, m) => InPool(a, m)'
<1> USE DEF InPool
<1>1. CASE ConfirmSend
  BY <1>1 DEF ConfirmSend, GapInv, Unsent, TypeOK
<1>2. ASSUME NEW s \in Sends, Mine(s)
      PROVE  /\ mined'[a] >= mined[a]
             /\ \A m \in Nat : m >= mined'[a] /\ InPool(a, m) => InPool(a, m)'
  <2>1. send[s].from \in Accounts
    BY DEF TypeOK, SendType
  <2>2. CASE send[s].from = a
    BY <1>2, <2>1, <2>2 DEF Mine, TypeOK
  <2>3. CASE send[s].from # a
    BY <1>2, <2>1, <2>3 DEF Mine, TypeOK
  <2> QED BY <2>2, <2>3
<1>3. ASSUME NEW s \in Sends,
             \/ TimerFires(s) \/ DeviceSigns(s) \/ DeviceDeclines(s)
             \/ NodeRefuses(s) \/ PollingEnds(s)
             \/ HashEvent(s) \/ ErrorEvent(s) \/ ReceiptEvent(s)
      PROVE  /\ mined' = mined
             /\ \A m \in Nat : InPool(a, m) => InPool(a, m)'
  BY <1>3
  DEF TimerFires, DeviceSigns, DeviceDeclines, NodeRefuses, PollingEnds, Becomes,
      HashEvent, ErrorEvent, ReceiptEvent, Tell, TypeOK, SendType
<1>4. ASSUME NEW s \in Sends, NodeTakes(s) \/ ReplyLost(s)
      PROVE  /\ mined' = mined
             /\ \A m \in Nat : InPool(a, m) => InPool(a, m)'
  BY <1>4 DEF NodeTakes, ReplyLost, TypeOK, SendType
<1>5. ASSUME UNCHANGED <<send, mined>>
      PROVE  /\ mined' = mined
             /\ \A m \in Nat : InPool(a, m) => InPool(a, m)'
  BY <1>5
<1>6. ASSUME \/ SetPayment \/ OpenForm
             \/ \E b \in Accounts : Unlock(b) \/ BalanceArrives(b)
             \/ \E f \in Fees : Computing(f)
             \/ UNCHANGED vars
      PROVE  UNCHANGED <<send, mined>>
  BY <1>6 DEF SetPayment, OpenForm, Unlock, BalanceArrives, Computing, Counted,
              FeeWritten, FeeFails, vars
<1>7. mined[a] \in Nat
  BY DEF TypeOK
<1> HIDE DEF InPool
<1> QED BY <1>1, <1>2, <1>3, <1>4, <1>5, <1>6, <1>7 DEF Next, Answered

(* What was reached stays reached. *)
LEMMA ReachedKept ==
    ASSUME TypeOK, GapInv, [Next]_vars, NEW a \in Accounts, NEW n, Reached(a, n)
    PROVE  Reached(a, n)'
<1>1. mined[a] \in Nat /\ mined'[a] \in Nat
  BY TypeOKInductive DEF TypeOK
<1> QED BY <1>1, PoolKept DEF Reached

(* The node's count and the next nonce of the chain are reached. *)
LEMMA CountReached ==
    ASSUME TypeOK, GapInv, NEW n \in Nonces, NEW a \in Accounts,
           IsPendingCount(a, n) \/ NonceSent(n, a)
    PROVE  Reached(a, n)
<1>1. mined[a] \in Nat /\ n \in Nat
  BY BoundsAssumption DEF TypeOK, Nonces
<1>2. IsPendingCount(a, n) => Reached(a, n)
  BY <1>1 DEF IsPendingCount, Reached
<1>3. n = mined[a] => Reached(a, n)
  BY <1>1 DEF Reached
<1> QED BY <1>2, <1>3 DEF NonceSent, GapInv

(* A step keeps every nonce reached. *)
LEMMA GapInvInductive ==
    ASSUME TypeOK, GapInv, [Next]_vars
    PROVE  GapInv'
<1> USE DEF GapInv
<1>0. /\ form.counted \in Accounts
      /\ \A f \in Fees : fee[f].counted \in Accounts
      /\ \A s \in Sends : send[s].counted \in Accounts
  BY DEF TypeOK, FormType, FeeType, SendType
<1>1. CASE ConfirmSend
  <2>1. PICK s \in Sends, n \in Nonces, counted \in Accounts :
           /\ NonceSent(n, counted)
           /\ send'[s].nonce = n /\ send'[s].chain = "none"
           /\ send'[s].counted = counted
           /\ \A r \in Sends \ {s} : send'[r] = send[r]
    BY <1>1 DEF ConfirmSend, TypeOK, SendType, NoSend
  <2>2. Reached(counted, n)'
    BY <2>1, CountReached, ReachedKept
  <2> QED BY <1>0, <1>1, <2>1, <2>2, ReachedKept DEF ConfirmSend
<1>2. ASSUME NEW f \in Fees, Computing(f) PROVE GapInv'
  <2>1. CASE Counted(f)
    <3>0. PICK a \in Accounts : a = fee[f].counted
      BY <1>0
    <3>1. PICK n \in Nonces :
             /\ IsPendingCount(a, n)
             /\ fee' = [fee EXCEPT ![f].stage = "answered", ![f].nonce = n]
      BY <2>1, <3>0 DEF Counted
    <3>2. Reached(a, n)'
      BY <3>1, CountReached, ReachedKept
    <3>3. \A e \in Fees : fee'[e].stage = "answered" =>
             /\ fee'[e].counted = fee[e].counted
             /\ \/ e = f /\ fee'[e].nonce = n
                \/ fee[e].stage = "answered" /\ fee'[e].nonce = fee[e].nonce
      BY <3>1 DEF TypeOK, FeeType
    <3> QED BY <1>0, <2>1, <3>0, <3>2, <3>3, ReachedKept DEF Counted
  <2>2. CASE FeeWritten(f)
    <3>1. /\ form'.nonce = fee[f].nonce /\ fee[f].stage = "answered"
          /\ form'.counted = fee[f].counted
          /\ \A e \in Fees : fee'[e].stage = "answered" => fee'[e] = fee[e]
          /\ UNCHANGED send
      BY <2>2 DEF FeeWritten, TypeOK, FormType, FeeType, NoFee
    <3> QED BY <1>0, <3>1, ReachedKept
  <2>3. CASE FeeFails(f)
    <3>1. /\ \A e \in Fees : fee'[e].stage = "answered" => fee'[e] = fee[e]
          /\ UNCHANGED <<form, send>>
      BY <2>3 DEF FeeFails, TypeOK, FeeType, NoFee
    <3> QED BY <1>0, <3>1, ReachedKept
  <2> QED BY <1>2, <2>1, <2>2, <2>3 DEF Computing
<1>3. ASSUME \/ SetPayment \/ OpenForm
             \/ \E a \in Accounts : Unlock(a) \/ BalanceArrives(a)
             \/ UNCHANGED vars
      PROVE  GapInv'
  <2>1. form'.nonce = form.nonce /\ form'.counted = form.counted /\ UNCHANGED send
    BY <1>3 DEF SetPayment, OpenForm, Unlock, BalanceArrives, vars, TypeOK, FormType
  <2>2. \A f \in Fees : fee'[f].stage = "answered" => fee'[f] = fee[f]
    <3>1. ASSUME StartFee
          PROVE  \A f \in Fees : fee'[f].stage = "answered" => fee'[f] = fee[f]
      BY <3>1 DEF StartFee, NoFee, TypeOK, FeeType
    <3>2. UNCHANGED fee \/ StartFee
      BY <1>3 DEF SetPayment, OpenForm, Unlock, BalanceArrives, vars
    <3> QED BY <3>1, <3>2
  <2> QED BY <1>0, <2>1, <2>2, ReachedKept
<1>4. ASSUME NEW s \in Sends,
             \/ TimerFires(s) \/ DeviceSigns(s) \/ DeviceDeclines(s)
             \/ Answered(s) \/ Mine(s) \/ PollingEnds(s)
      PROVE  GapInv'
  <2>1. /\ send'[s].nonce = send[s].nonce /\ send'[s].counted = send[s].counted
        /\ send'[s].chain = "pool" =>
              send[s].chain = "pool" \/ send[s].call = "flying"
        /\ send'[s].call \in {"signing", "flying"} => send[s].call \in {"signing", "flying"}
        /\ send'[s].call \in Unsent => send'[s].chain = "none"
    BY <1>4
    DEF TimerFires, DeviceSigns, DeviceDeclines, PollingEnds, Becomes, Answered, Takable,
        NodeTakes, ReplyLost, NodeRefuses, HashEvent, ErrorEvent, ReceiptEvent, Tell, Mine,
        TypeOK, SendType, Unsent
  <2>2. \A r \in Sends \ {s} : send'[r] = send[r]
    BY <1>4
    DEF TimerFires, DeviceSigns, DeviceDeclines, PollingEnds, Becomes, Answered,
        NodeTakes, ReplyLost, NodeRefuses, HashEvent, ErrorEvent, ReceiptEvent, Tell, Mine,
        TypeOK
  <2>3. UNCHANGED <<form, fee>>
    BY <1>4
    DEF TimerFires, DeviceSigns, DeviceDeclines, PollingEnds, Becomes, Answered,
        NodeTakes, ReplyLost, NodeRefuses, HashEvent, ErrorEvent, ReceiptEvent, Mine
  <2> QED BY <1>0, <2>1, <2>2, <2>3, ReachedKept
<1> QED BY <1>1, <1>2, <1>3, <1>4 DEF Next

(* No transaction waits in the pool behind a nonce that no other one of    *)
(* its account has, if its own nonce was counted for that account: lines   *)
(* 110 and 193 leave no gap, for any number of overlapping fee computations*)
(* and sends, of accounts and of unlocks in between.                       *)
THEOREM NoGap == Spec => []NoNonceGap
<1>1. Init => GapInv
  BY DEF Init, GapInv, NoFee, NoSend
<1>2. GapInv => NoNonceGap
  BY DEF GapInv, NoNonceGap, Reached
<1> QED BY <1>1, <1>2, TypeCorrect, GapInvInductive, PTL DEF Spec

(***************************************************************************)
(* What the user is told, and what is recorded.                            *)
(***************************************************************************)

Recorded(s) == \E h \in history : h.hash = s

(* The timer runs only until something is told; the listeners are removed  *)
(* only by the timer; a hash comes only from a transaction the node took.  *)
ReportOf(s) ==
    /\ send[s].call \in Unsent => send[s].chain = "none"
    /\ send[s].call = "hash" => send[s].chain # "none"
    /\ send[s].call = "none" => send[s].told = "none" /\ ~send[s].timer
    /\ send[s].call # "none" /\ ~send[s].listening => send[s].told = "timeout"
    /\ send[s].told = "timeout" => ~send[s].listening
    /\ send[s].told # "none" => ~send[s].timer
    /\ send[s].lost => send[s].call \in {"error", "ended"} /\ send[s].chain # "none"
    /\ send[s].lost /\ send[s].call = "ended" => send[s].told \in {"error", "timeout"}
    /\ send[s].chain # "none" =>
          \/ Recorded(s) \/ send[s].call = "hash" \/ send[s].told = "timeout"
          \/ send[s].lost
    /\ Recorded(s) => /\ send[s].chain # "none" /\ send[s].told \in {"hash", "error"}
                      /\ send[s].call \notin Unsent \cup {"hash"}
                      /\ ~send[s].lost

ReportInv == \A s \in Sends : ReportOf(s)

(* What one step does to the report of one transaction: nothing at all, or *)
(* it takes away neither an answer nor a record.                           *)
LEMMA SendReported ==
    ASSUME TypeOK, NEW s \in Sends, ReportOf(s),
           \/ TimerFires(s) \/ DeviceSigns(s) \/ DeviceDeclines(s)
           \/ Answered(s) \/ Mine(s) \/ PollingEnds(s)
    PROVE  ReportOf(s)'
<1> USE DEF ReportOf, Recorded, TypeOK, SendType, Unsent
<1>1. CASE TimerFires(s)
  BY <1>1 DEF TimerFires
<1>2. CASE DeviceSigns(s) \/ DeviceDeclines(s) \/ PollingEnds(s) \/ NodeRefuses(s)
  BY <1>2 DEF DeviceSigns, DeviceDeclines, PollingEnds, NodeRefuses, Becomes
<1>3. CASE NodeTakes(s) \/ ReplyLost(s)
  BY <1>3 DEF NodeTakes, ReplyLost, Takable
<1>4. CASE HashEvent(s)
  <2>1. CASE send[s].listening
    <3> DEFINE h == [hash |-> s, from |-> wallet]
    <3>1. Recorded(s)'
      <4>1. h \in history'
        BY <1>4, <2>1 DEF HashEvent, CreateTxHistory
      <4> QED BY <4>1
    <3> QED BY <1>4, <2>1, <3>1 DEF HashEvent, Tell
  <2>2. CASE ~send[s].listening
    BY <1>4, <2>2 DEF HashEvent
  <2> QED BY <2>1, <2>2
<1>5. CASE ErrorEvent(s) \/ ReceiptEvent(s)
  BY <1>5 DEF ErrorEvent, ReceiptEvent, Tell
<1>6. CASE Mine(s)
  BY <1>6 DEF Mine
<1> QED BY <1>1, <1>2, <1>3, <1>4, <1>5, <1>6 DEF Answered

(* The steps of one transaction leave the others and their records alone. *)
LEMMA OthersKept ==
    ASSUME TypeOK, NEW s \in Sends, NEW r \in Sends \ {s},
           \/ TimerFires(s) \/ DeviceSigns(s) \/ DeviceDeclines(s)
           \/ Answered(s) \/ Mine(s) \/ PollingEnds(s)
    PROVE  send'[r] = send[r] /\ (Recorded(r)' <=> Recorded(r))
<1>1. send'[r] = send[r]
  BY DEF TypeOK, TimerFires, DeviceSigns, DeviceDeclines, PollingEnds, Becomes, Answered,
         NodeTakes, ReplyLost, NodeRefuses, HashEvent, ErrorEvent, ReceiptEvent, Tell, Mine
<1>2. UNCHANGED history \/ history' = history \cup {[hash |-> s, from |-> wallet]}
  BY DEF TimerFires, DeviceSigns, DeviceDeclines, PollingEnds, Becomes, Answered,
         NodeTakes, ReplyLost, NodeRefuses, HashEvent, ErrorEvent, ReceiptEvent, Mine, CreateTxHistory
<1> QED BY <1>1, <1>2 DEF Recorded

(* Every step keeps ReportInv. *)
LEMMA ReportInvInductive ==
    ASSUME TypeOK, ReportInv, [Next]_vars
    PROVE  ReportInv'
<1> SUFFICES ASSUME NEW r \in Sends PROVE ReportOf(r)'
  BY DEF ReportInv
<1>0. ReportOf(r)
  BY DEF ReportInv
<1>1. CASE ConfirmSend
  <2>1. PICK s \in Sends, n \in Nonces, counted \in Accounts :
           /\ send[s].call = "none"
           /\ send' = [send EXCEPT ![s] =
                [NoSend EXCEPT
                    !.call = IF WalletType \in Hardware THEN "signing" ELSE "flying",
                    !.listening = TRUE, !.timer = Timed,
                    !.nonce = n, !.counted = counted, !.from = signer]]
    BY <1>1 DEF ConfirmSend
  <2>2. UNCHANGED history
    BY <1>1 DEF ConfirmSend
  <2>3. CASE r # s
    BY <1>0, <2>1, <2>2, <2>3 DEF ReportOf, Recorded, TypeOK
  <2>4. CASE r = s
    <3>1. /\ send'[r].call \in {"signing", "flying"} /\ send'[r].listening
          /\ send'[r].chain = "none" /\ send'[r].told = "none" /\ ~send'[r].lost
      BY <2>1, <2>4 DEF TypeOK, NoSend
    <3>2. ~Recorded(r)
      BY <1>0, <2>1, <2>4 DEF ReportOf
    <3> QED BY <2>2, <3>1, <3>2 DEF ReportOf, Recorded
  <2> QED BY <2>3, <2>4
<1>2. ASSUME NEW s \in Sends,
             \/ TimerFires(s) \/ DeviceSigns(s) \/ DeviceDeclines(s)
             \/ Answered(s) \/ Mine(s) \/ PollingEnds(s)
      PROVE  ReportOf(r)'
  <2>1. CASE r = s
    BY <1>0, <1>2, <2>1, SendReported
  <2>2. CASE r # s
    BY <1>0, <1>2, <2>2, OthersKept DEF ReportOf
  <2> QED BY <2>1, <2>2
<1>3. ASSUME \/ SetPayment \/ OpenForm
             \/ \E a \in Accounts : Unlock(a) \/ BalanceArrives(a)
             \/ \E f \in Fees : Computing(f)
             \/ UNCHANGED vars
      PROVE  ReportOf(r)'
  <2>1. UNCHANGED <<send, history>>
    BY <1>3 DEF SetPayment, OpenForm, Unlock, BalanceArrives, Computing, Counted, FeeWritten,
                FeeFails, vars
  <2> QED BY <1>0, <2>1 DEF ReportOf, Recorded
<1> QED BY <1>1, <1>2, <1>3 DEF Next

(* ReportInv holds from the start. *)
LEMMA Reporting == Spec => []ReportInv
<1>1. Init => ReportInv
  BY DEF Init, ReportInv, ReportOf, Recorded, NoSend
<1> QED BY <1>1, TypeCorrect, ReportInvInductive, PTL DEF Spec

(* Every transaction the node took is recorded or about to be, unless the  *)
(* timer gave it up or the reply was lost, and then the user is told; and  *)
(* only such transactions are recorded: lines 226-243.                     *)
THEOREM Recording == Spec => []SentIsRecorded
<1>1. ReportInv => SentIsRecorded
  BY DEF ReportInv, ReportOf, SentIsRecorded, Recorded
<1> QED BY <1>1, Reporting, PTL

(* A timeout once told is never replaced, and never replaces an answer:    *)
(* the timer is cleared by the answers, the listeners by the timer.        *)
THEOREM TimeoutsFinal == Spec => TimeoutIsFinal
<1>1. ASSUME TypeOK, ReportInv, [Next]_vars, NEW r \in Sends
      PROVE  /\ send[r].told = "timeout" => send'[r].told = "timeout"
             /\ send[r].told \in {"hash", "error"} => send'[r].told # "timeout"
  <2>0. ReportOf(r)
    BY <1>1 DEF ReportInv
  <2>1. CASE ConfirmSend
    BY <2>0, <2>1 DEF ConfirmSend, ReportOf, TypeOK, NoSend
  <2>2. ASSUME NEW s \in Sends,
               \/ TimerFires(s) \/ DeviceSigns(s) \/ DeviceDeclines(s)
               \/ Answered(s) \/ Mine(s) \/ PollingEnds(s)
        PROVE  /\ send[r].told = "timeout" => send'[r].told = "timeout"
               /\ send[r].told \in {"hash", "error"} => send'[r].told # "timeout"
    <3>1. CASE r = s
      BY <1>1, <2>0, <2>2, <3>1
      DEF TimerFires, DeviceSigns, DeviceDeclines, PollingEnds, Becomes, Answered,
          NodeTakes, ReplyLost, NodeRefuses, HashEvent, ErrorEvent, ReceiptEvent, Tell, Mine,
          ReportOf, TypeOK, SendType
    <3>2. CASE r # s
      BY <1>1, <2>2, <3>2, OthersKept
    <3> QED BY <3>1, <3>2
  <2>3. ASSUME \/ SetPayment \/ OpenForm
               \/ \E a \in Accounts : Unlock(a) \/ BalanceArrives(a)
               \/ \E f \in Fees : Computing(f)
               \/ UNCHANGED vars
        PROVE  UNCHANGED send
    BY <2>3 DEF SetPayment, OpenForm, Unlock, BalanceArrives, Computing, Counted, FeeWritten,
                FeeFails, vars
  <2> QED BY <1>1, <2>1, <2>2, <2>3 DEF Next
<1>2. TypeOK /\ ReportInv /\ [Next]_vars =>
         [\A s \in Sends :
            /\ send[s].told = "timeout" => send'[s].told = "timeout"
            /\ send[s].told \in {"hash", "error"} => send'[s].told # "timeout"]_vars
  BY <1>1
<1> QED BY <1>2, TypeCorrect, Reporting, PTL DEF Spec, TimeoutIsFinal
=============================================================================
