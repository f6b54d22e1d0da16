------------------------ MODULE RelyingPartyProofs ------------------------
(***************************************************************************)
(* Proofs about the two components that talk to relying parties.           *)
(*   LoginService: for every set of connections and wallets, any number of *)
(* requests, and relying parties that fail at any call.                    *)
(*   KycSession: for any number of operations at a time.  The invariant    *)
(* says what the liveness property TimerPageLeft rests on: while the user  *)
(* is asked to confirm on the device, the timer set last still runs.       *)
(***************************************************************************)
EXTENDS LoginService, KycSession, TLAPS

-----------------------------------------------------------------------------
(* Login with SelfKey.                                                     *)

Req == [at : Stages, conn : Connections, kind : Kinds, wallet : Wallets \cup {NoWallet},
        code : Codes, unlocked : SUBSET InTable, signedUp : SUBSET InTable,
        unread : SUBSET InTable, knew : SUBSET Wallets]

Reports == {"wallets", "unlock"}

(* Wallets whose signup is in the table, or could not be put there *)
Settled == {w \in InTable : HasSignedUpTo(w)} \cup unrecorded

(* The stage of a request fits its kind. *)
Staged(q) ==
    /\ q.at \in {"wallets", "wallet", "signups"} => q.kind \in Reports
    /\ q.at = "attributes" => q.kind = "attributes"
    /\ q.at \in {"establish", "serve", "record", "log"} => q.kind \in Logins
    /\ q.at \in {"record", "log", "answered"} => q.code # ""
    /\ q.kind \notin Reports => q.unlocked = {}
    /\ q.kind \in Logins => q.wallet \in Wallets

(* What was let through, and what has succeeded, is for a wallet unlocked  *)
(* on the connection; ids are the wallets unlocked on each.                *)
Permitted(q, ids) ==
    (q.kind \in Logins \cup {"attributes"}
       /\ (q.code = "ok" \/ q.at \in {"establish", "serve", "attributes"}))
    => q.wallet \in ids[q.conn]

(* A signup that was announced, or is about to be, is settled; and whoever *)
(* asks about wallets of which that was known finds them signed up.        *)
Recorded(q, settled, lost) ==
    /\ (q.at \in {"log", "answered"} /\ q.kind = "signup" /\ q.code = "ok")
          => q.wallet \in settled
    /\ q.knew \subseteq settled
    /\ q.at = "signups" => (q.unlocked \cap q.knew) \ (q.unread \cup lost) \subseteq q.signedUp
    /\ (q.at = "answered" /\ q.code = "ok")
          => (q.unlocked \cap q.knew) \ lost \subseteq q.signedUp

RequestOK(q, ids, settled, lost) ==
    q \in Req => Staged(q) /\ Permitted(q, ids) /\ Recorded(q, settled, lost)

RequestsOK ==
    /\ request \in [Requests -> {NotYet, Lost, Unsent} \cup Req]
    /\ \A r \in Requests : RequestOK(request[r], identities, Settled, unrecorded)

(* The types of everything else *)
RestOK ==
    /\ open \subseteq Connections
    /\ identities \in [Connections -> SUBSET InTable]
    /\ attempts \subseteq [wallet : InTable, signup : BOOLEAN, success : BOOLEAN]
    /\ unrecorded \subseteq Wallets

(* The inductive invariant: SignupKnown needs what lies between an attempt *)
(* and its answer, and between the two reads of a report.                  *)
LoginInv == RestOK /\ RequestsOK

(* Nothing that was unlocked or recorded is taken back. *)
Grows ==
    /\ \A c \in Connections : identities[c] \subseteq identities'[c]
    /\ attempts \subseteq attempts'
    /\ unrecorded \subseteq unrecorded'

LEMMA SettledGrows ==
    ASSUME Grows
    PROVE  Settled \subseteq Settled'
  BY DEF Grows, Settled, HasSignedUpTo

(* What is right about a request stays right while others go on. *)
LEMMA OthersKept ==
    ASSUME Grows, NEW q, RequestOK(q, identities, Settled, unrecorded)
    PROVE  RequestOK(q, identities', Settled', unrecorded')
<1>1. Settled \subseteq Settled' /\ unrecorded \subseteq unrecorded'
  BY SettledGrows DEF Grows
<1> SUFFICES ASSUME q \in Req
             PROVE  Staged(q) /\ Permitted(q, identities') /\ Recorded(q, Settled', unrecorded')
  BY DEF RequestOK
<1>2. Permitted(q, identities')
  BY DEF RequestOK, Permitted, Req, Grows
<1>3. Recorded(q, Settled', unrecorded')
  BY <1>1 DEF RequestOK, Recorded
<1> QED BY <1>2, <1>3 DEF RequestOK

(* A request that goes on as it should leaves all as they should be. *)
LEMMA OneRequest ==
    ASSUME RequestsOK, Grows, NEW r \in Requests, NEW o \in {NotYet, Lost, Unsent} \cup Req,
           RequestOK(o, identities', Settled', unrecorded'),
           request' = [request EXCEPT ![r] = o]
    PROVE  RequestsOK'
<1>1. request' \in [Requests -> {NotYet, Lost, Unsent} \cup Req]
  BY DEF RequestsOK
<1> SUFFICES ASSUME NEW q \in Requests
             PROVE  RequestOK(request'[q], identities', Settled', unrecorded')
  BY <1>1 DEF RequestsOK
<1>2. CASE q = r
  BY <1>2 DEF RequestsOK
<1>3. CASE q # r
  BY <1>3, OthersKept DEF RequestsOK
<1> QED BY <1>2, <1>3

(* A request at a stage has all its fields, and they are as they should. *)
LEMMA AtStage ==
    ASSUME RequestsOK, NEW r \in Requests, request[r].at \in Stages
    PROVE  /\ request[r] \in Req
           /\ Staged(request[r])
           /\ Permitted(request[r], identities)
           /\ Recorded(request[r], Settled, unrecorded)
<1>1. request[r] \notin {NotYet, Lost, Unsent}
  BY DEF NotYet, Lost, Unsent, Stages
<1> QED BY <1>1 DEF RequestsOK, RequestOK

(* A request that is no longer there is nothing to ask anything of. *)
LEMMA Gone ==
    ASSUME NEW q \in {NotYet, Lost, Unsent}, NEW ids, NEW settled, NEW lost
    PROVE  RequestOK(q, ids, settled, lost)
<1>1. q.at \notin Stages
  BY DEF NotYet, Lost, Unsent, Stages
<1> QED BY <1>1 DEF RequestOK, Req

(* Answers leaves a request answered, or nobody to answer to. *)
LEMMA Answered ==
    ASSUME RequestsOK, Grows, NEW r \in Requests, request[r].at \in Stages,
           NEW code \in Codes \ {""}, Answers(r, code),
           request[r].kind \in Logins \cup {"attributes"} /\ code = "ok"
             => request[r].wallet \in identities[request[r].conn],
           request[r].kind = "signup" /\ code = "ok" => request[r].wallet \in Settled',
           code = "ok" => (request[r].unlocked \cap request[r].knew) \ unrecorded
                             \subseteq request[r].signedUp
    PROVE  RequestsOK'
<1>1. request[r] \in Req /\ Staged(request[r]) /\ Recorded(request[r], Settled, unrecorded)
  BY AtStage
<1>2. CASE request[r].conn \notin open
  <2>1. request' = [request EXCEPT ![r] = Unsent]
    BY <1>2 DEF Answers, RequestsOK
  <2> QED BY <2>1, Gone, OneRequest
<1>3. CASE request[r].conn \in open
  <2> DEFINE o == [request[r] EXCEPT !.at = "answered", !.code = code]
  <2>1. request' = [request EXCEPT ![r] = o]
    BY <1>3 DEF Answers, RequestsOK
  <2>2. /\ o \in Req
        /\ o.at = "answered" /\ o.code = code /\ o.kind = request[r].kind
        /\ o.wallet = request[r].wallet /\ o.conn = request[r].conn
        /\ o.unlocked = request[r].unlocked /\ o.knew = request[r].knew
        /\ o.signedUp = request[r].signedUp
    BY <1>1 DEF Req, Stages
  <2>3. Staged(o)
    BY <1>1, <2>2 DEF Staged
  <2>4. Permitted(o, identities')
    BY <1>1, <2>2 DEF Permitted, Grows, Req
  <2>5. Recorded(o, Settled', unrecorded')
    BY <1>1, <2>2, SettledGrows DEF Recorded, Grows
  <2>6. RequestOK(o, identities', Settled', unrecorded')
    BY <2>3, <2>4, <2>5 DEF RequestOK
  <2> HIDE DEF o
  <2> QED BY <2>1, <2>2, <2>6, OneRequest
<1> QED BY <1>2, <1>3

(***************************************************************************)
(* The steps, in the order of LoginService.                                *)
(***************************************************************************)

(* Whatever somebody has been told of is settled. *)
LEMMA ToldIsSettled ==
    ASSUME RequestsOK
    PROVE  Told \subseteq Settled
<1> SUFFICES ASSUME NEW r \in Requests, request[r].at = "answered",
                    request[r].kind = "signup", request[r].code = "ok"
             PROVE  request[r].wallet \in Settled
  BY DEF Told
<1>1. request[r].at \in Stages
  BY DEF Stages
<1> QED BY <1>1, AtStage DEF Recorded

(* A new request knows only what is settled. *)
LEMMA HandleMessageKeeps ==
    ASSUME LoginInv, NEW r \in Requests, NEW c \in Connections, NEW kind \in Kinds,
           NEW w \in Wallets \cup {NoWallet}, HandleMessage(r, c, kind, w)
    PROVE  LoginInv'
<1> USE DEF LoginInv
<1>1. UNCHANGED <<open, identities, attempts, unrecorded>>
  BY DEF HandleMessage
<1>2. Grows /\ RestOK'
  BY <1>1 DEF Grows, RestOK
<1>3. CASE kind = "version"
  <2>1. request' = [request EXCEPT ![r] = Lost]
    BY <1>3 DEF HandleMessage
  <2> QED BY <1>2, <2>1, Gone, OneRequest
<1>4. CASE kind # "version"
  <2> DEFINE k == IF kind \in {"wallets", "unlock"} THEN Told ELSE {}
             o == [at |-> FirstStage(c, kind, w), conn |-> c, kind |-> kind, wallet |-> w,
                   code |-> FirstCode(c, kind, w), unlocked |-> {}, signedUp |-> {},
                   unread |-> {}, knew |-> k]
  <2>1. request' = [request EXCEPT ![r] = o]
    BY <1>4 DEF HandleMessage
  <2>2. k \subseteq Settled
    BY ToldIsSettled
  <2>3. Settled \subseteq Wallets
    BY <1>2, ConstantsAssumption DEF Settled, RestOK
  <2>4. CASE kind \in Reports
    <3>1. FirstStage(c, kind, w) \in {"wallets", "wallet"} /\ FirstCode(c, kind, w) = ""
      BY <2>4 DEF FirstStage, FirstCode, Reports, Logins
    <3>2. o \in Req
      BY <2>2, <2>3, <3>1 DEF Req, Stages, Codes
    <3>3. RequestOK(o, identities, Settled, unrecorded)
      BY <2>2, <2>4, <3>1 DEF RequestOK, Staged, Permitted, Recorded, Reports, Logins
    <3> QED BY <1>1, <1>2, <2>1, <3>2, <3>3, OneRequest, OthersKept
  <2>5. CASE kind = "attributes"
    <3>1. \/ /\ FirstStage(c, kind, w) = "attributes" /\ FirstCode(c, kind, w) = ""
             /\ w \in identities[c]
          \/ FirstStage(c, kind, w) = "answered" /\ FirstCode(c, kind, w) = "error"
      BY <2>5 DEF FirstStage, FirstCode, GetIdentity, Logins
    <3>2. o \in Req
      BY <2>2, <2>3, <3>1 DEF Req, Stages, Codes
    <3>3. RequestOK(o, identities, Settled, unrecorded)
      BY <2>2, <2>5, <3>1 DEF RequestOK, Staged, Permitted, Recorded, Reports, Logins
    <3> QED BY <1>1, <1>2, <2>1, <3>2, <3>3, OneRequest, OthersKept
  <2>6. CASE kind \in Logins
    <3>0. w \in Wallets
      BY <2>6 DEF HandleMessage, Logins
    <3>1. \/ /\ FirstStage(c, kind, w) = "establish" /\ FirstCode(c, kind, w) = ""
             /\ w \in identities[c]
          \/ FirstStage(c, kind, w) = "record" /\ FirstCode(c, kind, w) = "error"
      BY <2>6 DEF FirstStage, FirstCode, GetIdentity, Logins
    <3>2. o \in Req
      BY <2>2, <2>3, <3>1 DEF Req, Stages, Codes
    <3>3. RequestOK(o, identities, Settled, unrecorded)
      BY <2>2, <2>6, <3>0, <3>1 DEF RequestOK, Staged, Permitted, Recorded, Reports, Logins
    <3> QED BY <1>1, <1>2, <2>1, <3>2, <3>3, OneRequest, OthersKept
  <2> QED BY <1>4, <2>4, <2>5, <2>6 DEF Kinds, Reports
<1> QED BY <1>3, <1>4

(* reqWallets and reqUnlock: what they report is read after they knew. *)
LEMMA ReportsKeep ==
    ASSUME LoginInv, NEW r \in Requests,
           \/ WalletsFound(r) \/ WalletFound(r)
           \/ SignupRead(r) \/ SignupUnread(r) \/ WalletsReported(r)
    PROVE  LoginInv'
<1> USE DEF LoginInv
<1>0. /\ request[r].at \in {"wallets", "wallet", "signups"}
      /\ request[r].at \in Stages
      /\ UNCHANGED <<open, attempts, unrecorded>>
  BY DEF WalletsFound, WalletFound, SignupRead, SignupUnread, WalletsReported, Stages
<1>1. /\ request[r] \in Req /\ Staged(request[r]) /\ Recorded(request[r], Settled, unrecorded)
      /\ request[r].kind \in Reports
  BY <1>0, AtStage DEF Staged
<1>2. request[r].conn \in Connections
  BY <1>1 DEF Req
<1>7. CASE Fails(r) /\ UNCHANGED identities
  <2>1. Grows /\ RestOK'
    BY <1>0, <1>7 DEF Grows, RestOK
  <2> QED BY <1>7, <2>1, Gone, OneRequest DEF Fails
<1>8. CASE Answers(r, "error") /\ UNCHANGED identities
  <2>1. Grows /\ RestOK'
    BY <1>0, <1>8 DEF Grows, RestOK
  <2> QED BY <1>0, <1>8, <2>1, Answered DEF Codes
<1>3. CASE WalletsFound(r) /\ ~Fails(r)
  <2> DEFINE ids == identities[request[r].conn]
             o == [request[r] EXCEPT !.at = "signups", !.unlocked = ids, !.unread = ids]
  <2>1. request' = [request EXCEPT ![r] = o] /\ identities' = identities
    BY <1>3 DEF WalletsFound, RequestsOK
  <2>2. Grows /\ RestOK'
    BY <1>0, <2>1 DEF Grows, RestOK
  <2>3. ids \subseteq InTable
    BY <1>2 DEF RestOK
  <2>4. /\ o \in Req
        /\ o.at = "signups" /\ o.kind = request[r].kind /\ o.code = request[r].code
        /\ o.unlocked = ids /\ o.unread = ids /\ o.knew = request[r].knew
    BY <1>1, <2>3 DEF Req, Stages
  <2>5. RequestOK(o, identities, Settled, unrecorded)
    BY <1>1, <2>4 DEF RequestOK, Staged, Permitted, Recorded, Reports, Logins
  <2> QED BY <2>1, <2>2, <2>4, <2>5, OneRequest, OthersKept
<1>4. CASE WalletFound(r)
  <2> DEFINE w == request[r].wallet
             c == request[r].conn
  <2>1. CASE /\ w \in InTable
             /\ identities' = [identities EXCEPT ![c] = @ \cup {w}]
             /\ request' = [request EXCEPT ![r].at = "signups", ![r].unlocked = {w},
                                           ![r].unread = {w}]
    <3> DEFINE o == [request[r] EXCEPT !.at = "signups", !.unlocked = {w}, !.unread = {w}]
    <3>1. request' = [request EXCEPT ![r] = o]
      BY <2>1 DEF RequestsOK
    <3>2. Grows /\ RestOK'
      BY <1>0, <1>2, <2>1 DEF Grows, RestOK
    <3>3. /\ o \in Req
          /\ o.at = "signups" /\ o.kind = request[r].kind /\ o.code = request[r].code
          /\ o.unlocked = {w} /\ o.unread = {w} /\ o.knew = request[r].knew
      BY <1>1, <2>1 DEF Req, Stages
    <3>4. RequestOK(o, identities, Settled, unrecorded)
      BY <1>1, <3>3 DEF RequestOK, Staged, Permitted, Recorded, Reports, Logins
    <3> QED BY <3>1, <3>2, <3>3, <3>4, OneRequest, OthersKept
  <2> QED BY <1>4, <1>7, <1>8, <2>1 DEF WalletFound
<1>5. CASE SignupRead(r)
  <2>0. UNCHANGED identities /\ request[r].at = "signups"
    BY <1>5 DEF SignupRead
  <2>1. Grows /\ RestOK'
    BY <1>0, <2>0 DEF Grows, RestOK
  <2>2. PICK w \in request[r].unread :
          request' = [request EXCEPT ![r].unread = @ \ {w},
                                     ![r].signedUp = IF HasSignedUpTo(w) THEN @ \cup {w} ELSE @]
    BY <1>5 DEF SignupRead
  <2> DEFINE found == IF HasSignedUpTo(w) THEN request[r].signedUp \cup {w} ELSE request[r].signedUp
             o == [request[r] EXCEPT !.unread = @ \ {w}, !.signedUp = found]
  <2>3. request' = [request EXCEPT ![r] = o]
    BY <2>2 DEF RequestsOK
  <2>4. w \in InTable
    BY <1>1 DEF Req
  <2>5. /\ o \in Req
        /\ o.at = "signups" /\ o.kind = request[r].kind /\ o.code = request[r].code
        /\ o.unlocked = request[r].unlocked /\ o.knew = request[r].knew
        /\ o.unread = request[r].unread \ {w} /\ o.signedUp = found
    BY <1>1, <2>0, <2>4 DEF Req
  <2>6. w \in request[r].knew \ unrecorded => w \in found
    BY <1>1 DEF Recorded, Settled
  <2>7. (o.unlocked \cap o.knew) \ (o.unread \cup unrecorded) \subseteq o.signedUp
    BY <1>1, <2>0, <2>5, <2>6 DEF Recorded
  <2>8. RequestOK(o, identities, Settled, unrecorded)
    <3> HIDE DEF o
    <3> QED BY <1>1, <2>5, <2>7 DEF RequestOK, Staged, Permitted, Recorded, Reports, Logins
  <2> HIDE DEF o
  <2> QED BY <2>1, <2>3, <2>5, <2>8, OneRequest, OthersKept
<1>6. CASE WalletsReported(r)
  <2>1. /\ request[r].at = "signups" /\ request[r].unread = {}
        /\ Answers(r, "ok") /\ UNCHANGED identities
    BY <1>6 DEF WalletsReported
  <2>2. Grows /\ RestOK'
    BY <1>0, <2>1 DEF Grows, RestOK
  <2>3. (request[r].unlocked \cap request[r].knew) \ unrecorded \subseteq request[r].signedUp
    BY <1>1, <2>1 DEF Recorded
  <2> QED BY <1>0, <1>1, <2>1, <2>2, <2>3, Answered DEF Codes, Reports, Logins
<1>9. CASE SignupUnread(r)
  BY <1>7, <1>8, <1>9 DEF SignupUnread
<1>10. CASE WalletsFound(r) /\ Fails(r)
  BY <1>7, <1>10 DEF WalletsFound
<1> QED BY <1>3, <1>4, <1>5, <1>6, <1>9, <1>10

(* A login goes to a next stage, with a code once there is one. *)
LEMMA LoginGoes ==
    ASSUME RequestsOK, Grows, NEW r \in Requests,
           request[r].at \in {"establish", "serve", "record"}, NEW code \in Codes,
           NEW s \in {"serve", "record", "log"},
           request' = [request EXCEPT ![r] = [request[r] EXCEPT !.at = s, !.code = code]],
           s \in {"record", "log"} => code # "",
           s = "serve" => code = request[r].code /\ request[r].at = "establish",
           code # request[r].code => request[r].at # "record",
           (s = "log" /\ request[r].kind = "signup" /\ code = "ok")
             => request[r].wallet \in Settled'
    PROVE  RequestsOK'
<1> DEFINE o == [request[r] EXCEPT !.at = s, !.code = code]
<1>1. /\ request[r] \in Req /\ Staged(request[r])
      /\ Permitted(request[r], identities) /\ Recorded(request[r], Settled, unrecorded)
  BY AtStage DEF Stages
<1>2. /\ o \in Req
      /\ o.at = s /\ o.code = code /\ o.kind = request[r].kind
      /\ o.wallet = request[r].wallet /\ o.conn = request[r].conn
      /\ o.unlocked = request[r].unlocked /\ o.knew = request[r].knew
  BY <1>1 DEF Req, Stages
<1>3. Staged(o)
  BY <1>1, <1>2 DEF Staged
<1>4. Permitted(o, identities')
  BY <1>1, <1>2 DEF Permitted, Grows, Req
<1>5. Recorded(o, Settled', unrecorded')
  BY <1>1, <1>2, SettledGrows DEF Recorded
<1>6. RequestOK(o, identities', Settled', unrecorded')
  BY <1>3, <1>4, <1>5 DEF RequestOK
<1>7. request' = [request EXCEPT ![r] = o]
  OBVIOUS
<1> HIDE DEF o
<1> QED BY <1>2, <1>6, <1>7, OneRequest

(* reqAttributes, reqAuth and reqSignup up to the record: nothing else     *)
(* changes, and only what was let through succeeds.                        *)
LEMMA ServingKeeps ==
    ASSUME LoginInv, NEW r \in Requests,
           AttributesFetched(r) \/ Establish(r) \/ Serve(r) \/ ActionLogged(r)
    PROVE  LoginInv'
<1> USE DEF LoginInv
<1>0. /\ request[r].at \in {"attributes", "establish", "serve", "log"}
      /\ request[r].at \in Stages
      /\ UNCHANGED <<open, identities, attempts, unrecorded>>
  BY DEF AttributesFetched, Establish, Serve, ActionLogged, Stages
<1>1. Grows /\ RestOK' /\ Settled' = Settled
  BY <1>0 DEF Grows, RestOK, Settled, HasSignedUpTo
<1>2. /\ request[r] \in Req /\ Staged(request[r])
      /\ Permitted(request[r], identities) /\ Recorded(request[r], Settled, unrecorded)
  BY <1>0, AtStage
<1>3. request[r].unlocked = {} /\ request[r].code \in Codes
  BY <1>0, <1>2 DEF Staged, Reports, Logins, Req
<1>4. CASE AttributesFetched(r)
  <2>1. PICK code \in {"ok", "error"} : Answers(r, code)
    BY <1>4 DEF AttributesFetched
  <2>2. request[r].kind = "attributes" /\ request[r].wallet \in identities[request[r].conn]
    BY <1>2, <1>4 DEF AttributesFetched, Staged, Permitted
  <2> QED BY <1>0, <1>1, <1>3, <2>1, <2>2, Answered DEF Codes
<1>5. CASE Establish(r) /\ Goes(r, "serve")
  <2>1. request' = [request EXCEPT ![r] = [request[r] EXCEPT !.at = "serve", !.code = request[r].code]]
    BY <1>2, <1>5 DEF Goes, RequestsOK, Req
  <2>2. request[r].at = "establish"
    BY <1>5 DEF Establish
  <2> QED BY <1>1, <1>3, <2>1, <2>2, LoginGoes
<1>6. ASSUME NEW code \in {"ok", "error"}, request[r].at \in {"establish", "serve"},
             AuthResp(r, code)
      PROVE  LoginInv'
  <2>1. request' = [request EXCEPT ![r] = [request[r] EXCEPT !.at = "record", !.code = code]]
    BY <1>6 DEF AuthResp, RequestsOK
  <2> QED BY <1>1, <1>6, <2>1, LoginGoes DEF Codes
<1>7. CASE ActionLogged(r)
  <2>1. Answers(r, request[r].code) /\ request[r].at = "log"
    BY <1>7 DEF ActionLogged
  <2>2. request[r].code \in Codes \ {""} /\ request[r].kind \in Logins
    BY <1>2, <1>3, <2>1 DEF Staged
  <2>3. request[r].code = "ok" => request[r].wallet \in identities[request[r].conn]
    BY <1>2, <2>2 DEF Permitted
  <2>4. request[r].kind = "signup" /\ request[r].code = "ok" => request[r].wallet \in Settled'
    BY <1>1, <1>2, <2>1 DEF Recorded
  <2> QED BY <1>0, <1>1, <1>3, <2>1, <2>2, <2>3, <2>4, Answered
<1> QED BY <1>4, <1>5, <1>6, <1>7 DEF Establish, Serve

(* The attempt is in the table, or known to be lost, before the answer. *)
LEMMA RecordKeeps ==
    ASSUME LoginInv, NEW r \in Requests, Record(r)
    PROVE  LoginInv'
<1> USE DEF LoginInv
<1>0. request[r].at = "record" /\ request[r].at \in Stages /\ UNCHANGED <<open, identities>>
  BY DEF Record, Stages
<1>1. /\ request[r] \in Req /\ Staged(request[r])
      /\ Permitted(request[r], identities) /\ Recorded(request[r], Settled, unrecorded)
  BY <1>0, AtStage
<1>2. /\ request[r].unlocked = {} /\ request[r].code \in Codes \ {""}
      /\ request[r].kind \in Logins
  BY <1>0, <1>1 DEF Staged, Reports, Logins, Req
<1>3. CASE /\ request[r].wallet \in InTable
           /\ attempts' = attempts \cup {LoginAttempt(request[r])}
           /\ Goes(r, "log")
           /\ UNCHANGED unrecorded
  <2> DEFINE a == LoginAttempt(request[r])
  <2>1. a \in [wallet : InTable, signup : BOOLEAN, success : BOOLEAN]
    BY <1>3 DEF LoginAttempt
  <2>2. Grows /\ RestOK'
    BY <1>0, <1>3, <2>1 DEF Grows, RestOK
  <2>3. ASSUME request[r].kind = "signup", request[r].code = "ok"
        PROVE  request[r].wallet \in Settled'
    <3>1. a \in attempts' /\ a.wallet = request[r].wallet /\ a.signup /\ a.success
      BY <1>3, <2>3 DEF LoginAttempt
    <3>2. PICK w \in InTable : w = request[r].wallet
      BY <1>3
    <3>3. HasSignedUpTo(w)'
      <4> HIDE DEF a
      <4> QED BY <3>1, <3>2 DEF HasSignedUpTo
    <3>4. w \in Settled'
      BY <3>3 DEF Settled
    <3> QED BY <3>2, <3>4
  <2>4. request' = [request EXCEPT ![r] = [request[r] EXCEPT !.at = "log", !.code = request[r].code]]
    BY <1>1, <1>3 DEF Goes, RequestsOK, Req
  <2> QED BY <1>0, <1>2, <2>2, <2>3, <2>4, LoginGoes
<1>4. CASE /\ unrecorded' = unrecorded \cup {request[r].wallet}
           /\ Answers(r, request[r].code)
           /\ UNCHANGED attempts
  <2>1. request[r].wallet \in Wallets
    BY <1>1, <1>2 DEF Staged
  <2>2. Grows
    BY <1>0, <1>4 DEF Grows
  <2>3. request[r].wallet \in Settled'
    BY <1>4 DEF Settled
  <2>4. request[r].code = "ok" => request[r].wallet \in identities[request[r].conn]
    BY <1>1, <1>2 DEF Permitted
  <2>5. RequestsOK'
    BY <1>0, <1>2, <1>4, <2>2, <2>3, <2>4, Answered
  <2>6. RestOK'
    BY <1>0, <1>4, <2>1 DEF RestOK
  <2> QED BY <2>5, <2>6
<1> QED BY <1>3, <1>4 DEF Record

(* A connection that closes takes nothing back. *)
LEMMA CloseKeeps ==
    ASSUME LoginInv, NEW c \in Connections, Close(c)
    PROVE  LoginInv'
  BY DEF LoginInv, RestOK, RequestsOK, Close, Settled, HasSignedUpTo

(***************************************************************************)
(* The theorems.                                                           *)
(***************************************************************************)

(* LoginInv holds always. *)
LEMMA Invariance == Spec => []LoginInv
<1>1. Init => LoginInv
  <2> SUFFICES ASSUME Init PROVE LoginInv
    OBVIOUS
  <2>1. RestOK
    BY DEF Init, RestOK
  <2>2. RequestsOK
    BY Gone DEF Init, RequestsOK
  <2> QED BY <2>1, <2>2 DEF LoginInv
<1>2. LoginInv /\ [Next]_vars => LoginInv'
  <2> SUFFICES ASSUME LoginInv, [Next]_vars PROVE LoginInv'
    OBVIOUS
  <2>1. ASSUME NEW r \in Requests, Step(r) PROVE LoginInv'
    BY <2>1, ReportsKeep, ServingKeeps, RecordKeeps DEF Step
  <2>2. CASE UNCHANGED vars
    BY <2>2 DEF vars, LoginInv, RestOK, RequestsOK, Settled, HasSignedUpTo
  <2> QED BY <2>1, <2>2, HandleMessageKeeps, CloseKeeps DEF Next
<1> QED BY <1>1, <1>2, PTL DEF Spec

(* The variables have their types, for any number of connections and       *)
(* requests.                                                               *)
THEOREM TypeCorrect == Spec => []TypeOK
<1>1. LoginInv => TypeOK
  <2> SUFFICES ASSUME LoginInv PROVE TypeOK
    OBVIOUS
  <2>1. ASSUME NEW r \in Requests, request[r].at = "answered" PROVE request[r].code # ""
    BY <2>1, AtStage DEF LoginInv, Stages, Staged
  <2> QED BY <2>1 DEF LoginInv, RestOK, RequestsOK, Req, TypeOK
<1> QED BY <1>1, Invariance, PTL

(* Attributes, logins and signups are served only for a wallet unlocked on *)
(* the same connection (lines 82-96, 137-152, 183-198, 370-386), however   *)
(* the handlers of all connections interleave.                             *)
THEOREM OnlyUnlockedServed == Spec => []ServedWhereUnlocked
<1>1. LoginInv => ServedWhereUnlocked
  BY AtStage DEF LoginInv, Permitted, ServedWhereUnlocked
<1> QED BY <1>1, Invariance, PTL

(* Once somebody was told that a signup succeeded, whoever asks is told    *)
(* that the wallet has signed up (authResp, lines 257-275), unless the     *)
(* attempt could not be inserted, however requests interleave.             *)
THEOREM SignupsKnown == Spec => []SignupKnown
<1>1. LoginInv => SignupKnown
  <2> SUFFICES ASSUME LoginInv, NEW r \in Requests,
                      request[r].at = "answered", request[r].code = "ok"
               PROVE  (request[r].unlocked \cap request[r].knew) \ unrecorded
                         \subseteq request[r].signedUp
    BY DEF SignupKnown
  <2>1. request[r].at \in Stages
    BY DEF Stages
  <2> QED BY <2>1, AtStage DEF LoginInv, Recorded
<1> QED BY <1>1, Invariance, PTL

-----------------------------------------------------------------------------
(* The sessions of the KYC screens.                                        *)

(* Only the timer set last can be cleared, and whatever clears it or lets  *)
(* it fire goes on to another page: the page that asks for a confirmation  *)
(* is never shown without a timer to end it (lines 241-251 and 318-321).   *)
TimerPageHasTimer == page = "hd-timer" => device /\ handle \in armed

KycInv == SessionTypeOK /\ TimerPageHasTimer

Frozen == UNCHANGED <<cancel, page, device, armed, handle>>

-----------------------------------------------------------------------------
(* What the actions leave of the entry, the application and the list of    *)
(* operations has its type: everything but the route and the timers.       *)
EntryOK ==
    /\ rp \in {None, "error"} \cup BySession
    /\ app \in {None, "cleared"} \cup Applying
    /\ {mounted, device} \subseteq BOOLEAN
    /\ op \in [Tasks -> Ops]

RouteOK ==
    /\ cancel \in {"details", None} /\ page \in Pages
    /\ armed \subseteq Tasks /\ handle \in Tasks \cup {None}
    /\ ~device => armed = {} /\ page \notin {"hd-timer", "hd-timeout"}

LEMMA Parts == SessionTypeOK <=> EntryOK /\ RouteOK
  BY DEF SessionTypeOK, EntryOK, RouteOK

(* The operations an action may leave under way *)
LEMMA OpTypes ==
    /\ Idle \in Ops
    /\ \A auth \in BOOLEAN, route \in {"checkout", "application", None} :
           Load(auth, route) \in Ops
    /\ \A at \in {"establish", "create"}, reload \in BOOLEAN :
           [kind |-> "submit", at |-> at, reload |-> reload] \in Ops
    /\ \A was \in {"public", "auth"} :
           [kind |-> "payment", at |-> "establish", was |-> was] \in Ops
  BY DEF Ops, Idle, Load

(* A push to a page without a timer, or of the page one is at *)
LEMMA PushStep ==
    ASSUME KycInv, NEW p \in Pages, Push(p), UNCHANGED <<device, handle>>,
           cancel' \in {"details", None},
           \/ UNCHANGED armed /\ p \in Pages \ {"hd-timer"} /\ (p = "hd-timeout" => device)
           \/ UNCHANGED armed /\ p = page
           \/ armed' \subseteq armed /\ p \notin {"hd-timer", "hd-timeout"}
    PROVE  RouteOK' /\ TimerPageHasTimer' /\ mounted' \in BOOLEAN
  BY DEF KycInv, SessionTypeOK, RouteOK, TimerPageHasTimer, Push

LEMMA FrozenStep == KycInv /\ Frozen => RouteOK' /\ TimerPageHasTimer'
  BY DEF KycInv, SessionTypeOK, RouteOK, TimerPageHasTimer, Frozen

(* The start of a load: with a device, its timer is the one set last *)
LEMMA BeginsStep ==
    ASSUME KycInv, NEW t \in Tasks, NEW auth \in BOOLEAN, NEW c \in {"details", None},
           NEW p \in Pages, NEW m \in BOOLEAN, Begins(t, auth, c, p, m), UNCHANGED device,
           p \notin {"hd-timer", "hd-timeout"} \/ p = page
    PROVE  RouteOK' /\ TimerPageHasTimer' /\ mounted' \in BOOLEAN
  <1>1. CASE auth /\ device
    <2>1. /\ cancel' = c /\ armed' = armed \cup {t} /\ handle' = t /\ device'
          /\ page' = "hd-timer" /\ mounted' = FALSE
      BY <1>1 DEF Begins
    <2> QED
      BY <2>1 DEF KycInv, SessionTypeOK, RouteOK, TimerPageHasTimer, Pages, Popups
  <1>2. CASE ~(auth /\ device)
    <2>1. /\ cancel' = c /\ page' = p /\ mounted' = m /\ UNCHANGED <<armed, handle, device>>
      BY <1>2 DEF Begins
    <2> QED
      BY <2>1 DEF KycInv, SessionTypeOK, RouteOK, TimerPageHasTimer
  <1> QED
    BY <1>1, <1>2

LEMMA StartLoadStep ==
    ASSUME KycInv, NEW t \in Tasks, NEW auth \in BOOLEAN,
           NEW route \in {"checkout", "application", None}, NEW c \in {"details", None},
           StartLoad(t, auth, route, c)
    PROVE  KycInv'
  <1>1. RouteOK' /\ TimerPageHasTimer' /\ mounted' \in BOOLEAN
    <2>1. Begins(t, auth, c, page, TRUE) /\ UNCHANGED device /\ page \in Pages
      BY DEF StartLoad, KycInv, SessionTypeOK
    <2> QED
      BY <2>1, BeginsStep
  <1>2. EntryOK'
    BY <1>1, OpTypes DEF StartLoad, KycInv, SessionTypeOK, EntryOK
  <1> QED
    BY <1>1, <1>2, Parts DEF KycInv, SessionTypeOK, EntryOK, RouteOK

LEMMA GoesStep ==
    ASSUME KycInv, NEW p \in Pages, GoesTo(p), p \notin {"hd-timer", "hd-timeout"} \/ p = page
    PROVE  KycInv'
  <1>1. RouteOK' /\ TimerPageHasTimer' /\ mounted' \in BOOLEAN
    <2>1. Push(p) /\ UNCHANGED <<device, handle, armed>> /\ cancel' \in {"details", None}
      BY DEF GoesTo, KycInv, SessionTypeOK
    <2> QED
      BY <2>1, PushStep
  <1>2. EntryOK'
    BY <1>1 DEF GoesTo, KycInv, SessionTypeOK, EntryOK
  <1> QED
    BY <1>1, <1>2 DEF KycInv, SessionTypeOK, EntryOK, RouteOK

LEMMA PageTypes == /\ Screens \subseteq Pages /\ Popups \subseteq Pages
                   /\ {"pay", "other"} \subseteq Pages
                   /\ {"hd-timer", "hd-timeout"}
                         \cap (Screens \cup {"pay", "other", "refused"}) = {}
  BY DEF Pages, Screens, Popups

-----------------------------------------------------------------------------
(* What the screens do when they appear *)
LEMMA MountStep ==
    ASSUME KycInv, NEW t \in Tasks,
           DetailsMounts(t) \/ CheckoutMounts(t) \/ ApplicationMounts(t)
    PROVE  KycInv'
  <1>1. ASSUME NEW auth \in BOOLEAN, NEW route \in {"checkout", "application", None},
               Loads(t, auth, route)
        PROVE  KycInv'
    <2>1. CASE StartLoad(t, auth, route, None)
      BY <2>1, StartLoadStep
    <2>2. CASE mounted' = TRUE /\ Frozen /\ UNCHANGED <<rp, app, op>>
      BY <2>2 DEF Frozen, KycInv, SessionTypeOK, TimerPageHasTimer
    <2> QED
      BY <1>1, <2>1, <2>2 DEF Loads, Frozen
  <1>2. CASE DetailsMounts(t)
    BY <1>1, <1>2 DEF DetailsMounts
  <1>3. CASE CheckoutMounts(t)
    <2>1. CASE Loads(t, TRUE, None)
      BY <1>1, <2>1
    <2>2. CASE GoesTo("details")
      BY <2>2, GoesStep, PageTypes DEF Screens
    <2> QED
      BY <1>3, <2>1, <2>2 DEF CheckoutMounts, GoesTo
  <1>4. CASE ApplicationMounts(t)
    <2>1. CASE Loads(t, TRUE, "application")
      BY <1>1, <2>1
    <2>2. CASE mounted' = TRUE /\ Frozen /\ UNCHANGED <<rp, app, op>>
      BY <2>2 DEF Frozen, KycInv, SessionTypeOK, TimerPageHasTimer
    <2> QED
      BY <1>4, <2>1, <2>2 DEF ApplicationMounts, Frozen
  <1> QED
    BY <1>2, <1>3, <1>4

LEMMA StartedStep ==
    ASSUME KycInv, NEW t \in Tasks, NEW u \in Tasks, StartedMounts(t, u)
    PROVE  KycInv'
  <1>1. PICK load \in BOOLEAN :
          /\ IF load THEN Begins(t, TRUE, None, page, TRUE)
             ELSE mounted' = TRUE /\ UNCHANGED <<cancel, page, armed, handle>>
          /\ op' = [op EXCEPT ![t] = IF load THEN Load(TRUE, None) ELSE Idle,
                              ![u] = IF app # None /\ rp \in BySession
                                     THEN [kind |-> "payment", at |-> "establish", was |-> rp]
                                     ELSE Idle]
    BY DEF StartedMounts, ShouldUpdate
  <1>2. rp' = None /\ UNCHANGED <<app, device>> /\ SessionTypeOK
    BY DEF StartedMounts, KycInv
  <1>3. RouteOK' /\ TimerPageHasTimer' /\ mounted' \in BOOLEAN
    <2>1. CASE load
      BY <1>1, <1>2, <2>1, BeginsStep DEF SessionTypeOK
    <2>2. CASE ~load
      BY <1>1, <1>2, <2>2 DEF SessionTypeOK, RouteOK, KycInv, TimerPageHasTimer
    <2> QED
      BY <2>1, <2>2
  <1>4. op' \in [Tasks -> Ops]
    BY <1>1, <1>2, OpTypes DEF SessionTypeOK, BySession
  <1>5. EntryOK'
    BY <1>2, <1>3, <1>4 DEF SessionTypeOK, EntryOK
  <1> QED
    BY <1>3, <1>5 DEF KycInv, SessionTypeOK, EntryOK, RouteOK

-----------------------------------------------------------------------------
(* What the user does *)
LEMMA UserStep ==
    ASSUME KycInv,
           \/ Navigate \/ Back \/ StartCurrentApplication \/ CancelCurrentApplication
           \/ ClearRelyingParty
    PROVE  KycInv'
  <1>1. CASE Navigate \/ Back
    <2>1. PICK p \in Pages : GoesTo(p) /\ (p \notin {"hd-timer", "hd-timeout"} \/ p = page)
      BY <1>1 DEF Navigate, Back, KycInv, SessionTypeOK, Pages, Screens, Popups
    <2> QED
      BY <2>1, GoesStep
  <1>2. CASE StartCurrentApplication \/ CancelCurrentApplication \/ ClearRelyingParty
    <2>1. PICK p \in Screens \cup {"other"} : Push(p)
      BY <1>2 DEF StartCurrentApplication, CancelCurrentApplication, ClearRelyingParty, Screens
    <2>2. /\ app' \in {None, "cleared"} \cup Applying /\ rp' \in {None, "error"} \cup BySession
          /\ UNCHANGED <<cancel, device, op, armed, handle>>
      BY <1>2 DEF StartCurrentApplication, CancelCurrentApplication, ClearRelyingParty,
                  KycInv, SessionTypeOK, Applying
    <2>3. RouteOK' /\ TimerPageHasTimer' /\ mounted' \in BOOLEAN
      <3>1. p \in Pages \ {"hd-timer", "hd-timeout"} /\ cancel' \in {"details", None}
        BY <2>2, PageTypes DEF KycInv, SessionTypeOK
      <3> QED
        BY <2>1, <2>2, <3>1, PushStep
    <2> QED
      BY <2>2, <2>3 DEF KycInv, SessionTypeOK, RouteOK
  <1> QED
    BY <1>1, <1>2

LEMMA OperationStartStep ==
    ASSUME KycInv, NEW t \in Tasks, StartClick(t) \/ SubmitCurrentApplication(t)
    PROVE  KycInv'
  <1>1. CASE StartClick(t)
    <2>1. CASE GoesTo("checkout")
      BY <2>1, GoesStep, PageTypes DEF Screens
    <2>2. CASE StartLoad(t, TRUE, "checkout", "details")
      BY <2>2, StartLoadStep
    <2> QED
      BY <1>1, <2>1, <2>2 DEF StartClick
  <1>2. CASE SubmitCurrentApplication(t)
    <2>1. PICK at \in {"establish", "create"}, reload \in BOOLEAN :
            op' = [op EXCEPT ![t] = [kind |-> "submit", at |-> at, reload |-> reload]]
      BY <1>2 DEF SubmitCurrentApplication, ShouldUpdate
    <2>2. /\ app' \in {None, "cleared"} \cup Applying
          /\ UNCHANGED <<rp, cancel, page, mounted, device, armed, handle>>
      BY <1>2 DEF SubmitCurrentApplication, Applying
    <2>3. op' \in [Tasks -> Ops]
      BY <2>1, OpTypes DEF KycInv, SessionTypeOK
    <2> QED
      BY <2>2, <2>3 DEF KycInv, SessionTypeOK, TimerPageHasTimer
  <1> QED
    BY <1>1, <1>2

-----------------------------------------------------------------------------
(* Answers *)
LEMMA AdvanceStep ==
    ASSUME KycInv, NEW t \in Tasks,
           \/ LoadEstablished(t) \/ SubmitEstablished(t) \/ ApplicationCreated(t)
           \/ PaymentEstablished(t) \/ PaymentUpdated(t)
    PROVE  KycInv'
  <1>1. UNCHANGED <<rp, app, cancel, page, mounted, device, armed, handle>>
    BY DEF LoadEstablished, SubmitEstablished, ApplicationCreated, PaymentEstablished,
           PaymentUpdated, Advances
  <1>2. PICK to \in {"fetch", "create", "get", "update", "list"} :
          /\ op' = [op EXCEPT ![t].at = to]
          /\ \/ op[t].kind = "load" /\ to = "fetch"
             \/ op[t].kind = "submit" /\ to \in {"create", "get"}
             \/ op[t].kind = "payment" /\ to \in {"update", "list"}
    BY DEF LoadEstablished, SubmitEstablished, ApplicationCreated, PaymentEstablished,
           PaymentUpdated, Advances, At
  <1>3. op[t] \in Ops /\ op \in [Tasks -> Ops]
    BY DEF KycInv, SessionTypeOK
  <1>4. [op[t] EXCEPT !.at = to] \in Ops
    BY <1>2, <1>3 DEF Ops, Idle
  <1>5. op' \in [Tasks -> Ops]
    BY <1>2, <1>3, <1>4
  <1> QED
    BY <1>1, <1>5 DEF KycInv, SessionTypeOK, TimerPageHasTimer

(* The end of an operation that leaves the route alone *)
LEMMA EndStep ==
    ASSUME KycInv, NEW t \in Tasks, LoadFails(t) \/ PaymentListed(t) \/ PaymentFails(t)
    PROVE  KycInv'
  <1>1. op[t] \in Ops /\ op' = [op EXCEPT ![t] = Idle]
        /\ UNCHANGED <<app, cancel, page, mounted, device, armed, handle>>
    BY DEF LoadFails, PaymentListed, PaymentFails, KycInv, SessionTypeOK
  <1>2. op[t].kind = "payment" => op[t].was \in {"public", "auth"}
    BY <1>1 DEF Ops, Idle
  <1>3. rp' \in {None, "error"} \cup BySession
    BY <1>2 DEF LoadFails, PaymentListed, PaymentFails, At, KycInv, SessionTypeOK, BySession
  <1> QED
    BY <1>1, <1>3, OpTypes DEF KycInv, SessionTypeOK, TimerPageHasTimer

LEMMA LoadEndStep ==
    ASSUME KycInv, NEW t \in Tasks, LoadRefused(t) \/ LoadAnswered(t) \/ TimerFires(t)
    PROVE  KycInv'
  <1>1. /\ SessionTypeOK /\ rp' \in {None, "error"} \cup BySession
        /\ UNCHANGED <<app, cancel, device, handle>>
        /\ op' \in [Tasks -> Ops]
    BY OpTypes DEF LoadRefused, LoadAnswered, TimerFires, KycInv, SessionTypeOK, BySession
  <1>2. RouteOK' /\ TimerPageHasTimer' /\ mounted' \in BOOLEAN
    <2>1. CASE LoadRefused(t)
      <3>1. Push("refused") /\ armed' \subseteq armed
        BY <2>1 DEF LoadRefused, Clear
      <3> QED
        BY <3>1, <1>1, PushStep, PageTypes DEF Popups, SessionTypeOK
    <2>2. CASE LoadAnswered(t) /\ op[t].route = None
      BY <2>2, <1>1 DEF LoadAnswered, SessionTypeOK, RouteOK, KycInv, TimerPageHasTimer
    <2>3. CASE LoadAnswered(t) /\ op[t].route # None
      <3>1. Push(op[t].route) /\ armed' \subseteq armed
        BY <2>3 DEF LoadAnswered, Clear
      <3>2. op[t].route \in {"checkout", "application"}
        BY <2>3, <1>1 DEF LoadAnswered, At, SessionTypeOK, Ops, Idle
      <3> QED
        BY <3>1, <3>2, <1>1, PushStep, PageTypes DEF Screens, SessionTypeOK
    <2>4. CASE TimerFires(t)
      <3>1. Push("hd-timeout") /\ armed' \subseteq armed /\ device
        BY <2>4, <1>1 DEF TimerFires, SessionTypeOK
      <3> QED
        BY <3>1, <1>1 DEF Push, RouteOK, SessionTypeOK, TimerPageHasTimer, Pages, Popups
    <2> QED
      BY <2>1, <2>2, <2>3, <2>4
  <1> QED
    BY <1>1, <1>2 DEF KycInv, SessionTypeOK, RouteOK

LEMMA SubmitEndStep ==
    ASSUME KycInv, NEW t \in Tasks, ApplicationFetched(t) \/ SubmitFails(t)
    PROVE  KycInv'
  <1>1. PICK p \in Pages : SubmitEnds(t, p) /\ (p \notin {"hd-timer", "hd-timeout"} \/ p = page)
    BY PageTypes DEF ApplicationFetched, SubmitFails, KycInv, SessionTypeOK
  <1>2. /\ SessionTypeOK /\ app' \in {None, "cleared"} \cup Applying
        /\ UNCHANGED <<rp, device>>
    BY DEF ApplicationFetched, SubmitFails, SubmitEnds, KycInv, SessionTypeOK, Applying
  <1>3. op' = [op EXCEPT ![t] = IF op[t].reload THEN Load(TRUE, None) ELSE Idle]
    BY <1>1 DEF SubmitEnds
  <1>4. op' \in [Tasks -> Ops]
    BY <1>2, <1>3, OpTypes DEF SessionTypeOK
  <1>5. RouteOK' /\ TimerPageHasTimer' /\ mounted' \in BOOLEAN
    <2>1. CASE op[t].reload
      <3>1. Begins(t, TRUE, None, p, p = page /\ mounted) /\ (p = page /\ mounted) \in BOOLEAN
        BY <1>1, <2>1 DEF SubmitEnds
      <3> QED
        BY <3>1, <1>1, <1>2, BeginsStep
    <2>2. CASE ~op[t].reload
      <3>1. Push(p) /\ UNCHANGED <<cancel, armed, handle>>
        BY <1>1, <2>2 DEF SubmitEnds
      <3> QED
        BY <3>1, <1>1, <1>2, PushStep DEF SessionTypeOK
    <2> QED
      BY <2>1, <2>2
  <1> QED
    BY <1>2, <1>4, <1>5 DEF KycInv, SessionTypeOK, RouteOK

-----------------------------------------------------------------------------
LEMMA InitInv == SessionInit => KycInv
  BY OpTypes DEF SessionInit, KycInv, SessionTypeOK, TimerPageHasTimer, Pages

LEMMA Inductive == KycInv /\ [SessionNext]_sessionVars => KycInv'
  <1> SUFFICES ASSUME KycInv, [SessionNext]_sessionVars PROVE KycInv'
    OBVIOUS
  <1>1. CASE \/ Navigate \/ Back \/ StartCurrentApplication \/ CancelCurrentApplication
             \/ ClearRelyingParty
    BY <1>1, UserStep
  <1>2. ASSUME NEW t \in Tasks,
               DetailsMounts(t) \/ CheckoutMounts(t) \/ ApplicationMounts(t)
        PROVE  KycInv'
    BY <1>2, MountStep
  <1>3. ASSUME NEW t \in Tasks, NEW u \in Tasks, StartedMounts(t, u)
        PROVE  KycInv'
    BY <1>3, StartedStep
  <1>4. ASSUME NEW t \in Tasks, StartClick(t) \/ SubmitCurrentApplication(t)
        PROVE  KycInv'
    BY <1>4, OperationStartStep
  <1>5. ASSUME NEW t \in Tasks,
               \/ LoadEstablished(t) \/ SubmitEstablished(t) \/ ApplicationCreated(t)
               \/ PaymentEstablished(t) \/ PaymentUpdated(t)
        PROVE  KycInv'
    BY <1>5, AdvanceStep
  <1>6. ASSUME NEW t \in Tasks, LoadFails(t) \/ PaymentListed(t) \/ PaymentFails(t)
        PROVE  KycInv'
    BY <1>6, EndStep
  <1>7. ASSUME NEW t \in Tasks, LoadRefused(t) \/ LoadAnswered(t) \/ TimerFires(t)
        PROVE  KycInv'
    BY <1>7, LoadEndStep
  <1>8. ASSUME NEW t \in Tasks, ApplicationFetched(t) \/ SubmitFails(t)
        PROVE  KycInv'
    BY <1>8, SubmitEndStep
  <1>9. CASE UNCHANGED sessionVars
    BY <1>9 DEF KycInv, SessionTypeOK, TimerPageHasTimer, sessionVars
  <1> QED
    BY <1>1, <1>2, <1>3, <1>4, <1>5, <1>6, <1>7, <1>8, <1>9 DEF SessionNext, SubmitAnswers

LEMMA Invariant == SessionFairSpec => []KycInv
  BY InitInv, Inductive, PTL DEF SessionFairSpec

(***************************************************************************)
(* Entry, application, route, operations and timers have their types, and  *)
(* a wallet that is no device never shows the device pages, for any number *)
(* of operations that meet in them.                                        *)
(***************************************************************************)
THEOREM SessionTypeCorrect == SessionFairSpec => []SessionTypeOK
  <1>1. KycInv => SessionTypeOK
    BY DEF KycInv
  <1> QED
    BY <1>1, Invariant, PTL

(***************************************************************************)
(* While the user is asked to confirm on the device, the timer that ends   *)
(* the page runs and nothing but another page clears it, however many      *)
(* operations overwrite and clear the one variable that holds it           *)
(* (src/common/kyc/index.js line 14).                                      *)
(***************************************************************************)
THEOREM TimerOfThePage == SessionFairSpec => []TimerPageHasTimer
  <1>1. KycInv => TimerPageHasTimer
    BY DEF KycInv
  <1> QED
    BY <1>1, Invariant, PTL
=============================================================================
