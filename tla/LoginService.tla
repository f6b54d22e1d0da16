---------------------------- MODULE LoginService ----------------------------
(***************************************************************************)
(* src/main/lws and the sessions of src/main/platform: Login with SelfKey. *)
(* A browser extension connects to the wallet by WebSocket and has it      *)
(* unlock wallets, hand out attributes, and log in or sign up with relying *)
(* parties.  handleMessage starts a handler and awaits nothing: requests   *)
(* of one connection, and of several, interleave at every query and at     *)
(* every call of a relying party.                                          *)
(*                                                                         *)
(* Left out: which website a request is about (all are about one), codes   *)
(* of errors (a wallet that stays locked is one), which origins are let in,*)
(* contents of attributes and of tokens, the text of the action log, KYC   *)
(* applications of a session (the duck kyc uses them), requests of an      *)
(* unknown type, which are refused at once, and requests without the       *)
(* fields that the extension always sends.                                 *)
(***************************************************************************)
EXTENDS Naturals

CONSTANTS
    Connections,
    Wallets,     \* what requests name
    InTable,     \* those of table wallets
    NoWallet,
    MaxRequests  \* bound: requests of all connections

ASSUME ConstantsAssumption ==
    /\ InTable \subseteq Wallets
    /\ NoWallet \notin Wallets
    /\ MaxRequests \in Nat

(* Requests are numbered as they come *)
Requests == 1 .. MaxRequests

VARIABLES
    open,         \* connections that are not closed yet
    identities,   \* identities[c]: ctx.identities, the wallets unlocked there
    request,      \* request[r]: what was asked, how far it is, and its answer
    attempts,     \* table login_attempts: wallet, signup and whether it succeeded
    unrecorded    \* history: wallets with an attempt that could not be inserted

vars == <<open, identities, request, attempts, unrecorded>>

(* A signup without attributes goes the way of "auth": see LoginAttempt *)
Logins == {"auth", "signup"}
Kinds == Logins \cup {"wallets", "unlock", "attributes", "version"}

(* Not asked, failed without an answer, answered to a closed connection *)
NotYet == [at |-> "none"]
Lost == [at |-> "lost"]
Unsent == [at |-> "unsent"]
Stages == {"wallets", "wallet", "signups", "attributes", "establish", "serve",
           "record", "log", "answered"}
Codes == {"", "ok", "error"}

(* signedUp and unread: of the wallets to report on, those found to have   *)
(* signed up, and those not looked at yet.  knew is history: the wallets   *)
(* whose signup somebody had been told of when the request came.           *)
TypeOK ==
    /\ open \subseteq Connections
    /\ identities \in [Connections -> SUBSET InTable]
    /\ request \in [Requests -> {NotYet, Lost, Unsent} \cup
          [at : Stages, conn : Connections, kind : Kinds, wallet : Wallets \cup {NoWallet}, code : Codes,
           unlocked : SUBSET InTable, signedUp : SUBSET InTable, unread : SUBSET InTable,
           knew : SUBSET Wallets]]
    /\ \A r \in Requests : request[r].at = "answered" => request[r].code # ""
    /\ attempts \subseteq [wallet : InTable, signup : BOOLEAN, success : BOOLEAN]
    /\ unrecorded \subseteq Wallets

Init ==
    /\ open = Connections
    /\ identities = [c \in Connections |-> {}]
    /\ request = [r \in Requests |-> NotYet]
    /\ attempts = {}
    /\ unrecorded = {}

-----------------------------------------------------------------------------
(* How a handler goes on. *)

Goes(r, stage) == request' = [request EXCEPT ![r].at = stage]

Fails(r) == request' = [request EXCEPT ![r] = Lost]

(* WSConnection.send: there may be nobody left to send to *)
Answers(r, code) ==
    request' = [request EXCEPT ![r] = IF @.conn \in open
                                      THEN [@ EXCEPT !.at = "answered", !.code = code]
                                      ELSE Unsent]

(* Mutant: the answer is sent at once, and no attempt is recorded. *)
AuthRespAtOnce(r, code) == Answers(r, code)

(* authResp: the attempt is recorded before the answer is sent *)
AuthResp(r, code) == request' = [request EXCEPT ![r].at = "record", ![r].code = code]

-----------------------------------------------------------------------------
(* handleMessage and handleRequest. *)

(* Mutant: the service, not the connection, keeps the identities. *)
GetAnyIdentity(c, w) == \E d \in Connections : w \in identities[d]

GetIdentity(c, w) == w \in identities[c]

(* What happens before the first await *)
FirstStage(c, kind, w) ==
    CASE kind = "wallets" -> "wallets"
      [] kind = "unlock" -> "wallet"
      [] kind = "attributes" -> IF GetIdentity(c, w) THEN "attributes" ELSE "answered"
      [] kind \in Logins -> IF GetIdentity(c, w) THEN "establish" ELSE "record"

(* Mutant: a locked wallet is no error. *)
FirstCodeIfLocked(c, kind, w) == ""

FirstCode(c, kind, w) ==
    IF kind \in Logins \cup {"attributes"} /\ ~GetIdentity(c, w) THEN "error" ELSE ""

(* History: the wallets whose signup somebody has been told of *)
Told == {request[r].wallet : r \in {q \in Requests : request[q].at = "answered"
                                       /\ request[q].kind = "signup" /\ request[q].code = "ok"}}

HandleMessage(r, c, kind, w) ==
    /\ request[r] = NotYet /\ \A q \in 1 .. r - 1 : request[q] # NotYet
    /\ c \in open
    /\ (w = NoWallet) = (kind \in {"wallets", "version"})
    /\ request' = [request EXCEPT ![r] =
          IF kind = "version" THEN Lost   \* there is no reqVersion
          ELSE [at |-> FirstStage(c, kind, w), conn |-> c, kind |-> kind, wallet |-> w,
                code |-> FirstCode(c, kind, w), unlocked |-> {}, signedUp |-> {},
                unread |-> {}, knew |-> IF kind \in {"wallets", "unlock"} THEN Told ELSE {}]]
    /\ UNCHANGED <<open, identities, attempts, unrecorded>>

(* reqWallets: all wallets, and which of them are unlocked here; nobody    *)
(* catches it when the query fails                                         *)
WalletsFound(r) ==
    /\ request[r].at = "wallets"
    /\ \/ request' = [request EXCEPT ![r].at = "signups",
                                     ![r].unlocked = identities[request[r].conn],
                                     ![r].unread = identities[request[r].conn]]
       \/ Fails(r)
    /\ UNCHANGED <<open, identities, attempts, unrecorded>>

(* reqUnlock: a query that fails, or a wallet that is not in the table, is *)
(* an exception that nobody catches; a wrong password, or no key file, is  *)
(* answered                                                                *)
WalletFound(r) ==
    /\ request[r].at = "wallet"
    /\ LET w == request[r].wallet
           c == request[r].conn
       IN \/ /\ w \in InTable
             /\ identities' = [identities EXCEPT ![c] = @ \cup {w}]
             /\ request' = [request EXCEPT ![r].at = "signups", ![r].unlocked = {w},
                                           ![r].unread = {w}]
          \/ /\ Fails(r) \/ (w \in InTable /\ Answers(r, "error"))
             /\ UNCHANGED identities
    /\ UNCHANGED <<open, attempts, unrecorded>>

HasSignedUpTo(w) == \E a \in attempts : a.wallet = w /\ a.signup /\ a.success

SignupRead(r) ==
    /\ request[r].at = "signups"
    /\ \E w \in request[r].unread :
          request' = [request EXCEPT ![r].unread = @ \ {w},
                                     ![r].signedUp = IF HasSignedUpTo(w) THEN @ \cup {w} ELSE @]
    /\ UNCHANGED <<open, identities, attempts, unrecorded>>

(* Where hasSignedUpTo fails: reqUnlock answers that the wallet is locked, *)
(* and keeps it unlocked; reqWallets does not answer                       *)
SignupUnread(r) ==
    /\ request[r].at = "signups"
    /\ request[r].unread # {}
    /\ IF request[r].kind = "unlock" THEN Answers(r, "error") ELSE Fails(r)
    /\ UNCHANGED <<open, identities, attempts, unrecorded>>

WalletsReported(r) ==
    /\ request[r].at = "signups"
    /\ request[r].unread = {}
    /\ Answers(r, "ok")
    /\ UNCHANGED <<open, identities, attempts, unrecorded>>

AttributesFetched(r) ==
    /\ request[r].at = "attributes"
    /\ \E code \in {"ok", "error"} : Answers(r, code)
    /\ UNCHANGED <<open, identities, attempts, unrecorded>>

-----------------------------------------------------------------------------
(* reqAuth and reqSignup: session.establish, then the request itself.      *)

(* Mutant: an error while the session is established is not caught. *)
EstablishUncaught(r) ==
    /\ request[r].at = "establish"
    /\ Goes(r, "serve") \/ Fails(r)
    /\ UNCHANGED <<open, identities, attempts, unrecorded>>

(* The relying party's challenge is signed, and answered with a token *)
Establish(r) ==
    /\ request[r].at = "establish"
    /\ Goes(r, "serve") \/ AuthResp(r, "error")
    /\ UNCHANGED <<open, identities, attempts, unrecorded>>

(* getUserLoginPayload, createUser *)
Serve(r) ==
    /\ request[r].at = "serve"
    /\ \E code \in {"ok", "error"} : AuthResp(r, code)
    /\ UNCHANGED <<open, identities, attempts, unrecorded>>

(* formatLoginAttempt: a signup is a request with attributes *)
LoginAttempt(q) ==
    [wallet |-> q.wallet, signup |-> q.kind = "signup", success |-> q.code = "ok"]

(* An error of authResp is logged, and the answer is sent all the same *)
Record(r) ==
    /\ request[r].at = "record"
    /\ \/ /\ request[r].wallet \in InTable
          /\ attempts' = attempts \cup {LoginAttempt(request[r])}
          /\ Goes(r, "log")
          /\ UNCHANGED unrecorded
       \/ /\ unrecorded' = unrecorded \cup {request[r].wallet}
          /\ Answers(r, request[r].code)
          /\ UNCHANGED attempts
    /\ UNCHANGED <<open, identities>>

(* actionLogs_add is done, or fails *)
ActionLogged(r) ==
    /\ request[r].at = "log"
    /\ Answers(r, request[r].code)
    /\ UNCHANGED <<open, identities, attempts, unrecorded>>

(* The extension closes a connection; handlers go on *)
Close(c) ==
    /\ c \in open
    /\ open' = open \ {c}
    /\ UNCHANGED <<identities, request, attempts, unrecorded>>

Step(r) ==
    \/ WalletsFound(r) \/ WalletFound(r)
    \/ SignupRead(r) \/ SignupUnread(r) \/ WalletsReported(r)
    \/ AttributesFetched(r) \/ Establish(r) \/ Serve(r) \/ Record(r) \/ ActionLogged(r)

Next ==
    \/ \E r \in Requests :
        \/ \E c \in Connections, kind \in Kinds, w \in Wallets \cup {NoWallet} : HandleMessage(r, c, kind, w)
        \/ Step(r)
    \/ \E c \in Connections : Close(c)

Spec == Init /\ [][Next]_vars

(* The database answers, and relying parties answer or their requests      *)
(* fail; the extension need never ask or close anything.                   *)
FairSpec == Spec /\ \A r \in Requests : WF_vars(Step(r))

-----------------------------------------------------------------------------

(* Once somebody was told that a signup with a relying party succeeded,    *)
(* whoever asks later, on any connection and while other requests run, is  *)
(* told that the wallet has signed up: authResp (lines 257-275) inserts    *)
(* the attempt before it sends, and hasSignedUpTo reads it.  Only an       *)
(* attempt that could not be inserted makes an exception.                  *)
SignupKnown ==
    \A r \in Requests :
        (request[r].at = "answered" /\ request[r].code = "ok")
           => (request[r].unlocked \cap request[r].knew) \ unrecorded \subseteq request[r].signedUp

(* Attributes, logins and signups are served only for a wallet that was    *)
(* unlocked on the same connection, whatever other connections unlock      *)
(* meanwhile (lines 82-96, 137-152, 183-198, 370-386).                     *)
ServedWhereUnlocked ==
    \A r \in Requests :
        (request[r].at \in Stages /\ request[r].kind \in Logins \cup {"attributes"}
           /\ request[r].code = "ok")
        => request[r].wallet \in identities[request[r].conn]

(* Logins, signups and requests for attributes are answered whatever fails:*)
(* the relying party, the database, the insert of the attempt, the log of  *)
(* actions, or all of them (lines 97-132, 154-178, 200-250, 257-276); and  *)
(* so is an unlock once its wallet has been unlocked.  Only the connection *)
(* may close first.  Not covered are the queries outside every try, of     *)
(* reqWallets (37-48) and of reqUnlock (61), and the request "version",    *)
(* which has no handler: their exceptions end in unhandledRejection, and   *)
(* the extension is left without an answer.                                *)
EveryRequestAnswered ==
    \A r \in Requests :
        (/\ request[r].at \in Stages
         /\ \/ request[r].kind \in Logins \cup {"attributes"}
            \/ request[r].kind = "unlock" /\ request[r].at = "signups")
        ~> request[r].at \in {"answered", "unsent"}

=============================================================================
