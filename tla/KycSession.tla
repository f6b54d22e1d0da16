---------------------------- MODULE KycSession ----------------------------
(***************************************************************************)
(* src/common/kyc/index.js: the session with the relying party             *)
(* 'incorporations', the application of the user, and the screens that     *)
(* drive them (details, checkout, application, process started).  Every    *)
(* operation is a chain of awaits; they meet in one entry of the store, in *)
(* one route, and in one variable for the confirmation timer of hardware   *)
(* wallets (line 14).                                                      *)
(*                                                                         *)
(* Left out: templates and requirements, the list of applications, the     *)
(* expiry of a token and the age of an entry (an operation finds the       *)
(* session active or not, an entry is older than three hours or not), the  *)
(* choice between the four pages of a refused authentication, and a change *)
(* of the wallet's type: unlocking again only clears the entry.            *)
(***************************************************************************)
EXTENDS Naturals

CONSTANTS
    Tasks,   \* bound: operations and timers at a time
    None     \* no entry, no route, no timer

ASSUME NoneAssumption == None \notin Tasks

VARIABLES
    rp,        \* relyingPartiesByName.incorporations: absent, a failed load's, by session
    app,       \* state.kyc.currentApplication: null, started, with an error, or {}
    cancel,    \* state.kyc.cancelRoute
    page,      \* the route
    mounted,   \* the page's screen has run its componentDidMount
    device,    \* the wallet is a Ledger or a Trezor
    op,        \* the operations under way
    armed,     \* the operations whose confirmation timer runs
    handle     \* hardwalletConfirmationTimeout

sessionVars == <<rp, app, cancel, page, mounted, device, op, armed, handle>>

Screens == {"details", "checkout", "application", "started"}
Popups == {"hd-timer", "hd-timeout", "refused"}
Pages == Screens \cup Popups \cup {"pay", "other"}

BySession == {"public", "auth"}    \* an entry a load has answered
Applying == {"started", "failed"}

Idle == [kind |-> "idle"]
Load(auth, route) == [kind |-> "load", at |-> IF auth THEN "establish" ELSE "fetch",
                      auth |-> auth, route |-> route]
Ops ==
    {Idle}
    \cup [kind : {"load"}, at : {"establish", "fetch"}, auth : BOOLEAN,
          route : {"checkout", "application", None}]
    \cup [kind : {"submit"}, at : {"establish", "create", "get"}, reload : BOOLEAN]
    \cup [kind : {"payment"}, at : {"establish", "update", "list"}, was : {"public", "auth"}]

SessionTypeOK ==
    /\ rp \in {None, "error"} \cup BySession
    /\ app \in {None, "cleared"} \cup Applying
    /\ cancel \in {"details", None} /\ page \in Pages
    /\ {mounted, device} \subseteq BOOLEAN
    /\ op \in [Tasks -> Ops]
    /\ armed \subseteq Tasks /\ handle \in Tasks \cup {None}
    /\ ~device => armed = {} /\ page \notin {"hd-timer", "hd-timeout"}

SessionInit ==
    /\ rp = None /\ app = None /\ cancel = None
    /\ page = "other" /\ mounted = FALSE /\ device \in BOOLEAN
    /\ op = [t \in Tasks |-> Idle] /\ armed = {} /\ handle = None

(* A timer belongs to its task until it has fired or is cleared *)
Free(t) == op[t] = Idle /\ t \notin armed

(* Pushing the route one is at does not mount its screen again *)
Push(p) == page' = p /\ mounted' = (p = page /\ mounted)

(* clearTimeout: of the timer set last, whoever asks *)
Clear == armed' = armed \ {handle}

(* The selector that says whether the entry is to be loaded (again) *)
ShouldUpdate(auth) == {r \in BOOLEAN : (rp = None \/ (auth /\ rp # "auth")) => r}

(* Mutant: the timer does not ask for the type of the wallet. *)
BeginsAlwaysTimed(t, auth, c, p, m) ==
    /\ cancel' = c
    /\ IF auth
       THEN /\ armed' = armed \cup {t} /\ handle' = t
            /\ page' = "hd-timer" /\ mounted' = FALSE
       ELSE /\ page' = p /\ mounted' = m
            /\ UNCHANGED <<armed, handle>>

(***************************************************************************)
(* The start of a load, up to its first request: a device's user gets 30   *)
(* seconds.  Without a device the screen is p, its mounting m.             *)
(***************************************************************************)
Begins(t, auth, c, p, m) ==
    /\ cancel' = c
    /\ IF auth /\ device
       THEN /\ armed' = armed \cup {t} /\ handle' = t
            /\ page' = "hd-timer" /\ mounted' = FALSE
       ELSE /\ page' = p /\ mounted' = m
            /\ UNCHANGED <<armed, handle>>

StartLoad(t, auth, route, c) ==
    /\ Free(t)
    /\ Begins(t, auth, c, page, TRUE)
    /\ op' = [op EXCEPT ![t] = Load(auth, route)]
    /\ UNCHANGED <<rp, app, device>>

-----------------------------------------------------------------------------
(* What the screens do when they appear *)

Mounts(p) == page = p /\ ~mounted

Loads(t, auth, route) ==
    \/ TRUE \in ShouldUpdate(auth) /\ StartLoad(t, auth, route, None)
    \/ /\ FALSE \in ShouldUpdate(auth) /\ mounted' = TRUE
       /\ UNCHANGED <<rp, app, cancel, page, device, op, armed, handle>>

DetailsMounts(t) == Mounts("details") /\ Loads(t, FALSE, None)

(* Who has applied already is sent back to the details *)
CheckoutMounts(t) ==
    /\ Mounts("checkout")
    /\ \/ Loads(t, TRUE, None)
       \/ /\ FALSE \in ShouldUpdate(TRUE) /\ Push("details")
          /\ UNCHANGED <<rp, app, cancel, device, op, armed, handle>>

(* A cancelled application has no relying party to load *)
ApplicationMounts(t) ==
    /\ Mounts("application")
    /\ IF app \in Applying THEN Loads(t, TRUE, "application")
       ELSE /\ mounted' = TRUE
            /\ UNCHANGED <<rp, app, cancel, page, device, op, armed, handle>>

(***************************************************************************)
(* After the payment: load if it is time, save the hash with the last      *)
(* application, clear the session.  The hash is saved if there has been a  *)
(* current application, one that was cancelled included; the entry it is   *)
(* saved in is the one from before the clearing.                           *)
(***************************************************************************)
StartedMounts(t, u) ==
    /\ Mounts("started") /\ t # u /\ Free(t) /\ Free(u)
    /\ \E load \in ShouldUpdate(TRUE) :
        LET saves == app # None /\ rp \in BySession
            Saving == [kind |-> "payment", at |-> "establish", was |-> rp]
        IN /\ IF load THEN Begins(t, TRUE, None, page, TRUE)
              ELSE mounted' = TRUE /\ UNCHANGED <<cancel, page, armed, handle>>
           /\ op' = [op EXCEPT ![t] = IF load THEN Load(TRUE, None) ELSE Idle,
                               ![u] = IF saves THEN Saving ELSE Idle]
    /\ rp' = None
    /\ UNCHANGED <<app, device>>

-----------------------------------------------------------------------------
(* What the user does on them *)

GoesTo(p) == Push(p) /\ UNCHANGED <<rp, app, cancel, device, op, armed, handle>>

StartClick(t) ==
    /\ page = "details" /\ mounted
    /\ IF rp = "auth" THEN GoesTo("checkout") ELSE StartLoad(t, TRUE, "checkout", "details")

Navigate ==
    /\ page \notin Popups \cup {"application"}
    /\ \E p \in {"details", "pay", "started", "other"} :
        /\ (p = "pay" => page = "details") /\ (p = "started" => page = "pay")
        /\ GoesTo(p)

(* BACK: of a load with no route to cancel to it leads nowhere *)
Back == page \in Popups /\ GoesTo(IF cancel = None THEN page ELSE cancel)

StartCurrentApplication ==
    /\ page = "checkout" /\ mounted
    /\ app' = "started" /\ Push("application")
    /\ UNCHANGED <<rp, cancel, device, op, armed, handle>>

CancelCurrentApplication ==
    /\ page = "application" /\ mounted
    /\ app' = "cleared" /\ Push(IF app \in Applying THEN "details" ELSE page)
    /\ UNCHANGED <<rp, cancel, device, op, armed, handle>>

(* The list of wallets, and the pages of a failed payment, drop the entry *)
ClearRelyingParty ==
    /\ page \in {"other", "pay"}
    /\ rp' = None /\ Push("other")
    /\ UNCHANGED <<app, cancel, device, op, armed, handle>>

(* Nothing keeps the user from submitting again while a submission runs *)
SubmitCurrentApplication(t) ==
    /\ page = "application" /\ mounted /\ app \in Applying /\ Free(t)
    /\ rp \in BySession /\ app' = "started"
    /\ \E at \in {"establish", "create"}, reload \in ShouldUpdate(TRUE) :
        op' = [op EXCEPT ![t] = [kind |-> "submit", at |-> at, reload |-> reload]]
    /\ UNCHANGED <<rp, cancel, page, mounted, device, armed, handle>>

-----------------------------------------------------------------------------
(* Answers, refusals and the timer *)

At(t, kind, stages) == op[t].kind = kind /\ op[t].at \in stages

(* An answer that only lets the operation go on *)
Advances(t, kind, from, to) ==
    /\ At(t, kind, {from})
    /\ op' = [op EXCEPT ![t].at = to]
    /\ UNCHANGED <<rp, app, cancel, page, mounted, device, armed, handle>>

LoadEstablished(t) == Advances(t, "load", "establish", "fetch")

LoadRefused(t) ==
    /\ At(t, "load", {"establish"})
    /\ IF device THEN Clear ELSE UNCHANGED armed
    /\ Push("refused")
    /\ rp' = "error" /\ op' = [op EXCEPT ![t] = Idle]
    /\ UNCHANGED <<app, cancel, device, handle>>

(* Mutant: an answer stops the timer also if there is no page to go on to. *)
LoadAnsweredAndCleared(t) ==
    /\ At(t, "load", {"fetch"})
    /\ rp' = IF op[t].auth THEN "auth" ELSE "public"
    /\ IF device /\ op[t].auth THEN Clear ELSE UNCHANGED armed
    /\ IF op[t].route # None THEN Push(op[t].route) ELSE UNCHANGED <<page, mounted>>
    /\ op' = [op EXCEPT ![t] = Idle]
    /\ UNCHANGED <<app, cancel, device, handle>>

(* Without a route to go on to, the timer is left running *)
LoadAnswered(t) ==
    /\ At(t, "load", {"fetch"})
    /\ rp' = IF op[t].auth THEN "auth" ELSE "public"
    /\ IF op[t].route # None
       THEN (IF device THEN Clear ELSE UNCHANGED armed) /\ Push(op[t].route)
       ELSE UNCHANGED <<armed, page, mounted>>
    /\ op' = [op EXCEPT ![t] = Idle]
    /\ UNCHANGED <<app, cancel, device, handle>>

LoadFails(t) ==
    /\ At(t, "load", {"fetch"})
    /\ rp' = "error" /\ op' = [op EXCEPT ![t] = Idle]
    /\ UNCHANGED <<app, cancel, page, mounted, device, armed, handle>>

TimerFires(t) ==
    /\ t \in armed
    /\ armed' = armed \ {t, handle} /\ Push("hd-timeout")
    /\ UNCHANGED <<rp, app, cancel, device, op, handle>>

SubmitEstablished(t) == Advances(t, "submit", "establish", "create")
ApplicationCreated(t) == Advances(t, "submit", "create", "get")

(* The end of a submission: p is its page; then perhaps a load *)
SubmitEnds(t, p) ==
    /\ IF op[t].reload
       THEN Begins(t, TRUE, None, p, p = page /\ mounted)
       ELSE Push(p) /\ UNCHANGED <<cancel, armed, handle>>
    /\ op' = [op EXCEPT ![t] = IF op[t].reload THEN Load(TRUE, None) ELSE Idle]
    /\ UNCHANGED <<rp, device>>

(* The application cannot be added to an entry that was dropped meanwhile *)
ApplicationFetched(t) ==
    /\ At(t, "submit", {"get"}) /\ rp \in BySession
    /\ SubmitEnds(t, "pay") /\ UNCHANGED app

(* Mutant: the application is added outside of the try. *)
SubmitFailsUncaught(t) ==
    /\ At(t, "submit", {"establish", "create", "get"})
    /\ IF op[t].at = "get" /\ rp \in {None, "error"}
       THEN /\ op' = [op EXCEPT ![t] = Idle]
            /\ UNCHANGED <<rp, app, cancel, page, mounted, device, armed, handle>>
       ELSE SubmitEnds(t, page) /\ app' = "failed"

SubmitFails(t) ==
    /\ At(t, "submit", {"establish", "create", "get"})
    /\ SubmitEnds(t, page) /\ app' = "failed"

PaymentEstablished(t) == Advances(t, "payment", "establish", "update")
PaymentUpdated(t) == Advances(t, "payment", "update", "list")

(* The entry read at the start is written back *)
PaymentListed(t) ==
    /\ At(t, "payment", {"list"})
    /\ rp' = op[t].was /\ op' = [op EXCEPT ![t] = Idle]
    /\ UNCHANGED <<app, cancel, page, mounted, device, armed, handle>>

PaymentFails(t) ==
    /\ op[t].kind = "payment" /\ op' = [op EXCEPT ![t] = Idle]
    /\ UNCHANGED <<rp, app, cancel, page, mounted, device, armed, handle>>

-----------------------------------------------------------------------------
SubmitAnswers(t) ==
    SubmitEstablished(t) \/ ApplicationCreated(t) \/ ApplicationFetched(t) \/ SubmitFails(t)

SessionNext ==
    \/ Navigate \/ Back \/ StartCurrentApplication \/ CancelCurrentApplication
    \/ ClearRelyingParty
    \/ \E t \in Tasks :
        \/ DetailsMounts(t) \/ CheckoutMounts(t) \/ ApplicationMounts(t)
        \/ \E u \in Tasks : StartedMounts(t, u)
        \/ StartClick(t) \/ SubmitCurrentApplication(t)
        \/ LoadEstablished(t) \/ LoadRefused(t) \/ LoadAnswered(t) \/ LoadFails(t)
        \/ TimerFires(t) \/ SubmitAnswers(t)
        \/ PaymentEstablished(t) \/ PaymentUpdated(t) \/ PaymentListed(t) \/ PaymentFails(t)

(***************************************************************************)
(* Timers fire and requests are answered; a device's user need not answer. *)
(***************************************************************************)
OnDevice(t) == device /\ At(t, "submit", {"establish"})

Fairness ==
    \A t \in Tasks :
        /\ WF_sessionVars(TimerFires(t))
        /\ WF_sessionVars(~OnDevice(t) /\ SubmitAnswers(t))

SessionFairSpec == SessionInit /\ [][SessionNext]_sessionVars /\ Fairness

(***************************************************************************)
(* A user who is asked to confirm on the device is not left with that      *)
(* page, in spite of timers that other operations overwrite or clear       *)
(* (lines 241-251 and 318-321).                                            *)
(***************************************************************************)
TimerPageLeft == page = "hd-timer" ~> page # "hd-timer"

(***************************************************************************)
(* Every submission ends with the next page or with its error kept in the  *)
(* current application, also if the relying party was dropped, replaced or *)
(* its load failed meanwhile (lines 436-475, 534-538); on a device, once   *)
(* the user has answered it.  Two ends are not seen at once: the popup     *)
(* shows a kept error only while there is an entry by session, and on a    *)
(* device the load that may follow (477-479) asks for a confirmation over  *)
(* the page it has come to.                                                *)
(***************************************************************************)
Ended(t) ==
    /\ op[t].kind # "submit"
    /\ \/ page = "pay" \/ app = "failed"
       \/ page = "hd-timer" /\ op[t] = Load(TRUE, None)

SubmitSettled ==
    \A t \in Tasks : (op[t].kind = "submit" /\ ~OnDevice(t)) ~> Ended(t)
=============================================================================
