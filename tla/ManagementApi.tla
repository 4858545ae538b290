--------------------------- MODULE ManagementApi ---------------------------
(***************************************************************************)
(* The management API around ReleaseManager: the operator can only press   *)
(* the buttons the dashboard offers.  A stage is offered to create a       *)
(* release or to continue the incomplete one, under the request id that    *)
(* one was begun with; every other call has a request id of its own.       *)
(*                                                                         *)
(* The API's mutation lock is held from the dashboard's reads to the end   *)
(* of the operation, so nothing but sessions changes in between, and       *)
(* stage and activate look at the sessions again themselves: gate and      *)
(* first check are one step here.  The saved configuration is the one the  *)
(* container was started with.                                             *)
(*                                                                         *)
(* A request needs a login session, and the session is looked at when the  *)
(* request comes in and never again: it may expire, or be ended, while the *)
(* operation it began goes on.  Of the clock the model keeps whether one   *)
(* of the two limits has passed.  Sessions are kept in memory only.        *)
(***************************************************************************)
EXTENDS ReleaseManager

VARIABLE login   \* the operator's session: "none", "live", or "overdue"

apiVars == <<vars, login>>

(* The first configuration may be saved and the extents enabled long       *)
(* before anybody signs in.                                                *)
ApiInit == Init /\ login = "none"

(* dashboard: the publisher is disconnected and its topology is valid.     *)
CanContinue == Pending # {} /\ ~connected

CanCreate == Pending = {} /\ ~connected /\ enabled = Volumes

CanActivate == ~connected /\ enabled = Volumes

(* request.state.request_id, a new uuid for every HTTP request.            *)
Fresh(rid) == ByRequest(rid) = {} /\ operations[rid] = NoRelease

(* incomplete.request_id if incomplete else request.state.request_id       *)
StageId(rid) ==
    \/ \E n \in Pending : request[n] = rid
    \/ Pending = {} /\ Fresh(rid)

(* The cookie names a session that is still good, and the CSRF token is    *)
(* its own.                                                                *)
Authenticated == login = "live"

(* SessionStore.create, after the right token.                             *)
SignIn == login' = "live" /\ UNCHANGED vars

(* logout, a request like any other.                                       *)
SignOut == Authenticated /\ login' = "none" /\ UNCHANGED vars

(* 30 minutes without a request, or 8 hours after the login.               *)
TimePasses == login = "live" /\ login' = "overdue" /\ UNCHANGED vars

(* SessionStore.get finds that out with the next request: 401, and the     *)
(* session is forgotten.                                                   *)
Expire == login = "overdue" /\ login' = "none" /\ UNCHANGED vars

ApiStage ==
    /\ Authenticated
    /\ CanContinue \/ CanCreate
    /\ \E rid \in Requests : StageId(rid) /\ Stage(rid)
    /\ UNCHANGED login

ApiActivate ==
    /\ Authenticated
    /\ CanActivate
    /\ \E n \in Releases, rid \in Requests : Fresh(rid) /\ ActivateRelease(n, rid)
    /\ UNCHANGED login

ApiRestart == Restart /\ login' = "none"

Background == (Proceed \/ Login \/ Logout \/ Write) /\ UNCHANGED login

ApiNext ==
    \/ SignIn \/ SignOut \/ TimePasses \/ Expire
    \/ ApiStage \/ ApiActivate \/ ApiRestart \/ Background

ApiSpec == ApiInit /\ [][ApiNext]_apiVars

(* asyncio keeps an operation going, each call being bounded by the RPC    *)
(* timeout; the operator signs in again whenever the session is gone and   *)
(* presses continue when it is offered time and again, and the publisher   *)
(* that disturbed a stage disconnects.                                     *)
FairApiSpec ==
    /\ ApiSpec
    /\ WF_apiVars(Proceed /\ UNCHANGED login) /\ WF_apiVars(Logout /\ UNCHANGED login)
    /\ WF_apiVars(login # "live" /\ SignIn) /\ SF_apiVars(Pending # {} /\ ApiStage)
-----------------------------------------------------------------------------
(* An incomplete release is always brought to its end by pressing continue *)
(* (README, incomplete release): whatever had been done of it, no failure, *)
(* restart or login leaves it incomplete for ever.                         *)
IncompleteGetsStaged ==
    \A n \in Releases : status[n] = "incomplete" ~> status[n] = "staged"

(* What the gates let through is never refused by the database for what    *)
(* another request has left there: nothing else is incomplete when a       *)
(* release is reserved, the one that is continued was not finished         *)
(* meanwhile, and an activation is of a staged release and was not         *)
(* executed before (no RELEASE_CONFLICT).                                  *)
NeverRefused ==
    /\ step = "reserving" => ~Blocked(id) /\ \A n \in ByRequest(id) : status[n] = "incomplete"
    /\ step = "marking" => Recorded(name) = Volumes
    /\ step = "activating" => status[name] = "staged" /\ operations[id] = NoRelease

(* "every release mutation failure is fail closed and reconcilable" (test  *)
(* of the release manager): after a failed stage and with the publisher    *)
(* disconnected the operator is offered to stage again.                    *)
FailedStageCanBeRepeated ==
    step = "failed" /\ ~connected => CanContinue \/ CanCreate
=============================================================================
