---------------------------- MODULE ReleaseStore ----------------------------
(***************************************************************************)
(* The release database, releases.sqlite3: which releases exist, which     *)
(* snapshot each of their volumes is, which release is active, and which   *)
(* activation requests have been executed.  Every write method of          *)
(* ReleaseStore is one BEGIN IMMEDIATE transaction, so it is one action    *)
(* here; an action is enabled when the transaction changes something.      *)
(* What the methods answer is the subject of ReleaseStoreCalls; the        *)
(* ReleaseManager runs these transactions between its calls to TrueNAS.    *)
(***************************************************************************)
EXTENDS Naturals, FiniteSets

CONSTANTS
    Releases,       \* release names
    Volumes,        \* publisher volumes
    Datasets,       \* datasets the volumes may be kept on
    Requests,       \* request ids
    NoRelease, NoRequest, NoSnapshot

(* A snapshot is called <dataset>@<release>.                               *)
Snapshots == Datasets \X Releases

ASSUME StoreAssumption ==
    /\ Volumes # {}
    /\ NoRelease \notin Releases
    /\ NoRequest \notin Requests
    /\ NoSnapshot \notin Snapshots

VARIABLES
    status,      \* releases.status, or "absent"
    request,     \* releases.request_id
    mapping,     \* release_volumes: release -> volume -> snapshot
    active,      \* settings.active_release
    operations   \* operations: request id -> the release it activated

db == <<status, request, mapping, active, operations>>

StoreTypeOK ==
    /\ status \in [Releases -> {"absent", "incomplete", "staged"}]
    /\ request \in [Releases -> Requests \cup {NoRequest}]
    /\ mapping \in [Releases -> [Volumes -> Snapshots \cup {NoSnapshot}]]
    /\ active \in Releases \cup {NoRelease}
    /\ operations \in [Requests -> Releases \cup {NoRelease}]

StoreInit ==
    /\ status = [n \in Releases |-> "absent"]
    /\ request = [n \in Releases |-> NoRequest]
    /\ mapping = [n \in Releases |-> [v \in Volumes |-> NoSnapshot]]
    /\ active = NoRelease
    /\ operations = [id \in Requests |-> NoRelease]

Pending == {n \in Releases : status[n] = "incomplete"}

ByRequest(id) == {n \in Releases : request[n] = id}

(* Another request's release must be resumed first.                        *)
Blocked(id) == \E n \in Pending : request[n] # id

Recorded(n) == {v \in Volumes : mapping[n][v] # NoSnapshot}

(* release_volumes.snapshot is UNIQUE.                                     *)
Owned(s) == \E n \in Releases, v \in Volumes : mapping[n][v] = s
-----------------------------------------------------------------------------
(* Mutant of Reserve: the pending release is not looked for.               *)
Reserve_Unchecked(n, id) ==
    /\ ByRequest(id) = {} /\ status[n] = "absent"
    /\ status' = [status EXCEPT ![n] = "incomplete"]
    /\ request' = [request EXCEPT ![n] = id]
    /\ UNCHANGED <<mapping, active, operations>>

(* INSERT INTO releases ... ON CONFLICT(request_id) DO NOTHING.            *)
Reserve(n, id) ==
    /\ ~Blocked(id)
    /\ ByRequest(id) = {}
    /\ status[n] = "absent"
    /\ status' = [status EXCEPT ![n] = "incomplete"]
    /\ request' = [request EXCEPT ![n] = id]
    /\ UNCHANGED <<mapping, active, operations>>

(* Mutant of AddSnapshot: the status of the release is not looked at.      *)
AddSnapshot_AnyStatus(n, v, s) ==
    /\ status[n] # "absent" /\ mapping[n][v] = NoSnapshot /\ ~Owned(s)
    /\ mapping' = [mapping EXCEPT ![n][v] = s]
    /\ UNCHANGED <<status, request, active, operations>>

(* Mutant of AddSnapshot: release_volumes.snapshot is not UNIQUE.          *)
AddSnapshot_Shared(n, v, s) ==
    /\ status[n] = "incomplete" /\ mapping[n][v] = NoSnapshot
    /\ mapping' = [mapping EXCEPT ![n][v] = s]
    /\ UNCHANGED <<status, request, active, operations>>

(* INSERT OR IGNORE INTO release_volumes: nothing is inserted when the     *)
(* volume has a snapshot already or the snapshot has another owner.        *)
AddSnapshot(n, v, s) ==
    /\ status[n] = "incomplete"
    /\ mapping[n][v] = NoSnapshot
    /\ ~Owned(s)
    /\ mapping' = [mapping EXCEPT ![n][v] = s]
    /\ UNCHANGED <<status, request, active, operations>>

MarkStaged(n, expected) ==
    /\ Recorded(n) = expected
    /\ status[n] # "absent"
    /\ status' = [status EXCEPT ![n] = "staged"]
    /\ UNCHANGED <<request, mapping, active, operations>>

(* Mutant of SetActive: a request that was executed is executed again.     *)
SetActive_Replayed(n, id) ==
    /\ operations[id] \in {NoRelease, n} /\ status[n] = "staged"
    /\ active' = n
    /\ operations' = [operations EXCEPT ![id] = n]
    /\ UNCHANGED <<status, request, mapping>>

(* ReleaseStore.activate: the pointer and the operation in one transaction *)
SetActive(n, id) ==
    /\ operations[id] = NoRelease
    /\ status[n] = "staged"
    /\ active' = n
    /\ operations' = [operations EXCEPT ![id] = n]
    /\ UNCHANGED <<status, request, mapping>>

(* The database by itself: nothing but these four transactions changes it, *)
(* in any order and with any arguments.                                    *)
Transaction ==
    \/ \E n \in Releases, id \in Requests : Reserve(n, id) \/ SetActive(n, id)
    \/ \E n \in Releases, v \in Volumes, s \in Snapshots : AddSnapshot(n, v, s)
    \/ \E n \in Releases, expected \in SUBSET Volumes : MarkStaged(n, expected)

StoreSpec == StoreInit /\ [][Transaction]_db
-----------------------------------------------------------------------------
(* Properties of the database.                                             *)

(* One release at a time is being staged, and no request has two: a stage  *)
(* that is repeated finds the release it began (reserve).                  *)
OneIncomplete ==
    /\ \A m, n \in Pending : m = n
    /\ \A m, n \in Releases : request[m] = request[n] /\ m # n => request[n] = NoRequest

(* The active release is staged, and some executed activation chose it.    *)
ActiveIsStaged ==
    active # NoRelease =>
        /\ status[active] = "staged"
        /\ \E id \in Requests : operations[id] = active

(* No snapshot belongs to two volumes or releases: what a clone is made    *)
(* from identifies its release.                                            *)
SnapshotOwnedOnce ==
    \A m, n \in Releases : \A v, w \in Volumes :
        mapping[m][v] = mapping[n][w] /\ <<m, v>> # <<n, w>> => mapping[n][w] = NoSnapshot

(* What has been recorded stays: a volume's snapshot is never replaced or  *)
(* removed, and a staged release is never changed in any way.              *)
StoreFreezes ==
    \A n \in Releases :
        /\ \A v \in Volumes : mapping[n][v] # NoSnapshot => mapping'[n][v] = mapping[n][v]
        /\ status[n] = "staged" => status'[n] = "staged" /\ mapping'[n] = mapping[n]
Immutable == [][StoreFreezes]_db

(* The active pointer moves only for an activation that has not been       *)
(* executed before: a repeated request cannot take clients back to a       *)
(* release that another activation has replaced.                           *)
PointerStep ==
    active' # active =>
        \E id \in Requests : operations[id] = NoRelease /\ operations'[id] = active'
ReplayHarmless == [][PointerStep]_db
=============================================================================
