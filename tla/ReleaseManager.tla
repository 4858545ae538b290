--------------------------- MODULE ReleaseManager ---------------------------
(***************************************************************************)
(* The publishing side of the service: ReleaseManager.stage takes the      *)
(* master extents away from the publisher, snapshots every master volume,  *)
(* records the snapshots in the release database and makes the masters     *)
(* visible again; ReleaseManager.activate makes a staged release the one   *)
(* clients are reset to.                                                   *)
(*                                                                         *)
(* The calls to TrueNAS and the transactions of ReleaseStore are steps of  *)
(* their own.  Between any two of them the publisher may log in, write or  *)
(* log out, the call may raise with or without having taken effect, and    *)
(* the container may be restarted; a stage is then repeated, normally with *)
(* the same request id.  The manager's lock keeps two operations apart.    *)
(***************************************************************************)
EXTENDS ReleaseStore

CONSTANTS
    Dataset,        \* volume -> the dataset its master extent shows
    Leftover,       \* snapshots that are there before the service is used
    NoContent,      \* content of a snapshot that does not exist
    MaxWrites,      \* bound: writes of the publisher
    MaxFaults       \* bound: failing calls, restarts and untimely logins

ASSUME ManagerAssumption ==
    /\ Dataset \in [Volumes -> Datasets]
    /\ Leftover \subseteq Snapshots
    /\ NoContent \notin Nat \cup [Volumes -> Nat]
    /\ MaxWrites \in Nat
    /\ MaxFaults \in Nat

VARIABLES
    enabled,    \* volumes whose master extent is enabled
    snaps,      \* snapshot -> the write it was taken after, or NoContent
    writes,     \* writes to the master volumes so far
    connected,  \* there is a session the manager would match
    step,       \* where the operation is, or how the last one ended
    todo,       \* volumes the current loop has still to handle
    name,       \* release_name of the operation
    id,         \* request_id of the operation
    faults      \* how much of MaxFaults has been used

backend == <<enabled, snaps>>
publisher == <<writes, connected>>
control == <<step, todo, name, id>>
vars == <<db, backend, publisher, control, faults>>

Contents == 0..MaxWrites

Resting == {"idle", "failed", "staged", "activated"}
Steps == Resting \cup
    {"disabling", "verifyOff", "reserving", "snapshotting", "checking", "enabling",
     "verifyOn", "marking", "closingFirst", "closing", "activating"}

TypeOK ==
    /\ StoreTypeOK
    /\ enabled \subseteq Volumes
    /\ snaps \in [Snapshots -> Contents \cup {NoContent}]
    /\ writes \in Contents
    /\ connected \in BOOLEAN
    /\ step \in Steps
    /\ todo \subseteq Volumes
    /\ name \in Releases \cup {NoRelease}
    /\ id \in Requests \cup {NoRequest}
    /\ faults \in 0..MaxFaults

Init ==
    /\ StoreInit
    /\ enabled \in SUBSET Volumes
    /\ snaps = [s \in Snapshots |-> IF s \in Leftover THEN 0 ELSE NoContent]
    /\ writes = 0
    /\ connected \in BOOLEAN
    /\ step = "idle"
    /\ todo = {}
    /\ name = NoRelease
    /\ id = NoRequest
    /\ faults = 0
-----------------------------------------------------------------------------
(* Control of one operation.                                               *)

Current == CHOOSE v \in todo : TRUE

GoTo(next, work) ==
    /\ step' = next
    /\ todo' = work
    /\ UNCHANGED id

Advance(v, next, work) ==
    IF todo = {v} THEN GoTo(next, work) ELSE GoTo(step, todo \ {v})

(* An exception once mutation_started is set: _best_effort_disable.        *)
Raise == GoTo("closing", Volumes)

Fault == faults < MaxFaults /\ faults' = faults + 1

(* config.snapshot_path.  The configuration may give two volumes the same  *)
(* dataset; then they have the same snapshot.                              *)
SnapshotPath(v, n) == <<Dataset[v], n>>

Exists(s) == snaps[s] # NoContent
-----------------------------------------------------------------------------
(* stage.                                                                  *)

(* Mutant of NextName: only the database is asked.                         *)
NextName_KnownOnly(n) == status[n] = "absent"

(* _next_release_name: known to neither the database nor TrueNAS.  Which   *)
(* names come up depends on the day, so any of them may.                   *)
NextName(n) ==
    /\ status[n] = "absent"
    /\ \A v \in Volumes : ~Exists(SnapshotPath(v, n))

(* A stage that was finished is answered again from the database.  Else,   *)
(* with no session, mutation begins; a refusal up to there changes         *)
(* nothing.  Release names run out only in a bounded model.                *)
Stage(rid) ==
    /\ step \in Resting
    /\ id' = rid
    /\ \/ \E n \in ByRequest(rid) :
              status[n] = "staged" /\ step' = "staged" /\ todo' = {} /\ name' = n
       \/ /\ \A n \in ByRequest(rid) : status[n] # "staged"
          /\ ~connected
          /\ Pending # {} \/ \E n \in Releases : NextName(n)
          /\ step' = "disabling" /\ todo' = Volumes /\ name' = NoRelease
    /\ UNCHANGED <<db, backend, publisher, faults>>

(* One update_extent of _set_all_enabled; its answer is not looked at.     *)
SetEnabled(from, done, next) ==
    /\ step = from
    /\ \/ enabled' = done /\ Advance(Current, next, {}) /\ UNCHANGED faults
       \/ Fault /\ enabled' = enabled /\ Advance(Current, next, {})
       \/ Fault /\ enabled' \in {enabled, done} /\ Raise
    /\ UNCHANGED <<db, snaps, publisher, name>>

Disable == SetEnabled("disabling", enabled \ {Current}, "verifyOff")
Enable == SetEnabled("enabling", enabled \cup {Current}, "verifyOn")

(* Mutant of VerifyOff: the extents are not read back.                     *)
VerifyOff_Unread ==
    /\ step = "verifyOff" /\ ~connected
    /\ GoTo("reserving", {})
    /\ UNCHANGED <<db, backend, publisher, name, faults>>

(* _verify_enabled(False) and the second _require_no_session.              *)
VerifyOff ==
    /\ step = "verifyOff"
    /\ \/ enabled = {} /\ ~connected /\ GoTo("reserving", {}) /\ UNCHANGED faults
       \/ (enabled # {} \/ connected) /\ Raise /\ UNCHANGED faults
       \/ Fault /\ Raise
    /\ UNCHANGED <<db, backend, publisher, name>>

(* The release of this request, or a new one reserved under a free name.   *)
(* reserve raises while another request's release is incomplete.           *)
ReserveRelease ==
    /\ step = "reserving"
    /\ \/ \E n \in ByRequest(id) :
              /\ name' = n /\ GoTo("snapshotting", Volumes)
              /\ UNCHANGED <<db, faults>>
       \/ /\ ByRequest(id) = {}
          /\ \E n \in Releases :
                /\ NextName(n) /\ name' = n /\ Reserve(n, id)
                /\ \/ GoTo("snapshotting", Volumes) /\ UNCHANGED faults
                   \/ Fault /\ Raise
       \/ ByRequest(id) = {} /\ Blocked(id) /\ Raise /\ UNCHANGED <<db, name, faults>>
       \/ Fault /\ Raise /\ UNCHANGED <<db, name>>
    /\ UNCHANGED <<backend, publisher>>

(* Mutant of TakeSnapshot: the snapshot is recorded before it is taken.    *)
TakeSnapshot_RecordFirst ==
    LET v == Current
        s == SnapshotPath(v, name)
    IN  /\ step = "snapshotting"
        /\ IF mapping[name][v] = NoSnapshot
           THEN AddSnapshot(name, v, s) /\ UNCHANGED <<snaps, step, todo, id, faults>>
           ELSE /\ IF Exists(s) THEN UNCHANGED snaps
                               ELSE snaps' = [snaps EXCEPT ![s] = writes]
                /\ Advance(v, "checking", {})
                /\ UNCHANGED <<db, faults>>
        /\ UNCHANGED <<enabled, publisher, name>>

(* Mutant of TakeSnapshot: the snapshot is taken without looking whether   *)
(* an earlier attempt has taken it, and TrueNAS refuses.                   *)
TakeSnapshot_Always ==
    LET v == Current
        s == SnapshotPath(v, name)
    IN  /\ step = "snapshotting"
        /\ \/ /\ ~Exists(s)
              /\ snaps' = [snaps EXCEPT ![s] = writes]
              /\ \/ AddSnapshot(name, v, s) /\ Advance(v, "checking", {}) /\ UNCHANGED faults
                 \/ Fault /\ Raise /\ UNCHANGED db
           \/ Exists(s) /\ Raise /\ UNCHANGED <<db, snaps, faults>>
        /\ UNCHANGED <<enabled, publisher, name>>

(* Mutant of TakeSnapshot: a master is enabled again as soon as it has its *)
(* snapshot.                                                               *)
TakeSnapshot_Enables ==
    LET v == Current
        s == SnapshotPath(v, name)
    IN  /\ step = "snapshotting"
        /\ \/ /\ ~Exists(s) /\ snaps' = [snaps EXCEPT ![s] = writes]
              /\ UNCHANGED <<db, enabled, step, todo, id>>
           \/ /\ Exists(s) /\ enabled' = enabled \cup {v}
              /\ AddSnapshot(name, v, s) \/ (Owned(s) /\ UNCHANGED db)
              /\ Advance(v, "checking", {}) /\ UNCHANGED snaps
        /\ UNCHANGED <<publisher, name, faults>>

(* The loop body for one volume: the snapshot is taken unless it is there, *)
(* and once it is there it is recorded.  add_snapshot does nothing when it *)
(* is recorded already, for this volume or for another.                    *)
TakeSnapshot ==
    LET v == Current
        s == SnapshotPath(v, name)
        recorded == \/ AddSnapshot(name, v, s)
                    \/ Owned(s) /\ UNCHANGED db
    IN  /\ step = "snapshotting"
        /\ \/ /\ ~Exists(s)
              /\ snaps' = [snaps EXCEPT ![s] = writes]
              /\ UNCHANGED db
              /\ \/ UNCHANGED <<step, todo, id, faults>>
                 \/ Fault /\ Raise
           \/ /\ Exists(s) /\ recorded
              /\ UNCHANGED snaps
              /\ \/ Advance(v, "checking", {}) /\ UNCHANGED faults
                 \/ Fault /\ Raise
           \/ Fault /\ Raise /\ UNCHANGED <<db, snaps>>
        /\ UNCHANGED <<enabled, publisher, name>>

(* existing.snapshots != expected_snapshots, and _verify_target_luns.      *)
CheckSet ==
    /\ step = "checking"
    /\ \/ /\ \A v \in Volumes : mapping[name][v] = SnapshotPath(v, name)
          /\ GoTo("enabling", Volumes) /\ UNCHANGED faults
       \/ /\ \E v \in Volumes : mapping[name][v] # SnapshotPath(v, name)
          /\ Raise /\ UNCHANGED faults
       \/ Fault /\ Raise
    /\ UNCHANGED <<db, backend, publisher, name>>

(* _verify_final_extents and the last look at the sessions; see VerifyOn   *)
(* of ResetCoordinator.                                                    *)
VerifyOn ==
    /\ step = "verifyOn"
    /\ \/ enabled = Volumes /\ ~connected /\ GoTo("marking", {}) /\ UNCHANGED faults
       \/ /\ enabled = Volumes /\ connected
          /\ GoTo("closingFirst", Volumes) /\ UNCHANGED faults
       \/ enabled # Volumes /\ Raise /\ UNCHANGED faults
       \/ Fault /\ Raise
    /\ UNCHANGED <<db, backend, publisher, name>>

(* mark_staged; reading the record back afterwards may still raise.        *)
Mark ==
    /\ step = "marking"
    /\ \/ MarkStaged(name, Volumes) /\ GoTo("staged", {}) /\ UNCHANGED faults
       \/ Recorded(name) # Volumes /\ Raise /\ UNCHANGED <<db, faults>>
       \/ Fault /\ Raise /\ (MarkStaged(name, Volumes) \/ UNCHANGED db)
    /\ UNCHANGED <<backend, publisher, name>>

(* One update_extent of _best_effort_disable.                              *)
BestEffortDisable(from, next, after) ==
    /\ step = from
    /\ \/ enabled' = enabled \ {Current} /\ UNCHANGED faults
       \/ Fault /\ UNCHANGED enabled
    /\ Advance(Current, next, after)
    /\ UNCHANGED <<db, snaps, publisher, name>>

CloseFirst == BestEffortDisable("closingFirst", "closing", Volumes)
Close == BestEffortDisable("closing", "failed", {})
-----------------------------------------------------------------------------
(* activate.                                                               *)

(* Everything activate reads before the transaction: the record, the       *)
(* snapshots, sessions and extents.  A refusal changes nothing.            *)
ActivateRelease(n, rid) ==
    /\ step \in Resting
    /\ status[n] = "staged" /\ Recorded(n) = Volumes
    /\ \A v \in Volumes : Exists(mapping[n][v])
    /\ ~connected
    /\ enabled = Volumes
    /\ step' = "activating" /\ todo' = {} /\ name' = n /\ id' = rid
    /\ UNCHANGED <<db, backend, publisher, faults>>

(* store.activate: by now the publisher may have logged in.  A request     *)
(* that was executed before is answered from the database, or refused if   *)
(* it was for another release.                                             *)
CommitActivation ==
    /\ step = "activating"
    /\ \/ SetActive(name, id) /\ GoTo("activated", {}) /\ UNCHANGED faults
       \/ operations[id] = name /\ GoTo("activated", {}) /\ UNCHANGED <<db, faults>>
       \/ /\ operations[id] \notin {name, NoRelease}
          /\ GoTo("failed", {}) /\ UNCHANGED <<db, faults>>
       \/ Fault /\ GoTo("failed", {}) /\ (SetActive(name, id) \/ UNCHANGED db)
    /\ UNCHANGED <<backend, publisher, name>>
-----------------------------------------------------------------------------
(* The publisher's initiator, and restarts.                                *)

(* The publisher logs in when it likes; while a release is being staged    *)
(* that counts as a fault.                                                 *)
Login ==
    /\ ~connected /\ connected' = TRUE
    /\ \/ step \in Resting /\ Pending = {} /\ UNCHANGED faults
       \/ ~(step \in Resting /\ Pending = {}) /\ Fault
    /\ UNCHANGED <<db, backend, writes, control>>

Logout ==
    /\ connected /\ connected' = FALSE
    /\ UNCHANGED <<db, backend, writes, control, faults>>

Write ==
    /\ connected /\ enabled # {}
    /\ writes < MaxWrites /\ writes' = writes + 1
    /\ UNCHANGED <<db, backend, connected, control, faults>>

(* The management container is restarted in the middle of an operation.    *)
Restart ==
    /\ step \notin Resting
    /\ Fault
    /\ GoTo("idle", {})
    /\ UNCHANGED <<db, backend, publisher, name>>
-----------------------------------------------------------------------------
Proceed ==
    \/ Disable \/ VerifyOff \/ ReserveRelease \/ TakeSnapshot \/ CheckSet
    \/ Enable \/ VerifyOn \/ Mark \/ CloseFirst \/ Close \/ CommitActivation

Environment == Login \/ Logout \/ Write \/ Restart

Next ==
    \/ Proceed \/ Environment
    \/ \E rid \in Requests : Stage(rid)
    \/ \E n \in Releases, rid \in Requests : ActivateRelease(n, rid)

Spec == Init /\ [][Next]_vars
-----------------------------------------------------------------------------
(* Properties.                                                             *)

(* The snapshots of a staged release are all there and all of one moment:  *)
(* the publisher wrote nothing between the first and the last of them,     *)
(* even when they were taken by several attempts with failures, restarts   *)
(* and logins in between.                                                  *)
StagedIsConsistent ==
    \A n \in Releases : status[n] = "staged" =>
        \E content \in Contents : \A v \in Volumes :
            /\ mapping[n][v] = SnapshotPath(v, n)
            /\ snaps[SnapshotPath(v, n)] = content

(* While some but not all snapshots of a release exist, the masters are    *)
(* disabled (TEST-PLAN, incomplete release and reconciliation).            *)
PartialKeepsMastersOff ==
    \A n \in Pending :
        LET taken == {v \in Volumes : Exists(SnapshotPath(v, n))}
        IN  taken \notin {{}, Volumes} => enabled = {}

(* The database never records a snapshot that does not exist.              *)
RecordedExists ==
    \A n \in Releases, v \in Volumes :
        mapping[n][v] # NoSnapshot => Exists(mapping[n][v])

(* A snapshot is taken only while every master extent is disabled, and     *)
(* only of the one release being staged; no snapshot ever changes.         *)
SnapshotStep ==
    \A s \in Snapshots : snaps'[s] # snaps[s] =>
        ~Exists(s) /\ enabled = {} /\ s[2] \in Pending
SnapshotsOnlyWhenOff == [][SnapshotStep]_vars

(* The releases as the game PCs see them: what the recorded snapshots of a *)
(* staged release hold.                                                    *)
Published ==
    [n \in Releases |->
        IF status[n] = "staged" THEN [v \in Volumes |-> snaps[mapping[n][v]]] ELSE NoContent]
Publication == INSTANCE ReleasePublication WITH published <- Published

(* Stage and activate, cut short anywhere and repeated, publish releases   *)
(* as ReleasePublication promises: whole, immutable, before activation.    *)
ImplementsPublication == Publication!Spec
=============================================================================
