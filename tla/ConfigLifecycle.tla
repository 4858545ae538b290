--------------------------- MODULE ConfigLifecycle ---------------------------
(***************************************************************************)
(* The life of config.yaml: ConfigRepository.save_yaml replaces it, the    *)
(* management container goes on with the configuration it was started      *)
(* with, and releases in the database belong to the datasets of some       *)
(* configuration.  A save holds the management API's mutation lock and the *)
(* file lock from its first read to the replacement, and so excludes stage *)
(* and activate; in between it waits for TrueNAS and touches the disk, and *)
(* the container may die at each of those points.                          *)
(*                                                                         *)
(* A configuration is what the release checks look at, the dataset of each *)
(* publisher volume, and everything else.  The source revision is a hash   *)
(* of the file, so it is the configuration itself here.  The set of        *)
(* publisher volumes is the same in all configurations.                    *)
(***************************************************************************)
EXTENDS ReleaseStore

CONSTANTS
    Rest,       \* the parts of a configuration that no release depends on
    Editors,    \* browser sessions with a draft
    NoConfig,   \* there is no file
    Nobody      \* no save is running

Configs == [datasets : [Volumes -> Datasets], rest : Rest]

ASSUME ConfigAssumption ==
    /\ NoConfig \notin Configs
    /\ Nobody \notin Editors

VARIABLES
    file,       \* config.yaml
    history,    \* the contents kept in history/
    created,    \* releases.sqlite3 exists
    startup,    \* the configuration of the management container
    base,       \* editor -> the base_revision of its draft
    saver,      \* the editor whose save is running
    proposed,   \* the configuration being saved
    step,       \* where the save is
    staging     \* request_id of the running stage

disk == <<file, history>>
save == <<saver, proposed, step>>
vars == <<db, disk, created, startup, base, save, staging>>

MaybeConfigs == Configs \cup {NoConfig}

TypeOK ==
    /\ StoreTypeOK
    /\ file \in MaybeConfigs
    /\ history \subseteq Configs
    /\ created \in BOOLEAN
    /\ startup \in MaybeConfigs
    /\ base \in [Editors -> MaybeConfigs]
    /\ saver \in Editors \cup {Nobody}
    /\ proposed \in MaybeConfigs
    /\ step \in {"idle", "validating", "preserving", "replacing"}
    /\ staging \in Requests \cup {NoRequest}

(* A new installation: setup mode.                                         *)
Init ==
    /\ StoreInit
    /\ file = NoConfig /\ history = {} /\ created = FALSE
    /\ startup = NoConfig
    /\ base = [e \in Editors |-> NoConfig]
    /\ saver = Nobody /\ proposed = NoConfig /\ step = "idle"
    /\ staging = NoRequest

(* config.snapshot_path                                                    *)
SnapshotPath(config, v, n) == <<config.datasets[v], n>>

(* record.snapshots is what the configuration calls the release's snapshots *)
Matches(n, config) == \A v \in Volumes : mapping[n][v] = SnapshotPath(config, v, n)

(* The mutation lock.                                                      *)
Busy == saver # Nobody \/ staging # NoRequest
-----------------------------------------------------------------------------
(* Saving.                                                                 *)

(* GET config: the dashboard keeps the revision it has shown.              *)
OpenDraft(e) ==
    /\ base' = [base EXCEPT ![e] = file]
    /\ UNCHANGED <<db, disk, created, startup, save, staging>>

(* Mutant of Save: base_revision is not compared.                          *)
Save_AnyBase(e, config) ==
    /\ ~Busy
    /\ saver' = e /\ proposed' = config /\ step' = "validating"
    /\ UNCHANGED <<db, disk, created, startup, base, staging>>

(* Mutant of Save: a running stage is not waited for.                      *)
Save_DuringStage(e, config) ==
    /\ saver = Nobody
    /\ file = base[e]
    /\ saver' = e /\ proposed' = config /\ step' = "validating"
    /\ UNCHANGED <<db, disk, created, startup, base, staging>>

(* Both locks are taken and the file is the one the draft was opened on;   *)
(* otherwise OPERATION_BUSY or CONFIG_CHANGED.                             *)
Save(e, config) ==
    /\ ~Busy
    /\ file = base[e]
    /\ saver' = e /\ proposed' = config /\ step' = "validating"
    /\ UNCHANGED <<db, disk, created, startup, base, staging>>

EndSave == saver' = Nobody /\ proposed' = NoConfig /\ step' = "idle"

(* Mutant of Compatible: only the staged releases are looked at.           *)
Compatible_ActiveOnly(config) ==
    IF ~created THEN file = NoConfig
    ELSE active # NoRelease => Matches(active, config)

(* Mutant of Compatible: the active release is not looked at.              *)
Compatible_PendingOnly(config) ==
    IF ~created THEN file = NoConfig
    ELSE Pending # {} => file # NoConfig /\ config.datasets = file.datasets

(* _validate_release_state                                                 *)
Compatible(config) ==
    IF ~created THEN file = NoConfig
    ELSE /\ active # NoRelease => Matches(active, config)
         /\ Pending # {} => file # NoConfig /\ config.datasets = file.datasets

(* The answer of the discovery, validation and the release state.  Any of  *)
(* them may end the save.                                                  *)
Validate ==
    /\ step = "validating"
    /\ \/ Compatible(proposed) /\ step' = "preserving" /\ UNCHANGED <<saver, proposed>>
       \/ EndSave
    /\ UNCHANGED <<db, disk, created, startup, base, staging>>

(* Mutant of Preserve: an OSError is ignored.                              *)
Preserve_BestEffort ==
    /\ step = "preserving"
    /\ step' = "replacing" /\ history' \in {history, history \cup ({file} \ {NoConfig})}
    /\ UNCHANGED <<saver, proposed>>
    /\ UNCHANGED <<db, file, created, startup, base, staging>>

(* _preserve_history; an OSError may come after the copy was written.      *)
Preserve ==
    /\ step = "preserving"
    /\ \/ /\ step' = "replacing" /\ UNCHANGED <<saver, proposed>>
          /\ history' = history \cup ({file} \ {NoConfig})
       \/ EndSave /\ history' \in {history, history \cup ({file} \ {NoConfig})}
    /\ UNCHANGED <<db, file, created, startup, base, staging>>

(* _atomic_replace.  The browser goes on from the new revision, unless an  *)
(* OSError tells it the save failed, which may come after os.replace.      *)
Replace ==
    /\ step = "replacing"
    /\ \/ file' = proposed /\ base' = [base EXCEPT ![saver] = proposed]
       \/ file' \in {file, proposed} /\ UNCHANGED base
    /\ EndSave
    /\ UNCHANGED <<db, history, created, startup, staging>>
-----------------------------------------------------------------------------
(* Release operations, as far as they depend on the configuration.  They   *)
(* use the startup configuration, and the API refuses them while another   *)
(* one is saved (restart_required).                                        *)

(* restart_required is false.                                              *)
UpToDate == startup # NoConfig /\ startup = file

(* StageId of ManagementApi: the incomplete release's request, or a new one. *)
StageId(rid) ==
    \/ \E n \in Pending : request[n] = rid
    \/ Pending = {} /\ ByRequest(rid) = {} /\ operations[rid] = NoRelease

Stage(rid) ==
    /\ ~Busy
    /\ UpToDate
    /\ StageId(rid)
    /\ staging' = rid
    /\ UNCHANGED <<db, disk, created, startup, base, save>>

ReserveRelease ==
    /\ staging # NoRequest
    /\ \E n \in Releases : Reserve(n, staging)
    /\ UNCHANGED <<disk, created, startup, base, save, staging>>

RecordSnapshot ==
    /\ staging # NoRequest
    /\ \E n \in ByRequest(staging), v \in Volumes :
          AddSnapshot(n, v, SnapshotPath(startup, v, n))
    /\ UNCHANGED <<disk, created, startup, base, save, staging>>

(* existing.snapshots = expected_snapshots, then mark_staged.              *)
FinishStage ==
    /\ staging # NoRequest
    /\ \E n \in ByRequest(staging) : Matches(n, startup) /\ MarkStaged(n, Volumes)
    /\ staging' = NoRequest
    /\ UNCHANGED <<disk, created, startup, base, save>>

(* The stage fails somewhere.                                              *)
AbandonStage ==
    /\ staging # NoRequest
    /\ staging' = NoRequest
    /\ UNCHANGED <<db, disk, created, startup, base, save>>

(* The names of the volumes are compared, not the snapshots.               *)
Activate(n, rid) ==
    /\ ~Busy
    /\ UpToDate
    /\ Recorded(n) = Volumes
    /\ SetActive(n, rid)
    /\ UNCHANGED <<disk, created, startup, base, save, staging>>
-----------------------------------------------------------------------------
(* The management container starts, after a crash or when the app is       *)
(* restarted: in setup mode as long as there is no file.                   *)
RestartManagement ==
    /\ startup' = file
    /\ created' = (created \/ file # NoConfig)
    /\ EndSave /\ staging' = NoRequest
    /\ UNCHANGED <<db, disk, base>>

Next ==
    \/ \E e \in Editors : OpenDraft(e) \/ \E config \in Configs : Save(e, config)
    \/ Validate \/ Preserve \/ Replace
    \/ \E rid \in Requests : Stage(rid) \/ \E n \in Releases : Activate(n, rid)
    \/ ReserveRelease \/ RecordSnapshot \/ FinishStage \/ AbandonStage
    \/ RestartManagement

Spec == Init /\ [][Next]_vars
-----------------------------------------------------------------------------
(* Properties.                                                             *)

(* What has been recorded of an incomplete release are snapshots of the    *)
(* datasets in the saved configuration, whatever was saved, failed or      *)
(* restarted since it was begun: the release can still be completed.       *)
PendingMatchesFile ==
    \A n \in Pending : file # NoConfig /\
        \A v \in Recorded(n) : mapping[n][v] = SnapshotPath(file, v, n)

(* A stage runs with the configuration that is saved, from its gate to its *)
(* end (restart_required).                                                 *)
StageUsesSaved == staging # NoRequest => startup = file

(* A save replaces only what its editor has seen: no draft overwrites a    *)
(* change that was made after it was opened (base_revision).               *)
SeenStep == file' # file => file = base[saver]
NoLostUpdate == [][SeenStep]_vars

(* Every content of the file that was ever replaced is in the history,     *)
(* even if the container died in the middle of the save.                   *)
KeptStep == file' # file /\ file # NoConfig => file \in history'
HistoryComplete == [][KeptStep]_vars

(* A save never takes clients away from the active release: if the reset   *)
(* API can serve it under the saved configuration, it can under the next.  *)
ServableStep ==
    active # NoRelease /\ file # NoConfig /\ Matches(active, file) /\ file' # file
        => Matches(active, file')
SaveKeepsActiveServable == [][ServableStep]_vars

(* "Active release snapshot mapping is invalid" (_active_release of the    *)
(* coordinator) is a damage no operation of the service brings about: the  *)
(* active release is one of the saved configuration's datasets.            *)
ActiveMatchesFile == active # NoRelease => Matches(active, file)
=============================================================================
