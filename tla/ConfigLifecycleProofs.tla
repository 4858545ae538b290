------------------------ MODULE ConfigLifecycleProofs ------------------------
(***************************************************************************)
(* Saving the configuration is safe for any configurations, editors,       *)
(* releases and volumes, and the database is used as ReleaseStoreProofs    *)
(* expects it.                                                             *)
(***************************************************************************)
EXTENDS ConfigLifecycle, ReleaseStoreProofs

(* The database is created with the first start after a file was saved,    *)
(* and there are no releases before.                                       *)
Installed ==
    /\ startup # NoConfig => created
    /\ created => file # NoConfig
    /\ ~created => Pending = {} /\ active = NoRelease

(* A running save excludes a stage and has the file its editor has seen.   *)
Saving ==
    /\ saver = Nobody <=> step = "idle"
    /\ step # "idle" => /\ staging = NoRequest
                        /\ proposed \in Configs
                        /\ file = base[saver]

(* What the save has established stays true until the replacement.         *)
Checked ==
    /\ step \in {"preserving", "replacing"} => Compatible(proposed)
    /\ step = "replacing" /\ file # NoConfig => file \in history

StageStarted == staging # NoRequest => startup # NoConfig

Inv ==
    /\ TypeOK
    /\ StoreInv
    /\ Installed
    /\ Saving
    /\ Checked
    /\ StageStarted
    /\ StageUsesSaved
    /\ PendingMatchesFile
-----------------------------------------------------------------------------
LEMMA Initially == Init => Inv
<1> SUFFICES ASSUME Init PROVE Inv
  OBVIOUS
<1> USE DEF Init, StoreInit
<1>1. TypeOK
  BY DEF TypeOK, StoreTypeOK, MaybeConfigs
<1>2. StoreInv
  BY StoreInitInv
<1>4. Installed /\ PendingMatchesFile
  BY DEF Installed, PendingMatchesFile, Pending
<1>3. Saving /\ Checked /\ StageStarted /\ StageUsesSaved
  BY DEF Saving, Checked, StageStarted, StageUsesSaved
<1> QED
  BY <1>1, <1>2, <1>3, <1>4 DEF Inv

(* Stage and activation change the database by its transactions only; a    *)
(* save, however it ends, and a restart not at all.                        *)
LEMMA NextIsTransaction ==
    ASSUME Inv, [Next]_vars
    PROVE  [Transaction]_db
<1>1. CASE ReserveRelease
  BY <1>1 DEF ReserveRelease, Transaction, Inv, TypeOK
<1>2. CASE RecordSnapshot
  <2>1. \A n \in Releases, v \in Volumes : SnapshotPath(startup, v, n) \in Snapshots
    BY <1>2 DEF RecordSnapshot, SnapshotPath, Snapshots, Configs, Inv, StageStarted, TypeOK,
       MaybeConfigs
  <2> QED
    BY <1>2, <2>1 DEF RecordSnapshot, ByRequest, Transaction
<1>3. CASE FinishStage
  BY <1>3 DEF FinishStage, ByRequest, Transaction
<1>4. ASSUME NEW n \in Releases, NEW rid \in Requests, Activate(n, rid) PROVE Transaction
  BY <1>4 DEF Activate, Transaction
<1>5. CASE UNCHANGED db
  BY <1>5
<1> QED
  BY <1>1, <1>2, <1>3, <1>4, <1>5
     DEF Next, OpenDraft, Save, Validate, Preserve, Replace, Stage, AbandonStage,
         RestartManagement, vars

(* The steps of a save and of the browsers leave the database alone.       *)
LEMMA SaveSteps ==
    ASSUME Inv,
           \/ \E e \in Editors : OpenDraft(e)
           \/ \E e \in Editors, config \in Configs : Save(e, config)
           \/ Validate \/ Preserve
    PROVE  Inv'
<1> USE DEF Inv
<1>1. db' = db /\ file' = file /\ created' = created /\ startup' = startup
      /\ staging' = staging
  BY DEF OpenDraft, Save, Validate, Preserve, disk
<1>2. /\ status' = status /\ request' = request /\ mapping' = mapping
      /\ active' = active /\ operations' = operations
  BY <1>1 DEF db
<1>3. StoreInv' /\ Installed' /\ StageStarted' /\ StageUsesSaved' /\ PendingMatchesFile'
  BY <1>1, <1>2, StoreUnchanged DEF Installed, StageStarted, StageUsesSaved,
     PendingMatchesFile, Pending, Recorded, SnapshotPath
<1>4. StoreTypeOK'
  BY <1>2 DEF TypeOK, StoreTypeOK
<1>5. CASE \E e \in Editors : OpenDraft(e)
  <2>1. PICK e \in Editors : OpenDraft(e)
    BY <1>5
  <2>2. base' = [base EXCEPT ![e] = file] /\ UNCHANGED <<history, saver, proposed, step>>
    BY <2>1 DEF OpenDraft, disk, save
  <2>3. TypeOK'
    BY <1>1, <1>4, <2>2 DEF TypeOK
  <2>4. Saving'
    BY <1>1, <2>2 DEF Saving, TypeOK
  <2>5. Checked'
    BY <1>1, <1>2, <2>2 DEF Checked, Compatible, Matches, SnapshotPath, Pending
  <2> QED
    BY <1>3, <2>3, <2>4, <2>5
<1>6. CASE \E e \in Editors, config \in Configs : Save(e, config)
  <2>1. PICK e \in Editors, config \in Configs : Save(e, config)
    BY <1>6
  <2>2. /\ saver' = e /\ proposed' = config /\ step' = "validating"
        /\ file = base[e] /\ saver = Nobody /\ staging = NoRequest
        /\ base' = base /\ history' = history
    BY <2>1 DEF Save, Busy, disk
  <2>3. TypeOK'
    BY <1>1, <1>4, <2>2 DEF TypeOK, MaybeConfigs
  <2>4. Saving' /\ Checked'
    BY <1>1, <2>2, ConfigAssumption DEF Saving, Checked
  <2> QED
    BY <1>3, <2>3, <2>4
<1>7. CASE Validate
  <2>1. base' = base /\ history' = history /\ step = "validating"
    BY <1>7 DEF Validate, disk
  <2>2. CASE Compatible(proposed) /\ step' = "preserving" /\ UNCHANGED <<saver, proposed>>
    <3>1. TypeOK' /\ Saving'
      BY <1>1, <1>4, <2>1, <2>2 DEF TypeOK, Saving
    <3>2. Checked'
      BY <1>1, <1>2, <2>1, <2>2 DEF Checked, Compatible, Matches, SnapshotPath, Pending
    <3> QED
      BY <1>3, <3>1, <3>2
  <2>3. CASE EndSave
    BY <1>1, <1>3, <1>4, <2>1, <2>3 DEF EndSave, TypeOK, MaybeConfigs, Saving, Checked
  <2> QED
    BY <1>7, <2>2, <2>3 DEF Validate
<1>8. CASE Preserve
  <2>1. base' = base /\ step = "preserving" /\ history' \subseteq Configs
    BY <1>8 DEF Preserve, TypeOK, MaybeConfigs
  <2>2. CASE /\ step' = "replacing" /\ UNCHANGED <<saver, proposed>>
             /\ history' = history \cup ({file} \ {NoConfig})
    <3>1. TypeOK' /\ Saving'
      BY <1>1, <1>4, <2>1, <2>2 DEF TypeOK, Saving
    <3>2. Compatible(proposed)'
      BY <1>1, <1>2, <2>1, <2>2 DEF Checked, Compatible, Matches, SnapshotPath, Pending
    <3>3. Checked'
      BY <1>1, <2>2, <3>2 DEF Checked
    <3> QED
      BY <1>3, <3>1, <3>3
  <2>3. CASE EndSave
    BY <1>1, <1>3, <1>4, <2>1, <2>3 DEF EndSave, TypeOK, MaybeConfigs, Saving, Checked
  <2> QED
    BY <1>8, <2>2, <2>3 DEF Preserve
<1> QED
  BY <1>5, <1>6, <1>7, <1>8

LEMMA ReplaceStep ==
    ASSUME Inv, Replace
    PROVE  Inv'
<1> USE DEF Inv
<1>1. /\ step = "replacing" /\ file' \in {file, proposed}
      /\ proposed \in Configs /\ staging = NoRequest /\ saver \in Editors
      /\ base' \in {base, [base EXCEPT ![saver] = proposed]}
      /\ saver' = Nobody /\ proposed' = NoConfig /\ step' = "idle"
      /\ UNCHANGED <<db, history, created, startup, staging>>
  BY DEF Replace, EndSave, Saving, TypeOK
<1>2. UNCHANGED <<status, request, mapping, active, operations>>
  BY <1>1 DEF db
<1>3. TypeOK'
  BY <1>1, <1>2 DEF TypeOK, StoreTypeOK, MaybeConfigs
<1>4. StoreInv' /\ Installed' /\ StageStarted' /\ StageUsesSaved'
  BY <1>1, <1>2, StoreUnchanged, ConfigAssumption
  DEF Installed, StageStarted, StageUsesSaved, Pending
<1>5. Saving' /\ Checked'
  BY <1>1 DEF Saving, Checked
<1>6. Pending # {} => created /\ file # NoConfig /\ proposed.datasets = file.datasets
  BY <1>1 DEF Checked, Compatible, Installed
<1>7. PendingMatchesFile'
  BY <1>1, <1>2, <1>6, ConfigAssumption
  DEF PendingMatchesFile, Pending, Recorded, SnapshotPath
<1> QED
  BY <1>3, <1>4, <1>5, <1>7

LEMMA StageSteps ==
    ASSUME Inv,
           \/ \E rid \in Requests : Stage(rid)
           \/ ReserveRelease \/ RecordSnapshot \/ FinishStage \/ AbandonStage
           \/ \E n \in Releases, rid \in Requests : Activate(n, rid)
    PROVE  Inv'
<1> USE DEF Inv
<1>1. /\ UNCHANGED <<file, history, created, startup, base, saver, proposed, step>>
      /\ saver = Nobody /\ step = "idle" /\ startup # NoConfig /\ startup = file /\ created
      /\ staging' \in Requests \cup {NoRequest}
  BY DEF Stage, ReserveRelease, RecordSnapshot, FinishStage, AbandonStage, Activate, Busy,
     UpToDate, TypeOK, disk, save, Saving, StageStarted, StageUsesSaved, Installed
<1>2. Saving' /\ Checked' /\ Installed' /\ StageStarted' /\ StageUsesSaved'
  BY <1>1 DEF Saving, Checked, Installed, StageStarted, StageUsesSaved
<1>3. StoreInv' /\ TypeOK'
  <2>1. StoreInv'
    BY NextIsTransaction, StoreStep DEF Next
  <2> QED
    BY <1>1, <2>1 DEF TypeOK, StoreInv
<1>4. CASE UNCHANGED db
  BY <1>1, <1>2, <1>3, <1>4
  DEF db, PendingMatchesFile, Pending, Recorded, SnapshotPath
<1>5. CASE \E n \in Releases : Reserve(n, staging) /\ staging # NoRequest
  <2>1. PICK n \in Releases : Reserve(n, staging) /\ staging # NoRequest
    BY <1>5
  <2>2. /\ status' = [status EXCEPT ![n] = "incomplete"] /\ status[n] = "absent"
        /\ request' = [request EXCEPT ![n] = staging] /\ staging \in Requests
        /\ UNCHANGED <<mapping, active, operations>>
    BY <2>1 DEF Reserve, TypeOK
  <2>3. PendingMatchesFile'
    BY <1>1, <2>2 DEF PendingMatchesFile, Pending, Recorded, SnapshotPath, StoreInv,
       AbsentIsEmpty, TypeOK, StoreTypeOK
  <2> QED
    BY <1>2, <1>3, <2>3
<1>6. CASE \E n \in Releases, v \in Volumes : AddSnapshot(n, v, SnapshotPath(startup, v, n))
  <2>1. PICK n \in Releases, v \in Volumes : AddSnapshot(n, v, SnapshotPath(startup, v, n))
    BY <1>6
  <2> DEFINE s == SnapshotPath(startup, v, n)
  <2>3. /\ mapping' = [mapping EXCEPT ![n][v] = s] /\ status[n] = "incomplete"
        /\ UNCHANGED <<status, request, active, operations>>
    BY <2>1 DEF AddSnapshot
  <2> HIDE DEF s
  <2>5. \A m \in Releases, w \in Volumes :
            mapping'[m][w] = IF m = n /\ w = v THEN s ELSE mapping[m][w]
    BY <2>3 DEF TypeOK, StoreTypeOK
  <2>6. \A m \in Releases : Recorded(m)' \subseteq Recorded(m) \cup IF m = n THEN {v} ELSE {}
    BY <2>5 DEF Recorded
  <2>7. s = SnapshotPath(file, v, n)
    BY <1>1 DEF s
  <2>8. PendingMatchesFile'
    BY <1>1, <2>3, <2>5, <2>6, <2>7 DEF PendingMatchesFile, Pending, SnapshotPath, Recorded
  <2> QED
    BY <1>2, <1>3, <2>8
<1>7. CASE \E n \in Releases : MarkStaged(n, Volumes)
  <2>1. PICK n \in Releases : MarkStaged(n, Volumes)
    BY <1>7
  <2>2. /\ status' = [status EXCEPT ![n] = "staged"]
        /\ UNCHANGED <<request, mapping, active, operations>>
    BY <2>1 DEF MarkStaged
  <2> QED
    BY <1>1, <1>2, <1>3, <2>2
    DEF TypeOK, StoreTypeOK, PendingMatchesFile, Pending, Recorded, SnapshotPath
<1>8. CASE \E n \in Releases, rid \in Requests : SetActive(n, rid)
  <2>1. PICK n \in Releases, rid \in Requests : SetActive(n, rid)
    BY <1>8
  <2>2. /\ active' = n /\ operations' = [operations EXCEPT ![rid] = n]
        /\ UNCHANGED <<status, request, mapping>>
    BY <2>1 DEF SetActive
  <2> QED
    BY <1>1, <1>2, <1>3, <2>2
    DEF TypeOK, StoreTypeOK, PendingMatchesFile, Pending, Recorded, SnapshotPath
<1> QED
  BY <1>2, <1>3, <1>4, <1>5, <1>6, <1>7, <1>8
  DEF Stage, ReserveRelease, RecordSnapshot, FinishStage, AbandonStage, Activate, ByRequest

LEMMA RestartStep ==
    ASSUME Inv, RestartManagement
    PROVE  Inv'
<1> USE DEF Inv
<1>1. UNCHANGED <<db, file, history, base>> /\ startup' = file
  BY DEF RestartManagement, disk
<1>2. UNCHANGED <<status, request, mapping, active, operations>>
  BY <1>1 DEF db
<1>3. StoreInv' /\ PendingMatchesFile'
  BY <1>1, <1>2, StoreUnchanged DEF PendingMatchesFile, Pending, Recorded, SnapshotPath
<1> QED
  BY <1>1, <1>2, <1>3
  DEF RestartManagement, EndSave, TypeOK, StoreInv, MaybeConfigs, Installed, Saving,
      Checked, StageStarted, StageUsesSaved, Pending

LEMMA Stuttering ==
    ASSUME Inv, UNCHANGED vars
    PROVE  Inv'
BY StoreUnchanged DEF Inv, vars, db, disk, save, TypeOK, StoreTypeOK, Installed, Saving,
   Checked, Compatible, Matches, SnapshotPath, StageStarted, StageUsesSaved,
   PendingMatchesFile, Pending, Recorded

(* The inductive invariant: what a save has checked stays true until it    *)
(* replaces the file, and no stage runs beside it.                         *)
THEOREM Safety == Spec => []Inv
<1>1. Inv /\ [Next]_vars => Inv'
  BY SaveSteps, ReplaceStep, StageSteps, RestartStep, Stuttering DEF Next
<1> QED
  BY <1>1, Initially, PTL DEF Spec

(* Every variable keeps its type.                                          *)
THEOREM TypeCorrect == Spec => []TypeOK
  BY Safety, PTL DEF Inv

(* Saves, failures and restarts in between: the database is only changed   *)
(* by its transactions.                                                    *)
THEOREM ServiceUsesStore == Spec => StoreSpec
<1>1. Init => StoreInit
  BY DEF Init
<1>2. Inv /\ [Next]_vars => [Transaction]_db
  BY NextIsTransaction
<1> QED
  BY <1>1, <1>2, Safety, PTL DEF Spec, StoreSpec

(* The recorded snapshots of an incomplete release are those of the saved  *)
(* configuration (_validate_release_state).                                *)
THEOREM PendingCanFinish == Spec => []PendingMatchesFile
  BY Safety, PTL DEF Inv

(* A stage runs with the saved configuration (restart_required).           *)
THEOREM StageIsCurrent == Spec => []StageUsesSaved
  BY Safety, PTL DEF Inv

(* The file changes only in Replace, as the save has found it.             *)
LEMMA FileStep ==
    ASSUME Inv, [Next]_vars, file' # file
    PROVE  /\ file = base[saver]
           /\ file # NoConfig => file \in history'
           /\ active # NoRelease => Matches(active, file')
<1>1. Replace
  BY DEF Next, OpenDraft, Save, Validate, Preserve, Stage, Activate, ReserveRelease,
     RecordSnapshot, FinishStage, AbandonStage, RestartManagement, disk, vars
<1>2. step = "replacing" /\ file' = proposed /\ history' = history
  BY <1>1 DEF Replace
<1> QED
  BY <1>2 DEF Inv, Saving, Checked, Compatible, Installed

(* No draft overwrites what its editor has not seen (base_revision).       *)
THEOREM NothingLost == Spec => NoLostUpdate
<1>1. Inv /\ [Next]_vars => [SeenStep]_vars
  BY FileStep DEF SeenStep
<1> QED
  BY <1>1, Safety, PTL DEF Spec, NoLostUpdate

(* What is replaced is in the history (_preserve_history).                 *)
THEOREM NothingForgotten == Spec => HistoryComplete
<1>1. Inv /\ [Next]_vars => [KeptStep]_vars
  BY FileStep DEF KeptStep
<1> QED
  BY <1>1, Safety, PTL DEF Spec, HistoryComplete

(* A save does not take clients away from the active release.              *)
THEOREM ActiveStaysServable == Spec => SaveKeepsActiveServable
<1>1. Inv /\ [Next]_vars => [ServableStep]_vars
  BY FileStep DEF ServableStep
<1> QED
  BY <1>1, Safety, PTL DEF Spec, SaveKeepsActiveServable
=============================================================================
