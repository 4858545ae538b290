------------------------- MODULE LauncherTransaction -------------------------
(***************************************************************************)
(* How a game PC gets the Epic Games registrations of the release it has   *)
(* mounted (Reset-And-Connect.ps1).  A run of the helper changes several   *)
(* files of the launcher and two of its own; a directory with a journal    *)
(* and copies of the old files makes this one transaction.  Two modes      *)
(* share the directory: "Enabled" (journal 2) replaces single .item files, *)
(* "Aggressive" (journal 4) the whole Data and shared database trees.  Any *)
(* call may throw and the PC may be switched off between any two.          *)
(*                                                                         *)
(* A file is told apart by whose content it has: a release's, or one of    *)
(* this PC's own.  A tree exists when one of its files does.  Of           *)
(* LauncherInstalled.dat only the entries of the release's games count.    *)
(***************************************************************************)
EXTENDS Naturals, FiniteSets

CONSTANTS
    Items,          \* names of .item files
    Apps,
    AppOf,          \* .item file -> the game it registers
    Releases,
    Desired,        \* release -> its .item files, one for each of its games
    Installed,      \* the files that are on this PC before the helper is used
    Local,          \* a content made on this PC
    Gone,           \* the file does not exist
    NoRun, NoJournal,
    MaxFaults       \* bounds calls that throw, crashes and changes between runs

Shared == "shared"              \* EpicOnlineServicesShared\InstallHelper
Launcher == "launcher"          \* LauncherInstalled.dat
Managed == "managed"            \* egs-managed-apps.v1.json
Aggressive == "aggressive"      \* egs-aggressive-state.v1.json

Files == Items \cup {Shared, Launcher, Managed, Aggressive}
Contents == Releases \cup {Local}
Trees == {Items, {Shared}}

ASSUME LauncherAssumption ==
    /\ Items \cap {Shared, Launcher, Managed, Aggressive} = {}
    /\ AppOf \in [Items -> Apps]
    /\ Desired \in [Releases -> SUBSET Items]
    /\ Installed \subseteq Items \cup {Shared, Launcher}
    /\ Local \notin Releases /\ Gone \notin Contents
    /\ MaxFaults \in Nat

Runs == [release : Releases, mode : {"Enabled", "Aggressive"}]
Journals == [version : {2, 4}, units : SUBSET SUBSET Files, existed : SUBSET SUBSET Files]

ASSUME NoneAssumption == NoRun \notin Runs /\ NoJournal \notin Journals

VARIABLES
    live,       \* file -> content
    dir,        \* the transaction directory exists
    journal,    \* journal.json in it, if it can be read
    backup,     \* file -> its copy in the directory
    archive,    \* <<file, content>> kept for good outside of it
    run,        \* what the running helper synchronises with
    step,       \* where it is
    plan,       \* the files as they shall be
    todo,       \* units (sets of files) still to be replaced or restored
    errors,     \* a unit could not be restored
    goal,       \* where the helper goes on when the directory is removed
    good,       \* history: the files as the last finished change left them
    spoiled,    \* history: the removal of a finished transaction was interrupted
    troubled,   \* history: something went wrong in this run
    faults

directory == <<dir, journal, backup>>
helper == <<run, step, plan, todo, errors, goal>>
history == <<good, spoiled>>
trouble == <<troubled, faults>>
vars == <<live, directory, archive, helper, history, trouble>>

FileStates == [Files -> Contents \cup {Gone}]
Resting == {"idle", "synced", "failed"}
Steps == Resting \cup {"reading", "restoring", "cleaning", "planning", "opening",
                       "displacing", "archiving", "placing", "verifying"}

TypeOK ==
    /\ live \in FileStates /\ backup \in FileStates /\ plan \in FileStates /\ good \in FileStates
    /\ dir \in BOOLEAN /\ errors \in BOOLEAN /\ spoiled \in BOOLEAN /\ troubled \in BOOLEAN
    /\ journal \in Journals \cup {NoJournal}
    /\ journal # NoJournal => journal.existed \subseteq journal.units
    /\ archive \subseteq Files \X Contents
    /\ run \in Runs \cup {NoRun}
    /\ step \in Steps
    /\ todo \subseteq SUBSET Files
    /\ goal \in {"planning", "synced", "failed"}
    /\ faults \in 0..MaxFaults

Nothing == [f \in Files |-> Gone]

Init ==
    /\ live = [f \in Files |-> IF f \in Installed THEN Local ELSE Gone]
    /\ dir = FALSE /\ journal = NoJournal /\ backup = Nothing /\ archive = {}
    /\ run = NoRun /\ step = "idle" /\ plan = Nothing /\ todo = {} /\ errors = FALSE
    /\ goal = "planning"
    /\ good = live /\ spoiled = FALSE
    /\ troubled = FALSE /\ faults = 0
-----------------------------------------------------------------------------
(* The plan of a transaction.                                              *)

Exists(u) == \E f \in u : live[f] # Gone
Put(files, u, from) == [f \in Files |-> IF f \in u THEN from[f] ELSE files[f]]

AppsOf(r) == {AppOf[i] : i \in Desired[r]}
ManagedItems(files) == IF files[Managed] \in Releases THEN Desired[files[Managed]] ELSE {}

(* Existing files that register a game of the release.                     *)
SameName(r) == {i \in Items : live[i] # Gone /\ AppOf[i] \in AppsOf(r)}

(* Mutant of Displaced: a file that is overwritten is not kept.            *)
Displaced_RemovedOnly(r) == (SameName(r) \ ManagedItems(live)) \ Desired[r]

(* DisplacedFileNames: registrations the helper has not written itself.    *)
Displaced(r) == SameName(r) \ ManagedItems(live)

(* AffectedFileNames                                                       *)
Affected(r) ==
    SameName(r) \cup {i \in ManagedItems(live) : live[i] # Gone} \cup Desired[r]

LauncherRequiresWrite(r) == live[Launcher] # r

EnabledUnits(r) ==
    {{f} : f \in Affected(r) \cup {Managed}
                 \cup (IF LauncherRequiresWrite(r) THEN {Launcher} ELSE {})}
AggressiveUnits == {Items, {Shared}, {Launcher}, {Managed}, {Aggressive}}

Units == IF run.mode = "Enabled" THEN EnabledUnits(run.release) ELSE AggressiveUnits

(* Affected files that are not desired are in RemoveFileNames.  The trees  *)
(* of a release hold nothing but its own files.                            *)
PlanOf(r) ==
    IF r.mode = "Enabled"
    THEN [f \in Files |-> IF f \in Desired[r.release] \cup {Launcher, Managed} THEN r.release
                          ELSE IF f \in Affected(r.release) THEN Gone ELSE live[f]]
    ELSE [f \in Files |-> IF f \in Items \ Desired[r.release] THEN Gone ELSE r.release]

(* Files are replaced in this order, and restored too, but that journal 2  *)
(* ends with the launcher's file.                                          *)
Rank(u) == CASE u \subseteq Items -> 1 [] u = {Shared} -> 2
             [] u = {Launcher} -> IF step = "restoring" /\ journal.version = 2 THEN 6 ELSE 3
             [] u = {Managed} -> 4 [] OTHER -> 5
IsFirst(u) == u \in todo /\ \A w \in todo : Rank(u) <= Rank(w)

IsTree(u) == journal.version = 4 /\ u \in Trees
-----------------------------------------------------------------------------
(* The run of a helper.                                                    *)

(* The run is over, and what it had in memory is gone.                     *)
EndRun(s) ==
    /\ step' = s /\ run' = IF s = "synced" THEN run ELSE NoRun
    /\ plan' = Nothing /\ todo' = {} /\ errors' = FALSE /\ goal' = "planning"

(* A leftover directory is dealt with first.                               *)
BeginRun(r) ==
    /\ step \in Resting
    /\ run' = r
    /\ step' = IF dir THEN "reading" ELSE "planning"
    /\ goal' = "planning"
    /\ troubled' = FALSE
    /\ UNCHANGED <<live, directory, archive, plan, todo, errors, history, faults>>

(* Mutant of AlreadyCurrent: the state file is believed.                   *)
AlreadyCurrent_StateOnly == run.mode = "Aggressive" /\ live[Aggressive] = run.release

(* alreadyCurrent: the state file names the release and the files are its. *)
AlreadyCurrent ==
    /\ run.mode = "Aggressive"
    /\ live[Aggressive] = run.release
    /\ live = PlanOf(run)

(* The plan, and New-Item of the directory.                                *)
Plan ==
    /\ step = "planning"
    /\ IF AlreadyCurrent
       THEN EndRun("synced") /\ UNCHANGED <<dir, history>>
       ELSE /\ plan' = PlanOf(run) /\ todo' = Units
            /\ dir' = TRUE
            /\ step' = "opening"
            /\ good' = live /\ spoiled' = FALSE
            /\ UNCHANGED <<run, errors, goal>>
    /\ UNCHANGED <<live, journal, backup, archive, trouble>>

(* The "existed" entries of the journal.                                   *)
Existed == {u \in todo : Exists(u)}

(* Files that are copied; trees are moved later.                           *)
Copied == UNION (IF run.mode = "Enabled" THEN todo ELSE todo \ Trees)

(* The copies, then the journal.  Nothing looks at copies without one.     *)
Open ==
    /\ step = "opening"
    /\ journal' = [version |-> IF run.mode = "Enabled" THEN 2 ELSE 4,
                   units |-> todo, existed |-> Existed]
    /\ backup' = Put(Nothing, Copied, live)
    /\ IF run.mode = "Enabled"
       THEN step' = "archiving" /\ UNCHANGED todo
       ELSE step' = "displacing" /\ todo' = Existed \cap Trees
    /\ UNCHANGED <<live, dir, archive, run, plan, errors, goal, history, trouble>>

(* The old Data and shared database trees are moved into the directory.    *)
Displace ==
    /\ step = "displacing"
    /\ \/ \E u \in todo :
            /\ IsFirst(u)
            /\ backup' = Put(backup, u, live) /\ live' = Put(live, u, Nothing)
            /\ todo' = todo \ {u}
            /\ UNCHANGED step
       \/ todo = {} /\ step' = "archiving" /\ UNCHANGED <<live, backup, todo>>
    /\ UNCHANGED <<dir, journal, archive, run, plan, errors, goal, history, trouble>>

(* Save-ClientEgsDisplacedRegistrations, and the SHA-addressed backup.     *)
Archived ==
    IF run.mode = "Enabled"
    THEN Displaced(run.release)
         \cup (IF LauncherRequiresWrite(run.release) THEN {Launcher} ELSE {})
    ELSE Items \cup {Shared, Launcher}

Archive ==
    /\ step = "archiving"
    /\ archive' = archive \cup {<<f, backup[f]>> : f \in {g \in Archived : backup[g] # Gone}}
    /\ todo' = journal.units
    /\ step' = "placing"
    /\ UNCHANGED <<live, directory, run, plan, errors, goal, history, trouble>>

(* Each file or tree of the release takes the place of the old one.        *)
Place ==
    /\ step = "placing"
    /\ \/ \E u \in todo :
            /\ IsFirst(u)
            /\ live' = Put(live, u, plan)
            /\ todo' = todo \ {u}
            /\ UNCHANGED step
       \/ todo = {} /\ step' = "verifying" /\ UNCHANGED <<live, todo>>
    /\ UNCHANGED <<directory, archive, run, plan, errors, goal, history, trouble>>

(* The files are read back; if they are as planned the transaction ends    *)
(* with the removal of its directory, otherwise it is undone.              *)
Verify ==
    /\ step = "verifying"
    /\ IF live = plan THEN step' = "cleaning" /\ goal' = "synced"
       ELSE step' = "reading" /\ goal' = "failed"
    /\ UNCHANGED <<live, directory, archive, run, plan, todo, errors, history, trouble>>
-----------------------------------------------------------------------------
(* Undoing a transaction, at the start of a run or in its catch.           *)

ReadJournal ==
    /\ step = "reading"
    /\ IF journal = NoJournal
       THEN EndRun("failed")
       ELSE /\ step' = "restoring" /\ todo' = journal.units /\ errors' = FALSE
            /\ plan' = Nothing
            /\ UNCHANGED <<run, goal>>
    /\ UNCHANGED <<live, directory, archive, history, trouble>>

Kept(u) == \E f \in u : backup[f] # Gone

(* Mutant of Restored: what was not there before is left.                  *)
Restored_KeepNew(u) ==
    IF u \notin journal.existed THEN live
    ELSE IF Kept(u) THEN Put(live, u, backup) ELSE live

(* The files when unit u is restored.                                      *)
Restored(u) ==
    IF u \notin journal.existed THEN Put(live, u, Nothing)
    ELSE IF Kept(u) THEN Put(live, u, backup) ELSE live

(* A tree that is neither displaced nor there, or a file without its copy, *)
(* cannot be restored.                                                     *)
CannotRestore(u) == u \in journal.existed /\ ~Kept(u) /\ ~(IsTree(u) /\ Exists(u))

(* Every unit is tried, whatever became of the others, and trees are moved *)
(* back.                                                                   *)
RestoreUnit(u) ==
    /\ step = "restoring"
    /\ IsFirst(u)
    /\ live' = Restored(u)
    /\ backup' = IF IsTree(u) THEN Put(backup, u, Nothing) ELSE backup
    /\ errors' = (errors \/ CannotRestore(u))
    /\ todo' = todo \ {u}
    /\ UNCHANGED <<dir, journal, archive, run, step, plan, goal, history, trouble>>

(* The directory stays if anything could not be restored.                  *)
EndRestore ==
    /\ step = "restoring" /\ todo = {}
    /\ \/ errors /\ EndRun("failed")
       \/ ~errors /\ step' = "cleaning" /\ UNCHANGED <<run, plan, todo, errors, goal>>
    /\ UNCHANGED <<live, directory, archive, history, trouble>>

(* Remove-Item -Recurse takes the directory backup, with trees before      *)
(* files, and then the journal.                                            *)
CanRemove(f) ==
    /\ backup[f] # Gone
    /\ \A g \in Files : backup[g] # Gone => Rank({f}) <= Rank({g})

RemoveBackup ==
    /\ step = "cleaning"
    /\ \E f \in Files : CanRemove(f) /\ backup' = [backup EXCEPT ![f] = Gone]
    /\ UNCHANGED <<live, dir, journal, archive, helper, history, trouble>>

RemoveJournal ==
    /\ step = "cleaning" /\ journal # NoJournal /\ backup = Nothing
    /\ journal' = NoJournal
    /\ UNCHANGED <<live, dir, backup, archive, helper, history, trouble>>

RemoveDirectory ==
    /\ step = "cleaning" /\ journal = NoJournal
    /\ dir' = FALSE
    /\ IF goal = "planning" THEN step' = goal /\ UNCHANGED <<run, plan, todo, errors, goal>>
       ELSE EndRun(goal)
    /\ good' = IF goal = "synced" THEN plan ELSE good
    /\ UNCHANGED <<live, journal, backup, archive, spoiled, trouble>>
-----------------------------------------------------------------------------
(* Failures.                                                               *)

Fault == faults < MaxFaults /\ faults' = faults + 1 /\ troubled' = TRUE

Spoil == spoiled' = (spoiled \/ (step = "cleaning" /\ goal = "synced"))

(* A call throws before the directory is made, or while the journal is     *)
(* read: the run ends.  So does a call of Start...Transaction; that of the *)
(* mode Enabled tries to remove the directory first.                       *)
RunFails ==
    /\ Fault
    /\ step \in {"planning", "opening", "reading"}
    /\ EndRun("failed")
    /\ dir' \in IF step = "opening" /\ run.mode = "Enabled" THEN {FALSE, TRUE} ELSE {dir}
    /\ UNCHANGED <<live, journal, backup, archive, history>>

(* A call throws inside the transaction: the catch undoes it.              *)
TransactionFails ==
    /\ Fault
    /\ \/ step \in {"displacing", "archiving", "placing", "verifying"}
       \/ step = "cleaning" /\ goal = "synced"
    /\ step' = "reading" /\ goal' = "failed"
    /\ Spoil
    /\ UNCHANGED <<live, directory, archive, run, plan, todo, errors, good>>

(* The removal of an undone transaction throws.                            *)
RemovalFails ==
    /\ Fault
    /\ step = "cleaning" /\ goal # "synced"
    /\ EndRun("failed")
    /\ UNCHANGED <<live, directory, archive, history>>

(* Restoring unit u throws; part of a tree to be removed may be.           *)
RestoreFails(u) ==
    /\ Fault
    /\ step = "restoring"
    /\ IsFirst(u)
    /\ \E lost \in SUBSET u :
          /\ lost # {} => IsTree(u) /\ (u \in journal.existed => Kept(u))
          /\ live' = Put(live, lost, Nothing)
    /\ errors' = TRUE
    /\ todo' = todo \ {u}
    /\ UNCHANGED <<directory, archive, run, step, plan, goal, history>>

(* The PC is switched off or the helper is killed.                         *)
Crash ==
    /\ Fault
    /\ step \notin Resting
    /\ EndRun("idle")
    /\ Spoil
    /\ UNCHANGED <<live, directory, archive, good>>

(* Between runs the launcher, or its user, changes a file.                 *)
ChangeLocally ==
    /\ step \in Resting /\ ~dir
    /\ faults < MaxFaults /\ faults' = faults + 1
    /\ \E f \in Items \cup {Shared, Launcher}, c \in {Local, Gone} :
          live[f] # c /\ live' = [live EXCEPT ![f] = c]
    /\ good' = live' /\ EndRun("idle") /\ spoiled' = FALSE
    /\ UNCHANGED <<directory, archive, troubled>>

Next ==
    \/ \E r \in Runs : BeginRun(r)
    \/ Plan \/ Open \/ Displace \/ Archive \/ Place \/ Verify
    \/ ReadJournal \/ EndRestore
    \/ \E u \in todo : RestoreUnit(u) \/ RestoreFails(u)
    \/ RemoveBackup \/ RemoveJournal \/ RemoveDirectory
    \/ RunFails \/ TransactionFails \/ RemovalFails \/ Crash
    \/ ChangeLocally

Spec == Init /\ [][Next]_vars
-----------------------------------------------------------------------------
(* Properties.                                                             *)

(* When there is no transaction directory, every file is as the last       *)
(* change that was finished left it: a transaction that threw or was cut   *)
(* off anywhere has been undone exactly, over any number of failing        *)
(* rollbacks, and one that counts is complete.  Only while the directory   *)
(* of a complete one is removed the code may not be interrupted.           *)
AllOrNothing == ~dir /\ ~spoiled => live = good

(* A registration made on this PC is never destroyed by the helper: it is  *)
(* where it was, in the transaction directory or in the archive, unless it *)
(* is in a file the helper manages (in mode Enabled).                      *)
Held == {x \in Files \X {Local} : live[x[1]] = Local \/ backup[x[1]] = Local} \cup archive
Own == IF run # NoRun /\ run.mode = "Enabled" THEN ManagedItems(good) \X {Local} ELSE {}
HeldStep == step \notin Resting => Held \subseteq Held' \cup Own
NothingLost == [][HeldStep]_vars

(* A run that reports the release ready has left exactly its registrations *)
(* of the release's games, and in mode Aggressive nothing else.            *)
SyncedIsWhole ==
    step = "synced" =>
        LET r == run.release IN
        /\ \A i \in Items : AppOf[i] \in AppsOf(r) \/ run.mode = "Aggressive"
              => live[i] = IF i \in Desired[r] THEN r ELSE Gone
        /\ live[Launcher] = r /\ live[Managed] = r
        /\ run.mode = "Aggressive" => live[Shared] = r /\ live[Aggressive] = r

(* A run in which nothing goes wrong recovers from whatever earlier runs   *)
(* have left behind.                                                       *)
NextRunRecovers == step = "failed" => troubled
=============================================================================
