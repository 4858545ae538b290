---------------------- MODULE LauncherTransactionProofs ----------------------
(***************************************************************************)
(* The launcher's files after any failures and crashes, for any files,     *)
(* games and releases.                                                     *)
(***************************************************************************)
EXTENDS LauncherTransaction, TLAPS

Working == {"displacing", "archiving", "placing", "verifying"}
Committed == step = "cleaning" /\ goal = "synced"
Pending == UNION journal.units

(* What the release r.release looks like in files s.                       *)
Whole(r, s) ==
    /\ \A i \in Items : AppOf[i] \in AppsOf(r.release) \/ r.mode = "Aggressive"
          => s[i] = IF i \in Desired[r.release] THEN r.release ELSE Gone
    /\ s[Launcher] = r.release /\ s[Managed] = r.release
    /\ r.mode = "Aggressive" => s[Shared] = r.release /\ s[Aggressive] = r.release

(* Where there is a run, a directory, a journal.                           *)
Control ==
    /\ step \notin {"idle", "failed"} => run \in Runs
    /\ step \in Working \cup {"opening", "restoring", "cleaning"} => dir
    /\ step = "planning" => ~dir
    /\ ~dir => journal = NoJournal
    /\ journal = NoJournal => backup = Nothing
    /\ step = "opening" => journal = NoJournal
    /\ step \in Working \cup {"restoring"} => journal # NoJournal
    /\ goal = "synced" => step = "cleaning"
    /\ step \in Working \cup {"opening"} => ~spoiled

(* The plan in memory.                                                     *)
Planned ==
    /\ step = "opening" => plan = PlanOf(run) /\ todo = Units
    /\ step \in Working \cup {"opening"} \/ Committed
          => /\ Whole(run, plan)
             /\ \A f \in Files : plan[f] = Local => good[f] = Local
    /\ step \in Working => \A f \in Pending : plan[f] # Local
    /\ journal # NoJournal /\ (step \in Working \/ Committed)
          => (journal.version = 2 <=> run.mode = "Enabled")

(* What the journal and the copies say of the old files.                   *)
Recorded ==
    journal # NoJournal =>
        /\ journal.version = 2 => \A u \in journal.units : \E f \in Files : u = {f}
        /\ journal.version = 4 => journal.units = AggressiveUnits
        /\ \A u \in journal.units : u \in journal.existed <=> \E f \in u : good[f] # Gone
        /\ \A f \in Files : backup[f] = Gone \/ (f \in Pending /\ backup[f] = good[f])

(* Unless its removal was interrupted, a transaction can be undone.        *)
Recoverable ==
    journal # NoJournal /\ ~spoiled /\ ~Committed =>
        /\ \A f \in Files \ Pending : live[f] = good[f]
        /\ journal.version = 4 => \A u \in Trees :
              IF Kept(u) THEN \A f \in u : backup[f] = good[f]
              ELSE u \in journal.existed => \A f \in u : live[f] = good[f]

(* The transaction going forward.                                          *)
Forward ==
    /\ step = "displacing" =>
          /\ journal.version = 4 /\ todo \subseteq Trees \cap journal.existed
          /\ \A u \in todo : ~Kept(u)
          /\ \A u \in (Trees \cap journal.existed) \ todo : Kept(u) /\ \A f \in u : live[f] = Gone
    /\ step = "archiving" /\ journal.version = 2 => live = good /\ journal.units = Units
    /\ step \in Working \ {"displacing"} => \A f \in Pending :
          live[f] = Local => backup[f] = Local
    /\ step \in Working \ {"displacing"} /\ journal.version = 4 =>
          \A u \in Trees \cap journal.existed : Kept(u)
    /\ step \in Working => \A u \in journal.existed \cap journal.units :
          u \notin Trees \/ journal.version = 2 => \A f \in u : backup[f] = good[f]
    /\ step = "placing" => todo \subseteq journal.units
    /\ Committed => live = plan

(* The transaction being undone.                                           *)
Undoing ==
    /\ step = "restoring" => todo \subseteq journal.units
    /\ step = "restoring" /\ ~errors =>
          /\ ~spoiled => \A f \in Files \ UNION todo : live[f] = good[f]
          /\ \A f \in Files \ UNION todo : backup[f] \in {Gone, live[f]}
          /\ journal.version = 4 => \A u \in Trees \ todo : ~Kept(u)
    /\ step = "cleaning" /\ ~Committed =>
          /\ ~spoiled => live = good
          /\ \A f \in Files : backup[f] \in {Gone, live[f]}
          /\ journal # NoJournal /\ journal.version = 4 => \A u \in Trees : ~Kept(u)
    /\ journal = NoJournal /\ ~spoiled /\ ~Committed => live = good

(* Files made on this PC.                                                  *)
Locals ==
    /\ \A f \in Files : live[f] = Local => good[f] = Local
    /\ good[Managed] # Local /\ good[Aggressive] # Local
    /\ journal # NoJournal /\ (step \in {"placing", "verifying"} \/ Committed \/ spoiled) =>
          \A f \in Pending : good[f] = Local =>
              \/ <<f, Local>> \in archive
              \/ journal.version = 2 /\ f \in ManagedItems(good)

Inv ==
    /\ TypeOK /\ Control /\ Planned /\ Recorded /\ Recoverable /\ Forward
    /\ Undoing /\ Locals /\ SyncedIsWhole
-----------------------------------------------------------------------------
(* Facts about the operators.                                              *)

LEMMA FileNames ==
    /\ Items \subseteq Files /\ Shared \in Files /\ Launcher \in Files /\ Managed \in Files
    /\ Aggressive \in Files
    /\ Shared \notin Items /\ Launcher \notin Items /\ Managed \notin Items
    /\ Aggressive \notin Items
    /\ Shared # Launcher /\ Shared # Managed /\ Shared # Aggressive /\ Launcher # Managed
    /\ Launcher # Aggressive /\ Managed # Aggressive
BY LauncherAssumption DEF Files, Shared, Launcher, Managed, Aggressive

LEMMA PutFacts ==
    ASSUME NEW s \in FileStates, NEW t \in FileStates, NEW u
    PROVE  /\ Put(s, u, t) \in FileStates
           /\ \A f \in Files : Put(s, u, t)[f] = IF f \in u THEN t[f] ELSE s[f]
BY DEF Put, FileStates

LEMMA NothingFacts == Nothing \in FileStates /\ \A f \in Files : Nothing[f] = Gone
BY DEF Nothing, FileStates

LEMMA AggressiveUnitFacts ==
    /\ AggressiveUnits \subseteq SUBSET Files /\ UNION AggressiveUnits = Files
    /\ Trees \subseteq AggressiveUnits
    /\ \A u \in AggressiveUnits \ Trees : \E f \in Files \ (Items \cup {Shared}) : u = {f}
BY FileNames DEF AggressiveUnits, Trees, Files

(* The plan shows the release whole, and has files of this PC only where   *)
(* it leaves them.                                                         *)
LEMMA PlanFacts ==
    ASSUME live \in FileStates, run \in Runs
    PROVE  /\ PlanOf(run) \in FileStates
           /\ Whole(run, PlanOf(run))
           /\ \A f \in Files : PlanOf(run)[f] = Local => live[f] = Local
           /\ \A f \in UNION Units : PlanOf(run)[f] # Local
           /\ Units \subseteq SUBSET Files
<1> DEFINE r == run.release
           p == PlanOf(run)
<1>1. /\ r \in Releases /\ Desired[r] \subseteq Items /\ r # Local /\ Gone # Local /\ r # Gone
      /\ run.mode \in {"Enabled", "Aggressive"}
  BY LauncherAssumption DEF Runs, Contents
<1>2. /\ r \in Contents \cup {Gone}
      /\ Managed \notin Desired[r] /\ Launcher \notin Desired[r]
  BY <1>1, FileNames DEF Contents
<1>3. Affected(r) \subseteq Items
  <2>1. ManagedItems(live) \subseteq Items
    BY LauncherAssumption DEF ManagedItems
  <2> QED
    BY <1>1, <2>1 DEF Affected, SameName
<1>4. CASE run.mode = "Enabled"
  <2>1. \A f \in Files : p[f] = IF f \in Desired[r] \cup {Launcher, Managed} THEN r
                               ELSE IF f \in Affected(r) THEN Gone ELSE live[f]
    BY <1>4 DEF PlanOf
  <2>2. p \in FileStates
    BY <1>2, <1>4 DEF PlanOf, FileStates
  <2>3. Whole(run, p)
    <3>1. ASSUME NEW i \in Items, AppOf[i] \in AppsOf(r)
          PROVE  p[i] = IF i \in Desired[r] THEN r ELSE Gone
      <4>1. i \in Files /\ i # Launcher /\ i # Managed
        BY FileNames
      <4>2. i \in Affected(r) \/ live[i] = Gone
        BY <3>1 DEF Affected, SameName
      <4> QED
        BY <2>1, <4>1, <4>2
    <3>2. p[Launcher] = r /\ p[Managed] = r
      BY <2>1, FileNames
    <3> QED
      BY <1>4, <3>1, <3>2 DEF Whole
  <2>4. UNION Units \subseteq Affected(r) \cup {Managed, Launcher}
    BY <1>4 DEF Units, EnabledUnits
  <2>5. Units \subseteq SUBSET Files
    BY <1>3, <1>4, FileNames DEF Units, EnabledUnits
  <2>6. Desired[r] \subseteq Affected(r)
    BY DEF Affected
  <2> QED
    BY <1>1, <1>3, <2>1, <2>2, <2>3, <2>4, <2>5, <2>6, FileNames
<1>5. CASE run.mode = "Aggressive"
  <2>1. \A f \in Files : p[f] = IF f \in Items \ Desired[r] THEN Gone ELSE r
    BY <1>5 DEF PlanOf
  <2>2. p \in FileStates
    BY <1>2, <1>5 DEF PlanOf, FileStates
  <2>3. Whole(run, p)
    BY <1>1, <2>1, FileNames DEF Whole
  <2>4. Units = AggressiveUnits
    BY <1>5 DEF Units
  <2> QED
    BY <1>1, <2>1, <2>2, <2>3, <2>4, AggressiveUnitFacts
<1> QED
  BY <1>1, <1>4, <1>5

LEMMA TreeFacts ==
    /\ \A u \in Trees : u \subseteq Items \cup {Shared} /\ u \subseteq Files
    /\ \A u, w \in Trees : u # w => u \cap w = {}
    /\ \A f \in Items \cup {Shared} : \E u \in Trees : f \in u
BY FileNames DEF Trees

(* A file of this PC that a transaction may replace is one of a unit that  *)
(* existed.                                                                *)
LEMMA LocalExisted ==
    ASSUME Recorded, journal # NoJournal, NEW f \in Files, good[f] = Local
    PROVE  \A u \in journal.units : f \in u => u \in journal.existed
BY LauncherAssumption DEF Recorded, Contents
-----------------------------------------------------------------------------
(* Every step preserves the invariant.                                     *)

LEMMA Initially == Init => Inv
<1> SUFFICES ASSUME Init PROVE Inv
  OBVIOUS
<1>1. /\ live = [f \in Files |-> IF f \in Installed THEN Local ELSE Gone]
      /\ dir = FALSE /\ journal = NoJournal /\ backup = Nothing /\ archive = {}
      /\ run = NoRun /\ step = "idle" /\ plan = Nothing /\ todo = {} /\ errors = FALSE
      /\ goal = "planning" /\ good = live /\ spoiled = FALSE /\ troubled = FALSE /\ faults = 0
  BY DEF Init
<1>2. live \in FileStates /\ good[Managed] # Local /\ good[Aggressive] # Local
  BY <1>1, FileNames, LauncherAssumption DEF FileStates, Contents
<1>3. TypeOK
  <2>1. /\ live \in FileStates /\ backup \in FileStates /\ plan \in FileStates
        /\ good \in FileStates
    BY <1>1, <1>2, NothingFacts
  <2>2. faults \in 0..MaxFaults
    BY <1>1, LauncherAssumption
  <2> QED
    BY <1>1, <2>1, <2>2 DEF TypeOK, Steps, Resting
<1>4. Control /\ Planned /\ Recorded /\ Recoverable
  BY <1>1 DEF Control, Planned, Recorded, Recoverable, Working, Committed
<1>5. Forward /\ Undoing /\ Locals /\ SyncedIsWhole
  BY <1>1, <1>2 DEF Forward, Undoing, Locals, SyncedIsWhole, Working, Committed
<1> QED
  BY <1>3, <1>4, <1>5 DEF Inv

LEMMA BeginRunStep ==
    ASSUME Inv, NEW r \in Runs, BeginRun(r)
    PROVE  Inv'
<1> USE DEF Inv
<1>1. /\ step \in Resting /\ run' = r /\ goal' = "planning" /\ troubled' = FALSE
      /\ step' = IF dir THEN "reading" ELSE "planning"
      /\ UNCHANGED <<live, dir, journal, backup, archive, plan, todo, errors, good, spoiled,
                     faults>>
  BY DEF BeginRun, directory, history
<1>2. TypeOK'
  BY <1>1 DEF TypeOK, Steps
<1>3. Control' /\ Planned'
  BY <1>1 DEF Control, Planned, Resting, Working, Committed
<1>4. Recorded' /\ Recoverable'
  BY <1>1 DEF Recorded, Recoverable, Resting, Committed, Pending, Kept
<1>5. Forward' /\ Undoing'
  BY <1>1 DEF Forward, Undoing, Resting, Working, Committed
<1>6. Locals' /\ SyncedIsWhole'
  BY <1>1 DEF Locals, SyncedIsWhole, Resting, Committed, Pending, ManagedItems
<1> QED
  BY <1>2, <1>3, <1>4, <1>5, <1>6

LEMMA PlanStep ==
    ASSUME Inv, Plan
    PROVE  Inv'
<1> USE DEF Inv
<1>1. /\ step = "planning" /\ run \in Runs /\ ~dir /\ journal = NoJournal /\ backup = Nothing
      /\ goal # "synced" /\ live \in FileStates
      /\ UNCHANGED <<live, journal, backup, archive, troubled, faults>>
  BY DEF Plan, Control, TypeOK, trouble
<1>2. CASE AlreadyCurrent
  <2>1. /\ step' = "synced" /\ run' = run /\ dir' = dir /\ good' = good /\ spoiled' = spoiled
        /\ plan' = Nothing /\ todo' = {} /\ errors' = FALSE /\ goal' = "planning"
    BY <1>2 DEF Plan, EndRun, history
  <2>2. TypeOK'
    BY <1>1, <2>1, NothingFacts DEF TypeOK, Steps, Resting
  <2>3. Control' /\ Planned' /\ Recorded' /\ Recoverable'
    BY <1>1, <2>1 DEF Control, Planned, Recorded, Recoverable, Working, Committed
  <2>4. Forward' /\ Undoing' /\ Locals'
    BY <1>1, <2>1 DEF Forward, Undoing, Locals, Working, Committed
  <2>5. SyncedIsWhole'
    BY <1>1, <1>2, <2>1, PlanFacts DEF SyncedIsWhole, Whole, AlreadyCurrent, AppsOf
  <2> QED
    BY <2>2, <2>3, <2>4, <2>5
<1>3. CASE ~AlreadyCurrent
  <2>1. /\ plan' = PlanOf(run) /\ todo' = Units /\ dir' = TRUE /\ step' = "opening"
        /\ good' = live /\ spoiled' = FALSE /\ run' = run /\ errors' = errors /\ goal' = goal
    BY <1>3 DEF Plan
  <2>2. PlanOf(run)' = PlanOf(run) /\ Units' = Units
    BY <1>1, <2>1 DEF PlanOf, Units, EnabledUnits, Affected, SameName, ManagedItems,
       LauncherRequiresWrite
  <2>3. TypeOK'
    BY <1>1, <2>1, PlanFacts DEF TypeOK, Steps
  <2>4. Control' /\ Recorded' /\ Recoverable'
    BY <1>1, <2>1 DEF Control, Recorded, Recoverable, Working, Committed
  <2>5. Planned'
    BY <1>1, <2>1, <2>2, PlanFacts DEF Planned, Whole, Working, Committed, AppsOf
  <2>6. Forward' /\ Undoing' /\ SyncedIsWhole'
    BY <1>1, <2>1 DEF Forward, Undoing, SyncedIsWhole, Working, Committed
  <2>7. live[Managed] # Local /\ live[Aggressive] # Local
    BY FileNames DEF Locals
  <2>8. Locals'
    BY <1>1, <2>1, <2>7 DEF Locals
  <2> QED
    BY <2>3, <2>4, <2>5, <2>6, <2>8
<1> QED
  BY <1>2, <1>3

LEMMA OpenStep ==
    ASSUME Inv, Open
    PROVE  Inv'
<1> USE DEF Inv
<1> DEFINE enabled == run.mode = "Enabled"
<1>1. /\ step = "opening" /\ run \in Runs /\ dir /\ journal = NoJournal /\ backup = Nothing
      /\ goal # "synced" /\ ~spoiled /\ live = good /\ plan = PlanOf(run) /\ todo = Units
      /\ live \in FileStates
      /\ UNCHANGED <<live, dir, archive, run, plan, errors, goal, good, spoiled, troubled, faults>>
  BY DEF Open, Control, TypeOK, Planned, Undoing, Committed, history, trouble
<1>2. /\ journal' = [version |-> IF enabled THEN 2 ELSE 4, units |-> todo, existed |-> Existed]
      /\ backup' = Put(Nothing, Copied, live)
      /\ enabled => step' = "archiving" /\ todo' = todo
      /\ ~enabled => step' = "displacing" /\ todo' = Existed \cap Trees
  BY DEF Open
<1>3. /\ todo \subseteq SUBSET Files /\ Existed \subseteq todo
      /\ \A u \in todo : u \in Existed <=> \E f \in u : live[f] # Gone
  BY <1>1 DEF TypeOK, Existed, Exists
<1>4. journal' \in Journals /\ journal' # NoJournal
  BY <1>2, <1>3, NoneAssumption DEF Journals
<1>5. \A f \in Files : backup'[f] = IF f \in Copied THEN live[f] ELSE Gone
  BY <1>1, <1>2, NothingFacts, PutFacts
<1>6. Copied \subseteq UNION todo
  BY DEF Copied
<1>7. TypeOK'
  BY <1>1, <1>2, <1>3, <1>4, PutFacts, NothingFacts DEF TypeOK, Steps
<1>8. Control'
  BY <1>1, <1>2, <1>4 DEF Control, Working
<1>9. ~enabled => todo = AggressiveUnits
  BY <1>1 DEF Units
<1>10. enabled => \A u \in todo : \E f \in Files : u = {f}
  BY <1>1, <1>3 DEF Units, EnabledUnits
<1>11. /\ journal'.version = IF enabled THEN 2 ELSE 4
       /\ journal'.units = todo /\ journal'.existed = Existed
  BY <1>2
<1>12. Planned'
  BY <1>1, <1>2, <1>11, PlanFacts DEF Planned, Whole, Working, Committed, Pending, AppsOf
<1>13. Recorded'
  <2>1. \A f \in Files : backup'[f] = Gone \/ (f \in UNION todo /\ backup'[f] = good'[f])
    <3>1. good' = live
      BY <1>1
    <3>2. \A f \in Copied : f \in UNION todo
      BY <1>6
    <3> QED
      BY <1>5, <3>1, <3>2
  <2>2. \A u \in todo : u \in Existed <=> \E f \in u : good'[f] # Gone
    BY <1>1, <1>3
  <2>3. journal'.version = 2 => enabled
    BY <1>11
  <2>4. journal'.version = 4 => ~enabled
    BY <1>11
  <2> QED
    BY <1>9, <1>10, <1>11, <2>1, <2>2, <2>3, <2>4 DEF Recorded, Pending
<1>14. \A u \in Trees : \A f \in u : ~enabled => f \in Files /\ backup'[f] = Gone
  <2>1. ~enabled => Copied = UNION (AggressiveUnits \ Trees)
    BY <1>9 DEF Copied
  <2>2. \A f \in Items \cup {Shared} : ~enabled => f \notin Copied
    BY <2>1, AggressiveUnitFacts
  <2>3. \A u \in Trees : u \subseteq Items \cup {Shared}
    BY DEF Trees
  <2>4. \A f \in Items \cup {Shared} : f \in Files
    BY FileNames
  <2>5. \A f \in Items \cup {Shared} : ~enabled => backup'[f] = Gone
    BY <1>5, <2>2, <2>4
  <2> QED
    BY <2>3, <2>4, <2>5
<1>15. ~enabled => \A u \in Trees : ~Kept(u)'
  <2>1. \A u : Kept(u)' <=> \E f \in u : backup'[f] # Gone
    BY DEF Kept
  <2> QED
    BY <1>14, <2>1
<1>16. Recoverable'
  BY <1>1, <1>11, <1>15, AggressiveUnitFacts DEF Recoverable, Pending
<1>17. Forward'
  <2>1. enabled => Units' = Units
    BY <1>1 DEF Units, EnabledUnits, Affected, SameName, ManagedItems, LauncherRequiresWrite
  <2>2. enabled => \A f \in UNION todo : backup'[f] = live[f]
    BY <1>3, <1>5 DEF Copied
  <2>3. \A u \in todo : u \notin Trees => \A f \in u : backup'[f] = live[f]
    <3>1. \A u \in todo : u \notin Trees => u \subseteq Copied
      BY DEF Copied
    <3> QED
      BY <1>3, <1>5, <3>1
  <2>4. /\ step' \in {"archiving", "displacing"}
        /\ step' = "archiving" => enabled
        /\ step' = "displacing" => ~enabled
    BY <1>2
  <2>5. step' = "displacing" =>
          /\ todo' \subseteq Trees \cap Existed
          /\ \A u \in todo' : ~Kept(u)'
          /\ (Trees \cap Existed) \ todo' = {}
    BY <1>2, <1>15, <2>4
  <2>6. \A u \in Existed : u \notin Trees \/ enabled => \A f \in u : backup'[f] = good[f]
    BY <1>1, <1>3, <2>2, <2>3
  <2>7. Committed' = FALSE
    BY <2>4 DEF Committed
  <2> QED
    BY <1>1, <1>11, <2>1, <2>2, <2>4, <2>5, <2>6, <2>7 DEF Forward, Working, Pending
<1>18. Undoing' /\ SyncedIsWhole'
  BY <1>1, <1>2, <1>4 DEF Undoing, SyncedIsWhole, Committed
<1>19. Locals'
  BY <1>1, <1>2 DEF Locals, Committed
<1> QED
  BY <1>7, <1>8, <1>12, <1>13, <1>16, <1>17, <1>18, <1>19

LEMMA DisplaceStep ==
    ASSUME Inv, Displace
    PROVE  Inv'
<1> USE DEF Inv
<1>1. /\ step = "displacing" /\ run \in Runs /\ dir /\ journal # NoJournal /\ ~spoiled
      /\ goal # "synced" /\ journal.version = 4 /\ journal.units = AggressiveUnits
      /\ live \in FileStates /\ backup \in FileStates
      /\ todo \subseteq Trees \cap journal.existed
      /\ UNCHANGED <<dir, journal, archive, run, plan, errors, goal, good, spoiled,
                     troubled, faults>>
  BY DEF Displace, Control, Working, Forward, Recorded, TypeOK, history, trouble
<1>2. Pending = Files /\ Pending' = Files
  BY <1>1, AggressiveUnitFacts DEF Pending
<1>3. \A u \in Trees \cap journal.existed : \E f \in u : good[f] # Gone
  BY <1>1, AggressiveUnitFacts DEF Recorded
<1>4. CASE todo = {} /\ step' = "archiving" /\ UNCHANGED <<live, backup, todo>>
  <2>1. TypeOK' /\ Control' /\ Planned'
    BY <1>1, <1>2, <1>4 DEF TypeOK, Steps, Control, Planned, Working, Committed, Whole, AppsOf
  <2>2. Recorded' /\ Recoverable'
    BY <1>1, <1>2, <1>4 DEF Recorded, Recoverable, Committed, Kept
  <2>3. Undoing' /\ Locals' /\ SyncedIsWhole'
    BY <1>1, <1>4 DEF Undoing, Locals, SyncedIsWhole, Committed
  <2>4. \A u \in Trees \cap journal.existed : Kept(u) /\ \A f \in u : live[f] = Gone
    BY <1>1, <1>4 DEF Forward
  <2>5. \A u \in journal.existed \cap journal.units :
            u \notin Trees => \A f \in u : backup[f] = good[f]
    BY <1>1 DEF Forward, Working
  <2>6. ASSUME NEW f \in Files, live[f] = Local PROVE backup[f] = Local
    <3>1. good[f] = Local /\ Gone # Local
      BY <2>6, LauncherAssumption DEF Locals, Contents
    <3>2. \A u \in AggressiveUnits : f \in u => u \in journal.existed
      BY <1>1, <3>1, LocalExisted
    <3>3. PICK u \in AggressiveUnits : f \in u
      BY AggressiveUnitFacts
    <3>4. u \notin Trees
      BY <2>4, <2>6, <3>1, <3>2, <3>3
    <3> QED
      BY <1>1, <2>5, <3>1, <3>2, <3>3, <3>4
  <2>7. Forward'
    BY <1>1, <1>2, <1>4, <2>4, <2>5, <2>6 DEF Forward, Working, Committed, Kept
  <2> QED
    BY <2>1, <2>2, <2>3, <2>7
<1>5. CASE \E u \in todo : /\ backup' = Put(backup, u, live) /\ live' = Put(live, u, Nothing)
                           /\ todo' = todo \ {u} /\ step' = step
  <2>1. PICK u \in todo : /\ backup' = Put(backup, u, live) /\ live' = Put(live, u, Nothing)
                          /\ todo' = todo \ {u} /\ step' = step
    BY <1>5
  <2>2. u \in Trees /\ u \in journal.existed /\ u \subseteq Files /\ ~Kept(u)
    BY <1>1, TreeFacts DEF Forward
  <2>3. \A f \in u : live[f] = good[f]
    BY <1>1, <2>2 DEF Recoverable, Committed
  <2>4. /\ \A f \in Files : backup'[f] = IF f \in u THEN live[f] ELSE backup[f]
        /\ \A f \in Files : live'[f] = IF f \in u THEN Gone ELSE live[f]
        /\ live' \in FileStates /\ backup' \in FileStates
    BY <1>1, <2>1, PutFacts, NothingFacts
  <2>5. Kept(u)' /\ \A f \in u : backup'[f] = good[f] /\ live'[f] = Gone
    <3>1. \A f \in u : backup'[f] = good[f] /\ live'[f] = Gone
      BY <2>2, <2>3, <2>4
    <3> QED
      BY <1>3, <2>2, <3>1 DEF Kept
  <2>6. \A w \in Trees : w # u => /\ \A f \in w : backup'[f] = backup[f] /\ live'[f] = live[f]
                                  /\ (Kept(w)' <=> Kept(w))
    <3>1. \A w \in Trees : w # u => \A f \in w : backup'[f] = backup[f] /\ live'[f] = live[f]
      BY <2>2, <2>4, TreeFacts
    <3> QED
      BY <3>1 DEF Kept
  <2>7. TypeOK' /\ Control' /\ Planned'
    BY <1>1, <1>2, <2>1, <2>4 DEF TypeOK, Control, Planned, Working, Committed, Whole, AppsOf
  <2>8. Recorded'
    BY <1>1, <1>2, <2>3, <2>4 DEF Recorded
  <2>9. Recoverable'
    BY <1>1, <1>2, <2>1, <2>5, <2>6 DEF Recoverable, Committed
  <2>10. Forward'
    <3>1. \A w \in journal.existed \cap journal.units :
              w \notin Trees => \A f \in w : backup'[f] = good[f]
      <4>1. \A w \in journal.units : w \notin Trees =>
                \A f \in w : f \in Files /\ f \notin u
        BY <1>1, <2>2, AggressiveUnitFacts, TreeFacts
      <4> QED
        BY <1>1, <2>4, <4>1 DEF Forward, Working
    <3>2. \A w \in todo' : ~Kept(w)'
      BY <1>1, <2>1, <2>6 DEF Forward
    <3>3. \A w \in (Trees \cap journal.existed) \ todo' :
              Kept(w)' /\ \A f \in w : live'[f] = Gone
      BY <1>1, <2>1, <2>5, <2>6 DEF Forward
    <3> QED
      BY <1>1, <2>1, <3>1, <3>2, <3>3 DEF Forward, Working, Committed
  <2>11. Undoing' /\ SyncedIsWhole'
    BY <1>1, <2>1 DEF Undoing, SyncedIsWhole, Committed
  <2>12. Locals'
    BY <1>1, <2>1, <2>4, LauncherAssumption DEF Locals, Committed, Contents
  <2> QED
    BY <2>7, <2>8, <2>9, <2>10, <2>11, <2>12
<1> QED
  BY <1>4, <1>5 DEF Displace

(* What is about to be replaced is kept, unless the helper manages it.     *)
LEMMA ArchivesAll ==
    ASSUME Inv, Archive, NEW f \in Pending, good[f] = Local
    PROVE  <<f, Local>> \in archive' \/ (journal.version = 2 /\ f \in ManagedItems(good))
<1> USE DEF Inv
<1>1. /\ step = "archiving" /\ run \in Runs /\ journal # NoJournal /\ ~spoiled
      /\ journal \in Journals /\ (journal.version = 2 <=> run.mode = "Enabled")
  BY DEF Archive, Control, Working, TypeOK, Planned
<1>2. PICK u \in journal.units : f \in u
  BY DEF Pending
<1>3. f \in Files /\ f # Managed /\ f # Aggressive /\ Local # Gone
  BY <1>1, <1>2, LauncherAssumption DEF Journals, Locals, Contents
<1>4. u \in journal.existed
  BY <1>1, <1>2, <1>3, LocalExisted
<1>5. backup[f] = Local
  <2>1. CASE u \notin Trees \/ journal.version = 2
    BY <1>1, <1>2, <1>4, <2>1 DEF Forward, Working
  <2>2. CASE u \in Trees /\ journal.version = 4
    BY <1>1, <1>2, <1>4, <2>2 DEF Forward, Working, Recoverable, Committed
  <2> QED
    BY <1>1, <2>1, <2>2 DEF Journals
<1>6. f \in Archived => <<f, Local>> \in archive'
  <2>1. f \in Archived => f \in {g \in Archived : backup[g] # Gone}
    BY <1>3, <1>5
  <2>2. archive' = archive \cup {<<g, backup[g]>> : g \in {h \in Archived : backup[h] # Gone}}
    BY DEF Archive
  <2> QED
    BY <1>5, <2>1, <2>2
<1>7. CASE run.mode = "Enabled"
  <2>1. live = good /\ f \in UNION Units
    BY <1>1, <1>2, <1>7 DEF Forward
  <2>2. f \in Affected(run.release) \/ (f = Launcher /\ LauncherRequiresWrite(run.release))
    <3>1. UNION Units = Affected(run.release) \cup {Managed}
              \cup (IF LauncherRequiresWrite(run.release) THEN {Launcher} ELSE {})
      BY <1>7 DEF Units, EnabledUnits
    <3> QED
      BY <1>3, <2>1, <3>1
  <2>3. run.release \in Releases
    BY <1>1 DEF Runs
  <2>4. f \in Affected(run.release) => f \in SameName(run.release) \/ f \in ManagedItems(good)
    <3>1. Desired[run.release] \subseteq Items
      BY <2>3, LauncherAssumption
    <3> QED
      BY <1>3, <2>1, <3>1 DEF Affected, SameName, AppsOf
  <2> QED
    BY <1>1, <1>6, <1>7, <2>1, <2>2, <2>4 DEF Archived, Displaced
<1>8. CASE run.mode = "Aggressive"
  BY <1>3, <1>6, <1>8 DEF Archived, Files
<1> QED
  BY <1>1, <1>7, <1>8 DEF Runs

LEMMA ArchiveStep ==
    ASSUME Inv, Archive
    PROVE  Inv'
<1> USE DEF Inv
<1>1. /\ step = "archiving" /\ run \in Runs /\ dir /\ journal # NoJournal /\ ~spoiled
      /\ journal \in Journals /\ backup \in FileStates
      /\ archive' = archive \cup {<<f, backup[f]>> : f \in {g \in Archived : backup[g] # Gone}}
      /\ todo' = journal.units /\ step' = "placing"
      /\ UNCHANGED <<live, dir, journal, backup, run, plan, errors, goal, good, spoiled,
                     troubled, faults>>
  BY DEF Archive, Control, Working, TypeOK, directory, history, trouble
<1>2. Archived \subseteq Files
  BY FileNames DEF Archived, Displaced, SameName
<1>3. \A f \in Archived : backup[f] # Gone => <<f, backup[f]>> \in Files \X Contents
  BY <1>1, <1>2 DEF FileStates
<1>4. TypeOK'
  <2>1. archive' \subseteq Files \X Contents
    BY <1>1, <1>3 DEF TypeOK
  <2>2. todo' \subseteq SUBSET Files
    BY <1>1 DEF Journals
  <2> QED
    BY <1>1, <2>1, <2>2 DEF TypeOK, Steps
<1>5. Control' /\ Planned'
  BY <1>1 DEF Control, Planned, Working, Committed, Whole, AppsOf, Pending
<1>6. Recorded' /\ Recoverable'
  BY <1>1 DEF Recorded, Recoverable, Committed, Pending, Kept
<1>7. Forward'
  BY <1>1 DEF Forward, Working, Committed, Pending, Kept
<1>8. Undoing' /\ SyncedIsWhole'
  BY <1>1 DEF Undoing, SyncedIsWhole, Committed
<1>9. \A f \in Pending : good[f] = Local =>
          <<f, Local>> \in archive' \/ (journal.version = 2 /\ f \in ManagedItems(good))
  BY ArchivesAll
<1>10. Locals'
  BY <1>1, <1>9 DEF Locals, Pending, ManagedItems
<1> QED
  BY <1>4, <1>5, <1>6, <1>7, <1>8, <1>10

LEMMA PlaceStep ==
    ASSUME Inv, Place
    PROVE  Inv'
<1> USE DEF Inv
<1>1. /\ step = "placing" /\ run \in Runs /\ dir /\ journal # NoJournal /\ ~spoiled
      /\ goal # "synced" /\ journal \in Journals /\ todo \subseteq journal.units
      /\ live \in FileStates /\ plan \in FileStates
      /\ UNCHANGED <<dir, journal, backup, archive, run, plan, errors, goal, good, spoiled,
                     troubled, faults>>
  BY DEF Place, Control, Working, Forward, TypeOK, directory, history, trouble
<1>2. CASE todo = {} /\ step' = "verifying" /\ UNCHANGED <<live, todo>>
  <2>1. TypeOK' /\ Control' /\ Planned'
    BY <1>1, <1>2 DEF TypeOK, Steps, Control, Planned, Working, Committed, Whole, AppsOf, Pending
  <2>2. Recorded' /\ Recoverable' /\ Forward'
    BY <1>1, <1>2 DEF Recorded, Recoverable, Forward, Working, Committed, Pending, Kept
  <2>3. Undoing' /\ Locals' /\ SyncedIsWhole'
    BY <1>1, <1>2 DEF Undoing, Locals, SyncedIsWhole, Committed, Pending, ManagedItems
  <2> QED
    BY <2>1, <2>2, <2>3
<1>3. CASE \E u \in todo : live' = Put(live, u, plan) /\ todo' = todo \ {u} /\ step' = step
  <2>1. PICK u \in todo : live' = Put(live, u, plan) /\ todo' = todo \ {u} /\ step' = step
    BY <1>3
  <2>2. /\ live' \in FileStates
        /\ \A f \in Files : live'[f] = IF f \in u THEN plan[f] ELSE live[f]
    BY <1>1, <2>1, PutFacts
  <2>3. u \subseteq Pending
    BY <1>1 DEF Pending
  <2>4. \A f \in Pending : plan[f] # Local
    BY <1>1 DEF Planned, Working
  <2>5. TypeOK' /\ Control' /\ Planned'
    BY <1>1, <2>1, <2>2 DEF TypeOK, Control, Planned, Working, Committed, Whole, AppsOf, Pending
  <2>6. Recorded'
    BY <1>1 DEF Recorded, Pending
  <2>7. Recoverable'
    <3>1. \A f \in Files \ Pending : live'[f] = good[f]
      BY <1>1, <2>2, <2>3 DEF Recoverable, Committed
    <3>2. journal.version = 4 => \A w \in Trees : IF Kept(w) THEN \A f \in w : backup[f] = good[f]
                                                  ELSE w \notin journal.existed
      BY <1>1 DEF Recoverable, Committed, Forward, Working
    <3> QED
      BY <1>1, <3>1, <3>2 DEF Recoverable, Pending, Kept
  <2>8. Forward'
    <3>1. \A f \in Pending : f \in Files
      BY <1>1 DEF Pending, Journals
    <3>2. \A f \in Pending : live'[f] = Local => backup[f] = Local
      BY <1>1, <2>2, <2>4, <3>1 DEF Forward, Working
    <3> QED
      BY <1>1, <2>1, <3>2 DEF Forward, Working, Committed, Pending, Kept
  <2>9. Undoing' /\ SyncedIsWhole'
    BY <1>1, <2>1 DEF Undoing, SyncedIsWhole, Committed
  <2>10. Locals'
    <3>1. \A f \in Files : plan[f] = Local => good[f] = Local
      BY <1>1 DEF Planned, Working
    <3>2. \A f \in Files : live'[f] = Local => good[f] = Local
      BY <2>2, <3>1 DEF Locals
    <3> QED
      BY <1>1, <2>1, <3>2 DEF Locals, Committed, Pending, ManagedItems
  <2> QED
    BY <2>5, <2>6, <2>7, <2>8, <2>9, <2>10
<1> QED
  BY <1>2, <1>3 DEF Place

LEMMA VerifyStep ==
    ASSUME Inv, Verify
    PROVE  Inv'
<1> USE DEF Inv
<1>1. /\ step = "verifying" /\ run \in Runs /\ dir /\ journal # NoJournal /\ ~spoiled
      /\ IF live = plan THEN step' = "cleaning" /\ goal' = "synced"
         ELSE step' = "reading" /\ goal' = "failed"
      /\ UNCHANGED <<live, dir, journal, backup, archive, run, plan, todo, errors, good, spoiled,
                     troubled, faults>>
  BY DEF Verify, Control, Working, directory, history, trouble
<1>2. TypeOK' /\ Control' /\ Planned'
  BY <1>1 DEF TypeOK, Steps, Control, Planned, Working, Committed, Whole, AppsOf, Pending
<1>3. Recorded' /\ Recoverable' /\ Forward'
  BY <1>1 DEF Recorded, Recoverable, Forward, Working, Committed, Pending, Kept
<1>4. Undoing' /\ Locals' /\ SyncedIsWhole'
  BY <1>1 DEF Undoing, Locals, SyncedIsWhole, Committed, Pending, ManagedItems
<1> QED
  BY <1>2, <1>3, <1>4

LEMMA ReadJournalStep ==
    ASSUME Inv, ReadJournal
    PROVE  Inv'
<1> USE DEF Inv
<1>1. /\ step = "reading" /\ run \in Runs /\ goal # "synced"
      /\ UNCHANGED <<live, dir, journal, backup, archive, good, spoiled, troubled, faults>>
  BY DEF ReadJournal, Control, directory, history, trouble
<1>2. CASE journal = NoJournal
  <2>1. /\ step' = "failed" /\ run' = NoRun /\ plan' = Nothing /\ todo' = {} /\ errors' = FALSE
        /\ goal' = "planning"
    BY <1>2 DEF ReadJournal, EndRun
  <2>2. TypeOK' /\ Control' /\ Planned'
    BY <1>1, <1>2, <2>1, NothingFacts DEF TypeOK, Steps, Resting, Control, Planned, Working, Committed
  <2>3. Recorded' /\ Recoverable' /\ Forward'
    BY <1>1, <1>2, <2>1 DEF Recorded, Recoverable, Forward, Working, Committed
  <2>4. Undoing' /\ Locals' /\ SyncedIsWhole'
    BY <1>1, <1>2, <2>1 DEF Undoing, Locals, SyncedIsWhole, Committed
  <2> QED
    BY <2>2, <2>3, <2>4
<1>3. CASE journal # NoJournal
  <2>1. /\ step' = "restoring" /\ run' = run /\ goal' = goal /\ plan' = Nothing
        /\ todo' = journal.units /\ errors' = FALSE /\ dir /\ journal \in Journals
    BY <1>3 DEF ReadJournal, Control, TypeOK
  <2>2. TypeOK'
    BY <1>1, <2>1, NothingFacts DEF TypeOK, Steps, Journals
  <2>3. Control' /\ Planned' /\ Forward'
    BY <1>1, <1>3, <2>1 DEF Control, Planned, Forward, Working, Committed
  <2>4. Recorded' /\ Recoverable'
    BY <1>1, <2>1 DEF Recorded, Recoverable, Committed, Pending, Kept
  <2>5. Undoing'
    <3>1. \A f \in Files \ UNION journal.units : backup[f] = Gone
      BY <1>3 DEF Recorded, Pending
    <3>2. ~spoiled => \A f \in Files \ UNION journal.units : live[f] = good[f]
      BY <1>1, <1>3 DEF Recoverable, Pending, Committed
    <3>3. journal.version = 4 => Trees \ journal.units = {}
      BY <1>3, AggressiveUnitFacts DEF Recorded
    <3> QED
      BY <1>1, <1>3, <2>1, <3>1, <3>2, <3>3 DEF Undoing, Committed
  <2>6. Locals' /\ SyncedIsWhole'
    BY <1>1, <2>1 DEF Locals, SyncedIsWhole, Committed, Pending, ManagedItems
  <2> QED
    BY <2>2, <2>3, <2>4, <2>5, <2>6
<1> QED
  BY <1>2, <1>3

LEMMA RestoreUnitStep ==
    ASSUME Inv, NEW u \in todo, RestoreUnit(u)
    PROVE  Inv'
<1> USE DEF Inv
<1>1. /\ step = "restoring" /\ run \in Runs /\ dir /\ journal # NoJournal /\ journal \in Journals
      /\ goal # "synced" /\ u \in journal.units /\ todo \subseteq journal.units
      /\ live \in FileStates /\ backup \in FileStates /\ good \in FileStates
      /\ live' = Restored(u)
      /\ backup' = IF IsTree(u) THEN Put(backup, u, Nothing) ELSE backup
      /\ errors' = (errors \/ CannotRestore(u)) /\ todo' = todo \ {u}
      /\ UNCHANGED <<dir, journal, archive, run, step, plan, goal, good, spoiled, troubled, faults>>
  BY DEF RestoreUnit, Control, Undoing, TypeOK, history, trouble
<1>2. u \subseteq Pending /\ u \subseteq Files
  BY <1>1 DEF Pending, Journals
<1>3. /\ live' \in FileStates /\ backup' \in FileStates
      /\ \A f \in Files \ u : live'[f] = live[f] /\ backup'[f] = backup[f]
      /\ \A f \in u : live'[f] = IF u \notin journal.existed THEN Gone
                                 ELSE IF Kept(u) THEN backup[f] ELSE live[f]
      /\ \A f \in u : backup'[f] = IF IsTree(u) THEN Gone ELSE backup[f]
  BY <1>1, <1>2, PutFacts, NothingFacts DEF Restored
<1>4. ~IsTree(u) => \E f \in Files : u = {f}
  BY <1>1, AggressiveUnitFacts DEF IsTree, Recorded, Journals
<1>5. TypeOK'
  BY <1>1, <1>3 DEF TypeOK, CannotRestore, IsTree
<1>6. Control' /\ Planned' /\ Forward'
  BY <1>1 DEF Control, Planned, Forward, Working, Committed
<1>7. \A f \in Files : backup'[f] = Gone \/ backup'[f] = backup[f]
  BY <1>3
<1>8. Recorded'
  BY <1>1, <1>7 DEF Recorded, Pending
<1>9. u \in journal.existed /\ ~Kept(u) /\ IsTree(u) /\ ~spoiled => \A f \in u : live[f] = good[f]
  BY <1>1 DEF Recoverable, Committed, IsTree
<1>10. u \in journal.existed /\ Kept(u) /\ ~spoiled => \A f \in u : backup[f] = good[f]
  <2>1. CASE IsTree(u)
    BY <1>1, <2>1 DEF Recoverable, Committed, IsTree
  <2>2. CASE ~IsTree(u)
    <3>1. PICK f \in Files : u = {f}
      BY <1>4, <2>2
    <3> QED
      BY <1>1, <3>1 DEF Recorded, Kept
  <2> QED
    BY <2>1, <2>2
<1>11. u \notin journal.existed => \A f \in u : good[f] = Gone
  BY <1>1 DEF Recorded
<1>12. \A w \in Trees : journal.version = 4 /\ w # u => \A f \in w : f \in Files \ u
  BY <1>1, TreeFacts, AggressiveUnitFacts DEF Recorded
<1>13. Recoverable'
  <2>1. ~spoiled => \A f \in Files \ Pending : live'[f] = good[f]
    BY <1>1, <1>2, <1>3 DEF Recoverable, Committed
  <2>2. ASSUME ~spoiled, journal.version = 4, NEW w \in Trees, w # u
        PROVE  IF Kept(w)' THEN \A f \in w : backup'[f] = good[f]
               ELSE w \in journal.existed => \A f \in w : live'[f] = good[f]
    <3>1. \A f \in w : live'[f] = live[f] /\ backup'[f] = backup[f]
      BY <1>3, <1>12, <2>2
    <3>2. IF Kept(w) THEN \A f \in w : backup[f] = good[f]
          ELSE w \in journal.existed => \A f \in w : live[f] = good[f]
      BY <1>1, <2>2 DEF Recoverable, Committed
    <3> QED
      BY <3>1, <3>2 DEF Kept
  <2>3. ASSUME ~spoiled, journal.version = 4, u \in Trees
        PROVE  ~Kept(u)' /\ (u \in journal.existed => \A f \in u : live'[f] = good[f])
    <3>1. IsTree(u) /\ \A f \in u : backup'[f] = Gone
      BY <1>3, <2>3 DEF IsTree
    <3> QED
      BY <1>3, <1>9, <1>10, <2>3, <3>1 DEF Kept
  <2>4. ~spoiled /\ journal.version = 4 => \A w \in Trees :
              IF Kept(w)' THEN \A f \in w : backup'[f] = good[f]
              ELSE w \in journal.existed => \A f \in w : live'[f] = good[f]
    BY <2>2, <2>3
  <2> QED
    BY <1>1, <2>1, <2>4 DEF Recoverable, Pending
<1>14. ASSUME ~errors'
       PROVE  /\ ~spoiled => \A f \in Files \ UNION todo' : live'[f] = good[f]
              /\ \A f \in Files \ UNION todo' : backup'[f] \in {Gone, live'[f]}
              /\ journal.version = 4 => \A w \in Trees \ todo' : ~Kept(w)'
  <2>1. ~errors /\ ~CannotRestore(u)
    BY <1>1, <1>14
  <2>2. \A f \in Files \ UNION todo' : f \notin u => f \in Files \ UNION todo
    BY <1>1
  <2>3. u \in journal.existed => Kept(u) \/ IsTree(u)
    BY <2>1 DEF CannotRestore
  <2>4. ~spoiled => \A f \in u : live'[f] = good[f]
    BY <1>3, <1>9, <1>10, <1>11, <2>3
  <2>5. ~spoiled => \A f \in Files \ UNION todo' : live'[f] = good[f]
    BY <1>1, <1>3, <2>1, <2>2, <2>4 DEF Undoing
  <2>6. \A f \in u : backup'[f] \in {Gone, live'[f]}
    <3>1. CASE IsTree(u)
      BY <1>3, <3>1
    <3>2. CASE ~IsTree(u)
      BY <1>1, <1>2, <1>3, <1>11, <2>3, <3>2 DEF Recorded
    <3> QED
      BY <3>1, <3>2
  <2>7. \A f \in Files \ UNION todo' : backup'[f] \in {Gone, live'[f]}
    BY <1>1, <1>3, <2>1, <2>2, <2>6 DEF Undoing
  <2>8. ASSUME journal.version = 4, NEW w \in Trees \ todo' PROVE ~Kept(w)'
    <3>1. CASE w = u
      <4>1. \A f \in w : backup'[f] = Gone
        BY <1>3, <2>8, <3>1 DEF IsTree
      <4> QED
        BY <4>1 DEF Kept
    <3>2. CASE w # u
      <4>1. ~Kept(w) /\ \A f \in w : backup'[f] = backup[f]
        BY <1>1, <1>3, <1>12, <2>1, <2>8, <3>2 DEF Undoing
      <4> QED
        BY <4>1 DEF Kept
    <3> QED
      BY <3>1, <3>2
  <2> QED
    BY <2>5, <2>7, <2>8
<1>15. Undoing'
  BY <1>1, <1>14 DEF Undoing, Committed
<1>16. \A f \in Files : live'[f] = Local => good[f] = Local
  BY <1>1, <1>2, <1>3, LauncherAssumption DEF Locals, Recorded, Contents
<1>17. Locals' /\ SyncedIsWhole'
  BY <1>1, <1>16 DEF Locals, SyncedIsWhole, Committed, Pending, ManagedItems
<1> QED
  BY <1>5, <1>6, <1>8, <1>13, <1>15, <1>17

LEMMA RestoreFailsStep ==
    ASSUME Inv, NEW u \in todo, RestoreFails(u)
    PROVE  Inv'
<1> USE DEF Inv
<1>1. PICK lost \in SUBSET u : /\ lost # {} => IsTree(u) /\ (u \in journal.existed => Kept(u))
                               /\ live' = Put(live, lost, Nothing)
  BY DEF RestoreFails
<1>2. /\ step = "restoring" /\ run \in Runs /\ dir /\ journal # NoJournal /\ journal \in Journals
      /\ goal # "synced" /\ u \in journal.units /\ todo \subseteq journal.units
      /\ live \in FileStates /\ errors' = TRUE /\ todo' = todo \ {u}
      /\ faults < MaxFaults /\ faults' = faults + 1 /\ troubled' = TRUE
      /\ UNCHANGED <<dir, journal, backup, archive, run, step, plan, goal, good, spoiled>>
  BY DEF RestoreFails, Fault, Control, Undoing, TypeOK, directory, history
<1>3. /\ live' \in FileStates
      /\ \A f \in Files : live'[f] = IF f \in lost THEN Gone ELSE live[f]
  BY <1>1, <1>2, PutFacts, NothingFacts
<1>4. faults' \in 0..MaxFaults
  BY <1>2, LauncherAssumption DEF TypeOK
<1>5. TypeOK'
  BY <1>2, <1>3, <1>4 DEF TypeOK
<1>6. Control' /\ Planned' /\ Forward'
  BY <1>2 DEF Control, Planned, Forward, Working, Committed
<1>7. Recorded'
  BY <1>2 DEF Recorded, Pending
<1>8. Recoverable'
  <2>1. lost \subseteq Pending
    BY <1>2 DEF Pending
  <2>2. ~spoiled => \A f \in Files \ Pending : live'[f] = good[f]
    BY <1>2, <1>3, <2>1 DEF Recoverable, Committed
  <2>3. ASSUME ~spoiled, journal.version = 4, NEW w \in Trees, ~Kept(w), w \in journal.existed
        PROVE  \A f \in w : live'[f] = good[f]
    <3>1. \A f \in w : f \in Files /\ live[f] = good[f]
      BY <1>2, <2>3, TreeFacts DEF Recoverable, Committed
    <3>2. w \cap lost = {}
      BY <1>1, <2>3, TreeFacts DEF IsTree
    <3> QED
      BY <1>3, <3>1, <3>2
  <2>4. ~spoiled /\ journal.version = 4 => \A w \in Trees :
              Kept(w) => \A f \in w : backup[f] = good[f]
    BY <1>2 DEF Recoverable, Committed
  <2> QED
    BY <1>2, <2>2, <2>3, <2>4 DEF Recoverable, Pending, Kept
<1>9. Undoing'
  BY <1>2 DEF Undoing, Committed
<1>10. \A f \in Files : live'[f] = Local => good[f] = Local
  BY <1>3, LauncherAssumption DEF Locals, Contents
<1>11. Locals' /\ SyncedIsWhole'
  BY <1>2, <1>10 DEF Locals, SyncedIsWhole, Committed, Pending, ManagedItems
<1> QED
  BY <1>5, <1>6, <1>7, <1>8, <1>9, <1>11

LEMMA EndRestoreStep ==
    ASSUME Inv, EndRestore
    PROVE  Inv'
<1> USE DEF Inv
<1>1. /\ step = "restoring" /\ run \in Runs /\ dir /\ journal # NoJournal /\ todo = {}
      /\ goal # "synced" /\ live \in FileStates /\ good \in FileStates
      /\ UNCHANGED <<live, dir, journal, backup, archive, good, spoiled, troubled, faults>>
  BY DEF EndRestore, Control, TypeOK, directory, history, trouble
<1>2. CASE errors /\ EndRun("failed")
  <2>1. /\ step' = "failed" /\ run' = NoRun /\ plan' = Nothing /\ todo' = {} /\ errors' = FALSE
        /\ goal' = "planning"
    BY <1>2 DEF EndRun
  <2>2. TypeOK' /\ Control' /\ Planned' /\ Forward'
    BY <1>1, <2>1, NothingFacts DEF TypeOK, Steps, Resting, Control, Planned, Forward, Working,
       Committed
  <2>3. Recorded' /\ Recoverable' /\ Undoing' /\ Locals' /\ SyncedIsWhole'
    BY <1>1, <2>1 DEF Recorded, Recoverable, Undoing, Locals, SyncedIsWhole, Committed, Pending,
       Kept, ManagedItems
  <2> QED
    BY <2>2, <2>3
<1>3. CASE ~errors /\ step' = "cleaning" /\ UNCHANGED <<run, plan, todo, errors, goal>>
  <2>1. TypeOK' /\ Control' /\ Planned' /\ Forward'
    BY <1>1, <1>3 DEF TypeOK, Steps, Control, Planned, Forward, Working, Committed
  <2>2. Recorded' /\ Recoverable' /\ Locals' /\ SyncedIsWhole'
    BY <1>1, <1>3 DEF Recorded, Recoverable, Locals, SyncedIsWhole, Committed, Pending, Kept,
       ManagedItems
  <2>3. ~spoiled => live = good
    BY <1>1, <1>3 DEF Undoing, FileStates
  <2>4. Undoing'
    BY <1>1, <1>3, <2>3 DEF Undoing, Committed, Kept
  <2> QED
    BY <2>1, <2>2, <2>4
<1> QED
  BY <1>2, <1>3 DEF EndRestore

LEMMA RemoveBackupStep ==
    ASSUME Inv, RemoveBackup
    PROVE  Inv'
<1> USE DEF Inv
<1>1. PICK g \in Files : backup[g] # Gone /\ backup' = [backup EXCEPT ![g] = Gone]
  BY DEF RemoveBackup, CanRemove
<1>2. /\ step = "cleaning" /\ run \in Runs /\ dir /\ backup \in FileStates
      /\ UNCHANGED <<live, dir, journal, archive, run, step, plan, todo, errors, goal, good,
                     spoiled, troubled, faults>>
  BY DEF RemoveBackup, Control, TypeOK, helper, history, trouble
<1>3. /\ backup' \in FileStates
      /\ \A f \in Files : backup'[f] = Gone \/ backup'[f] = backup[f]
  BY <1>1, <1>2 DEF FileStates
<1>4. journal # NoJournal
  BY <1>1, NothingFacts DEF Control
<1>5. \A u \in Trees : ~Kept(u) => ~Kept(u)'
  BY <1>3, TreeFacts DEF Kept
<1>6. TypeOK' /\ Control' /\ Planned' /\ Forward'
  BY <1>2, <1>3, <1>4 DEF TypeOK, Control, Planned, Forward, Working, Committed, Whole, AppsOf
<1>7. Recorded'
  BY <1>2, <1>3 DEF Recorded, Pending
<1>8. Recoverable'
  <2>1. ~spoiled /\ ~Committed => live = good
    BY <1>2 DEF Undoing
  <2>2. ~Committed /\ journal.version = 4 => \A u \in Trees : ~Kept(u)'
    BY <1>2, <1>4, <1>5 DEF Undoing
  <2> QED
    BY <1>2, <2>1, <2>2 DEF Recoverable, Committed
<1>9. Undoing'
  BY <1>2, <1>3, <1>4, <1>5 DEF Undoing, Committed
<1>10. Locals' /\ SyncedIsWhole'
  BY <1>2 DEF Locals, SyncedIsWhole, Committed, Pending, ManagedItems
<1> QED
  BY <1>6, <1>7, <1>8, <1>9, <1>10

LEMMA RemoveJournalStep ==
    ASSUME Inv, RemoveJournal
    PROVE  Inv'
<1> USE DEF Inv
<1>1. /\ step = "cleaning" /\ run \in Runs /\ dir /\ backup = Nothing /\ journal' = NoJournal
      /\ UNCHANGED <<live, dir, backup, archive, run, step, plan, todo, errors, goal, good,
                     spoiled, troubled, faults>>
  BY DEF RemoveJournal, Control, helper, history, trouble
<1>2. TypeOK' /\ Control' /\ Planned' /\ Forward'
  BY <1>1 DEF TypeOK, Control, Planned, Forward, Working, Committed, Whole, AppsOf
<1>3. Recorded' /\ Recoverable'
  BY <1>1 DEF Recorded, Recoverable
<1>4. Undoing'
  BY <1>1 DEF Undoing, Committed
<1>5. Locals' /\ SyncedIsWhole'
  BY <1>1 DEF Locals, SyncedIsWhole, Committed
<1> QED
  BY <1>2, <1>3, <1>4, <1>5

LEMMA RemoveDirectoryStep ==
    ASSUME Inv, RemoveDirectory
    PROVE  Inv'
<1> USE DEF Inv
<1>1. /\ step = "cleaning" /\ run \in Runs /\ journal = NoJournal /\ backup = Nothing
      /\ dir' = FALSE /\ live \in FileStates /\ plan \in FileStates /\ good \in FileStates
      /\ good' = IF goal = "synced" THEN plan ELSE good
      /\ UNCHANGED <<live, journal, backup, archive, spoiled, troubled, faults>>
  BY DEF RemoveDirectory, Control, TypeOK, trouble
<1>2. \/ goal = "planning" /\ step' = goal /\ UNCHANGED <<run, plan, todo, errors, goal>>
      \/ /\ goal \in {"synced", "failed"} /\ step' = goal
         /\ run' = IF goal = "synced" THEN run ELSE NoRun
         /\ plan' = Nothing /\ todo' = {} /\ errors' = FALSE /\ goal' = "planning"
  BY DEF RemoveDirectory, EndRun, TypeOK
<1>3. goal = "synced" => live = plan /\ Whole(run, plan)
  BY <1>1 DEF Forward, Planned, Committed
<1>4. goal # "synced" /\ ~spoiled => live = good
  BY <1>1 DEF Undoing, Committed
<1>5. TypeOK'
  BY <1>1, <1>2, NothingFacts DEF TypeOK, Steps, Resting
<1>6. Control' /\ Planned' /\ Recorded' /\ Recoverable' /\ Forward'
  BY <1>1, <1>2 DEF Control, Planned, Recorded, Recoverable, Forward, Working, Committed
<1>7. Undoing'
  BY <1>1, <1>2, <1>3, <1>4 DEF Undoing, Committed
<1>8. good'[Managed] # Local /\ good'[Aggressive] # Local
  BY <1>1, <1>3, FileNames DEF Locals
<1>9. Locals'
  BY <1>1, <1>3, <1>8 DEF Locals
<1>10. SyncedIsWhole'
  <2>1. step' = "synced" => goal = "synced" /\ run' = run
    BY <1>2
  <2> QED
    BY <1>1, <1>3, <2>1 DEF SyncedIsWhole, Whole, AppsOf
<1> QED
  BY <1>5, <1>6, <1>7, <1>9, <1>10

(* Every failure but one of a restoring call.                              *)
LEMMA FailureStep ==
    ASSUME Inv, RunFails \/ TransactionFails \/ RemovalFails \/ Crash
    PROVE  Inv'
<1> USE DEF Inv
<1>1. /\ faults < MaxFaults /\ faults' = faults + 1 /\ troubled' = TRUE
      /\ UNCHANGED <<live, journal, backup, archive, good>>
  BY DEF RunFails, TransactionFails, RemovalFails, Crash, Fault, directory, history
<1>2. faults' \in 0..MaxFaults
  BY <1>1, LauncherAssumption DEF TypeOK
<1>3. \/ /\ step' \in {"failed", "idle"} /\ run' = NoRun /\ plan' = Nothing /\ todo' = {}
         /\ errors' = FALSE /\ goal' = "planning"
      \/ /\ step' = "reading" /\ goal' = "failed" /\ run \in Runs /\ dir
         /\ UNCHANGED <<run, plan, todo, errors>>
  BY DEF RunFails, TransactionFails, RemovalFails, Crash, EndRun, Control, Working
<1>4. /\ dir' \in BOOLEAN /\ (~dir' => journal = NoJournal)
      /\ step' = "reading" => dir'
  BY DEF RunFails, TransactionFails, RemovalFails, Crash, EndRun, Control, Working, directory, TypeOK
<1>5. /\ spoiled' \in BOOLEAN /\ (spoiled => spoiled') /\ (Committed => spoiled')
      /\ spoiled' => spoiled \/ Committed
  <2>1. CASE RunFails \/ RemovalFails
    <3>1. spoiled' = spoiled /\ ~Committed
      BY <2>1 DEF RunFails, RemovalFails, Committed, history
    <3> QED
      BY <3>1 DEF TypeOK
  <2>2. CASE TransactionFails \/ Crash
    <3>1. spoiled' = (spoiled \/ Committed)
      BY <2>2 DEF TransactionFails, Crash, Spoil, Committed
    <3> HIDE DEF Inv
    <3> QED
      BY <3>1
  <2> QED
    BY <2>1, <2>2
<1>6. TypeOK'
  BY <1>1, <1>2, <1>3, <1>4, <1>5, NothingFacts DEF TypeOK, Steps, Resting
<1>7. Control' /\ Planned' /\ Forward'
  BY <1>1, <1>3, <1>4 DEF Control, Planned, Forward, Working, Committed
<1>8. Recorded' /\ Recoverable'
  BY <1>1, <1>3, <1>5 DEF Recorded, Recoverable, Committed, Pending, Kept
<1>9. Undoing' /\ SyncedIsWhole'
  BY <1>1, <1>3, <1>5 DEF Undoing, SyncedIsWhole, Committed
<1>10. Locals'
  BY <1>1, <1>3, <1>5 DEF Locals, Committed, Pending, ManagedItems
<1> QED
  BY <1>6, <1>7, <1>8, <1>9, <1>10

LEMMA ChangeLocallyStep ==
    ASSUME Inv, ChangeLocally
    PROVE  Inv'
<1> USE DEF Inv
<1>1. PICK f \in Items \cup {Shared, Launcher}, c \in {Local, Gone} :
          live' = [live EXCEPT ![f] = c]
  BY DEF ChangeLocally
<1>2. /\ ~dir /\ journal = NoJournal /\ live \in FileStates
      /\ faults < MaxFaults /\ faults' = faults + 1 /\ good' = live' /\ spoiled' = FALSE
      /\ step' = "idle" /\ run' = NoRun /\ plan' = Nothing /\ todo' = {} /\ errors' = FALSE
      /\ goal' = "planning"
      /\ UNCHANGED <<dir, journal, backup, archive, troubled>>
  BY DEF ChangeLocally, EndRun, directory, Control, TypeOK
<1>3. f # Managed /\ f # Aggressive /\ live' \in FileStates
  BY <1>1, <1>2, FileNames DEF FileStates, Contents
<1>4. live'[Managed] # Local /\ live'[Aggressive] # Local
  BY <1>1, <1>2, <1>3, FileNames DEF Locals, FileStates
<1>5. TypeOK'
  <2>1. faults' \in 0..MaxFaults
    BY <1>2, LauncherAssumption DEF TypeOK
  <2> QED
    BY <1>2, <1>3, <2>1, NothingFacts DEF TypeOK, Steps, Resting
<1>6. Control' /\ Planned' /\ Recorded' /\ Recoverable' /\ Forward'
  BY <1>2 DEF Control, Planned, Recorded, Recoverable, Forward, Working, Committed
<1>7. Undoing' /\ Locals' /\ SyncedIsWhole'
  BY <1>2, <1>4 DEF Undoing, Locals, SyncedIsWhole, Committed
<1> QED
  BY <1>5, <1>6, <1>7

LEMMA Inductive == Inv /\ [Next]_vars => Inv'
<1> SUFFICES ASSUME Inv, [Next]_vars PROVE Inv'
  OBVIOUS
<1>1. CASE UNCHANGED vars
  BY <1>1 DEF Inv, TypeOK, Control, Planned, Recorded, Recoverable, Forward, Undoing, Locals,
     SyncedIsWhole, vars, directory, helper, history, trouble, Working, Committed, Pending, Whole,
     Kept, PlanOf, Units, EnabledUnits, Affected, SameName, ManagedItems, LauncherRequiresWrite,
     AppsOf
<1>2. CASE Next
  <2>1. ASSUME NEW r \in Runs, BeginRun(r) PROVE Inv'
    BY <2>1, BeginRunStep
  <2>2. ASSUME NEW u \in todo, RestoreUnit(u) \/ RestoreFails(u) PROVE Inv'
    BY <2>2, RestoreUnitStep, RestoreFailsStep
  <2>3. CASE Plan \/ Open \/ Displace \/ Archive \/ Place \/ Verify
    BY <2>3, PlanStep, OpenStep, DisplaceStep, ArchiveStep, PlaceStep, VerifyStep
  <2>4. CASE ReadJournal \/ EndRestore \/ RemoveBackup \/ RemoveJournal \/ RemoveDirectory
    BY <2>4, ReadJournalStep, EndRestoreStep, RemoveBackupStep, RemoveJournalStep,
       RemoveDirectoryStep
  <2>5. CASE RunFails \/ TransactionFails \/ RemovalFails \/ Crash \/ ChangeLocally
    BY <2>5, FailureStep, ChangeLocallyStep
  <2> QED
    BY <1>2, <2>1, <2>2, <2>3, <2>4, <2>5 DEF Next
<1> QED
  BY <1>1, <1>2
-----------------------------------------------------------------------------
(* The inductive invariant of the launcher's transaction.                  *)
THEOREM Safety == Spec => []Inv
  BY Initially, Inductive, PTL DEF Spec

(* Every variable keeps its type.                                          *)
THEOREM TypeCorrect == Spec => []TypeOK
  BY Safety, PTL DEF Inv

(* Without a transaction directory the files are as the last finished      *)
(* change left them, unless the removal of one that counts was cut short.  *)
THEOREM UndoneOrDone == Spec => []AllOrNothing
<1>1. Inv => AllOrNothing
  BY DEF Inv, AllOrNothing, Control, Undoing, Committed
<1> QED
  BY <1>1, Safety, PTL

(* A run that reports the release ready has left it whole.                 *)
THEOREM ReadyIsWhole == Spec => []SyncedIsWhole
  BY Safety, PTL DEF Inv

(* What a restored unit takes away from the launcher is archived, managed  *)
(* by the helper, or still there.                                          *)
LEMMA RestoreKeeps ==
    ASSUME Inv, NEW u \in todo, RestoreUnit(u) \/ RestoreFails(u),
           NEW f \in Files, live[f] = Local \/ backup[f] = Local
    PROVE  live'[f] = Local \/ backup'[f] = Local \/ <<f, Local>> \in archive'
<1> USE DEF Inv
<1>1. /\ step = "restoring" /\ journal # NoJournal /\ journal \in Journals /\ ~Committed
      /\ u \in journal.units /\ live \in FileStates /\ backup \in FileStates
      /\ archive' = archive
  BY DEF RestoreUnit, RestoreFails, Control, Undoing, TypeOK, Committed
<1>2. good[f] = Local /\ Local # Gone
  BY LauncherAssumption, <1>1 DEF Locals, Recorded, Contents
<1>3. f \in u => u \in journal.existed
  BY <1>1, <1>2, LocalExisted
<1>4. f \in u /\ IsTree(u) /\ Kept(u) => backup[f] = Local \/ <<f, Local>> \in archive
  <2>1. ~spoiled /\ f \in u /\ IsTree(u) /\ Kept(u) => backup[f] = Local
    BY <1>1, <1>2 DEF Recoverable, IsTree
  <2>2. spoiled /\ f \in u /\ IsTree(u) => <<f, Local>> \in archive
    BY <1>1, <1>2 DEF Locals, IsTree, Pending
  <2> QED
    BY <2>1, <2>2
<1>5. f \in u /\ ~IsTree(u) /\ Kept(u) => backup[f] = Local
  <2>1. ~IsTree(u) => \E g \in Files : u = {g}
    BY <1>1, AggressiveUnitFacts DEF IsTree, Recorded, Journals
  <2> QED
    BY <1>1, <1>2, <2>1 DEF Kept, Recorded
<1>6. CASE RestoreUnit(u)
  <2>1. /\ live' = Restored(u)
        /\ backup' = IF IsTree(u) THEN Put(backup, u, Nothing) ELSE backup
    BY <1>6 DEF RestoreUnit
  <2>2. CASE f \notin u
    BY <1>1, <2>1, <2>2, PutFacts, NothingFacts DEF Restored
  <2>3. CASE f \in u /\ Kept(u)
    <3>1. live'[f] = backup[f]
      BY <1>1, <1>3, <2>1, <2>3, PutFacts DEF Restored
    <3> QED
      BY <1>1, <1>4, <1>5, <2>3, <3>1
  <2>4. CASE f \in u /\ ~Kept(u)
    <3>1. live' = live /\ backup[f] = Gone
      BY <1>3, <2>1, <2>4 DEF Restored, Kept
    <3> QED
      BY <1>2, <3>1
  <2> QED
    BY <2>2, <2>3, <2>4
<1>7. CASE RestoreFails(u)
  <2>1. PICK lost \in SUBSET u : /\ lost # {} => IsTree(u) /\ (u \in journal.existed => Kept(u))
                                 /\ live' = Put(live, lost, Nothing)
    BY <1>7 DEF RestoreFails
  <2>2. backup' = backup
    BY <1>7 DEF RestoreFails, directory
  <2>3. CASE f \notin lost
    BY <1>1, <2>1, <2>2, <2>3, PutFacts, NothingFacts
  <2>4. CASE f \in lost
    BY <1>1, <1>3, <1>4, <2>1, <2>2, <2>4
  <2> QED
    BY <2>3, <2>4
<1> QED
  BY <1>6, <1>7

(* So does the removal of a copy.                                          *)
LEMMA RemovalKeeps ==
    ASSUME Inv, RemoveBackup, NEW f \in Files, live[f] = Local \/ backup[f] = Local
    PROVE  \/ live'[f] = Local \/ backup'[f] = Local \/ <<f, Local>> \in archive'
           \/ <<f, Local>> \in Own
<1> USE DEF Inv
<1>1. /\ step = "cleaning" /\ run \in Runs /\ live' = live /\ archive' = archive
      /\ journal # NoJournal
  BY NothingFacts DEF RemoveBackup, CanRemove, Control
<1>2. CASE live[f] = Local
  BY <1>1, <1>2
<1>3. CASE backup[f] = Local /\ live[f] # Local
  <2>1. Local # Gone
    BY LauncherAssumption DEF Contents
  <2>2. Committed
    BY <1>1, <1>3, <2>1 DEF Undoing
  <2>3. f \in Pending /\ good[f] = Local
    BY <1>1, <1>3, <2>1 DEF Recorded
  <2>4. <<f, Local>> \in archive \/ (journal.version = 2 /\ f \in ManagedItems(good))
    BY <1>1, <2>2, <2>3 DEF Locals
  <2>5. journal.version = 2 => run # NoRun /\ run.mode = "Enabled"
    BY <1>1, <2>2, NoneAssumption DEF Planned
  <2> QED
    BY <1>1, <2>4, <2>5 DEF Own
<1> QED
  BY <1>2, <1>3

(* A step of the helper keeps every file of this PC somewhere.             *)
LEMMA StepKeeps ==
    ASSUME Inv, Next, step \notin Resting,
           NEW f \in Files, live[f] = Local \/ backup[f] = Local
    PROVE  \/ live'[f] = Local \/ backup'[f] = Local \/ <<f, Local>> \in archive'
           \/ <<f, Local>> \in Own
<1> USE DEF Inv
<1>1. live \in FileStates /\ backup \in FileStates /\ plan \in FileStates /\ Local # Gone
  BY LauncherAssumption DEF TypeOK, Contents
<1>2. CASE live' = live /\ backup' = backup
  BY <1>2
<1>3. CASE Open
  <2>1. backup = Nothing /\ live' = live
    BY <1>3 DEF Open, Control
  <2> QED
    BY <1>1, <2>1, NothingFacts
<1>4. CASE Displace
  <2>1. ASSUME NEW u \in todo, backup' = Put(backup, u, live), live' = Put(live, u, Nothing),
               step = "displacing"
        PROVE  live'[f] = Local \/ backup'[f] = Local
    <3>1. f \in u => backup[f] = Gone
      BY <2>1 DEF Forward, Kept
    <3> QED
      BY <1>1, <2>1, <3>1, PutFacts, NothingFacts
  <2> QED
    BY <1>2, <1>4, <2>1 DEF Displace
<1>5. CASE Place
  <2>1. ASSUME NEW u \in todo, live' = Put(live, u, plan), backup' = backup, step = "placing"
        PROVE  live'[f] = Local \/ backup'[f] = Local
    <3>1. f \in u => f \in Pending
      BY <2>1 DEF Forward, Pending
    <3>2. f \in Pending /\ live[f] = Local => backup[f] = Local
      BY <2>1 DEF Forward, Working
    <3> QED
      BY <1>1, <2>1, <3>1, <3>2, PutFacts
  <2> QED
    BY <1>2, <1>5, <2>1 DEF Place, directory
<1>6. ASSUME NEW u \in todo, RestoreUnit(u) \/ RestoreFails(u)
      PROVE  live'[f] = Local \/ backup'[f] = Local \/ <<f, Local>> \in archive'
  BY <1>6, RestoreKeeps
<1>7. CASE RemoveBackup
  BY <1>7, RemovalKeeps
<1>8. CASE \/ Plan \/ Archive \/ Verify \/ ReadJournal \/ EndRestore \/ RemoveJournal
           \/ RemoveDirectory \/ RunFails \/ TransactionFails \/ RemovalFails \/ Crash
  BY <1>2, <1>8 DEF Plan, Archive, Verify, ReadJournal, EndRestore, RemoveJournal,
     RemoveDirectory, RunFails, TransactionFails, RemovalFails, Crash, directory
<1>9. ~(\E r \in Runs : BeginRun(r)) /\ ~ChangeLocally
  BY DEF BeginRun, ChangeLocally
<1> QED
  BY <1>3, <1>4, <1>5, <1>6, <1>7, <1>8, <1>9 DEF Next

LEMMA ArchiveGrows == Next => archive \subseteq archive'
BY DEF Next, BeginRun, Plan, Open, Displace, Archive, Place, Verify, ReadJournal, EndRestore,
   RestoreUnit, RestoreFails, RemoveBackup, RemoveJournal, RemoveDirectory, RunFails,
   TransactionFails, RemovalFails, Crash, ChangeLocally

(* A registration made on this PC is never destroyed by the helper.        *)
THEOREM NothingDestroyed == Spec => NothingLost
<1>1. Inv /\ [Next]_vars => [HeldStep]_vars
  <2> SUFFICES ASSUME Inv, Next, step \notin Resting, NEW x \in Held
               PROVE  x \in Held' \/ x \in Own
    BY DEF HeldStep
  <2>1. CASE x \in archive
    BY <2>1, ArchiveGrows DEF Held
  <2>2. CASE x \notin archive
    <3>1. PICK f \in Files : x = <<f, Local>> /\ (live[f] = Local \/ backup[f] = Local)
      BY <2>2 DEF Held
    <3>2. \/ live'[f] = Local \/ backup'[f] = Local \/ x \in archive' \/ x \in Own
      BY <3>1, StepKeeps
    <3> QED
      BY <3>1, <3>2 DEF Held
  <2> QED
    BY <2>1, <2>2
<1> QED
  BY <1>1, Safety, PTL DEF Spec, NothingLost
=============================================================================
