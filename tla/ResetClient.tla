----------------------------- MODULE ResetClient -----------------------------
(***************************************************************************)
(* One run of the helper of a game PC (Reset-And-Connect.ps1) between the  *)
(* reset service, the iSCSI initiator and the disks of Windows.  The       *)
(* helper asks for a prepare, logs in, matches the disks of the session by *)
(* their unique id, waits until they can be written, gives every volume    *)
(* its drive letter and is ready; any failure ends the session the attempt *)
(* began and, when that is certain, leads to another complete attempt.     *)
(*                                                                         *)
(* Disks are told apart by their unique id.  Windows gives an attached     *)
(* disk a number, which another disk may get when it is free again; the    *)
(* label of its file system is whatever it is, and need not be its own.    *)
(* The service is seen only through its answers.                           *)
(***************************************************************************)
EXTENDS Naturals, FiniteSets

CONSTANTS
    Volumes,        \* the disks prepare announces
    Others,         \* any other disks
    Numbers,        \* of disks, as Windows counts them
    NoNumber,
    Letters,
    NoLetter,
    Desired,        \* volume -> the drive letter prepare announces
    Label,          \* disk -> its label; for a volume also the announced one
    MaxAttempts,
    MaxFaults       \* bounds failing calls, crashes and disturbances

Disks == Volumes \cup Others

ASSUME ResetClientAssumption ==
    /\ Volumes \cap Others = {} /\ IsFiniteSet(Volumes) /\ Volumes # {}
    /\ Numbers \subseteq Nat /\ NoNumber \notin Numbers /\ NoLetter \notin Letters
    /\ Desired \in [Volumes -> Letters]
    /\ \A v, w \in Volumes : Desired[v] = Desired[w] => v = w
    /\ MaxAttempts \in Nat \ {0} /\ MaxFaults \in Nat

VARIABLES
    session,    \* with the target, and who began it: the helper, somebody
                \* else, or somebody else after the helper claimed the target
    member,     \* the disks the session shows
    disk,       \* disk -> how Windows sees it
    step,       \* where the helper is
    attempt,
    claimed,    \* connectedTarget: this attempt has begun to log in
    known,      \* volume -> its number and letter as last read
    todo,       \* volumes the loop of this step has not done
    stage,      \* in which the attempt failed
    code,       \* exit code
    written,    \* a session of the helper was there since the last prepare
    steady,     \* since the target was claimed no disk of it has gone
    settled,    \* nor since the last verification of the letters began
    faults

windows == <<session, member, disk, steady, settled>>
vars == <<session, member, disk, step, attempt, claimed, known, todo, stage,
          code, written, steady, settled, faults>>

Views == [number : Numbers \cup {NoNumber}, offline : BOOLEAN, readOnly : BOOLEAN,
          letter : Letters \cup {NoLetter}]
Absent == [number |-> NoNumber, offline |-> FALSE, readOnly |-> FALSE, letter |-> NoLetter]
Remembered == [number : Numbers \cup {NoNumber}, letter : Letters \cup {NoLetter}]
Unknown == [v \in Volumes |-> [number |-> NoNumber, letter |-> NoLetter]]

Before == {"startup", "client", "prepare", "discover", "connect"}
Steps == Before \cup {"login", "appear", "disks", "writable", "recover", "off", "offWait",
          "on", "onWait", "again", "preflight", "online", "assign", "own", "unletter",
          "letter", "verify", "sync", "cleanup", "retry", "stop", "done", "abandoned"}
Ended == {"done", "abandoned"}
Stages == {"none", "startup", "client_configuration", "prepare", "connect", "disk_validation"}

TypeOK ==
    /\ session \in {"none", "own", "foreign", "late"}
    /\ member \subseteq Disks
    /\ disk \in [Disks -> Views]
    /\ step \in Steps
    /\ attempt \in 1..MaxAttempts
    /\ claimed \in BOOLEAN
    /\ known \in [Volumes -> Remembered]
    /\ todo \subseteq Volumes
    /\ stage \in Stages
    /\ code \in {0, 10, 20, 40}
    /\ written \in BOOLEAN /\ steady \in BOOLEAN /\ settled \in BOOLEAN
    /\ faults \in 0..MaxFaults

Attached(d) == disk[d].number # NoNumber
FreeNumbers == {n \in Numbers : \A d \in Disks : disk[d].number # n}
FreeLetters == {l \in Letters : \A d \in Disks : disk[d].letter # l}
HasNumber(n) == {d \in Disks : Attached(d) /\ disk[d].number = n}
HasLetter(l) == {d \in Disks : Attached(d) /\ disk[d].letter = l}

(***************************************************************************)
(* What the helper reads and concludes                                     *)
(***************************************************************************)
(* Get-ResetDiskMappings: the session shows exactly the announced disks.   *)
Matches == member = Volumes

AllWritable == \A v \in Volumes : ~disk[v].readOnly
Fresh == [v \in Volumes |-> [number |-> disk[v].number, letter |-> NoLetter]]

(* Nobody but the disks with these numbers has the letter.                 *)
LetterOurs(v, view) ==
    \A d \in HasLetter(Desired[v]) : \E w \in Volumes : view[w].number = disk[d].number
LettersOurs(view) == \A v \in Volumes : LetterOurs(v, view)

Go(next) == step' = next /\ UNCHANGED <<attempt, claimed, stage, code>>
Fail(in) == /\ step' = "cleanup" /\ stage' = in
            /\ known' = Unknown /\ todo' = {}
            /\ UNCHANGED <<attempt, claimed, code>>
Costs == faults < MaxFaults /\ faults' = faults + 1

Init ==
    /\ session = "none" /\ member = {}
    /\ disk = [d \in Disks |-> Absent]
    /\ step = "startup" /\ attempt = 1 /\ claimed = FALSE
    /\ known = Unknown /\ todo = {} /\ stage = "none" /\ code = 0
    /\ written = FALSE /\ steady = FALSE /\ settled = FALSE /\ faults = 0

(***************************************************************************)
(* Up to the login                                                         *)
(***************************************************************************)
(* Token, service and Wait-ResetApi.                                       *)
Startup ==
    /\ step = "startup"
    /\ \/ Go("client") /\ UNCHANGED <<known, todo, faults>>
       \/ Fail("startup") /\ Costs
    /\ UNCHANGED <<windows, written>>

(* GET /v1/client, and no session with its target yet.                     *)
ReadClient ==
    /\ step = "client"
    /\ \/ session = "none" /\ Go("prepare") /\ UNCHANGED <<known, todo, faults>>
       \/ session # "none" /\ Fail("client_configuration") /\ UNCHANGED faults
       \/ Fail("client_configuration") /\ Costs
    /\ UNCHANGED <<windows, written>>

(* Invoke-PrepareWithRetry.  The service prepares only when nobody is      *)
(* logged in; its refusals are repeated until the deadline.                *)
Prepare ==
    /\ step = "prepare"
    /\ \/ /\ session = "none" /\ Go("discover") /\ written' = FALSE
          /\ UNCHANGED <<known, todo, faults>>
       \/ session # "none" /\ Fail("prepare") /\ UNCHANGED <<written, faults>>
       \/ Fail("prepare") /\ Costs /\ UNCHANGED written
    /\ UNCHANGED windows

(* Ensure-ResetPortal, Wait-ResetTargetDiscovery.                          *)
Discover ==
    /\ step = "discover"
    /\ \/ Go("connect") /\ UNCHANGED <<known, todo, faults>>
       \/ Fail("connect") /\ Costs
    /\ UNCHANGED <<windows, written>>

(* Connect-ResetTarget looks for a session and claims the target.          *)
Connect ==
    /\ step = "connect"
    /\ \/ /\ session = "none"
          /\ claimed' = TRUE /\ step' = "login" /\ steady' = TRUE
          /\ UNCHANGED <<attempt, stage, code, known, todo>>
          /\ UNCHANGED faults
       \/ session # "none" /\ Fail("connect") /\ UNCHANGED <<steady, faults>>
       \/ Fail("connect") /\ Costs /\ UNCHANGED steady
    /\ UNCHANGED <<session, member, disk, settled, written>>

(* Connect-IscsiTarget may throw though it has created the session, or     *)
(* return without one.  It throws when there is a session already.         *)
Login ==
    /\ step = "login"
    /\ \/ /\ session = "none" /\ session' = "own" /\ written' = TRUE
          /\ \/ Go("appear") /\ UNCHANGED <<known, todo, faults>>
             \/ Fail("connect") /\ Costs
       \/ /\ session = "none" /\ UNCHANGED <<session, written>> /\ Costs
          /\ \/ Go("appear") /\ UNCHANGED <<known, todo>>
             \/ Fail("connect")
       \/ session # "none" /\ Fail("connect") /\ UNCHANGED <<session, written, faults>>
    /\ UNCHANGED <<member, disk, steady, settled>>

SessionAppears ==
    /\ step = "appear"
    /\ \/ session # "none" /\ Go("disks") /\ UNCHANGED <<known, todo, faults>>
       \/ session = "none" /\ Fail("connect") /\ UNCHANGED faults
       \/ Fail("connect") /\ Costs
    /\ UNCHANGED <<windows, written>>

(***************************************************************************)
(* The disks of the session.  Each step reads them anew, and may fail to.  *)
(***************************************************************************)
Mountable == /\ known' = Fresh /\ todo' = {v \in Volumes : disk[v].offline}
             /\ Go("preflight")

(* Wait-ResetSessionDisks; the disks it returns are the first that         *)
(* Wait-ResetWritableSessionDisks looks at.                                *)
SessionDisks ==
    /\ step = "disks"
    /\ \/ /\ Cardinality(member) >= Cardinality(Volumes)
          /\ \/ Matches /\ AllWritable /\ Mountable
             \/ Matches /\ ~AllWritable /\ Go("writable") /\ UNCHANGED <<known, todo>>
             \/ ~Matches /\ Fail("disk_validation")
          /\ UNCHANGED faults
       \/ /\ Cardinality(member) < Cardinality(Volumes) /\ member # {}
          /\ Fail("disk_validation") /\ UNCHANGED faults
       \/ Fail("disk_validation") /\ Costs
    /\ UNCHANGED <<windows, written>>

(* Ten seconds for the disks to become writable by themselves.             *)
WaitWritable ==
    /\ step = "writable"
    /\ \/ Matches /\ AllWritable /\ Mountable /\ UNCHANGED faults
       \/ Matches /\ ~AllWritable /\ Go("recover") /\ UNCHANGED <<known, todo, faults>>
       \/ ~Matches /\ Fail("disk_validation") /\ UNCHANGED faults
       \/ Fail("disk_validation") /\ Costs
    /\ UNCHANGED <<windows, written>>

(* Get-ResetWritableDisksWithRecovery takes each disk offline and online   *)
(* once.                                                                   *)
Recover ==
    /\ step = "recover"
    /\ \/ /\ Matches /\ LettersOurs(Fresh)
          /\ todo' = Volumes /\ Go("off") /\ UNCHANGED <<known, faults>>
       \/ ~(Matches /\ LettersOurs(Fresh)) /\ Fail("disk_validation") /\ UNCHANGED faults
       \/ Fail("disk_validation") /\ Costs
    /\ UNCHANGED <<windows, written>>

Current == CHOOSE v \in todo : TRUE

(* Windows takes the letter of a disk that goes offline, and may give one  *)
(* to a disk that comes online, which may also end that it is read-only.   *)
Switched(d, isOffline, letter, readOnly) ==
    disk' = [disk EXCEPT ![d].offline = isOffline, ![d].letter = letter,
                         ![d].readOnly = readOnly]

GoesOffline(d) == Switched(d, TRUE, NoLetter, disk[d].readOnly)
ComesOnline(d) == \E l \in FreeLetters \cup {NoLetter}, r \in {FALSE, disk[d].readOnly} :
    Switched(d, FALSE, l, r)

(* Mutant of Cycled: the disks of the session are not matched again.       *)
CycledUnmatched == member

(* The disk is matched anew for each of its switches.                      *)
Cycled == IF Matches THEN {Current} ELSE {}

CycleDisk(isOffline) ==
    /\ step = IF isOffline THEN "off" ELSE "on"
    /\ \/ /\ \E d \in Cycled : IF isOffline THEN GoesOffline(d) ELSE ComesOnline(d)
          /\ \/ Go(IF isOffline THEN "offWait" ELSE "onWait") /\ UNCHANGED <<known, todo, faults>>
             \/ Fail("disk_validation") /\ Costs
       \/ Cycled = {} /\ Fail("disk_validation") /\ UNCHANGED <<disk, faults>>
       \/ Fail("disk_validation") /\ Costs /\ UNCHANGED disk
    /\ UNCHANGED <<session, member, steady, settled, written>>

(* Wait-ResetDiskOfflineState.                                             *)
ConfirmDisk(isOffline) ==
    LET confirmed == Matches /\ disk[Current].offline = isOffline IN
    /\ step = IF isOffline THEN "offWait" ELSE "onWait"
    /\ \/ /\ confirmed /\ UNCHANGED <<known, faults>>
          /\ IF isOffline THEN Go("on") /\ UNCHANGED todo
             ELSE /\ todo' = todo \ {Current}
                  /\ Go(IF todo = {Current} THEN "again" ELSE "off")
       \/ ~confirmed /\ Fail("disk_validation") /\ UNCHANGED faults
       \/ Fail("disk_validation") /\ Costs
    /\ UNCHANGED <<windows, written>>

WaitAgain ==
    /\ step = "again"
    /\ \/ Matches /\ AllWritable /\ Mountable /\ UNCHANGED faults
       \/ ~Matches /\ Fail("disk_validation") /\ UNCHANGED faults
       \/ Fail("disk_validation") /\ Costs
    /\ UNCHANGED <<windows, written>>

(***************************************************************************)
(* Mount-ResetVolumes.  From here on disks are addressed by their number.  *)
(***************************************************************************)
(* Assert-ResetDesiredLettersPreflight.                                    *)
Preflight ==
    /\ step = "preflight"
    /\ \/ LettersOurs(known) /\ Go("online") /\ UNCHANGED <<known, todo, faults>>
       \/ ~LettersOurs(known) /\ Fail("disk_validation") /\ UNCHANGED faults
       \/ Fail("disk_validation") /\ Costs
    /\ UNCHANGED <<windows, written>>

(* The loops: one call for each volume of todo, to whatever disk has its   *)
(* remembered number.  A call may throw; one that nobody looks at may be   *)
(* acknowledged without effect.                                            *)
Addressed == HasNumber(known[Current].number)

LoopGoesOn ==
    /\ todo' = todo \ {Current}
    /\ UNCHANGED <<step, attempt, claimed, stage, code>>

LoopFails(possible) ==
    /\ todo # {} /\ Fail("disk_validation") /\ UNCHANGED disk
    /\ IF possible THEN Costs ELSE UNCHANGED faults

LoopEnds(next) == todo = {} /\ Go(next) /\ UNCHANGED <<disk, known, faults>>

BringOnline ==
    /\ step = "online"
    /\ \/ /\ todo # {} /\ LoopGoesOn /\ UNCHANGED <<known, faults>>
          /\ \E d \in Addressed : IF disk[d].offline THEN ComesOnline(d) ELSE UNCHANGED disk
       \/ LoopFails(Addressed # {})
       \/ LoopEnds("assign") /\ todo' = Volumes
    /\ UNCHANGED <<session, member, steady, settled, written>>

(* Mutant of Readable: the label is not compared.                          *)
ReadableUnlabelled == {d \in Addressed : ~disk[d].offline}

(* The disks that pass for the volume: the number and the label are right. *)
Readable == {d \in Addressed : ~disk[d].offline /\ Label[d] = Label[Current]}

(* Wait-ResetVolumeAssignments asks for one volume after the other; this   *)
(* is its last round.                                                      *)
ReadAssignment ==
    \/ /\ todo # {} /\ LoopGoesOn /\ UNCHANGED <<disk, faults>>
       /\ \E d \in Readable : known' = [known EXCEPT ![Current].letter = disk[d].letter]
    \/ LoopFails(Readable # {})

Assign ==
    /\ step = "assign"
    /\ ReadAssignment \/ (LoopEnds("own") /\ todo' = Volumes)
    /\ UNCHANGED <<session, member, steady, settled, written>>

(* Set-ResetDriveLetters: the owners of the letters again, one by one, and *)
(* then all wrong letters are taken before any is given.                   *)
CheckOwners ==
    /\ step = "own"
    /\ \/ /\ todo # {} /\ LetterOurs(Current, known)
          /\ LoopGoesOn /\ UNCHANGED <<disk, known, faults>>
       \/ LoopFails(LetterOurs(Current, known))
       \/ /\ LoopEnds("unletter")
          /\ todo' = {v \in Volumes : known[v].letter \notin {NoLetter, Desired[v]}}
    /\ UNCHANGED <<session, member, steady, settled, written>>

(* Mutant of Unlettered: the letter is made free, whoever has it.          *)
UnletteredOwner == HasLetter(Desired[Current])

Unlettered == {d \in Addressed : disk[d].letter = known[Current].letter}

Lettered(d, letter) == disk' = [disk EXCEPT ![d].letter = letter]

TakeLetters ==
    /\ step = "unletter"
    /\ \/ /\ todo # {} /\ LoopGoesOn /\ UNCHANGED known
          /\ \/ UNCHANGED faults /\ \E d \in Unlettered : Lettered(d, NoLetter)
             \/ Unlettered # {} /\ UNCHANGED disk /\ Costs
       \/ LoopFails(Unlettered # {})
       \/ LoopEnds("letter") /\ todo' = {v \in Volumes : known[v].letter # Desired[v]}
    /\ UNCHANGED <<session, member, steady, settled, written>>

(* The disks whose partition can get the letter.                           *)
Letterable == {d \in Addressed : ~disk[d].offline /\ Desired[Current] \in FreeLetters}

GiveLetters ==
    /\ step = "letter"
    /\ \/ /\ todo # {} /\ LoopGoesOn /\ UNCHANGED <<known, settled>>
          /\ \/ UNCHANGED faults /\ \E d \in Letterable : Lettered(d, Desired[Current])
             \/ Letterable # {} /\ UNCHANGED disk /\ Costs
       \/ LoopFails(Letterable # {}) /\ UNCHANGED settled
       \/ LoopEnds("verify") /\ todo' = Volumes /\ settled' = TRUE
    /\ UNCHANGED <<session, member, steady, written>>

LettersRight == \A v \in Volumes : known[v].letter = Desired[v]

VerifyLetters ==
    /\ step = "verify"
    /\ \/ ReadAssignment
       \/ LettersRight /\ LoopEnds("sync") /\ UNCHANGED todo
       \/ /\ todo = {} /\ ~LettersRight
          /\ Fail("disk_validation") /\ UNCHANGED <<disk, faults>>
    /\ UNCHANGED <<session, member, steady, settled, written>>

(* The settings of the launchers; what fails there is only a warning.      *)
Ready ==
    /\ step = "sync" /\ step' = "done" /\ code' = 0 /\ known' = Unknown
    /\ UNCHANGED <<windows, attempt, claimed, todo, stage, written, faults>>

(***************************************************************************)
(* After a failure                                                         *)
(***************************************************************************)
SessionEnds ==
    /\ session' = "none" /\ member' = {} /\ steady' = FALSE /\ settled' = FALSE
    /\ disk' = [d \in Disks |-> IF d \in member THEN Absent ELSE disk[d]]

(* Mutant of ToDisconnect: whatever session there is.                      *)
ToDisconnectAlways == TRUE

(* $connectedTarget is not empty.                                          *)
ToDisconnect == claimed

(* Only a verified logout, or none to be made, allows another attempt.     *)
CleanupSafe(disconnectVerified) == ~claimed \/ disconnectVerified

(* Disconnect-ResetTarget.  Windows may keep the session; or it ends it,   *)
(* and the helper cannot read that it has.                                 *)
Cleanup ==
    /\ step = "cleanup"
    /\ \E disconnectVerified \in BOOLEAN :
        /\ \/ ToDisconnect /\ disconnectVerified /\ SessionEnds /\ UNCHANGED faults
           \/ /\ ToDisconnect /\ ~disconnectVerified /\ Costs
              /\ SessionEnds \/ UNCHANGED windows
           \/ ~ToDisconnect /\ ~disconnectVerified /\ UNCHANGED <<windows, faults>>
        /\ Go(IF CleanupSafe(disconnectVerified) THEN "retry" ELSE "stop")
    /\ UNCHANGED <<known, todo, written>>

ExitCode == CASE stage = "startup" -> 10
              [] stage \in {"client_configuration", "prepare"} -> 20
              [] OTHER -> 40

(* Mutant of AttemptsLeft: one too few.                                    *)
AttemptsLeftShort == attempt + 1 < MaxAttempts

AttemptsLeft == attempt < MaxAttempts

(* Mutant of FirstStep: only the login is repeated.                        *)
FirstStepLogin == "discover"

FirstStep == "startup"

NextAttempt ==
    /\ step \in {"retry", "stop"}
    /\ IF step = "retry" /\ AttemptsLeft
       THEN /\ attempt' = attempt + 1 /\ step' = FirstStep
            /\ claimed' = FALSE /\ stage' = "none"
            /\ UNCHANGED code
       ELSE /\ step' = IF step = "retry" THEN "done" ELSE "abandoned"
            /\ code' = ExitCode /\ UNCHANGED <<attempt, claimed, stage>>
    /\ UNCHANGED <<windows, known, todo, written, faults>>

(***************************************************************************)
(* Windows, the network and the user                                       *)
(***************************************************************************)
helper == <<step, attempt, claimed, known, todo, stage, code, written>>

(* Disks appear: with the lowest free numbers in any order, online or not, *)
(* perhaps with a letter.                                                  *)
OneToOne(f, S) == \A d, e \in S : f[d] = f[e] => d = e

Appear(S, flags) ==
    \E number \in [S -> FreeNumbers], letter \in [S -> FreeLetters \cup {NoLetter}] :
        /\ OneToOne(number, S)
        /\ \A d \in S, n \in FreeNumbers : n < number[d] => \E e \in S : number[e] = n
        /\ OneToOne(letter, {d \in S : letter[d] # NoLetter})
        /\ \E offline, readOnly \in [S -> flags] :
            /\ \A d \in S : offline[d] => letter[d] = NoLetter
            /\ disk' = [d \in Disks |->
                   IF d \in S THEN [number |-> number[d], offline |-> offline[d],
                                    readOnly |-> readOnly[d], letter |-> letter[d]]
                   ELSE disk[d]]

(* The session shows the announced disks; or, by a fault, others.          *)
DisksAppear ==
    /\ session # "none" /\ member = {}
    /\ \/ Appear(Volumes, BOOLEAN) /\ member' = Volumes /\ UNCHANGED faults
       \/ /\ Costs
          /\ \E S \in SUBSET {d \in Disks : ~Attached(d)} :
                S \notin {{}, Volumes} /\ Appear(S, {FALSE}) /\ member' = S
    /\ UNCHANGED <<helper, session, steady, settled>>

(* The connection breaks; the initiator keeps the session and restores it. *)
LinkBreaks ==
    /\ session # "none" /\ member # {} /\ Costs
    /\ member' = {} /\ steady' = FALSE /\ settled' = FALSE
    /\ disk' = [d \in Disks |-> IF d \in member THEN Absent ELSE disk[d]]
    /\ UNCHANGED <<helper, session>>

BecomesWritable(v) ==
    /\ v \in member /\ disk[v].readOnly
    /\ disk' = [disk EXCEPT ![v].readOnly = FALSE]
    /\ UNCHANGED <<helper, session, member, steady, settled, faults>>

(* Windows gives a disk a letter some time after it has come online.       *)
LetterComesLate(v) ==
    /\ v \in member /\ ~disk[v].offline /\ disk[v].letter = NoLetter
    /\ Costs /\ \E l \in FreeLetters : Lettered(v, l)
    /\ UNCHANGED <<helper, session, member, steady, settled>>

(* The attempt may still end what it takes for its session.                *)
MayEnd == claimed /\ step \notin {"retry", "stop"} \cup Ended

(* Another program, or Windows for a persistent target, logs in and out.   *)
ForeignLogin ==
    /\ session = "none" /\ Costs
    /\ session' = IF MayEnd THEN "late" ELSE "foreign"
    /\ UNCHANGED <<helper, member, disk, steady, settled>>

ForeignLogout == session \in {"foreign", "late"} /\ SessionEnds /\ UNCHANGED <<helper, faults>>

Plug(o) ==
    /\ ~Attached(o) /\ Costs /\ Appear({o}, {FALSE})
    /\ UNCHANGED <<helper, session, member, steady, settled>>

Unplug(o) ==
    /\ Attached(o) /\ o \notin member
    /\ disk' = [disk EXCEPT ![o] = Absent]
    /\ UNCHANGED <<helper, session, member, steady, settled, faults>>

(* Power is lost; the startup task runs the helper again.  The sessions of *)
(* the helper are not persistent.                                          *)
Crash ==
    /\ step \notin Ended /\ Costs
    /\ SessionEnds
    /\ step' = "startup" /\ attempt' = 1 /\ claimed' = FALSE
    /\ known' = Unknown /\ todo' = {} /\ stage' = "none"
    /\ UNCHANGED <<code, written>>

HelperStep ==
    \/ Startup \/ ReadClient \/ Prepare \/ Discover \/ Connect \/ Login \/ SessionAppears
    \/ SessionDisks \/ WaitWritable \/ Recover \/ WaitAgain
    \/ \E isOffline \in BOOLEAN : CycleDisk(isOffline) \/ ConfirmDisk(isOffline)
    \/ Preflight \/ BringOnline \/ Assign \/ CheckOwners \/ TakeLetters \/ GiveLetters
    \/ VerifyLetters \/ Ready \/ Cleanup \/ NextAttempt

Environment ==
    \/ DisksAppear \/ LinkBreaks \/ ForeignLogin \/ ForeignLogout \/ Crash
    \/ \E v \in Volumes : BecomesWritable(v) \/ LetterComesLate(v)
    \/ \E o \in Others : Plug(o) \/ Unplug(o)

Next == HelperStep \/ Environment

Spec == Init /\ [][Next]_vars
FairSpec == /\ Spec /\ WF_vars(HelperStep) /\ WF_vars(DisksAppear)
            /\ \A v \in Volumes : WF_vars(BecomesWritable(v))

(***************************************************************************)
(* Properties                                                              *)
(***************************************************************************)
(* What the helper reports as ready is so: each announced volume is online *)
(* under its letter and nobody else has it, and it can be written, which   *)
(* was read before the mount (Get-ResetWritableDisksWithRecovery).  When   *)
(* disks went away since the claim the remembered numbers may mean others; *)
(* the label then still tells a volume apart that shares it with no disk   *)
(* (Wait-ResetVolumeAssignments).                                          *)
OwnLabel(v) == \A d \in Disks : Label[d] = Label[v] => d = v
MountedRight ==
    [][step = "verify" /\ step' = "sync" =>
        \A v \in Volumes :
            /\ steady \/ (settled /\ OwnLabel(v)) =>
                   ~disk[v].offline /\ HasLetter(Desired[v]) = {v}
            /\ steady => v \in member /\ ~disk[v].readOnly]_vars

(* The cycle takes only announced disks offline, even when Windows gives a *)
(* number to another disk meanwhile (Set-ResetSessionDiskOffline).         *)
OthersStayOnline ==
    [][\A o \in Others : Attached(o) /\ ~disk[o].offline => ~disk'[o].offline]_vars

(* The letter of a disk outside of the session is never changed, as long   *)
(* as the remembered numbers are valid (Assert-ResetDriveLetterOwnership). *)
OthersKeepLetters ==
    [][steady => \A o \in Others :
        Attached(o) /\ disk'[o].number = disk[o].number => disk'[o].letter = disk[o].letter]_vars

(* An attempt never begins, nor asks for a prepare, over a session that an *)
(* attempt has left behind (Connect-ResetTarget, $cleanupSafe).            *)
NoOldSession == step \in Before => session # "own"

(* Each login of the helper is to volumes that were prepared after its     *)
(* last session (Invoke-ResetMain repeats the whole attempt).              *)
FreshLogin == [][session = "none" /\ session' = "own" => ~written]_vars

(* When no other session and no other disk is in the way, fewer failures   *)
(* than attempts end in ready, or in a run that is abandoned because the   *)
(* end of its session could not be verified.                               *)
Obstacle == \/ session \in {"foreign", "late"}
            \/ \E v \in Volumes, o \in Others : disk[o].letter = Desired[v]
EventuallyReady ==
    [](~Obstacle /\ faults < MaxAttempts)
        => <>((step = "done" /\ code = 0) \/ step = "abandoned")

(* The helper never ends a session that was there before it claimed the    *)
(* target (Connect-ResetTarget, README.md:397).  One that appears between  *)
(* the claim and the login is taken for its own.                           *)
ForeignSessionKept == [][HelperStep /\ session = "foreign" => session' = "foreign"]_vars
=============================================================================
