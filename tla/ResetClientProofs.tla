-------------------------- MODULE ResetClientProofs --------------------------
(***************************************************************************)
(* The helper of a game PC, for any volumes, other disks and number of     *)
(* attempts, and however many failures and disturbances.                   *)
(***************************************************************************)
EXTENDS ResetClient, FiniteSetTheorems, TLAPS

Mounting == {"preflight", "online", "assign", "own", "unletter", "letter", "verify"}

(* Whose session it is, and whether the attempt may end it.                *)
Claims ==
    /\ session = "own" => claimed
    /\ session = "foreign" => ~MayEnd
    /\ step = "retry" => session # "own"
    /\ step \in Before => ~claimed
    /\ step = "login" => claimed
    /\ step \in {"discover", "connect", "login"} => ~written

(* Windows gives a number or letter to one disk at a time.                 *)
Unique ==
    \A d, e \in Disks : d # e =>
        /\ disk[d].number = disk[e].number => disk[d].number = NoNumber
        /\ disk[d].letter = disk[e].letter => disk[d].letter = NoLetter

(* What was read before the mount still holds unless disks went away.      *)
Mapped ==
    steady /\ step \in Mounting =>
        /\ member = Volumes
        /\ \A v \in Volumes : disk[v].number = known[v].number /\ ~disk[v].readOnly

Looping == step \in {"off", "offWait", "on", "onWait"} => todo # {}

Inv == TypeOK /\ Claims /\ Unique /\ Mapped /\ Looping

-----------------------------------------------------------------------------
(* How the disks can change.                                               *)

Letterings(d) == {NoLetter, disk[d].letter} \cup FreeLetters

(* One disk is seen differently; it keeps its number.                      *)
OneChanges(d) ==
    /\ disk' \in [Disks -> Views]
    /\ \A e \in Disks : e # d => disk'[e] = disk[e]
    /\ disk'[d].number = disk[d].number
    /\ disk'[d].letter \in Letterings(d)

LEMMA OneChangesUnique ==
    ASSUME TypeOK, Unique, NEW d \in Disks, OneChanges(d)
    PROVE  Unique'
<1> SUFFICES ASSUME NEW e \in Disks, NEW f \in Disks, e # f
             PROVE  /\ disk'[e].number = disk'[f].number => disk'[e].number = NoNumber
                    /\ disk'[e].letter = disk'[f].letter => disk'[e].letter = NoLetter
  BY DEF Unique
<1>1. \A g \in Disks : g # d /\ disk[g].letter = disk'[d].letter => disk'[d].letter = NoLetter
  BY DEF Letterings, FreeLetters, Unique, OneChanges
<1> QED
  BY <1>1 DEF Unique, OneChanges

LEMMA SwitchedChanges ==
    ASSUME TypeOK, NEW d \in Disks, NEW offline \in BOOLEAN, NEW l \in Letterings(d),
           NEW r \in BOOLEAN, Switched(d, offline, l, r)
    PROVE  OneChanges(d) /\ disk'[d].offline = offline /\ disk'[d].readOnly = r
<1>1. disk[d] \in Views /\ disk \in [Disks -> Views]
  BY DEF TypeOK
<1>2. l \in Letters \cup {NoLetter}
  BY <1>1 DEF Letterings, FreeLetters, Views
<1>3. disk'[d] = [[[disk[d] EXCEPT !.offline = offline] EXCEPT !.letter = l] EXCEPT !.readOnly = r]
  BY <1>1 DEF Switched
<1>4. /\ disk'[d] \in Views /\ disk'[d].number = disk[d].number /\ disk'[d].offline = offline
      /\ disk'[d].letter = l /\ disk'[d].readOnly = r
  BY <1>1, <1>2, <1>3 DEF Views
<1>5. \A e \in Disks : e # d => disk'[e] = disk[e]
  BY <1>1 DEF Switched
<1>6. disk' \in [Disks -> Views]
  <2>1. \A e \in Disks : disk'[e] \in Views
    BY <1>1, <1>4, <1>5
  <2>2. disk' = [e \in Disks |-> disk'[e]]
    BY <1>1 DEF Switched
  <2> QED
    BY <2>1, <2>2
<1> QED
  BY <1>4, <1>5, <1>6 DEF OneChanges

LEMMA GoesOfflineChanges ==
    ASSUME TypeOK, NEW d \in Disks, GoesOffline(d)
    PROVE  OneChanges(d)
<1>1. disk[d].readOnly \in BOOLEAN
  BY DEF TypeOK, Views
<1> QED
  BY <1>1, SwitchedChanges DEF GoesOffline, Letterings

LEMMA ComesOnlineChanges ==
    ASSUME TypeOK, NEW d \in Disks, ComesOnline(d)
    PROVE  OneChanges(d) /\ ~disk'[d].offline /\ (disk'[d].readOnly => disk[d].readOnly)
<1>1. disk[d].readOnly \in BOOLEAN
  BY DEF TypeOK, Views
<1>2. PICK l \in FreeLetters \cup {NoLetter}, r \in {FALSE, disk[d].readOnly} :
         Switched(d, FALSE, l, r)
  BY DEF ComesOnline
<1>3. r \in BOOLEAN /\ (r => disk[d].readOnly) /\ l \in Letterings(d)
  BY <1>1, <1>2 DEF Letterings
<1> QED
  BY <1>2, <1>3, SwitchedChanges

LEMMA LetterChanges ==
    ASSUME TypeOK, NEW d \in Disks, NEW l \in {NoLetter} \cup FreeLetters,
           disk' = [disk EXCEPT ![d].letter = l]
    PROVE  OneChanges(d) /\ disk'[d].readOnly = disk[d].readOnly
                         /\ disk'[d].offline = disk[d].offline
<1>1. disk[d] \in Views /\ disk \in [Disks -> Views]
  BY DEF TypeOK
<1>2. disk'[d] = [disk[d] EXCEPT !.letter = l]
  BY <1>1
<1>3. /\ disk'[d] \in Views /\ disk'[d].number = disk[d].number /\ disk'[d].letter = l
      /\ disk'[d].offline = disk[d].offline /\ disk'[d].readOnly = disk[d].readOnly
  BY <1>1, <1>2 DEF Views, FreeLetters
<1>4. disk' \in [Disks -> Views]
  BY <1>1, <1>3
<1> QED
  BY <1>1, <1>3, <1>4 DEF OneChanges, Letterings

LEMMA WritableChanges ==
    ASSUME TypeOK, NEW v \in Volumes, BecomesWritable(v)
    PROVE  OneChanges(v) /\ ~disk'[v].readOnly /\ disk'[v].offline = disk[v].offline
<1>1. disk[v] \in Views /\ disk \in [Disks -> Views] /\ v \in Disks
  BY DEF TypeOK, Disks
<1>2. disk'[v] = [disk[v] EXCEPT !.readOnly = FALSE]
  BY <1>1 DEF BecomesWritable
<1>3. /\ disk'[v] \in Views /\ disk'[v].number = disk[v].number /\ ~disk'[v].readOnly
      /\ disk'[v].offline = disk[v].offline /\ disk'[v].letter = disk[v].letter
  BY <1>1, <1>2 DEF Views
<1>4. disk' \in [Disks -> Views]
  BY <1>1, <1>3 DEF BecomesWritable
<1> QED
  BY <1>1, <1>3, <1>4 DEF OneChanges, Letterings, BecomesWritable

LEMMA LateLetterChanges ==
    ASSUME TypeOK, NEW v \in Volumes, LetterComesLate(v)
    PROVE  /\ OneChanges(v) /\ disk'[v].readOnly = disk[v].readOnly
           /\ disk'[v].offline = disk[v].offline
<1>1. PICK l \in FreeLetters : disk' = [disk EXCEPT ![v].letter = l]
  BY DEF LetterComesLate, Lettered
<1> QED
  BY <1>1, LetterChanges DEF Disks

(* Disks that go leave nothing behind.                                     *)
LEMMA GoneFacts ==
    ASSUME TypeOK, Unique, NEW S,
           disk' = [d \in Disks |-> IF d \in S THEN Absent ELSE disk[d]]
    PROVE  /\ disk' \in [Disks -> Views] /\ Unique'
           /\ \A d \in Disks : ~disk'[d].offline \/ disk'[d] = disk[d]
           /\ \A d \in Disks : disk'[d] = disk[d] \/ disk'[d].number = NoNumber
BY DEF TypeOK, Unique, Absent, Views

LEMMA AppearFacts ==
    ASSUME TypeOK, Unique, NEW S \in SUBSET Disks, NEW flags \in SUBSET BOOLEAN, Appear(S, flags)
    PROVE  /\ disk' \in [Disks -> Views] /\ Unique'
           /\ \A d \in Disks \ S : disk'[d] = disk[d]
<1>1. PICK number \in [S -> FreeNumbers], letter \in [S -> FreeLetters \cup {NoLetter}] :
        /\ OneToOne(number, S)
        /\ \A d \in S, n \in FreeNumbers : n < number[d] => \E e \in S : number[e] = n
        /\ OneToOne(letter, {d \in S : letter[d] # NoLetter})
        /\ \E offline, readOnly \in [S -> flags] :
            /\ \A d \in S : offline[d] => letter[d] = NoLetter
            /\ disk' = [d \in Disks |->
                   IF d \in S THEN [number |-> number[d], offline |-> offline[d],
                                    readOnly |-> readOnly[d], letter |-> letter[d]]
                   ELSE disk[d]]
  BY Zenon DEF Appear
<1>2. PICK offline \in [S -> flags], readOnly \in [S -> flags] :
               disk' = [d \in Disks |->
                   IF d \in S THEN [number |-> number[d], offline |-> offline[d],
                                    readOnly |-> readOnly[d], letter |-> letter[d]]
                   ELSE disk[d]]
  BY <1>1
<1>3. \A d \in Disks \ S : disk'[d] = disk[d]
  BY <1>2
<1>4. \A d \in S : /\ disk'[d].number = number[d] /\ disk'[d].letter = letter[d]
                   /\ disk'[d] \in Views
  <2> SUFFICES ASSUME NEW d \in S
               PROVE  /\ disk'[d].number = number[d] /\ disk'[d].letter = letter[d]
                      /\ disk'[d] \in Views
    OBVIOUS
  <2>1. number[d] \in Numbers /\ letter[d] \in Letters \cup {NoLetter}
    BY DEF FreeNumbers, FreeLetters
  <2>2. offline[d] \in BOOLEAN /\ readOnly[d] \in BOOLEAN
    OBVIOUS
  <2>3. disk'[d] = [number |-> number[d], offline |-> offline[d],
                    readOnly |-> readOnly[d], letter |-> letter[d]]
    BY <1>2
  <2> QED
    BY <2>1, <2>2, <2>3 DEF Views
<1>5. disk' \in [Disks -> Views]
  <2>1. \A d \in Disks : disk'[d] \in Views
    BY <1>3, <1>4 DEF TypeOK
  <2> QED
    BY <1>2, <2>1
<1>6. Unique'
  <2> SUFFICES ASSUME NEW e \in Disks, NEW f \in Disks, e # f
               PROVE  /\ disk'[e].number = disk'[f].number => disk'[e].number = NoNumber
                      /\ disk'[e].letter = disk'[f].letter => disk'[e].letter = NoLetter
    BY DEF Unique
  <2>1. CASE e \in S /\ f \in S
    BY <1>1, <1>4, <2>1 DEF OneToOne
  <2>2. CASE e \in S /\ f \notin S
    BY <1>3, <1>4, <2>2 DEF FreeNumbers, FreeLetters
  <2>3. CASE e \notin S /\ f \in S
    BY <1>3, <1>4, <2>3 DEF FreeNumbers, FreeLetters
  <2>4. CASE e \notin S /\ f \notin S
    BY <1>3, <2>4 DEF Unique
  <2> QED
    BY <2>1, <2>2, <2>3, <2>4
<1> QED
  BY <1>3, <1>5, <1>6

LEMMA UnplugFacts ==
    ASSUME TypeOK, Unique, NEW o \in Others, Unplug(o)
    PROVE  /\ disk' \in [Disks -> Views] /\ Unique' /\ disk'[o] = Absent
           /\ \A d \in Disks : d # o => disk'[d] = disk[d]
<1>1. o \in Disks /\ disk \in [Disks -> Views]
  BY DEF Disks, TypeOK
<1>2. disk'[o] = Absent /\ \A d \in Disks : d # o => disk'[d] = disk[d]
  BY <1>1 DEF Unplug
<1>3. disk' \in [Disks -> Views]
  BY <1>1 DEF Unplug, Absent, Views
<1>4. Unique'
  <2> SUFFICES ASSUME NEW e \in Disks, NEW f \in Disks, e # f
               PROVE  /\ disk'[e].number = disk'[f].number => disk'[e].number = NoNumber
                      /\ disk'[e].letter = disk'[f].letter => disk'[e].letter = NoLetter
    BY DEF Unique
  <2> QED
    BY <1>2 DEF Unique, Absent
<1> QED
  BY <1>2, <1>3, <1>4

(* No volume is touched when another disk is plugged in or out.            *)
LEMMA PluggedFacts ==
    ASSUME TypeOK, Unique, NEW o \in Others, Plug(o) \/ Unplug(o)
    PROVE  \A v \in Volumes : disk'[v] = disk[v]
<1>1. o \notin Volumes /\ o \in Disks /\ Volumes \subseteq Disks
  BY ResetClientAssumption DEF Disks
<1>2. CASE Plug(o)
  <2>1. Appear({o}, {FALSE}) /\ {o} \in SUBSET Disks /\ {FALSE} \in SUBSET BOOLEAN
    BY <1>1, <1>2 DEF Plug
  <2>2. \A d \in Disks \ {o} : disk'[d] = disk[d]
    BY <2>1, AppearFacts
  <2> QED
    BY <1>1, <2>2
<1>3. CASE Unplug(o)
  BY <1>1, <1>3, UnplugFacts
<1> QED
  BY <1>2, <1>3

LEMMA CurrentInTodo == ASSUME todo # {} PROVE Current \in todo
BY DEF Current

(* Steps that leave the disks alone.                                       *)
Quiet ==
    \/ Startup \/ ReadClient \/ Prepare \/ Discover \/ Connect \/ Login \/ SessionAppears
    \/ SessionDisks \/ WaitWritable \/ Recover \/ WaitAgain
    \/ \E isOffline \in BOOLEAN : ConfirmDisk(isOffline)
    \/ Preflight \/ Assign \/ CheckOwners \/ VerifyLetters \/ Ready \/ NextAttempt
    \/ ForeignLogin

LEMMA ReadingFacts ==
    ASSUME Assign \/ CheckOwners \/ VerifyLetters
    PROVE  UNCHANGED <<disk, session, member, steady, settled, written>>
<1>1. UNCHANGED <<session, member, steady, settled, written>>
  BY DEF Assign, CheckOwners, VerifyLetters
<1>2. disk' = disk
  BY DEF Assign, CheckOwners, VerifyLetters, ReadAssignment, LoopFails, LoopEnds
<1> QED
  BY <1>1, <1>2

LEMMA QuietFacts == ASSUME Quiet PROVE disk' = disk /\ member' = member
BY ReadingFacts DEF Quiet, Startup, ReadClient, Prepare, Discover, Connect, Login, SessionAppears,
   SessionDisks, WaitWritable, Recover, WaitAgain, ConfirmDisk, Preflight, Ready, NextAttempt,
   ForeignLogin, windows

(* What each of the others does to the disks.                              *)
Ends(S) == disk' = [d \in Disks |-> IF d \in S THEN Absent ELSE disk[d]]
Changing ==
    \/ \E d \in Disks : OneChanges(d)
    \/ Ends(member)
    \/ \E o \in Others : Unplug(o)
    \/ Appear(Volumes, BOOLEAN)
    \/ \E S \in SUBSET Disks : Appear(S, {FALSE})

LEMMA DiskFacts ==
    ASSUME TypeOK, Unique, disk' = disk \/ Changing
    PROVE  disk' \in [Disks -> Views] /\ Unique'
<1>1. CASE disk' = disk
  BY <1>1 DEF TypeOK, Unique
<1>2. ASSUME NEW d \in Disks, OneChanges(d) PROVE disk' \in [Disks -> Views] /\ Unique'
  BY <1>2, OneChangesUnique DEF OneChanges
<1>3. CASE Ends(member)
  BY <1>3, GoneFacts DEF Ends
<1>4. ASSUME NEW o \in Others, Unplug(o) PROVE disk' \in [Disks -> Views] /\ Unique'
  BY <1>4, UnplugFacts
<1>5. CASE Appear(Volumes, BOOLEAN)
  BY <1>5, AppearFacts DEF Disks
<1>6. ASSUME NEW S \in SUBSET Disks, Appear(S, {FALSE}) PROVE disk' \in [Disks -> Views] /\ Unique'
  BY <1>6, AppearFacts
<1> QED
  BY <1>1, <1>2, <1>3, <1>4, <1>5, <1>6 DEF Changing

LEMMA CycledFacts ==
    ASSUME TypeOK, Looping, NEW isOffline \in BOOLEAN, CycleDisk(isOffline), NEW d \in Cycled
    PROVE  d = Current /\ d \in Volumes /\ Matches
<1>1. todo # {}
  BY DEF CycleDisk, Looping
<1> QED
  BY <1>1, CurrentInTodo DEF Cycled, TypeOK

LEMMA CycleFacts ==
    ASSUME TypeOK, Looping, NEW isOffline \in BOOLEAN, CycleDisk(isOffline)
    PROVE  disk' = disk \/ \E d \in Volumes : OneChanges(d)
<1>1. CASE \E d \in Cycled : IF isOffline THEN GoesOffline(d) ELSE ComesOnline(d)
  <2>1. PICK d \in Cycled : IF isOffline THEN GoesOffline(d) ELSE ComesOnline(d)
    BY <1>1
  <2>2. d \in Volumes
    BY CycledFacts
  <2> QED
    BY <2>1, <2>2, GoesOfflineChanges, ComesOnlineChanges DEF Disks
<1>2. CASE disk' = disk
  BY <1>2
<1> QED
  BY <1>1, <1>2 DEF CycleDisk

(* A step of a loop changes the disk that has the remembered number.       *)
LEMMA LoopFacts ==
    ASSUME TypeOK, BringOnline \/ TakeLetters \/ GiveLetters
    PROVE  \/ disk' = disk
           \/ /\ todo # {} /\ known' = known
              /\ \E d \in Addressed : /\ OneChanges(d)
                                      /\ disk'[d].readOnly => disk[d].readOnly
                                      /\ disk'[d].offline => disk[d].offline
<1>1. Addressed \subseteq Disks /\ Unlettered \subseteq Addressed
  BY DEF Addressed, HasNumber, Unlettered
<1>2. CASE BringOnline
  <2>1. CASE /\ todo # {} /\ UNCHANGED known
             /\ \E d \in Addressed : IF disk[d].offline THEN ComesOnline(d) ELSE UNCHANGED disk
    <3>1. PICK d \in Addressed : IF disk[d].offline THEN ComesOnline(d) ELSE UNCHANGED disk
      BY <2>1
    <3> QED
      BY <1>1, <2>1, <3>1, ComesOnlineChanges
  <2>2. CASE LoopFails(Addressed # {}) \/ LoopEnds("assign")
    BY <2>2 DEF LoopFails, LoopEnds
  <2> QED
    BY <1>2, <2>1, <2>2 DEF BringOnline
<1>3. CASE TakeLetters
  <2>1. CASE todo # {} /\ UNCHANGED known /\ \E d \in Unlettered : Lettered(d, NoLetter)
    <3>1. PICK d \in Unlettered : disk' = [disk EXCEPT ![d].letter = NoLetter]
      BY <2>1 DEF Lettered
    <3>2. /\ OneChanges(d) /\ disk'[d].readOnly = disk[d].readOnly
          /\ disk'[d].offline = disk[d].offline
      BY <1>1, <3>1, LetterChanges
    <3> QED
      BY <1>1, <2>1, <3>2
  <2>2. CASE UNCHANGED disk \/ LoopFails(Unlettered # {}) \/ LoopEnds("letter")
    BY <2>2 DEF LoopFails, LoopEnds
  <2> QED
    BY <1>3, <2>1, <2>2 DEF TakeLetters
<1>4. CASE GiveLetters
  <2>1. CASE todo # {} /\ UNCHANGED known /\ \E d \in Letterable : Lettered(d, Desired[Current])
    <3>1. PICK d \in Letterable : disk' = [disk EXCEPT ![d].letter = Desired[Current]]
      BY <2>1 DEF Lettered
    <3>2. /\ OneChanges(d) /\ disk'[d].readOnly = disk[d].readOnly
          /\ disk'[d].offline = disk[d].offline
      BY <1>1, <3>1, LetterChanges DEF Letterable
    <3> QED
      BY <1>1, <2>1, <3>2 DEF Letterable
  <2>2. CASE UNCHANGED disk \/ LoopFails(Letterable # {}) \/ LoopEnds("verify")
    BY <2>2 DEF LoopFails, LoopEnds
  <2> QED
    BY <1>4, <2>1, <2>2 DEF GiveLetters
<1> QED
  BY <1>2, <1>3, <1>4

LEMMA NextChanges ==
    ASSUME TypeOK, Looping, Next
    PROVE  disk' = disk \/ Changing
<1>1. CASE Quiet
  BY <1>1, QuietFacts
<1>2. ASSUME NEW isOffline \in BOOLEAN, CycleDisk(isOffline) PROVE disk' = disk \/ Changing
  BY <1>2, CycleFacts DEF Changing, Disks
<1>3. CASE BringOnline \/ TakeLetters \/ GiveLetters
  BY <1>3, LoopFacts DEF Changing, Addressed, HasNumber
<1>4. CASE Cleanup
  BY <1>4 DEF Cleanup, SessionEnds, Changing, Ends, windows
<1>5. CASE DisksAppear
  BY <1>5 DEF DisksAppear, Changing
<1>6. CASE LinkBreaks \/ ForeignLogout \/ Crash
  BY <1>6 DEF LinkBreaks, ForeignLogout, Crash, SessionEnds, Changing, Ends
<1>7. ASSUME NEW v \in Volumes, BecomesWritable(v) \/ LetterComesLate(v) PROVE Changing
  BY <1>7, WritableChanges, LateLetterChanges DEF Changing, Disks
<1>8. ASSUME NEW o \in Others, Plug(o) \/ Unplug(o) PROVE Changing
  BY <1>8 DEF Plug, Changing, Disks
<1> QED
  BY <1>1, <1>2, <1>3, <1>4, <1>5, <1>6, <1>7, <1>8 DEF Next, HelperStep, Environment, Quiet

LEMMA StepsNamed ==
    /\ Before \subseteq Steps /\ Mounting \subseteq Steps
    /\ {"login", "appear", "disks", "writable", "recover", "off", "offWait", "on", "onWait",
        "again", "sync", "cleanup", "retry", "stop", "done", "abandoned"} \subseteq Steps
    /\ "none" \in Stages /\ "startup" \in Stages /\ "client_configuration" \in Stages
    /\ "prepare" \in Stages /\ "connect" \in Stages /\ "disk_validation" \in Stages
BY DEF Steps, Before, Mounting, Stages

LEMMA UnknownTyped == Unknown \in [Volumes -> Remembered] /\ (TypeOK => Fresh \in [Volumes -> Remembered])
<1>1. TypeOK => \A v \in Volumes : disk[v].number \in Numbers \cup {NoNumber}
  BY DEF TypeOK, Views, Disks
<1> QED
  BY <1>1 DEF Unknown, Remembered, Fresh

(* The letter of a disk is read for the volume whose turn it is.           *)
ReadsLetter(d) == known' = [known EXCEPT ![Current].letter = disk[d].letter]

LEMMA ReadsLetterFacts ==
    ASSUME TypeOK, todo # {}, NEW d \in Disks, ReadsLetter(d)
    PROVE  /\ known' \in [Volumes -> Remembered]
           /\ \A v \in Volumes : /\ known'[v].number = known[v].number
                                 /\ v # Current => known'[v] = known[v]
           /\ known'[Current].letter = disk[d].letter
<1>1. /\ Current \in Volumes /\ known \in [Volumes -> Remembered]
      /\ disk[d].letter \in Letters \cup {NoLetter}
  BY CurrentInTodo DEF TypeOK, Views
<1>2. known'[Current] = [known[Current] EXCEPT !.letter = disk[d].letter]
  BY <1>1 DEF ReadsLetter
<1>3. /\ known'[Current] \in Remembered /\ known'[Current].number = known[Current].number
      /\ known'[Current].letter = disk[d].letter
  BY <1>1, <1>2 DEF Remembered
<1>4. \A v \in Volumes : v # Current => known'[v] = known[v]
  BY <1>1 DEF ReadsLetter
<1>5. known' \in [Volumes -> Remembered]
  BY <1>1, <1>3, <1>4 DEF ReadsLetter
<1> QED
  BY <1>3, <1>4, <1>5

(* The variables other than the disks.                                     *)
TypeRest ==
    /\ session' \in {"none", "own", "foreign", "late"} /\ member' \subseteq Disks
    /\ step' \in Steps /\ attempt' \in 1..MaxAttempts /\ claimed' \in BOOLEAN
    /\ known' \in [Volumes -> Remembered] /\ todo' \subseteq Volumes
    /\ stage' \in Stages /\ code' \in {0, 10, 20, 40}
    /\ written' \in BOOLEAN /\ steady' \in BOOLEAN /\ settled' \in BOOLEAN
    /\ faults' \in 0..MaxFaults

LEMMA CostsTyped == TypeOK /\ Costs => faults' \in 0..MaxFaults
BY ResetClientAssumption DEF TypeOK, Costs

LEMMA LoginTyped ==
    ASSUME TypeOK, Startup \/ ReadClient \/ Prepare \/ Discover \/ Connect \/ Login \/ SessionAppears
    PROVE  TypeRest
<1>1. CASE Login
  <2>1. /\ session' \in {"none", "own", "foreign", "late"} /\ written' \in BOOLEAN
        /\ faults' \in 0..MaxFaults
    BY <1>1, CostsTyped DEF Login, TypeOK, Go, Fail
  <2>2. /\ step' \in {"appear", "cleanup"} /\ stage' \in {stage, "connect"}
        /\ known' \in {known, Unknown} /\ todo' \in {todo, {}}
        /\ attempt' = attempt /\ claimed' = claimed /\ code' = code
        /\ UNCHANGED <<member, steady, settled>>
    BY <1>1 DEF Login, Go, Fail
  <2> QED
    BY <2>1, <2>2, StepsNamed, UnknownTyped DEF TypeOK, TypeRest
<1>2. CASE Startup \/ Discover
  BY <1>2, StepsNamed, UnknownTyped, CostsTyped DEF TypeOK, TypeRest, Startup, Discover, Go, Fail,
     windows, Before
<1>4. CASE ReadClient
  BY <1>4, StepsNamed, UnknownTyped, CostsTyped DEF TypeOK, TypeRest, ReadClient, Go, Fail,
     windows, Before
<1>5. CASE Prepare
  BY <1>5, StepsNamed, UnknownTyped, CostsTyped DEF TypeOK, TypeRest, Prepare, Go, Fail,
     windows, Before
<1>3. CASE Connect
  BY <1>3, StepsNamed, UnknownTyped, CostsTyped DEF TypeOK, TypeRest, Connect, Fail
<1>6. CASE SessionAppears
  BY <1>6, StepsNamed, UnknownTyped, CostsTyped DEF TypeOK, TypeRest, SessionAppears, Go, Fail,
     windows
<1> QED
  BY <1>1, <1>2, <1>3, <1>4, <1>5, <1>6

LEMMA DisksTyped ==
    ASSUME TypeOK, \/ SessionDisks \/ WaitWritable \/ Recover \/ WaitAgain
                   \/ \E isOffline \in BOOLEAN : CycleDisk(isOffline) \/ ConfirmDisk(isOffline)
    PROVE  TypeRest
<1>1. CASE SessionDisks \/ WaitWritable \/ Recover \/ WaitAgain
  BY <1>1, StepsNamed, UnknownTyped, CostsTyped DEF TypeOK, TypeRest, SessionDisks, WaitWritable,
     Recover, WaitAgain, Mountable, Go, Fail, windows, Mounting
<1>2. ASSUME NEW isOffline \in BOOLEAN, CycleDisk(isOffline) \/ ConfirmDisk(isOffline)
      PROVE  TypeRest
  BY <1>2, StepsNamed, UnknownTyped, CostsTyped DEF TypeOK, TypeRest, CycleDisk, ConfirmDisk,
     Go, Fail, windows
<1> QED
  BY <1>1, <1>2

LEMMA MountTyped ==
    ASSUME TypeOK, \/ Preflight \/ BringOnline \/ Assign \/ CheckOwners \/ TakeLetters
                   \/ GiveLetters \/ VerifyLetters
    PROVE  TypeRest
<1>1. CASE Assign \/ CheckOwners \/ VerifyLetters
  <2>1. UNCHANGED <<session, member, steady, settled, written>>
    BY <1>1, ReadingFacts
  <2>2. CASE ReadAssignment
    <3>1. CASE todo # {} /\ LoopGoesOn /\ UNCHANGED faults /\ \E d \in Readable : ReadsLetter(d)
      <4>1. known' \in [Volumes -> Remembered]
        BY <3>1, ReadsLetterFacts DEF Readable, Addressed, HasNumber
      <4> QED
        BY <2>1, <3>1, <4>1 DEF TypeOK, TypeRest, LoopGoesOn
    <3>2. CASE LoopFails(Readable # {})
      BY <2>1, <3>2, StepsNamed, UnknownTyped, CostsTyped DEF TypeOK, TypeRest, LoopFails, Fail
    <3> QED
      BY <2>2, <3>1, <3>2 DEF ReadAssignment, ReadsLetter
  <2>3. CASE CheckOwners \/ ~ReadAssignment
    BY <1>1, <2>1, <2>3, StepsNamed, UnknownTyped, CostsTyped DEF TypeOK, TypeRest, Assign,
       CheckOwners, VerifyLetters, LoopGoesOn, LoopFails, LoopEnds, Go, Fail, Mounting
  <2> QED
    BY <1>1, <2>2, <2>3
<1>2. CASE Preflight
  BY <1>2, StepsNamed, UnknownTyped, CostsTyped DEF TypeOK, TypeRest, Preflight, Go, Fail,
     windows, Mounting
<1>3. CASE BringOnline \/ TakeLetters \/ GiveLetters
  <2>1. /\ UNCHANGED <<session, member, steady, written, attempt, claimed, code>>
        /\ settled' \in BOOLEAN /\ known' \in {known, Unknown} /\ todo' \subseteq Volumes
        /\ stage' \in {stage, "disk_validation"}
        /\ step' \in {"online", "assign", "unletter", "letter", "verify", "cleanup"}
    BY <1>3 DEF TypeOK, BringOnline, TakeLetters, GiveLetters, LoopGoesOn, LoopFails, LoopEnds,
       Go, Fail
  <2>2. faults' = faults \/ Costs
    BY <1>3 DEF BringOnline, TakeLetters, GiveLetters, LoopFails, LoopEnds
  <2> QED
    BY <2>1, <2>2, StepsNamed, UnknownTyped, CostsTyped DEF TypeOK, TypeRest, Mounting
<1> QED
  BY <1>1, <1>2, <1>3

LEMMA OtherTyped ==
    ASSUME TypeOK, Ready \/ Cleanup \/ NextAttempt \/ Environment
    PROVE  TypeRest
<1>1. CASE Ready \/ Cleanup
  <2>1. CASE Ready
    BY <2>1, StepsNamed, UnknownTyped DEF TypeOK, TypeRest, Ready, windows
  <2>2. CASE Cleanup
    <3>1. /\ step' \in {"retry", "stop"}
          /\ UNCHANGED <<attempt, claimed, stage, code, known, todo, written>>
          /\ SessionEnds \/ UNCHANGED windows
          /\ faults' = faults \/ Costs
      BY <2>2 DEF Cleanup, Go
    <3> QED
      BY <3>1, StepsNamed, CostsTyped DEF TypeOK, TypeRest, SessionEnds, windows
  <2> QED
    BY <1>1, <2>1, <2>2
<1>2. CASE NextAttempt
  <2>1. AttemptsLeft => attempt + 1 \in 1..MaxAttempts
    BY ResetClientAssumption DEF AttemptsLeft, TypeOK
  <2>2. ExitCode \in {0, 10, 20, 40}
    BY DEF ExitCode
  <2>3. CASE step = "retry" /\ AttemptsLeft
    BY <1>2, <2>1, <2>3, StepsNamed DEF TypeOK, TypeRest, NextAttempt, FirstStep, Before, windows
  <2>4. CASE ~(step = "retry" /\ AttemptsLeft)
    BY <1>2, <2>2, <2>4, StepsNamed DEF TypeOK, TypeRest, NextAttempt, windows
  <2> QED
    BY <2>3, <2>4
<1>3. CASE Crash
  <2>1. 1 \in 1..MaxAttempts
    BY ResetClientAssumption
  <2> QED
    BY <1>3, <2>1, StepsNamed, UnknownTyped, CostsTyped DEF TypeOK, TypeRest, Crash, SessionEnds, Before
<1>4. CASE DisksAppear \/ ForeignLogin
  BY <1>4, CostsTyped DEF TypeOK, TypeRest, DisksAppear, ForeignLogin, helper, Disks
<1>7. CASE LinkBreaks \/ ForeignLogout
  BY <1>7, CostsTyped DEF TypeOK, TypeRest, LinkBreaks, ForeignLogout, SessionEnds, helper
<1>5. ASSUME NEW v \in Volumes, BecomesWritable(v) \/ LetterComesLate(v) PROVE TypeRest
  BY <1>5, CostsTyped DEF TypeOK, TypeRest, BecomesWritable, LetterComesLate, helper
<1>6. ASSUME NEW o \in Others, Plug(o) \/ Unplug(o) PROVE TypeRest
  BY <1>6, CostsTyped DEF TypeOK, TypeRest, Plug, Unplug, helper
<1> QED
  BY <1>1, <1>2, <1>3, <1>4, <1>5, <1>6, <1>7 DEF Environment

LEMMA NextTyped == ASSUME TypeOK, Unique, Looping, Next PROVE TypeOK' /\ Unique'
<1>1. disk' \in [Disks -> Views] /\ Unique'
  BY NextChanges, DiskFacts
<1>2. TypeRest
  BY LoginTyped, DisksTyped, MountTyped, OtherTyped DEF Next, HelperStep
<1> QED
  BY <1>1, <1>2 DEF TypeOK, TypeRest

LEMMA LoopingKept == ASSUME TypeOK, Looping, Next PROVE Looping'
<1> USE DEF Looping
<1>1. CASE Recover
  BY <1>1, ResetClientAssumption DEF Recover, Go, Fail
<1>2. ASSUME NEW isOffline \in BOOLEAN, CycleDisk(isOffline) PROVE Looping'
  BY <1>2 DEF CycleDisk, Go, Fail
<1>3. ASSUME NEW isOffline \in BOOLEAN, ConfirmDisk(isOffline) PROVE Looping'
  BY <1>3, CurrentInTodo DEF ConfirmDisk, Go, Fail
<1>4. CASE Startup \/ ReadClient \/ Prepare \/ Discover \/ Connect \/ Login \/ SessionAppears
  BY <1>4 DEF Startup, ReadClient, Prepare, Discover, Connect, Login, SessionAppears, Go, Fail
<1>5. CASE SessionDisks \/ WaitWritable \/ WaitAgain
  BY <1>5 DEF SessionDisks, WaitWritable, WaitAgain, Mountable, Go, Fail
<1>6. CASE Preflight \/ BringOnline \/ Assign \/ CheckOwners
  BY <1>6 DEF Preflight, BringOnline, Assign, CheckOwners, ReadAssignment, LoopGoesOn, LoopFails,
     LoopEnds, Go, Fail
<1>7. CASE TakeLetters \/ GiveLetters \/ VerifyLetters
  BY <1>7 DEF TakeLetters, GiveLetters, VerifyLetters, ReadAssignment, LoopGoesOn, LoopFails,
     LoopEnds, Go, Fail
<1>8. CASE Ready \/ Cleanup \/ NextAttempt
  BY <1>8 DEF Ready, Cleanup, NextAttempt, FirstStep, Go
<1>9. CASE Environment
  BY <1>9 DEF Environment, DisksAppear, LinkBreaks, ForeignLogin, ForeignLogout, Crash,
     BecomesWritable, LetterComesLate, Plug, Unplug, helper
<1> QED
  BY <1>1, <1>2, <1>3, <1>4, <1>5, <1>6, <1>7, <1>8, <1>9 DEF Next, HelperStep

LEMMA ClaimsKept == ASSUME TypeOK, Claims, Looping, Next PROVE Claims'
<1> USE DEF Claims, Before, MayEnd, Ended
<1>1. CASE Startup \/ ReadClient \/ Prepare \/ Discover
  BY <1>1 DEF Startup, ReadClient, Prepare, Discover, Go, Fail, windows
<1>2. CASE Connect
  BY <1>2 DEF Connect, Fail
<1>3. CASE Login
  BY <1>3 DEF Login, Go, Fail
<1>4. CASE SessionAppears \/ SessionDisks \/ WaitWritable \/ Recover \/ WaitAgain
  BY <1>4 DEF SessionAppears, SessionDisks, WaitWritable, Recover, WaitAgain, Mountable, Go, Fail,
     windows
<1>5. ASSUME NEW isOffline \in BOOLEAN, CycleDisk(isOffline) \/ ConfirmDisk(isOffline)
      PROVE  Claims'
  BY <1>5 DEF CycleDisk, ConfirmDisk, Go, Fail, windows
<1>6. CASE Preflight
  BY <1>6 DEF Preflight, Go, Fail, windows
<1>13. CASE Assign \/ CheckOwners \/ VerifyLetters
  <2>1. UNCHANGED <<session, written, claimed>>
    BY <1>13, ReadingFacts DEF Assign, CheckOwners, VerifyLetters, ReadAssignment, LoopGoesOn,
       LoopFails, LoopEnds, Go, Fail
  <2>2. /\ step \in {"assign", "own", "verify"}
        /\ step' \in {"assign", "own", "unletter", "verify", "sync", "cleanup"}
    BY <1>13 DEF Assign, CheckOwners, VerifyLetters, ReadAssignment, LoopGoesOn, LoopFails,
       LoopEnds, Go, Fail
  <2> QED
    BY <2>1, <2>2
<1>7. CASE BringOnline \/ TakeLetters \/ GiveLetters
  BY <1>7 DEF BringOnline, TakeLetters, GiveLetters, LoopGoesOn, LoopFails, LoopEnds, Go, Fail
<1>8. CASE Ready \/ Cleanup
  BY <1>8 DEF Ready, Cleanup, CleanupSafe, SessionEnds, ToDisconnect, Go, windows, TypeOK
<1>9. CASE NextAttempt
  BY <1>9 DEF NextAttempt, FirstStep, TypeOK, windows
<1>10. CASE DisksAppear \/ LinkBreaks \/ ForeignLogin \/ ForeignLogout \/ Crash
  BY <1>10 DEF DisksAppear, LinkBreaks, ForeignLogin, ForeignLogout, Crash, SessionEnds, helper,
     TypeOK
<1>11. ASSUME NEW v \in Volumes, BecomesWritable(v) \/ LetterComesLate(v) PROVE Claims'
  BY <1>11 DEF BecomesWritable, LetterComesLate, helper
<1>12. ASSUME NEW o \in Others, Plug(o) \/ Unplug(o) PROVE Claims'
  BY <1>12 DEF Plug, Unplug, helper
<1> QED
  BY <1>1, <1>2, <1>3, <1>4, <1>5, <1>6, <1>7, <1>8, <1>9, <1>10, <1>11, <1>12, <1>13
     DEF Next, HelperStep, Environment

(* What was read is written down where the mount begins, and stays true.   *)
LEMMA MappedBegins ==
    ASSUME TypeOK, Matches, AllWritable, Mountable, disk' = disk, member' = member
    PROVE  Mapped'
<1>1. \A v \in Volumes : known'[v].number = disk[v].number
  BY DEF Mountable, Fresh
<1> QED
  BY <1>1 DEF Mapped, Matches, AllWritable

LEMMA MappedByLoop ==
    ASSUME TypeOK, Mapped, BringOnline \/ TakeLetters \/ GiveLetters
    PROVE  Mapped'
<1>1. /\ member' = member /\ steady' = steady
      /\ step' \in Mounting => step \in Mounting /\ known' = known
  BY DEF BringOnline, TakeLetters, GiveLetters, LoopGoesOn, LoopFails, LoopEnds, Go, Fail, Mounting
<1>2. CASE disk' = disk
  BY <1>1, <1>2 DEF Mapped
<1>3. CASE \E d \in Addressed : OneChanges(d) /\ (disk'[d].readOnly => disk[d].readOnly)
  <2>1. PICK d \in Addressed : OneChanges(d) /\ (disk'[d].readOnly => disk[d].readOnly)
    BY <1>3
  <2>2. \A e \in Disks : /\ disk'[e].number = disk[e].number
                         /\ ~disk[e].readOnly => ~disk'[e].readOnly
    BY <2>1 DEF OneChanges
  <2> QED
    BY <1>1, <2>2 DEF Mapped, Disks
<1> QED
  BY <1>2, <1>3, LoopFacts

LEMMA MappedKept == ASSUME TypeOK, Unique, Mapped, Looping, Next PROVE Mapped'
<1>1. CASE BringOnline \/ TakeLetters \/ GiveLetters
  BY <1>1, MappedByLoop
<1>2. CASE \/ Startup \/ ReadClient \/ Prepare \/ Discover \/ Connect \/ Login
           \/ SessionAppears \/ Recover \/ Ready \/ Cleanup \/ NextAttempt
           \/ \E isOffline \in BOOLEAN : CycleDisk(isOffline) \/ ConfirmDisk(isOffline)
  <2>1. step' \notin Mounting
    BY <1>2 DEF Startup, ReadClient, Prepare, Discover, Connect, Login, SessionAppears, Recover,
       Ready, Cleanup, NextAttempt, FirstStep, CycleDisk, ConfirmDisk, Go, Fail, Mounting
  <2> QED
    BY <2>1 DEF Mapped
<1>3. CASE SessionDisks \/ WaitWritable \/ WaitAgain
  <2>1. disk' = disk /\ member' = member
    BY <1>3, QuietFacts DEF Quiet
  <2>2. (Matches /\ AllWritable /\ Mountable) \/ step' \notin Mounting
    BY <1>3 DEF SessionDisks, WaitWritable, WaitAgain, Go, Fail, Mounting
  <2> QED
    BY <2>1, <2>2, MappedBegins DEF Mapped
<1>4. CASE Preflight \/ Assign \/ CheckOwners \/ VerifyLetters
  <2>1. disk' = disk /\ member' = member /\ steady' = steady
    BY <1>4, ReadingFacts DEF Preflight, windows
  <2>2. step \in Mounting
    BY <1>4 DEF Preflight, Assign, CheckOwners, VerifyLetters, Mounting
  <2>3. CASE todo # {} /\ \E d \in Readable : ReadsLetter(d)
    <3>1. \A v \in Volumes : known'[v].number = known[v].number
      BY <2>3, ReadsLetterFacts DEF Readable, Addressed, HasNumber
    <3> QED
      BY <2>1, <2>2, <3>1 DEF Mapped
  <2>4. CASE step' \in Mounting => known' = known
    BY <2>1, <2>2, <2>4 DEF Mapped
  <2> QED
    BY <1>4, <2>3, <2>4 DEF Preflight, Assign, CheckOwners, VerifyLetters, ReadAssignment,
       ReadsLetter, LoopFails, LoopEnds, Go, Fail, Mounting
<1>5. CASE LinkBreaks \/ ForeignLogout \/ Crash
  BY <1>5 DEF LinkBreaks, ForeignLogout, Crash, SessionEnds, Mapped
<1>6. CASE DisksAppear
  BY <1>6, ResetClientAssumption DEF DisksAppear, helper, Mapped
<1>7. CASE ForeignLogin
  BY <1>7 DEF ForeignLogin, helper, Mapped
<1>8. ASSUME NEW v \in Volumes, BecomesWritable(v) \/ LetterComesLate(v) PROVE Mapped'
  <2>1. \A w \in Volumes : /\ disk'[w].number = disk[w].number
                           /\ ~disk[w].readOnly => ~disk'[w].readOnly
    BY <1>8, WritableChanges, LateLetterChanges DEF OneChanges, Disks
  <2> QED
    BY <1>8, <2>1 DEF BecomesWritable, LetterComesLate, helper, Mapped
<1>9. ASSUME NEW o \in Others, Plug(o) \/ Unplug(o) PROVE Mapped'
  <2>1. \A v \in Volumes : disk'[v] = disk[v]
    BY <1>9, PluggedFacts
  <2> QED
    BY <1>9, <2>1 DEF Plug, Unplug, helper, Mapped
<1> QED
  BY <1>1, <1>2, <1>3, <1>4, <1>5, <1>6, <1>7, <1>8, <1>9 DEF Next, HelperStep, Environment

(* In every run of the helper the invariant holds.                         *)
THEOREM Safety == Spec => []Inv
<1>1. Init => Inv
  <2> SUFFICES ASSUME Init PROVE Inv
    OBVIOUS
  <2>1. TypeOK
    <3>1. disk \in [Disks -> Views]
      BY DEF Init, Absent, Views
    <3>2. 1 \in 1..MaxAttempts /\ 0 \in 0..MaxFaults
      BY ResetClientAssumption
    <3> QED
      BY <3>1, <3>2, StepsNamed, UnknownTyped DEF Init, TypeOK, Before
  <2>2. Claims /\ Mapped /\ Looping
    BY DEF Init, Claims, Mapped, Looping
  <2>3. Unique
    BY DEF Init, Unique, Absent
  <2> QED
    BY <2>1, <2>2, <2>3 DEF Inv
<1>2. Inv /\ [Next]_vars => Inv'
  <2> SUFFICES ASSUME Inv, [Next]_vars PROVE Inv'
    OBVIOUS
  <2>1. CASE Next
    BY <2>1, NextTyped, ClaimsKept, MappedKept, LoopingKept DEF Inv
  <2>2. CASE UNCHANGED vars
    BY <2>2 DEF Inv, vars, TypeOK, Claims, MayEnd, Unique, Mapped, Looping
  <2> QED
    BY <2>1, <2>2
<1> QED
  BY <1>1, <1>2, PTL DEF Spec

(* The variables keep their types, and the codes are the documented ones.  *)
THEOREM TypeCorrect == Spec => []TypeOK
<1>1. Inv => TypeOK
  BY DEF Inv
<1> QED
  BY <1>1, Safety, PTL

(* No attempt works over a session that an attempt has left behind.        *)
THEOREM NoSessionLeft == Spec => []NoOldSession
<1>1. Inv => NoOldSession
  BY DEF Inv, Claims, NoOldSession
<1> QED
  BY <1>1, Safety, PTL

(* Every login of the helper is to freshly prepared volumes.               *)
THEOREM FreshLogins == Spec => FreshLogin
<1>1. Inv /\ Next /\ session = "none" /\ session' = "own" => ~written
  <2> SUFFICES ASSUME Inv, Next, session = "none", session' = "own" PROVE ~written
    OBVIOUS
  <2>1. session' # session
    OBVIOUS
  <2>2. CASE Quiet
    <3>1. Login
      BY <2>1, <2>2, ReadingFacts DEF Quiet, Startup, ReadClient, Prepare, Discover, Connect,
         SessionAppears, SessionDisks, WaitWritable, Recover, WaitAgain, ConfirmDisk, Preflight,
         Ready, NextAttempt, ForeignLogin, windows
    <3> QED
      BY <3>1 DEF Login, Inv, Claims
  <2>3. CASE Environment
    BY <2>3 DEF Environment, DisksAppear, LinkBreaks, ForeignLogin, ForeignLogout, Crash,
       SessionEnds, BecomesWritable, LetterComesLate, Plug, Unplug
  <2>4. CASE \/ \E isOffline \in BOOLEAN : CycleDisk(isOffline)
             \/ BringOnline \/ TakeLetters \/ GiveLetters \/ Cleanup
    BY <2>4 DEF CycleDisk, BringOnline, TakeLetters, GiveLetters, Cleanup, SessionEnds, windows
  <2> QED
    BY <2>2, <2>3, <2>4 DEF Next, HelperStep, Quiet
<1>2. Inv /\ [Next]_vars => [session = "none" /\ session' = "own" => ~written]_vars
  BY <1>1
<1> QED
  BY <1>2, Safety, PTL DEF Spec, FreshLogin

(* The helper leaves a session alone that was there before it.             *)
THEOREM ForeignKept == Spec => ForeignSessionKept
<1>1. Inv /\ HelperStep /\ session = "foreign" => session' = "foreign"
  <2> SUFFICES ASSUME Inv, HelperStep, session = "foreign" PROVE session' = session
    OBVIOUS
  <2>1. CASE Quiet
    BY <2>1, ReadingFacts DEF Quiet, Startup, ReadClient, Prepare, Discover, Connect, Login,
       SessionAppears, SessionDisks, WaitWritable, Recover, WaitAgain, ConfirmDisk, Preflight,
       Ready, NextAttempt, ForeignLogin, windows
  <2>2. CASE \/ \E isOffline \in BOOLEAN : CycleDisk(isOffline)
             \/ BringOnline \/ TakeLetters \/ GiveLetters
    BY <2>2 DEF CycleDisk, BringOnline, TakeLetters, GiveLetters
  <2>3. CASE Cleanup
    BY <2>3 DEF Cleanup, ToDisconnect, Inv, Claims, MayEnd, Ended, windows
  <2> QED
    BY <2>1, <2>2, <2>3 DEF HelperStep, Quiet
<1>2. Inv /\ [Next]_vars => [HelperStep /\ session = "foreign" => session' = "foreign"]_vars
  BY <1>1
<1> QED
  BY <1>2, Safety, PTL DEF Spec, ForeignSessionKept

-----------------------------------------------------------------------------
(* The disks outside of the session.                                       *)

(* The loops of the mount reach the announced disk only.                   *)
LEMMA AddressedIsCurrent ==
    ASSUME Inv, steady, step \in Mounting, todo # {}
    PROVE  Addressed \subseteq {Current} /\ Current \in Volumes
<1>1. Current \in Volumes
  BY CurrentInTodo DEF Inv, TypeOK
<1>2. disk[Current].number = known[Current].number
  BY <1>1 DEF Inv, Mapped
<1>3. \A d \in Addressed : d = Current
  BY <1>1, <1>2 DEF Addressed, HasNumber, Attached, Inv, Unique, Disks
<1> QED
  BY <1>1, <1>3

(* A step of a loop leaves every other disk online.                        *)
LEMMA LoopKeepsOnline ==
    ASSUME TypeOK, BringOnline \/ TakeLetters \/ GiveLetters, NEW o \in Disks,
           ~disk[o].offline
    PROVE  ~disk'[o].offline
<1>1. CASE disk' = disk
  BY <1>1
<1>2. CASE \E d \in Addressed : OneChanges(d) /\ (disk'[d].offline => disk[d].offline)
  BY <1>2 DEF OneChanges
<1> QED
  BY <1>1, <1>2, LoopFacts

(* Only announced disks are ever taken offline.                            *)
THEOREM OthersOnline == Spec => OthersStayOnline
<1>1. ASSUME Inv, Next, NEW o \in Others, Attached(o), ~disk[o].offline
      PROVE  ~disk'[o].offline
  <2>1. o \in Disks /\ o \notin Volumes /\ Volumes \subseteq Disks
    BY ResetClientAssumption DEF Disks
  <2>2. CASE Quiet
    BY <1>1, <2>2, QuietFacts
  <2>3. ASSUME NEW isOffline \in BOOLEAN, CycleDisk(isOffline) PROVE ~disk'[o].offline
    BY <1>1, <2>1, <2>3, CycleFacts DEF Inv, OneChanges
  <2>4. CASE BringOnline \/ TakeLetters \/ GiveLetters
    BY <1>1, <2>1, <2>4, LoopKeepsOnline DEF Inv
  <2>5. CASE Cleanup \/ LinkBreaks \/ ForeignLogout \/ Crash
    <3>1. Ends(member) \/ disk' = disk
      BY <2>5 DEF Cleanup, LinkBreaks, ForeignLogout, Crash, SessionEnds, Ends, windows
    <3> QED
      BY <1>1, <2>1, <3>1, GoneFacts DEF Ends, Inv
  <2>6. CASE DisksAppear
    <3>1. CASE Appear(Volumes, BOOLEAN)
      BY <1>1, <2>1, <3>1, AppearFacts DEF Inv
    <3>2. CASE \E S \in SUBSET {d \in Disks : ~Attached(d)} : Appear(S, {FALSE})
      <4>1. PICK S \in SUBSET {d \in Disks : ~Attached(d)} : Appear(S, {FALSE})
        BY <3>2
      <4>2. S \in SUBSET Disks /\ o \notin S /\ {FALSE} \in SUBSET BOOLEAN
        BY <1>1, <4>1
      <4> QED
        BY <1>1, <2>1, <4>1, <4>2, AppearFacts DEF Inv
    <3> QED
      BY <2>6, <3>1, <3>2 DEF DisksAppear
  <2>7. ASSUME NEW v \in Volumes, BecomesWritable(v) \/ LetterComesLate(v)
        PROVE  ~disk'[o].offline
    BY <1>1, <2>1, <2>7, WritableChanges, LateLetterChanges DEF Inv, OneChanges
  <2>8. ASSUME NEW p \in Others, Plug(p) PROVE ~disk'[o].offline
    <3>1. Appear({p}, {FALSE}) /\ {p} \in SUBSET Disks /\ {FALSE} \in SUBSET BOOLEAN /\ o # p
      BY <1>1, <2>8 DEF Plug, Disks
    <3> QED
      BY <1>1, <2>1, <3>1, AppearFacts DEF Inv
  <2>9. ASSUME NEW p \in Others, Unplug(p) PROVE ~disk'[o].offline
    BY <1>1, <2>1, <2>9, UnplugFacts DEF Inv, Absent
  <2> QED
    BY <1>1, <2>2, <2>3, <2>4, <2>5, <2>6, <2>7, <2>8, <2>9 DEF Next, HelperStep, Environment, Quiet
<1>2. Inv /\ [Next]_vars =>
         [\A o \in Others : Attached(o) /\ ~disk[o].offline => ~disk'[o].offline]_vars
  BY <1>1
<1> QED
  BY <1>2, Safety, PTL DEF Spec, OthersStayOnline

(* While the numbers are valid, no letter of another disk is changed.      *)
THEOREM OthersLetters == Spec => OthersKeepLetters
<1>1. ASSUME Inv, Next, steady, NEW o \in Others, Attached(o), disk'[o].number = disk[o].number
      PROVE  disk'[o].letter = disk[o].letter
  <2>1. o \in Disks /\ o \notin Volumes /\ Volumes \subseteq Disks
    BY ResetClientAssumption DEF Disks
  <2>2. CASE Quiet
    BY <2>2, QuietFacts
  <2>3. ASSUME NEW isOffline \in BOOLEAN, CycleDisk(isOffline)
        PROVE  disk'[o].letter = disk[o].letter
    BY <1>1, <2>1, <2>3, CycleFacts DEF Inv, OneChanges
  <2>4. CASE BringOnline \/ TakeLetters \/ GiveLetters
    <3>1. step \in Mounting
      BY <2>4 DEF BringOnline, TakeLetters, GiveLetters, Mounting
    <3>2. CASE disk' = disk
      BY <3>2
    <3>3. CASE todo # {} /\ \E d \in Addressed : OneChanges(d)
      BY <1>1, <2>1, <3>1, <3>3, AddressedIsCurrent DEF OneChanges
    <3> QED
      BY <1>1, <2>4, <3>2, <3>3, LoopFacts DEF Inv
  <2>5. CASE Cleanup \/ LinkBreaks \/ ForeignLogout \/ Crash
    <3>1. Ends(member) \/ disk' = disk
      BY <2>5 DEF Cleanup, LinkBreaks, ForeignLogout, Crash, SessionEnds, Ends, windows
    <3>2. disk'[o] = disk[o] \/ disk'[o].number = NoNumber
      BY <1>1, <2>1, <3>1, GoneFacts DEF Ends, Inv
    <3> QED
      BY <1>1, <3>2 DEF Attached
  <2>6. CASE DisksAppear
    <3>1. CASE Appear(Volumes, BOOLEAN)
      BY <1>1, <2>1, <3>1, AppearFacts DEF Inv
    <3>2. CASE \E S \in SUBSET {d \in Disks : ~Attached(d)} : Appear(S, {FALSE})
      <4>1. PICK S \in SUBSET {d \in Disks : ~Attached(d)} : Appear(S, {FALSE})
        BY <3>2
      <4>2. S \in SUBSET Disks /\ o \notin S /\ {FALSE} \in SUBSET BOOLEAN
        BY <1>1, <4>1
      <4> QED
        BY <1>1, <2>1, <4>1, <4>2, AppearFacts DEF Inv
    <3> QED
      BY <2>6, <3>1, <3>2 DEF DisksAppear
  <2>7. ASSUME NEW v \in Volumes, BecomesWritable(v) \/ LetterComesLate(v)
        PROVE  disk'[o].letter = disk[o].letter
    BY <1>1, <2>1, <2>7, WritableChanges, LateLetterChanges DEF Inv, OneChanges
  <2>8. ASSUME NEW p \in Others, Plug(p) PROVE disk'[o].letter = disk[o].letter
    <3>1. Appear({p}, {FALSE}) /\ {p} \in SUBSET Disks /\ {FALSE} \in SUBSET BOOLEAN /\ o # p
      BY <1>1, <2>8 DEF Plug, Disks
    <3> QED
      BY <1>1, <2>1, <3>1, AppearFacts DEF Inv
  <2>9. ASSUME NEW p \in Others, Unplug(p) PROVE disk'[o].letter = disk[o].letter
    BY <1>1, <2>1, <2>9, UnplugFacts DEF Inv, Absent, Attached
  <2> QED
    BY <1>1, <2>2, <2>3, <2>4, <2>5, <2>6, <2>7, <2>8, <2>9 DEF Next, HelperStep, Environment, Quiet
<1>2. Inv /\ [Next]_vars =>
         [steady => \A o \in Others : Attached(o) /\ disk'[o].number = disk[o].number
                                      => disk'[o].letter = disk[o].letter]_vars
  BY <1>1
<1> QED
  BY <1>2, Safety, PTL DEF Spec, OthersKeepLetters

-----------------------------------------------------------------------------
(* What is read of the letters in the end.                                 *)

(* A volume is attached while the session shows it, and only then.         *)
Shown ==
    /\ session = "none" => member = {}
    /\ \A v \in Volumes : Attached(v) <=> v \in member

LEMMA ShownByNumbers ==
    ASSUME Shown, member' = member, session' = "none" => session = "none",
           \A v \in Volumes : disk'[v].number = disk[v].number
    PROVE  Shown'
BY DEF Shown, Attached

LEMMA ShownAfterEnd ==
    ASSUME Shown, TypeOK, member' = {}, Ends(member)
    PROVE  Shown'
<1>1. \A v \in Volumes : disk'[v] = IF v \in member THEN Absent ELSE disk[v]
  BY DEF Ends, Disks
<1> QED
  BY <1>1 DEF Shown, Attached, Absent

LEMMA AppearNumbers ==
    ASSUME TypeOK, NEW S \in SUBSET Disks, NEW flags \in SUBSET BOOLEAN, Appear(S, flags)
    PROVE  \A d \in S : disk'[d].number # NoNumber
<1>1. PICK number \in [S -> FreeNumbers], letter \in [S -> FreeLetters \cup {NoLetter}] :
        /\ OneToOne(number, S)
        /\ \A d \in S, n \in FreeNumbers : n < number[d] => \E e \in S : number[e] = n
        /\ OneToOne(letter, {d \in S : letter[d] # NoLetter})
        /\ \E offline, readOnly \in [S -> flags] :
            /\ \A d \in S : offline[d] => letter[d] = NoLetter
            /\ disk' = [d \in Disks |->
                   IF d \in S THEN [number |-> number[d], offline |-> offline[d],
                                    readOnly |-> readOnly[d], letter |-> letter[d]]
                   ELSE disk[d]]
  BY Zenon DEF Appear
<1>2. \A d \in S : disk'[d].number = number[d] /\ number[d] \in Numbers
  BY <1>1 DEF FreeNumbers
<1> QED
  BY <1>2, ResetClientAssumption

LEMMA ShownKept ==
    ASSUME TypeOK, Unique, Looping, Shown, Next
    PROVE  Shown'
<1>1. CASE Quiet
  <2>1. session' = "none" => session = "none"
    BY <1>1, ReadingFacts DEF Quiet, Startup, ReadClient, Prepare, Discover, Connect, Login,
       SessionAppears, SessionDisks, WaitWritable, Recover, WaitAgain, ConfirmDisk, Preflight,
       Ready, NextAttempt, ForeignLogin, windows
  <2> QED
    BY <1>1, <2>1, QuietFacts, ShownByNumbers
<1>2. ASSUME NEW isOffline \in BOOLEAN, CycleDisk(isOffline) PROVE Shown'
  <2>1. \A v \in Volumes : disk'[v].number = disk[v].number
    BY <1>2, CycleFacts DEF OneChanges, Disks
  <2> QED
    BY <1>2, <2>1, ShownByNumbers DEF CycleDisk
<1>3. CASE BringOnline \/ TakeLetters \/ GiveLetters
  <2>1. \A v \in Volumes : disk'[v].number = disk[v].number
    BY <1>3, LoopFacts DEF OneChanges, Disks
  <2> QED
    BY <1>3, <2>1, ShownByNumbers DEF BringOnline, TakeLetters, GiveLetters
<1>4. CASE Cleanup \/ LinkBreaks \/ ForeignLogout \/ Crash
  <2>1. (member' = {} /\ Ends(member)) \/ UNCHANGED windows
    BY <1>4 DEF Cleanup, LinkBreaks, ForeignLogout, Crash, SessionEnds, Ends
  <2> QED
    BY <2>1, ShownAfterEnd, ShownByNumbers DEF windows
<1>5. CASE DisksAppear
  <2>1. PICK S \in SUBSET Disks, flags \in SUBSET BOOLEAN : Appear(S, flags) /\ member' = S
    <3>1. CASE Appear(Volumes, BOOLEAN) /\ member' = Volumes
      BY <3>1 DEF Disks
    <3>2. ASSUME NEW S \in SUBSET {d \in Disks : ~Attached(d)}, Appear(S, {FALSE}), member' = S
          PROVE  \E T \in SUBSET Disks, flags \in SUBSET BOOLEAN : Appear(T, flags) /\ member' = T
      BY <3>2
    <3> QED
      BY <1>5, <3>1, <3>2 DEF DisksAppear
  <2>2. \A d \in Disks \ S : disk'[d] = disk[d]
    BY <2>1, AppearFacts
  <2>3. \A d \in S : disk'[d].number # NoNumber
    BY <2>1, AppearNumbers
  <2>4. session' = session /\ session # "none" /\ member = {}
    BY <1>5 DEF DisksAppear
  <2> QED
    BY <2>1, <2>2, <2>3, <2>4 DEF Shown, Attached, Disks
<1>6. ASSUME NEW v \in Volumes, BecomesWritable(v) \/ LetterComesLate(v) PROVE Shown'
  <2>1. \A w \in Volumes : disk'[w].number = disk[w].number
    BY <1>6, WritableChanges, LateLetterChanges DEF OneChanges, Disks
  <2> QED
    BY <1>6, <2>1, ShownByNumbers DEF BecomesWritable, LetterComesLate
<1>7. ASSUME NEW o \in Others, Plug(o) \/ Unplug(o) PROVE Shown'
  <2>1. \A w \in Volumes : disk'[w] = disk[w]
    BY <1>7, PluggedFacts
  <2> QED
    BY <1>7, <2>1, ShownByNumbers DEF Plug, Unplug
<1> QED
  BY <1>1, <1>2, <1>3, <1>4, <1>5, <1>6, <1>7 DEF Next, HelperStep, Environment, Quiet
LEMMA ShownSafety == Spec => [](Inv /\ Shown)
<1>1. Init => Shown
  BY DEF Init, Shown, Attached, Absent, Disks
<1>2. Inv /\ Shown /\ [Next]_vars => Shown'
  BY ShownKept DEF Inv, Shown, Attached, vars
<1> QED
  BY <1>1, <1>2, Safety, PTL DEF Spec

(* The letters that the round of the verification has read are still those *)
(* of the volumes they were read for.  A volume without one may get one.   *)
Verified ==
    step = "verify" => \A v \in Volumes \ todo :
        (steady \/ (settled /\ OwnLabel(v))) /\ known[v].letter # NoLetter
            => Attached(v) /\ ~disk[v].offline /\ disk[v].letter = known[v].letter

LEMMA VerifiedByReading ==
    ASSUME Inv, Verified, step = "verify", todo # {}, NEW d \in Readable, ReadsLetter(d),
           todo' = todo \ {Current}, UNCHANGED <<disk, steady, settled>>
    PROVE  Verified'
<1>1. d \in Addressed /\ d \in Disks /\ ~disk[d].offline /\ Label[d] = Label[Current]
  BY DEF Readable, Addressed, HasNumber
<1>2. /\ known'[Current].letter = disk[d].letter
      /\ \A v \in Volumes : v # Current => known'[v] = known[v]
  BY <1>1, ReadsLetterFacts DEF Inv
<1>3. steady \/ (settled /\ OwnLabel(Current)) => d = Current
  <2>1. steady => d = Current
    BY <1>1, AddressedIsCurrent DEF Mounting
  <2>2. OwnLabel(Current) => d = Current
    BY <1>1 DEF OwnLabel
  <2> QED
    BY <2>1, <2>2
<1>4. Attached(d)
  BY <1>1 DEF Addressed, HasNumber
<1> SUFFICES ASSUME NEW v \in Volumes \ todo', steady \/ (settled /\ OwnLabel(v)),
                    known'[v].letter # NoLetter
             PROVE  /\ disk[v].number # NoNumber /\ ~disk[v].offline
                    /\ disk[v].letter = known'[v].letter
  BY DEF Verified, Attached, OwnLabel
<1>5. CASE v = Current
  BY <1>1, <1>2, <1>3, <1>4, <1>5 DEF Attached
<1>6. CASE v # Current
  <2>1. v \in Volumes \ todo /\ known'[v] = known[v]
    BY <1>2, <1>6
  <2> QED
    BY <2>1 DEF Verified, Attached
<1> QED
  BY <1>5, <1>6

(* Volumes that are seen as before were read rightly if they were.         *)
LEMMA VerifiedUntouched ==
    ASSUME Verified, UNCHANGED <<step, todo, known, steady, settled>>,
           \A v \in Volumes : Attached(v) /\ ~disk[v].offline /\ disk[v].letter # NoLetter
               => /\ disk'[v].number = disk[v].number /\ ~disk'[v].offline
                  /\ disk'[v].letter = disk[v].letter
    PROVE  Verified'
BY DEF Verified, Attached, OwnLabel

LEMMA VerifiedKept ==
    ASSUME Inv, Shown, Verified, Next
    PROVE  Verified'
<1>1. CASE VerifyLetters
  <2>1. CASE todo # {} /\ LoopGoesOn /\ \E d \in Readable : ReadsLetter(d)
    BY <1>1, <2>1, VerifiedByReading, ReadingFacts DEF VerifyLetters, LoopGoesOn
  <2>2. CASE step' # "verify"
    BY <2>2 DEF Verified
  <2> QED
    BY <1>1, <2>1, <2>2 DEF VerifyLetters, ReadAssignment, ReadsLetter, LoopFails, LoopEnds,
       Go, Fail
<1>2. CASE GiveLetters
  <2>1. step' = "verify" => todo' = Volumes
    BY <1>2 DEF GiveLetters, LoopGoesOn, LoopFails, LoopEnds, Go, Fail
  <2> QED
    BY <2>1 DEF Verified
<1>3. CASE HelperStep /\ ~VerifyLetters /\ ~GiveLetters
  <2>1. \A isOffline \in BOOLEAN : CycleDisk(isOffline) \/ ConfirmDisk(isOffline) => step' # "verify"
    BY DEF CycleDisk, ConfirmDisk, Go, Fail
  <2>2. step' # "verify"
    BY <1>3, <2>1 DEF HelperStep, Startup, ReadClient, Prepare, Discover, Connect, Login,
       SessionAppears, SessionDisks, WaitWritable, Recover, WaitAgain, Mountable, Preflight,
       BringOnline, Assign, CheckOwners, TakeLetters, Ready, Cleanup, NextAttempt, FirstStep,
       ReadAssignment, LoopGoesOn, LoopFails, LoopEnds, Go, Fail
  <2> QED
    BY <2>2 DEF Verified
<1>4. CASE LinkBreaks \/ ForeignLogout \/ Crash
  BY <1>4 DEF LinkBreaks, ForeignLogout, Crash, SessionEnds, Verified
<1>5. CASE DisksAppear
  <2>1. \A v \in Volumes : ~Attached(v)
    BY <1>5 DEF DisksAppear, Shown
  <2> QED
    BY <1>5, <2>1, VerifiedUntouched DEF DisksAppear, helper
<1>6. CASE ForeignLogin
  BY <1>6, VerifiedUntouched DEF ForeignLogin, helper
<1>7. ASSUME NEW v \in Volumes, BecomesWritable(v) PROVE Verified'
  <2>1. \A w \in Volumes : /\ disk'[w].number = disk[w].number
                           /\ disk'[w].offline = disk[w].offline
                           /\ disk'[w].letter = disk[w].letter
    BY <1>7 DEF BecomesWritable, Inv, TypeOK, Views, Disks
  <2> QED
    BY <1>7, <2>1, VerifiedUntouched DEF BecomesWritable, helper
<1>8. ASSUME NEW v \in Volumes, LetterComesLate(v) PROVE Verified'
  <2>1. \A w \in Volumes : w # v => disk'[w] = disk[w]
    BY <1>8, LateLetterChanges DEF OneChanges, Disks, Inv
  <2>2. disk[v].letter = NoLetter
    BY <1>8 DEF LetterComesLate
  <2> QED
    BY <1>8, <2>1, <2>2, VerifiedUntouched DEF LetterComesLate, helper
<1>9. ASSUME NEW o \in Others, Plug(o) \/ Unplug(o) PROVE Verified'
  <2>1. \A v \in Volumes : disk'[v] = disk[v]
    BY <1>9, PluggedFacts DEF Inv
  <2> QED
    BY <1>9, <2>1, VerifiedUntouched DEF Plug, Unplug, helper
<1> QED
  BY <1>1, <1>2, <1>3, <1>4, <1>5, <1>6, <1>7, <1>8, <1>9 DEF Next, Environment

(* What the helper reports as ready is so, though it asks for one volume   *)
(* after the other and knows them by number and label                      *)
(* (Wait-ResetVolumeAssignments).                                          *)
THEOREM Mounted == Spec => MountedRight
<1>1. Init => Verified
  BY DEF Init, Verified
<1>2. Inv /\ Shown /\ Verified /\ [Next]_vars => Verified'
  <2>1. ASSUME Verified, UNCHANGED vars PROVE Verified'
    BY <2>1, VerifiedUntouched DEF vars
  <2> QED
    BY <2>1, VerifiedKept
<1>3. ASSUME Inv, Verified, Next, step = "verify", step' = "sync"
      PROVE  \A v \in Volumes :
                /\ steady \/ (settled /\ OwnLabel(v)) =>
                       ~disk[v].offline /\ HasLetter(Desired[v]) = {v}
                /\ steady => v \in member /\ ~disk[v].readOnly
  <2>1. VerifyLetters
    BY <1>3 DEF Next, HelperStep, Environment, Startup, ReadClient, Prepare, Discover, Connect,
       Login, SessionAppears, SessionDisks, WaitWritable, Recover, WaitAgain, CycleDisk, ConfirmDisk,
       Preflight, BringOnline, Assign, CheckOwners, TakeLetters, GiveLetters, Ready, Cleanup,
       NextAttempt, DisksAppear, LinkBreaks, ForeignLogin, ForeignLogout, Crash, BecomesWritable,
       LetterComesLate, Plug, Unplug, helper
  <2>2. todo = {} /\ \A v \in Volumes : known[v].letter = Desired[v]
    BY <1>3, <2>1 DEF VerifyLetters, ReadAssignment, LoopGoesOn, LoopFails, LoopEnds, LettersRight,
       Fail
  <2> SUFFICES ASSUME NEW v \in Volumes
               PROVE  /\ steady \/ (settled /\ OwnLabel(v)) =>
                             ~disk[v].offline /\ HasLetter(Desired[v]) = {v}
                      /\ steady => v \in member /\ ~disk[v].readOnly
    OBVIOUS
  <2>3. v \in Disks /\ Desired[v] # NoLetter
    BY ResetClientAssumption DEF Disks
  <2>4. ASSUME steady \/ (settled /\ OwnLabel(v))
        PROVE  ~disk[v].offline /\ HasLetter(Desired[v]) = {v}
    <3>1. Attached(v) /\ ~disk[v].offline /\ disk[v].letter = Desired[v]
      BY <1>3, <2>2, <2>3, <2>4 DEF Verified
    <3>2. \A d \in Disks : disk[d].letter = Desired[v] => d = v
      BY <1>3, <2>3, <3>1 DEF Inv, Unique
    <3> QED
      BY <2>3, <3>1, <3>2 DEF HasLetter
  <2>5. steady => v \in member /\ ~disk[v].readOnly
    BY <1>3 DEF Inv, Mapped, Mounting
  <2> QED
    BY <2>4, <2>5
<1>4. Inv /\ Verified /\ [Next]_vars =>
         [step = "verify" /\ step' = "sync" =>
            \A v \in Volumes :
                /\ steady \/ (settled /\ OwnLabel(v)) =>
                       ~disk[v].offline /\ HasLetter(Desired[v]) = {v}
                /\ steady => v \in member /\ ~disk[v].readOnly]_vars
  BY <1>3
<1> QED
  BY <1>1, <1>2, <1>4, ShownSafety, PTL DEF Spec, MountedRight

-----------------------------------------------------------------------------
(* What EventuallyReady rests on.  The prover knows no fairness; what is   *)
(* left without it is that the helper does not give up for nothing: with   *)
(* no other session and no other disk in the way, every attempt that fails *)
(* met a fault of its own.                                                 *)

Failing == {"cleanup", "retry", "stop"}

(* The steps for which the session showed exactly the announced disks.     *)
Matched == {"writable", "recover", "off", "offWait", "on", "onWait", "again"} \cup Mounting

(* What is true of an attempt in which nothing has gone wrong so far.      *)
Smooth ==
    /\ step \notin Failing
    /\ step \in Before \cup {"login"} => session = "none"
    /\ step = "login" => steady
    /\ step \in {"appear", "disks"} \cup Matched => session = "own" /\ steady
    /\ step \in {"appear", "disks"} => member \in {{}, Volumes}
    /\ step \in Matched => member = Volumes
    /\ step = "offWait" => disk[Current].offline
    /\ step = "onWait" => ~disk[Current].offline
    /\ step \in {"preflight", "online"} => \A v \in Volumes \ todo : ~disk[v].offline
    /\ step \in {"assign", "own", "unletter", "letter", "verify"} =>
           \A v \in Volumes : ~disk[v].offline
    /\ step = "assign" => \A v \in Volumes \ todo : disk[v].letter = known[v].letter
    /\ step = "own" => \A v \in Volumes : disk[v].letter = known[v].letter
    /\ step = "unletter" => \A v \in Volumes :
           /\ v \in todo => known[v].letter # Desired[v]
           /\ disk[v].letter = IF v \in todo \/ known[v].letter = Desired[v]
                               THEN known[v].letter ELSE NoLetter
    /\ step = "letter" => \A v \in Volumes :
           disk[v].letter = IF v \in todo THEN NoLetter ELSE Desired[v]
    /\ step = "verify" => \A v \in Volumes :
           /\ disk[v].letter = Desired[v]
           /\ v \notin todo => known[v].letter = Desired[v]

(* Every attempt but the last one has cost a fault, and the last one too   *)
(* unless it is still going well; to give up halfway takes another one.    *)
Costly ==
    /\ faults >= attempt - 1
    /\ faults >= attempt \/ Smooth
    /\ step \in {"stop", "abandoned"} => faults > attempt
    /\ step = "done" => code = 0 \/ faults >= MaxAttempts

(* No letter is in the way of volumes whose numbers are known.             *)
LEMMA LettersAreOurs ==
    ASSUME ~Obstacle, NEW view, \A v \in Volumes : view[v].number = disk[v].number
    PROVE  LettersOurs(view) /\ \A v \in Volumes : LetterOurs(v, view)
BY DEF Obstacle, LettersOurs, LetterOurs, HasLetter, Disks

LEMMA CurrentIsAddressed ==
    ASSUME Inv, Shown, Smooth, step \in Mounting, todo # {}
    PROVE  Addressed = {Current} /\ Current \in todo /\ Current \in Volumes
<1>1. steady /\ member = Volumes
  BY DEF Smooth, Matched
<1>2. Current \in todo /\ Addressed \subseteq {Current} /\ Current \in Volumes
  BY <1>1, CurrentInTodo, AddressedIsCurrent
<1>3. disk[Current].number = known[Current].number /\ Attached(Current)
  BY <1>1, <1>2 DEF Inv, Mapped, Shown
<1> QED
  BY <1>2, <1>3 DEF Addressed, HasNumber, Disks

LEMMA CostsCounts == TypeOK /\ Costs => faults' = faults + 1 /\ faults \in Nat
BY ResetClientAssumption DEF TypeOK, Costs

LEMMA VolumeIsReadable ==
    ASSUME Inv, Shown, Smooth, step \in {"assign", "verify"}, todo # {}
    PROVE  Readable = {Current} /\ Current \in todo /\ Current \in Volumes
<1>1. Addressed = {Current} /\ Current \in todo /\ Current \in Volumes
  BY CurrentIsAddressed DEF Mounting
<1>2. ~disk[Current].offline
  BY <1>1 DEF Smooth
<1> QED
  BY <1>1, <1>2 DEF Readable

(* A round of readings gives every volume the letter it has.               *)
LEMMA ReadingIsRight ==
    ASSUME Inv, Shown, Smooth, step \in {"assign", "verify"}, todo # {}, faults' = faults,
           ReadAssignment
    PROVE  /\ step' = step /\ disk' = disk /\ todo' = todo \ {Current}
           /\ Current \in Volumes /\ known'[Current].letter = disk[Current].letter
           /\ \A v \in Volumes : v # Current => known'[v] = known[v]
<1>1. Readable = {Current} /\ Current \in Volumes
  BY VolumeIsReadable
<1>2. ~Costs
  BY CostsCounts DEF Inv
<1>3. step' = step /\ disk' = disk /\ todo' = todo \ {Current} /\ ReadsLetter(Current)
  BY <1>1, <1>2 DEF ReadAssignment, ReadsLetter, LoopGoesOn, LoopFails
<1>4. /\ known'[Current].letter = disk[Current].letter
      /\ \A v \in Volumes : v # Current => known'[v] = known[v]
  BY <1>1, <1>3, ReadsLetterFacts DEF Inv, Disks
<1> QED
  BY <1>1, <1>3, <1>4

LEMMA LoginIsSmooth ==
    ASSUME Inv, Shown, ~Obstacle, Smooth, faults' = faults,
           Startup \/ ReadClient \/ Prepare \/ Discover \/ Connect \/ Login \/ SessionAppears
    PROVE  Smooth'
<1>1. ~Costs
  BY CostsCounts DEF Inv
<1>2. CASE Startup \/ ReadClient \/ Prepare \/ Discover \/ Connect
  <2>1. session = "none" /\ session' = session
    BY <1>2 DEF Startup, ReadClient, Prepare, Discover, Connect, Smooth, Before, windows
  <2>2. step' \in {"client", "prepare", "discover", "connect"} \/ (step' = "login" /\ steady')
    BY <1>1, <1>2, <2>1 DEF Startup, ReadClient, Prepare, Discover, Connect, Go, Fail
  <2> QED
    BY <2>1, <2>2 DEF Smooth, Failing, Before, Matched, Mounting
<1>3. CASE Login
  <2>1. step = "login" /\ session = "none" /\ steady /\ member = {}
    BY <1>3 DEF Login, Smooth, Shown
  <2>2. step' = "appear" /\ session' = "own" /\ UNCHANGED <<member, steady>>
    BY <1>1, <1>3, <2>1 DEF Login, Go, Fail
  <2> QED
    BY <2>1, <2>2 DEF Smooth, Failing, Before, Matched, Mounting
<1>4. CASE SessionAppears
  <2>1. step = "appear" /\ session = "own" /\ steady /\ member \in {{}, Volumes}
    BY <1>4 DEF SessionAppears, Smooth
  <2>2. step' = "disks" /\ UNCHANGED <<session, member, steady>>
    BY <1>1, <1>4, <2>1 DEF SessionAppears, Go, windows
  <2> QED
    BY <2>1, <2>2 DEF Smooth, Failing, Before, Matched, Mounting
<1> QED
  BY <1>2, <1>3, <1>4

LEMMA DisksAreSmooth ==
    ASSUME Inv, Shown, ~Obstacle, Smooth, faults' = faults,
           SessionDisks \/ WaitWritable \/ WaitAgain \/ Recover
    PROVE  Smooth'
<1>1. ~Costs
  BY CostsCounts DEF Inv
<1>2. /\ step \in {"disks", "writable", "again", "recover"} /\ UNCHANGED windows
      /\ session = "own" /\ steady
  BY DEF SessionDisks, WaitWritable, WaitAgain, Recover, Smooth, Matched
<1>3. member = Volumes
  <2>1. CASE step = "disks"
    <3>1. SessionDisks /\ member \in {{}, Volumes}
      BY <2>1 DEF SessionDisks, WaitWritable, WaitAgain, Recover, Smooth
    <3>2. Cardinality(member) >= Cardinality(Volumes) \/ Costs \/ member # {}
      BY <3>1 DEF SessionDisks
    <3>3. member # {}
      <4>1. Cardinality({}) = 0 /\ Cardinality(Volumes) \in Nat /\ Cardinality(Volumes) # 0
        BY FS_EmptySet, FS_CardinalityType, ResetClientAssumption
      <4> QED
        BY <1>1, <3>2, <4>1
    <3> QED
      BY <3>1, <3>3
  <2> QED
    BY <1>2, <2>1 DEF Smooth, Matched
<1>4. CASE Recover
  <2>1. LettersOurs(Fresh)
    BY LettersAreOurs DEF Fresh
  <2>2. step' = "off"
    BY <1>1, <1>3, <1>4, <2>1 DEF Recover, Matches, Go
  <2> QED
    BY <1>2, <1>3, <2>2 DEF Smooth, Failing, Before, Matched, Mounting, windows
<1>5. CASE SessionDisks \/ WaitWritable \/ WaitAgain
  <2>1. Cardinality(member) < Cardinality(Volumes) => FALSE
    BY <1>3, FS_CardinalityType, ResetClientAssumption
  <2>2. Mountable \/ step' \in {"writable", "recover"}
    BY <1>1, <1>3, <1>5, <2>1 DEF SessionDisks, WaitWritable, WaitAgain, Matches, Go
  <2>3. CASE Mountable
    <3>1. step' = "preflight" /\ \A v \in Volumes \ todo' : ~disk[v].offline
      BY <2>3 DEF Mountable, Go
    <3> QED
      BY <1>2, <1>3, <3>1 DEF Smooth, Failing, Before, Matched, Mounting, windows
  <2>4. CASE step' \in {"writable", "recover"}
    BY <1>2, <1>3, <2>4 DEF Smooth, Failing, Before, Matched, Mounting, windows
  <2> QED
    BY <2>2, <2>3, <2>4
<1> QED
  BY <1>4, <1>5

(* A switch of a disk has its effect.                                      *)
LEMMA SwitchEffect ==
    ASSUME TypeOK, NEW d \in Disks, NEW isOffline \in BOOLEAN,
           IF isOffline THEN GoesOffline(d) ELSE ComesOnline(d)
    PROVE  disk'[d].offline = isOffline
<1>1. disk[d].readOnly \in BOOLEAN
  BY DEF TypeOK, Views
<1>2. CASE isOffline = TRUE
  BY <1>1, <1>2, SwitchedChanges DEF GoesOffline, Letterings
<1>3. CASE isOffline = FALSE
  <2>1. disk'[d] \in Views /\ ~disk'[d].offline
    BY <1>3, ComesOnlineChanges DEF OneChanges
  <2>2. disk'[d].offline \in BOOLEAN
    BY <2>1 DEF Views
  <2> QED
    BY <1>3, <2>1, <2>2
<1> QED
  BY <1>2, <1>3

LEMMA CycleIsSmooth ==
    ASSUME Inv, Shown, Smooth, faults' = faults, NEW isOffline \in BOOLEAN,
           CycleDisk(isOffline) \/ ConfirmDisk(isOffline)
    PROVE  Smooth'
<1>1. ~Costs
  BY CostsCounts DEF Inv
<1>2. /\ step \in {"off", "on", "offWait", "onWait"} /\ UNCHANGED <<session, member, steady>>
      /\ session = "own" /\ steady /\ member = Volumes /\ Matches
  BY DEF CycleDisk, ConfirmDisk, Smooth, Matched, windows, Matches
<1>3. CASE CycleDisk(isOffline)
  <2>1. Cycled = {Current} /\ Current \in Volumes
    BY <1>2, <1>3, CycledFacts DEF Cycled, Inv
  <2>2. /\ IF isOffline THEN GoesOffline(Current) ELSE ComesOnline(Current)
        /\ step' = (IF isOffline THEN "offWait" ELSE "onWait") /\ todo' = todo
    BY <1>1, <1>3, <2>1 DEF CycleDisk, Go
  <2>3. disk'[Current].offline = isOffline
    BY <2>1, <2>2, SwitchEffect DEF Disks, Inv
  <2>4. Current' = Current
    BY <2>2 DEF Current
  <2> QED
    BY <1>2, <2>2, <2>3, <2>4 DEF Smooth, Failing, Before, Matched, Mounting
<1>4. CASE ConfirmDisk(isOffline)
  <2>1. disk[Current].offline = isOffline
    <3>1. Current \in Disks
      BY <1>2, CurrentInTodo DEF Inv, Looping, TypeOK, Disks, ConfirmDisk, CycleDisk
    <3>2. disk[Current].offline \in BOOLEAN
      BY <3>1 DEF Inv, TypeOK, Views
    <3>3. CASE isOffline = TRUE
      BY <1>4, <3>2, <3>3 DEF ConfirmDisk, Smooth
    <3>4. CASE isOffline = FALSE
      BY <1>4, <3>2, <3>4 DEF ConfirmDisk, Smooth
    <3> QED
      BY <3>3, <3>4
  <2>2. step' \in {"on", "again", "off"}
    BY <1>1, <1>2, <1>4, <2>1 DEF ConfirmDisk, Go
  <2> QED
    BY <1>2, <2>2 DEF Smooth, Failing, Before, Matched, Mounting
<1> QED
  BY <1>3, <1>4

(* The loops of the mount do what they are to do, volume after volume.     *)
LEMMA OnlineIsSmooth ==
    ASSUME Inv, Shown, ~Obstacle, Smooth, faults' = faults,
           Preflight \/ BringOnline \/ Assign \/ CheckOwners
    PROVE  Smooth'
<1>1. ~Costs
  BY CostsCounts DEF Inv
<1>2. /\ step \in {"preflight", "online", "assign", "own"} /\ step \in Mounting
      /\ session = "own" /\ steady /\ member = Volumes
      /\ UNCHANGED <<session, member, steady>>
  BY DEF Preflight, BringOnline, Assign, CheckOwners, Smooth, Matched, Mounting, windows
<1>3. \A v \in Volumes : disk[v].number = known[v].number
  BY <1>2 DEF Inv, Mapped
<1>4. LettersOurs(known) /\ \A v \in Volumes : LetterOurs(v, known)
  BY <1>3, LettersAreOurs
<1>5. CASE Preflight
  <2>1. step = "preflight" /\ step' = "online" /\ UNCHANGED <<todo, disk>>
    BY <1>1, <1>4, <1>5 DEF Preflight, Go, windows
  <2> QED
    BY <1>2, <2>1 DEF Smooth, Failing, Before, Matched, Mounting
<1>6. CASE BringOnline
  <2>1. step = "online"
    BY <1>6 DEF BringOnline
  <2>2. CASE todo # {}
    <3>1. Addressed = {Current} /\ Current \in todo /\ Current \in Volumes
      BY <1>2, <2>2, CurrentIsAddressed
    <3>2. /\ todo' = todo \ {Current} /\ step' = "online"
          /\ IF disk[Current].offline THEN ComesOnline(Current) ELSE UNCHANGED disk
      BY <1>1, <1>6, <2>1, <2>2, <3>1 DEF BringOnline, LoopGoesOn, LoopFails, LoopEnds
    <3>3. /\ ~disk'[Current].offline
          /\ \A v \in Volumes : v # Current => disk'[v] = disk[v]
      BY <3>1, <3>2, ComesOnlineChanges DEF Inv, OneChanges, Disks
    <3>4. \A v \in Volumes \ todo' : ~disk'[v].offline
      BY <2>1, <3>2, <3>3 DEF Smooth
    <3> QED
      BY <1>2, <3>2, <3>4 DEF Smooth, Failing, Before, Matched, Mounting
  <2>3. CASE todo = {}
    <3>1. step' = "assign" /\ disk' = disk /\ todo' = Volumes
      BY <1>6, <2>3 DEF BringOnline, LoopFails, LoopEnds, Go
    <3> QED
      BY <1>2, <2>1, <2>3, <3>1 DEF Smooth, Failing, Before, Matched, Mounting
  <2> QED
    BY <2>2, <2>3
<1>7. CASE Assign
  <2>1. step = "assign"
    BY <1>7 DEF Assign
  <2>2. CASE todo # {}
    <3>1. ReadAssignment
      BY <1>7, <2>2 DEF Assign, LoopEnds
    <3>2. /\ step' = "assign" /\ disk' = disk
          /\ \A v \in Volumes \ todo' : disk'[v].letter = known'[v].letter
      BY <2>1, <2>2, <3>1, ReadingIsRight DEF Smooth
    <3> QED
      BY <1>2, <2>1, <3>2 DEF Smooth, Failing, Before, Matched, Mounting
  <2>3. CASE todo = {}
    <3>1. step' = "own" /\ disk' = disk /\ known' = known
      BY <1>7, <2>3 DEF Assign, ReadAssignment, LoopFails, LoopEnds, Go
    <3> QED
      BY <1>2, <2>1, <2>3, <3>1 DEF Smooth, Failing, Before, Matched, Mounting
  <2> QED
    BY <2>2, <2>3
<1>8. CASE CheckOwners
  <2>1. step = "own"
    BY <1>8 DEF CheckOwners
  <2>2. CASE todo # {}
    <3>1. LetterOurs(Current, known)
      BY <1>4, <2>2, CurrentInTodo DEF Inv, TypeOK
    <3>2. step' = "own" /\ UNCHANGED <<disk, known>>
      BY <1>1, <1>8, <2>1, <2>2, <3>1 DEF CheckOwners, LoopGoesOn, LoopFails, LoopEnds
    <3> QED
      BY <1>2, <2>1, <3>2 DEF Smooth, Failing, Before, Matched, Mounting
  <2>3. CASE todo = {}
    <3>1. /\ step' = "unletter" /\ disk' = disk /\ known' = known
          /\ todo' = {v \in Volumes : known[v].letter \notin {NoLetter, Desired[v]}}
      BY <1>8, <2>3 DEF CheckOwners, LoopFails, LoopEnds, Go
    <3> QED
      BY <1>2, <2>1, <3>1 DEF Smooth, Failing, Before, Matched, Mounting
  <2> QED
    BY <2>2, <2>3
<1> QED
  BY <1>5, <1>6, <1>7, <1>8

LEMMA LetterEffect ==
    ASSUME TypeOK, NEW d \in Disks, NEW l \in {NoLetter} \cup FreeLetters,
           disk' = [disk EXCEPT ![d].letter = l]
    PROVE  /\ disk'[d].letter = l /\ disk'[d].offline = disk[d].offline
           /\ \A e \in Disks : e # d => disk'[e] = disk[e]
BY DEF TypeOK, Views

(* No disk but the volume itself can have its letter when it is given.     *)
LEMMA LetterIsFree ==
    ASSUME Inv, ~Obstacle, Smooth, step = "letter", NEW v \in todo
    PROVE  Desired[v] \in FreeLetters
<1>1. v \in Volumes /\ Desired[v] \in Letters /\ Desired[v] # NoLetter
  BY ResetClientAssumption DEF Inv, TypeOK
<1>2. \A w \in Volumes : disk[w].letter # Desired[v]
  BY <1>1, ResetClientAssumption DEF Smooth
<1>3. \A o \in Others : disk[o].letter # Desired[v]
  BY <1>1 DEF Obstacle
<1> QED
  BY <1>1, <1>2, <1>3 DEF FreeLetters, Disks

LEMMA LettersAreSmooth ==
    ASSUME Inv, Shown, ~Obstacle, Smooth, faults' = faults,
           TakeLetters \/ GiveLetters \/ VerifyLetters
    PROVE  Smooth'
<1>1. ~Costs
  BY CostsCounts DEF Inv
<1>2. /\ step \in {"unletter", "letter", "verify"} /\ step \in Mounting
      /\ session = "own" /\ steady /\ member = Volumes
      /\ UNCHANGED <<session, member, steady>>
  BY DEF TakeLetters, GiveLetters, VerifyLetters, Smooth, Matched, Mounting
<1>3. \A v \in Volumes : v \in Disks /\ ~disk[v].offline
  BY <1>2 DEF Smooth, Disks
<1>4. CASE TakeLetters
  <2>1. step = "unletter"
    BY <1>4 DEF TakeLetters
  <2>2. CASE todo # {}
    <3>1. Addressed = {Current} /\ Current \in todo /\ Current \in Volumes
      BY <1>2, <2>2, CurrentIsAddressed
    <3>2. disk[Current].letter = known[Current].letter
      BY <2>1, <3>1 DEF Smooth
    <3>3. Unlettered = {Current}
      BY <3>1, <3>2 DEF Unlettered
    <3>4. /\ todo' = todo \ {Current} /\ step' = "unletter" /\ known' = known
          /\ disk' = [disk EXCEPT ![Current].letter = NoLetter]
      BY <1>1, <1>4, <2>1, <2>2, <3>3 DEF TakeLetters, Lettered, LoopGoesOn, LoopFails, LoopEnds
    <3>5. /\ disk'[Current].letter = NoLetter /\ ~disk'[Current].offline
          /\ \A v \in Volumes : v # Current => disk'[v] = disk[v]
      BY <1>3, <3>1, <3>4, LetterEffect DEF Inv
    <3>6. \A v \in Volumes : ~disk'[v].offline
      BY <1>3, <3>5
    <3>7. \A v \in Volumes :
             /\ v \in todo' => known'[v].letter # Desired[v]
             /\ disk'[v].letter = IF v \in todo' \/ known'[v].letter = Desired[v]
                                  THEN known'[v].letter ELSE NoLetter
      BY <2>1, <3>1, <3>4, <3>5 DEF Smooth
    <3> QED
      BY <1>2, <3>4, <3>6, <3>7 DEF Smooth, Failing, Before, Matched, Mounting
  <2>3. CASE todo = {}
    <3>1. /\ step' = "letter" /\ disk' = disk
          /\ todo' = {v \in Volumes : known[v].letter # Desired[v]}
      BY <1>4, <2>3 DEF TakeLetters, LoopFails, LoopEnds, Go
    <3>2. \A v \in Volumes : disk'[v].letter = IF v \in todo' THEN NoLetter ELSE Desired[v]
      BY <2>1, <2>3, <3>1 DEF Smooth
    <3> QED
      BY <1>2, <1>3, <3>1, <3>2 DEF Smooth, Failing, Before, Matched, Mounting
  <2> QED
    BY <2>2, <2>3
<1>5. CASE GiveLetters
  <2>1. step = "letter"
    BY <1>5 DEF GiveLetters
  <2>2. CASE todo # {}
    <3>1. Addressed = {Current} /\ Current \in todo /\ Current \in Volumes
      BY <1>2, <2>2, CurrentIsAddressed
    <3>2. Letterable = {Current}
      BY <1>3, <2>1, <3>1, LetterIsFree DEF Letterable
    <3>3. /\ todo' = todo \ {Current} /\ step' = "letter"
          /\ disk' = [disk EXCEPT ![Current].letter = Desired[Current]]
      BY <1>1, <1>5, <2>1, <2>2, <3>2 DEF GiveLetters, Lettered, LoopGoesOn, LoopFails, LoopEnds
    <3>4. Desired[Current] \in FreeLetters
      BY <2>1, <3>1, LetterIsFree
    <3>5. /\ disk'[Current].letter = Desired[Current] /\ ~disk'[Current].offline
          /\ \A v \in Volumes : v # Current => disk'[v] = disk[v]
      BY <1>3, <3>1, <3>3, <3>4, LetterEffect DEF Inv
    <3>6. \A v \in Volumes : ~disk'[v].offline
      BY <1>3, <3>5
    <3>7. \A v \in Volumes : disk'[v].letter = IF v \in todo' THEN NoLetter ELSE Desired[v]
      BY <2>1, <3>1, <3>3, <3>5 DEF Smooth
    <3> QED
      BY <1>2, <3>3, <3>6, <3>7 DEF Smooth, Failing, Before, Matched, Mounting
  <2>3. CASE todo = {}
    <3>1. step' = "verify" /\ disk' = disk /\ todo' = Volumes
      BY <1>5, <2>3 DEF GiveLetters, LoopFails, LoopEnds, Go
    <3> QED
      BY <1>2, <1>3, <2>1, <2>3, <3>1 DEF Smooth, Failing, Before, Matched, Mounting
  <2> QED
    BY <2>2, <2>3
<1>6. CASE VerifyLetters
  <2>1. step = "verify"
    BY <1>6 DEF VerifyLetters
  <2>2. CASE todo # {}
    <3>1. ReadAssignment
      BY <1>6, <2>2 DEF VerifyLetters, LoopEnds
    <3>2. /\ step' = "verify" /\ disk' = disk
          /\ \A v \in Volumes : v \notin todo' => known'[v].letter = Desired[v]
      BY <2>1, <2>2, <3>1, ReadingIsRight DEF Smooth
    <3> QED
      BY <1>2, <2>1, <3>2 DEF Smooth, Failing, Before, Matched, Mounting
  <2>3. CASE todo = {}
    <3>1. LettersRight
      BY <2>1, <2>3 DEF Smooth, LettersRight
    <3>2. step' = "sync"
      BY <1>6, <2>3, <3>1 DEF VerifyLetters, ReadAssignment, LoopFails, LoopEnds, Go
    <3> QED
      BY <3>2 DEF Smooth, Failing, Before, Matched, Mounting
  <2> QED
    BY <2>2, <2>3
<1> QED
  BY <1>4, <1>5, <1>6

(* Windows and the network, when they do not disturb.                      *)
LEMMA SmoothUntouched ==
    ASSUME Inv, Smooth, UNCHANGED <<helper, session, member, steady>>,
           \A v \in Volumes : disk'[v].offline = disk[v].offline /\ disk'[v].letter = disk[v].letter
    PROVE  Smooth'
<1>1. UNCHANGED <<step, todo, known>> /\ Current' = Current
  BY DEF helper, Current
<1>2. step \in {"offWait", "onWait"} => Current \in Volumes
  BY CurrentInTodo DEF Inv, Looping, TypeOK
<1> QED
  BY <1>1, <1>2 DEF Smooth

LEMMA EnvironmentIsSmooth ==
    ASSUME Inv, Shown, ~Obstacle, Smooth, faults' = faults, Environment
    PROVE  Smooth'
<1>1. ~Costs
  BY CostsCounts DEF Inv
<1>2. CASE DisksAppear
  <2>1. /\ member = {} /\ session # "none" /\ member' = Volumes
        /\ UNCHANGED <<step, session, steady>>
    BY <1>1, <1>2 DEF DisksAppear, helper
  <2>2. step \notin Before \cup {"login"} \cup Matched
    BY <2>1, ResetClientAssumption DEF Smooth
  <2> QED
    BY <2>1, <2>2 DEF Smooth, Matched, Mounting
<1>3. ~LinkBreaks /\ ~ForeignLogin /\ ~Crash /\ \A o \in Others : ~Plug(o)
  BY <1>1 DEF LinkBreaks, ForeignLogin, Crash, Plug
<1>7. \A v \in Volumes : ~LetterComesLate(v)
  BY <1>1 DEF LetterComesLate
<1>4. ~ForeignLogout
  BY DEF ForeignLogout, Obstacle
<1>5. ASSUME NEW v \in Volumes, BecomesWritable(v) PROVE Smooth'
  <2>1. \A w \in Volumes : disk'[w].offline = disk[w].offline /\ disk'[w].letter = disk[w].letter
    BY <1>5 DEF BecomesWritable, Inv, TypeOK, Views, Disks
  <2> QED
    BY <1>5, <2>1, SmoothUntouched DEF BecomesWritable
<1>6. ASSUME NEW o \in Others, Unplug(o) PROVE Smooth'
  <2>1. \A v \in Volumes : disk'[v] = disk[v]
    BY <1>6, PluggedFacts DEF Inv
  <2> QED
    BY <1>6, <2>1, SmoothUntouched DEF Unplug
<1> QED
  BY <1>2, <1>3, <1>4, <1>5, <1>6, <1>7 DEF Environment

LEMMA SmoothKept ==
    ASSUME Inv, Shown, ~Obstacle, Smooth, faults' = faults, Next
    PROVE  Smooth'
<1>1. CASE Ready
  BY <1>1 DEF Ready, Smooth, Failing, Before, Matched, Mounting
<1>2. ~Cleanup /\ ~NextAttempt
  BY DEF Cleanup, NextAttempt, Smooth, Failing
<1> QED
  BY <1>1, <1>2, LoginIsSmooth, DisksAreSmooth, CycleIsSmooth, OnlineIsSmooth, LettersAreSmooth,
     EnvironmentIsSmooth DEF Next, HelperStep

LEMMA FaultsCounted ==
    ASSUME Inv, Next
    PROVE  faults \in Nat /\ faults' \in Nat /\ (faults' = faults \/ faults' = faults + 1)
<1>1. faults' = faults \/ Costs
  <2>1. CASE Startup \/ ReadClient \/ Prepare \/ Discover \/ Connect \/ Login \/ SessionAppears
    BY <2>1 DEF Startup, ReadClient, Prepare, Discover, Connect, Login, SessionAppears
  <2>2. CASE SessionDisks \/ WaitWritable \/ WaitAgain \/ Recover
    BY <2>2 DEF SessionDisks, WaitWritable, WaitAgain, Recover
  <2>3. ASSUME NEW isOffline \in BOOLEAN, CycleDisk(isOffline) \/ ConfirmDisk(isOffline)
        PROVE  faults' = faults \/ Costs
    BY <2>3 DEF CycleDisk, ConfirmDisk
  <2>4. CASE \/ Preflight \/ BringOnline \/ Assign \/ CheckOwners \/ TakeLetters \/ GiveLetters
             \/ VerifyLetters \/ Ready \/ Cleanup \/ NextAttempt
    BY <2>4 DEF Preflight, BringOnline, Assign, CheckOwners, TakeLetters, GiveLetters,
       VerifyLetters, Ready, Cleanup, NextAttempt, ReadAssignment, LoopFails, LoopEnds
  <2>5. CASE Environment
    BY <2>5 DEF Environment, DisksAppear, LinkBreaks, ForeignLogin, ForeignLogout, Crash,
       BecomesWritable, LetterComesLate, Plug, Unplug
  <2> QED
    BY <2>1, <2>2, <2>3, <2>4, <2>5 DEF Next, HelperStep
<1> QED
  BY <1>1, CostsCounts DEF Inv, TypeOK

(* What changes the attempt, and what ends it.                             *)
LEMMA AttemptSteps ==
    ASSUME Next, ~NextAttempt, ~Crash
    PROVE  /\ attempt' = attempt
           /\ step' = "done" => Ready \/ (step = "done" /\ code' = code)
           /\ step' = "stop" => Cleanup \/ step = "stop"
           /\ step' = "abandoned" => step = "abandoned"
<1>1. CASE Startup \/ ReadClient \/ Prepare \/ Discover \/ Connect \/ Login \/ SessionAppears
  BY <1>1 DEF Startup, ReadClient, Prepare, Discover, Connect, Login, SessionAppears, Go, Fail
<1>2. CASE SessionDisks \/ WaitWritable \/ WaitAgain \/ Recover
  BY <1>2 DEF SessionDisks, WaitWritable, WaitAgain, Recover, Mountable, Go, Fail
<1>3. ASSUME NEW isOffline \in BOOLEAN, CycleDisk(isOffline) \/ ConfirmDisk(isOffline)
      PROVE  attempt' = attempt /\ step' \notin {"done", "stop", "abandoned"}
  BY <1>3 DEF CycleDisk, ConfirmDisk, Go, Fail
<1>4. CASE Preflight \/ BringOnline \/ Assign \/ CheckOwners
  BY <1>4 DEF Preflight, BringOnline, Assign, CheckOwners, ReadAssignment, LoopGoesOn, LoopFails,
     LoopEnds, Go, Fail
<1>5. CASE TakeLetters \/ GiveLetters \/ VerifyLetters
  BY <1>5 DEF TakeLetters, GiveLetters, VerifyLetters, ReadAssignment, LoopGoesOn, LoopFails,
     LoopEnds, Go, Fail
<1>6. CASE Ready \/ Cleanup
  BY <1>6 DEF Ready, Cleanup, Go
<1>7. CASE Environment
  BY <1>7 DEF Environment, DisksAppear, LinkBreaks, ForeignLogin, ForeignLogout, Crash,
     BecomesWritable, LetterComesLate, Plug, Unplug, helper
<1> QED
  BY <1>1, <1>2, <1>3, <1>4, <1>5, <1>6, <1>7 DEF Next, HelperStep

LEMMA NextAttemptCosts ==
    ASSUME Inv, ~Obstacle, Costly, NextAttempt
    PROVE  Costly'
<1>1. /\ step \in {"retry", "stop"} /\ faults' = faults /\ session' = session
      /\ attempt \in 1..MaxAttempts /\ faults \in Nat /\ MaxAttempts \in Nat
  BY ResetClientAssumption DEF NextAttempt, windows, Inv, TypeOK
<1>2. faults >= attempt
  BY <1>1 DEF Costly, Smooth, Failing
<1>3. CASE step = "retry" /\ AttemptsLeft
  <2>1. attempt' = attempt + 1 /\ step' = "startup"
    BY <1>3 DEF NextAttempt, FirstStep
  <2>2. session = "none"
    BY <1>3 DEF Inv, Claims, TypeOK, Obstacle
  <2>3. Smooth'
    BY <1>1, <2>1, <2>2 DEF Smooth, Failing, Before, Matched, Mounting
  <2> QED
    BY <1>1, <1>2, <2>1, <2>3 DEF Costly
<1>4. CASE step = "stop"
  BY <1>1, <1>2, <1>4 DEF NextAttempt, Costly
<1>5. CASE step = "retry" /\ ~AttemptsLeft
  <2>1. faults >= MaxAttempts
    BY <1>1, <1>2, <1>5 DEF AttemptsLeft
  <2> QED
    BY <1>1, <1>2, <1>5, <2>1 DEF NextAttempt, Costly
<1> QED
  BY <1>1, <1>3, <1>4, <1>5

LEMMA CostlyStep ==
    ASSUME Inv, Inv', Shown, ~Obstacle, ~Obstacle', Costly, Next
    PROVE  Costly'
<1>1. CASE NextAttempt
  BY <1>1, NextAttemptCosts
<1>2. CASE Crash
  <2>1. faults' = faults + 1 /\ faults \in Nat
    BY <1>2, CostsCounts DEF Crash, Inv
  <2>2. attempt' = 1 /\ step' = "startup"
    BY <1>2 DEF Crash
  <2> QED
    BY <2>1, <2>2 DEF Costly
<1>3. CASE ~NextAttempt /\ ~Crash
  <2>1. /\ attempt' = attempt /\ attempt \in Nat /\ MaxAttempts \in Nat
        /\ faults \in Nat /\ faults' \in Nat /\ (faults' = faults \/ faults' = faults + 1)
    BY <1>3, AttemptSteps, FaultsCounted, ResetClientAssumption DEF Inv, TypeOK
  <2>2. faults' >= attempt' - 1
    BY <2>1 DEF Costly
  <2>3. faults' >= attempt' \/ Smooth'
    BY <2>1, SmoothKept DEF Costly
  <2>4. ASSUME step' \in {"stop", "abandoned"} PROVE faults' > attempt'
    <3>1. CASE Cleanup
      <4>1. step = "cleanup" /\ Costs
        BY <2>4, <3>1 DEF Cleanup, CleanupSafe, ToDisconnect, Go, Inv, TypeOK
      <4>2. faults >= attempt /\ faults' = faults + 1
        BY <4>1, CostsCounts DEF Costly, Smooth, Failing, Inv
      <4> QED
        BY <2>1, <4>2
    <3>2. CASE step \in {"stop", "abandoned"}
      BY <2>1, <3>2 DEF Costly
    <3> QED
      BY <1>3, <2>4, <3>1, <3>2, AttemptSteps
  <2>5. ASSUME step' = "done" PROVE code' = 0 \/ faults' >= MaxAttempts
    <3>1. CASE Ready
      BY <3>1 DEF Ready
    <3>2. CASE step = "done" /\ code' = code
      BY <2>1, <3>2 DEF Costly
    <3> QED
      BY <1>3, <2>5, <3>1, <3>2, AttemptSteps
  <2> QED
    BY <2>2, <2>3, <2>4, <2>5 DEF Costly
<1> QED
  BY <1>1, <1>2, <1>3

(* With no other session and no other disk in the way the helper gives up  *)
(* only after as many faults as it has attempts, or after a fault in an    *)
(* attempt and another that leaves the end of its session unverified:      *)
(* whatever disks Windows brings up in whatever order, offline, read-only, *)
(* under each other's letters, that alone fails no attempt                 *)
(* (Invoke-ResetMain, Set-ResetDriveLetters, $cleanupSafe).                *)
THEOREM GivingUpTakesFaults ==
    Spec /\ []~Obstacle
      => [](/\ step = "done" => code = 0 \/ faults >= MaxAttempts
            /\ step = "abandoned" => faults > attempt)
<1>1. Init => Costly
  BY DEF Init, Costly, Smooth, Failing, Before, Matched, Mounting
<1>2. Inv /\ Inv' /\ Shown /\ ~Obstacle /\ ~Obstacle' /\ Costly /\ [Next]_vars => Costly'
  <2>1. ASSUME Costly, UNCHANGED vars PROVE Costly'
    <3>1. Current' = Current
      BY <2>1 DEF vars, Current
    <3> QED
      BY <2>1, <3>1 DEF Costly, Smooth, vars
  <2> QED
    BY <2>1, CostlyStep
<1>3. Costly => /\ step = "done" => code = 0 \/ faults >= MaxAttempts
                /\ step = "abandoned" => faults > attempt
  BY DEF Costly
<1> QED
  BY <1>1, <1>2, <1>3, ShownSafety, PTL DEF Spec

(* The steps of an attempt in their order; those of the cycle of one disk  *)
(* are told apart by Turn.                                                 *)
Phase == [startup |-> 0, client |-> 1, prepare |-> 2, discover |-> 3, connect |-> 4, login |-> 5,
          appear |-> 6, disks |-> 7, writable |-> 8, recover |-> 9,
          off |-> 10, offWait |-> 10, on |-> 10, onWait |-> 10, again |-> 11,
          preflight |-> 12, online |-> 13, assign |-> 14, own |-> 15, unletter |-> 16,
          letter |-> 17, verify |-> 18, sync |-> 19, cleanup |-> 20, retry |-> 21, stop |-> 21,
          done |-> 22, abandoned |-> 22]
Cycling == {"off", "offWait", "on", "onWait"}
Turn == [off |-> 0, offWait |-> 1, on |-> 2, onWait |-> 3]

(* A step of the helper begins the next attempt, leads to a later step of  *)
(* this one, leaves a volume less in its loop, or takes the cycle of a     *)
(* disk a turn further.                                                    *)
Nearer ==
    \/ attempt' = attempt + 1 /\ attempt' \in 1..MaxAttempts
    \/ attempt' = attempt /\ Phase[step'] > Phase[step]
    \/ /\ attempt' = attempt /\ Phase[step'] = Phase[step]
       /\ todo' \subseteq todo /\ todo' # todo
    \/ /\ UNCHANGED <<attempt, todo>> /\ {step, step'} \subseteq Cycling
       /\ Turn[step'] > Turn[step]

HelperMovesOn ==
    [][(HelperStep /\ Nearer) \/ UNCHANGED helper \/ Crash]_vars

LEMMA StraightIsNearer ==
    ASSUME Startup \/ ReadClient \/ Prepare \/ Discover \/ Connect \/ Login \/ SessionAppears
           \/ SessionDisks \/ WaitWritable \/ WaitAgain \/ Recover
           \/ Preflight \/ Ready \/ Cleanup
    PROVE  attempt' = attempt /\ Phase[step'] > Phase[step]
<1>1. CASE Startup \/ ReadClient \/ Prepare \/ Discover \/ Connect \/ Login \/ SessionAppears
  BY <1>1 DEF Startup, ReadClient, Prepare, Discover, Connect, Login, SessionAppears, Go, Fail, Phase
<1>2. CASE SessionDisks \/ WaitWritable \/ WaitAgain \/ Recover
  BY <1>2 DEF SessionDisks, WaitWritable, WaitAgain, Recover, Mountable, Go, Fail, Phase
<1>3. CASE Preflight
  BY <1>3 DEF Preflight, Go, Fail, Phase
<1>4. CASE Ready \/ Cleanup
  BY <1>4 DEF Ready, Cleanup, Go, Phase
<1> QED
  BY <1>1, <1>2, <1>3, <1>4

LEMMA CycleIsNearer ==
    ASSUME Inv, NEW isOffline \in BOOLEAN, CycleDisk(isOffline) \/ ConfirmDisk(isOffline)
    PROVE  Nearer
<1>1. Current \in todo
  BY CurrentInTodo DEF Inv, Looping, CycleDisk, ConfirmDisk
<1>2. CASE CycleDisk(isOffline)
  BY <1>2 DEF CycleDisk, Go, Fail, Nearer, Phase, Turn, Cycling
<1>3. CASE ConfirmDisk(isOffline)
  BY <1>1, <1>3 DEF ConfirmDisk, Go, Fail, Nearer, Phase, Turn, Cycling
<1> QED
  BY <1>2, <1>3

LEMMA LoopIsNearer ==
    ASSUME \/ BringOnline \/ Assign \/ CheckOwners \/ TakeLetters \/ GiveLetters
           \/ VerifyLetters
    PROVE  Nearer
<1>1. step \in {"online", "assign", "own", "unletter", "letter", "verify"}
  BY DEF BringOnline, Assign, CheckOwners, TakeLetters, GiveLetters, VerifyLetters
<1>2. CASE todo # {} /\ LoopGoesOn
  BY <1>1, <1>2, CurrentInTodo DEF LoopGoesOn, Nearer
<1>3. CASE \E possible \in BOOLEAN : LoopFails(possible)
  BY <1>1, <1>3 DEF LoopFails, Fail, Nearer, Phase
<1>4. CASE \/ step = "online" /\ LoopEnds("assign")
           \/ step = "assign" /\ LoopEnds("own")
           \/ step = "own" /\ LoopEnds("unletter")
           \/ step = "unletter" /\ LoopEnds("letter")
           \/ step = "letter" /\ LoopEnds("verify")
           \/ step = "verify" /\ LoopEnds("sync")
           \/ step = "verify" /\ Fail("disk_validation")
  BY <1>4 DEF LoopEnds, Go, Fail, Nearer, Phase
<1>5. (Addressed # {}) \in BOOLEAN /\ (Readable # {}) \in BOOLEAN /\ (Unlettered # {}) \in BOOLEAN
      /\ (Letterable # {}) \in BOOLEAN /\ LetterOurs(Current, known) \in BOOLEAN
  BY DEF LetterOurs
<1>6. CASE BringOnline \/ TakeLetters \/ GiveLetters
  BY <1>2, <1>3, <1>4, <1>5, <1>6 DEF BringOnline, TakeLetters, GiveLetters
<1>7. CASE Assign \/ CheckOwners \/ VerifyLetters
  BY <1>2, <1>3, <1>4, <1>5, <1>7 DEF Assign, CheckOwners, VerifyLetters, ReadAssignment
<1> QED
  BY <1>6, <1>7

(* A run of the helper takes finitely many calls: each one goes on in its  *)
(* attempt, or begins one of the few attempts it has, and nothing but the  *)
(* power going puts it back (Invoke-ResetMain).                            *)
THEOREM RunsAreFinite == Spec => HelperMovesOn
<1>1. ASSUME Inv, HelperStep PROVE Nearer
  <2>1. CASE NextAttempt
    BY <1>1, <2>1, ResetClientAssumption
       DEF NextAttempt, AttemptsLeft, Nearer, Phase, Inv, TypeOK
  <2>2. ASSUME attempt' = attempt /\ Phase[step'] > Phase[step] PROVE Nearer
    BY <2>2 DEF Nearer
  <2> QED
    BY <1>1, <2>1, <2>2, StraightIsNearer, CycleIsNearer, LoopIsNearer DEF HelperStep
<1>2. Environment => UNCHANGED helper \/ Crash
  BY DEF Environment, DisksAppear, LinkBreaks, ForeignLogin, ForeignLogout, BecomesWritable,
     LetterComesLate, Plug, Unplug
<1>3. Inv /\ [Next]_vars => [(HelperStep /\ Nearer) \/ UNCHANGED helper \/ Crash]_vars
  BY <1>1, <1>2 DEF Next
<1> QED
  BY <1>3, Safety, PTL DEF Spec, HelperMovesOn
=============================================================================
