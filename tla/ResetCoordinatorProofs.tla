----------------------- MODULE ResetCoordinatorProofs -----------------------
(***************************************************************************)
(* The safety properties of ResetCoordinator for any clients, volumes,     *)
(* releases, clone parents and number of faults, and below them that of    *)
(* the dashboard which reads next to its prepares (ManagementInspector).   *)
(***************************************************************************)
EXTENDS ManagementInspector, TLAPS

(* The steps that loop over volumes: there is a current one.               *)
Looping == {"disabling", "cloning", "switching", "rollback", "enabling",
            "closingFirst", "closing"}

(* The steps of a prepare that has read its release.                       *)
Chosen == {"cloning", "switching", "rollback", "enabling", "verifyOn",
           "answering", "closingFirst", "ready"}

LoopInv ==
    \A c \in Clients :
        /\ todo[c] \subseteq ClientVolumes[c]
        /\ step[c] \in Looping => todo[c] # {}

ReleaseInv == \A c \in Clients : step[c] \in Chosen => release[c] \in Releases

TypeInv == TypeOK /\ LoopInv

Mine(c, v) == ClonePath(c, v, release[c])

Cloned(c, v) == zvol[Mine(c, v)].owner = c /\ zvol[Mine(c, v)].clean # "none"

(* What a prepare has established when it is at step[c].                   *)
Progress(c) ==
    /\ step[c] \in {"cloning", "switching", "rollback"} => Off(c)
    /\ step[c] = "cloning" => \A v \in ClientVolumes[c] \ todo[c] : Cloned(c, v)
    /\ step[c] \in Chosen \ {"cloning"} => \A v \in ClientVolumes[c] : Cloned(c, v)
    /\ step[c] = "switching" =>
          \A v \in ClientVolumes[c] \ todo[c] : disk[<<c, v>>] = Mine(c, v)
    /\ step[c] \in Chosen \ {"cloning", "switching"} =>
          \A v \in ClientVolumes[c] : disk[<<c, v>>] = Mine(c, v)
    /\ step[c] = "rollback" =>
          \A v \in ClientVolumes[c] \ todo[c] : zvol[Mine(c, v)].data = "pristine"
    /\ step[c] = "enabling" =>
          \A v \in todo[c] : zvol[Mine(c, v)].data = "pristine" /\ <<c, v>> \notin enabled
    /\ step[c] \in {"answering", "ready"} => \A v \in ClientVolumes[c] : <<c, v>> \in enabled

Agree(c) ==
    ~Off(c) => \A v, w \in ClientVolumes[c] : ReleaseAt(<<c, v>>) = ReleaseAt(<<c, w>>)

(* A clone without @clean has never been visible, so it is pristine.       *)
CleanInv ==
    \A p \in Paths :
        /\ zvol[p].clean # "dirty"
        /\ zvol[p].owner \in Clients /\ zvol[p].clean = "none" => zvol[p].data = "pristine"

SafeInv ==
    /\ CleanInv
    /\ AttachedIsOwn
    /\ \A c \in Clients : Progress(c) /\ Agree(c)

Inv == TypeInv /\ ReleaseInv /\ SafeInv
-----------------------------------------------------------------------------
LEMMA ExtentsOfClient ==
    ASSUME NEW c \in Clients, NEW v \in ClientVolumes[c]
    PROVE  <<c, v>> \in Extents
  BY DEF Extents

LEMMA ExtentShape ==
    ASSUME NEW e \in Extents
    PROVE  e[1] \in Clients /\ e[2] \in ClientVolumes[e[1]] /\ e = <<e[1], e[2]>>
  BY DEF Extents

LEMMA PathOfClient ==
    ASSUME NEW c \in Clients, NEW v \in ClientVolumes[c], NEW r \in Releases
    PROVE  /\ ClonePath(c, v, r) \in Paths
           /\ ClonePath(c, v, r)[2] = v
           /\ ClonePath(c, v, r)[3] = r
  BY ConfigAssumption DEF ClonePath, Paths

LEMMA CurrentInTodo ==
    ASSUME NEW c \in Clients, todo[c] # {}
    PROVE  Current(c) \in todo[c]
  BY DEF Current

(* The content of the dataset at path p becomes d.                         *)
WithData(z, p, d) == [z EXCEPT ![p].data = d]

LEMMA DataUpdate ==
    ASSUME NEW z \in [Paths -> Zvols], NEW p \in Paths, NEW d \in {"pristine", "dirty"}
    PROVE  /\ WithData(z, p, d) \in [Paths -> Zvols]
           /\ WithData(z, p, d)[p].data = d
           /\ \A q \in Paths : /\ WithData(z, p, d)[q].owner = z[q].owner
                               /\ WithData(z, p, d)[q].clean = z[q].clean
                               /\ q # p => WithData(z, p, d)[q] = z[q]
  BY DEF Zvols, WithData
-----------------------------------------------------------------------------
LEMMA InitTypeInv == Init => TypeInv
  BY ConfigAssumption DEF Init, TypeInv, TypeOK, LoopInv, Zvols, Absent, NotOurs, Steps,
     Resting, Looping

(* GoTo, Raise and Advance keep the control variables well-formed.         *)
LEMMA GoToType ==
    ASSUME TypeInv, NEW c \in Clients, NEW next \in Steps, NEW work \in SUBSET ClientVolumes[c],
           GoTo(c, next, work), next \in Looping => work # {}
    PROVE  /\ step' \in [Clients -> Steps]
           /\ todo' \in [Clients -> SUBSET Volumes]
           /\ LoopInv'
  BY ConfigAssumption DEF TypeInv, TypeOK, LoopInv, GoTo

LEMMA RaiseType ==
    ASSUME TypeInv, NEW c \in Clients, Raise(c)
    PROVE  /\ step' \in [Clients -> Steps]
           /\ todo' \in [Clients -> SUBSET Volumes]
           /\ LoopInv'
  BY GoToType, ConfigAssumption DEF Raise, Steps

LEMMA AdvanceType ==
    ASSUME TypeInv, NEW c \in Clients, NEW v \in ClientVolumes[c], NEW next \in Steps,
           NEW work \in SUBSET ClientVolumes[c], Advance(c, v, next, work), v \in todo[c],
           next \in Looping => work # {}
    PROVE  /\ step' \in [Clients -> Steps]
           /\ todo' \in [Clients -> SUBSET Volumes]
           /\ LoopInv'
  <1>1. step[c] \in Steps /\ todo[c] \ {v} \in SUBSET ClientVolumes[c]
    BY DEF TypeInv, TypeOK, LoopInv
  <1>2. CASE todo[c] = {v}
    BY <1>2, GoToType DEF Advance
  <1>3. CASE todo[c] # {v}
    BY <1>1, <1>3, GoToType DEF Advance
  <1> QED
    BY <1>2, <1>3

LEMMA SetEnabledType ==
    ASSUME TypeInv, NEW c \in Clients, NEW from \in Looping, NEW next \in Steps \ Looping,
           SetEnabled(c, from, next, {})
    PROVE  TypeInv'
  <1> DEFINE v == Current(c)
  <1>1. v \in todo[c] /\ v \in ClientVolumes[c] /\ <<c, v>> \in Extents
    BY CurrentInTodo, ExtentsOfClient DEF SetEnabled, TypeInv, LoopInv
  <1>2. step' \in [Clients -> Steps] /\ todo' \in [Clients -> SUBSET Volumes] /\ LoopInv'
    <2>1. CASE Raise(c)
      BY <2>1, RaiseType
    <2>2. CASE Advance(c, v, next, {})
      BY <2>2, <1>1, AdvanceType
    <2> QED
      BY <2>1, <2>2 DEF SetEnabled
  <1>3. enabled' \subseteq Extents
    BY <1>1 DEF SetEnabled, TypeInv, TypeOK
  <1> QED
    BY ConfigAssumption, <1>2, <1>3 DEF SetEnabled, TypeInv, TypeOK, Fault

LEMMA BestEffortType ==
    ASSUME TypeInv, NEW c \in Clients, NEW from \in Looping, NEW next \in Steps,
           NEW after \in SUBSET ClientVolumes[c], next \in Looping => after # {},
           BestEffortDisable(c, from, next, after)
    PROVE  TypeInv'
  <1> DEFINE v == Current(c)
  <1>1. v \in todo[c] /\ v \in ClientVolumes[c]
    BY CurrentInTodo DEF BestEffortDisable, TypeInv, LoopInv
  <1>2. step' \in [Clients -> Steps] /\ todo' \in [Clients -> SUBSET Volumes] /\ LoopInv'
    BY <1>1, AdvanceType DEF BestEffortDisable
  <1> QED
    BY ConfigAssumption, <1>2 DEF BestEffortDisable, TypeInv, TypeOK, Fault

LEMMA SwitchDiskType ==
    ASSUME TypeInv, NEW c \in Clients, SwitchDisk(c), release[c] \in Releases
    PROVE  TypeInv'
  <1> DEFINE v == Current(c)
  <1>1. v \in todo[c] /\ v \in ClientVolumes[c] /\ <<c, v>> \in Extents
    BY CurrentInTodo, ExtentsOfClient DEF SwitchDisk, TypeInv, LoopInv, Looping
  <1>2. step' \in [Clients -> Steps] /\ todo' \in [Clients -> SUBSET Volumes] /\ LoopInv'
    <2>1. CASE Raise(c)
      BY <2>1, RaiseType
    <2>2. CASE Advance(c, v, "rollback", ClientVolumes[c])
      BY <2>2, <1>1, AdvanceType, ConfigAssumption DEF Steps
    <2> QED
      BY <2>1, <2>2 DEF SwitchDisk
  <1>3. disk' \in [Extents -> Paths \cup {Bootstrap}]
    BY <1>1, PathOfClient DEF SwitchDisk, TypeInv, TypeOK
  <1> QED
    BY ConfigAssumption, <1>2, <1>3 DEF SwitchDisk, TypeInv, TypeOK, Fault

LEMMA TypeStep == TypeInv /\ ReleaseInv /\ [Next]_vars => TypeInv'
<1> SUFFICES ASSUME TypeInv, ReleaseInv, [Next]_vars PROVE TypeInv'
  OBVIOUS
<1> USE ConfigAssumption DEF TypeInv
<1>1. ASSUME NEW c \in Clients, Prepare(c) PROVE TypeInv'
  <2>1. step' \in [Clients -> Steps] /\ todo' \in [Clients -> SUBSET Volumes] /\ LoopInv'
    BY <1>1, GoToType DEF Prepare, Steps
  <2> QED
    BY <1>1, <2>1 DEF Prepare, TypeOK, storage
<1>2. ASSUME NEW c \in Clients, Disable(c) PROVE TypeInv'
  BY <1>2, SetEnabledType DEF Disable, Steps, Looping
<1>3. ASSUME NEW c \in Clients, Enable(c) PROVE TypeInv'
  BY <1>3, SetEnabledType DEF Enable, Steps, Looping
<1>4. ASSUME NEW c \in Clients, VerifyOff(c) PROVE TypeInv'
  <2>1. step' \in [Clients -> Steps] /\ todo' \in [Clients -> SUBSET Volumes] /\ LoopInv'
    BY <1>4, GoToType, RaiseType DEF VerifyOff, Steps
  <2> QED
    BY <1>4, <2>1 DEF VerifyOff, TypeOK, storage, Fault
<1>5. ASSUME NEW c \in Clients, EnsureReleaseClone(c) PROVE TypeInv'
  <2> DEFINE v == Current(c)
             p == ClonePath(c, v, release[c])
  <2>1. v \in todo[c] /\ v \in ClientVolumes[c]
    BY <1>5, CurrentInTodo DEF EnsureReleaseClone, LoopInv, Looping
  <2>2. step' \in [Clients -> Steps] /\ todo' \in [Clients -> SUBSET Volumes] /\ LoopInv'
    <3>1. CASE UNCHANGED <<step, todo>>
      BY <3>1 DEF TypeOK, LoopInv
    <3>2. CASE Raise(c)
      BY <3>2, RaiseType
    <3>3. CASE Advance(c, v, "switching", ClientVolumes[c])
      BY <3>3, <2>1, AdvanceType DEF Steps
    <3> QED
      BY <1>5, <3>1, <3>2, <3>3 DEF EnsureReleaseClone
  <2>3. zvol' \in [Paths -> Zvols]
    <3>1. CASE UNCHANGED zvol
      BY <3>1 DEF TypeOK
    <3>2. CASE zvol' = [zvol EXCEPT ![p] =
                          [owner |-> c, data |-> "pristine", clean |-> "none"]]
      BY <3>2 DEF TypeOK, Zvols
    <3>3. CASE zvol' = [zvol EXCEPT ![p].clean = zvol[p].data]
      BY <3>3 DEF TypeOK, Zvols
    <3> QED
      BY <1>5, <3>1, <3>2, <3>3 DEF EnsureReleaseClone
  <2> QED
    BY <1>5, <2>2, <2>3 DEF EnsureReleaseClone, TypeOK, Fault
<1>6. ASSUME NEW c \in Clients, SwitchDisk(c) PROVE TypeInv'
  BY <1>6, SwitchDiskType DEF SwitchDisk, ReleaseInv, Chosen
<1>7. ASSUME NEW c \in Clients, Rollback(c) PROVE TypeInv'
  <2> DEFINE v == Current(c)
             p == ClonePath(c, v, release[c])
  <2>1. v \in todo[c] /\ v \in ClientVolumes[c]
    BY <1>7, CurrentInTodo DEF Rollback, LoopInv, Looping
  <2>2. step' \in [Clients -> Steps] /\ todo' \in [Clients -> SUBSET Volumes] /\ LoopInv'
    <3>1. CASE Raise(c)
      BY <3>1, RaiseType
    <3>2. CASE Advance(c, v, "enabling", ClientVolumes[c])
      BY <3>2, <2>1, AdvanceType DEF Steps
    <3> QED
      BY <1>7, <3>1, <3>2 DEF Rollback
  <2>3. zvol' \in [Paths -> Zvols]
    <3>1. p \in Paths
      BY <1>7, <2>1, PathOfClient DEF ReleaseInv, Chosen, Rollback
    <3>2. zvol[p] \in Zvols
      BY <3>1 DEF TypeOK
    <3>3. zvol[p].clean # "none" => zvol[p].clean \in {"pristine", "dirty"}
      BY <3>2 DEF Zvols
    <3>4. \/ zvol' = zvol
          \/ zvol[p].clean # "none" /\ zvol' = WithData(zvol, p, zvol[p].clean)
      BY <1>7 DEF Rollback, WithData
    <3>5. zvol \in [Paths -> Zvols]
      BY DEF TypeOK
    <3> HIDE DEF p
    <3> QED
      BY <3>1, <3>3, <3>4, <3>5, DataUpdate
  <2> QED
    BY <1>7, <2>2, <2>3 DEF Rollback, TypeOK, Fault
<1>8. ASSUME NEW c \in Clients, VerifyOn(c) PROVE TypeInv'
  <2>1. step' \in [Clients -> Steps] /\ todo' \in [Clients -> SUBSET Volumes] /\ LoopInv'
    BY <1>8, GoToType, RaiseType DEF VerifyOn, Steps, Looping
  <2> QED
    BY <1>8, <2>1 DEF VerifyOn, TypeOK, storage, Fault
<1>9. ASSUME NEW c \in Clients, Answer(c) PROVE TypeInv'
  <2>1. step' \in [Clients -> Steps] /\ todo' \in [Clients -> SUBSET Volumes] /\ LoopInv'
    BY <1>9, GoToType, RaiseType DEF Answer, Steps, Looping, Resting
  <2> QED
    BY <1>9, <2>1 DEF Answer, TypeOK, storage, Fault
<1>10. ASSUME NEW c \in Clients, CloseFirst(c) PROVE TypeInv'
  BY <1>10, BestEffortType DEF CloseFirst, Steps, Looping
<1>11. ASSUME NEW c \in Clients, Close(c) PROVE TypeInv'
  BY <1>11, BestEffortType DEF Close, Steps, Looping, Resting
<1>12. ASSUME NEW c \in Clients, Login(c) \/ Logout(c) PROVE TypeInv'
  BY <1>12 DEF Login, Logout, TypeOK, LoopInv, storage, control, Fault
<1>13. ASSUME NEW e \in Extents, Write(e) PROVE TypeInv'
  <2>1. zvol' \in [Paths -> Zvols]
    <3>1. zvol' = WithData(zvol, disk[e], "dirty") /\ disk[e] \in Paths
      BY <1>13 DEF Write, WithData
    <3> QED
      BY <3>1, DataUpdate DEF TypeOK
  <2> QED
    BY <1>13, <2>1 DEF Write, TypeOK, LoopInv, control
<1>14. ASSUME NEW r \in Releases, Activate(r) PROVE TypeInv'
  BY <1>14 DEF Activate, TypeOK, LoopInv, control, storage
<1>15. CASE Restart
  BY <1>15 DEF Restart, TypeOK, LoopInv, storage, Fault, Steps, Resting, Looping
<1>16. CASE UNCHANGED vars
  BY <1>16 DEF vars, TypeOK, LoopInv
<1> QED
  BY <1>1, <1>2, <1>3, <1>4, <1>5, <1>6, <1>7, <1>8, <1>9, <1>10, <1>11, <1>12, <1>13,
     <1>14, <1>15, <1>16 DEF Next, Proceed

(* Only the read of the active release leads into the steps that use it.   *)
LEMMA ReleaseKept ==
    ASSUME TypeInv, ReleaseInv, NEW c \in Clients,
           release' = release,
           \A d \in Clients : step'[d] \in Chosen => step[d] \in Chosen
    PROVE  ReleaseInv'
  BY DEF ReleaseInv

LEMMA ReleaseStep == TypeInv /\ ReleaseInv /\ [Next]_vars => ReleaseInv'
<1> SUFFICES ASSUME TypeInv, ReleaseInv, [Next]_vars PROVE ReleaseInv'
  OBVIOUS
<1> USE DEF TypeInv, TypeOK, Chosen, GoTo, Advance, Raise
<1>1. ASSUME NEW c \in Clients, Prepare(c) PROVE ReleaseInv'
  BY <1>1 DEF Prepare, ReleaseInv
<1>2. ASSUME NEW c \in Clients, VerifyOff(c) PROVE ReleaseInv'
  BY <1>2 DEF VerifyOff, ReleaseInv
<1>3. ASSUME NEW c \in Clients,
             \/ Disable(c) \/ EnsureReleaseClone(c) \/ SwitchDisk(c) \/ Rollback(c)
             \/ Enable(c) \/ VerifyOn(c) \/ Answer(c) \/ CloseFirst(c) \/ Close(c)
      PROVE  ReleaseInv'
  <2>1. release' = release
    BY <1>3 DEF Disable, Enable, SetEnabled, EnsureReleaseClone, SwitchDisk, Rollback,
       VerifyOn, Answer, CloseFirst, Close, BestEffortDisable
  <2>2. \A d \in Clients : d # c => step'[d] = step[d]
    BY <1>3 DEF Disable, Enable, SetEnabled, EnsureReleaseClone, SwitchDisk, Rollback,
       VerifyOn, Answer, CloseFirst, Close, BestEffortDisable
  <2>3. step'[c] \in Chosen => step[c] \in Chosen
    BY <1>3 DEF Disable, Enable, SetEnabled, EnsureReleaseClone, SwitchDisk, Rollback,
       VerifyOn, Answer, CloseFirst, Close, BestEffortDisable
  <2> QED
    BY <2>1, <2>2, <2>3, ReleaseKept
<1>4. ASSUME NEW c \in Clients, Login(c) \/ Logout(c) PROVE ReleaseInv'
  BY <1>4 DEF Login, Logout, control, ReleaseInv
<1>5. ASSUME NEW e \in Extents, Write(e) PROVE ReleaseInv'
  BY <1>5 DEF Write, control, ReleaseInv
<1>6. ASSUME NEW r \in Releases, Activate(r) PROVE ReleaseInv'
  BY <1>6 DEF Activate, control, ReleaseInv
<1>7. CASE Restart
  BY <1>7 DEF Restart, ReleaseInv
<1>8. CASE UNCHANGED vars
  BY <1>8 DEF vars, ReleaseInv
<1> QED
  BY <1>1, <1>2, <1>3, <1>4, <1>5, <1>6, <1>7, <1>8 DEF Next, Proceed

(* Type correctness of ResetCoordinator.                                   *)
THEOREM TypeCorrect == Spec => []TypeOK
<1>1. Init => ReleaseInv
  BY DEF Init, ReleaseInv, Chosen
<1>2. Spec => [](TypeInv /\ ReleaseInv)
  BY <1>1, InitTypeInv, TypeStep, ReleaseStep, PTL DEF Spec
<1> QED
  BY <1>2, PTL DEF TypeInv
-----------------------------------------------------------------------------
(* What a step of somebody else leaves to client d.                        *)
Undisturbed(d) ==
    /\ step'[d] = step[d] /\ todo'[d] = todo[d] /\ release'[d] = release[d]
    /\ \A v \in ClientVolumes[d] :
          /\ disk'[<<d, v>>] = disk[<<d, v>>]
          /\ <<d, v>> \in enabled' <=> <<d, v>> \in enabled

ClonesKept(d) ==
    \A p \in Paths : zvol[p].owner = d =>
        /\ zvol'[p].owner = d
        /\ zvol[p].clean # "none" => zvol'[p].clean # "none"
        /\ zvol[p].data = "pristine" => zvol'[p].data = "pristine"

LEMMA MinePath ==
    ASSUME ReleaseInv, NEW c \in Clients, NEW v \in ClientVolumes[c], step[c] \in Chosen
    PROVE  Mine(c, v) \in Paths /\ Mine(c, v)[2] = v /\ Mine(c, v)[3] = release[c]
  BY PathOfClient DEF ReleaseInv, Mine

LEMMA ProgressKept ==
    ASSUME TypeInv, ReleaseInv, NEW d \in Clients, Progress(d), Agree(d),
           Undisturbed(d), ClonesKept(d)
    PROVE  Progress(d)' /\ Agree(d)'
  <1>1. \A v \in ClientVolumes[d] : Mine(d, v)' = Mine(d, v)
    BY DEF Mine, Undisturbed
  <1>2. \A v \in ClientVolumes[d] :
            Cloned(d, v) /\ step[d] \in Chosen =>
                /\ Cloned(d, v)'
                /\ zvol[Mine(d, v)].data = "pristine" => zvol'[Mine(d, v)].data = "pristine"
    BY <1>1, MinePath DEF Cloned, ClonesKept
  <1>3. Off(d)' <=> Off(d)
    BY DEF Off, Undisturbed
  <1>4. todo[d] \subseteq ClientVolumes[d]
    BY DEF TypeInv, LoopInv
  <1>5. Progress(d)'
    BY <1>1, <1>2, <1>3, <1>4 DEF Progress, Undisturbed, Chosen
  <1>6. Agree(d)'
    BY <1>3 DEF Agree, ReleaseAt, Undisturbed
  <1> QED
    BY <1>5, <1>6

(* A prepare that gives up, or has not chosen a release yet, only has to   *)
(* keep what is visible in agreement: it takes extents away.               *)
Withdrawing(c) ==
    \A v \in ClientVolumes[c] :
        disk'[<<c, v>>] = disk[<<c, v>>] /\ (<<c, v>> \in enabled' => <<c, v>> \in enabled)

LEMMA AgreeKept ==
    ASSUME NEW c \in Clients, Agree(c), Withdrawing(c)
    PROVE  Agree(c)'
  BY DEF Agree, Off, ReleaseAt, Withdrawing

LEMMA Unchosen ==
    ASSUME NEW c \in Clients, step'[c] \notin Chosen
    PROVE  Progress(c)'
  BY DEF Progress, Chosen

LEMMA StorageKept ==
    ASSUME CleanInv, AttachedIsOwn, zvol' = zvol, disk' = disk
    PROVE  CleanInv' /\ AttachedIsOwn'
  BY DEF CleanInv, AttachedIsOwn

(* A step of client c that leaves every dataset as it is, and the other    *)
(* clients entirely.                                                       *)
OthersUndisturbed(c) == \A d \in Clients \ {c} : Undisturbed(d)

LEMMA ControlStep ==
    ASSUME Inv, NEW c \in Clients, zvol' = zvol, disk' = disk, OthersUndisturbed(c),
           Progress(c)', Agree(c)'
    PROVE  SafeInv'
  <1>1. CleanInv' /\ AttachedIsOwn'
    BY StorageKept DEF Inv, SafeInv
  <1>2. ASSUME NEW d \in Clients, d # c PROVE Progress(d)' /\ Agree(d)'
    <2>1. ClonesKept(d)
      BY DEF ClonesKept
    <2> QED
      BY <1>2, <2>1, ProgressKept DEF Inv, SafeInv, OthersUndisturbed
  <1> QED
    BY <1>1, <1>2 DEF SafeInv

LEMMA PrepareStep ==
    ASSUME Inv, NEW c \in Clients, Prepare(c)
    PROVE  SafeInv'
  <1>1. zvol' = zvol /\ disk' = disk /\ enabled' = enabled
    BY DEF Prepare, storage
  <1>2. OthersUndisturbed(c)
    BY <1>1 DEF Prepare, GoTo, OthersUndisturbed, Undisturbed, Inv, TypeInv, TypeOK
  <1>3. step'[c] \notin Chosen
    BY DEF Prepare, GoTo, Chosen, Inv, TypeInv, TypeOK
  <1>4. Agree(c)'
    BY <1>1, AgreeKept DEF Withdrawing, Inv, SafeInv
  <1> QED
    BY <1>1, <1>2, <1>3, <1>4, Unchosen, ControlStep

(* Giving up: nothing but the control of c changes, extents are only       *)
(* taken away.                                                             *)
LEMMA RaiseStep ==
    ASSUME Inv, NEW c \in Clients, Raise(c), release' = release, zvol' = zvol, disk' = disk,
           enabled' \subseteq enabled,
           \A d \in Clients \ {c} : \A v \in ClientVolumes[d] :
               <<d, v>> \in enabled => <<d, v>> \in enabled'
    PROVE  SafeInv'
  <1>1. OthersUndisturbed(c)
    BY DEF Raise, GoTo, OthersUndisturbed, Undisturbed, Inv, TypeInv, TypeOK
  <1>2. step'[c] \notin Chosen
    BY DEF Raise, GoTo, Chosen, Inv, TypeInv, TypeOK
  <1>3. Agree(c)'
    BY AgreeKept DEF Withdrawing, Inv, SafeInv
  <1> QED
    BY <1>1, <1>2, <1>3, Unchosen, ControlStep

LEMMA VerifyOffStep ==
    ASSUME Inv, NEW c \in Clients, VerifyOff(c)
    PROVE  SafeInv'
  <1>1. zvol' = zvol /\ disk' = disk /\ enabled' = enabled
    BY DEF VerifyOff, storage
  <1>2. CASE Raise(c) /\ release' = release
    BY <1>1, <1>2, RaiseStep
  <1>3. CASE /\ Off(c) /\ active # NoRelease
             /\ GoTo(c, "cloning", ClientVolumes[c])
             /\ release' = [release EXCEPT ![c] = active]
    <2>1. OthersUndisturbed(c)
      BY <1>1, <1>3 DEF GoTo, OthersUndisturbed, Undisturbed, Inv, TypeInv, TypeOK
    <2>2. step'[c] = "cloning" /\ todo'[c] = ClientVolumes[c]
      BY <1>3 DEF GoTo, Inv, TypeInv, TypeOK
    <2>3. Off(c)'
      BY <1>1, <1>3 DEF Off
    <2>4. Progress(c)'
      BY <2>2, <2>3 DEF Progress, Chosen
    <2>5. Agree(c)'
      BY <2>3 DEF Agree
    <2> QED
      BY <1>1, <2>1, <2>4, <2>5, ControlStep
  <1> QED
    BY <1>2, <1>3 DEF VerifyOff

LEMMA VerifyOnStep ==
    ASSUME Inv, NEW c \in Clients, VerifyOn(c)
    PROVE  SafeInv'
  <1>1. zvol' = zvol /\ disk' = disk /\ enabled' = enabled /\ release' = release
    BY DEF VerifyOn, storage
  <1>2. CASE Raise(c)
    BY <1>1, <1>2, RaiseStep
  <1>3. CASE /\ FinalExtents(c)
             /\ \/ GoTo(c, "answering", {})
                \/ GoTo(c, "closingFirst", ClientVolumes[c])
    <2>1. OthersUndisturbed(c)
      BY <1>1, <1>3 DEF GoTo, OthersUndisturbed, Undisturbed, Inv, TypeInv, TypeOK
    <2>2. step[c] = "verifyOn" /\ step'[c] \in {"answering", "closingFirst"}
      BY <1>3 DEF VerifyOn, GoTo, Inv, TypeInv, TypeOK
    <2>3. \A v \in ClientVolumes[c] :
             /\ Cloned(c, v)' /\ disk'[<<c, v>>] = Mine(c, v)'
             /\ <<c, v>> \in enabled'
      BY <1>1, <1>3, <2>2 DEF Inv, SafeInv, Progress, Cloned, Mine, Chosen, FinalExtents
    <2>4. Progress(c)'
      BY <2>2, <2>3 DEF Progress, Chosen
    <2>5. Agree(c)'
      BY <1>1, AgreeKept DEF Withdrawing, Inv, SafeInv
    <2> QED
      BY <1>1, <2>1, <2>4, <2>5, ControlStep
  <1> QED
    BY <1>2, <1>3 DEF VerifyOn

LEMMA AnswerStep ==
    ASSUME Inv, NEW c \in Clients, Answer(c)
    PROVE  SafeInv'
  <1>1. zvol' = zvol /\ disk' = disk /\ enabled' = enabled /\ release' = release
    BY DEF Answer, storage
  <1>2. CASE Raise(c)
    BY <1>1, <1>2, RaiseStep
  <1>3. CASE GoTo(c, "ready", {})
    <2>1. OthersUndisturbed(c)
      BY <1>1, <1>3 DEF GoTo, OthersUndisturbed, Undisturbed, Inv, TypeInv, TypeOK
    <2>2. step[c] = "answering" /\ step'[c] = "ready"
      BY <1>3 DEF Answer, GoTo, Inv, TypeInv, TypeOK
    <2>3. \A v \in ClientVolumes[c] :
             /\ Cloned(c, v)' /\ disk'[<<c, v>>] = Mine(c, v)'
             /\ <<c, v>> \in enabled'
      BY <1>1, <2>2 DEF Inv, SafeInv, Progress, Cloned, Mine, Chosen
    <2>4. Progress(c)'
      BY <2>2, <2>3 DEF Progress, Chosen
    <2>5. Agree(c)'
      BY <1>1, AgreeKept DEF Withdrawing, Inv, SafeInv
    <2> QED
      BY <1>1, <2>1, <2>4, <2>5, ControlStep
  <1> QED
    BY <1>2, <1>3 DEF Answer

(* After Advance the prepare is at next with all its work, or still at its *)
(* step with one volume less.                                              *)
LEMMA AdvanceCases ==
    ASSUME TypeInv, NEW c \in Clients, NEW v, NEW next, NEW work, Advance(c, v, next, work)
    PROVE  /\ \A d \in Clients \ {c} : step'[d] = step[d] /\ todo'[d] = todo[d]
           /\ \/ step'[c] = next /\ todo'[c] = work /\ todo[c] = {v}
              \/ step'[c] = step[c] /\ todo'[c] = todo[c] \ {v}
  BY DEF Advance, GoTo, TypeInv, TypeOK

LEMMA BestEffortStep ==
    ASSUME Inv, NEW c \in Clients, NEW from \in {"closing", "closingFirst"},
           NEW next \in {"closing", "failed"}, NEW after,
           BestEffortDisable(c, from, next, after)
    PROVE  SafeInv'
  <1> DEFINE v == Current(c)
  <1>1. zvol' = zvol /\ disk' = disk /\ release' = release /\ step[c] = from
    BY DEF BestEffortDisable
  <1>2. enabled' = enabled \/ enabled' = enabled \ {<<c, v>>}
    BY DEF BestEffortDisable
  <1>3. Advance(c, v, next, after)
    BY DEF BestEffortDisable
  <1>4. OthersUndisturbed(c)
    BY <1>1, <1>2, <1>3, AdvanceCases DEF OthersUndisturbed, Undisturbed, Inv
  <1>5. Agree(c)'
    BY <1>1, <1>2, AgreeKept DEF Withdrawing, Inv, SafeInv
  <1>6. Progress(c)'
    <2>1. CASE step'[c] = next
      BY <2>1, Unchosen DEF Progress, Chosen
    <2>2. CASE step'[c] = "closing"
      BY <2>2, Unchosen DEF Chosen
    <2>3. CASE step'[c] = "closingFirst" /\ step[c] = "closingFirst"
      <3>1. \A w \in ClientVolumes[c] : Cloned(c, w)' /\ disk'[<<c, w>>] = Mine(c, w)'
        BY <1>1, <2>3 DEF Inv, SafeInv, Progress, Cloned, Mine, Chosen
      <3> QED
        BY <2>3, <3>1 DEF Progress, Chosen
    <2> QED
      BY <1>1, <1>3, <2>1, <2>2, <2>3, AdvanceCases DEF Inv
  <1> QED
    BY <1>1, <1>4, <1>5, <1>6, ControlStep

LEMMA DisableStep ==
    ASSUME Inv, NEW c \in Clients, Disable(c)
    PROVE  SafeInv'
  <1> DEFINE v == Current(c)
  <1>1. /\ zvol' = zvol /\ disk' = disk /\ release' = release /\ step[c] = "disabling"
        /\ enabled' = enabled \/ enabled' = enabled \ {<<c, v>>}
    BY DEF Disable, SetEnabled
  <1>2. CASE Raise(c)
    BY <1>1, <1>2, RaiseStep
  <1>3. CASE Advance(c, v, "verifyOff", {})
    <2>1. OthersUndisturbed(c)
      BY <1>1, <1>3, AdvanceCases DEF OthersUndisturbed, Undisturbed, Inv
    <2>2. step'[c] \notin Chosen
      BY <1>1, <1>3, AdvanceCases DEF Chosen, Inv
    <2>3. Agree(c)'
      BY <1>1, AgreeKept DEF Withdrawing, Inv, SafeInv
    <2> QED
      BY <1>1, <2>1, <2>2, <2>3, Unchosen, ControlStep
  <1> QED
    BY <1>2, <1>3 DEF Disable, SetEnabled

LEMMA EnableStep ==
    ASSUME Inv, NEW c \in Clients, Enable(c)
    PROVE  SafeInv'
  <1> DEFINE v == Current(c)
  <1>1. /\ zvol' = zvol /\ disk' = disk /\ release' = release /\ step[c] = "enabling"
        /\ enabled' = enabled \/ enabled' = enabled \cup {<<c, v>>}
    BY DEF Enable, SetEnabled
  <1>2. Raise(c) \/ Advance(c, v, "verifyOn", {})
    BY DEF Enable, SetEnabled
  <1>3. \A d \in Clients \ {c} : step'[d] = step[d] /\ todo'[d] = todo[d]
    BY <1>2, AdvanceCases DEF Raise, GoTo, Inv, TypeInv, TypeOK
  <1>4. OthersUndisturbed(c)
    BY <1>1, <1>3 DEF OthersUndisturbed, Undisturbed
  <1>5. \A w \in ClientVolumes[c] : Cloned(c, w) /\ disk[<<c, w>>] = Mine(c, w)
    BY <1>1 DEF Inv, SafeInv, Progress, Chosen
  <1>6. \A w \in ClientVolumes[c] : ReleaseAt(<<c, w>>)' = release[c]
    BY <1>1, <1>5, MinePath, ConfigAssumption DEF ReleaseAt, Chosen, Inv
  <1>7. Agree(c)'
    BY <1>6 DEF Agree
  <1>8. Progress(c)'
    <2>1. CASE Raise(c)
      BY <2>1, Unchosen DEF Raise, GoTo, Chosen, Inv, TypeInv, TypeOK
    <2>2. CASE step'[c] = "verifyOn"
      BY <1>1, <1>5, <2>2 DEF Progress, Cloned, Mine, Chosen
    <2>3. CASE step'[c] = "enabling" /\ todo'[c] = todo[c] \ {v}
      <3>1. \A w \in todo'[c] : zvol[Mine(c, w)].data = "pristine" /\ <<c, w>> \notin enabled
        BY <1>1, <2>3 DEF Inv, SafeInv, Progress
      <3>2. \A w \in todo'[c] : <<c, w>> \notin enabled'
        BY <1>1, <2>3, <3>1
      <3> QED
        BY <1>1, <1>5, <2>3, <3>1, <3>2 DEF Progress, Cloned, Mine, Chosen
    <2> QED
      BY <1>1, <1>2, <2>1, <2>2, <2>3, AdvanceCases DEF Inv
  <1> QED
    BY <1>1, <1>4, <1>7, <1>8, ControlStep

(* Facts about the one dataset a storage step of c changes, at path p: who *)
(* owned it before, and what the step does to it.                          *)
OnlyAt(p) == \A q \in Paths : q # p => zvol'[q] = zvol[q]

LEMMA ClonesKeptElsewhere ==
    ASSUME NEW d \in Clients, NEW p \in Paths, OnlyAt(p), zvol[p].owner # d
    PROVE  ClonesKept(d)
  BY DEF ClonesKept, OnlyAt

LEMMA EnsureStep ==
    ASSUME Inv, NEW c \in Clients, EnsureReleaseClone(c)
    PROVE  SafeInv'
<1> DEFINE v == Current(c)
           p == ClonePath(c, v, release[c])
<1>1. /\ step[c] = "cloning" /\ disk' = disk /\ enabled' = enabled /\ release' = release
      /\ v \in todo[c] /\ v \in ClientVolumes[c]
  BY CurrentInTodo DEF EnsureReleaseClone, Inv, TypeInv, LoopInv, Looping
<1>2. p \in Paths /\ p = Mine(c, v)
  BY <1>1, MinePath DEF Mine, Inv, Chosen
<1>3. zvol \in [Paths -> Zvols] /\ c # Nobody
  BY ConfigAssumption DEF Inv, TypeInv, TypeOK
<1>4. Off(c) /\ \A w \in ClientVolumes[c] \ todo[c] : Cloned(c, w)
  BY <1>1 DEF Inv, SafeInv, Progress
<1>5. CASE zvol' = zvol /\ Raise(c)
  BY <1>1, <1>5, RaiseStep
<1>8. CASE /\ zvol' = zvol /\ VerifyClone(c, p) /\ zvol[p].clean # "none"
           /\ Advance(c, v, "switching", ClientVolumes[c])
  <2>1. OthersUndisturbed(c)
    BY <1>1, <1>8, AdvanceCases DEF OthersUndisturbed, Undisturbed, Inv
  <2>2. Agree(c)'
    BY <1>1, AgreeKept DEF Withdrawing, Inv, SafeInv
  <2>3. Cloned(c, v)
    BY <1>2, <1>8 DEF Cloned, VerifyClone
  <2>4. Progress(c)'
    BY <1>1, <1>4, <1>8, <2>3, AdvanceCases
       DEF Progress, Cloned, Mine, Off, Chosen, Inv
  <2> QED
    BY <1>1, <1>8, <2>1, <2>2, <2>4, ControlStep
<1>6. CASE /\ zvol[p].owner = Nobody
           /\ zvol' = [zvol EXCEPT ![p] = [owner |-> c, data |-> "pristine", clean |-> "none"]]
           /\ UNCHANGED <<step, todo>> \/ Raise(c)
  <2> HIDE DEF p
  <2>1. OnlyAt(p) /\ zvol'[p].owner = c /\ zvol'[p].data = "pristine" /\ zvol'[p].clean = "none"
    BY <1>2, <1>3, <1>6 DEF OnlyAt
  <2>2. \A d \in Clients : ClonesKept(d)
    BY <1>2, <1>6, <2>1, ClonesKeptElsewhere, ConfigAssumption
  <2>3. CleanInv'
    BY <1>2, <2>1 DEF CleanInv, OnlyAt, Inv, SafeInv
  <2>4. AttachedIsOwn'
    BY <1>1, <1>2, <1>6, <2>1, ExtentShape, ConfigAssumption
       DEF AttachedIsOwn, OnlyAt, Inv, SafeInv, TypeInv, TypeOK
  <2>5. ASSUME NEW d \in Clients, step'[d] = step[d], todo'[d] = todo[d]
        PROVE  Progress(d)' /\ Agree(d)'
    BY <1>1, <2>2, <2>5, ProgressKept DEF Undisturbed, Inv, SafeInv
  <2>6. Raise(c) => Progress(c)' /\ Agree(c)'
    BY <1>1, AgreeKept, Unchosen
       DEF Raise, GoTo, Chosen, Withdrawing, Inv, SafeInv, TypeInv, TypeOK
  <2>7. \A d \in Clients : Progress(d)' /\ Agree(d)'
    BY <1>6, <2>5, <2>6 DEF Raise, GoTo, Inv, TypeInv, TypeOK
  <2> QED
    BY <2>3, <2>4, <2>7 DEF SafeInv
<1>7. CASE /\ VerifyClone(c, p) /\ zvol[p].clean = "none"
           /\ zvol' = [zvol EXCEPT ![p].clean = zvol[p].data]
           /\ Advance(c, v, "switching", ClientVolumes[c]) \/ Raise(c)
  <2> HIDE DEF p
  <2>1. zvol[p].data = "pristine" /\ zvol[p].owner = c
    BY <1>2, <1>7 DEF CleanInv, Inv, SafeInv, VerifyClone
  <2>2. OnlyAt(p) /\ zvol'[p].owner = c /\ zvol'[p].data = "pristine"
        /\ zvol'[p].clean = "pristine"
    BY <1>2, <1>3, <1>7, <2>1 DEF OnlyAt, Zvols
  <2>3. \A d \in Clients : ClonesKept(d)
    BY <1>2, <2>1, <2>2 DEF ClonesKept, OnlyAt
  <2>4. CleanInv'
    BY <1>2, <2>2 DEF CleanInv, OnlyAt, Inv, SafeInv
  <2>5. AttachedIsOwn'
    BY <1>1, <1>2, <1>7, <2>1, <2>2, ExtentShape
       DEF AttachedIsOwn, OnlyAt, Inv, SafeInv, TypeInv, TypeOK
  <2>6. ASSUME NEW d \in Clients, d # c
        PROVE  Progress(d)' /\ Agree(d)'
    <3>1. step'[d] = step[d] /\ todo'[d] = todo[d]
      BY <1>7, <2>6, AdvanceCases DEF Raise, GoTo, Inv, TypeInv, TypeOK
    <3> QED
      BY <1>1, <2>3, <3>1, ProgressKept DEF Undisturbed, Inv, SafeInv
  <2>7. Agree(c)'
    BY <1>1, AgreeKept DEF Withdrawing, Inv, SafeInv
  <2>8. Progress(c)'
    <3>1. CASE Raise(c)
      BY <3>1, Unchosen DEF Raise, GoTo, Chosen, Inv, TypeInv, TypeOK
    <3>2. CASE Advance(c, v, "switching", ClientVolumes[c])
      <4>1. \A w \in ClientVolumes[c] \ todo[c] : Cloned(c, w)'
        BY <1>1, <1>4, <2>3, MinePath DEF Cloned, ClonesKept, Mine, Inv, Chosen
      <4>2. \A w \in ClientVolumes[c] : w = v => Cloned(c, w)'
        BY <1>1, <1>2, <2>2 DEF Cloned, Mine
      <4>3. Off(c)'
        BY <1>1, <1>4 DEF Off
      <4>4. CASE step'[c] = "switching" /\ todo'[c] = ClientVolumes[c] /\ todo[c] = {v}
        BY <4>1, <4>2, <4>3, <4>4 DEF Progress, Chosen
      <4>5. CASE step'[c] = "cloning" /\ todo'[c] = todo[c] \ {v}
        BY <4>1, <4>2, <4>3, <4>5 DEF Progress, Chosen
      <4> QED
        BY <1>1, <3>2, <4>4, <4>5, AdvanceCases DEF Inv
    <3> QED
      BY <1>7, <3>1, <3>2
  <2> QED
    BY <2>4, <2>5, <2>6, <2>7, <2>8 DEF SafeInv
<1> QED
  BY <1>5, <1>6, <1>7, <1>8 DEF EnsureReleaseClone

LEMMA SwitchDiskStep ==
    ASSUME Inv, NEW c \in Clients, SwitchDisk(c)
    PROVE  SafeInv'
<1> DEFINE v == Current(c)
           p == ClonePath(c, v, release[c])
<1>1. /\ step[c] = "switching" /\ zvol' = zvol /\ release' = release
      /\ v \in todo[c] /\ v \in ClientVolumes[c] /\ <<c, v>> \in Extents
  BY CurrentInTodo, ExtentsOfClient DEF SwitchDisk, Inv, TypeInv, LoopInv, Looping
<1>2. p \in Paths /\ p = Mine(c, v) /\ p[2] = v
  BY <1>1, MinePath DEF Mine, Inv, Chosen
<1>3. /\ Off(c) /\ \A w \in ClientVolumes[c] : Cloned(c, w)
      /\ \A w \in ClientVolumes[c] \ todo[c] : disk[<<c, w>>] = Mine(c, w)
  BY <1>1 DEF Inv, SafeInv, Progress, Chosen
<1>4. CASE Raise(c) /\ UNCHANGED <<disk, enabled>>
  BY <1>1, <1>4, RaiseStep
<1>5. CASE /\ disk' = [disk EXCEPT ![<<c, v>>] = p] /\ enabled' = enabled \ {<<c, v>>}
           /\ Advance(c, v, "rollback", ClientVolumes[c]) \/ Raise(c)
  <2>1. /\ disk'[<<c, v>>] = p
        /\ \A e \in Extents : e # <<c, v>> => disk'[e] = disk[e]
    BY <1>1, <1>5 DEF Inv, TypeInv, TypeOK
  <2> HIDE DEF p
  <2>2. CleanInv'
    BY <1>1 DEF CleanInv, Inv, SafeInv
  <2>3. AttachedIsOwn'
    BY <1>1, <1>2, <1>3, <2>1, ExtentShape DEF AttachedIsOwn, Cloned, Inv, SafeInv
  <2>4. ASSUME NEW d \in Clients, d # c
        PROVE  Progress(d)' /\ Agree(d)'
    <3>1. step'[d] = step[d] /\ todo'[d] = todo[d]
      BY <1>5, <2>4, AdvanceCases DEF Raise, GoTo, Inv, TypeInv, TypeOK
    <3>2. Undisturbed(d)
      BY <1>1, <1>5, <2>1, <2>4, <3>1, ExtentsOfClient DEF Undisturbed
    <3>3. ClonesKept(d)
      BY <1>1 DEF ClonesKept
    <3> QED
      BY <3>2, <3>3, ProgressKept DEF Inv, SafeInv
  <2>5. Off(c)'
    BY <1>3, <1>5 DEF Off
  <2>6. Progress(c)'
    <3>1. CASE Raise(c)
      BY <3>1, Unchosen DEF Raise, GoTo, Chosen, Inv, TypeInv, TypeOK
    <3>2. CASE Advance(c, v, "rollback", ClientVolumes[c])
      <4>1. \A w \in ClientVolumes[c] : Cloned(c, w)'
        BY <1>1, <1>3 DEF Cloned, Mine
      <4>2. \A w \in ClientVolumes[c] \ (todo[c] \ {v}) : disk'[<<c, w>>] = Mine(c, w)'
        BY <1>1, <1>2, <1>3, <2>1, ExtentsOfClient DEF Mine
      <4>3. CASE step'[c] = "rollback" /\ todo'[c] = ClientVolumes[c] /\ todo[c] = {v}
        BY <2>5, <4>1, <4>2, <4>3 DEF Progress, Chosen
      <4>4. CASE step'[c] = "switching" /\ todo'[c] = todo[c] \ {v}
        BY <2>5, <4>1, <4>2, <4>4 DEF Progress, Chosen
      <4> QED
        BY <1>1, <3>2, <4>3, <4>4, AdvanceCases DEF Inv
    <3> QED
      BY <1>5, <3>1, <3>2
  <2> QED
    BY <2>2, <2>3, <2>4, <2>5, <2>6 DEF SafeInv, Agree
<1> QED
  BY <1>4, <1>5 DEF SwitchDisk

(* Changing the content of one dataset touches neither owner nor @clean.   *)
LEMMA DataStepAttached ==
    ASSUME Inv, NEW p \in Paths, NEW d \in {"pristine", "dirty"},
           zvol' = WithData(zvol, p, d), disk' = disk
    PROVE  AttachedIsOwn'
  <1>1. \A q \in Paths : zvol'[q].owner = zvol[q].owner /\ zvol'[q].clean = zvol[q].clean
    BY DataUpdate DEF Inv, TypeInv, TypeOK
  <1> QED
    BY <1>1 DEF AttachedIsOwn, Inv, SafeInv, TypeInv, TypeOK

LEMMA RollbackStep ==
    ASSUME Inv, NEW c \in Clients, Rollback(c)
    PROVE  SafeInv'
<1> DEFINE v == Current(c)
           p == ClonePath(c, v, release[c])
<1>1. /\ step[c] = "rollback" /\ disk' = disk /\ enabled' = enabled /\ release' = release
      /\ v \in todo[c] /\ v \in ClientVolumes[c]
  BY CurrentInTodo DEF Rollback, Inv, TypeInv, LoopInv, Looping
<1>2. p \in Paths /\ p = Mine(c, v)
  BY <1>1, MinePath DEF Mine, Inv, Chosen
<1>3. CASE Raise(c) /\ zvol' = zvol
  BY <1>1, <1>3, RaiseStep
<1>4. CASE /\ zvol[p].clean # "none" /\ zvol' = WithData(zvol, p, zvol[p].clean)
           /\ Advance(c, v, "enabling", ClientVolumes[c]) \/ Raise(c)
  <2> HIDE DEF p
  <2>1. zvol \in [Paths -> Zvols]
    BY DEF Inv, TypeInv, TypeOK
  <2>2. zvol[p].clean = "pristine"
    BY <1>2, <1>4, <2>1 DEF Zvols, CleanInv, Inv, SafeInv
  <2>3. /\ zvol' = WithData(zvol, p, "pristine") /\ zvol'[p].data = "pristine"
        /\ \A q \in Paths : /\ zvol'[q].owner = zvol[q].owner
                            /\ zvol'[q].clean = zvol[q].clean
                            /\ q # p => zvol'[q] = zvol[q]
    BY <1>2, <1>4, <2>1, <2>2, DataUpdate
  <2>4. CleanInv'
    BY <1>2, <2>3 DEF CleanInv, Inv, SafeInv
  <2>5. AttachedIsOwn'
    BY <1>1, <1>2, <2>3, DataStepAttached
  <2>6. \A d \in Clients : ClonesKept(d)
    BY <2>3 DEF ClonesKept
  <2>7. ASSUME NEW d \in Clients, d # c
        PROVE  Progress(d)' /\ Agree(d)'
    <3>1. step'[d] = step[d] /\ todo'[d] = todo[d]
      BY <1>4, <2>7, AdvanceCases DEF Raise, GoTo, Inv, TypeInv, TypeOK
    <3> QED
      BY <1>1, <2>6, <3>1, ProgressKept DEF Undisturbed, Inv, SafeInv
  <2>8. Off(c) /\ Off(c)'
    BY <1>1 DEF Inv, SafeInv, Progress, Off
  <2>9. Progress(c)'
    <3>1. CASE Raise(c)
      BY <3>1, Unchosen DEF Raise, GoTo, Chosen, Inv, TypeInv, TypeOK
    <3>2. CASE Advance(c, v, "enabling", ClientVolumes[c])
      <4>1. \A w \in ClientVolumes[c] : Cloned(c, w) /\ disk[<<c, w>>] = Mine(c, w)
        BY <1>1 DEF Inv, SafeInv, Progress, Chosen
      <4>2. \A w \in ClientVolumes[c] : Cloned(c, w)' /\ disk'[<<c, w>>] = Mine(c, w)'
        BY <1>1, <2>3, <4>1, MinePath DEF Cloned, Mine, Inv, Chosen
      <4>3. \A w \in ClientVolumes[c] \ todo[c] : zvol[Mine(c, w)].data = "pristine"
        BY <1>1 DEF Inv, SafeInv, Progress
      <4>4. \A w \in ClientVolumes[c] \ (todo[c] \ {v}) : zvol'[Mine(c, w)].data = "pristine"
        BY <1>1, <1>2, <2>3, <4>3, MinePath DEF Inv, Chosen
      <4>5. \A w \in ClientVolumes[c] : Mine(c, w)' = Mine(c, w)
        BY <1>1 DEF Mine
      <4>6. CASE step'[c] = "enabling" /\ todo'[c] = ClientVolumes[c] /\ todo[c] = {v}
        BY <2>8, <4>2, <4>4, <4>5, <4>6 DEF Progress, Chosen, Off
      <4>7. CASE step'[c] = "rollback" /\ todo'[c] = todo[c] \ {v}
        BY <2>8, <4>2, <4>4, <4>5, <4>7 DEF Progress, Chosen
      <4> QED
        BY <1>1, <3>2, <4>6, <4>7, AdvanceCases DEF Inv
    <3> QED
      BY <1>4, <3>1, <3>2
  <2> QED
    BY <2>4, <2>5, <2>7, <2>8, <2>9 DEF SafeInv, Agree
<1> QED
  BY <1>3, <1>4 DEF Rollback, WithData

(* A write goes to a visible clone: its client is not rolling back, and is *)
(* not about to enable the extent it writes through.                       *)
LEMMA WriteStep ==
    ASSUME Inv, NEW e \in Extents, Write(e)
    PROVE  SafeInv'
<1> DEFINE p == disk[e]
<1>1. /\ p \in Paths /\ zvol' = WithData(zvol, p, "dirty") /\ e \in enabled
      /\ disk' = disk /\ enabled' = enabled
      /\ step' = step /\ todo' = todo /\ release' = release
  BY DEF Write, Accessible, WithData, control
<1>2. zvol[p].owner = e[1] /\ zvol[p].clean # "none"
  BY <1>1, ConfigAssumption DEF Inv, SafeInv, AttachedIsOwn
<1>3. e[1] \in Clients /\ e[2] \in ClientVolumes[e[1]] /\ e = <<e[1], e[2]>>
  BY ExtentShape
<1> HIDE DEF p
<1>4. \A q \in Paths : /\ zvol'[q].owner = zvol[q].owner
                       /\ zvol'[q].clean = zvol[q].clean
                       /\ q # p => zvol'[q] = zvol[q]
  BY <1>1, DataUpdate DEF Inv, TypeInv, TypeOK
<1>5. CleanInv'
  BY <1>2, <1>4 DEF CleanInv, Inv, SafeInv
<1>6. AttachedIsOwn'
  BY <1>1, DataStepAttached
<1>7. ASSUME NEW d \in Clients, d # e[1]
      PROVE  Progress(d)' /\ Agree(d)'
  <2>1. ClonesKept(d)
    BY <1>1, <1>2, <1>4, <1>7 DEF ClonesKept
  <2> QED
    BY <1>1, <2>1, ProgressKept DEF Undisturbed, Inv, SafeInv
<1>8. ASSUME NEW d \in Clients, d = e[1]
      PROVE  Progress(d)' /\ Agree(d)'
  <2>1. step[d] \notin {"cloning", "switching", "rollback"}
    BY <1>1, <1>3, <1>8 DEF Inv, SafeInv, Progress, Off
  <2>2. \A w \in ClientVolumes[d] : Mine(d, w)' = Mine(d, w)
    BY <1>1 DEF Mine
  <2>3. step[d] \in Chosen => \A w \in ClientVolumes[d] : Cloned(d, w)' /\ disk[<<d, w>>] = Mine(d, w)
    BY <1>4, <2>1, <2>2, MinePath DEF Inv, SafeInv, Progress, Cloned, Chosen
  <2>4. ASSUME step[d] = "enabling", NEW w \in todo[d]
        PROVE  zvol'[Mine(d, w)].data = "pristine" /\ <<d, w>> \notin enabled
    <3>1. w \in ClientVolumes[d] /\ zvol[Mine(d, w)].data = "pristine" /\ <<d, w>> \notin enabled
      BY <2>4 DEF Inv, TypeInv, LoopInv, SafeInv, Progress
    <3>2. w # e[2] /\ disk[e] = Mine(d, e[2])
      BY <1>1, <1>3, <1>8, <2>3, <2>4, <3>1 DEF Chosen
    <3>3. p # Mine(d, w) /\ Mine(d, w) \in Paths
      BY <1>3, <1>8, <2>4, <3>1, <3>2, MinePath DEF Inv, Chosen, p
    <3> QED
      BY <1>4, <3>1, <3>3
  <2>5. Progress(d)'
    <3>1. step[d] \in {"answering", "ready"} => \A w \in ClientVolumes[d] : <<d, w>> \in enabled
      BY DEF Inv, SafeInv, Progress
    <3>2. todo[d] \subseteq ClientVolumes[d]
      BY DEF Inv, TypeInv, LoopInv
    <3> QED
      BY <1>1, <2>1, <2>2, <2>3, <2>4, <3>1, <3>2 DEF Progress, Chosen
  <2>6. Agree(d)'
    BY <1>1, AgreeKept DEF Withdrawing, Inv, SafeInv
  <2> QED
    BY <2>5, <2>6
<1> QED
  BY <1>5, <1>6, <1>7, <1>8 DEF SafeInv

(* Logins, logouts, activations and stuttering leave storage and prepares  *)
(* as they are.                                                            *)
LEMMA OutsideStep ==
    ASSUME Inv, UNCHANGED <<zvol, enabled, disk, step, todo, release>>
    PROVE  SafeInv'
  <1>1. \A d \in Clients : Undisturbed(d) /\ ClonesKept(d)
    BY DEF Undisturbed, ClonesKept
  <1>2. CleanInv' /\ AttachedIsOwn'
    BY StorageKept DEF Inv, SafeInv
  <1> QED
    BY <1>1, <1>2, ProgressKept DEF Inv, SafeInv

LEMMA RestartStep ==
    ASSUME Inv, Restart
    PROVE  SafeInv'
  <1>1. zvol' = zvol /\ disk' = disk /\ enabled' = enabled /\ release' = release
    BY DEF Restart, storage
  <1>2. CleanInv' /\ AttachedIsOwn'
    BY <1>1, StorageKept DEF Inv, SafeInv
  <1>3. ASSUME NEW d \in Clients PROVE Progress(d)' /\ Agree(d)'
    <2>1. Agree(d)'
      BY <1>1, AgreeKept DEF Withdrawing, Inv, SafeInv
    <2>2. CASE step'[d] \notin Chosen
      BY <2>1, <2>2, Unchosen
    <2>3. CASE step'[d] \in Chosen
      <3>1. step[d] = "ready" /\ step'[d] = "ready"
        BY <2>3 DEF Restart, Resting, Chosen
      <3> QED
        BY <1>1, <2>1, <3>1 DEF Inv, SafeInv, Progress, Cloned, Mine, Chosen
    <2> QED
      BY <2>2, <2>3
  <1> QED
    BY <1>2, <1>3 DEF SafeInv

LEMMA InitInv == Init => Inv
<1> SUFFICES ASSUME Init PROVE Inv
  OBVIOUS
<1>1. TypeInv
  BY InitTypeInv
<1>2. ReleaseInv /\ \A c \in Clients : Progress(c)
  BY DEF Init, ReleaseInv, Progress, Chosen
<1>3. CleanInv
  BY ConfigAssumption DEF Init, CleanInv, Absent, NotOurs
<1>4. AttachedIsOwn
  BY DEF Init, AttachedIsOwn
<1>5. \A c \in Clients : Agree(c)
  BY ExtentsOfClient DEF Init, Agree, ReleaseAt
<1> QED
  BY <1>1, <1>2, <1>3, <1>4, <1>5 DEF Inv, SafeInv

LEMMA InvStep == Inv /\ [Next]_vars => Inv'
<1> SUFFICES ASSUME Inv, [Next]_vars PROVE Inv'
  OBVIOUS
<1>1. TypeInv' /\ ReleaseInv'
  BY TypeStep, ReleaseStep DEF Inv
<1>2. ASSUME NEW c \in Clients, Prepare(c) PROVE SafeInv'
  BY <1>2, PrepareStep
<1>3. ASSUME NEW c \in Clients, Proceed(c) PROVE SafeInv'
  <2>1. CASE CloseFirst(c) \/ Close(c)
    BY <2>1, BestEffortStep DEF CloseFirst, Close
  <2> QED
    BY <1>3, <2>1, DisableStep, VerifyOffStep, EnsureStep, SwitchDiskStep, RollbackStep,
       EnableStep, VerifyOnStep, AnswerStep DEF Proceed
<1>4. ASSUME NEW c \in Clients, Login(c) \/ Logout(c) PROVE SafeInv'
  BY <1>4, OutsideStep DEF Login, Logout, storage, control
<1>5. ASSUME NEW e \in Extents, Write(e) PROVE SafeInv'
  BY <1>5, WriteStep
<1>6. ASSUME NEW r \in Releases, Activate(r) PROVE SafeInv'
  BY <1>6, OutsideStep DEF Activate, storage, control
<1>7. ASSUME Restart PROVE SafeInv'
  BY <1>7, RestartStep
<1>8. ASSUME UNCHANGED vars PROVE SafeInv'
  BY <1>8, OutsideStep DEF vars
<1>9. SafeInv'
  BY <1>2, <1>3, <1>4, <1>5, <1>6, <1>7, <1>8 DEF Next
<1> QED
  BY <1>1, <1>9 DEF Inv

(* The inductive invariant: what a prepare has established at each of its  *)
(* steps, and that nothing else undoes it.                                 *)
THEOREM Safety == Spec => []Inv
  BY InitInv, InvStep, PTL DEF Spec
-----------------------------------------------------------------------------
(* A @clean snapshot holds exactly the release, however often prepares     *)
(* fail or the service is restarted.                                       *)
THEOREM CleanStaysPristine == Spec => []CleanSnapshotsPristine
<1>1. Inv => CleanSnapshotsPristine
  BY DEF Inv, SafeInv, CleanInv, CleanSnapshotsPristine
<1> QED
  BY <1>1, Safety, PTL

(* An extent that has been reset exposes its own client's clone of its own *)
(* volume, also where clients share clone parents.                         *)
THEOREM Isolation == Spec => []AttachedIsOwn
<1>1. Inv => AttachedIsOwn
  BY DEF Inv, SafeInv
<1> QED
  BY <1>1, Safety, PTL

(* What a PC sees of its volumes is at one release.                        *)
THEOREM OneRelease == Spec => []VisibleVolumesAgree
<1>1. Inv => VisibleVolumesAgree
  BY DEF Inv, SafeInv, Agree, VisibleVolumesAgree
<1> QED
  BY <1>1, Safety, PTL

(* The answer ready is given, and stays true, for the complete volume set. *)
THEOREM ReadyComplete == Spec => []ReadyIsComplete
<1>1. Inv => ReadyIsComplete
  <2> SUFFICES ASSUME Inv, NEW c \in Clients, step[c] = "ready"
               PROVE  /\ release[c] # NoRelease
                      /\ \A v \in ClientVolumes[c] :
                            <<c, v>> \in enabled /\ ReleaseAt(<<c, v>>) = release[c]
    BY DEF ReadyIsComplete
  <2>1. release[c] # NoRelease
    BY ConfigAssumption DEF Inv, ReleaseInv, Chosen
  <2>2. \A v \in ClientVolumes[c] : <<c, v>> \in enabled /\ disk[<<c, v>>] = Mine(c, v)
    BY DEF Inv, SafeInv, Progress, Chosen
  <2> QED
    BY <2>1, <2>2, MinePath, ConfigAssumption DEF ReleaseAt, Inv, Chosen
<1> QED
  BY <1>1, Safety, PTL
-----------------------------------------------------------------------------
(* Three steps of a prepare change datasets or paths; each is taken with   *)
(* all the client's extents off and at this client's own path.             *)
LEMMA EnsureChange ==
    ASSUME Inv, NEW c \in Clients, EnsureReleaseClone(c)
    PROVE  StorageChange
<1> DEFINE v == Current(c)
           p == ClonePath(c, v, release[c])
<1>1. step[c] = "cloning" /\ disk' = disk /\ v \in ClientVolumes[c]
  BY CurrentInTodo DEF EnsureReleaseClone, Inv, TypeInv, LoopInv, Looping
<1>2. p \in Paths
  BY <1>1, MinePath DEF Mine, Inv, Chosen
<1>3. zvol \in [Paths -> Zvols]
  BY DEF Inv, TypeInv, TypeOK
<1>4. Off(c)
  BY <1>1 DEF Inv, SafeInv, Progress
<1>5. \/ zvol' = zvol
      \/ zvol' = [zvol EXCEPT ![p] = [owner |-> c, data |-> "pristine", clean |-> "none"]]
      \/ zvol[p].owner = c /\ zvol' = [zvol EXCEPT ![p].clean = zvol[p].data]
  BY DEF EnsureReleaseClone, VerifyClone
<1> HIDE DEF p
<1>6. \A q \in Paths : zvol'[q] # zvol[q] => zvol'[q].owner = c
  BY <1>2, <1>3, <1>5 DEF Zvols
<1> QED
  BY <1>1, <1>4, <1>6 DEF StorageChange

LEMMA SwitchDiskChange ==
    ASSUME Inv, NEW c \in Clients, SwitchDisk(c)
    PROVE  StorageChange
<1> DEFINE v == Current(c)
<1>1. step[c] = "switching" /\ zvol' = zvol
  BY DEF SwitchDisk
<1>2. Off(c)
  BY <1>1 DEF Inv, SafeInv, Progress
<1>3. \A e \in Extents : e # <<c, v>> => disk'[e] = disk[e]
  BY DEF SwitchDisk, Inv, TypeInv, TypeOK
<1> QED
  BY <1>1, <1>2, <1>3 DEF StorageChange

LEMMA RollbackChange ==
    ASSUME Inv, NEW c \in Clients, Rollback(c)
    PROVE  StorageChange
<1> DEFINE v == Current(c)
           p == ClonePath(c, v, release[c])
<1>1. step[c] = "rollback" /\ disk' = disk /\ v \in ClientVolumes[c]
  BY CurrentInTodo DEF Rollback, Inv, TypeInv, LoopInv, Looping
<1>2. p \in Paths /\ p = Mine(c, v)
  BY <1>1, MinePath DEF Mine, Inv, Chosen
<1>3. Off(c) /\ zvol[p].owner = c
  BY <1>1, <1>2 DEF Inv, SafeInv, Progress, Cloned, Chosen
<1>4. \A q \in Paths : zvol'[q] # zvol[q] => zvol'[q].owner = c
  <2>1. \/ zvol' = zvol
        \/ zvol[p].clean # "none" /\ zvol' = WithData(zvol, p, zvol[p].clean)
    BY DEF Rollback, WithData
  <2>2. zvol \in [Paths -> Zvols] /\ (zvol[p].clean # "none" => zvol[p].clean \in {"pristine", "dirty"})
    BY <1>2 DEF Inv, TypeInv, TypeOK, Zvols
  <2> HIDE DEF p
  <2>3. \A q \in Paths : zvol'[q].owner = zvol[q].owner /\ (q # p => zvol'[q] = zvol[q])
    BY <1>2, <2>1, <2>2, DataUpdate
  <2> QED
    BY <1>2, <1>3, <2>3
<1> QED
  BY <1>1, <1>3, <1>4 DEF StorageChange

LEMMA WriteChange ==
    ASSUME Inv, NEW e \in Extents, Write(e)
    PROVE  StorageChange
<1>1. disk[e] \in Paths /\ Accessible(e) /\ disk' = disk
      /\ zvol' = [zvol EXCEPT ![disk[e]].data = "dirty"]
  BY DEF Write
<1>2. zvol[disk[e]].owner = e[1]
  BY <1>1, ConfigAssumption DEF Inv, SafeInv, AttachedIsOwn
<1>3. \A q \in Paths : q # disk[e] => zvol'[q] = zvol[q]
  BY <1>1 DEF Inv, TypeInv, TypeOK
<1> QED
  BY <1>1, <1>2, <1>3 DEF StorageChange

(* Snapshots, clones and paths change only while the client's extents are  *)
(* all off; otherwise only a client writes, to its own clone.              *)
THEOREM OnlyWhenOff == Spec => ChangesOnlyWhenOff
<1>1. Inv /\ [Next]_vars => [StorageChange]_vars
  <2> SUFFICES ASSUME Inv, [Next]_vars PROVE StorageChange \/ UNCHANGED vars
    OBVIOUS
  <2>1. ASSUME zvol' = zvol, disk' = disk PROVE StorageChange
    BY <2>1 DEF StorageChange
  <2>2. ASSUME NEW c \in Clients, Prepare(c) \/ Login(c) \/ Logout(c) PROVE StorageChange
    BY <2>1, <2>2 DEF Prepare, Login, Logout, storage
  <2>3. ASSUME NEW c \in Clients, Proceed(c) PROVE StorageChange
    <3>1. CASE EnsureReleaseClone(c) \/ SwitchDisk(c) \/ Rollback(c)
      BY <3>1, EnsureChange, SwitchDiskChange, RollbackChange
    <3>2. CASE \/ Disable(c) \/ VerifyOff(c) \/ Enable(c) \/ VerifyOn(c)
               \/ Answer(c) \/ CloseFirst(c) \/ Close(c)
      BY <2>1, <3>2 DEF Disable, Enable, SetEnabled, VerifyOff, VerifyOn, Answer,
         CloseFirst, Close, BestEffortDisable, storage
    <3> QED
      BY <2>3, <3>1, <3>2 DEF Proceed
  <2>4. ASSUME NEW e \in Extents, Write(e) PROVE StorageChange
    BY <2>4, WriteChange
  <2>5. ASSUME NEW r \in Releases, Activate(r) PROVE StorageChange
    BY <2>1, <2>5 DEF Activate, storage
  <2>6. ASSUME Restart PROVE StorageChange
    BY <2>1, <2>6 DEF Restart, storage
  <2> QED
    BY <2>2, <2>3, <2>4, <2>5, <2>6 DEF Next
<1> QED
  BY <1>1, Safety, PTL DEF Spec, ChangesOnlyWhenOff

(* Whatever becomes visible is the client's own clone, exactly as          *)
(* released.                                                               *)
THEOREM FreshWhenExposed == Spec => ExposedFresh
<1>1. Inv /\ [Next]_vars => [ExposeFresh]_vars
  <2> SUFFICES ASSUME Inv, [Next]_vars PROVE ExposeFresh \/ UNCHANGED vars
    OBVIOUS
  <2>1. ASSUME \A e \in enabled' : e \in enabled PROVE ExposeFresh
    BY <2>1 DEF ExposeFresh
  <2>2. ASSUME NEW c \in Clients, Enable(c) PROVE ExposeFresh
    <3> DEFINE v == Current(c)
    <3>1. /\ step[c] = "enabling" /\ v \in todo[c] /\ v \in ClientVolumes[c]
          /\ \A e \in enabled' : e \in enabled \/ e = <<c, v>>
      BY <2>2, CurrentInTodo DEF Enable, SetEnabled, Inv, TypeInv, LoopInv, Looping
    <3>2. zvol[Mine(c, v)].data = "pristine" /\ Cloned(c, v) /\ disk[<<c, v>>] = Mine(c, v)
      BY <3>1 DEF Inv, SafeInv, Progress, Chosen
    <3>3. Mine(c, v) \in Paths
      BY <3>1, MinePath DEF Inv, Chosen
    <3> QED
      BY <3>1, <3>2, <3>3 DEF ExposeFresh, Cloned
  <2>3. ASSUME NEW c \in Clients, Proceed(c), ~Enable(c) PROVE ExposeFresh
    <3>1. \A e \in enabled' : e \in enabled
      BY <2>3 DEF Proceed, Disable, SetEnabled, VerifyOff, EnsureReleaseClone, SwitchDisk,
         Rollback, VerifyOn, Answer, CloseFirst, Close, BestEffortDisable, storage
    <3> QED
      BY <2>1, <3>1
  <2>4. ASSUME NEW c \in Clients, Prepare(c) \/ Login(c) \/ Logout(c) PROVE ExposeFresh
    BY <2>1, <2>4 DEF Prepare, Login, Logout, storage
  <2>5. ASSUME NEW e \in Extents, Write(e) PROVE ExposeFresh
    BY <2>1, <2>5 DEF Write
  <2>6. ASSUME NEW r \in Releases, Activate(r) PROVE ExposeFresh
    BY <2>1, <2>6 DEF Activate, storage
  <2>7. ASSUME Restart PROVE ExposeFresh
    BY <2>1, <2>7 DEF Restart, storage
  <2> QED
    BY <2>2, <2>3, <2>4, <2>5, <2>6, <2>7 DEF Next
<1> QED
  BY <1>1, Safety, PTL DEF Spec, ExposedFresh
-----------------------------------------------------------------------------
(* The dashboard never shows a release as unused that an extent exposes or *)
(* a prepare is about to expose, whatever happens between two of its reads.*)

(* Whatever of c is enabled is at the release its prepare has read.        *)
Linked(c) ==
    \A v \in ClientVolumes[c] : <<c, v>> \in enabled => ReleaseAt(<<c, v>>) = release[c]

(* A prepare has no release until it reads the active one; from then on,   *)
(* also when it gives up, what it leaves enabled is at that release.  An   *)
(* enabled extent thus tells the dashboard what its prepare will switch    *)
(* the others to.                                                          *)
Link(c) ==
    /\ step[c] \in {"disabling", "verifyOff"} => release[c] = NoRelease
    /\ step[c] \notin Resting => release[c] = NoRelease \/ Linked(c)

LinkInv == \A c \in Clients : Link(c)

(* The releases that were active at some moment of the current scan.       *)
Recent == {seen} \cup since

(* As long as the dashboard finds every client updated, the extents it has *)
(* looked at, and the prepares that could switch them, are at releases     *)
(* that were active during the scan.                                       *)
ScanInv ==
    /\ active \in Recent
    /\ updated =>
          /\ seen \in Releases
          /\ \A e \in Extents \ unread :
                /\ ReleaseAt(e) \in Recent
                /\ step[e[1]] \notin Resting => release[e[1]] \in Recent \cup {NoRelease}
    /\ unused # {} => unread = {} /\ updated /\ seen \notin unused

InspectorInv == Inv /\ LinkInv /\ InspectorTypeOK /\ ScanInv
-----------------------------------------------------------------------------
(* What one step does to the extents and release of a client that the      *)
(* dashboard may already have looked at.                                   *)
Effect(c) ==
    /\ \A v \in ClientVolumes[c] :
          \/ ReleaseAt(<<c, v>>)' = ReleaseAt(<<c, v>>)
          \/ /\ step[c] \notin Resting /\ release[c] \in Releases
             /\ ReleaseAt(<<c, v>>)' = release[c]
    /\ step'[c] \notin Resting =>
          \/ release'[c] \in {NoRelease, active}
          \/ step[c] \notin Resting /\ release'[c] = release[c]

LEMMA ChosenLinked ==
    ASSUME Inv, NEW c \in Clients, step[c] \in Chosen
    PROVE  Linked(c)
<1>1. CASE step[c] \in {"cloning", "switching"}
  BY <1>1 DEF Linked, Off, Inv, SafeInv, Progress
<1>2. CASE step[c] \in Chosen \ {"cloning", "switching"}
  <2>1. \A v \in ClientVolumes[c] : disk[<<c, v>>] = Mine(c, v)
    BY <1>2 DEF Inv, SafeInv, Progress
  <2> QED
    BY <1>2, <2>1, MinePath, ConfigAssumption DEF Linked, ReleaseAt, Inv
<1> QED
  BY <1>1, <1>2

LEMMA LinkOfProgress ==
    ASSUME Inv, NEW c \in Clients, Link(c), step[c] \notin Resting
    PROVE  release[c] = NoRelease \/ Linked(c)
  BY DEF Link

(* A step of a prepare that leaves paths and the release as they are and   *)
(* makes nothing visible.                                                  *)
LEMMA LinkKept ==
    ASSUME NEW c \in Clients, Link(c), Withdrawing(c), release'[c] = release[c],
           step'[c] \notin Resting => step[c] \notin Resting,
           step'[c] \in {"disabling", "verifyOff"} => step[c] \in {"disabling", "verifyOff"}
    PROVE  Link(c)' /\ Effect(c)
  BY DEF Link, Linked, Withdrawing, ReleaseAt, Effect

(* The same for a step that leaves the control of the client alone.        *)
LEMMA LinkUndisturbed ==
    ASSUME NEW d \in Clients, Link(d), Undisturbed(d)
    PROVE  Link(d)' /\ Effect(d)
<1>1. Withdrawing(d)
  BY DEF Undisturbed, Withdrawing
<1> QED
  BY <1>1, LinkKept DEF Undisturbed
-----------------------------------------------------------------------------
(* The steps of a prepare, and what they leave of the other clients.       *)

LEMMA RaiseControl ==
    ASSUME Inv, NEW c \in Clients, Raise(c)
    PROVE  step'[c] = "closing" /\ \A d \in Clients \ {c} : step'[d] = step[d]
  BY DEF Raise, GoTo, Inv, TypeInv, TypeOK

LEMMA PrepareLink ==
    ASSUME Inv, NEW c \in Clients, Prepare(c)
    PROVE  Link(c)' /\ Effect(c)
<1>1. release'[c] = NoRelease /\ disk' = disk
  BY DEF Prepare, storage, Inv, TypeInv, TypeOK
<1> QED
  BY <1>1 DEF Link, Effect, ReleaseAt

LEMMA VerifyOffLink ==
    ASSUME Inv, NEW c \in Clients, Link(c), VerifyOff(c)
    PROVE  Link(c)' /\ Effect(c)
<1>1. disk' = disk /\ enabled' = enabled /\ step[c] = "verifyOff"
  BY DEF VerifyOff, storage
<1>2. CASE release' = release
  <2>1. step'[c] = "closing"
    BY <1>2, RaiseControl, ConfigAssumption DEF VerifyOff, GoTo, Inv, TypeInv, TypeOK, Link
  <2> QED
    BY <1>1, <1>2, <2>1, LinkKept DEF Withdrawing, Resting
<1>3. CASE /\ Off(c) /\ GoTo(c, "cloning", ClientVolumes[c])
           /\ release' = [release EXCEPT ![c] = active]
  <2>1. step'[c] = "cloning" /\ release'[c] = active
    BY <1>3 DEF GoTo, Inv, TypeInv, TypeOK
  <2> QED
    BY <1>1, <1>3, <2>1 DEF Link, Linked, Off, Effect, ReleaseAt
<1> QED
  BY <1>2, <1>3 DEF VerifyOff

LEMMA SwitchDiskLink ==
    ASSUME Inv, NEW c \in Clients, Link(c), SwitchDisk(c)
    PROVE  Link(c)' /\ Effect(c)
<1> DEFINE v == Current(c)
<1>1. /\ step[c] = "switching" /\ release' = release /\ enabled' \subseteq enabled
      /\ v \in ClientVolumes[c]
  BY CurrentInTodo DEF SwitchDisk, Inv, TypeInv, LoopInv, Looping
<1>2. Off(c) /\ release[c] \in Releases
  BY <1>1 DEF Inv, SafeInv, Progress, ReleaseInv, Chosen
<1>3. step'[c] \in {"switching", "rollback", "closing"}
  BY <1>1, RaiseControl, AdvanceCases DEF SwitchDisk, Inv
<1>4. Link(c)'
  BY <1>1, <1>2, <1>3 DEF Link, Linked, Off
<1>5. \A w \in ClientVolumes[c] :
          disk'[<<c, w>>] = disk[<<c, w>>] \/ disk'[<<c, w>>] = ClonePath(c, w, release[c])
  BY <1>1, ExtentsOfClient DEF SwitchDisk, Inv, TypeInv, TypeOK
<1>6. \A w \in ClientVolumes[c] : ClonePath(c, w, release[c])[3] = release[c]
  BY <1>2, PathOfClient
<1>7. \A w \in ClientVolumes[c] : ClonePath(c, w, release[c]) # Bootstrap
  BY <1>2, PathOfClient, ConfigAssumption
<1> QED
  BY <1>1, <1>2, <1>4, <1>5, <1>6, <1>7 DEF Effect, ReleaseAt, Resting

LEMMA EnableLink ==
    ASSUME Inv, NEW c \in Clients, Link(c), Enable(c)
    PROVE  Link(c)' /\ Effect(c)
<1>1. disk' = disk /\ release' = release /\ step[c] = "enabling"
  BY DEF Enable, SetEnabled
<1>2. \A w \in ClientVolumes[c] : disk[<<c, w>>] = Mine(c, w)
  BY <1>1 DEF Inv, SafeInv, Progress, Chosen
<1>3. \A w \in ClientVolumes[c] : ReleaseAt(<<c, w>>)' = release[c]
  BY <1>1, <1>2, MinePath, ConfigAssumption DEF ReleaseAt, Chosen, Inv
<1>4. step'[c] \in {"enabling", "verifyOn", "closing"}
  BY <1>1, RaiseControl, AdvanceCases DEF Enable, SetEnabled, Inv
<1> QED
  BY <1>1, <1>3, <1>4 DEF Link, Linked, Effect, ReleaseAt, Resting

LEMMA OtherLink ==
    ASSUME Inv, NEW c \in Clients, Link(c),
           \/ Disable(c) \/ EnsureReleaseClone(c) \/ Rollback(c) \/ VerifyOn(c)
           \/ Answer(c) \/ CloseFirst(c) \/ Close(c)
    PROVE  Link(c)' /\ Effect(c)
<1>1. /\ disk' = disk /\ release' = release /\ enabled' \subseteq enabled
      /\ step[c] \notin Resting
  BY DEF Disable, SetEnabled, EnsureReleaseClone, Rollback, VerifyOn, Answer, CloseFirst,
     Close, BestEffortDisable, storage, Resting
<1>2. Withdrawing(c)
  BY <1>1 DEF Withdrawing
<1>3. step'[c] \in {"disabling", "verifyOff"} => step[c] \in {"disabling", "verifyOff"}
  BY DEF Disable, SetEnabled, EnsureReleaseClone, Rollback, VerifyOn, Answer, CloseFirst,
     Close, BestEffortDisable, Advance, Raise, GoTo, Inv, TypeInv, TypeOK
<1> QED
  BY <1>1, <1>2, <1>3, LinkKept

LEMMA ProceedLink ==
    ASSUME Inv, NEW c \in Clients, Link(c), Proceed(c)
    PROVE  Link(c)' /\ Effect(c)
  BY VerifyOffLink, SwitchDiskLink, EnableLink, OtherLink DEF Proceed

LEMMA Others ==
    ASSUME Inv, NEW c \in Clients, Prepare(c) \/ Proceed(c)
    PROVE  OthersUndisturbed(c)
<1> SUFFICES ASSUME NEW d \in Clients, d # c PROVE Undisturbed(d)
  BY DEF OthersUndisturbed
<1> USE DEF Inv, TypeInv, TypeOK
<1>1. step'[d] = step[d] /\ todo'[d] = todo[d]
  BY DEF Prepare, Proceed, Disable, Enable, SetEnabled, VerifyOff, EnsureReleaseClone, SwitchDisk,
     Rollback, VerifyOn, Answer, CloseFirst, Close, BestEffortDisable, Advance, Raise, GoTo
<1>2. release'[d] = release[d]
  BY DEF Prepare, Proceed, Disable, Enable, SetEnabled, VerifyOff, EnsureReleaseClone, SwitchDisk,
     Rollback, VerifyOn, Answer, CloseFirst, Close, BestEffortDisable
<1>3. \A v \in ClientVolumes[d] : disk'[<<d, v>>] = disk[<<d, v>>]
  BY ExtentsOfClient DEF Prepare, storage, Proceed, Disable, Enable, SetEnabled, VerifyOff,
     EnsureReleaseClone, SwitchDisk, Rollback, VerifyOn, Answer, CloseFirst, Close,
     BestEffortDisable
<1>4. \A v \in ClientVolumes[d] : <<d, v>> \in enabled' <=> <<d, v>> \in enabled
  BY DEF Prepare, storage, Proceed, Disable, Enable, SetEnabled, VerifyOff, EnsureReleaseClone,
     SwitchDisk, Rollback, VerifyOn, Answer, CloseFirst, Close, BestEffortDisable
<1> QED
  BY <1>1, <1>2, <1>3, <1>4 DEF Undisturbed

LEMMA NextLink ==
    ASSUME Inv, LinkInv, Next, NEW d \in Clients
    PROVE  Link(d)' /\ Effect(d)
<1>1. Link(d)
  BY DEF LinkInv
<1>2. ASSUME NEW c \in Clients, Prepare(c) \/ Proceed(c) PROVE Link(d)' /\ Effect(d)
  <2>1. CASE d = c
    BY <1>1, <1>2, <2>1, PrepareLink, ProceedLink
  <2>2. CASE d # c
    BY <1>1, <1>2, <2>2, Others, LinkUndisturbed DEF OthersUndisturbed
  <2> QED
    BY <2>1, <2>2
<1>3. ASSUME UNCHANGED <<enabled, disk, step, todo, release>> PROVE Link(d)' /\ Effect(d)
  BY <1>1, <1>3, LinkUndisturbed DEF Undisturbed
<1>4. ASSUME NEW c \in Clients, Login(c) \/ Logout(c) PROVE Link(d)' /\ Effect(d)
  BY <1>3, <1>4 DEF Login, Logout, storage, control
<1>5. ASSUME NEW e \in Extents, Write(e) PROVE Link(d)' /\ Effect(d)
  BY <1>3, <1>5 DEF Write, control
<1>6. ASSUME NEW r \in Releases, Activate(r) PROVE Link(d)' /\ Effect(d)
  BY <1>3, <1>6 DEF Activate, storage, control
<1>7. CASE Restart
  <2>1. step'[d] \in Resting /\ Withdrawing(d) /\ release' = release
    BY <1>7 DEF Restart, storage, Withdrawing, Resting
  <2> QED
    BY <1>1, <2>1, LinkKept DEF Resting
<1> QED
  BY <1>2, <1>4, <1>5, <1>6, <1>7 DEF Next

(* Only an activation changes the active release.                          *)
LEMMA ActiveStep ==
    ASSUME Inv, Next
    PROVE  active' = active \/ active' \in Releases
  BY DEF Next, Prepare, Proceed, Disable, Enable, SetEnabled, VerifyOff, EnsureReleaseClone,
     SwitchDisk, Rollback, VerifyOn, Answer, CloseFirst, Close, BestEffortDisable, Login, Logout,
     Write, Activate, Restart, storage, control
-----------------------------------------------------------------------------
(* The steps of the dashboard and those elsewhere.                         *)

LEMMA ReleaseAtType ==
    ASSUME TypeOK, NEW e \in Extents
    PROVE  ReleaseAt(e) \in Releases \cup {NoRelease}
  BY DEF TypeOK, ReleaseAt, Paths

LEMMA InspectorInitInv == InspectorInit => InspectorInv
<1> SUFFICES ASSUME InspectorInit PROVE InspectorInv
  OBVIOUS
<1>1. Inv
  BY InitInv DEF InspectorInit
<1>2. LinkInv
  BY DEF InspectorInit, Init, LinkInv, Link, Resting
<1>3. InspectorTypeOK
  BY <1>1 DEF InspectorInit, InspectorTypeOK, Inv, TypeInv
<1>4. ScanInv
  BY DEF InspectorInit, Init, ScanInv, Recent
<1> QED
  BY <1>1, <1>2, <1>3, <1>4 DEF InspectorInv

LEMMA DashboardStep ==
    ASSUME InspectorInv, Dashboard
    PROVE  InspectorTypeOK' /\ ScanInv'
<1>1. InspectorTypeOK'
  BY DEF InspectorInv, Dashboard, InspectorTypeOK, TypeOK, vars
<1>2. ScanInv'
  BY DEF InspectorInv, Dashboard, InspectorTypeOK, TypeOK, vars, ScanInv, Recent
<1> QED
  BY <1>1, <1>2

LEMMA LookStep ==
    ASSUME InspectorInv, NEW e \in Extents, Look(e)
    PROVE  InspectorTypeOK' /\ ScanInv'
<1>1. /\ unread' = unread \ {e} /\ seen' = seen /\ since' = since /\ active' = active
      /\ step' = step /\ release' = release /\ disk' = disk
      /\ updated' = (updated /\ Mapped(e) /\ ReleaseAt(e) = seen)
  BY DEF Look, vars
<1>2. unused' \subseteq Releases
      /\ (unused' # {} => unread' = {} /\ updated' /\ seen \notin unused')
  BY DEF Look, Unused
<1>3. InspectorTypeOK'
  <2>1. TypeOK' /\ observed' \subseteq Releases
    BY ReleaseAtType DEF InspectorInv, InspectorTypeOK, Look, vars, TypeOK
  <2> QED
    BY <1>1, <1>2, <2>1 DEF InspectorInv, InspectorTypeOK
<1>4. ASSUME updated', step[e[1]] \notin Resting PROVE release[e[1]] \in {seen, NoRelease}
  <2>1. e[1] \in Clients /\ e[2] \in ClientVolumes[e[1]] /\ e = <<e[1], e[2]>>
    BY ExtentShape
  <2>2. release[e[1]] = NoRelease \/ Linked(e[1])
    BY <1>4, <2>1 DEF InspectorInv, LinkInv, Link
  <2>3. e \in enabled /\ ReleaseAt(e) = seen
    BY <1>1, <1>4 DEF Mapped
  <2> QED
    BY <2>1, <2>2, <2>3 DEF Linked
<1>5. ScanInv'
  BY <1>1, <1>2, <1>4 DEF InspectorInv, ScanInv, Recent, ReleaseAt
<1> QED
  BY <1>3, <1>5

LEMMA ElsewhereStep ==
    ASSUME InspectorInv, Elsewhere, Inv'
    PROVE  InspectorTypeOK' /\ ScanInv'
<1>1. /\ seen' = seen /\ unread' = unread /\ updated' = updated /\ observed' = observed
      /\ unused' = unused /\ Next
      /\ since' = IF active' = active THEN since ELSE since \cup {active'}
  BY DEF Elsewhere
<1>2. active' = active \/ active' \in Releases
  BY <1>1, ActiveStep DEF InspectorInv
<1>3. InspectorTypeOK'
  BY <1>1, <1>2 DEF InspectorInv, InspectorTypeOK, Inv, TypeInv
<1>4. Recent \subseteq Recent' /\ active' \in Recent'
  BY <1>1 DEF Recent, InspectorInv, ScanInv
<1>5. ASSUME updated, NEW e \in Extents \ unread
      PROVE  /\ ReleaseAt(e)' \in Recent'
             /\ step'[e[1]] \notin Resting => release'[e[1]] \in Recent' \cup {NoRelease}
  <2>1. e[1] \in Clients /\ e[2] \in ClientVolumes[e[1]] /\ e = <<e[1], e[2]>>
    BY ExtentShape
  <2>2. Effect(e[1])
    BY <1>1, <2>1, NextLink DEF InspectorInv
  <2>3. /\ ReleaseAt(e) \in Recent
        /\ step[e[1]] \notin Resting => release[e[1]] \in Recent \cup {NoRelease}
    BY <1>5 DEF InspectorInv, ScanInv
  <2>4. active \in Recent /\ NoRelease \notin Releases
    BY ConfigAssumption DEF InspectorInv, ScanInv
  <2>5. \/ ReleaseAt(e)' = ReleaseAt(e)
        \/ /\ step[e[1]] \notin Resting /\ release[e[1]] \in Releases
           /\ ReleaseAt(e)' = release[e[1]]
    BY <2>1, <2>2 DEF Effect
  <2>6. step'[e[1]] \notin Resting =>
          \/ release'[e[1]] \in {NoRelease, active}
          \/ step[e[1]] \notin Resting /\ release'[e[1]] = release[e[1]]
    BY <2>2 DEF Effect
  <2> QED
    BY <1>4, <2>3, <2>4, <2>5, <2>6
<1>6. ScanInv'
  BY <1>1, <1>4, <1>5 DEF InspectorInv, ScanInv
<1> QED
  BY <1>3, <1>6

LEMMA InspectorStep == InspectorInv /\ [InspectorNext]_allVars => InspectorInv'
<1> SUFFICES ASSUME InspectorInv, [InspectorNext]_allVars PROVE InspectorInv'
  OBVIOUS
<1>1. CASE Elsewhere
  <2>1. Inv'
    BY <1>1, InvStep DEF Elsewhere, InspectorInv
  <2>2. LinkInv'
    BY <1>1, NextLink DEF Elsewhere, InspectorInv, LinkInv
  <2> QED
    BY <1>1, <2>1, <2>2, ElsewhereStep DEF InspectorInv
<1>2. ASSUME UNCHANGED vars PROVE Inv' /\ LinkInv'
  <2>1. Inv'
    BY <1>2, InvStep DEF InspectorInv
  <2>2. LinkInv'
    BY <1>2 DEF InspectorInv, LinkInv, Link, Linked, ReleaseAt, vars
  <2> QED
    BY <2>1, <2>2
<1>3. CASE Dashboard
  BY <1>2, <1>3, DashboardStep DEF Dashboard, InspectorInv
<1>4. ASSUME NEW e \in Extents, Look(e) PROVE InspectorInv'
  BY <1>2, <1>4, LookStep DEF Look, InspectorInv
<1>5. CASE UNCHANGED allVars
  BY <1>2, <1>5 DEF allVars, scan, vars, InspectorInv, InspectorTypeOK, TypeOK, ScanInv, Recent, ReleaseAt
<1> QED
  BY <1>1, <1>3, <1>4, <1>5 DEF InspectorNext

(* The inductive invariant of the dashboard's scan.                        *)
THEOREM InspectorSafety == InspectorSpec => []InspectorInv
  BY InspectorInitInv, InspectorStep, PTL DEF InspectorSpec

(* A release shown as unused is neither active nor exposed by any extent,  *)
(* and no prepare is about to expose it, unless it was activated again     *)
(* after the dashboard began to read.                                      *)
THEOREM UnusedReleaseIsUnused == InspectorSpec => []UnusedIsUnused
<1>1. InspectorInv => UnusedIsUnused
  <2> SUFFICES ASSUME InspectorInv, NEW r \in unused \ since
               PROVE  /\ active # r
                      /\ \A e \in Extents : ReleaseAt(e) # r
                      /\ \A c \in Clients : step[c] \notin Resting => release[c] # r
    BY DEF UnusedIsUnused
  <2>1. r \notin Recent /\ r # NoRelease /\ unread = {} /\ updated
    BY ConfigAssumption DEF InspectorInv, InspectorTypeOK, ScanInv, Recent
  <2>2. active # r /\ \A e \in Extents : ReleaseAt(e) # r
    BY <2>1 DEF InspectorInv, ScanInv
  <2>3. ASSUME NEW c \in Clients, step[c] \notin Resting PROVE release[c] # r
    <3>1. PICK v \in ClientVolumes[c] : TRUE
      BY ConfigAssumption
    <3>2. <<c, v>> \in Extents
      BY <3>1, ExtentsOfClient
    <3> QED
      BY <2>1, <2>3, <3>2 DEF InspectorInv, ScanInv
  <2> QED
    BY <2>2, <2>3
<1> QED
  BY <1>1, InspectorSafety, PTL
-----------------------------------------------------------------------------
(* What ResetService promises the PCs is implemented, step by step: most   *)
(* steps of a prepare are invisible to them, each of the others is one     *)
(* action of the service.                                                  *)

LEMMA LinkSafety == Spec => [](Inv /\ LinkInv)
<1>1. Init => LinkInv
  BY DEF Init, LinkInv, Link, Resting
<1>2. Inv /\ LinkInv /\ [Next]_vars => LinkInv'
  <2>1. ASSUME LinkInv, UNCHANGED vars PROVE LinkInv'
    BY <2>1 DEF LinkInv, Link, Linked, ReleaseAt, vars
  <2> QED
    BY <2>1, NextLink DEF LinkInv
<1> QED
  BY <1>1, <1>2, InitInv, InvStep, PTL DEF Spec

(* A PC notices nothing of a step that leaves what its extents show.       *)
LEMMA Unnoticed ==
    ASSUME UNCHANGED <<active, release, disk, enabled, sessions>>,
           Fresh' = Fresh, ToldReady' = ToldReady
    PROVE  UNCHANGED Service!vars
  BY DEF Service!vars, At, ReleaseAt

LEMMA SameContent ==
    ASSUME disk' = disk,
           \A e \in Extents : disk[e] \in Paths => zvol'[disk[e]].data = zvol[disk[e]].data
    PROVE  At' = At /\ Fresh' = Fresh
  BY DEF At, ReleaseAt, Fresh

LEMMA ToldKept ==
    ASSUME Inv, NEW c \in Clients, Proceed(c), step'[c] # "ready"
    PROVE  ToldReady' = ToldReady /\ c \notin ToldReady /\ step[c] \notin Resting
<1>1. step[c] \notin Resting
  BY DEF Proceed, Disable, Enable, SetEnabled, VerifyOff, EnsureReleaseClone, SwitchDisk,
     Rollback, VerifyOn, Answer, CloseFirst, Close, BestEffortDisable, Resting
<1>2. \A d \in Clients \ {c} : step'[d] = step[d]
  BY Others DEF OthersUndisturbed, Undisturbed
<1> QED
  BY <1>1, <1>2 DEF ToldReady, Resting

(* Where a prepare may change content, paths or what is visible, it has    *)
(* chosen its release and said nothing yet.                                *)
LEMMA ChosenInService ==
    ASSUME Inv, NEW c \in Clients, step[c] \in Chosen \ {"ready"}
    PROVE  Service!Chosen(c)
<1>1. release[c] \in Releases
  BY DEF Inv, ReleaseInv
<1> QED
  BY <1>1, ConfigAssumption DEF Service!Chosen, ToldReady

(* Once every extent is switched, the volumes are at the chosen release.   *)
LEMMA WholeInService ==
    ASSUME Inv, NEW c \in Clients, step[c] \in Chosen \ {"cloning", "switching"}
    PROVE  Service!Whole(c)
<1>1. \A v \in ClientVolumes[c] : disk[<<c, v>>] = Mine(c, v) /\ <<c, v>> \in Extents
  BY ExtentsOfClient DEF Inv, SafeInv, Progress
<1>2. \A v \in ClientVolumes[c] : ReleaseAt(<<c, v>>) = release[c]
  BY <1>1, MinePath, ConfigAssumption DEF ReleaseAt, Inv
<1> QED
  BY <1>1, <1>2 DEF Service!Whole, At

(* An extent's clone is exposed by that extent alone.                      *)
LEMMA ExposedByOne ==
    ASSUME Inv, NEW e \in Extents, NEW f \in Extents, disk[e] \in Paths, disk[f] = disk[e]
    PROVE  f = e
<1>1. /\ disk[e][2] = e[2] /\ zvol[disk[e]].owner = e[1]
      /\ disk[f][2] = f[2] /\ zvol[disk[f]].owner = f[1]
  BY ConfigAssumption DEF Inv, SafeInv, AttachedIsOwn
<1> QED
  BY <1>1, ExtentShape
(* Every failure, and every step that only reads, is invisible.            *)
LEMMA SilentStep ==
    ASSUME Inv, NEW c \in Clients, Proceed(c), step'[c] # "ready",
           UNCHANGED <<active, release, disk, enabled, sessions, zvol>>
    PROVE  UNCHANGED Service!vars
<1>1. Fresh' = Fresh
  BY SameContent
<1>2. ToldReady' = ToldReady
  BY ToldKept
<1> QED
  BY <1>1, <1>2, Unnoticed

LEMMA HideInService ==
    ASSUME Inv, NEW c \in Clients, Proceed(c), step'[c] # "ready",
           UNCHANGED <<active, release, disk, sessions, zvol>>,
           NEW v \in ClientVolumes[c], enabled' = enabled \ {<<c, v>>}
    PROVE  Service!Hide(<<c, v>>)
<1>1. At' = At /\ Fresh' = Fresh
  BY SameContent
<1>2. ToldReady' = ToldReady /\ c \notin ToldReady
  BY ToldKept
<1> QED
  BY <1>1, <1>2 DEF Service!Hide

(* An extent of c that is taken away, or not: Hide or nothing.             *)
LEMMA WithdrawInService ==
    ASSUME Inv, NEW c \in Clients, Proceed(c), step'[c] # "ready",
           UNCHANGED <<active, release, disk, sessions, zvol>>,
           NEW v \in ClientVolumes[c], enabled' \in {enabled, enabled \ {<<c, v>>}}
    PROVE  [Service!Next]_(Service!vars)
<1>1. CASE enabled' = enabled
  BY <1>1, SilentStep
<1>2. CASE enabled' = enabled \ {<<c, v>>}
  <2>1. Service!Hide(<<c, v>>)
    BY <1>2, HideInService
  <2>2. <<c, v>> \in Service!Extents
    BY DEF Service!Extents
  <2> QED
    BY <2>1, <2>2 DEF Service!Next
<1> QED
  BY <1>1, <1>2

LEMMA PrepareInService ==
    ASSUME Inv, NEW c \in Clients, Prepare(c)
    PROVE  Service!Ask(c)
<1>1. /\ disk' = disk /\ zvol' = zvol /\ enabled' = enabled /\ c \notin sessions
      /\ active' = active /\ sessions' = sessions
      /\ release' = [release EXCEPT ![c] = NoRelease]
      /\ step' = [step EXCEPT ![c] = "disabling"]
  BY DEF Prepare, storage, GoTo
<1>2. At' = At /\ Fresh' = Fresh
  BY <1>1, SameContent
<1>3. ToldReady' = ToldReady \ {c}
  BY <1>1 DEF ToldReady, Inv, TypeInv, TypeOK
<1> QED
  BY <1>1, <1>2, <1>3 DEF Service!Ask

LEMMA DisableInService ==
    ASSUME Inv, NEW c \in Clients, Disable(c) \/ CloseFirst(c) \/ Close(c)
    PROVE  [Service!Next]_(Service!vars)
<1> DEFINE v == Current(c)
<1>1. /\ UNCHANGED <<active, release, disk, sessions, zvol>> /\ Proceed(c)
      /\ enabled' \in {enabled, enabled \ {<<c, v>>}} /\ step[c] \in Looping
  BY DEF Disable, SetEnabled, CloseFirst, Close, BestEffortDisable, Proceed, Looping
<1>2. v \in ClientVolumes[c]
  BY <1>1, CurrentInTodo DEF Inv, TypeInv, LoopInv
<1>3. step'[c] # "ready"
  BY AdvanceCases, RaiseControl
     DEF Disable, SetEnabled, CloseFirst, Close, BestEffortDisable, Inv
<1> QED
  BY <1>1, <1>2, <1>3, WithdrawInService

LEMMA VerifyOffInService ==
    ASSUME Inv, NEW c \in Clients, Link(c), VerifyOff(c)
    PROVE  [Service!Next]_(Service!vars)
<1>1. /\ UNCHANGED <<active, storage, sessions>> /\ Proceed(c) /\ step[c] = "verifyOff"
  BY DEF VerifyOff, Proceed
<1>2. CASE Raise(c) /\ release' = release
  BY <1>1, <1>2, RaiseControl, SilentStep DEF storage
<1>3. CASE /\ Off(c) /\ c \notin sessions /\ active # NoRelease
           /\ GoTo(c, "cloning", ClientVolumes[c])
           /\ release' = [release EXCEPT ![c] = active]
  <2>1. step'[c] = "cloning" /\ release[c] = NoRelease
    BY <1>1, <1>3 DEF GoTo, Link, Inv, TypeInv, TypeOK
  <2>2. ToldReady' = ToldReady /\ c \notin ToldReady
    BY <1>1, <2>1, ToldKept
  <2>3. At' = At /\ Fresh' = Fresh
    BY <1>1, SameContent DEF storage
  <2>4. Service!Choose(c)
    BY <1>1, <1>3, <2>1, <2>2, <2>3 DEF Service!Choose, Service!Hidden, Off, storage
  <2> QED
    BY <2>4 DEF Service!Next
<1> QED
  BY <1>2, <1>3 DEF VerifyOff

(* A new clone is exposed by nobody, and @clean is not seen by a PC.       *)
LEMMA EnsureInService ==
    ASSUME Inv, NEW c \in Clients, EnsureReleaseClone(c)
    PROVE  [Service!Next]_(Service!vars)
<1> DEFINE v == Current(c)
           p == ClonePath(c, v, release[c])
<1>1. /\ UNCHANGED <<active, release, disk, enabled, sessions>> /\ Proceed(c)
      /\ step[c] = "cloning" /\ v \in ClientVolumes[c]
  BY CurrentInTodo DEF EnsureReleaseClone, Proceed, Inv, TypeInv, LoopInv, Looping
<1>2. step'[c] # "ready"
  BY <1>1, AdvanceCases, RaiseControl DEF EnsureReleaseClone, Inv
<1>3. p \in Paths /\ zvol \in [Paths -> Zvols]
  BY <1>1, MinePath DEF Mine, Inv, Chosen, TypeInv, TypeOK
<1>4. \/ zvol' = zvol
      \/ /\ zvol[p].owner = Nobody
         /\ zvol' = [zvol EXCEPT ![p] = [owner |-> c, data |-> "pristine", clean |-> "none"]]
      \/ zvol' = [zvol EXCEPT ![p].clean = zvol[p].data]
  BY DEF EnsureReleaseClone
<1>5. ASSUME NEW e \in Extents, disk[e] \in Paths
      PROVE  zvol'[disk[e]].data = zvol[disk[e]].data
  <2> HIDE DEF p
  <2>1. zvol[disk[e]].owner \in Clients
    BY <1>5, ExtentShape, ConfigAssumption DEF Inv, SafeInv, AttachedIsOwn
  <2>2. disk[e] = p => zvol[p].owner # Nobody
    BY <2>1, ConfigAssumption
  <2> QED
    BY <1>3, <1>4, <1>5, <2>2 DEF Zvols
<1>6. Fresh' = Fresh
  BY <1>1, <1>5, SameContent
<1> QED
  BY <1>1, <1>2, <1>6, ToldKept, Unnoticed

LEMMA SwitchDiskInService ==
    ASSUME Inv, NEW c \in Clients, SwitchDisk(c)
    PROVE  [Service!Next]_(Service!vars)
<1> DEFINE v == Current(c)
           e == <<c, v>>
           p == ClonePath(c, v, release[c])
<1>1. /\ UNCHANGED <<active, release, sessions, zvol>> /\ Proceed(c)
      /\ step[c] = "switching" /\ v \in ClientVolumes[c] /\ e \in Extents
  BY CurrentInTodo, ExtentsOfClient
     DEF SwitchDisk, Proceed, Inv, TypeInv, LoopInv, Looping
<1>2. step'[c] # "ready"
  BY <1>1, AdvanceCases, RaiseControl DEF SwitchDisk, Inv
<1>3. CASE UNCHANGED <<disk, enabled>>
  BY <1>1, <1>2, <1>3, SilentStep
<1>4. CASE disk' = [disk EXCEPT ![e] = p] /\ enabled' = enabled \ {e}
  <2>1. Off(c) /\ p # Bootstrap /\ p[3] = release[c]
    BY <1>1, MinePath, ConfigAssumption DEF Mine, Inv, SafeInv, Progress, Chosen
  <2>2. disk'[e] = p /\ \A f \in Extents : f # e => disk'[f] = disk[f]
    BY <1>1, <1>4 DEF Inv, TypeInv, TypeOK
  <2> HIDE DEF p
  <2>3. At' = [At EXCEPT ![e] = release[c]]
    BY <1>1, <2>1, <2>2 DEF At, ReleaseAt
  <2>4. Fresh' \in {Fresh \cup {e}, Fresh \ {e}}
    <3>1. \A f \in Extents : f # e => (f \in Fresh' <=> f \in Fresh)
      BY <1>1, <2>2 DEF Fresh
    <3> QED
      BY <1>1, <3>1 DEF Fresh
  <2>5. enabled' = enabled
    BY <1>1, <1>4, <2>1 DEF Off
  <2>6. ToldReady' = ToldReady /\ Service!Chosen(c) /\ Service!Hidden(c)
    BY <1>1, <1>2, <2>1, ToldKept, ChosenInService DEF Chosen, Off, Service!Hidden
  <2>7. Service!Put(e)
    BY <1>1, <2>3, <2>4, <2>5, <2>6 DEF Service!Put
  <2> QED
    BY <1>1, <2>7 DEF Service!Next, Service!Extents, Extents
<1> QED
  BY <1>3, <1>4 DEF SwitchDisk
(* A rollback makes the client's own extent as released, and no other.     *)
LEMMA RollbackInService ==
    ASSUME Inv, NEW c \in Clients, Rollback(c)
    PROVE  [Service!Next]_(Service!vars)
<1> DEFINE v == Current(c)
           e == <<c, v>>
           p == ClonePath(c, v, release[c])
<1>1. /\ UNCHANGED <<active, release, disk, enabled, sessions>> /\ Proceed(c)
      /\ step[c] = "rollback" /\ v \in ClientVolumes[c] /\ e \in Extents
  BY CurrentInTodo, ExtentsOfClient
     DEF Rollback, Proceed, Inv, TypeInv, LoopInv, Looping
<1>2. step'[c] # "ready"
  BY <1>1, AdvanceCases, RaiseControl DEF Rollback, Inv
<1>3. CASE zvol' = zvol
  BY <1>1, <1>2, <1>3, SilentStep
<1>4. CASE zvol[p].clean # "none" /\ zvol' = WithData(zvol, p, zvol[p].clean)
  <2>1. Off(c) /\ p \in Paths /\ disk[e] = p /\ zvol \in [Paths -> Zvols]
    BY <1>1, MinePath DEF Mine, Inv, TypeInv, TypeOK, SafeInv, Progress, Chosen
  <2> HIDE DEF p
  <2>2. zvol[p].clean = "pristine"
    BY <1>4, <2>1 DEF Zvols, CleanInv, Inv, SafeInv
  <2>3. /\ zvol'[p].data = "pristine"
        /\ \A q \in Paths : q # p => zvol'[q] = zvol[q]
    BY <1>4, <2>1, <2>2, DataUpdate
  <2>4. \A f \in Extents : f # e => (f \in Fresh' <=> f \in Fresh)
    BY <1>1, <2>1, <2>3, ExposedByOne DEF Fresh
  <2>5. Fresh' = Fresh \cup {e}
    BY <1>1, <2>1, <2>3, <2>4 DEF Fresh
  <2>6. At' = At
    BY <1>1 DEF At, ReleaseAt
  <2>7. /\ ToldReady' = ToldReady
        /\ Service!Chosen(c) /\ Service!Hidden(c) /\ Service!Whole(c)
    BY <1>1, <1>2, <2>1, ToldKept, ChosenInService, WholeInService
       DEF Chosen, Off, Service!Hidden
  <2>8. Service!Reset(e)
    BY <1>1, <2>5, <2>6, <2>7 DEF Service!Reset
  <2> QED
    BY <1>1, <2>8 DEF Service!Next, Service!Extents, Extents
<1> QED
  BY <1>3, <1>4 DEF Rollback, WithData

LEMMA EnableInService ==
    ASSUME Inv, NEW c \in Clients, Enable(c)
    PROVE  [Service!Next]_(Service!vars)
<1> DEFINE v == Current(c)
           e == <<c, v>>
<1>1. /\ UNCHANGED <<active, release, disk, sessions, zvol>> /\ Proceed(c)
      /\ step[c] = "enabling" /\ v \in todo[c] /\ v \in ClientVolumes[c] /\ e \in Extents
      /\ enabled' \in {enabled, enabled \cup {e}}
  BY CurrentInTodo, ExtentsOfClient
     DEF Enable, SetEnabled, Proceed, Inv, TypeInv, LoopInv, Looping
<1>2. step'[c] # "ready"
  BY <1>1, AdvanceCases, RaiseControl DEF Enable, SetEnabled, Inv
<1>3. CASE enabled' = enabled
  BY <1>1, <1>2, <1>3, SilentStep
<1>4. CASE enabled' = enabled \cup {e}
  <2>1. e \in Fresh
    BY <1>1, MinePath DEF Fresh, Inv, SafeInv, Progress, Chosen
  <2>2. ToldReady' = ToldReady /\ Service!Chosen(c) /\ Service!Whole(c)
    BY <1>1, <1>2, ToldKept, ChosenInService, WholeInService DEF Chosen
  <2>3. At' = At /\ Fresh' = Fresh
    BY <1>1, SameContent
  <2>4. Service!Show(e)
    BY <1>1, <1>4, <2>1, <2>2, <2>3 DEF Service!Show
  <2> QED
    BY <1>1, <2>4 DEF Service!Next, Service!Extents, Extents
<1> QED
  BY <1>1, <1>3, <1>4

LEMMA AnswerInService ==
    ASSUME Inv, NEW c \in Clients, Answer(c)
    PROVE  [Service!Next]_(Service!vars)
<1>1. UNCHANGED <<active, storage, sessions, release>> /\ Proceed(c) /\ step[c] = "answering"
  BY DEF Answer, Proceed
<1>2. CASE Raise(c)
  BY <1>1, <1>2, RaiseControl, SilentStep DEF storage
<1>3. CASE GoTo(c, "ready", {})
  <2>1. ToldReady' = ToldReady \cup {c}
    BY <1>3 DEF GoTo, ToldReady, Inv, TypeInv, TypeOK
  <2>2. \A v \in ClientVolumes[c] : <<c, v>> \in enabled
    BY <1>1 DEF Inv, SafeInv, Progress
  <2>3. Service!Chosen(c) /\ Service!Whole(c)
    BY <1>1, ChosenInService, WholeInService DEF Chosen
  <2>4. At' = At /\ Fresh' = Fresh
    BY <1>1, SameContent DEF storage
  <2>5. Service!Promise(c)
    BY <1>1, <2>1, <2>2, <2>3, <2>4 DEF Service!Promise, storage
  <2> QED
    BY <2>5 DEF Service!Next
<1> QED
  BY <1>2, <1>3 DEF Answer

LEMMA ProceedInService ==
    ASSUME Inv, NEW c \in Clients, Link(c), Proceed(c)
    PROVE  [Service!Next]_(Service!vars)
<1>1. CASE VerifyOn(c)
  <2>1. UNCHANGED <<active, storage, sessions, release>> /\ step'[c] # "ready"
    BY <1>1, RaiseControl DEF VerifyOn, GoTo, Inv, TypeInv, TypeOK
  <2> QED
    BY <2>1, SilentStep DEF storage
<1> QED
  BY <1>1, DisableInService, VerifyOffInService, EnsureInService, SwitchDiskInService,
     RollbackInService, EnableInService, AnswerInService DEF Proceed

(* A write spoils the extent it goes through, and no other.                *)
LEMMA WriteInService ==
    ASSUME Inv, NEW e \in Extents, Write(e)
    PROVE  Service!Write(e)
<1>1. /\ disk[e] \in Paths /\ zvol' = WithData(zvol, disk[e], "dirty") /\ Accessible(e)
      /\ disk' = disk /\ UNCHANGED <<active, enabled, sessions, release, step>>
  BY DEF Write, WithData, control
<1>2. /\ zvol'[disk[e]].data = "dirty"
      /\ \A q \in Paths : q # disk[e] => zvol'[q] = zvol[q]
  BY <1>1, DataUpdate DEF Inv, TypeInv, TypeOK
<1>3. \A f \in Extents : f # e => (f \in Fresh' <=> f \in Fresh)
  BY <1>1, <1>2, ExposedByOne DEF Fresh
<1>4. Fresh' = Fresh \ {e}
  BY <1>1, <1>2, <1>3 DEF Fresh
<1>5. At' = At /\ ToldReady' = ToldReady
  BY <1>1 DEF At, ReleaseAt, ToldReady
<1> QED
  BY <1>1, <1>4, <1>5 DEF Service!Write, Accessible

LEMMA StepInService ==
    ASSUME Inv, LinkInv, [Next]_vars
    PROVE  [Service!Next]_(Service!vars)
<1>1. ASSUME NEW c \in Clients, Prepare(c) PROVE Service!Next
  BY <1>1, PrepareInService DEF Service!Next
<1>2. ASSUME NEW c \in Clients, Proceed(c) PROVE [Service!Next]_(Service!vars)
  BY <1>2, ProceedInService DEF LinkInv
<1>3. ASSUME UNCHANGED <<storage, step>> PROVE At' = At /\ Fresh' = Fresh /\ ToldReady' = ToldReady
  BY <1>3 DEF storage, At, ReleaseAt, Fresh, ToldReady
<1>4. ASSUME NEW c \in Clients, Login(c) \/ Logout(c) PROVE Service!Next
  <2>1. Service!Login(c) \/ Service!Logout(c)
    BY <1>3, <1>4 DEF Login, Logout, Service!Login, Service!Logout, storage, control
  <2> QED
    BY <2>1 DEF Service!Next
<1>5. ASSUME NEW e \in Extents, Write(e) PROVE Service!Next
  BY <1>5, WriteInService DEF Service!Next, Service!Extents, Extents
<1>6. ASSUME NEW r \in Releases, Activate(r) PROVE Service!Next
  <2>1. Service!Activate(r)
    BY <1>3, <1>6 DEF Activate, Service!Activate, storage, control
  <2> QED
    BY <2>1 DEF Service!Next
<1>7. ASSUME Restart PROVE UNCHANGED Service!vars
  <2>1. UNCHANGED <<active, storage, sessions, release>>
    BY <1>7 DEF Restart
  <2>2. ToldReady' = ToldReady
    BY <1>7 DEF Restart, ToldReady, Resting
  <2>3. Fresh' = Fresh
    BY <2>1, SameContent DEF storage
  <2> QED
    BY <2>1, <2>2, <2>3, Unnoticed DEF storage
<1>8. ASSUME UNCHANGED vars PROVE UNCHANGED Service!vars
  BY <1>3, <1>8, Unnoticed DEF vars, storage
<1> QED
  BY <1>1, <1>2, <1>4, <1>5, <1>6, <1>7, <1>8 DEF Next

(* What a PC may rely on holds whatever fails, restarts or is activated in *)
(* between: prepare implements ResetService.                               *)
THEOREM ServiceIsImplemented == Spec => ImplementsResetService
<1>1. Init => Service!Init
  <2> SUFFICES ASSUME Init PROVE Service!Init
    OBVIOUS
  <2>1. Fresh = {} /\ ToldReady = {}
    BY ConfigAssumption DEF Init, Fresh, ToldReady
  <2>2. At = [e \in Extents |-> NoRelease]
    BY DEF Init, At, ReleaseAt
  <2> QED
    BY <2>1, <2>2 DEF Init, Service!Init, Service!Extents, Extents
<1>2. Inv /\ LinkInv /\ [Next]_vars => [Service!Next]_(Service!vars)
  BY StepInService
<1> QED
  BY <1>1, <1>2, LinkSafety, PTL DEF Spec, Service!Spec, ImplementsResetService
-----------------------------------------------------------------------------
(* What EventuallyReady rests on.  The prover knows no fairness, so it is  *)
(* split into two facts without: a prepare that meets no fault does not    *)
(* fail, whatever earlier prepares left behind, and each of its steps      *)
(* brings it nearer to its answer.                                         *)

(* A clone path of the release that was read is somebody else's.           *)
Taken(c) ==
    /\ release[c] # NoRelease
    /\ \E v \in ClientVolumes[c] : zvol[Mine(c, v)].owner \notin {Nobody, c}

Failing == {"closingFirst", "closing", "failed"}

(* A prepare that has just begun, or none that has failed.                 *)
Beginning(c) ==
    \/ step[c] \in {"idle", "ready"}
    \/ step[c] = "disabling" /\ todo[c] = ClientVolumes[c] /\ c \notin sessions

(* What is true of a prepare during which nothing else went wrong: its     *)
(* calls had their effect and nobody logged in.                            *)
Smooth(c) ==
    /\ active # NoRelease
    /\ step[c] \in Failing => step[c] # "closingFirst" /\ Taken(c)
    /\ step[c] \notin Resting => c \notin sessions
    /\ step[c] = "disabling" => \A v \in ClientVolumes[c] \ todo[c] : <<c, v>> \notin enabled
    /\ step[c] = "verifyOff" => Off(c)
    /\ step[c] = "enabling" => \A v \in ClientVolumes[c] \ todo[c] : <<c, v>> \in enabled
    /\ step[c] = "verifyOn" => \A v \in ClientVolumes[c] : <<c, v>> \in enabled

(* A dataset that is there keeps its owner.                                *)
LEMMA OwnerStays ==
    ASSUME Inv, [Next]_vars, NEW p \in Paths, zvol[p].owner # Nobody
    PROVE  zvol'[p].owner = zvol[p].owner
<1> USE DEF Inv, TypeInv, TypeOK
<1>1. ASSUME NEW c \in Clients, EnsureReleaseClone(c) PROVE zvol'[p].owner = zvol[p].owner
  <2> DEFINE q == ClonePath(c, Current(c), release[c])
  <2>1. \/ zvol' = zvol
        \/ /\ zvol[q].owner = Nobody
           /\ zvol' = [zvol EXCEPT ![q] = [owner |-> c, data |-> "pristine", clean |-> "none"]]
        \/ zvol' = [zvol EXCEPT ![q].clean = zvol[q].data]
    BY <1>1 DEF EnsureReleaseClone
  <2> HIDE DEF q
  <2> QED
    BY <2>1 DEF Zvols
<1>2. ASSUME NEW c \in Clients, Rollback(c) PROVE zvol'[p].owner = zvol[p].owner
  <2> DEFINE q == ClonePath(c, Current(c), release[c])
  <2>1. zvol' = zvol \/ zvol' = [zvol EXCEPT ![q].data = zvol[q].clean]
    BY <1>2 DEF Rollback
  <2> HIDE DEF q
  <2> QED
    BY <2>1 DEF Zvols
<1>3. ASSUME NEW e \in Extents, Write(e) PROVE zvol'[p].owner = zvol[p].owner
  BY <1>3 DEF Write, Zvols
<1>4. ASSUME NEW c \in Clients, Proceed(c), ~EnsureReleaseClone(c), ~Rollback(c)
      PROVE  zvol' = zvol
  BY <1>4 DEF Proceed, Disable, Enable, SetEnabled, VerifyOff, SwitchDisk, VerifyOn, Answer,
     CloseFirst, Close, BestEffortDisable, storage
<1> QED
  BY <1>1, <1>2, <1>3, <1>4 DEF Next, Prepare, Login, Logout, Activate, Restart, vars, storage

LEMMA TakenStays ==
    ASSUME Inv, [Next]_vars, NEW c \in Clients, Taken(c), release'[c] = release[c]
    PROVE  Taken(c)'
<1>1. PICK v \in ClientVolumes[c] : zvol[Mine(c, v)].owner \notin {Nobody, c}
  BY DEF Taken
<1>2. Mine(c, v) \in Paths /\ Mine(c, v)' = Mine(c, v)
  BY PathOfClient DEF Taken, Mine, Inv, TypeInv, TypeOK
<1> QED
  BY <1>1, <1>2, OwnerStays DEF Taken

LEMMA SmoothUndisturbed ==
    ASSUME Inv, [Next]_vars, NEW d \in Clients, Smooth(d), Undisturbed(d),
           active' # NoRelease, step[d] \notin Resting => d \notin sessions'
    PROVE  Smooth(d)'
<1>1. \A v \in ClientVolumes[d] : <<d, v>> \in enabled' <=> <<d, v>> \in enabled
  BY DEF Undisturbed
<1>2. step'[d] \in Failing => Taken(d)'
  BY TakenStays DEF Smooth, Undisturbed
<1>3. todo[d] \subseteq ClientVolumes[d] /\ todo'[d] = todo[d] /\ step'[d] = step[d]
  BY DEF Undisturbed, Inv, TypeInv, LoopInv
<1> QED
  BY <1>1, <1>2, <1>3 DEF Smooth, Off

LEMMA PrepareIsSmooth ==
    ASSUME Inv, NEW c \in Clients, Smooth(c), Prepare(c)
    PROVE  Smooth(c)'
<1>1. /\ step'[c] = "disabling" /\ todo'[c] = ClientVolumes[c] /\ c \notin sessions
      /\ sessions' = sessions /\ active' = active
  BY DEF Prepare, GoTo, Inv, TypeInv, TypeOK
<1> QED
  BY <1>1 DEF Smooth, Failing, Resting

LEMMA DisableIsSmooth ==
    ASSUME Inv, NEW c \in Clients, Smooth(c), Disable(c), faults' = faults
    PROVE  Smooth(c)'
<1> DEFINE v == Current(c)
<1>1. /\ enabled' = enabled \ {<<c, v>>} /\ Advance(c, v, "verifyOff", {})
      /\ UNCHANGED <<active, sessions, release>> /\ step[c] = "disabling"
  BY DEF Disable, SetEnabled, Fault, Inv, TypeInv, TypeOK
<1>2. \/ step'[c] = "verifyOff" /\ todo[c] = {v}
      \/ step'[c] = "disabling" /\ todo'[c] = todo[c] \ {v}
  BY <1>1, AdvanceCases DEF Inv
<1>3. c \notin sessions /\ \A w \in ClientVolumes[c] \ (todo[c] \ {v}) : <<c, w>> \notin enabled'
  BY <1>1 DEF Smooth, Resting
<1> QED
  BY <1>1, <1>2, <1>3 DEF Smooth, Off, Failing, Resting

LEMMA VerifyOffIsSmooth ==
    ASSUME Inv, NEW c \in Clients, Smooth(c), VerifyOff(c), faults' = faults
    PROVE  Smooth(c)'
<1>1. step[c] = "verifyOff" /\ Off(c) /\ c \notin sessions /\ active # NoRelease
  BY DEF VerifyOff, Smooth, Resting
<1>2. step'[c] = "cloning" /\ sessions' = sessions /\ active' = active
  BY <1>1 DEF VerifyOff, Fault, GoTo, Inv, TypeInv, TypeOK
<1> QED
  BY <1>1, <1>2 DEF Smooth, Failing, Resting

(* Only a path that is taken ends it here.                                 *)
LEMMA EnsureIsSmooth ==
    ASSUME Inv, NEW c \in Clients, Smooth(c), EnsureReleaseClone(c), faults' = faults
    PROVE  Smooth(c)'
<1> DEFINE v == Current(c)
           p == ClonePath(c, v, release[c])
<1>1. /\ UNCHANGED <<active, enabled, disk, sessions, release>>
      /\ step[c] = "cloning" /\ v \in ClientVolumes[c] /\ c \notin sessions
  BY CurrentInTodo
     DEF EnsureReleaseClone, Inv, TypeInv, LoopInv, Looping, Smooth, Resting
<1>2. CASE Advance(c, v, "switching", ClientVolumes[c]) \/ UNCHANGED <<step, todo>>
  <2>1. step'[c] \in {"cloning", "switching"}
    BY <1>1, <1>2, AdvanceCases DEF Inv
  <2> QED
    BY <1>1, <2>1 DEF Smooth, Failing, Resting
<1>3. CASE zvol[p].owner \notin {Nobody, c} /\ Raise(c) /\ zvol' = zvol
  <2>1. step'[c] = "closing"
    BY <1>3, RaiseControl
  <2>2. release[c] \in Releases /\ release'[c] = release[c]
    BY <1>1 DEF Inv, ReleaseInv, Chosen
  <2>3. Taken(c)'
    BY <1>1, <1>3, <2>2, ConfigAssumption DEF Taken, Mine
  <2> QED
    BY <1>1, <2>1, <2>3 DEF Smooth, Failing, Resting
<1> QED
  BY <1>2, <1>3 DEF EnsureReleaseClone, VerifyClone, Fault, Inv, TypeInv, TypeOK

LEMMA SwitchDiskIsSmooth ==
    ASSUME Inv, NEW c \in Clients, Smooth(c), SwitchDisk(c), faults' = faults
    PROVE  Smooth(c)'
<1>1. Advance(c, Current(c), "rollback", ClientVolumes[c]) /\ step[c] = "switching"
  BY DEF SwitchDisk, Fault, Inv, TypeInv, TypeOK
<1>2. step'[c] \in {"switching", "rollback"} /\ UNCHANGED <<active, sessions>>
  BY <1>1, AdvanceCases DEF Inv, SwitchDisk
<1> QED
  BY <1>1, <1>2 DEF Smooth, Failing, Resting

LEMMA RollbackIsSmooth ==
    ASSUME Inv, NEW c \in Clients, Smooth(c), Rollback(c), faults' = faults
    PROVE  Smooth(c)'
<1>1. Advance(c, Current(c), "enabling", ClientVolumes[c]) /\ step[c] = "rollback"
  BY DEF Rollback, Fault, Inv, TypeInv, TypeOK
<1>2. /\ \/ step'[c] = "rollback"
         \/ step'[c] = "enabling" /\ todo'[c] = ClientVolumes[c]
      /\ UNCHANGED <<active, sessions>>
  BY <1>1, AdvanceCases DEF Inv, Rollback
<1> QED
  BY <1>1, <1>2 DEF Smooth, Failing, Resting

LEMMA EnableIsSmooth ==
    ASSUME Inv, NEW c \in Clients, Smooth(c), Enable(c), faults' = faults
    PROVE  Smooth(c)'
<1> DEFINE v == Current(c)
<1>1. /\ enabled' = enabled \cup {<<c, v>>} /\ Advance(c, v, "verifyOn", {})
      /\ UNCHANGED <<active, sessions, release>> /\ step[c] = "enabling"
  BY DEF Enable, SetEnabled, Fault, Inv, TypeInv, TypeOK
<1>2. \/ step'[c] = "verifyOn" /\ todo[c] = {v}
      \/ step'[c] = "enabling" /\ todo'[c] = todo[c] \ {v}
  BY <1>1, AdvanceCases DEF Inv
<1>3. c \notin sessions /\ \A w \in ClientVolumes[c] \ (todo[c] \ {v}) : <<c, w>> \in enabled'
  BY <1>1 DEF Smooth, Resting
<1> QED
  BY <1>1, <1>2, <1>3 DEF Smooth, Failing, Resting

LEMMA EndIsSmooth ==
    ASSUME Inv, [Next]_vars, NEW c \in Clients, Smooth(c), faults' = faults,
           VerifyOn(c) \/ Answer(c) \/ CloseFirst(c) \/ Close(c)
    PROVE  Smooth(c)'
<1>1. CASE VerifyOn(c)
  <2>1. FinalExtents(c) /\ c \notin sessions
    BY <1>1 DEF VerifyOn, FinalExtents, Smooth, Inv, SafeInv, Progress, Chosen, Mine, Resting
  <2>2. step'[c] = "answering" /\ UNCHANGED <<active, sessions>>
    BY <1>1, <2>1 DEF VerifyOn, Fault, GoTo, Inv, TypeInv, TypeOK
  <2> QED
    BY <2>1, <2>2 DEF Smooth, Failing, Resting
<1>2. CASE Answer(c)
  <2>1. step'[c] = "ready" /\ UNCHANGED active
    BY <1>2 DEF Answer, Fault, GoTo, Inv, TypeInv, TypeOK
  <2> QED
    BY <2>1 DEF Smooth, Failing, Resting
<1>3. CASE Close(c)
  <2>1. /\ step[c] = "closing" /\ step'[c] \in {"closing", "failed"}
        /\ UNCHANGED <<active, sessions, release>>
    BY <1>3, AdvanceCases DEF Close, BestEffortDisable, Inv
  <2>2. Taken(c)'
    BY <2>1, TakenStays DEF Smooth, Failing
  <2> QED
    BY <2>1, <2>2 DEF Smooth, Failing, Resting
<1>4. ~CloseFirst(c)
  BY DEF CloseFirst, BestEffortDisable, Smooth, Failing
<1> QED
  BY <1>1, <1>2, <1>3, <1>4

LEMMA SmoothStays ==
    ASSUME Inv, [Next]_vars, NEW c \in Clients, Smooth(c), faults' = faults
    PROVE  Smooth(c)'
<1>1. CASE Prepare(c) \/ Proceed(c)
  BY <1>1, PrepareIsSmooth, DisableIsSmooth, VerifyOffIsSmooth, EnsureIsSmooth,
     SwitchDiskIsSmooth, RollbackIsSmooth, EnableIsSmooth, EndIsSmooth DEF Proceed
<1>2. active' # NoRelease
  <2>1. CASE UNCHANGED vars
    BY <2>1 DEF Smooth, vars
  <2> QED
    BY <2>1, ActiveStep, ConfigAssumption DEF Smooth
<1>3. ASSUME NEW d \in Clients, d # c, Prepare(d) \/ Proceed(d) PROVE Smooth(c)'
  <2>1. sessions' = sessions
    BY <1>3 DEF Prepare, Proceed, Disable, Enable, SetEnabled, VerifyOff, EnsureReleaseClone,
       SwitchDisk, Rollback, VerifyOn, Answer, CloseFirst, Close, BestEffortDisable
  <2>2. Undisturbed(c)
    BY <1>3, Others DEF OthersUndisturbed
  <2> QED
    BY <1>2, <2>1, <2>2, SmoothUndisturbed DEF Smooth
<1>4. ASSUME NEW d \in Clients, Login(d) PROVE Smooth(c)'
  <2>1. step[c] \notin Resting => c \notin sessions'
    BY <1>4 DEF Login, Fault, Resting, Smooth, Inv, TypeInv, TypeOK
  <2>2. Undisturbed(c)
    BY <1>4 DEF Login, Undisturbed, storage, control
  <2> QED
    BY <1>2, <2>1, <2>2, SmoothUndisturbed
<1>5. ASSUME UNCHANGED <<enabled, disk, control>>, sessions' \subseteq sessions PROVE Smooth(c)'
  <2>1. Undisturbed(c)
    BY <1>5 DEF Undisturbed, control
  <2> QED
    BY <1>2, <1>5, <2>1, SmoothUndisturbed DEF Smooth
<1>6. ~Restart
  BY DEF Restart, Fault, Inv, TypeInv, TypeOK
<1>7. ASSUME NEW d \in Clients, Logout(d) PROVE Smooth(c)'
  BY <1>5, <1>7 DEF Logout, storage
<1>8. ASSUME NEW e \in Extents, Write(e) PROVE Smooth(c)'
  BY <1>5, <1>8 DEF Write
<1>9. ASSUME NEW r \in Releases, Activate(r) PROVE Smooth(c)'
  BY <1>5, <1>9 DEF Activate, storage
<1>10. CASE UNCHANGED vars
  BY <1>5, <1>10 DEF vars, storage, control
<1> QED
  BY <1>1, <1>3, <1>4, <1>6, <1>7, <1>8, <1>9, <1>10 DEF Next

LEMMA FaultsGrow ==
    ASSUME Inv, [Next]_vars
    PROVE  faults' \in Nat /\ (faults' = faults \/ faults' > faults)
<1>1. ASSUME NEW c \in Clients, Prepare(c) \/ Proceed(c) PROVE faults' = faults \/ Fault
  BY <1>1 DEF Prepare, Proceed, Disable, Enable, SetEnabled, VerifyOff, EnsureReleaseClone,
     SwitchDisk, Rollback, VerifyOn, Answer, CloseFirst, Close, BestEffortDisable
<1>2. faults' = faults \/ Fault
  BY <1>1 DEF Next, Login, Logout, Write, Activate, Restart, vars
<1> QED
  BY <1>2 DEF Fault, Inv, TypeInv, TypeOK

(* Once a release is active, a prepare during which no further call fails, *)
(* nothing restarts and nobody logs in ends with the answer ready, unless  *)
(* a path it needs is somebody else's; whatever clones, snapshots and      *)
(* half-switched extents earlier prepares left behind (prepare).           *)
THEOREM NoFaultNoFailure ==
    ASSUME NEW c \in Clients, NEW f \in Nat
    PROVE  Spec => [](Beginning(c) /\ active # NoRelease /\ faults = f
                        => [](faults = f => (step[c] \in Failing => Taken(c))))
<1> DEFINE Well == faults \in Nat /\ (faults > f \/ (faults = f /\ Smooth(c)))
<1>1. Inv /\ Beginning(c) /\ active # NoRelease /\ faults = f => Well
  BY DEF Beginning, Smooth, Failing, Resting
<1>2. Inv /\ Well /\ [Next]_vars => Well'
  <2> SUFFICES ASSUME Inv, Well, [Next]_vars PROVE Well'
    OBVIOUS
  <2>1. faults' \in Nat /\ (faults' = faults \/ faults' > faults)
    BY FaultsGrow
  <2>2. faults' = faults /\ Smooth(c) => Smooth(c)'
    BY SmoothStays
  <2> QED
    BY <2>1, <2>2
<1>3. Well => (faults = f => (step[c] \in Failing => Taken(c)))
  BY DEF Smooth
<1> HIDE DEF Well
<1> QED
  BY <1>1, <1>2, <1>3, Safety, PTL DEF Spec

(* The phases of a prepare in their order.                                 *)
Phase == [idle |-> 0, disabling |-> 1, verifyOff |-> 2, cloning |-> 3, switching |-> 4,
          rollback |-> 5, enabling |-> 6, verifyOn |-> 7, answering |-> 8,
          closingFirst |-> 9, closing |-> 10, failed |-> 11, ready |-> 11]

(* A step of a prepare leads to a later phase, leaves a volume less in its *)
(* loop, or makes a clone that was missing.                                *)
Nearer(c) ==
    \/ Phase[step'[c]] > Phase[step[c]]
    \/ step'[c] = step[c] /\ todo'[c] \subseteq todo[c] /\ todo'[c] # todo[c]
    \/ /\ UNCHANGED <<step[c], todo[c], release[c]>>
       /\ zvol[Mine(c, Current(c))].owner = Nobody /\ zvol'[Mine(c, Current(c))].owner = c

EveryCallCounts ==
    [][\A c \in Clients : step[c] \notin Resting =>
          \/ Proceed(c) /\ Nearer(c)
          \/ UNCHANGED <<step[c], todo[c], release[c]>>
          \/ Restart /\ step'[c] = "idle"]_vars

LEMMA AdvanceIsNearer ==
    ASSUME Inv, NEW c \in Clients, NEW next, NEW work,
           Advance(c, Current(c), next, work), step[c] \in Looping,
           Phase[next] > Phase[step[c]]
    PROVE  Nearer(c)
<1>1. Current(c) \in todo[c]
  BY CurrentInTodo DEF Inv, TypeInv, LoopInv
<1> QED
  BY <1>1, AdvanceCases DEF Inv, Nearer

LEMMA RaiseIsNearer ==
    ASSUME Inv, NEW c \in Clients, Raise(c), step[c] \notin {"closing", "failed", "ready"}
    PROVE  Nearer(c)
<1>1. step'[c] = "closing" /\ step[c] \in Steps
  BY RaiseControl DEF Inv, TypeInv, TypeOK
<1> QED
  BY <1>1 DEF Nearer, Phase, Steps, Resting

LEMMA EnsureIsNearer ==
    ASSUME Inv, NEW c \in Clients, EnsureReleaseClone(c)
    PROVE  Nearer(c)
<1> DEFINE v == Current(c)
           p == ClonePath(c, v, release[c])
<1>1. step[c] = "cloning" /\ v \in ClientVolumes[c]
  BY CurrentInTodo DEF EnsureReleaseClone, Inv, TypeInv, LoopInv, Looping
<1>2. CASE Raise(c)
  BY <1>1, <1>2, RaiseIsNearer
<1>3. CASE Advance(c, v, "switching", ClientVolumes[c])
  BY <1>1, <1>3, AdvanceIsNearer DEF Looping, Phase
<1>4. CASE /\ zvol[p].owner = Nobody /\ UNCHANGED <<step, todo, release>>
           /\ zvol' = [zvol EXCEPT ![p] = [owner |-> c, data |-> "pristine", clean |-> "none"]]
  <2>1. p \in Paths /\ p = Mine(c, v)
    BY <1>1, MinePath DEF Mine, Inv, Chosen
  <2>2. zvol'[p].owner = c
    BY <1>4, <2>1 DEF Inv, TypeInv, TypeOK
  <2> QED
    BY <1>4, <2>1, <2>2 DEF Nearer
<1> QED
  BY <1>2, <1>3, <1>4 DEF EnsureReleaseClone

LEMMA ProceedIsNearer ==
    ASSUME Inv, NEW c \in Clients, Proceed(c)
    PROVE  Nearer(c)
<1> USE DEF Looping, Phase
<1>1. CASE Disable(c)
  BY <1>1, AdvanceIsNearer, RaiseIsNearer DEF Disable, SetEnabled
<1>2. CASE VerifyOff(c)
  <2>1. step'[c] \in {"cloning", "closing"} /\ step[c] = "verifyOff"
    BY <1>2 DEF VerifyOff, Raise, GoTo, Inv, TypeInv, TypeOK
  <2> QED
    BY <2>1 DEF Nearer
<1>3. CASE EnsureReleaseClone(c)
  BY <1>3, EnsureIsNearer
<1>4. CASE SwitchDisk(c)
  BY <1>4, AdvanceIsNearer, RaiseIsNearer DEF SwitchDisk
<1>5. CASE Rollback(c)
  BY <1>5, AdvanceIsNearer, RaiseIsNearer DEF Rollback
<1>6. CASE Enable(c)
  BY <1>6, AdvanceIsNearer, RaiseIsNearer DEF Enable, SetEnabled
<1>7. CASE VerifyOn(c)
  <2>1. step'[c] \in {"answering", "closingFirst", "closing"} /\ step[c] = "verifyOn"
    BY <1>7 DEF VerifyOn, Raise, GoTo, Inv, TypeInv, TypeOK
  <2> QED
    BY <2>1 DEF Nearer
<1>8. CASE Answer(c)
  <2>1. step'[c] \in {"ready", "closing"} /\ step[c] = "answering"
    BY <1>8 DEF Answer, Raise, GoTo, Inv, TypeInv, TypeOK
  <2> QED
    BY <2>1 DEF Nearer
<1>9. CASE CloseFirst(c) \/ Close(c)
  BY <1>9, AdvanceIsNearer DEF CloseFirst, Close, BestEffortDisable
<1> QED
  BY <1>1, <1>2, <1>3, <1>4, <1>5, <1>6, <1>7, <1>8, <1>9 DEF Proceed

(* A prepare takes finitely many calls: each one of its own brings it      *)
(* nearer to its answer, and nothing but a restart ends it from outside,   *)
(* no other prepare sets it back (prepare).                                *)
THEOREM PreparesAreFinite == Spec => EveryCallCounts
<1>1. ASSUME Inv, [Next]_vars, NEW c \in Clients, step[c] \notin Resting
      PROVE  \/ Proceed(c) /\ Nearer(c)
             \/ UNCHANGED <<step[c], todo[c], release[c]>>
             \/ Restart /\ step'[c] = "idle"
  <2>1. ~Prepare(c)
    BY <1>1 DEF Prepare
  <2>2. ASSUME NEW d \in Clients, d # c, Prepare(d) \/ Proceed(d)
        PROVE  UNCHANGED <<step[c], todo[c], release[c]>>
    BY <1>1, <2>2, Others DEF OthersUndisturbed, Undisturbed
  <2>3. CASE Restart
    BY <1>1, <2>3 DEF Restart
  <2>4. CASE UNCHANGED control
    BY <2>4 DEF control
  <2> QED
    BY <1>1, <2>1, <2>2, <2>3, <2>4, ProceedIsNearer
       DEF Next, Login, Logout, Write, Activate, vars, control
<1>2. Inv /\ [Next]_vars =>
        \A c \in Clients : step[c] \notin Resting =>
          \/ Proceed(c) /\ Nearer(c)
          \/ UNCHANGED <<step[c], todo[c], release[c]>>
          \/ Restart /\ step'[c] = "idle"
  BY <1>1
<1> QED
  BY <1>2, Safety, PTL DEF Spec, EveryCallCounts
=============================================================================
