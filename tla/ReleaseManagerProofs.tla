------------------------ MODULE ReleaseManagerProofs ------------------------
(***************************************************************************)
(* The safety properties of ReleaseManager, and that it implements         *)
(* ReleasePublication, for any volumes, datasets, releases, requests,      *)
(* snapshots left over from before, writes and faults; that the database   *)
(* keeps its promises below it, and that all this holds behind the         *)
(* management API.                                                         *)
(***************************************************************************)
EXTENDS ManagementApi, ReleaseStoreProofs

(* The steps that loop over the volumes: there is a current one.           *)
Looping == {"disabling", "snapshotting", "enabling", "closingFirst", "closing"}

(* The steps of a stage before it has its release, and those after.        *)
Unnamed == {"disabling", "verifyOff", "reserving"}
Named == {"snapshotting", "checking", "enabling", "verifyOn", "marking"}

TypeInv ==
    /\ TypeOK
    /\ step \in Looping => todo # {}

Complete(n) == \A v \in Volumes : mapping[n][v] # NoSnapshot

(* What the database says by itself.                                       *)
DbInv ==
    /\ \A n \in Releases : status[n] = "absent" =>
          request[n] = NoRequest /\ \A v \in Volumes : mapping[n][v] = NoSnapshot
    /\ \A m, n \in Releases : status[m] = "incomplete" /\ status[n] = "incomplete" => m = n
    /\ \A n \in Releases, v \in Volumes : mapping[n][v] \in {NoSnapshot, SnapshotPath(v, n)}
    /\ \A n \in Releases : status[n] = "staged" => Complete(n)

(* What an operation has established when it is at step.                   *)
AttemptInv ==
    /\ step \in {"reserving", "snapshotting", "checking"} => enabled = {}
    /\ step \in Unnamed => id \in Requests /\ \A n \in ByRequest(id) : status[n] # "staged"
    /\ step \in Named => name \in Releases /\ status[name] = "incomplete"
    /\ step \in {"enabling", "verifyOn", "marking"} => Complete(name)
    /\ step = "activating" => name \in Releases /\ id \in Requests

(* The snapshots of a release agree; while one is missing, those that      *)
(* exist also agree with the masters, which nobody can write.              *)
Agree(n) ==
    \A v, w \in Volumes :
        Exists(SnapshotPath(v, n)) =>
            IF Exists(SnapshotPath(w, n))
            THEN snaps[SnapshotPath(v, n)] = snaps[SnapshotPath(w, n)]
            ELSE enabled = {} /\ snaps[SnapshotPath(v, n)] = writes

WholeInv ==
    /\ RecordedExists
    /\ \A n \in Releases : status[n] # "absent" => Agree(n)

Inv == TypeInv /\ DbInv /\ AttemptInv /\ WholeInv
-----------------------------------------------------------------------------
LEMMA CurrentInTodo ==
    ASSUME TypeInv, step \in Looping
    PROVE  Current \in todo /\ Current \in Volumes
  BY DEF TypeInv, TypeOK, Current

LEMMA PathIsSnapshot ==
    ASSUME NEW v \in Volumes, NEW n \in Releases
    PROVE  /\ SnapshotPath(v, n) \in Snapshots
           /\ SnapshotPath(v, n)[2] = n
           /\ SnapshotPath(v, n) # NoSnapshot
  BY ManagerAssumption, StoreAssumption DEF SnapshotPath, Snapshots

LEMMA ContentIsNumber == \A x \in Contents : x \in Nat /\ x # NoContent
  BY ManagerAssumption DEF Contents

(* GoTo, Raise and Advance keep the control variables well-formed.         *)
LEMMA GoToType ==
    ASSUME TypeInv, NEW next \in Steps, NEW work \in SUBSET Volumes,
           GoTo(next, work), next \in Looping => work # {}
    PROVE  /\ step' \in Steps /\ todo' \subseteq Volumes /\ id' = id
           /\ step' \in Looping => todo' # {}
  BY DEF GoTo

LEMMA RaiseType ==
    ASSUME TypeInv, Raise
    PROVE  /\ step' = "closing" /\ step' \in Steps /\ todo' \subseteq Volumes /\ id' = id
           /\ step' \in Looping => todo' # {}
  BY StoreAssumption DEF Raise, GoTo, Steps

LEMMA AdvanceType ==
    ASSUME TypeInv, step \in Looping, NEW next \in Steps, NEW work \in SUBSET Volumes,
           Advance(Current, next, work), next \in Looping => work # {}
    PROVE  /\ step' \in Steps /\ todo' \subseteq Volumes /\ id' = id
           /\ step' \in Looping => todo' # {}
           /\ step' = step \/ step' = next
  <1>1. step \in Steps /\ todo \ {Current} \in SUBSET Volumes
    BY DEF TypeInv, TypeOK
  <1>2. CASE todo = {Current}
    BY <1>2, GoToType DEF Advance, GoTo
  <1>3. CASE todo # {Current}
    <2>1. todo \ {Current} # {}
      BY <1>3, CurrentInTodo
    <2> QED
      BY <1>1, <1>3, <2>1, GoToType DEF Advance, GoTo
  <1> QED
    BY <1>2, <1>3
-----------------------------------------------------------------------------
LEMMA InitInv == Init => Inv
<1> SUFFICES ASSUME Init PROVE Inv
  OBVIOUS
<1>1. TypeInv
  BY StoreAssumption, ManagerAssumption
     DEF Init, StoreInit, TypeInv, TypeOK, StoreTypeOK, Looping, Steps, Resting, Contents
<1>2. DbInv
  BY DEF Init, StoreInit, DbInv
<1>3. AttemptInv
  BY DEF Init, AttemptInv, Unnamed, Named
<1>4. WholeInv
  BY DEF Init, StoreInit, WholeInv, RecordedExists
<1> QED
  BY <1>1, <1>2, <1>3, <1>4 DEF Inv
-----------------------------------------------------------------------------
(* Type correctness.                                                       *)

LEMMA FaultType == TypeInv /\ Fault => faults' \in 0..MaxFaults
  BY ManagerAssumption DEF TypeInv, TypeOK, Fault

LEMMA DbUnchanged ==
    ASSUME UNCHANGED db
    PROVE  /\ UNCHANGED <<status, request, mapping, active, operations>>
           /\ StoreTypeOK => StoreTypeOK'
  BY DEF db, StoreTypeOK

LEMMA SetEnabledType ==
    ASSUME TypeInv, NEW from \in Looping, NEW next \in Steps \ Looping, NEW done \in SUBSET Volumes,
           SetEnabled(from, done, next)
    PROVE  TypeInv'
  <1>1. step' \in Steps /\ todo' \subseteq Volumes /\ id' = id /\ (step' \in Looping => todo' # {})
    <2>1. CASE Raise
      BY <2>1, RaiseType
    <2>2. CASE Advance(Current, next, {})
      BY <2>2, AdvanceType DEF SetEnabled
    <2> QED
      BY <2>1, <2>2 DEF SetEnabled
  <1>2. enabled' \subseteq Volumes /\ faults' \in 0..MaxFaults
    BY FaultType DEF SetEnabled, TypeInv, TypeOK
  <1> QED
    BY <1>1, <1>2, DbUnchanged DEF SetEnabled, TypeInv, TypeOK, publisher

LEMMA BestEffortType ==
    ASSUME TypeInv, NEW from \in Looping, NEW next \in Steps, NEW after \in SUBSET Volumes,
           next \in Looping => after # {}, BestEffortDisable(from, next, after)
    PROVE  TypeInv'
  <1>1. step' \in Steps /\ todo' \subseteq Volumes /\ id' = id /\ (step' \in Looping => todo' # {})
    BY AdvanceType DEF BestEffortDisable
  <1>2. enabled' \subseteq Volumes /\ faults' \in 0..MaxFaults
    BY FaultType DEF BestEffortDisable, TypeInv, TypeOK
  <1> QED
    BY <1>1, <1>2, DbUnchanged DEF BestEffortDisable, TypeInv, TypeOK, publisher

LEMMA ReserveType ==
    ASSUME StoreTypeOK, NEW n \in Releases, NEW i \in Requests \cup {NoRequest}, Reserve(n, i)
    PROVE  StoreTypeOK'
  BY DEF StoreTypeOK, Reserve

LEMMA AddSnapshotType ==
    ASSUME StoreTypeOK, NEW n, NEW v, NEW s \in Snapshots, AddSnapshot(n, v, s)
    PROVE  StoreTypeOK'
  BY DEF StoreTypeOK, AddSnapshot

LEMMA MarkStagedType ==
    ASSUME StoreTypeOK, NEW n, MarkStaged(n, Volumes)
    PROVE  StoreTypeOK'
  BY DEF StoreTypeOK, MarkStaged

LEMMA SetActiveType ==
    ASSUME StoreTypeOK, NEW n \in Releases \cup {NoRelease}, NEW i, SetActive(n, i)
    PROVE  StoreTypeOK'
  BY DEF StoreTypeOK, SetActive

LEMMA TypeStep == Inv /\ [Next]_vars => TypeInv'
<1> SUFFICES ASSUME Inv, [Next]_vars PROVE TypeInv'
  OBVIOUS
<1>0. TypeInv /\ TypeOK /\ StoreTypeOK
  BY DEF Inv, TypeInv, TypeOK
<1>1. ASSUME NEW rid \in Requests, Stage(rid) PROVE TypeInv'
  <2>1. step' \in Steps /\ todo' \subseteq Volumes /\ (step' \in Looping => todo' # {})
        /\ name' \in Releases \cup {NoRelease} /\ id' \in Requests
    BY <1>1, StoreAssumption DEF Stage, Steps, Resting, Looping, ByRequest
  <2> QED
    BY <1>0, <1>1, <2>1, DbUnchanged DEF Stage, TypeInv, TypeOK, publisher, backend
<1>2. CASE Disable
  BY <1>0, <1>2, SetEnabledType DEF Disable, Looping, Steps, TypeOK
<1>3. CASE Enable
  <2>1. enabled \cup {Current} \in SUBSET Volumes
    BY <1>0, <1>3, CurrentInTodo DEF Enable, SetEnabled, Looping, TypeOK
  <2> QED
    BY <1>0, <1>3, <2>1, SetEnabledType DEF Enable, Looping, Steps
<1>4. CASE VerifyOff
  <2>1. step' \in Steps /\ todo' \subseteq Volumes /\ id' = id /\ (step' \in Looping => todo' # {})
    BY <1>0, <1>4, RaiseType, GoToType DEF VerifyOff, Steps, Looping
  <2> QED
    BY <1>0, <1>4, <2>1, FaultType, DbUnchanged
       DEF VerifyOff, TypeInv, TypeOK, publisher, backend
<1>5. CASE ReserveRelease
  <2>1. step' \in Steps /\ todo' \subseteq Volumes /\ id' = id /\ (step' \in Looping => todo' # {})
    BY <1>0, <1>5, RaiseType, GoToType, StoreAssumption DEF ReserveRelease, Steps, Looping
  <2>2. faults' \in 0..MaxFaults
    BY <1>0, <1>5, FaultType DEF ReserveRelease, TypeOK
  <2>3. name' \in Releases \cup {NoRelease}
    BY <1>0, <1>5 DEF ReserveRelease, TypeOK, ByRequest
  <2>4. StoreTypeOK'
    BY <1>0, <1>5, ReserveType, DbUnchanged DEF ReserveRelease, TypeOK
  <2> QED
    BY <1>0, <1>5, <2>1, <2>2, <2>3, <2>4 DEF ReserveRelease, TypeInv, TypeOK, publisher, backend
<1>6. CASE TakeSnapshot
  <2> DEFINE v == Current
             s == SnapshotPath(v, name)
  <2>0. step \in Looping /\ v \in Volumes /\ name \in Releases
    BY <1>0, <1>6, CurrentInTodo DEF TakeSnapshot, Looping, Inv, AttemptInv, Named
  <2>1. s \in Snapshots
    BY <2>0, PathIsSnapshot
  <2>2. step' \in Steps /\ todo' \subseteq Volumes /\ id' = id /\ (step' \in Looping => todo' # {})
    <3>1. CASE Raise
      BY <1>0, <3>1, RaiseType
    <3>2. CASE Advance(v, "checking", {})
      BY <1>0, <2>0, <3>2, AdvanceType DEF Steps, Looping
    <3>3. CASE UNCHANGED <<step, todo, id>>
      BY <1>0, <3>3 DEF TypeInv, TypeOK
    <3> QED
      BY <1>6, <3>1, <3>2, <3>3 DEF TakeSnapshot
  <2>3. faults' \in 0..MaxFaults
    BY <1>0, <1>6, FaultType DEF TakeSnapshot, TypeOK
  <2>4. StoreTypeOK'
    BY <1>0, <1>6, <2>1, AddSnapshotType, DbUnchanged DEF TakeSnapshot
  <2>5. snaps' \in [Snapshots -> Contents \cup {NoContent}]
    BY <1>0, <1>6, <2>1 DEF TakeSnapshot, TypeOK
  <2> QED
    BY <1>0, <1>6, <2>2, <2>3, <2>4, <2>5 DEF TakeSnapshot, TypeInv, TypeOK, publisher
<1>7. CASE CheckSet
  <2>1. step' \in Steps /\ todo' \subseteq Volumes /\ id' = id /\ (step' \in Looping => todo' # {})
    BY <1>0, <1>7, RaiseType, GoToType, StoreAssumption DEF CheckSet, Steps, Looping
  <2> QED
    BY <1>0, <1>7, <2>1, FaultType, DbUnchanged
       DEF CheckSet, TypeInv, TypeOK, publisher, backend
<1>8. CASE VerifyOn
  <2>1. step' \in Steps /\ todo' \subseteq Volumes /\ id' = id /\ (step' \in Looping => todo' # {})
    BY <1>0, <1>8, RaiseType, GoToType, StoreAssumption DEF VerifyOn, Steps, Looping
  <2> QED
    BY <1>0, <1>8, <2>1, FaultType, DbUnchanged
       DEF VerifyOn, TypeInv, TypeOK, publisher, backend
<1>9. CASE Mark
  <2>1. step' \in Steps /\ todo' \subseteq Volumes /\ id' = id /\ (step' \in Looping => todo' # {})
    BY <1>0, <1>9, RaiseType, GoToType DEF Mark, Steps, Looping, Resting
  <2>2. StoreTypeOK' /\ faults' \in 0..MaxFaults
    BY <1>0, <1>9, MarkStagedType, DbUnchanged, FaultType DEF Mark, TypeOK
  <2> QED
    BY <1>0, <1>9, <2>1, <2>2 DEF Mark, TypeInv, TypeOK, publisher, backend
<1>10. CASE CloseFirst
  BY <1>0, <1>10, StoreAssumption, BestEffortType DEF CloseFirst, Looping, Steps
<1>11. CASE Close
  BY <1>0, <1>11, BestEffortType DEF Close, Looping, Steps, Resting
<1>12. CASE CommitActivation
  <2>1. step' \in Steps /\ todo' \subseteq Volumes /\ id' = id /\ (step' \in Looping => todo' # {})
    BY <1>0, <1>12, GoToType DEF CommitActivation, Steps, Looping, Resting
  <2>2. StoreTypeOK' /\ faults' \in 0..MaxFaults
    BY <1>0, <1>12, SetActiveType, DbUnchanged, FaultType DEF CommitActivation, TypeOK
  <2> QED
    BY <1>0, <1>12, <2>1, <2>2 DEF CommitActivation, TypeInv, TypeOK, publisher, backend
<1>13. ASSUME NEW n \in Releases, NEW rid \in Requests, ActivateRelease(n, rid) PROVE TypeInv'
  BY <1>0, <1>13, DbUnchanged
     DEF ActivateRelease, TypeInv, TypeOK, publisher, backend, Steps, Looping
<1>14. CASE Login \/ Logout
  BY <1>0, <1>14, DbUnchanged, FaultType
     DEF Login, Logout, TypeInv, TypeOK, backend, control
<1>15. CASE Write
  BY <1>0, <1>15, DbUnchanged, ManagerAssumption
     DEF Write, TypeInv, TypeOK, backend, control, Contents
<1>16. CASE Restart
  BY <1>0, <1>16, DbUnchanged, FaultType, GoToType
     DEF Restart, TypeInv, TypeOK, backend, publisher, Steps, Resting, Looping
<1>17. CASE UNCHANGED vars
  BY <1>0, <1>17, DbUnchanged DEF vars, TypeInv, TypeOK, backend, publisher, control
<1> QED
  BY <1>1, <1>2, <1>3, <1>4, <1>5, <1>6, <1>7, <1>8, <1>9, <1>10, <1>11, <1>12, <1>13,
     <1>14, <1>15, <1>16, <1>17 DEF Next, Proceed, Environment
-----------------------------------------------------------------------------
(* The transactions.                                                       *)

LEMMA ReserveDb ==
    ASSUME StoreTypeOK, DbInv, NEW n \in Releases, NEW i \in Requests, Reserve(n, i)
    PROVE  /\ DbInv'
           /\ status[n] = "absent" /\ status'[n] = "incomplete" /\ mapping' = mapping
           /\ \A m \in Releases : m # n => status'[m] = status[m]
  <1>1. /\ status[n] = "absent" /\ status'[n] = "incomplete" /\ mapping' = mapping
        /\ \A m \in Releases : m # n => status'[m] = status[m] /\ request'[m] = request[m]
    BY DEF Reserve, StoreTypeOK
  <1>2. \A m \in Releases : status[m] # "incomplete"
    <2> SUFFICES ASSUME NEW m \in Releases, status[m] = "incomplete" PROVE FALSE
      OBVIOUS
    <2>1. request[m] = i
      BY DEF Reserve, Blocked, Pending
    <2> QED
      BY <2>1 DEF Reserve, ByRequest
  <1> QED
    BY <1>1, <1>2 DEF DbInv, Complete

LEMMA AddSnapshotDb ==
    ASSUME StoreTypeOK, DbInv, NEW n \in Releases, NEW v \in Volumes,
           AddSnapshot(n, v, SnapshotPath(v, n))
    PROVE  /\ DbInv'
           /\ status[n] = "incomplete" /\ status' = status
           /\ mapping'[n][v] = SnapshotPath(v, n)
           /\ \A m \in Releases, w \in Volumes : <<m, w>> # <<n, v>> => mapping'[m][w] = mapping[m][w]
  <1>1. /\ status[n] = "incomplete" /\ status' = status /\ request' = request
        /\ mapping'[n][v] = SnapshotPath(v, n)
        /\ \A m \in Releases, w \in Volumes : <<m, w>> # <<n, v>> => mapping'[m][w] = mapping[m][w]
    BY DEF AddSnapshot, StoreTypeOK
  <1> QED
    BY <1>1 DEF DbInv, Complete

LEMMA MarkStagedDb ==
    ASSUME StoreTypeOK, DbInv, NEW n \in Releases, MarkStaged(n, Volumes)
    PROVE  /\ DbInv' /\ Complete(n)
           /\ status[n] # "absent" /\ status'[n] = "staged" /\ mapping' = mapping
           /\ \A m \in Releases : m # n => status'[m] = status[m]
  <1>1. /\ status[n] # "absent" /\ status'[n] = "staged"
        /\ mapping' = mapping /\ request' = request
        /\ \A m \in Releases : m # n => status'[m] = status[m]
    BY DEF MarkStaged, StoreTypeOK
  <1>2. Complete(n)
    BY DEF MarkStaged, Recorded, Complete
  <1> QED
    BY <1>1, <1>2 DEF DbInv, Complete

LEMMA DbKept ==
    ASSUME DbInv, UNCHANGED <<status, request, mapping>>
    PROVE  DbInv'
  BY DEF DbInv, Complete

LEMMA DbStep == Inv /\ [Next]_vars => DbInv'
<1> SUFFICES ASSUME Inv, [Next]_vars PROVE DbInv'
  OBVIOUS
<1>0. StoreTypeOK /\ DbInv
  BY DEF Inv, TypeInv, TypeOK
<1>1. CASE ReserveRelease
  <2>1. id \in Requests
    BY <1>1 DEF ReserveRelease, Inv, AttemptInv, Unnamed
  <2>2. CASE UNCHANGED db
    BY <1>0, <2>2, DbUnchanged, DbKept
  <2>3. ASSUME NEW n \in Releases, Reserve(n, id) PROVE DbInv'
    BY <1>0, <2>1, <2>3, ReserveDb
  <2> QED
    BY <1>1, <2>2, <2>3 DEF ReserveRelease
<1>2. CASE TakeSnapshot
  <2>1. Current \in Volumes /\ name \in Releases
    BY <1>2, CurrentInTodo DEF TakeSnapshot, Looping, Inv, AttemptInv, Named
  <2>2. CASE UNCHANGED db
    BY <1>0, <2>2, DbUnchanged, DbKept
  <2>3. CASE AddSnapshot(name, Current, SnapshotPath(Current, name))
    BY <1>0, <2>1, <2>3, AddSnapshotDb
  <2> QED
    BY <1>2, <2>2, <2>3 DEF TakeSnapshot
<1>3. CASE Mark
  <2>1. name \in Releases
    BY <1>3 DEF Mark, Inv, AttemptInv, Named
  <2>2. CASE UNCHANGED db
    BY <1>0, <2>2, DbUnchanged, DbKept
  <2>3. CASE MarkStaged(name, Volumes)
    BY <1>0, <2>1, <2>3, MarkStagedDb
  <2> QED
    BY <1>3, <2>2, <2>3 DEF Mark
<1>4. CASE CommitActivation
  <2>1. CASE UNCHANGED db
    BY <1>0, <2>1, DbUnchanged, DbKept
  <2>2. CASE SetActive(name, id)
    BY <1>0, <2>2, DbKept DEF SetActive
  <2> QED
    BY <1>4, <2>1, <2>2 DEF CommitActivation
<1>5. CASE UNCHANGED db
  BY <1>0, <1>5, DbUnchanged, DbKept
<1> QED
  BY <1>1, <1>2, <1>3, <1>4, <1>5
     DEF Next, Proceed, Environment, Stage, Disable, Enable, SetEnabled, VerifyOff, CheckSet,
         VerifyOn, CloseFirst, Close, BestEffortDisable, ActivateRelease, Login, Logout,
         Write, Restart, vars
-----------------------------------------------------------------------------
(* What an operation has established.                                      *)

(* At the other steps of an operation nothing is claimed.                  *)
LEMMA NothingClaimed ==
    ASSUME step' \notin Unnamed \cup Named \cup {"activating"}
    PROVE  AttemptInv'
  BY DEF AttemptInv, Unnamed, Named

LEMMA RaiseAttempt == Raise => AttemptInv'
  BY NothingClaimed DEF Raise, GoTo, Unnamed, Named

(* An operation that stays where it is, or moves within what it knows.     *)
LEMMA AttemptKept ==
    ASSUME AttemptInv, UNCHANGED db, UNCHANGED <<name, id>>,
           step' \in Unnamed => step \in Unnamed,
           step' \in Named => step \in Named,
           step' = "activating" => step = "activating",
           step' \in {"enabling", "verifyOn", "marking"} =>
               step \in {"enabling", "verifyOn", "marking"},
           step' \in {"reserving", "snapshotting", "checking"} => enabled' = {}
    PROVE  AttemptInv'
  <1>1. UNCHANGED <<status, request, mapping>>
    BY DbUnchanged
  <1> QED
    BY <1>1 DEF AttemptInv, ByRequest, Complete

LEMMA SnapshotAttempt == Inv /\ TakeSnapshot => AttemptInv'
<1> SUFFICES ASSUME Inv, TakeSnapshot PROVE AttemptInv'
  OBVIOUS
<1> DEFINE v == Current
           s == SnapshotPath(v, name)
<1>1. /\ TypeInv /\ step \in Looping /\ v \in Volumes /\ name \in Releases
      /\ enabled = {} /\ enabled' = {} /\ name' = name /\ StoreTypeOK /\ DbInv
      /\ status[name] = "incomplete"
  BY CurrentInTodo DEF TakeSnapshot, Looping, Inv, AttemptInv, Named, TypeInv, TypeOK
<1>2. CASE Raise
  BY <1>2, RaiseAttempt
<1>3. CASE ~Raise
  <2>1. status' = status
    BY <1>1, <1>3, AddSnapshotDb, DbUnchanged DEF TakeSnapshot
  <2>2. step' \in {"snapshotting", "checking"} /\ id' = id
    BY <1>1, <1>3, AdvanceType DEF TakeSnapshot, Steps, Looping
  <2> QED
    BY <1>1, <2>1, <2>2 DEF AttemptInv, Unnamed
<1> QED
  BY <1>2, <1>3

LEMMA AttemptStep == Inv /\ [Next]_vars => AttemptInv'
<1> SUFFICES ASSUME Inv, [Next]_vars PROVE AttemptInv'
  OBVIOUS
<1>0. TypeInv /\ AttemptInv /\ DbInv /\ StoreTypeOK
  BY DEF Inv, TypeInv, TypeOK
<1>1. ASSUME NEW rid \in Requests, Stage(rid) PROVE AttemptInv'
  <2>1. UNCHANGED <<status, request, mapping, enabled>>
    BY <1>1, DbUnchanged DEF Stage, backend
  <2> QED
    BY <1>1, <2>1 DEF Stage, AttemptInv, Unnamed, Named, ByRequest
<1>2. CASE Disable
  <2>1. CASE Raise
    BY <2>1, RaiseAttempt
  <2>2. CASE Advance(Current, "verifyOff", {})
    <3>1. step = "disabling" /\ UNCHANGED db /\ name' = name
      BY <1>2 DEF Disable, SetEnabled
    <3>2. step' \in {"disabling", "verifyOff"} /\ id' = id
      BY <1>0, <2>2, <3>1, AdvanceType DEF Looping, Steps
    <3> QED
      BY <1>0, <3>1, <3>2, AttemptKept DEF Unnamed, Named
  <2> QED
    BY <1>2, <2>1, <2>2 DEF Disable, SetEnabled
<1>3. CASE Enable
  <2>1. CASE Raise
    BY <2>1, RaiseAttempt
  <2>2. CASE Advance(Current, "verifyOn", {})
    <3>1. step = "enabling" /\ UNCHANGED db /\ name' = name
      BY <1>3 DEF Enable, SetEnabled
    <3>2. step' \in {"enabling", "verifyOn"} /\ id' = id
      BY <1>0, <2>2, <3>1, AdvanceType DEF Looping, Steps
    <3> QED
      BY <1>0, <3>1, <3>2, AttemptKept DEF Unnamed, Named
  <2> QED
    BY <1>3, <2>1, <2>2 DEF Enable, SetEnabled
<1>4. CASE VerifyOff
  <2>1. CASE Raise
    BY <2>1, RaiseAttempt
  <2>2. CASE ~Raise
    <3>1. /\ step = "verifyOff" /\ step' = "reserving" /\ id' = id /\ name' = name
          /\ UNCHANGED db /\ enabled' = {}
      BY <1>4, <2>2 DEF VerifyOff, GoTo, backend
    <3> QED
      BY <1>0, <3>1, AttemptKept DEF Unnamed, Named
  <2> QED
    BY <2>1, <2>2
<1>5. CASE ReserveRelease
  <2>1. CASE Raise
    BY <2>1, RaiseAttempt
  <2>2. CASE ~Raise
    <3>1. step' = "snapshotting" /\ enabled' = {}
      BY <1>0, <1>5, <2>2 DEF ReserveRelease, GoTo, AttemptInv, backend
    <3>2. id \in Requests /\ \A n \in ByRequest(id) : status[n] # "staged"
      BY <1>0, <1>5 DEF ReserveRelease, AttemptInv, Unnamed
    <3>3. ASSUME NEW n \in ByRequest(id), name' = n, UNCHANGED db PROVE AttemptInv'
      <4>1. n \in Releases /\ status[n] \notin {"absent", "staged"}
        BY <1>0, <3>2, <3>3, StoreAssumption DEF DbInv, ByRequest
      <4>2. status'[n] = "incomplete"
        BY <1>0, <3>3, <4>1, DbUnchanged DEF StoreTypeOK
      <4> QED
        BY <3>1, <3>3, <4>1, <4>2 DEF AttemptInv, Unnamed
    <3>4. ASSUME NEW n \in Releases, name' = n, Reserve(n, id) PROVE AttemptInv'
      <4>1. status'[n] = "incomplete"
        BY <1>0, <3>2, <3>4, ReserveDb
      <4> QED
        BY <3>1, <3>4, <4>1 DEF AttemptInv, Unnamed
    <3> QED
      BY <1>5, <2>2, <3>3, <3>4 DEF ReserveRelease
  <2> QED
    BY <2>1, <2>2
<1>6. CASE TakeSnapshot
  BY <1>6, SnapshotAttempt
<1>7. CASE CheckSet
  <2>1. CASE Raise
    BY <2>1, RaiseAttempt
  <2>2. CASE ~Raise
    <3>1. /\ step = "checking" /\ step' = "enabling" /\ name' = name /\ UNCHANGED db
          /\ \A v \in Volumes : mapping[name][v] = SnapshotPath(v, name)
      BY <1>7, <2>2 DEF CheckSet, GoTo
    <3>2. name \in Releases /\ status[name] = "incomplete"
      BY <1>0, <3>1 DEF AttemptInv, Named
    <3>3. Complete(name)'
      BY <3>1, <3>2, DbUnchanged, PathIsSnapshot DEF Complete
    <3> QED
      BY <3>1, <3>2, <3>3, DbUnchanged DEF AttemptInv, Unnamed
  <2> QED
    BY <2>1, <2>2
<1>8. CASE VerifyOn
  <2>1. CASE Raise
    BY <2>1, RaiseAttempt
  <2>2. CASE GoTo("closingFirst", Volumes)
    BY <2>2, NothingClaimed DEF GoTo, Unnamed, Named
  <2>3. CASE GoTo("marking", {})
    <3>1. step = "verifyOn" /\ step' = "marking" /\ id' = id /\ name' = name /\ UNCHANGED db
      BY <1>8, <2>3 DEF VerifyOn, GoTo
    <3> QED
      BY <1>0, <3>1, AttemptKept DEF Unnamed, Named
  <2> QED
    BY <1>8, <2>1, <2>2, <2>3 DEF VerifyOn
<1>9. CASE Mark \/ CommitActivation \/ Restart
  BY <1>9, RaiseAttempt, NothingClaimed DEF Mark, CommitActivation, Restart, GoTo, Unnamed, Named
<1>10. CASE CloseFirst \/ Close
  <2>1. step' \in {"closingFirst", "closing", "failed"}
    BY <1>0, <1>10, AdvanceType, StoreAssumption
       DEF CloseFirst, Close, BestEffortDisable, Looping, Steps, Resting
  <2> QED
    BY <2>1, NothingClaimed DEF Unnamed, Named
<1>11. ASSUME NEW n \in Releases, NEW rid \in Requests, ActivateRelease(n, rid) PROVE AttemptInv'
  BY <1>11 DEF ActivateRelease, AttemptInv, Unnamed, Named
<1>12. CASE Login \/ Logout \/ Write \/ UNCHANGED vars
  <2>1. UNCHANGED <<db, step, name, id, enabled>>
    BY <1>12 DEF Login, Logout, Write, vars, backend, control
  <2> QED
    BY <1>0, <2>1, AttemptKept DEF AttemptInv
<1> QED
  BY <1>1, <1>2, <1>3, <1>4, <1>5, <1>6, <1>7, <1>8, <1>9, <1>10, <1>11, <1>12
     DEF Next, Proceed, Environment
-----------------------------------------------------------------------------
(* The snapshots.                                                          *)

(* Disabling extents, and any step elsewhere, keeps the snapshots whole.   *)
LEMMA WholeKept ==
    ASSUME WholeInv, UNCHANGED <<mapping, snaps, writes>>,
           enabled' \subseteq enabled,
           \A n \in Releases : status'[n] # "absent" =>
               status[n] # "absent" \/ \A v \in Volumes : ~Exists(SnapshotPath(v, n))
    PROVE  WholeInv'
  <1>1. RecordedExists'
    BY DEF WholeInv, RecordedExists, Exists
  <1>2. ASSUME NEW n \in Releases, status'[n] # "absent" PROVE Agree(n)'
    <2>1. CASE status[n] # "absent"
      BY <2>1 DEF WholeInv, Agree, Exists
    <2>2. CASE \A v \in Volumes : ~Exists(SnapshotPath(v, n))
      BY <2>2 DEF Agree, Exists
    <2> QED
      BY <1>2, <2>1, <2>2
  <1> QED
    BY <1>1, <1>2 DEF WholeInv

(* No snapshot of a complete release is missing.                           *)
LEMMA CompleteExists ==
    ASSUME DbInv, WholeInv, NEW n \in Releases, Complete(n), NEW v \in Volumes
    PROVE  mapping[n][v] = SnapshotPath(v, n) /\ Exists(SnapshotPath(v, n))
  BY DEF DbInv, WholeInv, RecordedExists, Complete

LEMMA EnableWhole == Inv /\ Enable => WholeInv'
<1> SUFFICES ASSUME Inv, Enable PROVE WholeInv'
  OBVIOUS
<1>1. /\ UNCHANGED <<status, mapping, snaps, writes>>
      /\ name \in Releases /\ status[name] = "incomplete" /\ Complete(name)
      /\ DbInv /\ WholeInv /\ StoreTypeOK
  BY DbUnchanged DEF Enable, SetEnabled, publisher, Inv, AttemptInv, Named, TypeInv, TypeOK
<1>2. RecordedExists'
  BY <1>1 DEF WholeInv, RecordedExists, Exists
<1>3. ASSUME NEW n \in Releases, status[n] # "absent" PROVE Agree(n)'
  <2>1. Complete(n)
    BY <1>1, <1>3 DEF DbInv, StoreTypeOK
  <2>2. \A v \in Volumes : Exists(SnapshotPath(v, n))
    BY <1>1, <2>1, CompleteExists
  <2> QED
    BY <1>1, <1>3, <2>2 DEF WholeInv, Agree, Exists
<1> QED
  BY <1>1, <1>2, <1>3 DEF WholeInv

LEMMA WriteWhole == Inv /\ Write => WholeInv'
  BY DbUnchanged DEF Write, backend, Inv, WholeInv, RecordedExists, Agree, Exists

LEMMA ReserveWhole == Inv /\ ReserveRelease => WholeInv'
<1> SUFFICES ASSUME Inv, ReserveRelease PROVE WholeInv'
  OBVIOUS
<1>1. /\ UNCHANGED <<snaps, writes, enabled>> /\ id \in Requests
      /\ DbInv /\ WholeInv /\ StoreTypeOK
  BY DEF ReserveRelease, backend, publisher, Inv, AttemptInv, Unnamed, TypeInv, TypeOK
<1>2. CASE UNCHANGED db
  BY <1>1, <1>2, DbUnchanged, WholeKept
<1>3. ASSUME NEW n \in Releases, NextName(n), Reserve(n, id) PROVE WholeInv'
  <2>1. mapping' = mapping /\ \A m \in Releases : m # n => status'[m] = status[m]
    BY <1>1, <1>3, ReserveDb
  <2>2. \A v \in Volumes : ~Exists(SnapshotPath(v, n))
    BY <1>3 DEF NextName
  <2>3. enabled' \subseteq enabled
    BY <1>1
  <2> QED
    BY <1>1, <2>1, <2>2, <2>3, WholeKept
<1> QED
  BY <1>2, <1>3 DEF ReserveRelease

(* What one step of the snapshot loop does to snapshots and database.      *)
LEMMA SnapshotEffect ==
    ASSUME Inv, TakeSnapshot
    PROVE  /\ Current \in Volumes /\ name \in Releases /\ status[name] = "incomplete"
           /\ UNCHANGED <<status, enabled, writes>> /\ enabled = {}
           /\ \/ /\ ~Exists(SnapshotPath(Current, name))
                 /\ snaps' = [snaps EXCEPT ![SnapshotPath(Current, name)] = writes]
                 /\ UNCHANGED mapping
              \/ /\ Exists(SnapshotPath(Current, name))
                 /\ mapping'[name][Current] = SnapshotPath(Current, name)
                 /\ \A m \in Releases, w \in Volumes :
                       <<m, w>> # <<name, Current>> => mapping'[m][w] = mapping[m][w]
                 /\ UNCHANGED snaps
              \/ UNCHANGED <<snaps, mapping>>
  <1>1. /\ step \in Looping /\ TypeInv /\ DbInv /\ StoreTypeOK
        /\ name \in Releases /\ status[name] = "incomplete" /\ enabled = {}
        /\ UNCHANGED <<enabled, writes>>
    BY DEF TakeSnapshot, Looping, Inv, AttemptInv, Named, TypeInv, TypeOK, publisher
  <1>2. Current \in Volumes
    BY <1>1, CurrentInTodo
  <1>3. CASE UNCHANGED db
    BY <1>1, <1>2, <1>3, DbUnchanged DEF TakeSnapshot
  <1>4. CASE AddSnapshot(name, Current, SnapshotPath(Current, name)) /\ ~UNCHANGED db
    <2>1. Exists(SnapshotPath(Current, name)) /\ UNCHANGED snaps
      BY <1>4 DEF TakeSnapshot
    <2> QED
      BY <1>1, <1>2, <1>4, <2>1, AddSnapshotDb
  <1> QED
    BY <1>3, <1>4 DEF TakeSnapshot

LEMMA SnapshotWhole == Inv /\ TakeSnapshot => WholeInv'
<1> SUFFICES ASSUME Inv, TakeSnapshot PROVE WholeInv'
  OBVIOUS
<1> DEFINE v == Current
           s == SnapshotPath(v, name)
<1>1. /\ v \in Volumes /\ name \in Releases /\ status[name] = "incomplete"
      /\ UNCHANGED <<status, enabled, writes>> /\ enabled = {}
      /\ WholeInv /\ snaps \in [Snapshots -> Contents \cup {NoContent}]
      /\ writes \in Contents
  BY SnapshotEffect DEF Inv, TypeInv, TypeOK
<1>2. CASE ~Exists(s) /\ snaps' = [snaps EXCEPT ![s] = writes] /\ UNCHANGED mapping
  <2>1. /\ s \in Snapshots /\ snaps'[s] = writes /\ writes # NoContent
        /\ \A t \in Snapshots : t # s => snaps'[t] = snaps[t]
    BY <1>1, <1>2, PathIsSnapshot, ContentIsNumber
  <2>2. RecordedExists'
    <3> SUFFICES ASSUME NEW n \in Releases, NEW w \in Volumes, mapping[n][w] # NoSnapshot
                 PROVE  snaps'[mapping[n][w]] # NoContent
      BY <1>2 DEF RecordedExists, Exists
    <3>1. mapping[n][w] \in Snapshots /\ Exists(mapping[n][w])
      BY <1>1 DEF WholeInv, RecordedExists, Inv, TypeInv, TypeOK, StoreTypeOK
    <3> QED
      BY <2>1, <3>1 DEF Exists
  <2>3. ASSUME NEW n \in Releases, status[n] # "absent" PROVE Agree(n)'
    <3>1. Agree(n)
      BY <1>1, <2>3 DEF WholeInv
    <3>2. \A w \in Volumes : SnapshotPath(w, n) \in Snapshots
      BY PathIsSnapshot
    <3>3. \A w \in Volumes : SnapshotPath(w, n) # s => snaps'[SnapshotPath(w, n)] = snaps[SnapshotPath(w, n)]
      BY <2>1, <3>2
    <3>4. CASE n = name
      <4>1. \A w \in Volumes : Exists(SnapshotPath(w, n)) => snaps[SnapshotPath(w, n)] = writes
        BY <1>1, <1>2, <3>1, <3>4 DEF Agree
      <4>2. \A w \in Volumes :
                snaps'[SnapshotPath(w, n)] # NoContent => snaps'[SnapshotPath(w, n)] = writes
        BY <2>1, <3>3, <4>1 DEF Exists
      <4> QED
        BY <1>1, <4>2 DEF Agree, Exists
    <3>5. CASE n # name
      <4>1. \A w \in Volumes : SnapshotPath(w, n) # s
        BY <1>1, <3>5, PathIsSnapshot
      <4> QED
        BY <1>1, <3>1, <3>3, <4>1 DEF Agree, Exists
    <3> QED
      BY <3>4, <3>5
  <2> QED
    BY <1>1, <2>2, <2>3 DEF WholeInv
<1>3. CASE /\ Exists(s) /\ mapping'[name][v] = s /\ UNCHANGED snaps
           /\ \A m \in Releases, w \in Volumes : <<m, w>> # <<name, v>> => mapping'[m][w] = mapping[m][w]
  <2>1. RecordedExists'
    BY <1>1, <1>3 DEF WholeInv, RecordedExists, Exists
  <2> QED
    BY <1>1, <1>3, <2>1 DEF WholeInv, Agree, Exists
<1>4. CASE UNCHANGED <<snaps, mapping>>
  BY <1>1, <1>4, WholeKept
<1> QED
  BY <1>2, <1>3, <1>4, SnapshotEffect

LEMMA WholeStep == Inv /\ [Next]_vars => WholeInv'
<1> SUFFICES ASSUME Inv, [Next]_vars PROVE WholeInv'
  OBVIOUS
<1>0. WholeInv /\ DbInv /\ StoreTypeOK
  BY DEF Inv, TypeInv, TypeOK
<1>1. CASE Enable
  BY <1>1, EnableWhole
<1>2. CASE Write
  BY <1>2, WriteWhole
<1>3. CASE ReserveRelease
  BY <1>3, ReserveWhole
<1>4. CASE TakeSnapshot
  BY <1>4, SnapshotWhole
<1>5. CASE Mark
  <2>1. name \in Releases /\ UNCHANGED <<snaps, writes, enabled>>
    BY <1>5 DEF Mark, Inv, AttemptInv, Named, backend, publisher
  <2>2. CASE UNCHANGED db
    BY <1>0, <2>1, <2>2, DbUnchanged, WholeKept
  <2>3. CASE MarkStaged(name, Volumes)
    BY <1>0, <2>1, <2>3, MarkStagedDb, WholeKept
  <2> QED
    BY <1>5, <2>2, <2>3 DEF Mark
<1>6. CASE CommitActivation
  <2>1. UNCHANGED <<status, mapping, snaps, writes, enabled>>
    BY <1>6, DbUnchanged DEF CommitActivation, SetActive, backend, publisher
  <2> QED
    BY <1>0, <2>1, WholeKept
<1>7. CASE \/ \E rid \in Requests : Stage(rid)
           \/ \E n \in Releases, rid \in Requests : ActivateRelease(n, rid)
           \/ Disable \/ VerifyOff \/ CheckSet \/ VerifyOn \/ CloseFirst \/ Close
           \/ Login \/ Logout \/ Restart \/ UNCHANGED vars
  <2>1. UNCHANGED <<db, snaps, writes>> /\ enabled' \subseteq enabled
    BY <1>7 DEF Stage, ActivateRelease, Disable, SetEnabled, VerifyOff, CheckSet, VerifyOn,
       CloseFirst, Close, BestEffortDisable, Login, Logout, Restart, vars, backend, publisher
  <2>2. UNCHANGED <<status, mapping>>
    BY <2>1, DbUnchanged
  <2> QED
    BY <1>0, <2>1, <2>2, WholeKept
<1> QED
  BY <1>1, <1>2, <1>3, <1>4, <1>5, <1>6, <1>7 DEF Next, Proceed, Environment
-----------------------------------------------------------------------------
(* The inductive invariant holds, and with it the type invariant and what  *)
(* the runs check of the snapshots of stage.                               *)
THEOREM Safety == Spec => []Inv
<1>1. Inv /\ [Next]_vars => Inv'
  BY TypeStep, DbStep, AttemptStep, WholeStep DEF Inv
<1> QED
  BY InitInv, <1>1, PTL DEF Spec

(* Every variable of the manager and the database keeps its type.          *)
THEOREM TypeCorrect == Spec => []TypeOK
<1>1. Inv => TypeOK
  BY DEF Inv, TypeInv
<1> QED
  BY <1>1, Safety, PTL

(* A staged release has all its snapshots, all of one moment.              *)
LEMMA StagedWhole ==
    ASSUME Inv, NEW n \in Releases, Complete(n), status[n] # "absent"
    PROVE  \E content \in Contents : \A v \in Volumes :
               /\ mapping[n][v] = SnapshotPath(v, n)
               /\ snaps[SnapshotPath(v, n)] = content
  <1>1. \A v \in Volumes : mapping[n][v] = SnapshotPath(v, n) /\ Exists(SnapshotPath(v, n))
    BY CompleteExists DEF Inv
  <1>2. PICK w \in Volumes : TRUE
    BY StoreAssumption
  <1>3. snaps[SnapshotPath(w, n)] \in Contents
    BY <1>1, PathIsSnapshot DEF Inv, TypeInv, TypeOK, Exists
  <1>4. \A v \in Volumes : snaps[SnapshotPath(v, n)] = snaps[SnapshotPath(w, n)]
    BY <1>1 DEF Inv, WholeInv, Agree
  <1> QED
    BY <1>1, <1>3, <1>4

(* Whatever failed, was restarted or was repeated while it was staged, a   *)
(* staged release shows its volumes as they were at one moment.            *)
THEOREM ReleasesAreWhole == Spec => []StagedIsConsistent
<1>1. Inv => StagedIsConsistent
  BY StagedWhole DEF Inv, DbInv, StagedIsConsistent
<1> QED
  BY <1>1, Safety, PTL

(* The masters stay disabled while an incomplete release has some of its   *)
(* snapshots and not the others.                                           *)
THEOREM PartialIsOff == Spec => []PartialKeepsMastersOff
<1>1. Inv => PartialKeepsMastersOff
  <2> SUFFICES ASSUME Inv, NEW n \in Pending, NEW v \in Volumes, NEW w \in Volumes,
                      Exists(SnapshotPath(v, n)), ~Exists(SnapshotPath(w, n))
               PROVE  enabled = {}
    BY DEF PartialKeepsMastersOff
  <2> QED
    BY DEF Inv, WholeInv, Agree, Pending
<1> QED
  BY <1>1, Safety, PTL

(* A snapshot the database names exists.                                   *)
THEOREM DatabaseIsTrue == Spec => []RecordedExists
<1>1. Inv => RecordedExists
  BY DEF Inv, WholeInv
<1> QED
  BY <1>1, Safety, PTL

(* Only the loop of stage takes snapshots, of its own release, while every *)
(* master extent is disabled, and no snapshot changes.                     *)
THEOREM OffWhenTaken == Spec => SnapshotsOnlyWhenOff
<1>1. Inv /\ [Next]_vars => [SnapshotStep]_vars
  <2> SUFFICES ASSUME Inv, [Next]_vars, NEW s \in Snapshots, snaps'[s] # snaps[s]
               PROVE  ~Exists(s) /\ enabled = {} /\ s[2] \in Pending
    BY DEF SnapshotStep
  <2>1. CASE TakeSnapshot
    <3>1. snaps \in [Snapshots -> Contents \cup {NoContent}]
      BY DEF Inv, TypeInv, TypeOK
    <3>2. s = SnapshotPath(Current, name) /\ ~Exists(s)
      BY <2>1, <3>1, SnapshotEffect
    <3> QED
      BY <2>1, <3>2, SnapshotEffect, PathIsSnapshot DEF Pending
  <2>2. CASE UNCHANGED snaps
    BY <2>2
  <2> QED
    BY <2>1, <2>2
       DEF Next, Proceed, Environment, Stage, Disable, Enable, SetEnabled, VerifyOff,
           ReserveRelease, CheckSet, VerifyOn, Mark, CloseFirst, Close, BestEffortDisable,
           ActivateRelease, CommitActivation, Login, Logout, Write, Restart, vars, backend
<1> QED
  BY <1>1, Safety, PTL DEF Spec, SnapshotsOnlyWhenOff
-----------------------------------------------------------------------------
(* Stage and activate implement ReleasePublication.                        *)

LEMMA InitPublication == Init => Publication!Init
  BY DEF Init, StoreInit, Publication!Init, Published

(* What is not staged is not published, and a published release stays as   *)
(* it is while its snapshots do.                                           *)
LEMMA PublishedKept ==
    ASSUME \A n \in Releases : (status'[n] = "staged") <=> (status[n] = "staged"),
           \A n \in Releases, v \in Volumes : status[n] = "staged" =>
               mapping'[n][v] = mapping[n][v] /\ snaps'[mapping[n][v]] = snaps[mapping[n][v]]
    PROVE  Published' = Published
  BY DEF Published

LEMMA MarkPublishes ==
    ASSUME Inv, name \in Releases, status[name] = "incomplete",
           MarkStaged(name, Volumes), UNCHANGED snaps
    PROVE  \E content \in Contents : Publication!Publish(name, content)
  <1>1. /\ Complete(name) /\ mapping' = mapping /\ status'[name] = "staged"
        /\ \A m \in Releases : m # name => status'[m] = status[m]
    BY MarkStagedDb DEF Inv, TypeInv, TypeOK
  <1>2. PICK content \in Contents : \A v \in Volumes : snaps[mapping[name][v]] = content
    BY <1>1, StagedWhole
  <1>3. Published[name] = NoContent
    BY DEF Published
  <1>4. Published' = [Published EXCEPT ![name] = [v \in Volumes |-> content]]
    BY <1>1, <1>2 DEF Published
  <1>5. active' = active
    BY DEF MarkStaged
  <1> QED
    BY <1>3, <1>4, <1>5 DEF Publication!Publish

LEMMA SetActivePublication ==
    ASSUME Inv, SetActive(name, id), name \in Releases, UNCHANGED snaps
    PROVE  Publication!Activate(name)
  <1>1. status[name] = "staged" /\ active' = name /\ UNCHANGED <<status, mapping>>
    BY DEF SetActive
  <1>2. Published' = Published
    BY <1>1, PublishedKept
  <1>3. Published[name] # NoContent
    <2>1. Published[name] = [v \in Volumes |-> snaps[mapping[name][v]]]
      BY <1>1 DEF Published
    <2>2. \A v \in Volumes : snaps[mapping[name][v]] \in Nat
      <3>1. Complete(name)
        BY <1>1 DEF Inv, DbInv
      <3>2. \A v \in Volumes : snaps[mapping[name][v]] \in Contents
        BY <1>1, <3>1, StagedWhole
      <3> QED
        BY <3>2, ContentIsNumber
    <2>3. [v \in Volumes |-> snaps[mapping[name][v]]] \in [Volumes -> Nat]
      BY <2>2
    <2> QED
      BY <2>1, <2>3, ManagerAssumption
  <1> QED
    BY <1>1, <1>2, <1>3 DEF Publication!Activate

LEMMA PublicationStep == Inv /\ [Next]_vars => [Publication!Next]_(Publication!vars)
<1> SUFFICES ASSUME Inv, [Next]_vars
             PROVE  Publication!Next \/ UNCHANGED <<Published, active>>
  BY DEF Publication!vars
<1>0. DbInv /\ StoreTypeOK
  BY DEF Inv, TypeInv, TypeOK
<1>1. CASE UNCHANGED <<db, snaps>>
  BY <1>1, DbUnchanged, PublishedKept
<1>2. CASE ReserveRelease
  <2>1. UNCHANGED snaps /\ id \in Requests
    BY <1>2 DEF ReserveRelease, backend, Inv, AttemptInv, Unnamed
  <2>2. ASSUME NEW n \in Releases, Reserve(n, id) PROVE UNCHANGED <<Published, active>>
    <3>1. active' = active
      BY <2>2 DEF Reserve
    <3> QED
      BY <1>0, <2>1, <2>2, <3>1, ReserveDb, PublishedKept
  <2> QED
    BY <1>1, <1>2, <2>1, <2>2 DEF ReserveRelease
<1>3. CASE TakeSnapshot
  <2>1. active' = active
    BY <1>3, DbUnchanged DEF TakeSnapshot, AddSnapshot
  <2>2. /\ \A n \in Releases, v \in Volumes : status[n] = "staged" =>
               /\ mapping'[n][v] = mapping[n][v]
               /\ mapping[n][v] \in Snapshots /\ Exists(mapping[n][v])
        /\ status' = status
    BY <1>0, <1>3, SnapshotEffect, CompleteExists, PathIsSnapshot DEF Inv, DbInv
  <2>3. \A t \in Snapshots : Exists(t) => snaps'[t] = snaps[t]
    <3>1. snaps \in [Snapshots -> Contents \cup {NoContent}]
      BY DEF Inv, TypeInv, TypeOK
    <3> QED
      BY <1>3, <3>1, SnapshotEffect
  <2> QED
    BY <2>1, <2>2, <2>3, PublishedKept
<1>4. CASE Mark
  <2>1. name \in Releases /\ status[name] = "incomplete" /\ UNCHANGED snaps
    BY <1>4 DEF Mark, Inv, AttemptInv, Named, backend
  <2>2. CASE MarkStaged(name, Volumes)
    BY <2>1, <2>2, MarkPublishes DEF Publication!Next
  <2> QED
    BY <1>1, <1>4, <2>1, <2>2 DEF Mark
<1>5. CASE CommitActivation
  <2>1. UNCHANGED snaps
    BY <1>5 DEF CommitActivation, backend
  <2>2. CASE SetActive(name, id)
    <3>1. name \in Releases
      BY <1>5 DEF CommitActivation, Inv, AttemptInv
    <3> QED
      BY <2>1, <2>2, <3>1, SetActivePublication DEF Publication!Next
  <2> QED
    BY <1>1, <1>5, <2>1, <2>2 DEF CommitActivation
<1> QED
  BY <1>1, <1>2, <1>3, <1>4, <1>5
     DEF Next, Proceed, Environment, Stage, Disable, Enable, SetEnabled, VerifyOff, CheckSet,
         VerifyOn, CloseFirst, Close, BestEffortDisable, ActivateRelease, Login, Logout,
         Write, Restart, vars, backend

(* Releases appear whole and at once, never change, and only those that    *)
(* have appeared are activated.                                            *)
THEOREM Implementation == Spec => ImplementsPublication
<1>1. Inv /\ [Next]_vars => [Publication!Next]_(Publication!vars)
  BY PublicationStep
<1> QED
  BY <1>1, InitPublication, Safety, PTL DEF Spec, ImplementsPublication, Publication!Spec
-----------------------------------------------------------------------------
(* Stage and activate change the database by its transactions only.        *)

LEMMA NextIsTransaction ==
    ASSUME Inv, [Next]_vars
    PROVE  [Transaction]_db
<1>1. CASE ReserveRelease
  <2>1. id \in Requests
    BY <1>1 DEF ReserveRelease, Inv, AttemptInv, Unnamed
  <2> QED
    BY <1>1, <2>1 DEF ReserveRelease, Transaction
<1>2. CASE TakeSnapshot
  <2>1. Current \in Volumes /\ name \in Releases
    BY <1>2, CurrentInTodo DEF TakeSnapshot, Inv, TypeInv, TypeOK, Looping, AttemptInv, Named
  <2>2. SnapshotPath(Current, name) \in Snapshots
    BY <2>1, PathIsSnapshot
  <2> QED
    BY <1>2, <2>1, <2>2 DEF TakeSnapshot, Transaction
<1>3. CASE Mark
  <2>1. name \in Releases
    BY <1>3 DEF Mark, Inv, AttemptInv, Named
  <2> QED
    BY <1>3, <2>1 DEF Mark, Transaction
<1>4. CASE CommitActivation
  <2>1. name \in Releases
    BY <1>4 DEF CommitActivation, Inv, AttemptInv
  <2>2. id \in Requests
    BY <1>4 DEF CommitActivation, Inv, AttemptInv
  <2> QED
    BY <1>4, <2>1, <2>2 DEF CommitActivation, Transaction
<1>5. CASE UNCHANGED db
  BY <1>5
<1> QED
  BY <1>1, <1>2, <1>3, <1>4, <1>5
     DEF Next, Proceed, Environment, Stage, Disable, Enable, SetEnabled, VerifyOff, CheckSet,
         VerifyOn, CloseFirst, Close, BestEffortDisable, ActivateRelease, Login, Logout,
         Write, Restart, vars, backend

(* Whatever fails and is repeated, the database is only ever changed by    *)
(* its transactions.                                                       *)
THEOREM ManagerUsesStore == Spec => StoreSpec
<1>1. Init => StoreInit
  BY DEF Init
<1>2. Inv /\ [Next]_vars => [Transaction]_db
  BY NextIsTransaction
<1> QED
  BY <1>1, <1>2, Safety, PTL DEF Spec, StoreSpec

(* Also in the running service, recorded snapshots and staged releases     *)
(* never change, the active pointer moves only for a request not executed  *)
(* before, and what the database says of itself holds.                     *)
THEOREM ManagerKeepsStore == Spec => []StoreInv /\ Immutable /\ ReplayHarmless
  BY ManagerUsesStore, StoreSafety, Frozen, Replay, PTL
-----------------------------------------------------------------------------
(* The management API only restricts who may call, so everything above     *)
(* holds behind it, with or without the fairness of its users.             *)

LEMMA ApiStep ==
    ASSUME [ApiNext]_apiVars
    PROVE  [Next]_vars
  BY DEF ApiNext, SignIn, SignOut, TimePasses, Expire, ApiStage, ApiActivate, ApiRestart,
     Background, apiVars, Next, Environment

(* Behind its gates and login sessions the manager does what it may do     *)
(* anyway.                                                                 *)
THEOREM ApiIsManager == ApiSpec => Spec
  BY ApiStep, PTL DEF ApiSpec, ApiInit, Spec

(* What is proved of stage and activate holds of the management API.       *)
THEOREM ApiIsSafe ==
    FairApiSpec => /\ []StagedIsConsistent /\ []RecordedExists
                   /\ SnapshotsOnlyWhenOff /\ ImplementsPublication
                   /\ Immutable /\ ReplayHarmless
  BY ApiIsManager, ReleasesAreWhole, DatabaseIsTrue, OffWhenTaken, Implementation,
     ManagerKeepsStore, PTL DEF FairApiSpec

(* The API lets a stage through for the incomplete release, under its own  *)
(* request, or under a new request when there is none; the rest of the     *)
(* operation keeps to that.                                                *)
GateInv ==
    /\ step \in Unnamed \cup Named => ByRequest(id) = Pending
    /\ step = "activating" => status[name] = "staged" /\ operations[id] = NoRelease

LEMMA GateStage ==
    ASSUME StoreInv, NEW rid \in Requests, StageId(rid), Stage(rid)
    PROVE  GateInv'
<1>1. UNCHANGED db /\ id' = rid /\ step' \in {"staged", "disabling"}
  BY DEF Stage
<1>2. ByRequest(rid) = Pending
  <2>1. CASE Pending = {} /\ Fresh(rid)
    BY <2>1 DEF Fresh
  <2>2. ASSUME NEW n \in Pending, request[n] = rid PROVE ByRequest(rid) = Pending
    <3>1. n \in Releases /\ rid # NoRequest
      BY StoreAssumption DEF Pending
    <3>2. Pending = {n}
      BY <3>1 DEF StoreInv, OneIncomplete
    <3>3. \A m \in Releases : request[m] = rid => m = n
      BY <2>2, <3>1 DEF StoreInv, OneIncomplete
    <3> QED
      BY <2>2, <3>1, <3>2, <3>3 DEF ByRequest
  <2> QED
    BY <2>1, <2>2 DEF StageId
<1>3. ByRequest(rid)' = Pending'
  BY <1>1, <1>2 DEF ByRequest, Pending, db
<1> QED
  BY <1>1, <1>3 DEF GateInv, ByRequest

LEMMA GateReserve ==
    ASSUME Inv, GateInv, ReserveRelease
    PROVE  GateInv'
<1>1. step = "reserving" /\ id' = id /\ ByRequest(id) = Pending
  BY DEF ReserveRelease, Raise, GoTo, GateInv, Unnamed
<1>2. step' # "activating"
  BY DEF ReserveRelease, Raise, GoTo
<1>3. CASE UNCHANGED db
  BY <1>1, <1>2, <1>3 DEF GateInv, ByRequest, Pending, db
<1>4. ASSUME ByRequest(id) = {}, NEW n \in Releases, Reserve(n, id) PROVE GateInv'
  <2>1. /\ status' = [status EXCEPT ![n] = "incomplete"]
        /\ request' = [request EXCEPT ![n] = id]
    BY <1>4 DEF Reserve
  <2>2. status \in [Releases -> {"absent", "incomplete", "staged"}]
        /\ request \in [Releases -> Requests \cup {NoRequest}]
    BY DEF Inv, TypeInv, TypeOK, StoreTypeOK
  <2>3. Pending' = {n} /\ ByRequest(id)' = {n}
    BY <1>1, <1>4, <2>1, <2>2 DEF Pending, ByRequest
  <2> QED
    BY <1>2, <2>3 DEF GateInv
<1> QED
  BY <1>3, <1>4 DEF ReserveRelease

(* Every other step of an operation leaves the releases under way and      *)
(* their requests alone, or is its last.                                   *)
LEMMA GateProceed ==
    ASSUME Inv, GateInv, Proceed, ~ReserveRelease
    PROVE  GateInv'
<1>1. CASE Mark \/ CommitActivation
  <2>1. step' \notin Unnamed \cup Named \cup {"activating"}
    BY <1>1 DEF Mark, CommitActivation, Raise, GoTo, Unnamed, Named
  <2> QED
    BY <2>1 DEF GateInv
<1>2. CASE ~Mark /\ ~CommitActivation
  <2>1. UNCHANGED <<status, request, operations, id>> /\ step' # "activating"
    BY <1>2 DEF Proceed, Disable, Enable, SetEnabled, VerifyOff, TakeSnapshot, AddSnapshot,
       CheckSet, VerifyOn, CloseFirst, Close, BestEffortDisable, Advance, Raise, GoTo, db
  <2>2. step' \in Unnamed \cup Named => step \in Unnamed \cup Named
    BY <1>2 DEF Proceed, Disable, Enable, SetEnabled, VerifyOff, TakeSnapshot, CheckSet,
       VerifyOn, CloseFirst, Close, BestEffortDisable, Advance, Raise, GoTo, Unnamed, Named
  <2> QED
    BY <2>1, <2>2 DEF GateInv, ByRequest, Pending
<1> QED
  BY <1>1, <1>2

LEMMA GateStep ==
    ASSUME Inv, StoreInv, GateInv, [ApiNext]_apiVars
    PROVE  GateInv'
<1>1. ASSUME UNCHANGED <<db, control>> PROVE GateInv'
  BY <1>1 DEF GateInv, db, control, ByRequest, Pending
<1>2. CASE ApiStage
  BY <1>2, GateStage DEF ApiStage
<1>3. CASE ApiActivate
  BY <1>3 DEF ApiActivate, ActivateRelease, Fresh, GateInv, db, Unnamed, Named
<1>4. CASE ApiRestart
  BY <1>4 DEF ApiRestart, Restart, GoTo, GateInv, Unnamed, Named
<1>5. CASE Proceed
  BY <1>5, GateReserve, GateProceed
<1>6. CASE Login \/ Logout \/ Write
  BY <1>1, <1>6 DEF Login, Logout, Write
<1>7. CASE UNCHANGED vars
  BY <1>1, <1>7 DEF vars
<1> QED
  BY <1>2, <1>3, <1>4, <1>5, <1>6, <1>7
     DEF ApiNext, Background, SignIn, SignOut, TimePasses, Expire, apiVars

LEMMA GateHolds == ApiSpec => [](Inv /\ StoreInv /\ GateInv)
<1>1. ApiInit => GateInv
  BY DEF ApiInit, Init, GateInv, Unnamed, Named
<1>2. ApiSpec => [](Inv /\ StoreInv)
  BY ApiIsManager, Safety, ManagerUsesStore, StoreSafety, PTL
<1>3. Inv /\ StoreInv /\ GateInv /\ [ApiNext]_apiVars => GateInv'
  BY GateStep
<1> QED
  BY <1>1, <1>2, <1>3, PTL DEF ApiSpec

(* An operation that the dashboard offered is not refused by the database  *)
(* for anything another request has left there.                            *)
THEOREM GateSuffices == ApiSpec => []NeverRefused
<1>1. Inv /\ GateInv => NeverRefused
  <2> SUFFICES ASSUME Inv, GateInv PROVE NeverRefused
    OBVIOUS
  <2>1. ASSUME step = "reserving"
        PROVE  ~Blocked(id) /\ \A n \in ByRequest(id) : status[n] = "incomplete"
    BY <2>1 DEF GateInv, Unnamed, Blocked, ByRequest, Pending
  <2>2. ASSUME step = "marking" PROVE Recorded(name) = Volumes
    BY <2>2 DEF Inv, AttemptInv, Complete, Recorded
  <2> QED
    BY <2>1, <2>2 DEF NeverRefused, GateInv
<1> QED
  BY <1>1, GateHolds, PTL
-----------------------------------------------------------------------------
(* What IncompleteGetsStaged rests on.  The prover knows no fairness, so   *)
(* it is split into two facts without: a stage that meets no fault does    *)
(* not fail, whatever earlier attempts left behind, and each of its steps  *)
(* brings it nearer to its end.                                            *)

(* Each volume has a dataset of its own.  The configuration does not ask   *)
(* for that; but of two volumes on one dataset only one can own the        *)
(* snapshot (AddSnapshot), and the stage fails when it compares the set.   *)
OwnDatasetEach == \A v, w \in Volumes : Dataset[v] = Dataset[w] => v = w

Failing == {"closingFirst", "closing", "failed"}

(* An operation that has just begun, or none that has failed.              *)
Beginning ==
    \/ step \in {"idle", "staged", "activated", "activating"}
    \/ step = "disabling" /\ todo = Volumes /\ ~connected

(* What is true of a stage during which nothing else went wrong: its calls *)
(* had their effect and nobody logged in.                                  *)
Smooth ==
    /\ step \notin Failing
    /\ step \in Unnamed \cup Named => ~connected
    /\ step = "disabling" => enabled \subseteq todo
    /\ step = "verifyOff" => enabled = {}
    /\ step = "snapshotting" => \A v \in Volumes \ todo : mapping[name][v] # NoSnapshot
    /\ step = "checking" => Complete(name)
    /\ step = "enabling" => Volumes \ todo \subseteq enabled
    /\ step = "verifyOn" => enabled = Volumes

LEMMA AdvanceCases ==
    ASSUME NEW next, NEW work, Advance(Current, next, work)
    PROVE  \/ todo = {Current} /\ step' = next /\ todo' = work
           \/ todo # {Current} /\ step' = step /\ todo' = todo \ {Current}
  BY DEF Advance, GoTo

LEMMA FaultIsCounted == Inv /\ Fault => faults' \in Nat /\ faults' > faults /\ faults \in Nat
  BY ManagerAssumption DEF Fault, Inv, TypeInv, TypeOK

LEMMA DisableIsSmooth ==
    ASSUME Inv, Smooth, Disable, faults' = faults
    PROVE  Smooth'
<1>1. ~Fault
  BY FaultIsCounted
<1>2. /\ step = "disabling" /\ enabled' = enabled \ {Current} /\ connected' = connected
      /\ Advance(Current, "verifyOff", {}) /\ enabled \subseteq todo /\ ~connected
  BY <1>1 DEF Disable, SetEnabled, Smooth, Unnamed, publisher
<1> QED
  BY <1>2, AdvanceCases DEF Smooth, Failing

LEMMA VerifyOffIsSmooth ==
    ASSUME Inv, Smooth, VerifyOff, faults' = faults
    PROVE  Smooth'
<1>1. ~Fault
  BY FaultIsCounted
<1>2. step = "verifyOff" /\ enabled = {} /\ ~connected
  BY DEF VerifyOff, Smooth, Unnamed
<1>3. step' = "reserving" /\ connected' = connected
  BY <1>1, <1>2 DEF VerifyOff, GoTo, publisher
<1> QED
  BY <1>2, <1>3 DEF Smooth, Failing

(* The gates have seen to it that reserve does not refuse.                 *)
LEMMA ReserveIsSmooth ==
    ASSUME Inv, GateInv, Smooth, ReserveRelease, faults' = faults
    PROVE  Smooth'
<1>1. ~Fault
  BY FaultIsCounted
<1>2. step = "reserving" /\ ~connected /\ ~Blocked(id)
  BY DEF ReserveRelease, Smooth, GateInv, Unnamed, Blocked, ByRequest, Pending
<1>3. step' = "snapshotting" /\ todo' = Volumes /\ connected' = connected
  BY <1>1, <1>2 DEF ReserveRelease, GoTo, publisher
<1> QED
  BY <1>2, <1>3 DEF Smooth, Failing

(* A snapshot recorded already is the one of this volume.                  *)
LEMMA OwnedByVolume ==
    ASSUME OwnDatasetEach, Inv, NEW n \in Releases, NEW v \in Volumes, Owned(SnapshotPath(v, n))
    PROVE  mapping[n][v] = SnapshotPath(v, n)
<1>1. PICK m \in Releases, w \in Volumes : mapping[m][w] = SnapshotPath(v, n)
  BY DEF Owned
<1>2. SnapshotPath(v, n) # NoSnapshot
  BY PathIsSnapshot
<1>3. SnapshotPath(w, m) = SnapshotPath(v, n)
  BY <1>1, <1>2 DEF Inv, DbInv
<1>4. Dataset[w] = Dataset[v] /\ m = n
  BY <1>3 DEF SnapshotPath
<1> QED
  BY <1>1, <1>4 DEF OwnDatasetEach

LEMMA SnapshotIsSmooth ==
    ASSUME OwnDatasetEach, Inv, Smooth, TakeSnapshot, faults' = faults
    PROVE  Smooth'
<1> DEFINE v == Current
           recorded == \/ AddSnapshot(name, v, SnapshotPath(v, name))
                       \/ Owned(SnapshotPath(v, name)) /\ UNCHANGED db
           again == UNCHANGED db /\ UNCHANGED <<step, todo, id, faults>>
<1>1. ~Fault
  BY FaultIsCounted
<1>2. /\ step = "snapshotting" /\ step \in Looping /\ ~connected /\ connected' = connected
      /\ v \in Volumes /\ name \in Releases /\ name' = name /\ StoreTypeOK
      /\ \A w \in Volumes \ todo : mapping[name][w] # NoSnapshot
  BY SnapshotEffect
     DEF TakeSnapshot, Smooth, Named, Looping, publisher, Inv, TypeInv, TypeOK
<1>3. CASE again
  BY <1>2, <1>3, DbUnchanged DEF Smooth, Failing
<1>4. CASE recorded /\ Advance(v, "checking", {})
  <2>1. /\ mapping'[name][v] # NoSnapshot
        /\ \A w \in Volumes : w # v => mapping'[name][w] = mapping[name][w]
    <3>1. SnapshotPath(v, name) # NoSnapshot
      BY <1>2, PathIsSnapshot
    <3>2. ASSUME AddSnapshot(name, v, SnapshotPath(v, name))
          PROVE  mapping'[name][v] = SnapshotPath(v, name)
      BY <1>2, <3>2 DEF AddSnapshot, StoreTypeOK
    <3>3. ASSUME AddSnapshot(name, v, SnapshotPath(v, name))
          PROVE  \A w \in Volumes : w # v => mapping'[name][w] = mapping[name][w]
      BY <1>2, <3>3 DEF AddSnapshot, StoreTypeOK
    <3>4. ASSUME Owned(SnapshotPath(v, name)), UNCHANGED db
          PROVE  mapping' = mapping /\ mapping[name][v] = SnapshotPath(v, name)
      BY <1>2, <3>4, OwnedByVolume, DbUnchanged
    <3> QED
      BY <1>4, <3>1, <3>2, <3>3, <3>4
  <2>2. \A w \in Volumes \ (todo \ {v}) : mapping'[name][w] # NoSnapshot
    BY <1>2, <2>1
  <2> QED
    BY <1>2, <1>4, <2>2, AdvanceCases DEF Smooth, Failing, Complete
<1>5. again \/ (recorded /\ Advance(v, "checking", {}))
  <2>1. \/ UNCHANGED db /\ (UNCHANGED <<step, todo, id, faults>> \/ (Fault /\ Raise))
        \/ recorded /\ (Advance(v, "checking", {}) \/ (Fault /\ Raise))
        \/ Fault /\ Raise
    BY Zenon DEF TakeSnapshot
  <2> HIDE DEF recorded
  <2> QED
    BY <1>1, <2>1
<1> QED
  BY <1>3, <1>4, <1>5

LEMMA CheckIsSmooth ==
    ASSUME Inv, Smooth, CheckSet, faults' = faults
    PROVE  Smooth'
<1>1. ~Fault
  BY FaultIsCounted
<1>2. step = "checking" /\ ~connected /\ name \in Releases /\ Complete(name)
  BY DEF CheckSet, Smooth, Named, Inv, AttemptInv
<1>3. \A v \in Volumes : mapping[name][v] = SnapshotPath(v, name)
  BY <1>2 DEF Complete, Inv, DbInv
<1>4. step' = "enabling" /\ todo' = Volumes /\ connected' = connected
  BY <1>1, <1>3 DEF CheckSet, GoTo, publisher
<1> QED
  BY <1>2, <1>4 DEF Smooth, Failing

LEMMA EnableIsSmooth ==
    ASSUME Inv, Smooth, Enable, faults' = faults
    PROVE  Smooth'
<1>1. ~Fault
  BY FaultIsCounted
<1>2. /\ step = "enabling" /\ enabled' = enabled \cup {Current} /\ connected' = connected
      /\ Advance(Current, "verifyOn", {}) /\ Volumes \ todo \subseteq enabled /\ ~connected
      /\ Current \in Volumes /\ enabled \subseteq Volumes
  BY <1>1, CurrentInTodo
     DEF Enable, SetEnabled, Smooth, Named, publisher, Inv, TypeInv, TypeOK, Looping
<1> QED
  BY <1>2, AdvanceCases DEF Smooth, Failing

LEMMA EndIsSmooth ==
    ASSUME Inv, GateInv, Smooth, faults' = faults,
           VerifyOn \/ Mark \/ CloseFirst \/ Close \/ CommitActivation
    PROVE  Smooth'
<1>1. ~Fault
  BY FaultIsCounted
<1>2. CASE VerifyOn
  <2>1. step = "verifyOn" /\ enabled = Volumes /\ ~connected
    BY <1>2 DEF VerifyOn, Smooth, Named
  <2>2. step' = "marking" /\ connected' = connected
    BY <1>1, <1>2, <2>1 DEF VerifyOn, GoTo, publisher
  <2> QED
    BY <2>1, <2>2 DEF Smooth, Failing
<1>3. CASE Mark
  <2>1. Recorded(name) = Volumes
    BY <1>3 DEF Mark, Inv, AttemptInv, Complete, Recorded
  <2>2. step' = "staged"
    BY <1>1, <1>3, <2>1 DEF Mark, GoTo
  <2> QED
    BY <2>2 DEF Smooth, Failing, Unnamed, Named
<1>4. CASE CommitActivation
  <2>1. operations[id] = NoRelease
    BY <1>4 DEF CommitActivation, GateInv
  <2>2. step' = "activated"
    BY <1>1, <1>4, <2>1 DEF CommitActivation, GoTo
  <2> QED
    BY <2>2 DEF Smooth, Failing, Unnamed, Named
<1>5. ~CloseFirst /\ ~Close
  BY DEF CloseFirst, Close, BestEffortDisable, Smooth, Failing
<1> QED
  BY <1>2, <1>3, <1>4, <1>5

LEMMA SmoothStays ==
    ASSUME OwnDatasetEach, Inv, GateInv, Smooth, [ApiNext]_apiVars, faults' = faults
    PROVE  Smooth'
<1>1. ~Fault
  BY FaultIsCounted
<1>2. ASSUME UNCHANGED <<db, control, enabled>>, step \in Unnamed \cup Named => ~connected'
      PROVE  Smooth'
  BY <1>2 DEF Smooth, Failing, db, control, Complete
<1>3. CASE ApiStage
  <2>1. PICK rid \in Requests : Stage(rid)
    BY <1>3 DEF ApiStage
  <2>2. \/ step' = "staged"
        \/ step' = "disabling" /\ todo' = Volumes /\ ~connected'
    BY <2>1 DEF Stage, publisher
  <2>3. enabled' \subseteq Volumes
    BY <2>1 DEF Stage, backend, Inv, TypeInv, TypeOK
  <2> QED
    BY <2>2, <2>3 DEF Smooth, Failing, Unnamed, Named
<1>4. CASE ApiActivate
  <2>1. step' = "activating"
    BY <1>4 DEF ApiActivate, ActivateRelease
  <2> QED
    BY <2>1 DEF Smooth, Failing, Unnamed, Named
<1>5. ~ApiRestart
  BY <1>1 DEF ApiRestart, Restart
<1>6. CASE Proceed
  BY <1>6, DisableIsSmooth, VerifyOffIsSmooth, ReserveIsSmooth, SnapshotIsSmooth, CheckIsSmooth,
     EnableIsSmooth, EndIsSmooth DEF Proceed
<1>7. CASE Login
  <2>1. step \in Resting
    BY <1>1, <1>7 DEF Login
  <2> QED
    BY <1>2, <1>7, <2>1 DEF Login, backend, Resting, Unnamed, Named
<1>8. CASE Logout \/ Write
  BY <1>2, <1>8 DEF Logout, Write, backend, Smooth
<1>9. CASE UNCHANGED vars
  BY <1>2, <1>9 DEF vars, backend, publisher, Smooth
<1> QED
  BY <1>3, <1>4, <1>5, <1>6, <1>7, <1>8, <1>9
     DEF ApiNext, Background, SignIn, SignOut, TimePasses, Expire, apiVars

LEMMA FaultsGrow ==
    ASSUME Inv, [Next]_vars
    PROVE  faults' \in Nat /\ (faults' = faults \/ faults' > faults)
<1>1. faults \in Nat
  BY DEF Inv, TypeInv, TypeOK
<1>2. faults' = faults \/ Fault
  BY DEF Next, Proceed, Environment, Stage, Disable, Enable, SetEnabled, VerifyOff, ReserveRelease,
     TakeSnapshot, CheckSet, VerifyOn, Mark, CloseFirst, Close, BestEffortDisable,
     CommitActivation, ActivateRelease, Login, Logout, Write, Restart, vars
<1> QED
  BY <1>1, <1>2, FaultIsCounted

(* Where every volume has a dataset of its own, an operation the dashboard *)
(* offered, during which no call fails, nothing restarts and the publisher *)
(* stays away, does not fail: a stage that is continued is not stopped by  *)
(* the extents, snapshots and records any earlier attempt left behind      *)
(* (stage, activate).                                                      *)
THEOREM StageNeverFails ==
    ASSUME OwnDatasetEach, NEW f \in Nat
    PROVE  ApiSpec => [](Beginning /\ faults = f => [](faults = f => step \notin Failing))
<1> DEFINE Well == faults \in Nat /\ (faults > f \/ (faults = f /\ Smooth))
<1>1. Inv /\ Beginning /\ faults = f => Well
  BY DEF Beginning, Smooth, Failing, Unnamed, Named, Inv, TypeInv, TypeOK
<1>2. Inv /\ GateInv /\ Well /\ [ApiNext]_apiVars => Well'
  <2> SUFFICES ASSUME Inv, GateInv, Well, [ApiNext]_apiVars PROVE Well'
    OBVIOUS
  <2>1. faults' \in Nat /\ (faults' = faults \/ faults' > faults)
    BY FaultsGrow, ApiStep
  <2>2. faults' = faults /\ Smooth => Smooth'
    BY SmoothStays
  <2> QED
    BY <2>1, <2>2
<1>3. Well => (faults = f => step \notin Failing)
  BY DEF Smooth
<1> HIDE DEF Well
<1> QED
  BY <1>1, <1>2, <1>3, GateHolds, PTL DEF ApiSpec

(* The phases of an operation in their order.                              *)
Phase == [idle |-> 0, disabling |-> 1, verifyOff |-> 2, reserving |-> 3, snapshotting |-> 4,
          checking |-> 5, enabling |-> 6, verifyOn |-> 7, marking |-> 8, activating |-> 8,
          closingFirst |-> 9, closing |-> 10, failed |-> 11, staged |-> 11, activated |-> 11]

(* A step of an operation leads to a later phase, leaves a volume less in  *)
(* its loop, or takes a snapshot that was missing.                         *)
Nearer ==
    \/ Phase[step'] > Phase[step]
    \/ step' = step /\ todo' \subseteq todo /\ todo' # todo
    \/ /\ UNCHANGED <<step, todo, name>>
       /\ ~Exists(SnapshotPath(Current, name)) /\ snaps'[SnapshotPath(Current, name)] # NoContent

EveryCallCounts ==
    [][step \notin Resting =>
          \/ Proceed /\ Nearer
          \/ UNCHANGED control
          \/ Restart /\ step' = "idle"]_vars

LEMMA AdvanceIsNearer ==
    ASSUME Inv, NEW next, NEW work, Advance(Current, next, work), step \in Looping,
           Phase[next] > Phase[step]
    PROVE  Nearer
<1>1. Current \in todo
  BY CurrentInTodo DEF Inv
<1> QED
  BY <1>1, AdvanceCases DEF Nearer

LEMMA RaiseIsNearer ==
    ASSUME Inv, Raise, step \notin {"closing", "failed", "staged", "activated"}
    PROVE  Nearer
<1>1. step' = "closing" /\ step \in Steps
  BY DEF Raise, GoTo, Inv, TypeInv, TypeOK
<1> QED
  BY <1>1 DEF Nearer, Phase, Steps, Resting

LEMMA SnapshotIsNearer ==
    ASSUME Inv, TakeSnapshot
    PROVE  Nearer
<1> DEFINE s == SnapshotPath(Current, name)
<1>1. step = "snapshotting" /\ s \in Snapshots /\ name' = name
  BY SnapshotEffect, PathIsSnapshot DEF TakeSnapshot
<1>2. CASE Raise
  BY <1>1, <1>2, RaiseIsNearer
<1>3. CASE Advance(Current, "checking", {})
  BY <1>1, <1>3, AdvanceIsNearer DEF Looping, Phase
<1>4. CASE ~Exists(s) /\ snaps' = [snaps EXCEPT ![s] = writes] /\ UNCHANGED <<step, todo, id>>
  <2>1. snaps'[s] = writes /\ writes # NoContent
    BY <1>1, <1>4, ContentIsNumber DEF Inv, TypeInv, TypeOK
  <2> QED
    BY <1>1, <1>4, <2>1 DEF Nearer
<1> QED
  BY <1>2, <1>3, <1>4 DEF TakeSnapshot

LEMMA ProceedIsNearer ==
    ASSUME Inv, Proceed
    PROVE  Nearer
<1> USE DEF Looping, Phase
<1>1. CASE Disable
  BY <1>1, AdvanceIsNearer, RaiseIsNearer DEF Disable, SetEnabled
<1>2. CASE VerifyOff
  <2>1. step' \in {"reserving", "closing"} /\ step = "verifyOff"
    BY <1>2 DEF VerifyOff, Raise, GoTo
  <2> QED
    BY <2>1 DEF Nearer
<1>3. CASE ReserveRelease
  <2>1. step' \in {"snapshotting", "closing"} /\ step = "reserving"
    BY <1>3 DEF ReserveRelease, Raise, GoTo
  <2> QED
    BY <2>1 DEF Nearer
<1>4. CASE TakeSnapshot
  BY <1>4, SnapshotIsNearer
<1>5. CASE CheckSet
  <2>1. step' \in {"enabling", "closing"} /\ step = "checking"
    BY <1>5 DEF CheckSet, Raise, GoTo
  <2> QED
    BY <2>1 DEF Nearer
<1>6. CASE Enable
  BY <1>6, AdvanceIsNearer, RaiseIsNearer DEF Enable, SetEnabled
<1>7. CASE VerifyOn
  <2>1. step' \in {"marking", "closingFirst", "closing"} /\ step = "verifyOn"
    BY <1>7 DEF VerifyOn, Raise, GoTo
  <2> QED
    BY <2>1 DEF Nearer
<1>8. CASE Mark
  <2>1. step' \in {"staged", "closing"} /\ step = "marking"
    BY <1>8 DEF Mark, Raise, GoTo
  <2> QED
    BY <2>1 DEF Nearer
<1>9. CASE CloseFirst \/ Close
  BY <1>9, AdvanceIsNearer DEF CloseFirst, Close, BestEffortDisable
<1>10. CASE CommitActivation
  <2>1. step' \in {"activated", "failed"} /\ step = "activating"
    BY <1>10 DEF CommitActivation, GoTo
  <2> QED
    BY <2>1 DEF Nearer
<1> QED
  BY <1>1, <1>2, <1>3, <1>4, <1>5, <1>6, <1>7, <1>8, <1>9, <1>10 DEF Proceed

(* A stage or an activation takes finitely many calls: each one brings it  *)
(* nearer to its end, failed or not, and nothing but a restart changes     *)
(* where it is from outside (the manager's lock).                          *)
THEOREM OperationsAreFinite == Spec => EveryCallCounts
<1>1. Inv /\ [Next]_vars =>
        (step \notin Resting =>
          \/ Proceed /\ Nearer
          \/ UNCHANGED control
          \/ Restart /\ step' = "idle")
  <2> SUFFICES ASSUME Inv, [Next]_vars, step \notin Resting
               PROVE  \/ Proceed /\ Nearer
                      \/ UNCHANGED control
                      \/ Restart /\ step' = "idle"
    OBVIOUS
  <2>1. \A rid \in Requests : ~Stage(rid)
    BY DEF Stage
  <2>2. \A n \in Releases, rid \in Requests : ~ActivateRelease(n, rid)
    BY DEF ActivateRelease
  <2>3. CASE Restart
    BY <2>3 DEF Restart, GoTo
  <2>4. CASE Login \/ Logout \/ Write \/ UNCHANGED vars
    BY <2>4 DEF Login, Logout, Write, vars
  <2> QED
    BY <2>1, <2>2, <2>3, <2>4, ProceedIsNearer DEF Next, Environment
<1> QED
  BY <1>1, Safety, PTL DEF Spec, EveryCallCounts
=============================================================================
