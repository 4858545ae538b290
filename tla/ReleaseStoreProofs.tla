------------------------- MODULE ReleaseStoreProofs -------------------------
(***************************************************************************)
(* The release database keeps its promises whoever uses it, as long as it  *)
(* is changed by its four transactions only; and that any calls with any   *)
(* arguments (ReleaseStoreCalls) are such a use.  For any releases,        *)
(* requests, volumes and snapshots.                                        *)
(***************************************************************************)
EXTENDS ReleaseStoreCalls, TLAPS

(* What does not exist has neither request nor snapshots.                  *)
AbsentIsEmpty ==
    \A n \in Releases :
        /\ status[n] = "absent" => \A v \in Volumes : mapping[n][v] = NoSnapshot
        /\ status[n] = "absent" <=> request[n] = NoRequest

(* The inductive invariant of the database.                                *)
StoreInv == StoreTypeOK /\ AbsentIsEmpty /\ OneIncomplete /\ ActiveIsStaged /\ SnapshotOwnedOnce

LEMMA StoreUnchanged == StoreInv /\ UNCHANGED db => StoreInv'
  BY DEF StoreInv, StoreTypeOK, AbsentIsEmpty, OneIncomplete, ActiveIsStaged,
     SnapshotOwnedOnce, Pending, db

LEMMA ReserveStep ==
    ASSUME StoreInv, NEW n \in Releases, NEW id \in Requests, Reserve(n, id)
    PROVE  StoreInv'
<1> USE DEF StoreInv, StoreTypeOK
<1>1. /\ status' = [status EXCEPT ![n] = "incomplete"] /\ status[n] = "absent"
      /\ request' = [request EXCEPT ![n] = id] /\ ByRequest(id) = {} /\ ~Blocked(id)
      /\ mapping' = mapping /\ active' = active /\ operations' = operations
  BY DEF Reserve
<1>2. StoreTypeOK'
  BY <1>1
<1>3. AbsentIsEmpty'
  BY <1>1, StoreAssumption DEF AbsentIsEmpty
<1>4. Pending = {}
  BY <1>1 DEF Pending, Blocked, ByRequest
<1>5. OneIncomplete'
  BY <1>1, <1>4, StoreAssumption DEF OneIncomplete, Pending, ByRequest
<1>6. ActiveIsStaged' /\ SnapshotOwnedOnce'
  BY <1>1 DEF ActiveIsStaged, SnapshotOwnedOnce
<1> QED
  BY <1>2, <1>3, <1>5, <1>6

LEMMA AddSnapshotStep ==
    ASSUME StoreInv, NEW n \in Releases, NEW v \in Volumes, NEW s \in Snapshots,
           AddSnapshot(n, v, s)
    PROVE  StoreInv'
<1> USE DEF StoreInv, StoreTypeOK
<1>1. /\ mapping' = [mapping EXCEPT ![n][v] = s] /\ status[n] = "incomplete" /\ ~Owned(s)
      /\ UNCHANGED <<status, request, active, operations>>
  BY DEF AddSnapshot
<1>2. \A m \in Releases, w \in Volumes :
          mapping'[m][w] = IF m = n /\ w = v THEN s ELSE mapping[m][w]
  BY <1>1
<1>3. StoreTypeOK'
  BY <1>1
<1>4. AbsentIsEmpty'
  BY <1>1, <1>2 DEF AbsentIsEmpty
<1>5. OneIncomplete' /\ ActiveIsStaged'
  BY <1>1 DEF OneIncomplete, ActiveIsStaged, Pending
<1>6. SnapshotOwnedOnce'
  BY <1>1, <1>2 DEF SnapshotOwnedOnce, Owned
<1> QED
  BY <1>3, <1>4, <1>5, <1>6

LEMMA MarkStagedStep ==
    ASSUME StoreInv, NEW n \in Releases, NEW expected \in SUBSET Volumes, MarkStaged(n, expected)
    PROVE  StoreInv'
<1> USE DEF StoreInv, StoreTypeOK
<1>1. /\ status' = [status EXCEPT ![n] = "staged"] /\ status[n] # "absent"
      /\ UNCHANGED <<request, mapping, active, operations>>
  BY DEF MarkStaged
<1>2. StoreTypeOK' /\ AbsentIsEmpty'
  BY <1>1 DEF AbsentIsEmpty
<1>3. OneIncomplete'
  BY <1>1 DEF OneIncomplete, Pending
<1>4. ActiveIsStaged' /\ SnapshotOwnedOnce'
  BY <1>1 DEF ActiveIsStaged, SnapshotOwnedOnce
<1> QED
  BY <1>2, <1>3, <1>4

LEMMA SetActiveStep ==
    ASSUME StoreInv, NEW n \in Releases, NEW id \in Requests, SetActive(n, id)
    PROVE  StoreInv'
<1> USE DEF StoreInv, StoreTypeOK
<1>1. /\ operations' = [operations EXCEPT ![id] = n] /\ status[n] = "staged" /\ active' = n
      /\ UNCHANGED <<status, request, mapping>>
  BY DEF SetActive
<1>2. StoreTypeOK' /\ AbsentIsEmpty' /\ OneIncomplete' /\ SnapshotOwnedOnce'
  BY <1>1 DEF AbsentIsEmpty, OneIncomplete, Pending, SnapshotOwnedOnce
<1>3. ActiveIsStaged'
  BY <1>1 DEF ActiveIsStaged
<1> QED
  BY <1>2, <1>3

LEMMA StoreStep == StoreInv /\ [Transaction]_db => StoreInv'
  BY StoreUnchanged, ReserveStep, AddSnapshotStep, MarkStagedStep, SetActiveStep
     DEF Transaction

LEMMA StoreInitInv == StoreInit => StoreInv
  BY DEF StoreInit, StoreInv, StoreTypeOK, AbsentIsEmpty, OneIncomplete, ActiveIsStaged,
     SnapshotOwnedOnce, Pending

(* The inductive invariant of the database, whoever uses it.               *)
THEOREM StoreSafety == StoreSpec => []StoreInv
  BY StoreInitInv, StoreStep, PTL DEF StoreSpec

(* At most one release is incomplete, and a request has one release.       *)
THEOREM OneAtATime == StoreSpec => []OneIncomplete
  BY StoreSafety, PTL DEF StoreInv

(* The active release is staged and was activated by a recorded request.   *)
THEOREM ActiveStaged == StoreSpec => []ActiveIsStaged
  BY StoreSafety, PTL DEF StoreInv

(* A snapshot belongs to one volume of one release.                        *)
THEOREM SnapshotsOwned == StoreSpec => []SnapshotOwnedOnce
  BY StoreSafety, PTL DEF StoreInv

(* Recorded snapshots and staged releases never change.                    *)
THEOREM Frozen == StoreSpec => Immutable
<1>1. StoreInv /\ [Transaction]_db => [StoreFreezes]_db
  <2> SUFFICES ASSUME StoreInv, Transaction PROVE StoreFreezes
    OBVIOUS
  <2> USE DEF StoreInv, StoreTypeOK, StoreFreezes
  <2>1. ASSUME NEW n \in Releases, NEW id \in Requests, Reserve(n, id) \/ SetActive(n, id)
        PROVE  StoreFreezes
    BY <2>1 DEF Reserve, SetActive
  <2>2. ASSUME NEW n \in Releases, NEW v \in Volumes, NEW s \in Snapshots, AddSnapshot(n, v, s)
        PROVE  StoreFreezes
    BY <2>2 DEF AddSnapshot
  <2>3. ASSUME NEW n \in Releases, NEW expected \in SUBSET Volumes, MarkStaged(n, expected)
        PROVE  StoreFreezes
    BY <2>3 DEF MarkStaged
  <2> QED
    BY <2>1, <2>2, <2>3 DEF Transaction
<1> QED
  BY <1>1, StoreSafety, PTL DEF StoreSpec, Immutable

(* The active pointer moves only for a request not executed before.        *)
THEOREM Replay == StoreSpec => ReplayHarmless
<1>1. StoreInv /\ [Transaction]_db => [PointerStep]_db
  <2> SUFFICES ASSUME StoreInv, Transaction PROVE PointerStep
    OBVIOUS
  <2>1. ASSUME NEW n \in Releases, NEW id \in Requests, SetActive(n, id) PROVE PointerStep
    BY <2>1 DEF SetActive, PointerStep, StoreInv, StoreTypeOK
  <2>2. ASSUME active' = active PROVE PointerStep
    BY <2>2 DEF PointerStep
  <2> QED
    BY <2>1, <2>2 DEF Transaction, Reserve, AddSnapshot, MarkStaged
<1> QED
  BY <1>1, StoreSafety, PTL DEF StoreSpec, ReplayHarmless
-----------------------------------------------------------------------------
(* Any calls, and what they are answered.                                  *)

(* A call changes the database by one of the four transactions, or not.    *)
LEMMA CallIsTransaction ==
    ASSUME [CallNext]_callVars
    PROVE  [Transaction]_db
<1>1. ASSUME NEW n \in Releases, NEW id \in Requests, CallReserve(n, id) \/ CallActivate(n, id)
      PROVE  Reserve(n, id) \/ SetActive(n, id) \/ UNCHANGED db
  BY <1>1 DEF CallReserve, CallActivate
<1>2. ASSUME NEW n \in Releases, NEW v \in Volumes, NEW s \in Snapshots, CallAddSnapshot(n, v, s)
      PROVE  AddSnapshot(n, v, s) \/ UNCHANGED db
  BY <1>2 DEF CallAddSnapshot
<1>3. ASSUME NEW n \in Releases, NEW expected \in SUBSET Volumes, CallMarkStaged(n, expected)
      PROVE  MarkStaged(n, expected) \/ UNCHANGED db
  BY <1>3 DEF CallMarkStaged
<1>4. UNCHANGED callVars => UNCHANGED db
  BY DEF callVars, db
<1> QED
  BY <1>1, <1>2, <1>3, <1>4 DEF CallNext, Transaction

(* Whatever the callers ask for, the database changes by its transactions  *)
(* only, so all that is said of it above holds under any calls.            *)
THEOREM CallsUseStore == CallSpec => StoreSpec
  BY CallIsTransaction, PTL DEF CallSpec, CallInit, StoreSpec

LEMMA ReplyType ==
    ASSUME NEW call \in {"none", "reserve", "addSnapshot", "markStaged", "activate"},
           NEW n \in Releases \cup {NoRelease}, NEW id \in Requests \cup {NoRequest},
           NEW vs \in SUBSET Volumes, NEW s \in Snapshots \cup {NoSnapshot}, NEW ok \in BOOLEAN
    PROVE  Reply(call, n, id, vs, s, ok) \in Answers
  BY DEF Reply, Answers

LEMMA AnswerStep ==
    ASSUME CallTypeOK, [CallNext]_callVars
    PROVE  answer' \in Answers
<1> USE ReplyType DEF CallTypeOK
<1>1. ASSUME NEW n \in Releases, NEW id \in Requests, CallReserve(n, id)
      PROVE  answer' \in Answers
  BY <1>1 DEF CallReserve, ByRequest
<1>2. ASSUME NEW n \in Releases, NEW id \in Requests, CallActivate(n, id)
      PROVE  answer' \in Answers
  BY <1>2 DEF CallActivate
<1>3. ASSUME NEW n \in Releases, NEW v \in Volumes, NEW s \in Snapshots, CallAddSnapshot(n, v, s)
      PROVE  answer' \in Answers
  BY <1>3 DEF CallAddSnapshot
<1>4. ASSUME NEW n \in Releases, NEW expected \in SUBSET Volumes, CallMarkStaged(n, expected)
      PROVE  answer' \in Answers
  BY <1>4 DEF CallMarkStaged
<1> QED
  BY <1>1, <1>2, <1>3, <1>4 DEF CallNext, callVars

LEMMA AcknowledgedStep ==
    ASSUME CallTypeOK, AcknowledgedIsStored, [CallNext]_callVars
    PROVE  AcknowledgedIsStored'
<1> USE DEF Reply, CallTypeOK, StoreTypeOK
<1>1. ASSUME NEW n \in Releases, NEW id \in Requests, CallReserve(n, id)
      PROVE  AcknowledgedIsStored'
  BY <1>1 DEF CallReserve, Reserve, ByRequest, AcknowledgedIsStored, db
<1>2. ASSUME NEW n \in Releases, NEW id \in Requests, CallActivate(n, id)
      PROVE  AcknowledgedIsStored'
  BY <1>2 DEF CallActivate, SetActive, AcknowledgedIsStored, db
<1>3. ASSUME NEW n \in Releases, NEW v \in Volumes, NEW s \in Snapshots, CallAddSnapshot(n, v, s)
      PROVE  AcknowledgedIsStored'
  BY <1>3 DEF CallAddSnapshot, AcknowledgedIsStored
<1>4. ASSUME NEW n \in Releases, NEW expected \in SUBSET Volumes, CallMarkStaged(n, expected)
      PROVE  AcknowledgedIsStored'
  BY <1>4 DEF CallMarkStaged, MarkStaged, AcknowledgedIsStored, Recorded, db
<1>5. CASE UNCHANGED callVars
  BY <1>5 DEF callVars, AcknowledgedIsStored, Recorded
<1> QED
  BY <1>1, <1>2, <1>3, <1>4, <1>5 DEF CallNext

LEMMA CallInitInv == CallInit => CallTypeOK /\ AcknowledgedIsStored
<1> SUFFICES ASSUME CallInit PROVE CallTypeOK /\ AcknowledgedIsStored
  OBVIOUS
<1>1. CallTypeOK
  BY DEF CallInit, StoreInit, CallTypeOK, StoreTypeOK, Answers, Reply
<1>2. AcknowledgedIsStored
  BY DEF CallInit, Reply, AcknowledgedIsStored
<1> QED
  BY <1>1, <1>2

(* Every variable of the database keeps its type under any calls, and the  *)
(* answers theirs.                                                         *)
THEOREM CallTypeCorrect == CallSpec => []CallTypeOK
<1>1. CallTypeOK /\ StoreInv' /\ [CallNext]_callVars => CallTypeOK'
  BY AnswerStep DEF CallTypeOK, StoreInv
<1> QED
  BY <1>1, CallInitInv, CallsUseStore, StoreSafety, PTL DEF CallSpec

(* What a call acknowledges is stored.                                     *)
THEOREM Acknowledged == CallSpec => []AcknowledgedIsStored
<1>1. CallTypeOK /\ AcknowledgedIsStored /\ [CallNext]_callVars => AcknowledgedIsStored'
  BY AcknowledgedStep
<1> QED
  BY <1>1, CallInitInv, CallTypeCorrect, PTL DEF CallSpec
=============================================================================
