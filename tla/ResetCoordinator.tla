-------------------------- MODULE ResetCoordinator --------------------------
(***************************************************************************)
(* The client side of the service: ResetCoordinator.prepare, which takes a *)
(* game PC's extents away, points every volume at this client's writable   *)
(* clone of the active release, rolls the clones back to their @clean      *)
(* snapshot and only then makes the volumes visible again.                 *)
(*                                                                         *)
(* Prepares of different clients interleave at every await; one client has *)
(* at most one in progress (asyncio.Lock, else CLIENT_BUSY).  Every call   *)
(* to TrueNAS that changes something is a step of its own: it may be       *)
(* acknowledged, be acknowledged without effect where the code checks the  *)
(* effect, or raise with or without having taken effect (a lost reply, or  *)
(* the second attempt of the RPC client refused because the first one was  *)
(* executed).  The container may be restarted between any two steps.       *)
(* PCs log in to their targets, write and log out whenever they can, and   *)
(* another release may be activated at any moment.                         *)
(***************************************************************************)
EXTENDS Naturals, FiniteSets

CONSTANTS
    Clients,        \* keys of config.clients
    Volumes,        \* keys of config.publisher.volumes
    Releases,       \* names of published releases
    Parents,        \* datasets under which clones are created
    ClientVolumes,  \* client -> its volumes, a subset of the publisher's
    CloneParent,    \* client -> volume -> parent dataset (parent_for)
    Occupied,       \* clone paths where somebody else's dataset already is
    NoRelease,      \* no release has been activated yet
    Nobody,         \* owner of a path where no dataset exists
    Foreign,        \* owner of a dataset the service did not create
    Bootstrap,      \* the zvol an extent points at before its first reset
    MaxFaults       \* bound: failing calls, restarts and stray logins

(* A clone's path names parent, volume and release - not the client.       *)
Paths == Parents \X Volumes \X Releases

ClonePath(c, v, r) == <<CloneParent[c][v], v, r>>

(* An extent belongs to one client's volume (extent ids are unique).       *)
Extents == UNION {{c} \X ClientVolumes[c] : c \in Clients}

ASSUME ConfigAssumption ==
    /\ ClientVolumes \in [Clients -> (SUBSET Volumes) \ {{}}]
    /\ CloneParent \in [Clients -> [Volumes -> Parents]]
    /\ Occupied \subseteq Paths
    /\ Bootstrap \notin Paths
    /\ NoRelease \notin Releases
    /\ Nobody \notin Clients
    /\ Foreign \notin Clients
    /\ Nobody # Foreign
    /\ MaxFaults \in Nat

VARIABLES
    active,    \* the store's active release, or NoRelease
    zvol,      \* path -> the dataset there: owner, content, @clean snapshot
    enabled,   \* the extents that are enabled
    disk,      \* extent -> path it exposes, or Bootstrap
    sessions,  \* clients with an iSCSI session prepare would match
    step,      \* client -> where its prepare is (or its last answer)
    todo,      \* client -> volumes the current loop has still to handle
    release,   \* client -> release read by its prepare
    faults     \* how much of MaxFaults has been used

storage == <<zvol, enabled, disk>>
control == <<step, todo, release>>
vars == <<active, zvol, enabled, disk, sessions, step, todo, release, faults>>

(* Mutant of Resting: a failed prepare keeps its lock (no finally).        *)
Resting_LockKept == {"idle", "ready"}

Resting == {"idle", "failed", "ready"}
Steps == Resting \cup
    {"disabling", "verifyOff", "cloning", "switching", "rollback", "enabling",
     "verifyOn", "answering", "closingFirst", "closing"}

Zvols == [owner : Clients \cup {Nobody, Foreign},
          data  : {"pristine", "dirty"},
          clean : {"none", "pristine", "dirty"}]

TypeOK ==
    /\ active \in Releases \cup {NoRelease}
    /\ zvol \in [Paths -> Zvols]
    /\ enabled \subseteq Extents
    /\ disk \in [Extents -> Paths \cup {Bootstrap}]
    /\ sessions \subseteq Clients
    /\ step \in [Clients -> Steps]
    /\ todo \in [Clients -> SUBSET Volumes]
    /\ release \in [Clients -> Releases \cup {NoRelease}]
    /\ faults \in 0..MaxFaults

Absent == [owner |-> Nobody, data |-> "pristine", clean |-> "none"]
NotOurs == [owner |-> Foreign, data |-> "dirty", clean |-> "none"]

Init ==
    /\ active = NoRelease
    /\ zvol = [p \in Paths |-> IF p \in Occupied THEN NotOurs ELSE Absent]
    /\ enabled \in SUBSET Extents
    /\ disk = [e \in Extents |-> Bootstrap]
    /\ sessions = {}
    /\ step = [c \in Clients |-> "idle"]
    /\ todo = [c \in Clients |-> {}]
    /\ release = [c \in Clients |-> NoRelease]
    /\ faults = 0
-----------------------------------------------------------------------------
(* Control of one prepare.                                                 *)

(* The volume the current loop is at; the configuration fixes the order.   *)
Current(c) == CHOOSE v \in todo[c] : TRUE

GoTo(c, next, work) ==
    /\ step' = [step EXCEPT ![c] = next]
    /\ todo' = [todo EXCEPT ![c] = work]

(* The loop is done with volume v; after the last one it goes on to next.  *)
Advance(c, v, next, work) ==
    IF todo[c] = {v} THEN GoTo(c, next, work)
                     ELSE GoTo(c, step[c], todo[c] \ {v})

(* An exception once mutation_started is set: _best_effort_disable.        *)
Raise(c) == GoTo(c, "closing", ClientVolumes[c])

Fault == faults < MaxFaults /\ faults' = faults + 1

Off(c) == \A v \in ClientVolumes[c] : <<c, v>> \notin enabled
-----------------------------------------------------------------------------
(* prepare enters with its lock free and no matching session, reads the    *)
(* LUN associations and the original extents, and begins to mutate.  A     *)
(* refusal up to there changes nothing, so it is not a step.               *)
Prepare(c) ==
    /\ step[c] \in Resting
    /\ c \notin sessions
    /\ GoTo(c, "disabling", ClientVolumes[c])
    /\ release' = [release EXCEPT ![c] = NoRelease]
    /\ UNCHANGED <<active, storage, sessions, faults>>

(* One update_extent of _set_all_enabled.  The answer is not looked at, so *)
(* an update that was acknowledged but not done is noticed only by the     *)
(* reads that follow the loop.                                             *)
SetEnabled(c, from, next, after) ==
    LET v == Current(c)
        e == <<c, v>>
        done == IF from = "disabling" THEN enabled \ {e} ELSE enabled \cup {e}
    IN  /\ step[c] = from
        /\ \/ enabled' = done /\ Advance(c, v, next, after) /\ UNCHANGED faults
           \/ Fault /\ enabled' = enabled /\ Advance(c, v, next, after)
           \/ Fault /\ enabled' \in {enabled, done} /\ Raise(c)
        /\ UNCHANGED <<active, zvol, disk, sessions, release>>

Disable(c) == SetEnabled(c, "disabling", "verifyOff", {})
Enable(c) == SetEnabled(c, "enabling", "verifyOn", {})

(* Mutant of VerifyOff: the extents are not read back before mutating.     *)
VerifyOff_Unread(c) ==
    /\ step[c] = "verifyOff"
    /\ c \notin sessions /\ active # NoRelease
    /\ GoTo(c, "cloning", ClientVolumes[c])
    /\ release' = [release EXCEPT ![c] = active]
    /\ UNCHANGED <<active, storage, sessions, faults>>

(* _verify_all_enabled(False), the second _require_no_session, and with no *)
(* await in between the one read of the active release.                    *)
VerifyOff(c) ==
    /\ step[c] = "verifyOff"
    /\ \/ /\ Off(c) /\ c \notin sessions /\ active # NoRelease
          /\ GoTo(c, "cloning", ClientVolumes[c])
          /\ release' = [release EXCEPT ![c] = active]
          /\ UNCHANGED faults
       \/ /\ ~Off(c) \/ c \in sessions \/ active = NoRelease
          /\ Raise(c)
          /\ UNCHANGED <<release, faults>>
       \/ Fault /\ Raise(c) /\ UNCHANGED release
    /\ UNCHANGED <<active, storage, sessions>>

(* Mutant of VerifyClone: only the origin is compared, not the client.     *)
VerifyClone_OriginOnly(c, p) == zvol[p].owner \notin {Nobody, Foreign}

(* _verify_clone: origin and managed properties are this client's.         *)
VerifyClone(c, p) == zvol[p].owner = c

(* Mutant of EnsureReleaseClone: @clean is taken anew when the clone is    *)
(* reused.                                                                 *)
EnsureReleaseClone_Refreshes(c) ==
    LET v == Current(c)
        p == ClonePath(c, v, release[c])
    IN  /\ step[c] = "cloning" /\ zvol[p].owner \in {Nobody, c}
        /\ IF zvol[p].owner = Nobody
           THEN /\ zvol' = [zvol EXCEPT ![p].owner = c]
                /\ UNCHANGED <<step, todo>>
           ELSE /\ zvol' = [zvol EXCEPT ![p].clean = zvol[p].data]
                /\ Advance(c, v, "switching", ClientVolumes[c])
        /\ UNCHANGED <<active, enabled, disk, sessions, release, faults>>

(* _ensure_release_clone for the current volume: clone the release's       *)
(* snapshot unless a dataset is at the path, verify that what is there is  *)
(* this client's clone, and take @clean unless it exists.  A clone or      *)
(* snapshot that does not show up afterwards raises like a failed call.    *)
EnsureReleaseClone(c) ==
    LET v == Current(c)
        p == ClonePath(c, v, release[c])
        cloned == [owner |-> c, data |-> "pristine", clean |-> "none"]
    IN  /\ step[c] = "cloning"
        /\ \/ /\ zvol[p].owner = Nobody
              /\ zvol' = [zvol EXCEPT ![p] = cloned]
              /\ \/ UNCHANGED <<step, todo, faults>>
                 \/ Fault /\ Raise(c)
           \/ /\ VerifyClone(c, p) /\ zvol[p].clean = "none"
              /\ zvol' = [zvol EXCEPT ![p].clean = zvol[p].data]
              /\ \/ Advance(c, v, "switching", ClientVolumes[c]) /\ UNCHANGED faults
                 \/ Fault /\ Raise(c)
           \/ /\ VerifyClone(c, p) /\ zvol[p].clean # "none"
              /\ Advance(c, v, "switching", ClientVolumes[c])
              /\ UNCHANGED <<zvol, faults>>
           \/ /\ zvol[p].owner # Nobody /\ ~VerifyClone(c, p)
              /\ Raise(c)
              /\ UNCHANGED <<zvol, faults>>
           \/ Fault /\ Raise(c) /\ UNCHANGED zvol
        /\ UNCHANGED <<active, enabled, disk, sessions, release>>

(* Mutant of SwitchDisk: the extent is enabled along with the new path.    *)
SwitchDisk_Enables(c) ==
    LET v == Current(c)
        e == <<c, v>>
    IN  /\ step[c] = "switching"
        /\ disk' = [disk EXCEPT ![e] = ClonePath(c, v, release[c])]
        /\ enabled' = enabled \cup {e}
        /\ Advance(c, v, "rollback", ClientVolumes[c])
        /\ UNCHANGED <<active, zvol, sessions, release, faults>>

(* update_extent(enabled=False, disk=desired).  The row it answers with is *)
(* compared (path, enabled, NAA, serial), so an update that was not done   *)
(* raises; NAA or serial changed by the update raises after the effect.    *)
SwitchDisk(c) ==
    LET v == Current(c)
        e == <<c, v>>
        switched == [disk EXCEPT ![e] = ClonePath(c, v, release[c])]
    IN  /\ step[c] = "switching"
        /\ \/ /\ disk' = switched /\ enabled' = enabled \ {e}
              /\ \/ Advance(c, v, "rollback", ClientVolumes[c]) /\ UNCHANGED faults
                 \/ Fault /\ Raise(c)
           \/ Fault /\ Raise(c) /\ UNCHANGED <<disk, enabled>>
        /\ UNCHANGED <<active, zvol, sessions, release>>

(* Mutant of Rollback: a clone that was reused is not rolled back.         *)
Rollback_Skipped(c) ==
    /\ step[c] = "rollback"
    /\ Advance(c, Current(c), "enabling", ClientVolumes[c])
    /\ UNCHANGED <<active, storage, sessions, release, faults>>

(* rollback_snapshot of <clone>@clean; nothing reads the content back, the *)
(* acknowledgement is believed.  ZFS refuses if there is no such snapshot. *)
(* Verifying the LUNs again belongs to the last step: it can only raise.   *)
Rollback(c) ==
    LET v == Current(c)
        p == ClonePath(c, v, release[c])
    IN  /\ step[c] = "rollback"
        /\ \/ /\ zvol[p].clean # "none"
              /\ zvol' = [zvol EXCEPT ![p].data = zvol[p].clean]
              /\ \/ Advance(c, v, "enabling", ClientVolumes[c]) /\ UNCHANGED faults
                 \/ Fault /\ Raise(c)
           \/ Fault /\ Raise(c) /\ UNCHANGED zvol
        /\ UNCHANGED <<active, enabled, disk, sessions, release>>

(* Mutant of FinalExtents: only the paths are read back.                   *)
FinalExtents_PathsOnly(c) ==
    \A v \in ClientVolumes[c] : disk[<<c, v>>] = ClonePath(c, v, release[c])

(* What _verify_final_extents reads: every extent enabled on its clone.    *)
FinalExtents(c) ==
    \A v \in ClientVolumes[c] :
        <<c, v>> \in enabled /\ disk[<<c, v>>] = ClonePath(c, v, release[c])

(* _verify_final_extents and the last look at the sessions.  A session     *)
(* that appeared disables the extents and raises, so they are disabled     *)
(* twice; any other failure disables them once.                            *)
VerifyOn(c) ==
    /\ step[c] = "verifyOn"
    /\ \/ /\ FinalExtents(c) /\ c \notin sessions
          /\ GoTo(c, "answering", {})
          /\ UNCHANGED faults
       \/ /\ FinalExtents(c) /\ c \in sessions
          /\ GoTo(c, "closingFirst", ClientVolumes[c])
          /\ UNCHANGED faults
       \/ ~FinalExtents(c) /\ Raise(c) /\ UNCHANGED faults
       \/ Fault /\ Raise(c)
    /\ UNCHANGED <<active, storage, sessions, release>>

(* return await public_client: more reads, which can still raise.          *)
Answer(c) ==
    /\ step[c] = "answering"
    /\ \/ GoTo(c, "ready", {}) /\ UNCHANGED faults
       \/ Fault /\ Raise(c)
    /\ UNCHANGED <<active, storage, sessions, release>>

(* One update_extent of _best_effort_disable: an exception is logged and   *)
(* the loop goes on.                                                       *)
BestEffortDisable(c, from, next, after) ==
    LET v == Current(c)
        e == <<c, v>>
    IN  /\ step[c] = from
        /\ \/ enabled' = enabled \ {e} /\ UNCHANGED faults
           \/ Fault /\ UNCHANGED enabled
        /\ Advance(c, v, next, after)
        /\ UNCHANGED <<active, zvol, disk, sessions, release>>

CloseFirst(c) == BestEffortDisable(c, "closingFirst", "closing", ClientVolumes[c])
Close(c) == BestEffortDisable(c, "closing", "failed", {})
-----------------------------------------------------------------------------
(* The iSCSI initiators and the rest of the world.                         *)

(* A PC logs in.  Before it has been told ready this is a stray login.     *)
Login(c) ==
    /\ c \notin sessions
    /\ sessions' = sessions \cup {c}
    /\ \/ step[c] = "ready" /\ UNCHANGED faults
       \/ step[c] # "ready" /\ Fault
    /\ UNCHANGED <<active, storage, control>>

Logout(c) ==
    /\ c \in sessions
    /\ sessions' = sessions \ {c}
    /\ UNCHANGED <<active, storage, control, faults>>

Accessible(e) == e \in enabled /\ e[1] \in sessions

Write(e) ==
    /\ Accessible(e)
    /\ disk[e] \in Paths
    /\ zvol' = [zvol EXCEPT ![disk[e]].data = "dirty"]
    /\ UNCHANGED <<active, enabled, disk, sessions, control, faults>>

(* ReleaseManager.activate, in the other container.                        *)
Activate(r) ==
    /\ active' = r
    /\ UNCHANGED <<storage, sessions, control, faults>>

(* The Reset API container is restarted: the prepares in progress and      *)
(* their locks are gone, storage stays as it is.                           *)
Restart ==
    /\ \E c \in Clients : step[c] \notin Resting
    /\ Fault
    /\ step' = [c \in Clients |-> IF step[c] \in Resting THEN step[c] ELSE "idle"]
    /\ todo' = [c \in Clients |-> {}]
    /\ UNCHANGED <<active, storage, sessions, release>>
-----------------------------------------------------------------------------
Proceed(c) ==
    \/ Disable(c) \/ VerifyOff(c) \/ EnsureReleaseClone(c) \/ SwitchDisk(c)
    \/ Rollback(c) \/ Enable(c) \/ VerifyOn(c) \/ Answer(c)
    \/ CloseFirst(c) \/ Close(c)

Next ==
    \/ \E c \in Clients : Prepare(c) \/ Proceed(c) \/ Login(c) \/ Logout(c)
    \/ \E e \in Extents : Write(e)
    \/ \E r \in Releases : Activate(r)
    \/ Restart

Spec == Init /\ [][Next]_vars

(* asyncio keeps every prepare going, each call being bounded by the RPC   *)
(* timeout; the client helper asks again and logs out what it logged in.   *)
FairSpec ==
    /\ Spec
    /\ \A c \in Clients :
          WF_vars(Proceed(c)) /\ WF_vars(Prepare(c)) /\ WF_vars(Logout(c))
-----------------------------------------------------------------------------
(* Properties.                                                             *)

(* A @clean snapshot holds exactly the release: no prepare, however it was *)
(* cut short, takes @clean of a clone that the client may already have     *)
(* written to (_ensure_release_clone, repeated after a failure).           *)
CleanSnapshotsPristine ==
    \A p \in Paths : zvol[p].clean # "dirty"

(* An extent that has been reset exposes a clone of its own volume, owned  *)
(* by its own client and able to be rolled back, even when clients share a *)
(* clone parent or a foreign dataset sits at the path.                     *)
AttachedIsOwn ==
    \A e \in Extents : disk[e] # Bootstrap =>
        /\ disk[e][2] = e[2]
        /\ zvol[disk[e]].owner = e[1]
        /\ zvol[disk[e]].clean # "none"

ReleaseAt(e) == IF disk[e] = Bootstrap THEN NoRelease ELSE disk[e][3]

(* While anything of a client is visible, all its volumes are at one       *)
(* release: neither a failed prepare, nor a restart between two switched   *)
(* extents, nor an activation in the middle shows a PC a mix of releases.  *)
VisibleVolumesAgree ==
    \A c \in Clients : ~Off(c) =>
        \A v, w \in ClientVolumes[c] : ReleaseAt(<<c, v>>) = ReleaseAt(<<c, w>>)

(* The answer ready means the complete volume set: every extent of the     *)
(* client is enabled on its clone of the one release prepare had read, and *)
(* stays so until the next prepare (README, safety guarantees).            *)
ReadyIsComplete ==
    \A c \in Clients : step[c] = "ready" =>
        /\ release[c] # NoRelease
        /\ \A v \in ClientVolumes[c] :
              <<c, v>> \in enabled /\ ReleaseAt(<<c, v>>) = release[c]

(* Snapshots, clones and extent paths change only while every extent of    *)
(* that client is disabled; the one other change to a dataset is a write   *)
(* by its own logged-in client.  A foreign dataset never changes.          *)
StorageChange ==
    /\ \A e \in Extents : disk'[e] # disk[e] => Off(e[1])
    /\ \A p \in Paths : zvol'[p] # zvol[p] =>
        \/ \E c \in Clients : zvol'[p].owner = c /\ Off(c)
        \/ /\ \E e \in Extents : Accessible(e) /\ disk[e] = p /\ zvol[p].owner = e[1]
           /\ zvol' = [zvol EXCEPT ![p].data = "dirty"]
ChangesOnlyWhenOff == [][StorageChange]_vars

(* An extent is made visible only with content exactly as released: its    *)
(* clone is pristine at that moment and nothing wrote to it since the      *)
(* rollback.                                                               *)
ExposeFresh ==
    \A e \in enabled' \ enabled :
        disk[e] \in Paths /\ zvol[disk[e]].data = "pristine" /\ zvol[disk[e]].owner = e[1]
ExposedFresh == [][ExposeFresh]_vars

(* What a PC may rely on of the state: the release each extent shows, the  *)
(* extents with content exactly as released, the clients told ready.       *)
At == [e \in Extents |-> ReleaseAt(e)]
Fresh == {e \in Extents : disk[e] \in Paths /\ zvol[disk[e]].data = "pristine"}
ToldReady == {c \in Clients : step[c] = "ready"}

(* Seen from the PCs, prepare is what ResetService promises, whatever      *)
(* fails, restarts or is activated in between: the release is chosen once  *)
(* per request and while nothing is visible, all volumes are put to it and *)
(* reset while they are hidden, and a PC's content changes by its own      *)
(* writes and its own request only.                                        *)
Service == INSTANCE ResetService
    WITH chosen <- release, at <- At, fresh <- Fresh, visible <- enabled, ready <- ToldReady
ImplementsResetService == Service!Spec

(* A dataset that is not a clone of this client, a foreign one or that of  *)
(* another PC with the same clone parent, has the path a clone would get.  *)
Blocked(c) ==
    /\ active # NoRelease
    /\ \E v \in ClientVolumes[c] : zvol[ClonePath(c, v, active)].owner \notin {Nobody, c}

(* Every failure is reconcilable: once a release is active, a client that  *)
(* keeps asking is eventually answered ready, whatever clones, snapshots   *)
(* and half-switched extents earlier prepares left behind; only a path     *)
(* taken by somebody else can prevent it.                                  *)
EventuallyReady ==
    \A c \in Clients : active # NoRelease ~> step[c] = "ready" \/ Blocked(c)
=============================================================================
