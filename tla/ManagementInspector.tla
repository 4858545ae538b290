------------------------ MODULE ManagementInspector ------------------------
(***************************************************************************)
(* The dashboard's advice which old releases may be removed by hand, next  *)
(* to the prepares of ResetCoordinator.  The dashboard takes no lock: it   *)
(* reads the active release, then one extent after the other, while the    *)
(* other container switches them; only then it says which releases are     *)
(* "unused by current mappings".                                           *)
(***************************************************************************)
EXTENDS ResetCoordinator

VARIABLES
    seen,       \* active release the dashboard has read
    unread,     \* extents it has still to look at
    updated,    \* every client it has looked at so far is updated
    observed,   \* releases it has found at an extent
    unused,     \* releases that its last answer shows as unused
    since       \* releases activated since it read the active release

scan == <<seen, unread, updated, observed, unused, since>>
allVars == <<vars, scan>>

InspectorTypeOK ==
    /\ TypeOK
    /\ seen \in Releases \cup {NoRelease}
    /\ unread \subseteq Extents
    /\ updated \in BOOLEAN
    /\ observed \subseteq Releases
    /\ unused \subseteq Releases
    /\ since \subseteq Releases

InspectorInit ==
    /\ Init
    /\ seen = NoRelease
    /\ unread = {}
    /\ updated = FALSE
    /\ observed = {}
    /\ unused = {}
    /\ since = {}

(* dashboard: the releases and the active one, read without an await.      *)
Dashboard ==
    /\ unread = {}
    /\ seen' = active
    /\ unread' = Extents
    /\ updated' = (active # NoRelease)
    /\ observed' = {}
    /\ unused' = {}
    /\ since' = {}
    /\ UNCHANGED vars

(* Mutant of Mapped: an extent may be disabled.                            *)
Mapped_Disabled(e) ==
    /\ disk[e] # Bootstrap
    /\ zvol[disk[e]].owner = e[1] /\ zvol[disk[e]].clean # "none"

(* No volume error: the extent is enabled on a clone of this client with   *)
(* its @clean.                                                             *)
Mapped(e) ==
    /\ e \in enabled
    /\ disk[e] # Bootstrap
    /\ zvol[disk[e]].owner = e[1] /\ zvol[disk[e]].clean # "none"

(* _releases, once every client has been looked at.                        *)
Unused(all, found) ==
    IF all THEN {r \in Releases : r # seen /\ r \notin found} ELSE {}

(* The loop body of _client for one extent.  The clone it points at is     *)
(* read after it, but a clone keeps its properties and its @clean.         *)
Look(e) ==
    LET found == observed \cup ({ReleaseAt(e)} \ {NoRelease})
        good == updated /\ Mapped(e) /\ ReleaseAt(e) = seen
    IN  /\ e \in unread
        /\ unread' = unread \ {e}
        /\ updated' = good
        /\ observed' = found
        /\ unused' = IF unread = {e} THEN Unused(good, found) ELSE {}
        /\ UNCHANGED <<vars, seen, since>>

Elsewhere ==
    /\ Next
    /\ since' = IF active' = active THEN since ELSE since \cup {active'}
    /\ UNCHANGED <<seen, unread, updated, observed, unused>>

InspectorNext == Dashboard \/ (\E e \in Extents : Look(e)) \/ Elsewhere

InspectorSpec == InspectorInit /\ [][InspectorNext]_allVars
-----------------------------------------------------------------------------
(* A release shown as unused can be removed (README, old releases): unless *)
(* it was activated again after the dashboard began to read, no extent     *)
(* points at it, and no prepare is about to switch one to it - although    *)
(* the extents were read one by one, while prepares were under way.        *)
UnusedIsUnused ==
    \A r \in unused \ since :
        /\ active # r
        /\ \A e \in Extents : ReleaseAt(e) # r
        /\ \A c \in Clients : step[c] \notin Resting => release[c] # r
=============================================================================
