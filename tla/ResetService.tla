---------------------------- MODULE ResetService ----------------------------
(***************************************************************************)
(* What a game PC may rely on, without clones, snapshots or calls: for     *)
(* every request one release is chosen, the active one at a moment when    *)
(* nothing of the PC is visible.  Its volumes are put to that release      *)
(* while they are hidden, become visible only when all of them are, each   *)
(* as released, and ready is said when all of them can be seen.  Nobody    *)
(* but the PC itself writes to what it sees.                               *)
(***************************************************************************)
CONSTANTS Clients, ClientVolumes, Releases, NoRelease

VARIABLES
    active,    \* the active release, or NoRelease
    chosen,    \* client -> the release chosen for its last request
    at,        \* extent -> the release it shows, or NoRelease before the first
    fresh,     \* extents whose content is exactly as released
    visible,   \* extents a PC that logs in can see
    sessions,  \* clients that are logged in
    ready      \* clients that were told so, and have not asked again

vars == <<active, chosen, at, fresh, visible, sessions, ready>>

Extents == UNION {{c} \X ClientVolumes[c] : c \in Clients}

Hidden(c) == \A v \in ClientVolumes[c] : <<c, v>> \notin visible

Chosen(c) == c \notin ready /\ chosen[c] # NoRelease

(* All volumes of the client are at the release chosen for it.             *)
Whole(c) == \A v \in ClientVolumes[c] : at[<<c, v>>] = chosen[c]

Init ==
    /\ active = NoRelease
    /\ chosen = [c \in Clients |-> NoRelease]
    /\ at = [e \in Extents |-> NoRelease]
    /\ fresh = {}
    /\ visible \in SUBSET Extents
    /\ sessions = {}
    /\ ready = {}

Ask(c) ==
    /\ c \notin sessions
    /\ chosen' = [chosen EXCEPT ![c] = NoRelease]
    /\ ready' = ready \ {c}
    /\ UNCHANGED <<active, at, fresh, visible, sessions>>

Hide(e) ==
    /\ e[1] \notin ready
    /\ visible' = visible \ {e}
    /\ UNCHANGED <<active, chosen, at, fresh, sessions, ready>>

Choose(c) ==
    /\ c \notin ready /\ c \notin sessions /\ Hidden(c)
    /\ chosen[c] = NoRelease /\ active # NoRelease
    /\ chosen' = [chosen EXCEPT ![c] = active]
    /\ UNCHANGED <<active, at, fresh, visible, sessions, ready>>

(* The volume is put to the release, in the state its last use left it.    *)
Put(e) ==
    /\ Chosen(e[1]) /\ Hidden(e[1])
    /\ at' = [at EXCEPT ![e] = chosen[e[1]]]
    /\ fresh' \in {fresh \cup {e}, fresh \ {e}}
    /\ UNCHANGED <<active, chosen, visible, sessions, ready>>

Reset(e) ==
    /\ Chosen(e[1]) /\ Hidden(e[1]) /\ Whole(e[1])
    /\ fresh' = fresh \cup {e}
    /\ UNCHANGED <<active, chosen, at, visible, sessions, ready>>

Show(e) ==
    /\ Chosen(e[1]) /\ Whole(e[1]) /\ e \in fresh
    /\ visible' = visible \cup {e}
    /\ UNCHANGED <<active, chosen, at, fresh, sessions, ready>>

Promise(c) ==
    /\ Chosen(c) /\ Whole(c)
    /\ \A v \in ClientVolumes[c] : <<c, v>> \in visible
    /\ ready' = ready \cup {c}
    /\ UNCHANGED <<active, chosen, at, fresh, visible, sessions>>

Login(c) ==
    /\ sessions' = sessions \cup {c}
    /\ UNCHANGED <<active, chosen, at, fresh, visible, ready>>

Logout(c) ==
    /\ sessions' = sessions \ {c}
    /\ UNCHANGED <<active, chosen, at, fresh, visible, ready>>

Write(e) ==
    /\ e \in visible /\ e[1] \in sessions
    /\ fresh' = fresh \ {e}
    /\ UNCHANGED <<active, chosen, at, visible, sessions, ready>>

Activate(r) ==
    /\ active' = r
    /\ UNCHANGED <<chosen, at, fresh, visible, sessions, ready>>

Next ==
    \/ \E c \in Clients : Ask(c) \/ Choose(c) \/ Promise(c) \/ Login(c) \/ Logout(c)
    \/ \E e \in Extents : Hide(e) \/ Put(e) \/ Reset(e) \/ Show(e) \/ Write(e)
    \/ \E r \in Releases : Activate(r)

Spec == Init /\ [][Next]_vars
=============================================================================
