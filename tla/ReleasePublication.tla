------------------------- MODULE ReleasePublication -------------------------
(***************************************************************************)
(* What publishing promises to the game PCs: a release appears at once,    *)
(* with all its volumes at one point of the publisher's history, never     *)
(* changes afterwards, and only releases that have appeared are activated. *)
(***************************************************************************)
CONSTANTS Releases, Volumes, Contents, NoRelease, NoContent

VARIABLES
    published,  \* release -> the content of its volumes, or NoContent
    active      \* the release clients are reset to, or NoRelease

vars == <<published, active>>

Init ==
    /\ published = [n \in Releases |-> NoContent]
    /\ active = NoRelease

Publish(n, content) ==
    /\ published[n] = NoContent
    /\ published' = [published EXCEPT ![n] = [v \in Volumes |-> content]]
    /\ UNCHANGED active

Activate(n) ==
    /\ published[n] # NoContent
    /\ active' = n
    /\ UNCHANGED published

Next == \E n \in Releases : Activate(n) \/ \E content \in Contents : Publish(n, content)

Spec == Init /\ [][Next]_vars
=============================================================================
