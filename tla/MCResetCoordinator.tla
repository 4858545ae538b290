------------------------- MODULE MCResetCoordinator -------------------------
(* Instances of ResetCoordinator for TLC.                                  *)
EXTENDS ResetCoordinator

CONSTANTS c1, c2, ssd, hdd, r1, r2, own1

(* Two PCs; they share the clone parent of ssd, only c1 also has hdd. *)
SharedClientVolumes == [c \in Clients |-> IF c = c1 THEN Volumes ELSE {ssd}]
SharedCloneParent == [c \in Clients |-> [v \in Volumes |-> own1]]

HddOccupied == {<<own1, hdd, r1>>}
=============================================================================
