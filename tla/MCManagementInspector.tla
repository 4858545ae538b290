------------------------ MODULE MCManagementInspector ------------------------
(* Instances of ManagementInspector for TLC.                               *)
EXTENDS ManagementInspector

CONSTANTS c1, ssd, hdd, r1, r2, own1

(* One PC with both volumes. *)
OneClientVolumes == [c \in Clients |-> Volumes]
OneCloneParent == [c \in Clients |-> [v \in Volumes |-> own1]]

NotOccupied == {}
=============================================================================
