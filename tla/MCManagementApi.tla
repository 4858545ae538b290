--------------------------- MODULE MCManagementApi ---------------------------
(* Instances of ManagementApi for TLC.                                     *)
EXTENDS ManagementApi, TLC

CONSTANTS r1, r2, r3, q1, q2, q3, ssd, hdd, tank1, tank2

OwnDatasets == ssd :> tank1 @@ hdd :> tank2

(* Somebody took a snapshot of one master under the name of a release. *)
OneLeftover == {<<tank2, r1>>}
=============================================================================
