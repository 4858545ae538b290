---------------------------- MODULE MCResetClient ----------------------------
(* Instances of ResetClient for TLC.                                       *)
EXTENDS ResetClient

CONSTANTS ssd, hdd, usb, E, F

LetterOf == [v \in Volumes |-> IF v = ssd THEN E ELSE F]

(* The other disk has the label of one of the announced volumes.           *)
LabelOf == [d \in Disks |-> IF d = hdd THEN "HDD" ELSE "SSD"]
=============================================================================
