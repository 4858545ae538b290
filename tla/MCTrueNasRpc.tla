----------------------------- MODULE MCTrueNasRpc -----------------------------
(* Instances of TrueNasRpc for TLC.                                        *)
EXTENDS TrueNasRpc

CONSTANTS read, clone, update
=============================================================================
