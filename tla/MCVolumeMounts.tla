--------------------------- MODULE MCVolumeMounts ---------------------------
(* A small instance of VolumeMounts: a detached and a foreground launch     *)
(* that use one volume.                                                     *)
EXTENDS VolumeMounts, TLC

CONSTANTS v1, detached, foreground

OneVolume == detached :> <<v1>> @@ foreground :> <<v1>>
=============================================================================
