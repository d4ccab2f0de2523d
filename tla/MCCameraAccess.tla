---------------------------- MODULE MCCameraAccess ----------------------------
(* Three attempts' threads for two attempts: one may be left from a cycle     *)
(* that is over.                                                             *)
EXTENDS CameraAccess

CONSTANTS g1, g2, g3

MCGrabs == {g1, g2, g3}
=============================================================================
