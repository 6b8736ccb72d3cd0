---------------------------- MODULE MCSleepLock ----------------------------
(* Instance of SleepLock for TLC.  No symmetry: the run checks liveness. *)
EXTENDS SleepLock
=============================================================================
