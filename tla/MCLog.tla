------------------------------- MODULE MCLog -------------------------------
(***************************************************************************)
(* Log with two processes and two blocks, one of them the block that a     *)
(* home write past the end of the log would hit.                           *)
(***************************************************************************)
EXTENDS Log
=============================================================================
