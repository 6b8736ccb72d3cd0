------------------------------ MODULE MCInode -------------------------------
(***************************************************************************)
(* Inode with two processes, one that makes files and one that removes     *)
(* them, and paths of up to two names.                                     *)
(***************************************************************************)
EXTENDS Inode

CONSTANTS p1, p2

MCCalls == p1 :> {"create", "link"} @@ p2 :> {"open", "unlink", "mkdir", "chdir"}
MCPaths == {<<>>, <<"a">>, <<"a", "b">>}
=============================================================================
