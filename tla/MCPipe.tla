------------------------------- MODULE MCPipe -------------------------------
(* Instance of Pipe for TLC: a write that fits and one that never does. *)
EXTENDS Pipe

MCBuffers == {<<"a">>, <<"b", "a", "b">>}
=============================================================================
