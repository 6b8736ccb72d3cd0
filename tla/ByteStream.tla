----------------------------- MODULE ByteStream -----------------------------
(***************************************************************************)
(* What a pipe promises: the bytes come out in the order they went in,     *)
(* none is lost or made up while the stream is open, there are never more  *)
(* than its capacity on the way, and an end that is closed stays closed.   *)
(***************************************************************************)
EXTENDS Naturals, Sequences

CONSTANTS Capacity, Bytes

VARIABLES
  inflight,  \* the bytes written and not yet read, the oldest first
  ends       \* the ends that are open

vars == <<inflight, ends>>

Init == inflight = <<>> /\ ends = {}

Open ==
  /\ ends = {}
  /\ ends' = {"read", "write"}
  /\ inflight' = <<>>

Send(s) ==
  /\ "write" \in ends
  /\ Len(inflight) + Len(s) <= Capacity
  /\ inflight' = inflight \o s
  /\ UNCHANGED ends

Receive(n) ==
  /\ "read" \in ends
  /\ n <= Len(inflight)
  /\ inflight' = SubSeq(inflight, n + 1, Len(inflight))
  /\ UNCHANGED ends

\* What nobody can read any more is gone with the last end.
Close(e) ==
  /\ e \in ends
  /\ ends' = ends \ {e}
  /\ inflight' = IF ends = {e} THEN <<>> ELSE inflight

Next ==
  \/ Open
  \/ \E s \in UNION {[1..n -> Bytes] : n \in 1..Capacity} : Send(s)
  \/ \E n \in 1..Capacity : Receive(n)
  \/ \E e \in {"read", "write"} : Close(e)

Spec == Init /\ [][Next]_vars
=============================================================================
