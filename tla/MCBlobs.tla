------------------------------ MODULE MCBlobs -------------------------------
(***************************************************************************)
(* Instances of Blobs for TLC.  A tick stands for about ten minutes, the   *)
(* deadline of an upload; the age of stale uploads is scaled down from six *)
(* ticks to two, one more than the deadline.                               *)
(***************************************************************************)
EXTENDS Blobs, TLC

CONSTANTS u1, u2, a1, a2, c1, c2, p1, p2

MCSize == (c1 :> 1) @@ (c2 :> 2)
=============================================================================
