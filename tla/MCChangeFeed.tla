---------------------------- MODULE MCChangeFeed ----------------------------
(***************************************************************************)
(* Instances of ChangeFeed for TLC.  A tick stands for some days; the      *)
(* thirty days of retention are scaled down.                               *)
(***************************************************************************)
EXTENDS ChangeFeed, TLC

CONSTANTS t1, r1, w1, w2, e1, e2

MCWrites == {<<e1>>, <<e2>>, <<e1, e2>>}
=============================================================================
