------------------------------ MODULE MCOutbox ------------------------------
(***************************************************************************)
(* Instances of Outbox for TLC.  A lease is as long as the first retry     *)
(* delay, as in the code, where both are 60 seconds.  Expiry and retention *)
(* are scaled down so that a behaviour reaches them.                       *)
(***************************************************************************)
EXTENDS Outbox, TLC

CONSTANTS i1, i2, b1, b2, u1, nobody

(* One reminder for the user's chat and one instruction to forget a chat.  *)
MCOwner == (i1 :> u1) @@ (i2 :> nobody)
MCOneOwner == i1 :> u1
MCCancelOne == {{i1}}
MCBackoff == <<1, 2>>
MCShortBackoff == <<2>>
=============================================================================
