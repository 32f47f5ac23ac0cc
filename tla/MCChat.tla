------------------------------- MODULE MCChat -------------------------------
(* Instances of Chat: a handful of events, an app that works on the same *)
(* notes, and a bot that stops once.                                     *)
EXTENDS Chat, TLC

MCSources == [sender : Senders, message : 1 .. MaxEvents, index : 0 .. MaxPartsPerRequest,
              command : BOOLEAN]
MCNotes == {1, 2}

(* A text or a file in a message. *)
MCSinglePart == {<<"text">>, <<"attachment">>}

Symmetry == Permutations(Parts) \cup Permutations(Senders) \cup Permutations(Texts)
=============================================================================
