------------------------------ MODULE Handover ------------------------------
(***************************************************************************)
(* What a chat bot promises about the messages of its rooms, with sync     *)
(* tokens, gaps, retries and restarts left out: each message is settled,   *)
(* none before an earlier one of its room, and a settled one stays settled.*)
(* MatrixSync implements this specification.                               *)
(***************************************************************************)
EXTENDS Naturals

CONSTANTS Rooms, Messages  \* Messages: numbers, in the order the homeserver gives them

VARIABLES
  room,     \* [Messages -> Rooms], or 0 for a message that is not written yet
  settled   \* the messages that were stored, refused or given up

vars == <<room, settled>>

Init == room \in [Messages -> Rooms \cup {0}] /\ settled \in SUBSET {m \in Messages : room[m] # 0}

Write(m, r) ==
  /\ room[m] = 0
  /\ room' = [room EXCEPT ![m] = r]
  /\ UNCHANGED settled

Settle(S) ==
  /\ S # {}
  /\ \A m \in S : room[m] # 0 /\ \A e \in Messages : e < m /\ room[e] = room[m] => e \in settled \cup S
  /\ settled' = settled \cup S
  /\ UNCHANGED room

Next ==
  \/ \E m \in Messages, r \in Rooms : Write(m, r)
  \/ \E S \in SUBSET Messages : Settle(S)

EachIsSettled == \A m \in Messages : room[m] # 0 ~> m \in settled

Spec == Init /\ [][Next]_vars
=============================================================================
