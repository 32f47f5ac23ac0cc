-------------------------- MODULE DeliveryPromise --------------------------
(***************************************************************************)
(* What the outbox promises about one item, with every mechanism left out: *)
(* an item is asked for once, its message may appear in the chat only      *)
(* afterwards, it is confirmed only when it did appear, it is given up     *)
(* only while it waits, and once it is settled it stays settled until the  *)
(* retention job forgets it.  Outbox implements this specification.        *)
(***************************************************************************)
CONSTANT Items

VARIABLES
  outcome,   \* [Items -> Outcomes]
  shown      \* the items whose message is in the chat

vars == <<outcome, shown>>

Settled  == {"delivered", "failed", "expired"}
Outcomes == {"absent", "waiting", "purged"} \cup Settled

TypeOK ==
  /\ outcome \in [Items -> Outcomes]
  /\ shown \subseteq Items

Init ==
  /\ outcome = [i \in Items |-> "absent"]
  /\ shown = {}

In(S, from) == \A i \in S : outcome[i] \in from

Become(S, o) == outcome' = [i \in Items |-> IF i \in S THEN o ELSE outcome[i]]

Ask(i) ==
  /\ In({i}, {"absent"})
  /\ Become({i}, "waiting")
  /\ UNCHANGED shown

(* The message may still appear after the item was settled: a bot that had *)
(* it in hand does not learn that it was cancelled or expired.             *)
Appear(i) ==
  /\ ~ In({i}, {"absent"})
  /\ shown' = shown \cup {i}
  /\ UNCHANGED outcome

Confirm(i) ==
  /\ In({i}, {"waiting"})
  /\ i \in shown
  /\ Become({i}, "delivered")
  /\ UNCHANGED shown

Abandon(S, o) ==
  /\ In(S, {"waiting"})
  /\ Become(S, o)
  /\ UNCHANGED shown

Forget(S) ==
  /\ In(S, Settled)
  /\ Become(S, "purged")
  /\ UNCHANGED shown

Next ==
  \/ \E i \in Items : Ask(i) \/ Appear(i) \/ Confirm(i)
  \/ \E S \in SUBSET Items : Forget(S) \/ \E o \in {"failed", "expired"} : Abandon(S, o)

Spec == Init /\ [][Next]_vars
=============================================================================
