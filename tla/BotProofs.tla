------------------------------ MODULE BotProofs ------------------------------
(***************************************************************************)
(* Theorems about both ways between Core and a chat.                       *)
(*                                                                         *)
(* 1. Outbox, for any number of items, users and bot processes and for any *)
(*    times that satisfy TimesAssumption and BackoffAssumption: from Core  *)
(*    to the chat.                                                         *)
(* 2. MatrixSync, for any number of events, rooms and bot processes and    *)
(*    for windows, limits and contents of any size: from the chat to Core. *)
(*    The only condition is that clocks run ahead by no more than a gap is *)
(*    filled back (MatrixConstants).                                       *)
(***************************************************************************)
EXTENDS Outbox, MatrixSync, FiniteSetTheorems, SequenceTheorems, TLAPS

USE DEF rowVars, botVars, jobVars

(* A retry is never due before a lease that was running when the report    *)
(* read the clock has ended (retryDelay and Lease in outbox.go).           *)
LEMMA RetryDelayType ==
  ASSUME NEW n \in Nat
  PROVE  RetryDelay(n) \in Nat /\ RetryDelay(n) >= Lease
  <1>1. CASE n < Len(Backoff)
    <2>1. n + 1 \in 1 .. Len(Backoff)
      BY <1>1, TimesAssumption
    <2>2. Backoff[n + 1] \in Nat
      BY <2>1, TimesAssumption
    <2> QED
      BY <1>1, <2>1, <2>2, BackoffAssumption DEF RetryDelay
  <1>2. CASE ~ (n < Len(Backoff))
    BY <1>2, TimesAssumption, BackoffAssumption DEF RetryDelay
  <1> QED
    BY <1>1, <1>2

(* Ending rows keeps the types of all columns (the finishing updates in    *)
(* outbox.sql).                                                            *)
LEMMA FinishType ==
  ASSUME RowsTypeOK, now \in Nat, NEW S \in SUBSET Items, NEW to \in States,
         NEW why \in {"none", "cancelled", "other"}, NEW at \in Nat, Finish(S, to, why, at)
  PROVE  RowsTypeOK'
  <1>1. (state \in [Items -> States])'
    BY DEF RowsTypeOK, Finish
  <1>2. (finished \in [Items -> Nat])'
    BY DEF RowsTypeOK, Finish
  <1>3. (lease \in [Items -> Nat])'
    BY DEF RowsTypeOK, Finish
  <1>4. (reason \in [Items -> {"none", "cancelled", "other"}])'
    BY DEF RowsTypeOK, Finish
  <1> QED
    BY <1>1, <1>2, <1>3, <1>4 DEF RowsTypeOK, Finish

(* Going on with other items leaves a bot between two items (Outbox in the *)
(* bot's outbox.go).                                                       *)
LEMMA GoOnWithType ==
  ASSUME BotsTypeOK, NEW b \in Bots, NEW S \in SUBSET Items, GoOnWith(b, S)
  PROVE  BotsTypeOK'
  <1>1. (hold \in [Bots -> SUBSET Items])'
    BY DEF BotsTypeOK, GoOnWith
  <1>2. (grant \in [Bots -> Nat])'
    BY DEF BotsTypeOK, GoOnWith
  <1>3. (phase \in [Bots -> Phases])'
    BY DEF BotsTypeOK, GoOnWith, Phases
  <1>4. (cur \in [Bots -> Items \cup {NoItem}])'
    BY DEF BotsTypeOK, GoOnWith
  <1>5. (outcome \in [Bots -> Results \cup {"none"}])'
    BY DEF BotsTypeOK, GoOnWith
  <1>6. (seen \in [Bots -> Nat])'
    BY DEF BotsTypeOK, GoOnWith
  <1>7. (clock \in [Bots -> Nat])'
    BY DEF BotsTypeOK, GoOnWith
  <1>8. ASSUME NEW c \in Bots
        PROVE  /\ phase'[c] = "ready" <=> cur'[c] = NoItem
               /\ phase'[c] # "ready" => cur'[c] \in hold'[c] /\ outcome'[c] \in Results
    BY DEF BotsTypeOK, GoOnWith
  <1> QED
    BY <1>1, <1>2, <1>3, <1>4, <1>5, <1>6, <1>7, <1>8 DEF BotsTypeOK

LEMMA NextItemType ==
  ASSUME BotsTypeOK, NEW b \in Bots, NextItem(b)
  PROVE  BotsTypeOK'
  <1>1. hold[b] \ {cur[b]} \in SUBSET Items
    BY DEF BotsTypeOK
  <1> QED
    BY <1>1, GoOnWithType DEF NextItem

(* The rows do not change.                                                 *)
LEMMA RowsUnchanged == RowsTypeOK /\ UNCHANGED rowVars => RowsTypeOK' /\ UNCHANGED recorded
  BY DEF RowsTypeOK

(* The bots do not change.                                                 *)
LEMMA BotsUnchanged == BotsTypeOK /\ UNCHANGED botVars => BotsTypeOK'
  BY DEF BotsTypeOK

(* Init satisfies the type invariant.                                      *)
LEMMA InitTypeOK == Init => TypeOK
  BY TimesAssumption, OwnerAssumption DEF Init, TypeOK, RowsTypeOK, BotsTypeOK, States, Phases

(* Every step keeps the types of all variables and the bots' bookkeeping.  *)
LEMMA NextTypeOK == TypeOK /\ [Next]_vars => TypeOK'
  <1> SUFFICES ASSUME TypeOK, [Next]_vars PROVE TypeOK'
    OBVIOUS
  <1> USE TimesAssumption, OwnerAssumption
  <1>a. now \in Nat /\ RowsTypeOK /\ BotsTypeOK
    BY DEF TypeOK
  <1>1. CASE Tick
    <2>1. RowsTypeOK'
      BY <1>1, <1>a, RowsUnchanged DEF Tick
    <2>2. BotsTypeOK'
      BY <1>1, <1>a, BotsUnchanged DEF Tick
    <2> QED
      BY <1>1, <2>1, <2>2 DEF TypeOK, Tick
  <1>2. ASSUME NEW i \in Items, Enqueue(i) PROVE TypeOK'
    <2>1. RowsTypeOK'
      BY <1>2, <1>a DEF RowsTypeOK, Enqueue, States, Waiting
    <2>2. BotsTypeOK'
      BY <1>2, <1>a, BotsUnchanged DEF Enqueue
    <2> QED
      BY <1>2, <2>1, <2>2 DEF TypeOK, Enqueue
  <1>3. ASSUME NEW C \in CancelSets, Cancel(C) PROVE TypeOK'
    <2>1. RowsTypeOK'
      BY <1>3, <1>a, FinishType DEF Cancel, States, Finished
    <2>2. BotsTypeOK'
      BY <1>3, <1>a, BotsUnchanged DEF Cancel
    <2> QED
      BY <1>3, <2>1, <2>2 DEF TypeOK, Cancel
  <1>4. ASSUME NEW u \in Users, NEW s \in {"active", "disabled"}, SetStatus(u, s) PROVE TypeOK'
    <2>1. RowsTypeOK'
      BY <1>4, <1>a, RowsUnchanged DEF SetStatus
    <2>2. BotsTypeOK'
      BY <1>4, <1>a, BotsUnchanged DEF SetStatus
    <2> QED
      BY <1>4, <2>1, <2>2 DEF TypeOK, SetStatus
  <1>5. CASE Purge
    <2>1. RowsTypeOK'
      BY <1>5, <1>a DEF RowsTypeOK, Purge, States
    <2>2. BotsTypeOK'
      BY <1>5, <1>a, BotsUnchanged DEF Purge
    <2> QED
      BY <1>5, <2>1, <2>2 DEF TypeOK, Purge
  <1>6. ASSUME NEW b \in Bots, NEW S \in SUBSET Items, Claim(b, S) PROVE TypeOK'
    <2>1. RowsTypeOK'
      BY <1>6, <1>a DEF RowsTypeOK, Claim, States, Waiting
    <2>2. BotsTypeOK'
      BY <1>6, <1>a DEF BotsTypeOK, Claim
    <2> QED
      BY <1>6, <2>1, <2>2 DEF TypeOK, Claim
  <1>7. ASSUME NEW b \in Bots, NEW i \in Items, NEW o \in SendOutcomes(i), Send(b, i, o) PROVE TypeOK'
    <2>1. RowsTypeOK'
      BY <1>7, <1>a, RowsUnchanged DEF Send
    <2>2. BotsTypeOK'
      BY <1>7, <1>a DEF BotsTypeOK, Send, SendOutcomes, Results, Phases
    <2> QED
      BY <1>7, <2>1, <2>2 DEF TypeOK, Send
  <1>8. ASSUME NEW b \in Bots, ReportRead(b) PROVE TypeOK'
    <2>0. cur[b] \in Items /\ cur[b] # NoItem /\ cur[b] \in hold[b] /\ outcome[b] \in Results
      BY <1>8, <1>a DEF ReportRead, BotsTypeOK
    <2>1. RowsTypeOK'
      BY <1>8, <1>a, RowsUnchanged DEF ReportRead
    <2>2. BotsTypeOK'
      <3>1. CASE StillClaimed(cur[b])
        <4>0. /\ phase' = [phase EXCEPT ![b] = "update"]
              /\ seen' = [seen EXCEPT ![b] = attempts[cur[b]]]
              /\ clock' = [clock EXCEPT ![b] = now]
              /\ UNCHANGED <<hold, grant, cur, outcome>>
          BY <1>8, <3>1 DEF ReportRead
        <4>a. attempts[cur[b]] \in Nat
          BY <1>a, <2>0 DEF RowsTypeOK
        <4>1. (phase \in [Bots -> Phases])' /\ (seen \in [Bots -> Nat])' /\ (clock \in [Bots -> Nat])'
          BY <4>0, <4>a, <1>a DEF BotsTypeOK, Phases
        <4>2. ASSUME NEW c \in Bots
              PROVE  /\ phase'[c] = "ready" <=> cur'[c] = NoItem
                     /\ phase'[c] # "ready" => cur'[c] \in hold'[c] /\ outcome'[c] \in Results
          BY <4>0, <2>0, <1>a DEF BotsTypeOK
        <4> QED
          BY <4>0, <4>1, <4>2, <1>a DEF BotsTypeOK
      <3>2. CASE ~ StillClaimed(cur[b])
        BY <1>8, <1>a, <3>2, NextItemType DEF ReportRead
      <3> QED
        BY <3>1, <3>2
    <2> QED
      BY <1>8, <2>1, <2>2, <1>a DEF TypeOK, ReportRead
  <1>9. ASSUME NEW b \in Bots, MarkDelivered(b) PROVE TypeOK'
    <2>0. cur[b] \in Items /\ clock[b] \in Nat
      BY <1>9, <1>a DEF MarkDelivered, BotsTypeOK
    <2>1. RowsTypeOK'
      BY <1>9, <1>a, <2>0, FinishType, RowsUnchanged DEF MarkDelivered, States, Finished
    <2>2. BotsTypeOK'
      BY <1>9, <1>a, NextItemType DEF MarkDelivered
    <2> QED
      BY <1>9, <2>0, <2>1, <2>2 DEF TypeOK, MarkDelivered
  <1>10. ASSUME NEW b \in Bots, Requeue(b) PROVE TypeOK'
    <2>0. RetryDelay(seen[b]) \in Nat /\ clock[b] \in Nat /\ cur[b] \in Items
      BY <1>10, <1>a, RetryDelayType DEF BotsTypeOK, Requeue
    <2>1. RowsTypeOK'
      <3>1. CASE StillClaimed(cur[b])
        <4> DEFINE i == cur[b]
        <4>1. /\ state' = [state EXCEPT ![i] = "queued"]
              /\ attempts' = [attempts EXCEPT ![i] = @ + 1]
              /\ nextAttempt' = [nextAttempt EXCEPT ![i] = clock[b] + RetryDelay(seen[b])]
              /\ lease' = [lease EXCEPT ![i] = 0]
              /\ reason' = [reason EXCEPT ![i] = "other"]
              /\ UNCHANGED <<created, finished>>
          BY <1>10, <3>1 DEF Requeue
        <4>2. (state \in [Items -> States])' /\ (reason \in [Items -> {"none", "cancelled", "other"}])'
          BY <4>1, <1>a DEF RowsTypeOK, States, Waiting
        <4>3. /\ attempts[i] + 1 \in Nat
              /\ clock[b] + RetryDelay(seen[b]) \in Nat
          BY <1>a, <2>0 DEF RowsTypeOK
        <4>4. (attempts \in [Items -> Nat])'
          BY <4>1, <4>3, <1>a DEF RowsTypeOK
        <4>5. (nextAttempt \in [Items -> Nat])'
          BY <4>1, <4>3, <1>a DEF RowsTypeOK
        <4>6. (lease \in [Items -> Nat])'
          BY <4>1, <1>a DEF RowsTypeOK
        <4> QED
          BY <4>1, <4>2, <4>4, <4>5, <4>6, <1>a DEF RowsTypeOK
      <3>2. CASE ~ StillClaimed(cur[b])
        BY <1>10, <1>a, <3>2, RowsUnchanged DEF Requeue
      <3> QED
        BY <3>1, <3>2
    <2>2. BotsTypeOK'
      BY <1>10, <1>a, NextItemType DEF Requeue
    <2> QED
      BY <1>10, <2>1, <2>2 DEF TypeOK, Requeue
  <1>11. ASSUME NEW b \in Bots, Fail(b) PROVE TypeOK'
    <2>0. cur[b] \in Items /\ cur[b] # NoItem /\ cur[b] \in hold[b] /\ outcome[b] \in Results /\ clock[b] \in Nat
      BY <1>11, <1>a DEF Fail, BotsTypeOK
    <2>1. RowsTypeOK'
      <3>1. CASE StillClaimed(cur[b])
        <4>1. Finish({cur[b]}, "failed", "other", clock[b]) /\ now \in Nat /\ "failed" \in States /\ {cur[b]} \in SUBSET Items
          BY <1>11, <1>a, <2>0, <3>1 DEF Fail, States, Finished
        <4> QED
          BY <1>a, <2>0, <4>1, FinishType
      <3>2. CASE ~ StillClaimed(cur[b])
        BY <1>11, <1>a, <3>2, RowsUnchanged DEF Fail
      <3> QED
        BY <3>1, <3>2
    <2>2. BotsTypeOK'
      <3>1. CASE StillClaimed(cur[b])
        <4>0. phase' = [phase EXCEPT ![b] = "notify"] /\ UNCHANGED <<hold, grant, cur, outcome, seen, clock>>
          BY <1>11, <3>1 DEF Fail
        <4>1. (phase \in [Bots -> Phases])'
          BY <4>0, <1>a DEF BotsTypeOK, Phases
        <4>2. ASSUME NEW c \in Bots
              PROVE  /\ phase'[c] = "ready" <=> cur'[c] = NoItem
                     /\ phase'[c] # "ready" => cur'[c] \in hold'[c] /\ outcome'[c] \in Results
          BY <4>0, <2>0, <1>a DEF BotsTypeOK
        <4> QED
          BY <4>0, <4>1, <4>2, <1>a DEF BotsTypeOK
      <3>2. CASE ~ StillClaimed(cur[b])
        BY <1>11, <1>a, <3>2, NextItemType DEF Fail
      <3> QED
        BY <3>1, <3>2
    <2> QED
      BY <1>11, <2>1, <2>2 DEF TypeOK, Fail
  <1>12. ASSUME NEW b \in Bots, ReportNotify(b) PROVE TypeOK'
    <2>0. cur[b] \in Items
      BY <1>12, <1>a DEF ReportNotify, BotsTypeOK
    <2>1. RowsTypeOK'
      BY <1>12, <1>a, RowsUnchanged DEF ReportNotify
    <2>2. BotsTypeOK'
      BY <1>12, <1>a, NextItemType DEF ReportNotify
    <2> QED
      BY <1>12, <2>0, <2>1, <2>2, <1>a DEF TypeOK, ReportNotify, NotifyFailure
  <1>13. ASSUME NEW b \in Bots, ReportFails(b) PROVE TypeOK'
    <2>1. RowsTypeOK'
      BY <1>13, <1>a, RowsUnchanged DEF ReportFails
    <2>2. BotsTypeOK'
      BY <1>13, <1>a DEF ReportFails, BotsTypeOK, Phases
    <2> QED
      BY <1>13, <2>1, <2>2 DEF TypeOK, ReportFails, Failure
  <1>14. ASSUME NEW b \in Bots, ReportAbandoned(b) PROVE TypeOK'
    <2>1. RowsTypeOK'
      BY <1>14, <1>a, RowsUnchanged DEF ReportAbandoned
    <2>2. BotsTypeOK'
      BY <1>14, <1>a, NextItemType DEF ReportAbandoned
    <2> QED
      BY <1>14, <2>1, <2>2 DEF TypeOK, ReportAbandoned, Failure
  <1>15. ASSUME NEW b \in Bots, BotRestart(b) PROVE TypeOK'
    <2>1. RowsTypeOK'
      BY <1>15, <1>a, RowsUnchanged DEF BotRestart
    <2>2. BotsTypeOK'
      BY <1>15, <1>a, GoOnWithType DEF BotRestart
    <2> QED
      BY <1>15, <2>1, <2>2 DEF TypeOK, BotRestart, Failure
  <1>16. CASE StaleOutbox
    <2>1. RowsTypeOK'
      BY <1>16, <1>a, RowsUnchanged DEF StaleOutbox
    <2>2. BotsTypeOK'
      BY <1>16, <1>a, BotsUnchanged DEF StaleOutbox
    <2> QED
      BY <1>16, <2>1, <2>2 DEF TypeOK, StaleOutbox
  <1>17. ASSUME NEW i \in Items, ExpireItem(i) PROVE TypeOK'
    <2>1. RowsTypeOK'
      BY <1>17, <1>a, FinishType, RowsUnchanged DEF ExpireItem, States, Finished
    <2>2. BotsTypeOK'
      BY <1>17, <1>a, BotsUnchanged DEF ExpireItem
    <2> QED
      BY <1>17, <2>1, <2>2 DEF TypeOK, ExpireItem
  <1>18. CASE TellExpired
    <2>1. RowsTypeOK'
      BY <1>18, <1>a, RowsUnchanged DEF TellExpired
    <2>2. BotsTypeOK'
      BY <1>18, <1>a, BotsUnchanged DEF TellExpired
    <2> QED
      BY <1>18, <2>1, <2>2 DEF TypeOK, TellExpired, NotifyFailure
  <1>19. CASE ExpireFails
    <2>1. RowsTypeOK'
      BY <1>19, <1>a, RowsUnchanged DEF ExpireFails
    <2>2. BotsTypeOK'
      BY <1>19, <1>a, BotsUnchanged DEF ExpireFails
    <2> QED
      BY <1>19, <2>1, <2>2 DEF TypeOK, ExpireFails, Failure
  <1>20. CASE UNCHANGED vars
    <2>1. RowsTypeOK'
      BY <1>20, <1>a, RowsUnchanged DEF vars
    <2>2. BotsTypeOK'
      BY <1>20, <1>a, BotsUnchanged DEF vars
    <2> QED
      BY <1>20, <2>1, <2>2 DEF TypeOK, vars
  <1> QED
    BY <1>1, <1>2, <1>3, <1>4, <1>5, <1>6, <1>7, <1>8, <1>9, <1>10, <1>11, <1>12, <1>13, <1>14,
       <1>15, <1>16, <1>17, <1>18, <1>19, <1>20 DEF Next, Bot, Report, Expirer

(* The variables keep their types and the bots' bookkeeping stays sound in *)
(* every behaviour.                                                        *)
THEOREM TypeCorrect == Spec => []TypeOK
  BY InitTypeOK, NextTypeOK, PTL DEF Spec

-----------------------------------------------------------------------------
(* LeaseExclusive is not inductive: it needs to know that the lease of     *)
(* every holder, also of one that is late, ends before the row can be      *)
(* claimed again, be it from the state claimed or, after a report put the  *)
(* row back, from the state queued, then up to the time a report may take. *)
GrantsEnd ==
  \A b \in Bots :
    /\ grant[b] <= now + Lease
    /\ \A i \in hold[b] :
         /\ state[i] # "none"
         /\ state[i] = "claimed" => grant[b] <= lease[i]
         /\ state[i] = "queued" => grant[b] <= nextAttempt[i] + Slow

LeaseInv == GrantsEnd /\ LeaseExclusive

(* A step that gives no bot a new item keeps LeaseInv, provided that a row *)
(* becomes claimable no sooner than any running lease ends.                *)
Quiet ==
  /\ now <= now'
  /\ \A b \in Bots : hold'[b] \subseteq hold[b] /\ grant'[b] \in {grant[b], 0}
  /\ \A i \in Items :
       /\ state'[i] = "none" => state[i] = "none"
       /\ state'[i] = "claimed" => state[i] = "claimed" /\ lease'[i] = lease[i]
       /\ state'[i] = "queued" =>
            \/ state[i] = "none"
            \/ state[i] = "queued" /\ nextAttempt'[i] = nextAttempt[i]
            \/ nextAttempt'[i] + Slow >= now + Lease

LEMMA QuietKeepsLeases == TypeOK /\ TypeOK' /\ LeaseInv /\ Quiet => LeaseInv'
  <1> SUFFICES ASSUME TypeOK, TypeOK', LeaseInv, Quiet PROVE LeaseInv'
    OBVIOUS
  <1>1. now \in Nat /\ now' \in Nat /\ Lease \in Nat /\ Slow \in Nat /\ now <= now'
    BY TimesAssumption DEF TypeOK, Quiet
  <1>2. ASSUME NEW b \in Bots
        PROVE  grant[b] \in Nat /\ grant'[b] \in Nat /\ grant'[b] <= grant[b] /\ grant[b] <= now + Lease
    <2>1. grant[b] \in Nat
      BY DEF TypeOK, BotsTypeOK
    <2>2. grant'[b] \in {grant[b], 0}
      BY DEF Quiet
    <2>3. grant[b] <= now + Lease
      BY DEF LeaseInv, GrantsEnd
    <2> QED
      BY <2>1, <2>2, <2>3
  <1>3. ASSUME NEW b \in Bots, NEW i \in hold'[b]
        PROVE  /\ i \in Items /\ i \in hold[b]
               /\ state'[i] # "none"
               /\ state'[i] = "claimed" => grant'[b] <= lease'[i]
               /\ state'[i] = "queued" => grant'[b] <= nextAttempt'[i] + Slow
    <2>1. i \in hold[b] /\ i \in Items
      BY <1>3 DEF TypeOK, BotsTypeOK, Quiet
    <2>2. /\ state[i] # "none"
          /\ state[i] = "claimed" => grant[b] <= lease[i]
          /\ state[i] = "queued" => grant[b] <= nextAttempt[i] + Slow
      BY <2>1 DEF LeaseInv, GrantsEnd
    <2>3. lease'[i] \in Nat /\ nextAttempt'[i] \in Nat
      BY <2>1 DEF TypeOK, RowsTypeOK
    <2> QED
      BY <2>1, <2>2, <2>3, <1>1, <1>2 DEF Quiet
  <1>4. GrantsEnd'
    <2>1. ASSUME NEW b \in Bots PROVE grant'[b] <= now' + Lease
      BY <1>1, <1>2
    <2> QED
      BY <1>3, <2>1 DEF GrantsEnd
  <1>5. LeaseExclusive'
    <2> SUFFICES ASSUME NEW b \in Bots, NEW c \in Bots, NEW i \in hold'[b] \cap hold'[c], b # c
                 PROVE  grant'[b] <= now' + Slow \/ grant'[c] <= now' + Slow
      BY DEF LeaseExclusive
    <2>1. grant[b] <= now + Slow \/ grant[c] <= now + Slow
      BY <1>3 DEF LeaseInv, LeaseExclusive
    <2> QED
      BY <1>1, <1>2, <2>1
  <1> QED
    BY <1>4, <1>5 DEF LeaseInv

(* A claim takes only rows whose earlier holders' leases have ended.       *)
LEMMA ClaimKeepsLeases ==
  ASSUME TypeOK, LeaseInv, NEW b \in Bots, NEW S \in SUBSET Items, Claim(b, S)
  PROVE  LeaseInv'
  <1>1. now \in Nat /\ Lease \in Nat /\ Slow \in Nat /\ now' = now
    BY TimesAssumption DEF TypeOK, Claim
  <1>2. /\ \A c \in Bots : hold'[c] = IF c = b THEN S ELSE hold[c]
        /\ \A c \in Bots : grant'[c] = IF c = b THEN now + Lease ELSE grant[c]
        /\ \A i \in Items : state'[i] = IF i \in S THEN "claimed" ELSE state[i]
        /\ \A i \in Items : lease'[i] = IF i \in S THEN now + Lease ELSE lease[i]
        /\ nextAttempt' = nextAttempt
    <2>1. /\ hold' = [hold EXCEPT ![b] = S]
          /\ grant' = [grant EXCEPT ![b] = now + Lease]
          /\ state' = [i \in Items |-> IF i \in S THEN "claimed" ELSE state[i]]
          /\ lease' = [i \in Items |-> IF i \in S THEN now + Lease ELSE lease[i]]
          /\ nextAttempt' = nextAttempt
      BY DEF Claim
    <2>2. DOMAIN hold = Bots /\ DOMAIN grant = Bots
      BY DEF TypeOK, BotsTypeOK
    <2> QED
      BY <2>1, <2>2
  <1>3. ASSUME NEW c \in Bots
        PROVE  grant[c] \in Nat /\ grant[c] <= now + Lease /\ hold[c] \subseteq Items
    BY DEF TypeOK, BotsTypeOK, LeaseInv, GrantsEnd
  <1>4. ASSUME NEW c \in Bots, NEW i \in hold[c], i \in S PROVE grant[c] <= now + Slow
    <2>1. /\ i \in Items
          /\ lease[i] \in Nat /\ nextAttempt[i] \in Nat
      BY <1>4 DEF TypeOK, RowsTypeOK
    <2>2. \/ state[i] = "queued" /\ nextAttempt[i] <= now
          \/ state[i] = "claimed" /\ lease[i] < now
      BY <1>4 DEF Claim, Claimable
    <2>3. /\ state[i] = "claimed" => grant[c] <= lease[i]
          /\ state[i] = "queued" => grant[c] <= nextAttempt[i] + Slow
      BY DEF LeaseInv, GrantsEnd
    <2> QED
      BY <2>1, <2>2, <2>3, <1>1, <1>3
  <1>5. GrantsEnd'
    <2> SUFFICES ASSUME NEW c \in Bots
                 PROVE  /\ grant'[c] <= now' + Lease
                        /\ \A i \in hold'[c] :
                             /\ state'[i] # "none"
                             /\ state'[i] = "claimed" => grant'[c] <= lease'[i]
                             /\ state'[i] = "queued" => grant'[c] <= nextAttempt'[i] + Slow
      BY DEF GrantsEnd
    <2>1. grant'[c] <= now' + Lease
      BY <1>1, <1>2, <1>3
    <2>2. ASSUME NEW i \in hold'[c], i \in S
          PROVE  state'[i] = "claimed" /\ grant'[c] <= lease'[i]
      BY <1>1, <1>2, <1>3, <2>2
    <2>3. ASSUME NEW i \in hold'[c], i \notin S
          PROVE  /\ c # b /\ i \in hold[c] /\ i \in Items
                 /\ state'[i] = state[i] /\ lease'[i] = lease[i] /\ nextAttempt'[i] = nextAttempt[i]
                 /\ grant'[c] = grant[c]
      BY <1>2, <1>3, <2>3
    <2> QED
      BY <2>1, <2>2, <2>3 DEF LeaseInv, GrantsEnd
  <1>6. LeaseExclusive'
    <2> SUFFICES ASSUME NEW c \in Bots, NEW d \in Bots, NEW i \in hold'[c] \cap hold'[d], c # d
                 PROVE  grant'[c] <= now' + Slow \/ grant'[d] <= now' + Slow
      BY DEF LeaseExclusive
    <2>1. CASE c = b
      BY <1>1, <1>2, <1>4, <2>1
    <2>2. CASE d = b
      BY <1>1, <1>2, <1>4, <2>2
    <2>3. CASE c # b /\ d # b
      BY <1>1, <1>2, <2>3 DEF LeaseInv, LeaseExclusive
    <2> QED
      BY <2>1, <2>2, <2>3
  <1> QED
    BY <1>5, <1>6 DEF LeaseInv

(* Going on with fewer items.                                              *)
LEMMA GoOnWithShrinks ==
  ASSUME BotsTypeOK, NEW b \in Bots, NEW S \in SUBSET hold[b], GoOnWith(b, S)
  PROVE  \A c \in Bots : hold'[c] \subseteq hold[c] /\ grant'[c] \in {grant[c], 0}
  BY DEF GoOnWith, BotsTypeOK

(* A report that is going on has read the clock not long ago (Tick).       *)
ReportsAreRecent ==
  \A b \in Bots : phase[b] = "update" => clock[b] <= now /\ now <= clock[b] + Slow

LEMMA NextKeepsReportsRecent ==
  ASSUME TypeOK, ReportsAreRecent, [Next]_vars
  PROVE  ReportsAreRecent'
  <1> SUFFICES ASSUME NEW c \in Bots, phase'[c] = "update" PROVE clock'[c] <= now' /\ now' <= clock'[c] + Slow
    BY DEF ReportsAreRecent
  <1>a. now \in Nat /\ Slow \in Nat /\ clock \in [Bots -> Nat] /\ phase \in [Bots -> Phases]
    BY TimesAssumption DEF TypeOK, BotsTypeOK
  <1>b. phase[c] = "update" => clock[c] <= now /\ now <= clock[c] + Slow
    BY DEF ReportsAreRecent
  <1>1. CASE UNCHANGED <<now, phase, clock>>
    BY <1>1, <1>b
  <1>2. CASE Tick
    <2>1. phase[c] = "update" /\ now < clock[c] + Slow /\ now' = now + 1 /\ clock' = clock
      BY <1>2 DEF Tick
    <2>2. clock[c] \in Nat
      BY <1>a
    <2> QED
      BY <1>a, <1>b, <2>1, <2>2
  <1>3. ASSUME NEW b \in Bots, NEW S, GoOnWith(b, S), now' = now PROVE clock'[c] <= now' /\ now' <= clock'[c] + Slow
    BY <1>3, <1>a, <1>b DEF GoOnWith
  <1>4. ASSUME NEW b \in Bots, Report(b) PROVE clock'[c] <= now' /\ now' <= clock'[c] + Slow
    <2>1. now' = now
      BY <1>4 DEF Report, ReportRead, MarkDelivered, Requeue, Fail, ReportNotify
    <2>2. CASE NextItem(b)
      BY <1>3, <2>1, <2>2 DEF NextItem
    <2>3. CASE ReportRead(b) /\ StillClaimed(cur[b])
      <3>1. phase' = [phase EXCEPT ![b] = "update"] /\ clock' = [clock EXCEPT ![b] = now]
        BY <2>3 DEF ReportRead
      <3>2. CASE c = b
        BY <1>a, <2>1, <3>1, <3>2
      <3>3. CASE c # b
        BY <1>a, <1>b, <2>1, <3>1, <3>3
      <3> QED
        BY <3>2, <3>3
    <2>4. CASE Fail(b) /\ StillClaimed(cur[b])
      <3>1. phase' = [phase EXCEPT ![b] = "notify"] /\ clock' = clock
        BY <2>4 DEF Fail
      <3> QED
        BY <1>a, <1>b, <2>1, <3>1
    <2> QED
      BY <1>4, <2>2, <2>3, <2>4 DEF Report, ReportRead, MarkDelivered, Requeue, Fail, ReportNotify
  <1>5. ASSUME NEW b \in Bots, NEW i \in Items, NEW o \in SendOutcomes(i), Send(b, i, o)
        PROVE  clock'[c] <= now' /\ now' <= clock'[c] + Slow
    BY <1>5, <1>a, <1>b DEF Send
  <1>6. ASSUME NEW b \in Bots, ReportFails(b) PROVE clock'[c] <= now' /\ now' <= clock'[c] + Slow
    BY <1>6, <1>a, <1>b DEF ReportFails
  <1>7. ASSUME NEW b \in Bots, ReportAbandoned(b) \/ BotRestart(b)
        PROVE  clock'[c] <= now' /\ now' <= clock'[c] + Slow
    BY <1>3, <1>7 DEF ReportAbandoned, BotRestart, NextItem
  <1>8. ASSUME \/ \E i \in Items : Enqueue(i) \/ ExpireItem(i)
               \/ \E C \in CancelSets : Cancel(C)
               \/ \E u \in Users, s \in {"active", "disabled"} : SetStatus(u, s)
               \/ Purge \/ StaleOutbox \/ TellExpired \/ ExpireFails
               \/ \E b \in Bots, S \in SUBSET Items : Claim(b, S)
        PROVE  UNCHANGED <<now, phase, clock>>
    BY <1>8 DEF Enqueue, ExpireItem, Cancel, SetStatus, Purge, StaleOutbox, TellExpired, ExpireFails, Claim
  <1>9. CASE UNCHANGED vars
    BY <1>1, <1>9 DEF vars
  <1> QED
    BY <1>1, <1>2, <1>4, <1>5, <1>6, <1>7, <1>8, <1>9 DEF Next, Bot, Expirer

(* Every step but a claim is quiet.                                        *)
LEMMA OthersAreQuiet ==
  ASSUME TypeOK, ReportsAreRecent, [Next]_vars, \A b \in Bots, S \in SUBSET Items : ~ Claim(b, S)
  PROVE  Quiet
  <1> USE DEF Quiet
  <1>a. now \in Nat /\ Lease \in Nat /\ Slow \in Nat /\ RowsTypeOK /\ BotsTypeOK
    BY TimesAssumption DEF TypeOK
  <1>1. CASE Tick
    BY <1>1, <1>a DEF Tick
  <1>2. ASSUME NEW i \in Items, Enqueue(i) PROVE Quiet
    BY <1>2, <1>a DEF Enqueue, RowsTypeOK
  <1>3. ASSUME NEW C \in CancelSets, Cancel(C) PROVE Quiet
    BY <1>3, <1>a DEF Cancel, Finish, RowsTypeOK
  <1>4. ASSUME NEW u \in Users, NEW s \in {"active", "disabled"}, SetStatus(u, s) PROVE Quiet
    BY <1>4, <1>a DEF SetStatus
  <1>5. CASE Purge
    BY <1>5, <1>a DEF Purge, RowsTypeOK
  <1>6. ASSUME NEW b \in Bots, NEW i \in Items, NEW o \in SendOutcomes(i), Send(b, i, o) PROVE Quiet
    BY <1>6, <1>a DEF Send
  <1>7. ASSUME NEW b \in Bots, NextItem(b)
        PROVE  \A c \in Bots : hold'[c] \subseteq hold[c] /\ grant'[c] \in {grant[c], 0}
    BY <1>7, <1>a, GoOnWithShrinks DEF NextItem
  <1>8. ASSUME NEW b \in Bots, ReportRead(b) PROVE Quiet
    <2>1. now' = now /\ UNCHANGED rowVars
      BY <1>8 DEF ReportRead
    <2>2. CASE StillClaimed(cur[b])
      BY <1>8, <1>a, <2>1, <2>2 DEF ReportRead
    <2>3. CASE ~ StillClaimed(cur[b])
      BY <1>8, <1>a, <1>7, <2>1, <2>3 DEF ReportRead
    <2> QED
      BY <2>2, <2>3
  <1>9. ASSUME NEW b \in Bots, MarkDelivered(b) PROVE Quiet
    <2>1. now' = now /\ NextItem(b)
      BY <1>9 DEF MarkDelivered
    <2>2. CASE StillClaimed(cur[b])
      BY <1>9, <1>a, <1>7, <2>1, <2>2 DEF MarkDelivered, Finish, RowsTypeOK
    <2>3. CASE ~ StillClaimed(cur[b])
      BY <1>9, <1>a, <1>7, <2>1, <2>3 DEF MarkDelivered
    <2> QED
      BY <2>2, <2>3
  <1>10. ASSUME NEW b \in Bots, Requeue(b) PROVE Quiet
    <2>1. now' = now /\ NextItem(b)
      BY <1>10 DEF Requeue
    <2>2. CASE StillClaimed(cur[b])
      <3>1. /\ state' = [state EXCEPT ![cur[b]] = "queued"]
            /\ nextAttempt' = [nextAttempt EXCEPT ![cur[b]] = clock[b] + RetryDelay(seen[b])]
            /\ lease' = [lease EXCEPT ![cur[b]] = 0]
        BY <1>10, <2>2 DEF Requeue
      <3>2. RetryDelay(seen[b]) \in Nat /\ RetryDelay(seen[b]) >= Lease
        BY <1>a, RetryDelayType DEF BotsTypeOK
      <3>3. ASSUME NEW i \in Items
            PROVE  /\ state'[i] = "none" => state[i] = "none"
                   /\ state'[i] = "claimed" => state[i] = "claimed" /\ lease'[i] = lease[i]
                   /\ state'[i] = "queued" =>
                        \/ state[i] = "queued" /\ nextAttempt'[i] = nextAttempt[i]
                        \/ nextAttempt'[i] + Slow >= now + Lease
        <4>1. CASE i = cur[b]
          <5>1. clock[b] \in Nat /\ now <= clock[b] + Slow
            BY <1>10, <1>a DEF ReportsAreRecent, BotsTypeOK, Requeue
          <5>2. state'[i] = "queued" /\ nextAttempt'[i] = clock[b] + RetryDelay(seen[b])
            BY <3>1, <1>a, <4>1 DEF RowsTypeOK
          <5> QED
            BY <3>2, <1>a, <5>1, <5>2
        <4>2. CASE i # cur[b]
          BY <3>1, <1>a, <4>2 DEF RowsTypeOK
        <4> QED
          BY <4>1, <4>2
      <3> QED
        BY <1>a, <1>7, <2>1, <3>3
    <2>3. CASE ~ StillClaimed(cur[b])
      BY <1>10, <1>a, <1>7, <2>1, <2>3 DEF Requeue
    <2> QED
      BY <2>2, <2>3
  <1>11. ASSUME NEW b \in Bots, Fail(b) PROVE Quiet
    <2>1. now' = now
      BY <1>11 DEF Fail
    <2>2. CASE StillClaimed(cur[b])
      BY <1>11, <1>a, <2>1, <2>2 DEF Fail, Finish, RowsTypeOK
    <2>3. CASE ~ StillClaimed(cur[b])
      BY <1>11, <1>a, <1>7, <2>1, <2>3 DEF Fail
    <2> QED
      BY <2>2, <2>3
  <1>12. ASSUME NEW b \in Bots, ReportNotify(b) \/ ReportAbandoned(b) PROVE Quiet
    <2>1. now' = now /\ NextItem(b) /\ UNCHANGED rowVars
      BY <1>12 DEF ReportNotify, ReportAbandoned
    <2> QED
      BY <1>a, <1>7, <2>1
  <1>13. ASSUME NEW b \in Bots, BotRestart(b) PROVE Quiet
    <2>1. now' = now /\ GoOnWith(b, {}) /\ UNCHANGED rowVars
      BY <1>13 DEF BotRestart
    <2>2. \A c \in Bots : hold'[c] \subseteq hold[c] /\ grant'[c] \in {grant[c], 0}
      BY <1>a, <2>1, GoOnWithShrinks
    <2> QED
      BY <1>a, <2>1, <2>2
  <1>14. ASSUME NEW b \in Bots, ReportFails(b) PROVE Quiet
    BY <1>14, <1>a DEF ReportFails
  <1>15. CASE StaleOutbox \/ TellExpired \/ ExpireFails
    BY <1>15, <1>a DEF StaleOutbox, TellExpired, ExpireFails
  <1>16. ASSUME NEW i \in Items, ExpireItem(i) PROVE Quiet
    <2>1. now' = now /\ UNCHANGED botVars
      BY <1>16 DEF ExpireItem
    <2>2. CASE StillWaiting(i)
      BY <1>16, <1>a, <2>1, <2>2 DEF ExpireItem, Finish, RowsTypeOK
    <2>3. CASE ~ StillWaiting(i)
      BY <1>16, <1>a, <2>1, <2>3 DEF ExpireItem
    <2> QED
      BY <2>2, <2>3
  <1>17. CASE UNCHANGED vars
    BY <1>17, <1>a DEF vars
  <1> QED
    BY <1>1, <1>2, <1>3, <1>4, <1>5, <1>6, <1>8, <1>9, <1>10, <1>11, <1>12, <1>13, <1>14, <1>15,
       <1>16, <1>17 DEF Next, Bot, Report, Expirer

(* Every step keeps what there is to know of leases and reports.           *)
LEMMA NextKeepsLeases ==
  TypeOK /\ TypeOK' /\ LeaseInv /\ ReportsAreRecent /\ [Next]_vars => LeaseInv' /\ ReportsAreRecent'
  <1>1. CASE \E b \in Bots, S \in SUBSET Items : Claim(b, S)
    BY <1>1, ClaimKeepsLeases, NextKeepsReportsRecent
  <1>2. CASE \A b \in Bots, S \in SUBSET Items : ~ Claim(b, S)
    BY <1>2, OthersAreQuiet, QuietKeepsLeases, NextKeepsReportsRecent
  <1> QED
    BY <1>1, <1>2

(* No two bot processes ever hold a lease on the same item that has longer *)
(* to run than a report may take.                                          *)
THEOREM LeasesAreExclusive == Spec => []LeaseExclusive
  <1>1. Init => LeaseInv /\ ReportsAreRecent
    BY TimesAssumption DEF Init, LeaseInv, GrantsEnd, LeaseExclusive, ReportsAreRecent
  <1>2. TypeOK /\ TypeOK' /\ LeaseInv /\ ReportsAreRecent /\ [Next]_vars => LeaseInv' /\ ReportsAreRecent'
    BY NextKeepsLeases
  <1>3. LeaseInv => LeaseExclusive
    BY DEF LeaseInv
  <1> QED
    BY <1>1, <1>2, <1>3, TypeCorrect, PTL DEF Spec

-----------------------------------------------------------------------------
(* What is called delivered is in the chat: a bot that is about to report  *)
(* success has carried out the send, and nothing leaves the chat again.    *)
SuccessWasSent == \A b \in Bots : outcome[b] = "delivered" => cur[b] \in shown

ChatInv == SuccessWasSent /\ DeliveredIsInTheChat

(* How a step may change the rows, the chat and what the bots report       *)
(* without touching ChatInv.                                               *)
Harmless ==
  /\ shown \subseteq shown'
  /\ \A i \in Items : state'[i] = "delivered" <=> state[i] = "delivered"
  /\ recorded' = recorded
  /\ \A b \in Bots :
       outcome'[b] = "delivered" => outcome[b] = "delivered" /\ cur'[b] = cur[b]

LEMMA HarmlessKeepsChat == TypeOK /\ ChatInv /\ Harmless => ChatInv'
  BY DEF ChatInv, SuccessWasSent, DeliveredIsInTheChat, Harmless, TypeOK

LEMMA GoOnWithReports ==
  ASSUME BotsTypeOK, NEW b \in Bots, NEW S, GoOnWith(b, S)
  PROVE  \A c \in Bots : outcome'[c] = "delivered" => outcome[c] = "delivered" /\ cur'[c] = cur[c]
  BY DEF GoOnWith, BotsTypeOK

LEMMA NextKeepsChat == TypeOK /\ ChatInv /\ [Next]_vars => ChatInv'
  <1> SUFFICES ASSUME TypeOK, ChatInv, [Next]_vars PROVE ChatInv'
    OBVIOUS
  <1>a. RowsTypeOK /\ BotsTypeOK
    BY DEF TypeOK
  <1>h. Harmless => ChatInv'
    BY HarmlessKeepsChat
  <1>n. ASSUME NEW b \in Bots, NextItem(b)
        PROVE  \A c \in Bots : outcome'[c] = "delivered" => outcome[c] = "delivered" /\ cur'[c] = cur[c]
    BY <1>n, <1>a, GoOnWithReports DEF NextItem
  <1>1. CASE Tick
    BY <1>1, <1>h DEF Tick, Harmless
  <1>2. ASSUME NEW i \in Items, Enqueue(i) PROVE ChatInv'
    BY <1>2, <1>a, <1>h DEF Enqueue, Harmless, RowsTypeOK
  <1>3. ASSUME NEW C \in CancelSets, Cancel(C) PROVE ChatInv'
    BY <1>3, <1>h DEF Cancel, Finish, Harmless, Waiting
  <1>4. ASSUME NEW u \in Users, NEW s \in {"active", "disabled"}, SetStatus(u, s) PROVE ChatInv'
    BY <1>4, <1>h DEF SetStatus, Harmless
  <1>5. CASE Purge
    <2>1. \A i \in Items : i \in recorded' => i \in recorded /\ state'[i] = state[i]
      BY <1>5, <1>a DEF Purge, ChatInv, DeliveredIsInTheChat
    <2>2. \A i \in Items : state'[i] = "delivered" => state[i] = "delivered" /\ (i \in recorded => i \in recorded')
      BY <1>5, <1>a DEF Purge
    <2>3. shown' = shown /\ UNCHANGED <<outcome, cur>> /\ recorded' \subseteq Items
      BY <1>5 DEF Purge, TypeOK
    <2> QED
      BY <2>1, <2>2, <2>3 DEF ChatInv, SuccessWasSent, DeliveredIsInTheChat
  <1>6. ASSUME NEW b \in Bots, NEW S \in SUBSET Items, Claim(b, S) PROVE ChatInv'
    BY <1>6, <1>h DEF Claim, Claimable, Harmless
  <1>7. ASSUME NEW b \in Bots, NEW i \in Items, NEW o \in SendOutcomes(i), Send(b, i, o) PROVE ChatInv'
    <2>1. /\ outcome' = [outcome EXCEPT ![b] = o.result]
          /\ cur' = [cur EXCEPT ![b] = i]
          /\ UNCHANGED <<state, recorded>>
      BY <1>7 DEF Send
    <2>2. shown \subseteq shown'
      BY <1>7 DEF Send
    <2>3. o.result = "delivered" => i \in shown'
      BY <1>7 DEF Send, SendOutcomes
    <2>4. SuccessWasSent'
      BY <1>a, <2>1, <2>2, <2>3 DEF SuccessWasSent, ChatInv, BotsTypeOK
    <2>5. DeliveredIsInTheChat'
      BY <2>1, <2>2 DEF ChatInv, DeliveredIsInTheChat
    <2> QED
      BY <2>4, <2>5 DEF ChatInv
  <1>8. ASSUME NEW b \in Bots, ReportRead(b) PROVE ChatInv'
    <2>1. UNCHANGED <<rowVars, shown>>
      BY <1>8 DEF ReportRead
    <2>2. CASE StillClaimed(cur[b])
      BY <1>8, <1>h, <2>1, <2>2 DEF ReportRead, Harmless
    <2>3. CASE ~ StillClaimed(cur[b])
      BY <1>8, <1>h, <1>n, <2>1, <2>3 DEF ReportRead, Harmless
    <2> QED
      BY <2>2, <2>3
  <1>9. ASSUME NEW b \in Bots, MarkDelivered(b) PROVE ChatInv'
    <2>1. NextItem(b) /\ shown' = shown
      BY <1>9 DEF MarkDelivered
    <2>2. CASE StillClaimed(cur[b])
      <3>1. /\ cur[b] \in Items /\ cur[b] \in shown
            /\ state' = [i \in Items |-> IF i \in {cur[b]} THEN "delivered" ELSE state[i]]
            /\ recorded' = IF cur[b] \in Lifecycle THEN recorded ELSE recorded \cup {cur[b]}
        BY <1>9, <1>a, <2>2 DEF MarkDelivered, Finish, BotsTypeOK, ChatInv, SuccessWasSent
      <3>2. SuccessWasSent'
        BY <1>n, <2>1 DEF ChatInv, SuccessWasSent
      <3>3. DeliveredIsInTheChat'
        BY <3>1, <2>1 DEF ChatInv, DeliveredIsInTheChat, TypeOK
      <3> QED
        BY <3>2, <3>3 DEF ChatInv
    <2>3. CASE ~ StillClaimed(cur[b])
      BY <1>9, <1>h, <1>n, <2>1, <2>3 DEF MarkDelivered, Harmless
    <2> QED
      BY <2>2, <2>3
  <1>10. ASSUME NEW b \in Bots, Requeue(b) PROVE ChatInv'
    <2>1. NextItem(b) /\ shown' = shown
      BY <1>10 DEF Requeue
    <2>2. CASE StillClaimed(cur[b])
      BY <1>10, <1>a, <1>h, <1>n, <2>1, <2>2 DEF Requeue, StillClaimed, Harmless, RowsTypeOK
    <2>3. CASE ~ StillClaimed(cur[b])
      BY <1>10, <1>h, <1>n, <2>1, <2>3 DEF Requeue, Harmless
    <2> QED
      BY <2>2, <2>3
  <1>11. ASSUME NEW b \in Bots, Fail(b) PROVE ChatInv'
    <2>1. CASE StillClaimed(cur[b])
      BY <1>11, <1>h, <2>1 DEF Fail, Finish, StillClaimed, Harmless
    <2>2. CASE ~ StillClaimed(cur[b])
      BY <1>11, <1>h, <1>n, <2>2 DEF Fail, Harmless
    <2> QED
      BY <2>1, <2>2
  <1>12. ASSUME NEW b \in Bots, ReportNotify(b) \/ ReportAbandoned(b) PROVE ChatInv'
    BY <1>12, <1>h, <1>n DEF ReportNotify, ReportAbandoned, Harmless
  <1>13. ASSUME NEW b \in Bots, BotRestart(b) PROVE ChatInv'
    BY <1>13, <1>a, <1>h, GoOnWithReports DEF BotRestart, Harmless
  <1>14. ASSUME NEW b \in Bots, ReportFails(b) PROVE ChatInv'
    BY <1>14, <1>h DEF ReportFails, Harmless
  <1>15. CASE StaleOutbox \/ TellExpired \/ ExpireFails
    BY <1>15, <1>h DEF StaleOutbox, TellExpired, ExpireFails, Harmless
  <1>16. ASSUME NEW i \in Items, ExpireItem(i) PROVE ChatInv'
    <2>1. CASE StillWaiting(i)
      BY <1>16, <1>h, <2>1 DEF ExpireItem, Finish, StillWaiting, Waiting, Harmless
    <2>2. CASE ~ StillWaiting(i)
      BY <1>16, <1>h, <2>2 DEF ExpireItem, Harmless
    <2> QED
      BY <2>1, <2>2
  <1>17. CASE UNCHANGED vars
    BY <1>17, <1>h DEF vars, Harmless
  <1> QED
    BY <1>1, <1>2, <1>3, <1>4, <1>5, <1>6, <1>7, <1>8, <1>9, <1>10, <1>11, <1>12, <1>13, <1>14,
       <1>15, <1>16, <1>17 DEF Next, Bot, Report, Expirer

(* A delivered row's message is in the chat and can be found by a reply.   *)
THEOREM DeliveredIsReal == Spec => []DeliveredIsInTheChat
  <1>1. Init => ChatInv
    BY DEF Init, ChatInv, SuccessWasSent, DeliveredIsInTheChat
  <1>2. ChatInv => DeliveredIsInTheChat
    BY DEF ChatInv
  <1> QED
    BY <1>1, <1>2, NextKeepsChat, TypeCorrect, PTL DEF Spec

-----------------------------------------------------------------------------
(* The refinement of DeliveryPromise.                                      *)

(* What has to be known of a state for the next step to map to a step of   *)
(* the promise: types, who holds what, and that success was sent.          *)
PromiseInv == TypeOK /\ LeaseInv /\ ReportsAreRecent /\ ChatInv

THEOREM PromiseInvHolds == Spec => []PromiseInv
  <1>1. Init => LeaseInv /\ ReportsAreRecent /\ ChatInv
    BY TimesAssumption DEF Init, LeaseInv, GrantsEnd, LeaseExclusive, ReportsAreRecent, ChatInv, SuccessWasSent, DeliveredIsInTheChat
  <1>2. TypeOK /\ TypeOK' /\ LeaseInv /\ ReportsAreRecent /\ [Next]_vars => LeaseInv' /\ ReportsAreRecent'
    BY NextKeepsLeases
  <1>3. PromiseInv /\ [Next]_vars => PromiseInv'
    BY <1>2, NextTypeOK, NextKeepsChat DEF PromiseInv
  <1>4. Init => PromiseInv
    BY <1>1, InitTypeOK DEF PromiseInv
  <1> QED
    BY <1>3, <1>4, PTL DEF Spec

Shadow == [i \in Items |-> Outcome(i)]

(* Ending waiting rows is the promise's Become.                            *)
LEMMA FinishIsBecome ==
  ASSUME TypeOK, NEW S \in SUBSET Items, NEW to \in Finished, NEW why,
         \A i \in S : state[i] \in Waiting, NEW at, Finish(S, to, why, at)
  PROVE  Promise!In(S, {"waiting"}) /\ Promise!Become(S, to)
  <1>1. \A i \in Items : state'[i] = IF i \in S THEN to ELSE state[i]
    BY DEF Finish
  <1>2. \A i \in Items : Outcome(i)' = IF i \in S THEN to ELSE Outcome(i)
    BY <1>1 DEF Outcome, Finished, Waiting
  <1>3. \A i \in S : Outcome(i) = "waiting"
    BY DEF Outcome, Waiting
  <1>4. Shadow' = [i \in Items |-> IF i \in S THEN to ELSE Shadow[i]]
    BY <1>2 DEF Shadow
  <1> QED
    BY <1>3, <1>4 DEF Promise!In, Promise!Become, Shadow

(* Steps that move rows only between queued and claimed show nothing.      *)
LEMMA SameShadow ==
  ASSUME \A i \in Items : state'[i] = state[i] \/ {state[i], state'[i]} \subseteq Waiting
  PROVE  Shadow' = Shadow
  <1>1. \A i \in Items : Outcome(i)' = Outcome(i)
    BY DEF Outcome, Waiting
  <1> QED
    BY <1>1 DEF Shadow

LEMMA NextRefines == PromiseInv /\ [Next]_vars => [Promise!Next]_(Promise!vars)
  <1> SUFFICES ASSUME PromiseInv, [Next]_vars PROVE [Promise!Next]_(Promise!vars)
    OBVIOUS
  <1>a. TypeOK /\ RowsTypeOK /\ BotsTypeOK
    BY DEF PromiseInv, TypeOK
  <1>s. Shadow' = Shadow /\ shown' = shown => [Promise!Next]_(Promise!vars)
    BY DEF Shadow, Promise!vars
  <1>u. UNCHANGED <<rowVars, shown>> => [Promise!Next]_(Promise!vars)
    BY <1>s, SameShadow DEF rowVars
  <1>b. ASSUME NEW S \in SUBSET Items, NEW to \in {"failed", "expired"}, NEW why, NEW at,
               \A i \in S : state[i] \in Waiting, Finish(S, to, why, at), shown' = shown
        PROVE  [Promise!Next]_(Promise!vars)
    <2>1. Promise!Abandon(S, to)
      BY <1>a, <1>b, FinishIsBecome DEF Promise!Abandon, Finished
    <2> QED
      BY <2>1 DEF Promise!Next
  <1>1. CASE Tick
    BY <1>1, <1>u DEF Tick
  <1>2. ASSUME NEW i \in Items, Enqueue(i) PROVE [Promise!Next]_(Promise!vars)
    <2>1. \A j \in Items : Outcome(j)' = IF j \in {i} THEN "waiting" ELSE Outcome(j)
      BY <1>2, <1>a DEF Enqueue, Outcome, Waiting, RowsTypeOK
    <2>2. Outcome(i) = "absent" /\ shown' = shown
      BY <1>2 DEF Enqueue, Outcome
    <2>3. Promise!Ask(i)
      BY <2>1, <2>2 DEF Promise!Ask, Promise!In, Promise!Become
    <2> QED
      BY <2>3 DEF Promise!Next
  <1>3. ASSUME NEW C \in CancelSets, Cancel(C) PROVE [Promise!Next]_(Promise!vars)
    <2> DEFINE S == {i \in C : state[i] \in Waiting}
    <2>1. S \in SUBSET Items
      BY OwnerAssumption
    <2>2. Finish(S, "expired", "cancelled", now) /\ shown' = shown
      BY <1>3 DEF Cancel
    <2> QED
      BY <1>b, <2>1, <2>2
  <1>4. ASSUME NEW u \in Users, NEW s \in {"active", "disabled"}, SetStatus(u, s)
        PROVE  [Promise!Next]_(Promise!vars)
    BY <1>4, <1>u DEF SetStatus
  <1>5. CASE Purge
    <2> DEFINE S == {i \in Items : state[i] \in Finished /\ finished[i] + KeepFor < now}
    <2>1. \A i \in Items : Outcome(i)' = IF i \in S THEN "purged" ELSE Outcome(i)
      BY <1>5 DEF Purge, Outcome, Waiting
    <2>2. (\A i \in S : Outcome(i) \in Promise!Settled) /\ shown' = shown /\ S \in SUBSET Items
      BY <1>5 DEF Purge, Outcome, Finished, Waiting, Promise!Settled
    <2>3. Promise!Forget(S)
      BY <2>1, <2>2 DEF Promise!Forget, Promise!In, Promise!Become
    <2> QED
      BY <2>2, <2>3 DEF Promise!Next
  <1>6. ASSUME NEW b \in Bots, NEW S \in SUBSET Items, Claim(b, S) PROVE [Promise!Next]_(Promise!vars)
    <2>1. \A i \in Items : state'[i] = state[i] \/ {state[i], state'[i]} \subseteq Waiting
      BY <1>6 DEF Claim, Claimable, Waiting
    <2> QED
      BY <1>6, <1>s, <2>1, SameShadow DEF Claim
  <1>7. ASSUME NEW b \in Bots, NEW i \in Items, NEW o \in SendOutcomes(i), Send(b, i, o)
        PROVE  [Promise!Next]_(Promise!vars)
    <2>1. state' = state /\ (shown' = shown \/ shown' = shown \cup {i})
      BY <1>7 DEF Send
    <2>2. Shadow' = Shadow
      BY <2>1, SameShadow
    <2>3. Outcome(i) # "absent"
      BY <1>7, <1>a DEF Send, PromiseInv, LeaseInv, GrantsEnd, Outcome, Waiting, RowsTypeOK, States, Finished
    <2>4. CASE shown' = shown \cup {i}
      BY <2>2, <2>3, <2>4 DEF Promise!Next, Promise!Appear, Promise!In, Shadow
    <2> QED
      BY <1>s, <2>1, <2>2, <2>4
  <1>8. ASSUME NEW b \in Bots, ReportRead(b) PROVE [Promise!Next]_(Promise!vars)
    BY <1>8, <1>u DEF ReportRead
  <1>9. ASSUME NEW b \in Bots, MarkDelivered(b) PROVE [Promise!Next]_(Promise!vars)
    <2>1. CASE StillClaimed(cur[b])
      <3>1. /\ cur[b] \in Items /\ cur[b] \in shown /\ shown' = shown
            /\ Finish({cur[b]}, "delivered", "none", clock[b]) /\ state[cur[b]] \in Waiting
        BY <1>9, <1>a, <2>1
           DEF MarkDelivered, BotsTypeOK, PromiseInv, ChatInv, SuccessWasSent, StillClaimed, Waiting
      <3>2. Promise!In({cur[b]}, {"waiting"}) /\ Promise!Become({cur[b]}, "delivered")
        BY <3>1, <1>a, FinishIsBecome DEF Finished
      <3>3. Promise!Confirm(cur[b])
        BY <3>1, <3>2 DEF Promise!Confirm
      <3> QED
        BY <3>1, <3>3 DEF Promise!Next
    <2>2. CASE ~ StillClaimed(cur[b])
      BY <1>9, <1>u, <2>2 DEF MarkDelivered
    <2> QED
      BY <2>1, <2>2
  <1>10. ASSUME NEW b \in Bots, Requeue(b) PROVE [Promise!Next]_(Promise!vars)
    <2>1. CASE StillClaimed(cur[b])
      <3>1. \A i \in Items : state'[i] = state[i] \/ {state[i], state'[i]} \subseteq Waiting
        BY <1>10, <1>a, <2>1 DEF Requeue, StillClaimed, Waiting, RowsTypeOK
      <3> QED
        BY <1>10, <1>s, <3>1, SameShadow DEF Requeue
    <2>2. CASE ~ StillClaimed(cur[b])
      BY <1>10, <1>u, <2>2 DEF Requeue
    <2> QED
      BY <2>1, <2>2
  <1>11. ASSUME NEW b \in Bots, Fail(b) PROVE [Promise!Next]_(Promise!vars)
    <2>1. CASE StillClaimed(cur[b])
      <3>1. /\ cur[b] \in Items /\ shown' = shown
            /\ Finish({cur[b]}, "failed", "other", clock[b]) /\ state[cur[b]] \in Waiting
        BY <1>11, <1>a, <2>1 DEF Fail, BotsTypeOK, StillClaimed, Waiting
      <3> QED
        BY <1>b, <3>1
    <2>2. CASE ~ StillClaimed(cur[b])
      BY <1>11, <1>u, <2>2 DEF Fail
    <2> QED
      BY <2>1, <2>2
  <1>12. ASSUME NEW b \in Bots, ReportNotify(b) \/ ReportAbandoned(b) \/ BotRestart(b) \/ ReportFails(b)
         PROVE  [Promise!Next]_(Promise!vars)
    BY <1>12, <1>u DEF ReportNotify, ReportAbandoned, BotRestart, ReportFails
  <1>13. CASE StaleOutbox \/ TellExpired \/ ExpireFails
    BY <1>13, <1>u DEF StaleOutbox, TellExpired, ExpireFails
  <1>14. ASSUME NEW i \in Items, ExpireItem(i) PROVE [Promise!Next]_(Promise!vars)
    <2>1. CASE StillWaiting(i)
      <3>1. Finish({i}, "expired", "other", now) /\ state[i] \in Waiting /\ shown' = shown
        BY <1>14, <2>1 DEF ExpireItem, StillWaiting
      <3> QED
        BY <1>b, <3>1
    <2>2. CASE ~ StillWaiting(i)
      BY <1>14, <1>u, <2>2 DEF ExpireItem
    <2> QED
      BY <2>1, <2>2
  <1>15. CASE UNCHANGED vars
    BY <1>15, <1>u DEF vars
  <1> QED
    BY <1>1, <1>2, <1>3, <1>4, <1>5, <1>6, <1>7, <1>8, <1>9, <1>10, <1>11, <1>12, <1>13, <1>14,
       <1>15 DEF Next, Bot, Report, Expirer

(* Claims, leases, retries, cancellations, expiry and the steps of a       *)
(* report implement the promise about each item.                           *)
THEOREM OutboxKeepsPromise == Spec => KeepsPromise
  <1>1. Init => Promise!Init
    BY DEF Init, Promise!Init, Outcome
  <1> QED
    BY <1>1, PromiseInvHolds, NextRefines, PTL DEF Spec, KeepsPromise, Promise!Spec

-----------------------------------------------------------------------------
(* A finished row keeps its outcome until the retention job deletes it:    *)
(* every update of a row asks for its state in the same statement, also    *)
(* those that act on what was read before (ReportRead, StaleOutbox).       *)
Settled == \A i \in Items : state[i] \in Finished => state'[i] \in {state[i], "purged"}

LEMMA NextSettles == TypeOK /\ [Next]_vars => Settled
  <1> SUFFICES ASSUME TypeOK, [Next]_vars PROVE Settled
    OBVIOUS
  <1>a. state \in [Items -> States] /\ BotsTypeOK
    BY DEF TypeOK, RowsTypeOK
  <1>0. ASSUME UNCHANGED state PROVE Settled
    BY <1>0 DEF Settled
  <1>1. ASSUME NEW S, NEW to, NEW why, NEW at, \A i \in S : state[i] \in Waiting, Finish(S, to, why, at)
        PROVE  Settled
    BY <1>1 DEF Settled, Finish, Waiting, Finished
  <1>2. CASE Tick \/ ExpireFails \/ StaleOutbox \/ TellExpired
    BY <1>0, <1>2 DEF Tick, ExpireFails, StaleOutbox, TellExpired, rowVars
  <1>3. ASSUME NEW i \in Items, Enqueue(i) PROVE Settled
    BY <1>3, <1>a DEF Settled, Enqueue, Finished
  <1>4. ASSUME NEW C \in CancelSets, Cancel(C) PROVE Settled
    BY <1>1, <1>4 DEF Cancel
  <1>5. ASSUME NEW u \in Users, NEW s \in {"active", "disabled"}, SetStatus(u, s) PROVE Settled
    BY <1>0, <1>5 DEF SetStatus, rowVars
  <1>6. CASE Purge
    BY <1>6 DEF Settled, Purge
  <1>7. ASSUME NEW b \in Bots, NEW S \in SUBSET Items, Claim(b, S) PROVE Settled
    <2>1. \A i \in S : state[i] \in Waiting
      BY <1>7 DEF Claim, Claimable, Waiting
    <2> QED
      BY <1>7, <2>1 DEF Settled, Claim, Waiting, Finished
  <1>8. ASSUME NEW b \in Bots, NEW i \in Items, NEW o \in SendOutcomes(i), Send(b, i, o) PROVE Settled
    BY <1>0, <1>8 DEF Send, rowVars
  <1>9. ASSUME NEW b \in Bots, ReportRead(b) \/ ReportNotify(b) PROVE Settled
    BY <1>0, <1>9 DEF ReportRead, ReportNotify, rowVars
  <1>10. ASSUME NEW b \in Bots, StillClaimed(cur[b]) PROVE \A i \in {cur[b]} : state[i] \in Waiting
    BY <1>10 DEF StillClaimed, Waiting
  <1>11. ASSUME NEW b \in Bots, MarkDelivered(b) \/ Fail(b) PROVE Settled
    <2>1. UNCHANGED state \/ \E to, why, at : StillClaimed(cur[b]) /\ Finish({cur[b]}, to, why, at)
      BY <1>11 DEF MarkDelivered, Fail, rowVars
    <2> QED
      BY <1>0, <1>1, <1>10, <2>1
  <1>12. ASSUME NEW b \in Bots, Requeue(b) PROVE Settled
    <2>1. UNCHANGED state \/ (StillClaimed(cur[b]) /\ state' = [state EXCEPT ![cur[b]] = "queued"])
      BY <1>12 DEF Requeue, rowVars
    <2> QED
      BY <1>0, <1>a, <2>1 DEF Settled, StillClaimed, Finished
  <1>13. ASSUME NEW b \in Bots, ReportFails(b) \/ ReportAbandoned(b) \/ BotRestart(b) PROVE Settled
    BY <1>0, <1>13 DEF ReportFails, ReportAbandoned, BotRestart, rowVars
  <1>14. ASSUME NEW i \in Items, ExpireItem(i) PROVE Settled
    <2>1. UNCHANGED state \/ (StillWaiting(i) /\ Finish({i}, "expired", "other", now))
      BY <1>14 DEF ExpireItem, rowVars
    <2> QED
      BY <1>0, <1>1, <2>1 DEF StillWaiting
  <1>15. CASE UNCHANGED vars
    BY <1>0, <1>15 DEF vars, rowVars
  <1> QED
    BY <1>2, <1>3, <1>4, <1>5, <1>6, <1>7, <1>8, <1>9, <1>11, <1>12, <1>13, <1>14, <1>15
    DEF Next, Bot, Report, Expirer

(* No late report, expiry or cancellation changes an outcome.              *)
THEOREM OutcomesAreFinal == Spec => FinalStateKept
  <1>1. TypeOK /\ [Next]_vars => [Settled]_vars
    BY NextSettles
  <1>2. FinalStateKept <=> [][Settled]_vars
    BY DEF FinalStateKept, Settled
  <1> QED
    BY <1>1, <1>2, TypeCorrect, PTL DEF Spec

-----------------------------------------------------------------------------
(* Alarms.  Whoever is about to tell a user (a report after its update, or *)
(* the expiry job) has given the item up itself, nobody else is about to   *)
(* tell of the same item, and nobody has told.                             *)
GivenUp(i) == state[i] \in {"failed", "expired", "purged"} /\ reason[i] = "other"

Pending(i) == i \in Items /\ told[i] = 0 /\ i \notin Lifecycle /\ GivenUp(i)

Notifies(b) == phase[b] = "notify"

TellersInv ==
  /\ \A b \in Bots : outcome[b] = "failed_permanent" => cur[b] \notin Lifecycle
  /\ \A b \in Bots : Notifies(b) => Pending(cur[b]) /\ cur[b] # telling
  /\ \A b, c \in Bots : Notifies(b) /\ Notifies(c) /\ cur[b] = cur[c] => b = c
  /\ telling # NoItem => Pending(telling)

AlarmInv == TellersInv /\ NoFalseAlarm

(* What was given up stays so, until and after the row is deleted.         *)
StaysGivenUp == \A i \in Items : GivenUp(i) => GivenUp(i)'

(* A step after which nobody is about to tell who was not before.          *)
Calm ==
  /\ StaysGivenUp
  /\ told' = told
  /\ telling' \in {telling, NoItem}
  /\ \A b \in Bots :
       /\ Notifies(b)' => Notifies(b) /\ cur'[b] = cur[b]
       /\ outcome'[b] = "failed_permanent" => outcome[b] = "failed_permanent" /\ cur'[b] = cur[b]

LEMMA CalmKeepsAlarms == TypeOK /\ AlarmInv /\ Calm => AlarmInv'
  <1> SUFFICES ASSUME TypeOK, AlarmInv, Calm PROVE AlarmInv'
    OBVIOUS
  <1>1. \A i \in Items : Pending(i) => Pending(i)'
    BY DEF Pending, Calm, StaysGivenUp
  <1>2. NoItem \notin Items
    BY OwnerAssumption
  <1>3. TellersInv'
    BY <1>1, <1>2 DEF Calm, AlarmInv, TellersInv, Pending
  <1>4. NoFalseAlarm'
    BY DEF Calm, AlarmInv, NoFalseAlarm, StaysGivenUp, GivenUp
  <1> QED
    BY <1>3, <1>4 DEF AlarmInv

LEMMA NextKeepsGivenUp == TypeOK /\ [Next]_vars => StaysGivenUp
  <1> SUFFICES ASSUME TypeOK, [Next]_vars PROVE StaysGivenUp
    OBVIOUS
  <1>a. state \in [Items -> States] /\ reason \in [Items -> {"none", "cancelled", "other"}] /\ BotsTypeOK
    BY DEF TypeOK, RowsTypeOK
  <1>0. ASSUME UNCHANGED <<state, reason>> PROVE StaysGivenUp
    BY <1>0 DEF StaysGivenUp, GivenUp
  <1>1. ASSUME NEW S, NEW to, NEW why, NEW at, \A i \in S : state[i] \in Waiting, Finish(S, to, why, at)
        PROVE  StaysGivenUp
    BY <1>1 DEF StaysGivenUp, GivenUp, Finish, Waiting
  <1>2. CASE Tick \/ ExpireFails \/ StaleOutbox \/ TellExpired
    BY <1>0, <1>2 DEF Tick, ExpireFails, StaleOutbox, TellExpired
  <1>3. ASSUME NEW i \in Items, Enqueue(i) PROVE StaysGivenUp
    BY <1>3, <1>a DEF StaysGivenUp, GivenUp, Enqueue
  <1>4. ASSUME NEW C \in CancelSets, Cancel(C) PROVE StaysGivenUp
    BY <1>1, <1>4 DEF Cancel
  <1>5. ASSUME NEW u \in Users, NEW s \in {"active", "disabled"}, SetStatus(u, s) PROVE StaysGivenUp
    BY <1>0, <1>5 DEF SetStatus
  <1>6. CASE Purge
    BY <1>6 DEF StaysGivenUp, GivenUp, Purge
  <1>7. ASSUME NEW b \in Bots, NEW S \in SUBSET Items, Claim(b, S) PROVE StaysGivenUp
    <2>1. \A i \in S : state[i] \in Waiting
      BY <1>7 DEF Claim, Claimable, Waiting
    <2> QED
      BY <1>7, <2>1 DEF StaysGivenUp, GivenUp, Claim, Waiting
  <1>8. ASSUME NEW b \in Bots, NEW i \in Items, NEW o \in SendOutcomes(i), Send(b, i, o) PROVE StaysGivenUp
    BY <1>0, <1>8 DEF Send
  <1>9. ASSUME NEW b \in Bots, ReportRead(b) \/ ReportNotify(b) PROVE StaysGivenUp
    BY <1>0, <1>9 DEF ReportRead, ReportNotify
  <1>10. ASSUME NEW b \in Bots, StillClaimed(cur[b]) PROVE \A i \in {cur[b]} : state[i] \in Waiting
    BY <1>10 DEF StillClaimed, Waiting
  <1>11. ASSUME NEW b \in Bots, MarkDelivered(b) \/ Fail(b) PROVE StaysGivenUp
    <2>1. UNCHANGED <<state, reason>> \/ \E to, why, at : StillClaimed(cur[b]) /\ Finish({cur[b]}, to, why, at)
      BY <1>11 DEF MarkDelivered, Fail
    <2> QED
      BY <1>0, <1>1, <1>10, <2>1
  <1>12. ASSUME NEW b \in Bots, Requeue(b) PROVE StaysGivenUp
    <2>1. \/ UNCHANGED <<state, reason>>
          \/ /\ StillClaimed(cur[b])
             /\ state' = [state EXCEPT ![cur[b]] = "queued"]
             /\ reason' = [reason EXCEPT ![cur[b]] = "other"]
      BY <1>12 DEF Requeue
    <2> QED
      BY <1>0, <1>a, <2>1 DEF StaysGivenUp, GivenUp, StillClaimed
  <1>13. ASSUME NEW b \in Bots, ReportFails(b) \/ ReportAbandoned(b) \/ BotRestart(b) PROVE StaysGivenUp
    BY <1>0, <1>13 DEF ReportFails, ReportAbandoned, BotRestart
  <1>14. ASSUME NEW i \in Items, ExpireItem(i) PROVE StaysGivenUp
    <2>1. UNCHANGED <<state, reason>> \/ (StillWaiting(i) /\ Finish({i}, "expired", "other", now))
      BY <1>14 DEF ExpireItem
    <2> QED
      BY <1>0, <1>1, <2>1 DEF StillWaiting
  <1>15. CASE UNCHANGED vars
    BY <1>0, <1>15 DEF vars
  <1> QED
    BY <1>2, <1>3, <1>4, <1>5, <1>6, <1>7, <1>8, <1>9, <1>11, <1>12, <1>13, <1>14, <1>15
    DEF Next, Bot, Report, Expirer

(* Between two items a bot tells nobody anything.                          *)
LEMMA GoOnWithIsCalm ==
  ASSUME BotsTypeOK, NEW b \in Bots, NEW S, GoOnWith(b, S)
  PROVE  \A c \in Bots :
           /\ Notifies(c)' => c # b /\ Notifies(c) /\ cur'[c] = cur[c]
           /\ outcome'[c] = "failed_permanent" => outcome[c] = "failed_permanent" /\ cur'[c] = cur[c]
  BY DEF GoOnWith, BotsTypeOK, Notifies

LEMMA NextKeepsAlarms == TypeOK /\ AlarmInv /\ [Next]_vars => AlarmInv'
  <1> SUFFICES ASSUME TypeOK, AlarmInv, [Next]_vars PROVE AlarmInv'
    OBVIOUS
  <1>a. /\ state \in [Items -> States] /\ reason \in [Items -> {"none", "cancelled", "other"}]
        /\ told \in [Items -> Nat] /\ telling \in Items \cup {NoItem} /\ BotsTypeOK /\ NoItem \notin Items
    BY OwnerAssumption DEF TypeOK, RowsTypeOK
  <1>g. StaysGivenUp
    BY NextKeepsGivenUp
  <1>h. Calm => AlarmInv'
    BY CalmKeepsAlarms
  <1>n. ASSUME NEW b \in Bots, NextItem(b)
        PROVE  \A c \in Bots :
                 /\ Notifies(c)' => c # b /\ Notifies(c) /\ cur'[c] = cur[c]
                 /\ outcome'[c] = "failed_permanent" => outcome[c] = "failed_permanent" /\ cur'[c] = cur[c]
    BY <1>n, <1>a, GoOnWithIsCalm DEF NextItem
  <1>0. ASSUME UNCHANGED <<told, telling, phase, cur, outcome>> PROVE AlarmInv'
    BY <1>0, <1>g, <1>h DEF Calm, Notifies
  <1>1. CASE Tick \/ StaleOutbox \/ Purge
    BY <1>0, <1>1 DEF Tick, StaleOutbox, Purge
  <1>2. ASSUME NEW i \in Items, Enqueue(i) PROVE AlarmInv'
    BY <1>0, <1>2 DEF Enqueue
  <1>3. ASSUME NEW C \in CancelSets, Cancel(C) PROVE AlarmInv'
    BY <1>0, <1>3 DEF Cancel
  <1>4. ASSUME NEW u \in Users, NEW s \in {"active", "disabled"}, SetStatus(u, s) PROVE AlarmInv'
    BY <1>0, <1>4 DEF SetStatus
  <1>5. ASSUME NEW b \in Bots, NEW S \in SUBSET Items, Claim(b, S) PROVE AlarmInv'
    BY <1>0, <1>5 DEF Claim
  <1>6. ASSUME NEW b \in Bots, NEW i \in Items, NEW o \in SendOutcomes(i), Send(b, i, o) PROVE AlarmInv'
    <2>1. /\ phase' = [phase EXCEPT ![b] = "report"]
          /\ cur' = [cur EXCEPT ![b] = i]
          /\ outcome' = [outcome EXCEPT ![b] = o.result]
          /\ UNCHANGED <<state, reason, told, telling>>
      BY <1>6 DEF Send
    <2>2. o.result = "failed_permanent" => i \notin Lifecycle
      BY DEF SendOutcomes
    <2>3. \A c \in Bots : Notifies(c)' => c # b /\ Notifies(c) /\ cur'[c] = cur[c]
      BY <1>a, <2>1 DEF Notifies, BotsTypeOK
    <2>4. \A c \in Bots : outcome'[c] = "failed_permanent" => cur'[c] \notin Lifecycle
      BY <1>a, <2>1, <2>2 DEF AlarmInv, TellersInv, BotsTypeOK
    <2>5. \A j \in Items : Pending(j) => Pending(j)'
      BY <2>1 DEF Pending, GivenUp
    <2>6. TellersInv'
      BY <1>a, <2>1, <2>3, <2>4, <2>5 DEF AlarmInv, TellersInv, Pending
    <2>7. NoFalseAlarm'
      BY <2>1 DEF AlarmInv, NoFalseAlarm
    <2> QED
      BY <2>6, <2>7 DEF AlarmInv
  <1>7. ASSUME NEW b \in Bots, ReportRead(b) PROVE AlarmInv'
    <2>1. UNCHANGED <<told, telling>>
      BY <1>7 DEF ReportRead
    <2>2. CASE StillClaimed(cur[b])
      <3>1. phase' = [phase EXCEPT ![b] = "update"] /\ UNCHANGED <<cur, outcome>>
        BY <1>7, <2>2 DEF ReportRead
      <3> QED
        BY <1>a, <1>g, <1>h, <2>1, <3>1 DEF Calm, Notifies, BotsTypeOK
    <2>3. CASE ~ StillClaimed(cur[b])
      BY <1>7, <1>g, <1>h, <1>n, <2>1, <2>3 DEF ReportRead, Calm
    <2> QED
      BY <2>2, <2>3
  <1>8. ASSUME NEW b \in Bots, MarkDelivered(b) \/ Requeue(b) \/ ReportAbandoned(b) PROVE AlarmInv'
    <2>1. NextItem(b) /\ UNCHANGED <<told, telling>>
      BY <1>8 DEF MarkDelivered, Requeue, ReportAbandoned
    <2> QED
      BY <1>g, <1>h, <1>n, <2>1 DEF Calm
  <1>9. ASSUME NEW b \in Bots, Fail(b) PROVE AlarmInv'
    <2>1. UNCHANGED <<told, telling>>
      BY <1>9 DEF Fail
    <2>2. CASE ~ StillClaimed(cur[b])
      BY <1>9, <1>g, <1>h, <1>n, <2>1, <2>2 DEF Fail, Calm
    <2>3. CASE StillClaimed(cur[b])
      <3>1. /\ phase' = [phase EXCEPT ![b] = "notify"] /\ UNCHANGED <<cur, outcome>>
            /\ Finish({cur[b]}, "failed", "other", clock[b])
            /\ phase[b] = "update" /\ outcome[b] = "failed_permanent"
        BY <1>9, <2>3 DEF Fail
      <3>2. cur[b] \in Items /\ cur[b] \notin Lifecycle /\ state[cur[b]] = "claimed"
        BY <1>a, <2>3, <3>1 DEF BotsTypeOK, AlarmInv, TellersInv, StillClaimed
      <3>3. told[cur[b]] = 0
        BY <1>a, <3>2 DEF AlarmInv, NoFalseAlarm
      <3>4. ~ Pending(cur[b])
        BY <3>2 DEF Pending, GivenUp
      <3>5. GivenUp(cur[b])'
        BY <3>1, <3>2 DEF Finish, GivenUp
      <3>6. Pending(cur[b])'
        BY <2>1, <3>1, <3>2, <3>3, <3>5 DEF Pending
      <3>7. \A j \in Items : Pending(j) => Pending(j)'
        BY <1>g, <2>1 DEF Pending, StaysGivenUp
      <3>8. \A c \in Bots : Notifies(c)' => c = b \/ Notifies(c)
        BY <1>a, <3>1 DEF Notifies, BotsTypeOK
      <3>9. \A c \in Bots : Notifies(c) => cur[c] # cur[b]
        BY <3>4 DEF AlarmInv, TellersInv
      <3>10. telling # cur[b]
        BY <1>a, <3>2, <3>4 DEF AlarmInv, TellersInv
      <3>11. TellersInv'
        <4>1. \A c \in Bots : outcome'[c] = "failed_permanent" => cur'[c] \notin Lifecycle
          BY <3>1 DEF AlarmInv, TellersInv
        <4>2. \A c \in Bots : Notifies(c)' => Pending(cur[c])' /\ cur'[c] # telling'
          BY <2>1, <3>1, <3>6, <3>7, <3>8, <3>10 DEF AlarmInv, TellersInv, Pending
        <4>3. \A c, d \in Bots : Notifies(c)' /\ Notifies(d)' /\ cur'[c] = cur'[d] => c = d
          BY <3>1, <3>8, <3>9 DEF AlarmInv, TellersInv
        <4>4. telling' # NoItem => Pending(telling)'
          BY <1>a, <2>1, <3>7 DEF AlarmInv, TellersInv, Pending
        <4> QED
          BY <4>1, <4>2, <4>3, <4>4 DEF TellersInv
      <3>12. NoFalseAlarm'
        BY <1>g, <2>1 DEF AlarmInv, NoFalseAlarm, StaysGivenUp, GivenUp
      <3> QED
        BY <3>11, <3>12 DEF AlarmInv
    <2> QED
      BY <2>2, <2>3
  <1>10. ASSUME NEW b \in Bots, ReportNotify(b) PROVE AlarmInv'
    <2>1. NextItem(b) /\ UNCHANGED <<state, reason, telling>> /\ Pending(cur[b]) /\ cur[b] # telling
      BY <1>10 DEF ReportNotify, AlarmInv, TellersInv, Notifies
    <2>2. told' = [told EXCEPT ![cur[b]] = @ + 1]
      BY <1>10, <2>1 DEF ReportNotify, NotifyFailure, Pending
    <2>3. \A j \in Items : Pending(j) /\ j # cur[b] => Pending(j)'
      BY <1>a, <2>1, <2>2 DEF Pending, GivenUp
    <2>4. \A c \in Bots : Notifies(c)' => Pending(cur[c])' /\ cur'[c] # telling'
      <3> SUFFICES ASSUME NEW c \in Bots, Notifies(c)' PROVE Pending(cur[c])' /\ cur'[c] # telling'
        OBVIOUS
      <3>1. c # b /\ Notifies(c) /\ cur'[c] = cur[c]
        BY <1>n, <2>1
      <3>2. Pending(cur[c]) /\ cur[c] # cur[b] /\ cur[c] # telling
        BY <1>10, <3>1 DEF AlarmInv, TellersInv, ReportNotify, Notifies
      <3> QED
        BY <2>1, <2>3, <3>1, <3>2 DEF Pending
    <2>5. \A c \in Bots : outcome'[c] = "failed_permanent" => cur'[c] \notin Lifecycle
      BY <1>n, <2>1 DEF AlarmInv, TellersInv
    <2>6. \A c, d \in Bots : Notifies(c)' /\ Notifies(d)' /\ cur'[c] = cur'[d] => c = d
      BY <1>n, <2>1 DEF AlarmInv, TellersInv
    <2>7. telling' # NoItem => Pending(telling)'
      BY <1>a, <2>1, <2>3 DEF AlarmInv, TellersInv, Pending
    <2>8. TellersInv'
      BY <2>4, <2>5, <2>6, <2>7 DEF TellersInv
    <2>9. NoFalseAlarm'
      BY <1>a, <2>1, <2>2 DEF AlarmInv, NoFalseAlarm, Pending, GivenUp
    <2> QED
      BY <2>8, <2>9 DEF AlarmInv
  <1>11. ASSUME NEW b \in Bots, ReportFails(b) PROVE AlarmInv'
    <2>1. phase' = [phase EXCEPT ![b] = "report"] /\ UNCHANGED <<told, telling, cur, outcome>>
      BY <1>11 DEF ReportFails
    <2> QED
      BY <1>a, <1>g, <1>h, <2>1 DEF Calm, Notifies, BotsTypeOK
  <1>12. ASSUME NEW b \in Bots, BotRestart(b) PROVE AlarmInv'
    BY <1>12, <1>a, <1>g, <1>h, GoOnWithIsCalm DEF BotRestart, Calm
  <1>13. CASE ExpireFails
    BY <1>13, <1>g, <1>h DEF ExpireFails, Calm, Notifies
  <1>14. ASSUME NEW i \in Items, ExpireItem(i) PROVE AlarmInv'
    <2>1. UNCHANGED <<told, phase, cur, outcome>> /\ telling = NoItem
      BY <1>14 DEF ExpireItem
    <2>2. CASE telling' = NoItem
      BY <1>g, <1>h, <2>1, <2>2 DEF Calm, Notifies
    <2>3. CASE telling' # NoItem
      <3>1. StillWaiting(i) /\ Finish({i}, "expired", "other", now) /\ telling' = i /\ i \notin Lifecycle
        BY <1>14, <2>1, <2>3 DEF ExpireItem
      <3>2. told[i] = 0 /\ ~ Pending(i)
        BY <1>a, <3>1 DEF AlarmInv, NoFalseAlarm, Pending, GivenUp, StillWaiting, Waiting
      <3>3. GivenUp(i)'
        BY <3>1 DEF Finish, GivenUp
      <3>4. Pending(telling)'
        BY <2>1, <3>1, <3>2, <3>3 DEF Pending
      <3>5. \A j \in Items : Pending(j) => Pending(j)'
        BY <1>g, <2>1 DEF Pending, StaysGivenUp
      <3>6. \A b \in Bots : Notifies(b)' => Pending(cur[b])' /\ cur'[b] # telling'
        BY <2>1, <3>1, <3>2, <3>5 DEF AlarmInv, TellersInv, Notifies, Pending
      <3>7. TellersInv'
        BY <2>1, <3>4, <3>6 DEF AlarmInv, TellersInv, Notifies
      <3>8. NoFalseAlarm'
        BY <1>g, <2>1 DEF AlarmInv, NoFalseAlarm, StaysGivenUp, GivenUp
      <3> QED
        BY <3>7, <3>8 DEF AlarmInv
    <2> QED
      BY <2>2, <2>3
  <1>15. CASE TellExpired
    <2>1. UNCHANGED <<state, reason, phase, cur, outcome>> /\ telling' = NoItem /\ Pending(telling)
      BY <1>15 DEF TellExpired, AlarmInv, TellersInv
    <2>2. told' = [told EXCEPT ![telling] = @ + 1]
      BY <1>15, <2>1 DEF TellExpired, NotifyFailure, Pending
    <2>3. \A j \in Items : Pending(j) /\ j # telling => Pending(j)'
      BY <1>a, <2>1, <2>2 DEF Pending, GivenUp
    <2>4. \A b \in Bots : Notifies(b)' => Pending(cur[b])' /\ cur'[b] # telling'
      BY <1>a, <2>1, <2>3 DEF AlarmInv, TellersInv, Notifies, Pending
    <2>5. TellersInv'
      BY <2>1, <2>4 DEF AlarmInv, TellersInv, Notifies
    <2>6. NoFalseAlarm'
      BY <1>a, <2>1, <2>2 DEF AlarmInv, NoFalseAlarm, Pending, GivenUp
    <2> QED
      BY <2>5, <2>6 DEF AlarmInv
  <1>16. CASE UNCHANGED vars
    BY <1>0, <1>16 DEF vars
  <1> QED
    BY <1>1, <1>2, <1>3, <1>4, <1>5, <1>6, <1>7, <1>8, <1>9, <1>10, <1>11, <1>12, <1>13, <1>14,
       <1>15, <1>16 DEF Next, Bot, Report, Expirer

(* Users are told of a failure at most once, and only of what Core gave up, *)
(* although the job and the reports act on what they read before.          *)
THEOREM AlarmsAreTrue == Spec => []NoFalseAlarm
  <1>1. Init => AlarmInv
    BY DEF Init, AlarmInv, TellersInv, NoFalseAlarm, Notifies
  <1>2. AlarmInv => NoFalseAlarm
    BY DEF AlarmInv
  <1> QED
    BY <1>1, <1>2, NextKeepsAlarms, TypeCorrect, PTL DEF Spec

-----------------------------------------------------------------------------
(* The Matrix bot.  That nothing is skipped is not inductive: it has to be *)
(* known that a process has lost sight of nothing up to the place where    *)
(* its response ends (Covered), and that messages are settled in the order *)
(* of their room (InTurn); for only then does the newest message that Core *)
(* holds of a room tell how far back a gap has to be filled                *)
(* (UnwantedIsSettled).                                                    *)
-----------------------------------------------------------------------------
(* A list is ascending.                                                    *)
Ascending(s) == \A i, j \in 1 .. Len(s) : i < j => s[i] < s[j]

(* How many of a set there are up to one of its numbers is its rank.       *)
UpTo(S, e) == {f \in S : f <= e}

(* The more numbers lie below a number, the larger it is.                  *)
LEMMA NumbersHaveRanks ==
  ASSUME NEW S \in SUBSET Nat, IsFiniteSet(S), NEW e \in S
  PROVE  /\ Cardinality(S) \in Nat /\ Cardinality(UpTo(S, e)) \in 1 .. Cardinality(S)
         /\ \A f \in S : e < f => Cardinality(UpTo(S, e)) < Cardinality(UpTo(S, f))
  <1>1. ASSUME NEW f \in S
        PROVE  /\ IsFiniteSet(UpTo(S, f)) /\ Cardinality(UpTo(S, f)) \in Nat
               /\ Cardinality(UpTo(S, f)) <= Cardinality(S)
    <2>1. UpTo(S, f) \in SUBSET S
      BY DEF UpTo
    <2> QED
      BY <2>1, FS_Subset, FS_CardinalityType
  <1>2. Cardinality(UpTo(S, e)) # 0
    <2>1. e \in UpTo(S, e)
      BY DEF UpTo
    <2> QED
      BY <1>1, <2>1, FS_EmptySet
  <1>3. ASSUME NEW f \in S, e < f PROVE Cardinality(UpTo(S, e)) < Cardinality(UpTo(S, f))
    <2>1. UpTo(S, e) \in SUBSET UpTo(S, f)
      <3>1. \A g \in S : g \in Nat
        OBVIOUS
      <3>2. \A g \in S : g <= e => g <= f
        BY <1>3, <3>1
      <3> QED
        BY <3>2 DEF UpTo
    <2>2. f \in UpTo(S, f) /\ f \notin UpTo(S, e)
      BY <1>3 DEF UpTo
    <2>3. /\ Cardinality(UpTo(S, e)) <= Cardinality(UpTo(S, f))
          /\ Cardinality(UpTo(S, f)) = Cardinality(UpTo(S, e)) => UpTo(S, f) = UpTo(S, e)
      BY <1>1, <2>1, FS_Subset
    <2>4. Cardinality(UpTo(S, e)) # Cardinality(UpTo(S, f))
      BY <2>2, <2>3
    <2> QED
      BY <1>1, <2>3, <2>4
  <1>4. Cardinality(S) \in Nat
    BY FS_CardinalityType
  <1> QED
    BY <1>1, <1>2, <1>3, <1>4

(* Every rank up to the size of the set is taken.                          *)
LEMMA EveryRankIsTaken ==
  ASSUME NEW S \in SUBSET Nat, IsFiniteSet(S), NEW i \in 1 .. Cardinality(S)
  PROVE  \E e \in S : Cardinality(UpTo(S, e)) = i
  <1>1. PICK n \in Nat : n = Cardinality(S)
    BY FS_CardinalityType
  <1> DEFINE f == [e \in S |-> Cardinality(UpTo(S, e))]
  <1>2. f \in [S -> 1 .. n]
    BY <1>1, NumbersHaveRanks
  <1>3. ASSUME NEW e \in S, NEW g \in S, f[e] = f[g] PROVE e = g
    <2>1. Cardinality(UpTo(S, e)) = Cardinality(UpTo(S, g)) /\ Cardinality(UpTo(S, e)) \in Nat
      BY <1>1, <1>3, NumbersHaveRanks
    <2>2. ~ (e < g)
      BY <2>1, NumbersHaveRanks
    <2>3. ~ (g < e)
      BY <2>1, NumbersHaveRanks
    <2> QED
      BY <2>2, <2>3
  <1>4. f \in Injection(S, 1 .. n)
    <2> HIDE DEF f
    <2> QED
      BY <1>2, <1>3, Zenon DEF Injection, IsInjective
  <1>5. IsFiniteSet(1 .. n) /\ Cardinality(1 .. n) = n
    <2>1. 1 \in Int /\ n \in Int
      OBVIOUS
    <2>2. IsFiniteSet(1 .. n) /\ Cardinality(1 .. n) = IF 1 > n THEN 0 ELSE n - 1 + 1
      BY <2>1, FS_Interval
    <2> QED
      BY <2>2
  <1>6. f \in Surjection(S, 1 .. n)
    <2> HIDE DEF f
    <2> QED
      BY <1>1, <1>4, <1>5, FS_Injection
  <1>7. \E e \in S : f[e] = i
    <2>1. i \in 1 .. n
      BY <1>1
    <2> HIDE DEF f
    <2> QED
      BY <1>6, <2>1 DEF Surjection
  <1> QED
    BY <1>7

(* InOrder lists the members of a set, each once and the smaller first.    *)
LEMMA InOrderLists ==
  ASSUME NEW S \in SUBSET Nat, IsFiniteSet(S)
  PROVE  /\ InOrder(S) \in Seq(S) /\ Ascending(InOrder(S))
         /\ Range(InOrder(S)) = S
  <1> DEFINE s == InOrder(S)
  <1>1. PICK n \in Nat : n = Cardinality(S)
    BY FS_CardinalityType
  <1>2. s = [i \in 1 .. n |-> CHOOSE e \in S : Cardinality({f \in S : f <= e}) = i]
    <2>1. Cardinality(S) = n
      BY <1>1
    <2> QED
      BY <2>1 DEF InOrder
  <1>3. ASSUME NEW i \in 1 .. n PROVE s[i] \in S /\ Cardinality(UpTo(S, s[i])) = i
    <2>1. PICK e \in S : Cardinality(UpTo(S, e)) = i
      BY <1>1, EveryRankIsTaken
    <2>2. Cardinality({f \in S : f <= e}) = i
      BY <2>1 DEF UpTo
    <2>3. s[i] = CHOOSE g \in S : Cardinality({f \in S : f <= g}) = i
      BY <1>2
    <2> HIDE DEF s
    <2>4. s[i] \in S /\ Cardinality({f \in S : f <= s[i]}) = i
      BY <2>2, <2>3, Zenon
    <2> QED
      BY <2>4 DEF UpTo
  <1>4. s \in [1 .. n -> S]
    <2>1. s = [i \in 1 .. n |-> s[i]]
      BY <1>2
    <2> HIDE DEF s
    <2> QED
      BY <1>3, <2>1
  <1> HIDE DEF s
  <1>5. s \in Seq(S) /\ Len(s) = n
    <2>1. s \in Seq(S)
      BY <1>4, IsASeq
    <2> QED
      BY <1>4, <2>1, LenProperties
  <1>6. Ascending(s)
    <2> SUFFICES ASSUME NEW i \in 1 .. n, NEW j \in 1 .. n, i < j PROVE s[i] < s[j]
      BY <1>5 DEF Ascending
    <2>1. s[i] \in S /\ s[j] \in S /\ Cardinality(UpTo(S, s[i])) = i /\ Cardinality(UpTo(S, s[j])) = j
      BY <1>3
    <2>2. s[i] # s[j]
      BY <2>1
    <2>3. ~ (s[j] < s[i])
      <3> SUFFICES ASSUME s[j] < s[i] PROVE FALSE
        OBVIOUS
      <3>1. Cardinality(UpTo(S, s[j])) < Cardinality(UpTo(S, s[i]))
        BY <2>1, NumbersHaveRanks
      <3> QED
        BY <2>1, <3>1
    <2>4. s[i] \in Nat /\ s[j] \in Nat
      BY <2>1
    <2> QED
      BY <2>2, <2>3, <2>4
  <1>7. ASSUME NEW e, e \in Range(s) PROVE e \in S
    BY <1>3, <1>5, <1>7 DEF Range
  <1>8. ASSUME NEW e \in S PROVE e \in Range(s)
    <2>1. PICK i \in 1 .. n : i = Cardinality(UpTo(S, e))
      BY <1>1, NumbersHaveRanks
    <2>2. s[i] \in S /\ Cardinality(UpTo(S, s[i])) = i
      BY <1>3
    <2>3. s[i] < e => Cardinality(UpTo(S, s[i])) < Cardinality(UpTo(S, e))
      BY <2>2, NumbersHaveRanks
    <2>4. e < s[i] => Cardinality(UpTo(S, e)) < Cardinality(UpTo(S, s[i]))
      BY <2>2, NumbersHaveRanks
    <2>5. s[i] \in Nat /\ e \in Nat
      BY <2>2
    <2>6. s[i] = e
      BY <2>1, <2>2, <2>3, <2>4, <2>5
    <2> QED
      BY <1>5, <2>6 DEF Range
  <1> QED
    BY <1>5, <1>6, <1>7, <1>8 DEF s

(* A set of numbers that is not empty and finite has a largest one.        *)
LEMMA LargestNumber ==
  ASSUME NEW S \in SUBSET Nat, IsFiniteSet(S), S # {}
  PROVE  \E e \in S : \A f \in S : f <= e
  <1>1. PICK n \in Nat : n = Cardinality(S)
    BY FS_CardinalityType
  <1>2. n # 0
    BY <1>1, FS_EmptySet
  <1>3. PICK e \in S : Cardinality(UpTo(S, e)) = n
    BY <1>1, <1>2, EveryRankIsTaken
  <1>4. ASSUME NEW f \in S PROVE f <= e
    <2>1. Cardinality(UpTo(S, f)) \in 1 .. n
      BY <1>1, NumbersHaveRanks
    <2>2. e < f => Cardinality(UpTo(S, e)) < Cardinality(UpTo(S, f))
      BY NumbersHaveRanks
    <2> QED
      BY <1>3, <2>1, <2>2
  <1> QED
    BY <1>4

(* What is newer than one of the newest is one of the newest.              *)
LEMMA NewestAreLast ==
  ASSUME NEW S \in SUBSET Nat, IsFiniteSet(S), NEW n \in Nat,
         NEW e \in Newest(S, n), NEW f \in S, e < f
  PROVE  f \in Newest(S, n)
  <1> DEFINE Above(g) == {h \in S : h > g}
  <1>1. \A g : g \in Newest(S, n) <=> g \in S /\ Cardinality(Above(g)) < n
    BY DEF Newest
  <1>2. Above(f) \subseteq Above(e)
    <2>1. e \in Nat /\ \A g \in S : g \in Nat
      BY <1>1
    <2>2. \A g \in S : g > f => g > e
      BY <2>1
    <2> QED
      BY <2>2
  <1>3. Above(e) \subseteq S
    OBVIOUS
  <1> HIDE DEF Above
  <1>4. IsFiniteSet(Above(e))
    BY <1>3, FS_Subset
  <1>5. IsFiniteSet(Above(f)) /\ Cardinality(Above(f)) <= Cardinality(Above(e))
    BY <1>2, <1>4, FS_Subset
  <1>6. Cardinality(Above(e)) \in Nat /\ Cardinality(Above(f)) \in Nat
    BY <1>4, <1>5, FS_CardinalityType
  <1> QED
    BY <1>1, <1>5, <1>6

(* The event e of the timeline tl is a message.                            *)
IsMessage(e, tl) == e \in 1 .. Len(tl) /\ tl[e].kind = "message"

(* Types.                                                                  *)
Row == [room : Rooms, kind : {"message", "member"}, at : Nat, content : Contents \cup {None}]

TimelineOK(tl) ==
  /\ tl \in Seq(Row) /\ Len(tl) <= MaxEvents
  /\ \A e \in 1 .. Len(tl) : tl[e].kind = "message" => tl[e].content \in Contents /\ tl[e].at \in e .. e + Skew

Answers == {"unknown", "group", "direct"}

SyncerRows ==
  [at : {"waiting", "ready", "filling", "handling"}, since : Nat \cup {None}, next : Nat, todo : SUBSET Rooms,
   state : [Rooms -> SUBSET Messages], window : [Rooms -> Seq(Nat)], queue : Seq(Nat), tries : Nat,
   dms : [Rooms -> Answers], stopping : BOOLEAN, asked : {None} \cup (Rooms \X Answers)]

(* What follows up to one number has been settled; and what precedes a     *)
(* settled message in its room is settled.                                 *)
Behind(n, tl, ft) == \A e \in 1 .. Len(tl) : tl[e].kind = "message" /\ e <= n => ft[e] # "none"

InTurn(tl, ft) ==
  \A e, m \in 1 .. Len(tl) :
    tl[e].kind = "message" /\ tl[m].kind = "message" /\ tl[e].room = tl[m].room /\ e < m /\ ft[m] # "none" => ft[e] # "none"

(* The response that the process P holds, with what has to be fetched.     *)
EventsOf(tl, r, from, to) == {e \in (from + 1) .. to : tl[e].room = r}
GapOf(P, tl, r) == EventsOf(tl, r, P.since, P.next)
ToFetch(P, tl, r) == {e \in GapOf(P, tl, r) : e \notin Newest(GapOf(P, tl, r), Window) /\ tl[e].kind = "message"}

WindowsOK(P, tl) == \A r \in Rooms : Ascending(P.window[r]) /\ Range(P.window[r]) \subseteq EventsOf(tl, r, 0, P.next)

StatesOK(P, tl) == \A r \in Rooms : \A e \in P.state[r] : e \in EventsOf(tl, r, 0, P.next) /\ tl[e].kind # "message"

QueueOK(P, tl) ==
  /\ \A e \in Range(P.queue) : e \in 1 .. P.next /\ P.window[tl[e].room] = <<>>
  /\ \A i, j \in 1 .. Len(P.queue) :
       i < j /\ tl[P.queue[i]].kind = "message" /\ tl[P.queue[j]].kind = "message" => P.queue[i] < P.queue[j]

(* No message up to the place where the response ends can be forgotten.    *)
Covered(P, tl, ft) ==
  \A m \in 1 .. P.next : tl[m].kind = "message" /\ ft[m] = "none" =>
    \/ m \in Range(P.queue) \/ m \in Range(P.window[tl[m].room])
    \/ tl[m].room \in P.todo /\ m \in ToFetch(P, tl, tl[m].room)

Sound(P, tl, ft) ==
  /\ P.since # None => P.since <= Len(tl) /\ Behind(P.since, tl, ft)
  /\ P.next <= Len(tl)
  /\ P.at \in {"waiting", "ready"} => P.todo = {} /\ \A r \in Rooms : P.state[r] = {} /\ P.window[r] = <<>>
  /\ P.at # "handling" => P.queue = <<>>
  /\ P.at = "handling" => P.todo = {}
  /\ \A r \in P.todo : P.since # None /\ P.window[r] = InOrder(Newest(GapOf(P, tl, r), Window))
  /\ WindowsOK(P, tl) /\ StatesOK(P, tl) /\ QueueOK(P, tl)
  /\ P.at \in {"filling", "handling"} => Covered(P, tl, ft)

-----------------------------------------------------------------------------
MixOK ==
  /\ {"rooms", "contents", "ahead"} \subseteq DOMAIN left
  /\ left.rooms \subseteq Rooms /\ Alphabets[left.contents] \subseteq Contents /\ left.ahead \in 0 .. Skew

FateOK ==
  /\ fate \in [Messages -> Fates]
  /\ \A e \in Messages : fate[e] # "none" => IsMessage(e, timeline)

TokenOK == token # None => token \in 0 .. Len(timeline) /\ Behind(token, timeline, fate)

SyncInv ==
  /\ TimelineOK(timeline) /\ MixOK /\ FateOK
  /\ bot \in [Syncers -> SyncerRows]
  /\ InTurn(timeline, fate) /\ TokenOK
  /\ \A b \in Syncers : ~ bot[b].stopping => Sound(bot[b], timeline, fate)

(* What became of a message, and what Core has of it.                      *)
ContentInv ==
  /\ DOMAIN core = Messages
  /\ \A e \in 1 .. Len(timeline) : timeline[e].kind = "message" =>
       /\ fate[e] = "stored" => Said(timeline[e].content) \subseteq Kept(e)
       /\ fate[e] = "nothing" => Said(timeline[e].content) = {}

-----------------------------------------------------------------------------
(* An event has a room, a kind and a time.                                 *)
LEMMA TimelineFacts ==
  ASSUME NEW tl, TimelineOK(tl), NEW e \in 1 .. Len(tl)
  PROVE  tl[e] \in Row /\ tl[e].room \in Rooms /\ Len(tl) \in Nat
  <1>1. tl \in Seq(Row) /\ Len(tl) \in Nat
    BY DEF TimelineOK
  <1>2. tl[e] \in Row
    BY <1>1
  <1> QED
    BY <1>1, <1>2 DEF Row

(* More events at the end of the timeline.                                 *)
LEMMA LongerIsSound ==
  ASSUME NEW tl, TimelineOK(tl), NEW x \in Row, NEW ft, NEW P \in SyncerRows, Sound(P, tl, ft)
  PROVE  Sound(P, Append(tl, x), ft)
  <1> DEFINE tl2 == Append(tl, x)
  <1>1. tl \in Seq(Row) /\ Len(tl) \in Nat
    BY DEF TimelineOK
  <1>2. Len(tl2) = Len(tl) + 1 /\ \A e \in 1 .. Len(tl) : tl2[e] = tl[e]
    BY <1>1
  <1>3. P.next \in Nat /\ P.next <= Len(tl) /\ P.since \in Nat \cup {None} /\ P.todo \subseteq Rooms
    BY DEF Sound, SyncerRows
  <1> HIDE DEF tl2
  <1>4. \A e \in 1 .. P.next : tl2[e] = tl[e]
    BY <1>1, <1>2, <1>3
  <1>5. \A r, n : n \in Nat => EventsOf(tl2, r, n, P.next) = EventsOf(tl, r, n, P.next)
    BY <1>4, <1>3 DEF EventsOf
  <1>6. P.since # None => P.since <= Len(tl2) /\ Behind(P.since, tl2, ft)
    BY <1>1, <1>2, <1>3 DEF Sound, Behind
  <1>7. \A r \in P.todo : GapOf(P, tl2, r) = GapOf(P, tl, r)
    BY <1>3, <1>5 DEF GapOf, Sound
  <1>8. \A r \in P.todo : P.since # None /\ P.window[r] = InOrder(Newest(GapOf(P, tl2, r), Window))
    BY <1>7 DEF Sound
  <1>9. WindowsOK(P, tl2)
    BY <1>5 DEF Sound, WindowsOK
  <1>10. StatesOK(P, tl2)
    <2>1. \A r \in Rooms : \A e \in P.state[r] : e \in EventsOf(tl, r, 0, P.next) /\ tl[e].kind # "message"
      BY DEF Sound, StatesOK
    <2>2. \A r : \A e \in EventsOf(tl, r, 0, P.next) : e \in 1 .. P.next
      BY DEF EventsOf
    <2> QED
      BY <1>4, <1>5, <2>1, <2>2 DEF StatesOK
  <1>11. QueueOK(P, tl2)
    <2>1. \A e \in Range(P.queue) : e \in 1 .. P.next /\ P.window[tl[e].room] = <<>>
      BY DEF Sound, QueueOK
    <2>2. \A i \in 1 .. Len(P.queue) : P.queue[i] \in Range(P.queue)
      <3>1. P.queue \in Seq(Nat)
        BY DEF SyncerRows
      <3> QED
        BY <3>1 DEF Range
    <2>3. \A i \in 1 .. Len(P.queue) : tl2[P.queue[i]] = tl[P.queue[i]]
      BY <1>4, <2>1, <2>2
    <2>4. \A i, j \in 1 .. Len(P.queue) :
            i < j /\ tl2[P.queue[i]].kind = "message" /\ tl2[P.queue[j]].kind = "message" => P.queue[i] < P.queue[j]
      BY <2>3 DEF Sound, QueueOK
    <2> QED
      BY <1>4, <2>1, <2>4 DEF QueueOK
  <1>12. P.at \in {"filling", "handling"} => Covered(P, tl2, ft)
    <2> SUFFICES ASSUME Covered(P, tl, ft), NEW m \in 1 .. P.next, tl2[m].kind = "message", ft[m] = "none"
                 PROVE  \/ m \in Range(P.queue) \/ m \in Range(P.window[tl2[m].room])
                        \/ tl2[m].room \in P.todo /\ m \in ToFetch(P, tl2, tl2[m].room)
      BY DEF Sound, Covered
    <2>1. tl2[m] = tl[m]
      BY <1>4
    <2>2. \A r \in P.todo : m \in ToFetch(P, tl, r) => m \in ToFetch(P, tl2, r)
      BY <1>7, <2>1 DEF ToFetch
    <2> QED
      BY <2>1, <2>2 DEF Covered
  <1>13. P.next <= Len(tl2)
    BY <1>1, <1>2, <1>3
  <1>14. Sound(P, tl2, ft)
    BY <1>6, <1>8, <1>9, <1>10, <1>11, <1>12, <1>13 DEF Sound
  <1> QED
    BY <1>14 DEF tl2

(* More settled messages.                                                  *)
LEMMA MoreIsSound ==
  ASSUME NEW tl, NEW ft, NEW ft2, \A e \in 1 .. Len(tl) : ft[e] # "none" => ft2[e] # "none",
         Len(tl) \in Nat, NEW P \in SyncerRows, Sound(P, tl, ft)
  PROVE  Sound(P, tl, ft2)
  <1>1. P.since # None => P.since <= Len(tl) /\ Behind(P.since, tl, ft2)
    BY DEF Sound, Behind
  <1>2. P.at \in {"filling", "handling"} => Covered(P, tl, ft2)
    <2>1. P.next \in Nat /\ P.next <= Len(tl)
      BY DEF Sound, SyncerRows
    <2>2. \A m \in 1 .. P.next : ft2[m] = "none" => ft[m] = "none"
      BY <2>1
    <2> QED
      BY <2>2 DEF Sound, Covered
  <1> QED
    BY <1>1, <1>2 DEF Sound

(* The messages of S are settled, none before an earlier one of its room.  *)
Settles(S) ==
  /\ fate' \in [Messages -> Fates]
  /\ \A e \in Messages : fate'[e] # "none" <=> fate[e] # "none" \/ e \in S

Closed(S) ==
  \A m \in S :
    /\ m \in 1 .. Len(timeline) /\ timeline[m].kind = "message"
    /\ \A e \in 1 .. Len(timeline) :
         timeline[e].kind = "message" /\ timeline[e].room = timeline[m].room /\ e < m => fate[e] # "none" \/ e \in S

(* A step of the process b.                                                *)
ProcessStep(b) ==
  /\ timeline' = timeline /\ MixOK'
  /\ \E S \in SUBSET Messages : Settles(S) /\ Closed(S)
  /\ bot' \in [Syncers -> SyncerRows] /\ \A c \in Syncers \ {b} : bot'[c] = bot[c]
  /\ ~ bot'[b].stopping => Sound(bot'[b], timeline, fate')
  /\ token' = token \/ (token' \in 0 .. Len(timeline) /\ Behind(token', timeline, fate'))

(* Such a step keeps the invariant, whatever the other processes hold.     *)
LEMMA ProcessStepKeeps ==
  ASSUME MatrixConstants, SyncInv, NEW b \in Syncers, ProcessStep(b)
  PROVE  SyncInv'
  <1>1. PICK S \in SUBSET Messages : Settles(S) /\ Closed(S)
    BY DEF ProcessStep
  <1>2. timeline' = timeline /\ TimelineOK(timeline) /\ TimelineOK(timeline')
    BY DEF ProcessStep, SyncInv
  <1>3. Len(timeline) \in Nat /\ Len(timeline) <= MaxEvents /\ MaxEvents \in Nat
    BY <1>2 DEF TimelineOK, MatrixConstants
  <1>4. \A e \in 1 .. Len(timeline) : e \in Messages
    BY <1>3 DEF Messages
  <1>5. FateOK'
    BY <1>1, <1>2 DEF FateOK, SyncInv, Settles, Closed, IsMessage
  <1>6. \A e \in 1 .. Len(timeline) : fate[e] # "none" => fate'[e] # "none"
    BY <1>1, <1>4 DEF Settles
  <1>7. InTurn(timeline, fate')
    <2> SUFFICES ASSUME NEW e \in 1 .. Len(timeline), NEW m \in 1 .. Len(timeline),
                        timeline[e].kind = "message", timeline[m].kind = "message",
                        timeline[e].room = timeline[m].room, e < m, fate'[m] # "none"
                 PROVE  fate'[e] # "none"
      BY DEF InTurn
    <2>1. fate[m] # "none" \/ m \in S
      BY <1>1, <1>4 DEF Settles
    <2>2. CASE fate[m] # "none"
      <3>1. fate[e] # "none"
        BY <2>2 DEF SyncInv, InTurn
      <3> QED
        BY <1>6, <3>1
    <2>3. CASE m \in S
      <3>1. fate[e] # "none" \/ e \in S
        BY <1>1, <2>3 DEF Closed
      <3> QED
        BY <1>1, <1>4, <3>1 DEF Settles
    <2> QED
      BY <2>1, <2>2, <2>3
  <1>8. TokenOK'
    <2>1. CASE token' = token
      BY <1>2, <1>6, <2>1 DEF TokenOK, SyncInv, Behind
    <2>2. CASE token' \in 0 .. Len(timeline) /\ Behind(token', timeline, fate')
      BY <1>2, <2>2 DEF TokenOK
    <2> QED
      BY <2>1, <2>2 DEF ProcessStep
  <1>9. ASSUME NEW c \in Syncers, ~ bot'[c].stopping PROVE Sound(bot'[c], timeline, fate')
    <2>1. CASE c = b
      BY <1>9, <2>1 DEF ProcessStep
    <2>2. CASE c # b
      <3>1. bot'[c] = bot[c]
        BY <2>2 DEF ProcessStep
      <3>2. Sound(bot[c], timeline, fate) /\ bot[c] \in SyncerRows
        BY <1>9, <3>1 DEF SyncInv
      <3>3. Sound(bot[c], timeline, fate')
        BY <1>3, <1>6, <3>2, MoreIsSound
      <3> QED
        BY <3>1, <3>3
    <2> QED
      BY <2>1, <2>2
  <1>10. MixOK' /\ bot' \in [Syncers -> SyncerRows]
    BY DEF ProcessStep
  <1> QED
    BY <1>2, <1>5, <1>7, <1>8, <1>9, <1>10 DEF SyncInv

(* Spending an operation keeps what a behaviour has.                       *)
LEMMA SpendingKeepsMix ==
  ASSUME MixOK, NEW family \in {"message", "member", "crash", "term", "lock", "trouble", "refuse", "outbox"},
         left' = left \/ Spends(family)
  PROVE  MixOK'
  <1>1. CASE left' = left
    BY <1>1 DEF MixOK
  <1>2. CASE Spends(family)
    <2>1. left' = [left EXCEPT ![family] = @ - 1]
      BY <1>2 DEF Spends
    <2>2. DOMAIN left' = DOMAIN left /\ left'.rooms = left.rooms /\ left'.contents = left.contents /\ left'.ahead = left.ahead
      BY <2>1 DEF MixOK
    <2> QED
      BY <2>2 DEF MixOK
  <1> QED
    BY <1>1, <1>2

(* A step that settles nothing settles the messages of {}.                 *)
LEMMA NothingSettled ==
  ASSUME SyncInv, fate' = fate
  PROVE  \E S \in SUBSET Messages : Settles(S) /\ Closed(S)
  <1>1. Settles({}) /\ Closed({})
    BY DEF Settles, Closed, SyncInv, FateOK
  <1> QED
    BY <1>1

(* A process that waits has nothing to forget.                             *)
LEMMA WaitingIsSound ==
  ASSUME NEW tl, NEW ft, Len(tl) \in Nat
  PROVE  Idle \in SyncerRows /\ Sound(Idle, tl, ft)
  <1> DEFINE P == Idle
  <1>1. /\ P.at = "waiting" /\ P.since = None /\ P.next = 0 /\ P.todo = {} /\ P.queue = <<>> /\ P.stopping = FALSE
        /\ P.state = [r \in Rooms |-> {}] /\ P.window = [r \in Rooms |-> <<>>]
    BY DEF Idle
  <1>2. P \in SyncerRows
    BY DEF Idle, SyncerRows, Answers
  <1> HIDE DEF P
  <1>3. WindowsOK(P, tl)
    BY <1>1 DEF WindowsOK, Ascending, Range
  <1>4. StatesOK(P, tl)
    BY <1>1 DEF StatesOK
  <1>5. QueueOK(P, tl)
    BY <1>1 DEF QueueOK, Range
  <1>6. P \in SyncerRows /\ Sound(P, tl, ft)
    BY <1>1, <1>2, <1>3, <1>4, <1>5 DEF Sound
  <1> QED
    BY <1>6 DEF P

(* The same with a token.                                                  *)
LEMMA ReadyIsSound ==
  ASSUME NEW tl, NEW ft, Len(tl) \in Nat, NEW P \in SyncerRows, P.at = "ready", P.next = 0, P.todo = {}, P.queue = <<>>,
         P.state = [r \in Rooms |-> {}], P.window = [r \in Rooms |-> <<>>],
         P.since # None => P.since <= Len(tl) /\ Behind(P.since, tl, ft)
  PROVE  Sound(P, tl, ft)
  <1>3. WindowsOK(P, tl)
    BY DEF WindowsOK, Ascending, Range
  <1>4. StatesOK(P, tl)
    BY DEF StatesOK
  <1>5. QueueOK(P, tl)
    BY DEF QueueOK, Range
  <1> QED
    BY <1>3, <1>4, <1>5 DEF Sound

(* What is remembered of rooms, and how often was tried, is another thing. *)
SameWork(P, Q) ==
  /\ Q.at = P.at /\ Q.since = P.since /\ Q.next = P.next /\ Q.todo = P.todo
  /\ Q.state = P.state /\ Q.window = P.window /\ Q.queue = P.queue

(* A process that holds the same work is as sound.                         *)
LEMMA SameWorkIsSound ==
  ASSUME NEW tl, NEW ft, NEW P, NEW Q, SameWork(P, Q), Sound(P, tl, ft)
  PROVE  Sound(Q, tl, ft)
  <1>1. \A r : GapOf(P, tl, r) = GapOf(Q, tl, r)
    BY DEF GapOf, SameWork
  <1>2. \A r : ToFetch(P, tl, r) = ToFetch(Q, tl, r)
    BY <1>1 DEF ToFetch
  <1>3. WindowsOK(Q, tl) /\ StatesOK(Q, tl)
    BY DEF Sound, WindowsOK, StatesOK, SameWork
  <1>4. QueueOK(Q, tl)
    BY DEF Sound, QueueOK, SameWork
  <1>5. Covered(P, tl, ft) => Covered(Q, tl, ft)
    BY <1>2 DEF Covered, SameWork
  <1> QED
    BY <1>1, <1>3, <1>4, <1>5 DEF Sound, SameWork

(* What the invariant says of one process.                                 *)
LEMMA InvFacts ==
  ASSUME SyncInv, NEW b \in Syncers
  PROVE  /\ bot[b] \in SyncerRows /\ bot \in [Syncers -> SyncerRows]
         /\ Len(timeline) \in Nat /\ timeline \in Seq(Row)
         /\ ~ bot[b].stopping => Sound(bot[b], timeline, fate)
  BY DEF SyncInv, TimelineOK

(* Changes of a process that concern its memory of rooms, its tries and    *)
(* what it was asked.                                                      *)
LEMMA TriesType ==
  ASSUME NEW P \in SyncerRows, NEW n \in Nat
  PROVE  LET Q == [P EXCEPT !.tries = n]
         IN  Q \in SyncerRows /\ SameWork(P, Q) /\ Q.stopping = P.stopping
  BY DEF SyncerRows, SameWork

(* The members of rooms are known.                                         *)
LEMMA LookUpType ==
  ASSUME NEW P \in SyncerRows, NEW d \in [Rooms -> Answers]
  PROVE  LET Q == [P EXCEPT !.dms = d, !.tries = 0]
         IN  Q \in SyncerRows /\ SameWork(P, Q) /\ Q.stopping = P.stopping
  BY DEF SyncerRows, SameWork

(* The outbox waits for an answer.                                         *)
LEMMA AskedType ==
  ASSUME NEW P \in SyncerRows, NEW a \in Rooms \X Answers
  PROVE  LET Q == [P EXCEPT !.asked = a]
         IN  Q \in SyncerRows /\ SameWork(P, Q) /\ Q.stopping = P.stopping
  BY DEF SyncerRows, SameWork

(* It has the answer.                                                      *)
LEMMA RememberedType ==
  ASSUME NEW P \in SyncerRows, NEW d \in [Rooms -> Answers]
  PROVE  LET Q == [P EXCEPT !.dms = d, !.asked = None]
         IN  Q \in SyncerRows /\ SameWork(P, Q) /\ Q.stopping = P.stopping
  BY DEF SyncerRows, SameWork

(* The process is to end.                                                  *)
LEMMA StoppingType ==
  ASSUME NEW P \in SyncerRows
  PROVE  LET Q == [P EXCEPT !.stopping = TRUE] IN Q \in SyncerRows /\ Q.stopping
  BY DEF SyncerRows

(* A process that begins, with a token.                                    *)
LEMMA ReadyType ==
  ASSUME NEW t \in Nat \cup {None}
  PROVE  LET Q == [Idle EXCEPT !.at = "ready", !.since = t]
         IN  /\ Q \in SyncerRows /\ Q.at = "ready" /\ Q.since = t /\ Q.next = 0 /\ Q.todo = {} /\ Q.queue = <<>>
             /\ Q.state = [r \in Rooms |-> {}] /\ Q.window = [r \in Rooms |-> <<>>]
  <1>1. Idle \in SyncerRows
    BY DEF Idle, SyncerRows, Answers
  <1>2. /\ Idle.next = 0 /\ Idle.todo = {} /\ Idle.queue = <<>>
        /\ Idle.state = [r \in Rooms |-> {}] /\ Idle.window = [r \in Rooms |-> <<>>]
    BY DEF Idle
  <1>3. ASSUME NEW P \in SyncerRows
        PROVE  LET Q == [P EXCEPT !.at = "ready", !.since = t]
               IN  /\ Q \in SyncerRows /\ Q.at = "ready" /\ Q.since = t /\ Q.next = P.next /\ Q.todo = P.todo
                   /\ Q.queue = P.queue /\ Q.state = P.state /\ Q.window = P.window
    BY DEF SyncerRows
  <1> QED
    BY <1>1, <1>2, <1>3

(* A process that ends leaves nothing behind.                              *)
LEMMA ExitStep ==
  ASSUME SyncInv, NEW b \in Syncers, Exit(b), MixOK', timeline' = timeline, fate' = fate, token' = token
  PROVE  ProcessStep(b)
  <1>1. Idle \in SyncerRows /\ Sound(Idle, timeline, fate')
    BY InvFacts, WaitingIsSound
  <1>2. bot' = [bot EXCEPT ![b] = Idle]
    BY DEF Exit
  <1>3. bot' \in [Syncers -> SyncerRows] /\ bot'[b] = Idle /\ \A c \in Syncers \ {b} : bot'[c] = bot[c]
    BY <1>1, <1>2, InvFacts
  <1> QED
    BY <1>1, <1>3, NothingSettled DEF ProcessStep

(* So does one that only remembers or tries something.                     *)
LEMMA RememberingStep ==
  ASSUME SyncInv, NEW b \in Syncers, NEW Q \in SyncerRows, SameWork(bot[b], Q), Q.stopping = bot[b].stopping,
         bot' = [bot EXCEPT ![b] = Q], MixOK', timeline' = timeline, fate' = fate, token' = token
  PROVE  ProcessStep(b)
  <1>1. bot' \in [Syncers -> SyncerRows] /\ bot'[b] = Q /\ \A c \in Syncers \ {b} : bot'[c] = bot[c]
    BY InvFacts
  <1>2. ~ Q.stopping => Sound(Q, timeline, fate')
    BY InvFacts, SameWorkIsSound
  <1> QED
    BY <1>1, <1>2, NothingSettled DEF ProcessStep

(* Whoever gets the lock starts from the saved token (leader.go, bot.go).  *)
LEMMA AcquireStep ==
  ASSUME SyncInv, NEW b \in Syncers, Acquire(b)
  PROVE  ProcessStep(b)
  <1> DEFINE Q == [Idle EXCEPT !.at = "ready", !.since = token]
  <1>1. token \in Nat \cup {None}
    <2>1. Len(timeline) \in Nat
      BY InvFacts
    <2> QED
      BY <2>1 DEF SyncInv, TokenOK
  <1>2. /\ Q \in SyncerRows /\ Q.at = "ready" /\ Q.since = token /\ Q.next = 0 /\ Q.todo = {} /\ Q.queue = <<>>
        /\ Q.state = [r \in Rooms |-> {}] /\ Q.window = [r \in Rooms |-> <<>>]
    BY <1>1, ReadyType
  <1>3. bot' = [bot EXCEPT ![b] = Q] /\ UNCHANGED <<timeline, fate, token, left>>
    BY DEF Acquire
  <1> HIDE DEF Q
  <1>4. Len(timeline) \in Nat /\ bot \in [Syncers -> SyncerRows]
    BY InvFacts
  <1>5. token # None => token <= Len(timeline) /\ Behind(token, timeline, fate)
    BY <1>4 DEF SyncInv, TokenOK
  <1>6. Sound(Q, timeline, fate)
    BY <1>2, <1>4, <1>5, ReadyIsSound
  <1>7. bot' \in [Syncers -> SyncerRows] /\ bot'[b] = Q /\ \A c \in Syncers \ {b} : bot'[c] = bot[c]
    BY <1>2, <1>3, <1>4
  <1>8. MixOK'
    BY <1>3 DEF SyncInv, MixOK
  <1> QED
    BY <1>3, <1>6, <1>7, <1>8, NothingSettled DEF ProcessStep

(* A crash, in whatever step.                                              *)
LEMMA CrashStep ==
  ASSUME SyncInv, NEW b \in Syncers, Crash(b)
  PROVE  ProcessStep(b)
  <1>1. MixOK'
    BY SpendingKeepsMix DEF Crash, SyncInv
  <1> QED
    BY <1>1, ExitStep DEF Crash

(* A process that ends because it was asked to, or has lost the lock.      *)
LEMMA StopStep ==
  ASSUME SyncInv, NEW b \in Syncers, Stop(b) \/ Notice(b)
  PROVE  ProcessStep(b)
  <1>1. MixOK'
    BY DEF Stop, Notice, SyncInv, MixOK
  <1> QED
    BY <1>1, ExitStep DEF Stop, Notice

(* A process that is asked to end goes on as far as it can.                *)
LEMMA TerminateStep ==
  ASSUME SyncInv, NEW b \in Syncers, Terminate(b)
  PROVE  ProcessStep(b)
  <1>1. MixOK'
    BY SpendingKeepsMix DEF Terminate, SyncInv
  <1>2. bot' = [bot EXCEPT ![b].stopping = TRUE] /\ UNCHANGED <<timeline, fate, token>>
    BY DEF Terminate
  <1> DEFINE Q == [bot[b] EXCEPT !.stopping = TRUE]
  <1>3. Q \in SyncerRows /\ Q.stopping
    BY InvFacts, StoppingType
  <1>4. bot' = [bot EXCEPT ![b] = Q]
    BY <1>2
  <1> HIDE DEF Q
  <1>5. bot' \in [Syncers -> SyncerRows] /\ bot'[b].stopping = TRUE /\ \A c \in Syncers \ {b} : bot'[c] = bot[c]
    BY <1>3, <1>4, InvFacts
  <1> QED
    BY <1>1, <1>2, <1>5, NothingSettled DEF ProcessStep

(* The members of a room are asked for (rooms.go).                         *)
LEMMA LookUpStep ==
  ASSUME SyncInv, NEW b \in Syncers, NEW r \in Rooms, LookUp(b, r)
  PROVE  ProcessStep(b)
  <1> DEFINE Q == [bot[b] EXCEPT !.dms = [@ EXCEPT ![r] = JoinedMembers(r)], !.tries = 0]
  <1>0. [bot[b].dms EXCEPT ![r] = JoinedMembers(r)] \in [Rooms -> Answers]
    BY InvFacts DEF SyncerRows, JoinedMembers, Answers
  <1>1. Q \in SyncerRows /\ SameWork(bot[b], Q) /\ Q.stopping = bot[b].stopping
    BY <1>0, InvFacts, LookUpType
  <1>2. bot' = [bot EXCEPT ![b] = Q] /\ UNCHANGED <<timeline, fate, token, left>>
    BY InvFacts DEF LookUp, SyncerRows
  <1>3. MixOK'
    BY <1>2 DEF SyncInv, MixOK
  <1> QED
    BY <1>1, <1>2, <1>3, RememberingStep

(* A failure is counted.                                                   *)
LEMMA OneMoreTry ==
  ASSUME SyncInv, NEW b \in Syncers, bot' = [bot EXCEPT ![b].tries = @ + 1],
         MixOK', timeline' = timeline, fate' = fate, token' = token
  PROVE  ProcessStep(b)
  <1> DEFINE Q == [bot[b] EXCEPT !.tries = @ + 1]
  <1>0. bot[b].tries + 1 \in Nat
    BY InvFacts DEF SyncerRows
  <1>1. Q \in SyncerRows /\ SameWork(bot[b], Q) /\ Q.stopping = bot[b].stopping
    BY <1>0, InvFacts, TriesType
  <1>2. bot' = [bot EXCEPT ![b] = Q]
    BY InvFacts DEF SyncerRows
  <1> QED
    BY <1>1, <1>2, RememberingStep

(* The homeserver does not answer: another try, or the process ends before *)
(* the token is saved.                                                     *)
LEMMA LookUpFailsStep ==
  ASSUME SyncInv, NEW b \in Syncers, NEW r \in Rooms, LookUpFails(b, r) \/ FillFails(b, r)
  PROVE  ProcessStep(b)
  <1>1. Spends("trouble") /\ UNCHANGED <<timeline, fate, token>>
    BY DEF LookUpFails, FillFails
  <1>2. MixOK'
    BY <1>1, SpendingKeepsMix DEF SyncInv
  <1>3. Exit(b) \/ bot' = [bot EXCEPT ![b].tries = @ + 1]
    BY DEF LookUpFails, FillFails
  <1> QED
    BY <1>1, <1>2, <1>3, ExitStep, OneMoreTry

(* An outage is waited out.                                                *)
LEMMA PostUnansweredStep ==
  ASSUME SyncInv, NEW b \in Syncers, PostUnanswered(b)
  PROVE  ProcessStep(b)
  <1> DEFINE Q == [bot[b] EXCEPT !.tries = 0]
  <1>1. Q \in SyncerRows /\ SameWork(bot[b], Q) /\ Q.stopping = bot[b].stopping
    BY InvFacts, TriesType
  <1>2. bot' = [bot EXCEPT ![b] = Q] /\ UNCHANGED <<timeline, fate, token>>
    BY InvFacts DEF SyncerRows, PostUnanswered
  <1>3. MixOK'
    BY SpendingKeepsMix DEF SyncInv, PostUnanswered
  <1> QED
    BY <1>1, <1>2, <1>3, RememberingStep

(* The outbox asks who is in a room, and remembers the answer.             *)
LEMMA OutboxAsksStep ==
  ASSUME SyncInv, NEW b \in Syncers, NEW r \in Rooms, OutboxAsks(b, r)
  PROVE  ProcessStep(b)
  <1> DEFINE Q == [bot[b] EXCEPT !.asked = <<r, JoinedMembers(r)>>]
  <1>0. <<r, JoinedMembers(r)>> \in Rooms \X Answers
    BY DEF JoinedMembers, Answers
  <1>1. Q \in SyncerRows /\ SameWork(bot[b], Q) /\ Q.stopping = bot[b].stopping
    BY <1>0, InvFacts, AskedType
  <1>2. bot' = [bot EXCEPT ![b] = Q] /\ UNCHANGED <<timeline, fate, token>>
    BY InvFacts DEF OutboxAsks, SyncerRows
  <1>3. MixOK'
    BY SpendingKeepsMix DEF SyncInv, OutboxAsks
  <1> QED
    BY <1>1, <1>2, <1>3, RememberingStep

(* The outbox remembers what it was told.                                  *)
LEMMA OutboxRemembersStep ==
  ASSUME SyncInv, NEW b \in Syncers, OutboxRemembers(b)
  PROVE  ProcessStep(b)
  <1> DEFINE Q == [bot[b] EXCEPT !.dms = [@ EXCEPT ![bot[b].asked[1]] = bot[b].asked[2]], !.asked = None]
  <1>1. bot[b].asked \in Rooms \X Answers
    BY InvFacts DEF OutboxRemembers, SyncerRows
  <1>2. Q \in SyncerRows /\ SameWork(bot[b], Q) /\ Q.stopping = bot[b].stopping
    <2>1. [bot[b].dms EXCEPT ![bot[b].asked[1]] = bot[b].asked[2]] \in [Rooms -> Answers]
      BY <1>1, InvFacts DEF SyncerRows
    <2> QED
      BY <2>1, InvFacts, RememberedType
  <1>3. bot' = [bot EXCEPT ![b] = Q] /\ UNCHANGED <<timeline, fate, token, left>>
    BY InvFacts DEF OutboxRemembers, SyncerRows
  <1>4. MixOK'
    BY <1>3 DEF SyncInv, MixOK
  <1> QED
    BY <1>2, <1>3, <1>4, RememberingStep

(* A process that is being stopped promises nothing.                       *)
LEMMA StoppedStep ==
  ASSUME SyncInv, NEW b \in Syncers, NEW Q \in SyncerRows, Q.stopping, bot' = [bot EXCEPT ![b] = Q],
         UNCHANGED <<timeline, fate, token, left>>
  PROVE  ProcessStep(b)
  <1>1. bot' \in [Syncers -> SyncerRows] /\ bot'[b] = Q /\ \A c \in Syncers \ {b} : bot'[c] = bot[c]
    BY InvFacts
  <1>2. MixOK'
    BY DEF SyncInv, MixOK
  <1> QED
    BY <1>1, <1>2, NothingSettled DEF ProcessStep

(* The events of a room between two places are finitely many numbers.      *)
LEMMA EventsAreFinite ==
  ASSUME NEW tl, NEW r, NEW from \in Nat, NEW to \in Nat
  PROVE  EventsOf(tl, r, from, to) \in SUBSET Nat /\ IsFiniteSet(EventsOf(tl, r, from, to))
  <1>1. EventsOf(tl, r, from, to) \in SUBSET ((from + 1) .. to)
    BY DEF EventsOf
  <1>2. IsFiniteSet((from + 1) .. to)
    BY FS_Interval
  <1>3. (from + 1) .. to \subseteq Nat
    OBVIOUS
  <1> QED
    BY <1>1, <1>2, <1>3, FS_Subset

(* The newest of a finite set are some of it.                              *)
LEMMA NewestType ==
  ASSUME NEW S \in SUBSET Nat, IsFiniteSet(S), NEW n
  PROVE  Newest(S, n) \in SUBSET S /\ Newest(S, n) \in SUBSET Nat /\ IsFiniteSet(Newest(S, n))
  <1>1. Newest(S, n) \in SUBSET S
    BY DEF Newest
  <1> QED
    BY <1>1, FS_Subset

(* Whatever becomes of messages settles them.                              *)
LEMMA BecomesSettles ==
  ASSUME SyncInv, NEW S, NEW what \in Fates, what # "none", Becomes(S, what)
  PROVE  Settles(S)
  <1>1. fate \in [Messages -> Fates] /\ "stored" \in Fates
    BY DEF SyncInv, FateOK, Fates
  <1>2. fate' = [e \in Messages |-> IF e \in S /\ fate[e] # "stored" /\ (what = "stored" \/ fate[e] = "none") THEN what ELSE fate[e]]
    BY DEF Becomes
  <1>3. fate' \in [Messages -> Fates]
    BY <1>1, <1>2
  <1>4. ASSUME NEW e \in Messages PROVE fate'[e] # "none" <=> fate[e] # "none" \/ e \in S
    BY <1>1, <1>2
  <1> QED
    BY <1>3, <1>4 DEF Settles

(* The answer of the homeserver: what it leaves out is to be fetched, or   *)
(* is the history from before the first sync (backfill.go).                *)
LEMMA SyncStep ==
  ASSUME MatrixConstants, SyncInv, NEW b \in Syncers, Sync(b)
  PROVE  ProcessStep(b)
  <1> DEFINE first == bot[b].since = None
             from == IF first THEN 0 ELSE bot[b].since
             n == Len(timeline)
             All(r) == EventsOf(timeline, r, from, n)
             Out(r) == All(r) \ Newest(All(r), Window)
             Kind(S) == {e \in S : timeline[e].kind = "message"}
             T == IF first THEN {} ELSE {r \in Rooms : Out(r) # {}}
             s == [r \in Rooms |-> Newest(Out(r) \ Kind(Out(r)), 1)]
             w == [r \in Rooms |-> InOrder(Newest(All(r), Window))]
             Q == [bot[b] EXCEPT !.at = "filling", !.next = n, !.tries = 0, !.todo = T, !.state = s, !.window = w]
             H == UNION {Kind(Out(r)) : r \in Rooms}
  <1>1. /\ bot[b].at = "ready" /\ ~ bot[b].stopping
        /\ bot' = [bot EXCEPT ![b] = Q] /\ UNCHANGED <<timeline, token, left>>
        /\ IF first THEN Becomes(H, "history") ELSE fate' = fate
    BY DEF Sync, Between, EventsOf, Before, Written, At, Alive, Running
  <1>2. /\ bot[b] \in SyncerRows /\ n \in Nat /\ Sound(bot[b], timeline, fate) /\ from \in Nat
        /\ bot[b].since \in Nat \cup {None} /\ bot[b].queue = <<>> /\ Window \in Nat
        /\ bot \in [Syncers -> SyncerRows]
    <2>1. bot[b] \in SyncerRows /\ Sound(bot[b], timeline, fate) /\ n \in Nat /\ bot \in [Syncers -> SyncerRows]
      BY <1>1, InvFacts
    <2>2. bot[b].since \in Nat \cup {None}
      BY <2>1 DEF SyncerRows
    <2> QED
      BY <1>1, <2>1, <2>2 DEF Sound, MatrixConstants
  <1>3. ASSUME NEW r \in Rooms
        PROVE  /\ All(r) \in SUBSET Nat /\ IsFiniteSet(All(r)) /\ All(r) \subseteq EventsOf(timeline, r, 0, n)
               /\ Newest(All(r), Window) \in SUBSET Nat /\ Newest(All(r), Window) \in SUBSET All(r)
               /\ IsFiniteSet(Newest(All(r), Window))
               /\ Out(r) \subseteq All(r)
    <2>1. All(r) \in SUBSET Nat /\ IsFiniteSet(All(r))
      BY <1>2, EventsAreFinite
    <2>2. All(r) \subseteq EventsOf(timeline, r, 0, n)
      <3> HIDE DEF from, n
      <3> QED
        BY <1>2 DEF EventsOf
    <2> HIDE DEF All
    <2> QED
      BY <2>1, <2>2, NewestType
  <1>4. ASSUME NEW r \in Rooms
        PROVE  /\ w[r] \in Seq(Nat) /\ Ascending(w[r]) /\ Range(w[r]) = Newest(All(r), Window)
               /\ s[r] \in SUBSET Messages
               /\ \A e \in s[r] : e \in Out(r) /\ timeline[e].kind # "message"
    <2>1. w[r] = InOrder(Newest(All(r), Window)) /\ s[r] = Newest(Out(r) \ Kind(Out(r)), 1)
      OBVIOUS
    <2>2. w[r] \in Seq(Newest(All(r), Window)) /\ Ascending(w[r]) /\ Range(w[r]) = Newest(All(r), Window)
      <3> HIDE DEF All, w
      <3> QED
        BY <1>3, <2>1, InOrderLists
    <2>3. w[r] \in Seq(Nat)
      <3> HIDE DEF All, w
      <3> QED
        BY <1>3, <2>2, SeqMonotonic
    <2>4. s[r] \subseteq Out(r) \ Kind(Out(r))
      <3> HIDE DEF Out, s, Kind
      <3> QED
        BY <2>1 DEF Newest
    <2>5. s[r] \in SUBSET Messages
      <3>1. \A e \in EventsOf(timeline, r, 0, n) : e \in 1 .. n
        BY DEF EventsOf
      <3>2. n <= MaxEvents /\ MaxEvents \in Nat
        BY DEF SyncInv, TimelineOK, MatrixConstants
      <3> HIDE DEF s, All, Kind, n
      <3>3. \A e \in 1 .. n : e \in Messages
        BY <1>2, <3>2 DEF Messages
      <3> QED
        BY <1>3, <2>4, <3>1, <3>3
    <2>6. \A e \in s[r] : e \in Out(r) /\ timeline[e].kind # "message"
      <3> HIDE DEF s, Out
      <3> QED
        BY <2>4
    <2> HIDE DEF s, w, Out, All
    <2> QED
      BY <2>2, <2>3, <2>5, <2>6
  <1>5. w \in [Rooms -> Seq(Nat)] /\ s \in [Rooms -> SUBSET Messages] /\ T \in SUBSET Rooms
    <2>1. w = [r \in Rooms |-> w[r]] /\ s = [r \in Rooms |-> s[r]] /\ T \in SUBSET Rooms
      OBVIOUS
    <2> HIDE DEF s, w, T
    <2> QED
      BY <1>4, <2>1
  <1>6. /\ Q \in SyncerRows /\ Q.at = "filling" /\ Q.next = n /\ Q.todo = T /\ Q.state = s /\ Q.window = w
        /\ Q.since = bot[b].since /\ Q.queue = <<>> /\ Q.stopping = bot[b].stopping
    <2>1. bot[b] \in SyncerRows /\ n \in Nat /\ bot[b].queue = <<>>
      BY <1>2
    <2> HIDE DEF s, w, T, n
    <2>2. /\ Q \in SyncerRows /\ Q.at = "filling" /\ Q.next = n /\ Q.todo = T /\ Q.state = s /\ Q.window = w
          /\ Q.since = bot[b].since /\ Q.queue = bot[b].queue /\ Q.stopping = bot[b].stopping
      <3>1. Q = [bot[b] EXCEPT !.at = "filling", !.next = n, !.tries = 0, !.todo = T, !.state = s, !.window = w]
        OBVIOUS
      <3> HIDE DEF Q
      <3> QED
        BY <1>5, <2>1, <3>1 DEF SyncerRows
    <2> HIDE DEF Q
    <2> QED
      BY <2>1, <2>2
  <1>7. first => Settles(H) /\ Closed(H)
    <2> SUFFICES ASSUME first PROVE Settles(H) /\ Closed(H)
      OBVIOUS
    <2>1. Settles(H)
      <3> HIDE DEF H
      <3>1. "history" \in Fates /\ "history" # "none"
        BY DEF Fates
      <3> QED
        BY <1>1, <3>1, BecomesSettles
    <2>2. ASSUME NEW m \in H
          PROVE  /\ m \in 1 .. Len(timeline) /\ timeline[m].kind = "message"
                 /\ \A e \in 1 .. Len(timeline) :
                      timeline[e].kind = "message" /\ timeline[e].room = timeline[m].room /\ e < m => e \in H
      <3>1. PICK r \in Rooms : m \in Out(r) /\ timeline[m].kind = "message"
        OBVIOUS
      <3>2. m \in All(r) /\ m \notin Newest(All(r), Window)
        BY <3>1
      <3>3. m \in 1 .. n /\ timeline[m].room = r
        BY <3>2 DEF EventsOf
      <3>4. ASSUME NEW e \in 1 .. n, timeline[e].kind = "message", timeline[e].room = timeline[m].room, e < m
            PROVE  e \in H
        <4>1. e \in All(r)
          BY <1>2, <3>3, <3>4 DEF EventsOf
        <4>2. e \notin Newest(All(r), Window)
          <5> HIDE DEF All
          <5> QED
            BY <1>2, <1>3, <3>2, <3>4, NewestAreLast
        <4>3. e \in Kind(Out(r))
          <5> HIDE DEF All
          <5> QED
            BY <3>4, <4>1, <4>2
        <4> HIDE DEF Out, Kind
        <4> QED
          BY <4>3
      <3> HIDE DEF H
      <3> QED
        BY <3>1, <3>3, <3>4
    <2> HIDE DEF H
    <2> QED
      BY <2>1, <2>2 DEF Closed
  <1>8. \E S \in SUBSET Messages : Settles(S) /\ Closed(S)
    <2>1. CASE first
      <3>1. \A m \in H : m \in 1 .. n
        <4> HIDE DEF H
        <4> QED
          BY <1>7, <2>1 DEF Closed
      <3>2. H \in SUBSET Messages
        <4> HIDE DEF H, n
        <4>1. n <= MaxEvents /\ MaxEvents \in Nat
          BY DEF SyncInv, TimelineOK, MatrixConstants, n
        <4> QED
          BY <1>2, <3>1, <4>1 DEF Messages
      <3> HIDE DEF H
      <3> QED
        BY <1>7, <2>1, <3>2
    <2>2. CASE ~ first
      BY <1>1, <2>2, NothingSettled
    <2> QED
      BY <2>1, <2>2
  <1>9. \A e \in Messages : fate[e] # "none" => fate'[e] # "none"
    <2> HIDE DEF H
    <2> QED
      BY <1>8 DEF Settles
  <1>10. 1 .. n \subseteq Messages
    BY <1>2 DEF Messages, SyncInv, TimelineOK, MatrixConstants
  <1> HIDE DEF Q, s, w, T
  <1>11. Q.since # None => Q.since <= Len(timeline) /\ Behind(Q.since, timeline, fate')
    <2>1. bot[b].since # None => bot[b].since <= Len(timeline) /\ Behind(bot[b].since, timeline, fate)
      BY <1>2 DEF Sound
    <2> QED
      BY <1>6, <1>9, <1>10, <2>1 DEF Behind
  <1>12. \A r \in Q.todo : Q.since # None /\ Q.window[r] = InOrder(Newest(GapOf(Q, timeline, r), Window))
    <2> SUFFICES ASSUME NEW r \in T PROVE ~ first /\ w[r] = InOrder(Newest(GapOf(Q, timeline, r), Window))
      BY <1>6
    <2>1. ~ first /\ r \in Rooms
      BY DEF T
    <2>2. GapOf(Q, timeline, r) = All(r)
      BY <1>6, <2>1 DEF GapOf
    <2>3. w[r] = InOrder(Newest(All(r), Window))
      BY <2>1 DEF w
    <2> QED
      BY <2>1, <2>2, <2>3
  <1>13. WindowsOK(Q, timeline)
    <2> SUFFICES ASSUME NEW r \in Rooms
                 PROVE  Ascending(w[r]) /\ Range(w[r]) \subseteq EventsOf(timeline, r, 0, n)
      BY <1>6 DEF WindowsOK
    <2> HIDE DEF All, n
    <2> QED
      BY <1>3, <1>4
  <1>14. StatesOK(Q, timeline)
    <2> SUFFICES ASSUME NEW r \in Rooms, NEW e \in s[r]
                 PROVE  e \in EventsOf(timeline, r, 0, n) /\ timeline[e].kind # "message"
      BY <1>6 DEF StatesOK
    <2> HIDE DEF All, n, Out
    <2> QED
      BY <1>3, <1>4
  <1>15. QueueOK(Q, timeline)
    BY <1>6 DEF QueueOK, Range
  <1>16. Covered(Q, timeline, fate')
    <2> SUFFICES ASSUME NEW m \in 1 .. n, timeline[m].kind = "message", fate'[m] = "none"
                 PROVE  \/ m \in Range(w[timeline[m].room])
                        \/ timeline[m].room \in T /\ m \in ToFetch(Q, timeline, timeline[m].room)
      BY <1>6 DEF Covered
    <2>1. PICK r \in Rooms : r = timeline[m].room
      BY TimelineFacts DEF SyncInv
    <2>2. m \in All(r)
      <3>1. CASE first
        BY <1>2, <2>1, <3>1 DEF EventsOf
      <3>2. CASE ~ first
        <4>1. ~ (m <= from)
          BY <1>6, <1>9, <1>10, <1>11, <3>2 DEF Behind
        <4> HIDE DEF from
        <4> QED
          BY <1>2, <2>1, <4>1 DEF EventsOf
      <3> QED
        BY <3>1, <3>2
    <2>3. CASE m \in Newest(All(r), Window)
      BY <1>4, <2>1, <2>3
    <2>4. CASE m \notin Newest(All(r), Window)
      <3>1. m \in Kind(Out(r))
        <4> HIDE DEF All
        <4> QED
          BY <2>2, <2>4
      <3>2. ~ first
        <4> SUFFICES ASSUME first PROVE FALSE
          OBVIOUS
        <4>1. m \in H
          <5> HIDE DEF Out, Kind
          <5> QED
            BY <3>1
        <4> HIDE DEF H
        <4> QED
          BY <1>7, <1>10, <4>1 DEF Settles
      <3>3. r \in T
        <4> HIDE DEF All
        <4> QED
          BY <3>1, <3>2 DEF T
      <3>4. GapOf(Q, timeline, r) = All(r)
        BY <1>6, <3>2 DEF GapOf
      <3>5. m \in ToFetch(Q, timeline, r)
        <4> HIDE DEF All
        <4> QED
          BY <2>2, <2>4, <3>4 DEF ToFetch
      <3> QED
        BY <2>1, <3>3, <3>5
    <2> QED
      BY <2>3, <2>4
  <1>17. Sound(Q, timeline, fate')
    <2>1. Q.next <= Len(timeline)
      BY <1>2, <1>6
    <2> QED
      BY <1>6, <1>11, <1>12, <1>13, <1>14, <1>15, <1>16, <2>1 DEF Sound
  <1>18. bot' \in [Syncers -> SyncerRows] /\ bot'[b] = Q /\ \A c \in Syncers \ {b} : bot'[c] = bot[c]
    BY <1>1, <1>2, <1>6
  <1>19. MixOK'
    BY <1>1 DEF SyncInv, MixOK
  <1> QED
    BY <1>1, <1>8, <1>17, <1>18, <1>19 DEF ProcessStep

(* A list in order before one that is later is in order.                   *)
LEMMA AscendingConcat ==
  ASSUME NEW s \in Seq(Nat), NEW t \in Seq(Nat), Ascending(s), Ascending(t),
         \A x \in Range(s), y \in Range(t) : x < y
  PROVE  s \o t \in Seq(Nat) /\ Ascending(s \o t) /\ Range(s \o t) = Range(s) \cup Range(t)
  <1>1. /\ s \o t \in Seq(Nat) /\ Len(s \o t) = Len(s) + Len(t) /\ Len(s) \in Nat /\ Len(t) \in Nat
        /\ \A i \in 1 .. Len(s) : (s \o t)[i] = s[i]
        /\ \A i \in (Len(s) + 1) .. (Len(s) + Len(t)) : (s \o t)[i] = t[i - Len(s)]
    OBVIOUS
  <1>2. (\A i \in 1 .. Len(s) : s[i] \in Range(s)) /\ (\A i \in 1 .. Len(t) : t[i] \in Range(t))
    BY DEF Range
  <1>3. ASSUME NEW i \in 1 .. Len(s) + Len(t), NEW j \in 1 .. Len(s) + Len(t), i < j
        PROVE  (s \o t)[i] < (s \o t)[j]
    <2>1. CASE j <= Len(s)
      BY <1>1, <1>3, <2>1 DEF Ascending
    <2>2. CASE i <= Len(s) /\ j > Len(s)
      <3>1. i \in 1 .. Len(s) /\ j - Len(s) \in 1 .. Len(t) /\ j \in (Len(s) + 1) .. (Len(s) + Len(t))
        BY <1>1, <2>2
      <3> QED
        BY <1>1, <1>2, <3>1
    <2>3. CASE i > Len(s)
      <3>1. /\ i - Len(s) \in 1 .. Len(t) /\ j - Len(s) \in 1 .. Len(t) /\ i - Len(s) < j - Len(s)
            /\ i \in (Len(s) + 1) .. (Len(s) + Len(t)) /\ j \in (Len(s) + 1) .. (Len(s) + Len(t))
        BY <1>1, <1>3, <2>3
      <3> QED
        BY <1>1, <3>1 DEF Ascending
    <2> QED
      BY <1>1, <2>1, <2>2, <2>3
  <1>4. Ascending(s \o t)
    BY <1>1, <1>3 DEF Ascending
  <1>5. Range(s \o t) = Range(s) \cup Range(t)
    BY RangeConcatenation
  <1> QED
    BY <1>1, <1>4, <1>5

(* The process when a room has been filled.                                *)
WithGap(P, r, gap) ==
  [P EXCEPT !.todo = P.todo \ {r}, !.window = [P.window EXCEPT ![r] = gap \o P.window[r]], !.tries = 0]

(* What filling a room changes of a process.                               *)
LEMMA FilledType ==
  ASSUME NEW P \in SyncerRows, NEW r \in Rooms, NEW gap \in Seq(Nat)
  PROVE  /\ WithGap(P, r, gap) \in SyncerRows
         /\ LET Q == WithGap(P, r, gap)
            IN  /\ Q.todo = P.todo \ {r} /\ Q.window[r] = gap \o P.window[r] /\ \A q \in Rooms \ {r} : Q.window[q] = P.window[q]
                /\ Q.at = P.at /\ Q.since = P.since /\ Q.next = P.next /\ Q.state = P.state /\ Q.queue = P.queue
                /\ Q.stopping = P.stopping
  <1> DEFINE Q == WithGap(P, r, gap)
  <1>1. [P.window EXCEPT ![r] = gap \o P.window[r]] \in [Rooms -> Seq(Nat)]
    <2>1. P.window \in [Rooms -> Seq(Nat)]
      BY DEF SyncerRows
    <2>2. gap \o P.window[r] \in Seq(Nat)
      BY <2>1
    <2> QED
      BY <2>1, <2>2
  <1> DEFINE w == [P.window EXCEPT ![r] = gap \o P.window[r]]
  <1>2. Q = [P EXCEPT !.todo = P.todo \ {r}, !.window = w, !.tries = 0]
    BY DEF WithGap
  <1>3. w \in [Rooms -> Seq(Nat)] /\ P.todo \ {r} \in SUBSET Rooms
    BY <1>1 DEF SyncerRows
  <1> HIDE DEF w
  <1>4. ASSUME NEW T \in SUBSET Rooms, NEW v \in [Rooms -> Seq(Nat)], NEW R, R = [P EXCEPT !.todo = T, !.window = v, !.tries = 0]
        PROVE  /\ R \in SyncerRows /\ R.todo = T /\ R.window = v
               /\ R.at = P.at /\ R.since = P.since /\ R.next = P.next /\ R.state = P.state /\ R.queue = P.queue
               /\ R.stopping = P.stopping
    BY <1>4 DEF SyncerRows
  <1> HIDE DEF Q
  <1>5. /\ Q.todo = P.todo \ {r} /\ Q.window = w
        /\ Q.at = P.at /\ Q.since = P.since /\ Q.next = P.next /\ Q.state = P.state /\ Q.queue = P.queue
        /\ Q.stopping = P.stopping
    BY <1>2 DEF SyncerRows
  <1>6. Q \in SyncerRows
    BY <1>2, <1>3, <1>4, Zenon
  <1> QED
    <2>1. P.window \in [Rooms -> Seq(Nat)]
      BY DEF SyncerRows
    <2>2. w[r] = gap \o P.window[r] /\ \A q \in Rooms \ {r} : w[q] = P.window[q]
      BY <2>1 DEF w
    <2> QED
      BY <1>5, <1>6, <2>2 DEF Q

(* What a process has to fetch is older than what it was given.            *)
LEMMA GapFacts ==
  ASSUME NEW tl, NEW ft, NEW P \in SyncerRows, Sound(P, tl, ft), NEW r \in P.todo, Window \in Nat, Len(tl) \in Nat
  PROVE  /\ r \in Rooms /\ P.since \in Nat /\ P.since <= Len(tl) /\ P.next \in Nat /\ P.next <= Len(tl)
         /\ GapOf(P, tl, r) \in SUBSET Nat /\ IsFiniteSet(GapOf(P, tl, r))
         /\ GapOf(P, tl, r) \subseteq EventsOf(tl, r, 0, P.next)
         /\ Range(P.window[r]) = Newest(GapOf(P, tl, r), Window) /\ Ascending(P.window[r])
         /\ ToFetch(P, tl, r) \subseteq GapOf(P, tl, r)
         /\ \A x \in ToFetch(P, tl, r), y \in Range(P.window[r]) : x < y
         /\ \A x \in ToFetch(P, tl, r), y \in GapOf(P, tl, r) : y < x => y \notin Newest(GapOf(P, tl, r), Window)
  <1> DEFINE G == GapOf(P, tl, r)
  <1>1. r \in Rooms /\ P.since \in Nat /\ P.since <= Len(tl) /\ P.next \in Nat /\ P.next <= Len(tl)
    BY DEF Sound, SyncerRows
  <1>2. G \in SUBSET Nat /\ IsFiniteSet(G)
    BY <1>1, EventsAreFinite DEF GapOf
  <1>3. G \subseteq EventsOf(tl, r, 0, P.next)
    BY <1>1 DEF GapOf, EventsOf
  <1>4. P.window[r] = InOrder(Newest(G, Window))
    BY DEF Sound
  <1>5. ToFetch(P, tl, r) \subseteq G /\ \A x \in ToFetch(P, tl, r) : x \notin Newest(G, Window)
    BY DEF ToFetch
  <1> HIDE DEF G
  <1>6. Newest(G, Window) \in SUBSET Nat /\ IsFiniteSet(Newest(G, Window)) /\ Newest(G, Window) \subseteq G
    BY <1>2, NewestType
  <1>7. Range(P.window[r]) = Newest(G, Window) /\ Ascending(P.window[r])
    BY <1>4, <1>6, InOrderLists
  <1>8. ASSUME NEW x \in ToFetch(P, tl, r), NEW y \in Newest(G, Window) PROVE x < y
    <2>1. x \in G /\ x \in Nat /\ y \in Nat /\ x # y
      BY <1>2, <1>5, <1>6
    <2>2. ~ (y < x)
      BY <1>2, <1>5, <2>1, NewestAreLast
    <2> QED
      BY <2>1, <2>2
  <1>9. ASSUME NEW x \in ToFetch(P, tl, r), NEW y \in G, y < x PROVE y \notin Newest(G, Window)
    BY <1>2, <1>5, <1>9, NewestAreLast
  <1>10. /\ GapOf(P, tl, r) \in SUBSET Nat /\ IsFiniteSet(GapOf(P, tl, r))
         /\ GapOf(P, tl, r) \subseteq EventsOf(tl, r, 0, P.next)
    BY <1>2, <1>3 DEF G
  <1>11. Range(P.window[r]) = Newest(GapOf(P, tl, r), Window)
    BY <1>7 DEF G
  <1>12. \A x \in ToFetch(P, tl, r), y \in Range(P.window[r]) : x < y
    BY <1>7, <1>8
  <1>13. \A x \in ToFetch(P, tl, r), y \in GapOf(P, tl, r) : y < x => y \notin Newest(GapOf(P, tl, r), Window)
    BY <1>9 DEF G
  <1>14. ToFetch(P, tl, r) \subseteq GapOf(P, tl, r)
    BY <1>5 DEF G
  <1> QED
    BY <1>1, <1>7, <1>10, <1>11, <1>12, <1>13, <1>14

(* The gap of a room is filled, or what is not fetched is given up.        *)
LEMMA FilledIsSound ==
  ASSUME NEW tl, NEW ft, NEW ft2, NEW P \in SyncerRows, Sound(P, tl, ft), P.at = "filling", NEW r \in P.todo,
         Window \in Nat, Len(tl) \in Nat, \A e \in 1 .. Len(tl) : tl[e].room \in Rooms,
         NEW gap \in Seq(Nat), Ascending(gap), Range(gap) \subseteq ToFetch(P, tl, r),
         \A e \in 1 .. Len(tl) : ft[e] # "none" => ft2[e] # "none",
         \A m \in ToFetch(P, tl, r) : ft2[m] # "none" \/ m \in Range(gap)
  PROVE  Sound(WithGap(P, r, gap), tl, ft2)
  <1> DEFINE Q == WithGap(P, r, gap)
  <1>0. /\ Q \in SyncerRows /\ Q.todo = P.todo \ {r}
        /\ Q.window[r] = gap \o P.window[r] /\ \A q \in Rooms \ {r} : Q.window[q] = P.window[q]
        /\ Q.at = P.at /\ Q.since = P.since /\ Q.next = P.next /\ Q.state = P.state /\ Q.queue = P.queue
    <2>1. r \in Rooms
      BY DEF SyncerRows
    <2> QED
      BY <2>1, FilledType
  <1> HIDE DEF Q
  <1>1. Sound(P, tl, ft2)
    BY MoreIsSound
  <1>2. /\ r \in Rooms /\ GapOf(P, tl, r) \subseteq EventsOf(tl, r, 0, P.next)
        /\ Ascending(P.window[r]) /\ ToFetch(P, tl, r) \subseteq GapOf(P, tl, r)
        /\ \A x \in ToFetch(P, tl, r), y \in Range(P.window[r]) : x < y
    BY GapFacts
  <1>3. P.window \in [Rooms -> Seq(Nat)]
    BY DEF SyncerRows
  <1>4. /\ Ascending(gap \o P.window[r])
        /\ Range(gap \o P.window[r]) = Range(gap) \cup Range(P.window[r])
    <2>1. \A x \in Range(gap), y \in Range(P.window[r]) : x < y
      BY <1>2
    <2> QED
      BY <1>2, <1>3, <2>1, AscendingConcat
  <1>5. Q.window[r] = gap \o P.window[r] /\ \A q \in Rooms \ {r} : Q.window[q] = P.window[q]
    BY <1>0
  <1>6. \A q : GapOf(Q, tl, q) = GapOf(P, tl, q)
    BY <1>0 DEF GapOf
  <1>7. \A q : ToFetch(Q, tl, q) = ToFetch(P, tl, q)
    BY <1>6 DEF ToFetch
  <1>8. WindowsOK(Q, tl)
    <2> SUFFICES ASSUME NEW q \in Rooms
                 PROVE  Ascending(Q.window[q]) /\ Range(Q.window[q]) \subseteq EventsOf(tl, q, 0, P.next)
      BY <1>0 DEF WindowsOK
    <2>1. Ascending(P.window[q]) /\ Range(P.window[q]) \subseteq EventsOf(tl, q, 0, P.next)
      BY DEF Sound, WindowsOK
    <2>2. CASE q = r
      BY <1>2, <1>4, <1>5, <2>1, <2>2
    <2>3. CASE q # r
      BY <1>5, <2>1, <2>3
    <2> QED
      BY <2>2, <2>3
  <1>9. StatesOK(Q, tl)
    BY <1>0 DEF Sound, StatesOK
  <1>10. QueueOK(Q, tl)
    BY <1>0 DEF Sound, QueueOK, Range
  <1>11. Covered(Q, tl, ft2)
    <2> SUFFICES ASSUME NEW m \in 1 .. P.next, tl[m].kind = "message", ft2[m] = "none"
                 PROVE  \/ m \in Range(Q.window[tl[m].room])
                        \/ tl[m].room \in Q.todo /\ m \in ToFetch(Q, tl, tl[m].room)
      BY <1>0 DEF Covered
    <2>1. \/ m \in Range(P.window[tl[m].room])
          \/ tl[m].room \in P.todo /\ m \in ToFetch(P, tl, tl[m].room)
      <3>1. Covered(P, tl, ft2) /\ P.queue = <<>>
        BY <1>1 DEF Sound
      <3>2. \/ m \in Range(P.queue) \/ m \in Range(P.window[tl[m].room])
            \/ tl[m].room \in P.todo /\ m \in ToFetch(P, tl, tl[m].room)
        BY <3>1 DEF Covered
      <3> QED
        BY <3>1, <3>2 DEF Range
    <2>2. CASE tl[m].room = r
      BY <1>4, <1>5, <2>1, <2>2
    <2>3. CASE tl[m].room # r
      <3>1. tl[m].room \in Rooms
        BY GapFacts
      <3> QED
        BY <1>0, <1>5, <1>7, <2>1, <2>3, <3>1
    <2> QED
      BY <2>2, <2>3
  <1>12. \A q \in Q.todo : Q.since # None /\ Q.window[q] = InOrder(Newest(GapOf(Q, tl, q), Window))
    <2> SUFFICES ASSUME NEW q \in P.todo, q # r
                 PROVE  P.since # None /\ Q.window[q] = InOrder(Newest(GapOf(P, tl, q), Window))
      BY <1>0, <1>6
    <2>1. q \in Rooms /\ P.since # None /\ P.window[q] = InOrder(Newest(GapOf(P, tl, q), Window))
      BY DEF Sound, SyncerRows
    <2> QED
      BY <1>5, <2>1
  <1>13. Sound(Q, tl, ft2)
    BY <1>0, <1>1, <1>8, <1>9, <1>10, <1>11, <1>12 DEF Sound
  <1> QED
    BY <1>13 DEF Q

(* What is missing of a room is what is to be fetched.                     *)
LEMMA MissingIsToFetch ==
  ASSUME NEW b, NEW r
  PROVE  Missing(b, r) = ToFetch(bot[b], timeline, r)
  BY DEF Missing, Written, Before, Gap, Between, ToFetch, GapOf, EventsOf

(* The bounds are numbers, and events are within them.                     *)
LEMMA SizesOfSync ==
  ASSUME MatrixConstants, SyncInv
  PROVE  /\ Window \in Nat /\ FetchLimit \in Nat /\ Skew \in Nat /\ Overlap \in Nat /\ Skew <= Overlap + 1
         /\ MaxEvents \in Nat /\ Len(timeline) \in Nat /\ Len(timeline) <= MaxEvents
         /\ 1 .. Len(timeline) \subseteq Messages
  <1>1. Len(timeline) \in Nat /\ Len(timeline) <= MaxEvents
    BY DEF SyncInv, TimelineOK
  <1> QED
    BY <1>1 DEF MatrixConstants, Messages

(* The cursor is the time of a message that Core has stored.               *)
LEMMA CursorIsStored ==
  ASSUME MatrixConstants, SyncInv, NEW r, Cursor(r) # 0
  PROVE  \E s \in 1 .. Len(timeline) :
           /\ timeline[s].kind = "message" /\ timeline[s].room = r /\ fate[s] # "none"
           /\ Cursor(r) = timeline[s].at /\ timeline[s].at \in s .. s + Skew
  <1> DEFINE Held == {m \in Messages : fate[m] = "stored" /\ timeline[m].room = r}
             times == {timeline[e].at : e \in Held}
  <1>1. Cursor(r) = IF times = {} THEN 0 ELSE CHOOSE t \in times : \A u \in times : u <= t
    BY DEF Cursor
  <1>2. ASSUME NEW e \in Held
        PROVE  e \in 1 .. Len(timeline) /\ timeline[e].kind = "message" /\ timeline[e].room = r /\ fate[e] # "none"
               /\ timeline[e].at \in e .. e + Skew
    BY <1>2 DEF SyncInv, FateOK, IsMessage, TimelineOK
  <1>3. \A e \in Held : timeline[e].at \in 0 .. MaxEvents + Skew
    <2> HIDE DEF Held
    <2> QED
      BY <1>2, SizesOfSync
  <1>4. times \in SUBSET (0 .. MaxEvents + Skew) /\ times \in SUBSET Nat
    <2> HIDE DEF Held
    <2> QED
      BY <1>3
  <1>5. IsFiniteSet(times)
    <2> HIDE DEF times
    <2>1. 0 \in Int /\ MaxEvents + Skew \in Int
      BY SizesOfSync
    <2>2. IsFiniteSet(0 .. MaxEvents + Skew)
      BY <2>1, FS_Interval
    <2> QED
      BY <1>4, <2>2, FS_Subset
  <1>6. times # {}
    BY <1>1
  <1>7. \E t \in times : \A u \in times : u <= t
    <2> HIDE DEF times
    <2> QED
      BY <1>4, <1>5, <1>6, LargestNumber
  <1>8. Cursor(r) \in times
    <2> HIDE DEF times
    <2> QED
      BY <1>1, <1>6, <1>7
  <1>9. PICK s \in Held : Cursor(r) = timeline[s].at
    BY <1>8
  <1> HIDE DEF Held
  <1> QED
    BY <1>2, <1>9

(* What is missing and not fetched lies before a message that Core has.    *)
LEMMA UnwantedIsSettled ==
  ASSUME MatrixConstants, SyncInv, NEW b \in Syncers, ~ bot[b].stopping, NEW r \in bot[b].todo,
         NEW m \in Missing(b, r), m \notin Wanted(b, r)
  PROVE  fate[m] # "none"
  <1>1. PICK f \in Missing(b, r) : timeline[f].at < StopAt(r) /\ ~ (f < m)
    BY DEF Wanted
  <1>2. ASSUME NEW e \in Missing(b, r)
        PROVE  e \in 1 .. Len(timeline) /\ timeline[e].kind = "message" /\ timeline[e].room = r
    <2>1. e \in ToFetch(bot[b], timeline, r)
      BY MissingIsToFetch
    <2>2. /\ bot[b] \in SyncerRows /\ Sound(bot[b], timeline, fate) /\ Len(timeline) \in Nat /\ Window \in Nat
      BY InvFacts, SizesOfSync
    <2>3. e \in EventsOf(timeline, r, 0, bot[b].next) /\ bot[b].next \in Nat /\ bot[b].next <= Len(timeline)
      BY <2>1, <2>2, GapFacts
    <2> QED
      BY <2>1, <2>2, <2>3 DEF EventsOf, ToFetch
  <1>3. timeline[f].at \in f .. f + Skew /\ f \in 1 .. Len(timeline)
    BY <1>2 DEF SyncInv, TimelineOK
  <1>4. m \in 1 .. Len(timeline) /\ m <= f
    <2>1. m \in 1 .. Len(timeline)
      BY <1>2
    <2> QED
      BY <1>1, <1>3, <2>1, SizesOfSync
  <1>5. Cursor(r) # 0
    <2> SUFFICES ASSUME Cursor(r) = 0 PROVE FALSE
      OBVIOUS
    <2>1. StopAt(r) = 0
      BY SizesOfSync DEF StopAt
    <2> QED
      BY <1>1, <1>3, <2>1, SizesOfSync
  <1>6. PICK s \in 1 .. Len(timeline) :
          /\ timeline[s].kind = "message" /\ timeline[s].room = r /\ fate[s] # "none"
          /\ Cursor(r) = timeline[s].at /\ timeline[s].at \in s .. s + Skew
    BY <1>5, CursorIsStored
  <1>7. f <= s
    <2>1. PICK c \in Nat : c = Cursor(r) /\ c <= s + Skew
      BY <1>6, SizesOfSync
    <2>2. StopAt(r) = IF c > Overlap THEN c - Overlap ELSE 0
      BY <2>1 DEF StopAt
    <2>3. timeline[f].at < c - Overlap
      BY <1>1, <1>3, <2>1, <2>2, SizesOfSync
    <2>4. PICK u \in Nat : u = timeline[f].at /\ f <= u /\ u < c - Overlap
      BY <1>3, <2>3, SizesOfSync
    <2>5. PICK p \in Nat, q \in Nat : p = Overlap /\ q = Skew /\ q <= p + 1
      BY SizesOfSync
    <2>6. s \in Nat /\ f \in Nat /\ c <= s + q /\ u < c - p
      BY <1>3, <1>6, <2>1, <2>4, <2>5, SizesOfSync
    <2> QED
      BY <2>1, <2>4, <2>5, <2>6
  <1>8. CASE m = s
    BY <1>6, <1>8
  <1>9. CASE m < s
    <2>1. timeline[m].kind = "message" /\ timeline[m].room = r
      BY <1>2
    <2> QED
      BY <1>4, <1>6, <1>9, <2>1 DEF SyncInv, InTurn
  <1>10. m = s \/ m < s
    BY <1>3, <1>4, <1>6, <1>7, SizesOfSync
  <1> QED
    BY <1>8, <1>9, <1>10

(* Before a missing message there are settled ones and missing ones.       *)
LEMMA MissingIsClosed ==
  ASSUME MatrixConstants, SyncInv, NEW b \in Syncers, ~ bot[b].stopping, NEW r \in bot[b].todo, NEW m \in Missing(b, r)
  PROVE  /\ m \in 1 .. Len(timeline) /\ timeline[m].kind = "message" /\ timeline[m].room = r
         /\ \A e \in 1 .. Len(timeline) :
              timeline[e].kind = "message" /\ timeline[e].room = r /\ e < m => fate[e] # "none" \/ e \in Missing(b, r)
  <1> DEFINE P == bot[b]
  <1>1. P \in SyncerRows /\ Sound(P, timeline, fate) /\ Len(timeline) \in Nat /\ Window \in Nat
    BY InvFacts, SizesOfSync
  <1>2. /\ P.since \in Nat /\ P.since <= Len(timeline) /\ P.next \in Nat /\ P.next <= Len(timeline)
        /\ GapOf(P, timeline, r) \subseteq EventsOf(timeline, r, 0, P.next)
        /\ ToFetch(P, timeline, r) \subseteq GapOf(P, timeline, r)
        /\ \A x \in ToFetch(P, timeline, r), y \in GapOf(P, timeline, r) :
             y < x => y \notin Newest(GapOf(P, timeline, r), Window)
    <2> HIDE DEF P
    <2> QED
      BY <1>1, GapFacts DEF P
  <1>3. Missing(b, r) = ToFetch(P, timeline, r)
    BY MissingIsToFetch
  <1>4. P.since # None /\ Behind(P.since, timeline, fate)
    BY <1>1 DEF Sound
  <1> HIDE DEF P
  <1>5. m \in ToFetch(P, timeline, r) /\ m \in EventsOf(timeline, r, 0, P.next)
    BY <1>2, <1>3
  <1>6. m \in 1 .. Len(timeline) /\ m <= P.next /\ timeline[m].kind = "message" /\ timeline[m].room = r
    BY <1>1, <1>2, <1>5 DEF EventsOf, ToFetch
  <1>7. ASSUME NEW e \in 1 .. Len(timeline), timeline[e].kind = "message", timeline[e].room = r, e < m
        PROVE  fate[e] # "none" \/ e \in Missing(b, r)
    <2>1. CASE e <= P.since
      BY <1>4, <1>7, <2>1 DEF Behind
    <2>2. CASE ~ (e <= P.since)
      <3>1. e \in GapOf(P, timeline, r)
        BY <1>2, <1>6, <1>7, <2>2 DEF GapOf, EventsOf
      <3>2. e \in ToFetch(P, timeline, r)
        BY <1>2, <1>5, <1>7, <3>1 DEF ToFetch
      <3> QED
        BY <1>3, <3>2
    <2> QED
      BY <2>1, <2>2
  <1> QED
    BY <1>6, <1>7

(* A room is done: what it lacked is settled or will be handled.           *)
LEMMA FilledStep ==
  ASSUME MatrixConstants, SyncInv, NEW b \in Syncers, ~ bot[b].stopping, bot[b].at = "filling", NEW r \in bot[b].todo,
         NEW gap \in Seq(Nat), Ascending(gap), Range(gap) \subseteq Missing(b, r),
         bot' = Filled(b, r, gap), timeline' = timeline, token' = token, MixOK',
         NEW S \in SUBSET Messages, Settles(S), Closed(S),
         \A m \in Missing(b, r) : fate[m] # "none" \/ m \in S \/ m \in Range(gap)
  PROVE  ProcessStep(b)
  <1> DEFINE P == bot[b]
             Q == WithGap(P, r, gap)
  <1>1. P \in SyncerRows /\ Sound(P, timeline, fate) /\ Window \in Nat /\ Len(timeline) \in Nat /\ bot \in [Syncers -> SyncerRows]
    BY InvFacts, SizesOfSync
  <1>2. r \in Rooms
    BY <1>1, GapFacts
  <1>3. bot' = [bot EXCEPT ![b] = Q]
    BY <1>1 DEF Filled, SyncerRows, WithGap
  <1>4. Missing(b, r) = ToFetch(P, timeline, r)
    BY MissingIsToFetch
  <1> HIDE DEF P
  <1>6. /\ Q \in SyncerRows /\ Q.stopping = P.stopping
    BY <1>1, <1>2, FilledType
  <1>7. \A e \in 1 .. Len(timeline) : fate[e] # "none" => fate'[e] # "none"
    BY SizesOfSync DEF Settles
  <1>8. \A m \in ToFetch(P, timeline, r) : fate'[m] # "none" \/ m \in Range(gap)
    <2> SUFFICES ASSUME NEW m \in ToFetch(P, timeline, r) PROVE fate'[m] # "none" \/ m \in Range(gap)
      OBVIOUS
    <2>1. m \in Messages
      BY <1>4, MissingIsClosed, SizesOfSync
    <2> QED
      BY <1>4, <2>1 DEF Settles
  <1>9. r \in P.todo /\ P.at = "filling" /\ ~ P.stopping
    BY DEF P
  <1>10. Sound(Q, timeline, fate')
    <2>1. \A e \in 1 .. Len(timeline) : timeline[e].room \in Rooms
      BY TimelineFacts DEF SyncInv
    <2> QED
      BY <1>1, <1>4, <1>7, <1>8, <1>9, <2>1, FilledIsSound
  <1> HIDE DEF Q
  <1>11. bot' \in [Syncers -> SyncerRows] /\ bot'[b] = Q /\ \A c \in Syncers \ {b} : bot'[c] = bot[c]
    BY <1>1, <1>3, <1>6
  <1> QED
    BY <1>10, <1>11 DEF ProcessStep

(* An empty list is in order.                                              *)
LEMMA NoGap ==
  /\ <<>> \in Seq(Nat) /\ Ascending(<<>>) /\ \A S : Range(<<>>) \subseteq S
  BY DEF Ascending, Range

(* All that a room lacks is given up.                                      *)
LEMMA GivenUpStep ==
  ASSUME MatrixConstants, SyncInv, NEW b \in Syncers, ~ bot[b].stopping, bot[b].at = "filling", NEW r \in bot[b].todo,
         bot' = Filled(b, r, <<>>), timeline' = timeline, token' = token, MixOK', Settles(Missing(b, r))
  PROVE  ProcessStep(b)
  <1>1. Closed(Missing(b, r)) /\ Missing(b, r) \in SUBSET Messages
    <2>1. ASSUME NEW m \in Missing(b, r)
          PROVE  /\ m \in 1 .. Len(timeline) /\ timeline[m].kind = "message" /\ timeline[m].room = r
                 /\ \A e \in 1 .. Len(timeline) :
                      timeline[e].kind = "message" /\ timeline[e].room = r /\ e < m => fate[e] # "none" \/ e \in Missing(b, r)
      BY MissingIsClosed
    <2>2. Closed(Missing(b, r))
      BY <2>1 DEF Closed
    <2>3. Missing(b, r) \in SUBSET Messages
      BY <2>1, SizesOfSync
    <2> QED
      BY <2>2, <2>3
  <1> QED
    BY <1>1, NoGap, FilledStep

(* The gap of a group is passed over.                                      *)
LEMMA PassOverStep ==
  ASSUME MatrixConstants, SyncInv, NEW b \in Syncers, NEW r \in Rooms, PassOver(b, r)
  PROVE  ProcessStep(b)
  <1>1. /\ ~ bot[b].stopping /\ bot[b].at = "filling" /\ r \in bot[b].todo
        /\ bot' = Filled(b, r, <<>>) /\ UNCHANGED <<timeline, token, left>>
    BY DEF PassOver, Alive, At
  <1>2. Settles(Missing(b, r))
    <2>1. fate \in [Messages -> Fates] /\ "unserved" \in Fates /\ "ignored" \in Fates
      BY DEF SyncInv, FateOK, Fates
    <2>2. fate' = [e \in Messages |-> IF e \in Missing(b, r) /\ fate[e] = "none"
                                       THEN IF DirectSince(e) THEN "unserved" ELSE "ignored" ELSE fate[e]]
      BY DEF PassOver
    <2>3. \A e \in Messages : fate'[e] \in Fates
      BY <2>1, <2>2
    <2>4. fate' \in [Messages -> Fates]
      BY <2>2, <2>3
    <2>5. \A e \in Messages : fate'[e] # "none" <=> fate[e] # "none" \/ e \in Missing(b, r)
      BY <2>2
    <2> QED
      BY <2>4, <2>5 DEF Settles
  <1>3. MixOK'
    BY <1>1 DEF SyncInv, MixOK
  <1> QED
    BY <1>1, <1>2, <1>3, GivenUpStep

(* A gap is filled from the history; the page limit cuts off the oldest of *)
(* it (backfill.go).                                                       *)
LEMMA FillStep ==
  ASSUME MatrixConstants, SyncInv, NEW b \in Syncers, NEW r \in Rooms, Fill(b, r)
  PROVE  ProcessStep(b)
  <1> DEFINE W == Wanted(b, r)
             F == Newest(W, FetchLimit)
             S == W \ F
             gap == InOrder(F)
  <1>1. /\ ~ bot[b].stopping /\ bot[b].at = "filling" /\ r \in bot[b].todo
        /\ bot' = Filled(b, r, gap) /\ UNCHANGED <<timeline, token, left>>
        /\ Becomes(S, "truncated")
    BY DEF Fill, Fetched, Before, Alive, At
  <1>2. W \subseteq Missing(b, r) /\ Missing(b, r) \subseteq 1 .. Len(timeline)
    <2>1. W \subseteq Missing(b, r)
      BY DEF Wanted
    <2>2. Missing(b, r) \subseteq 1 .. Len(timeline)
      BY <1>1, MissingIsClosed
    <2> QED
      BY <2>1, <2>2
  <1>3. W \in SUBSET Nat /\ IsFiniteSet(W)
    <2> HIDE DEF W
    <2>1. IsFiniteSet(1 .. Len(timeline))
      <3>1. 1 \in Int /\ Len(timeline) \in Int
        BY SizesOfSync
      <3> QED
        BY <3>1, FS_Interval
    <2> QED
      BY <1>2, <2>1, FS_Subset
  <1>4. F \in SUBSET W /\ F \in SUBSET Nat /\ IsFiniteSet(F)
    <2> HIDE DEF W
    <2> QED
      BY <1>3, NewestType
  <1>5. gap \in Seq(Nat) /\ Ascending(gap) /\ Range(gap) = F
    <2> HIDE DEF W, F
    <2>1. gap \in Seq(F) /\ Ascending(gap) /\ Range(gap) = F
      BY <1>4, InOrderLists
    <2> HIDE DEF gap
    <2> QED
      BY <1>4, <2>1, SeqMonotonic
  <1>6. Settles(S)
    <2> HIDE DEF S
    <2>1. "truncated" \in Fates /\ "truncated" # "none"
      BY DEF Fates
    <2> QED
      BY <1>1, <2>1, BecomesSettles
  <1>7. \A m \in Missing(b, r) : m \notin W => fate[m] # "none"
    BY <1>1, UnwantedIsSettled
  <1>8. Closed(S)
    <2> SUFFICES ASSUME NEW m \in S
                 PROVE  /\ m \in 1 .. Len(timeline) /\ timeline[m].kind = "message"
                        /\ \A e \in 1 .. Len(timeline) :
                             timeline[e].kind = "message" /\ timeline[e].room = timeline[m].room /\ e < m
                               => fate[e] # "none" \/ e \in S
      BY DEF Closed
    <2>1. m \in W /\ m \notin F
      OBVIOUS
    <2>2. m \in Missing(b, r)
      <3> HIDE DEF W
      <3> QED
        BY <1>2, <2>1
    <2>3. /\ m \in 1 .. Len(timeline) /\ timeline[m].kind = "message" /\ timeline[m].room = r
          /\ \A e \in 1 .. Len(timeline) :
               timeline[e].kind = "message" /\ timeline[e].room = r /\ e < m => fate[e] # "none" \/ e \in Missing(b, r)
      BY <1>1, <2>2, MissingIsClosed
    <2>4. ASSUME NEW e \in 1 .. Len(timeline), e < m, e \in Missing(b, r)
          PROVE  fate[e] # "none" \/ e \in S
      <3>1. CASE e \notin W
        BY <1>7, <2>4, <3>1
      <3>2. CASE e \in W
        <4>1. FetchLimit \in Nat
          BY SizesOfSync
        <4>2. e \notin F
          <5> HIDE DEF W
          <5> QED
            BY <1>3, <2>1, <2>4, <4>1, NewestAreLast
        <4> HIDE DEF W, F
        <4> QED
          BY <3>2, <4>2
      <3> QED
        BY <3>1, <3>2
    <2> HIDE DEF S, W
    <2> QED
      BY <2>3, <2>4
  <1>9. S \in SUBSET Messages
    <2> HIDE DEF W, F
    <2> QED
      BY <1>2, SizesOfSync
  <1>10. \A m \in Missing(b, r) : fate[m] # "none" \/ m \in S \/ m \in Range(gap)
    <2> HIDE DEF W, F, gap
    <2> QED
      BY <1>5, <1>7
  <1>11. MixOK'
    BY <1>1 DEF SyncInv, MixOK
  <1>12. Range(gap) \subseteq Missing(b, r)
    <2> HIDE DEF W, F, gap
    <2> QED
      BY <1>2, <1>4, <1>5
  <1> HIDE DEF S, W, F, gap
  <1> QED
    BY <1>1, <1>5, <1>6, <1>8, <1>9, <1>10, <1>11, <1>12, FilledStep

(* A process that is being stopped does not fill gaps.                     *)
LEMMA FillStoppedStep ==
  ASSUME SyncInv, NEW b \in Syncers, NEW r \in Rooms, FillStopped(b, r)
  PROVE  ProcessStep(b)
  <1>1. /\ bot[b].stopping /\ UNCHANGED <<timeline, fate, token, left>>
        /\ Exit(b) \/ bot' = Filled(b, r, <<>>)
    BY DEF FillStopped
  <1>2. MixOK'
    BY <1>1 DEF SyncInv, MixOK
  <1>3. CASE bot' = Filled(b, r, <<>>)
    <2> DEFINE P == bot[b]
               Q == WithGap(P, r, <<>>)
    <2>1. P \in SyncerRows /\ bot \in [Syncers -> SyncerRows]
      BY InvFacts
    <2>2. bot' = [bot EXCEPT ![b] = Q]
      BY <1>3, <2>1 DEF Filled, SyncerRows, WithGap
    <2> HIDE DEF P
    <2>4. Q \in SyncerRows /\ Q.stopping = P.stopping
      BY <2>1, NoGap, FilledType
    <2> HIDE DEF Q
    <2> QED
      BY <1>1, <2>2, <2>4, StoppedStep DEF P
  <1> QED
    BY <1>1, <1>2, <1>3, ExitStep

(* The whole response is there.                                            *)
LEMMA DispatchStep ==
  ASSUME SyncInv, NEW b \in Syncers, Dispatch(b)
  PROVE  ProcessStep(b)
  <1> DEFINE P == bot[b]
             Q == [P EXCEPT !.at = "handling"]
  <1>1. /\ P.at = "filling" /\ P.todo = {} /\ bot' = [bot EXCEPT ![b] = Q]
        /\ UNCHANGED <<timeline, fate, token, left>>
    BY DEF Dispatch, At
  <1>2. P \in SyncerRows /\ Len(timeline) \in Nat /\ bot \in [Syncers -> SyncerRows] /\ (~ P.stopping => Sound(P, timeline, fate))
    BY InvFacts
  <1> HIDE DEF P
  <1>3. /\ Q \in SyncerRows /\ Q.at = "handling" /\ Q.todo = P.todo /\ Q.window = P.window /\ Q.since = P.since
        /\ Q.next = P.next /\ Q.state = P.state /\ Q.queue = P.queue /\ Q.stopping = P.stopping
    BY <1>2 DEF SyncerRows
  <1> HIDE DEF Q
  <1>4. CASE P.stopping
    BY <1>1, <1>3, <1>4, StoppedStep DEF P
  <1>5. CASE ~ P.stopping
    <2>1. Sound(P, timeline, fate)
      BY <1>2, <1>5
    <2>2. WindowsOK(Q, timeline) /\ StatesOK(Q, timeline) /\ QueueOK(Q, timeline)
      BY <1>3, <2>1 DEF Sound, WindowsOK, StatesOK, QueueOK
    <2>3. Covered(Q, timeline, fate)
      <3>1. Covered(P, timeline, fate)
        BY <1>1, <2>1 DEF Sound
      <3> QED
        BY <1>1, <1>3, <3>1 DEF Covered
    <2>4. Sound(Q, timeline, fate)
      BY <1>1, <1>3, <2>1, <2>2, <2>3 DEF Sound
    <2>5. bot' \in [Syncers -> SyncerRows] /\ bot'[b] = Q /\ \A c \in Syncers \ {b} : bot'[c] = bot[c]
      BY <1>1, <1>2, <1>3
    <2>6. MixOK'
      BY <1>1 DEF SyncInv, MixOK
    <2> QED
      BY <1>1, <2>4, <2>5, <2>6, NothingSettled DEF ProcessStep
  <1> QED
    BY <1>4, <1>5

(* The process with the events of one room at hand.                        *)
WithRoom(P, r) ==
  [P EXCEPT !.queue = InOrder(P.state[r]) \o P.window[r],
            !.state = [P.state EXCEPT ![r] = {}], !.window = [P.window EXCEPT ![r] = <<>>]]

(* What changes when the events of one room come to hand.                  *)
LEMMA WithRoomType ==
  ASSUME NEW P \in SyncerRows, NEW r \in Rooms, MaxEvents \in Nat
  PROVE  /\ WithRoom(P, r) \in SyncerRows
         /\ LET Q == WithRoom(P, r)
            IN  /\ Q.queue = InOrder(P.state[r]) \o P.window[r]
                /\ Q.state[r] = {} /\ Q.window[r] = <<>>
                /\ \A q \in Rooms \ {r} : Q.state[q] = P.state[q] /\ Q.window[q] = P.window[q]
                /\ Q.at = P.at /\ Q.since = P.since /\ Q.next = P.next /\ Q.todo = P.todo /\ Q.stopping = P.stopping
         /\ InOrder(P.state[r]) \in Seq(Nat) /\ Range(InOrder(P.state[r])) = P.state[r]
  <1>1. P.state \in [Rooms -> SUBSET Messages] /\ P.window \in [Rooms -> Seq(Nat)]
    BY DEF SyncerRows
  <1>2. P.state[r] \in SUBSET Nat /\ IsFiniteSet(P.state[r])
    <2>1. P.state[r] \in SUBSET (1 .. MaxEvents)
      BY <1>1 DEF Messages
    <2>2. 1 \in Int /\ MaxEvents \in Int
      OBVIOUS
    <2>3. IsFiniteSet(1 .. MaxEvents)
      BY <2>2, FS_Interval
    <2> QED
      BY <2>1, <2>3, FS_Subset
  <1>3. InOrder(P.state[r]) \in Seq(P.state[r]) /\ Range(InOrder(P.state[r])) = P.state[r]
    BY <1>2, InOrderLists
  <1>4. InOrder(P.state[r]) \in Seq(Nat)
    BY <1>2, <1>3, SeqMonotonic
  <1> DEFINE u == InOrder(P.state[r]) \o P.window[r]
             s == [P.state EXCEPT ![r] = {}]
             w == [P.window EXCEPT ![r] = <<>>]
             Q == WithRoom(P, r)
  <1>5. u \in Seq(Nat)
    BY <1>1, <1>4
  <1>6. s \in [Rooms -> SUBSET Messages] /\ s[r] = {} /\ \A q \in Rooms \ {r} : s[q] = P.state[q]
    BY <1>1
  <1>7. w \in [Rooms -> Seq(Nat)] /\ w[r] = <<>> /\ \A q \in Rooms \ {r} : w[q] = P.window[q]
    <2>1. <<>> \in Seq(Nat)
      OBVIOUS
    <2> QED
      BY <1>1, <2>1
  <1>8. Q = [P EXCEPT !.queue = u, !.state = s, !.window = w]
    BY DEF WithRoom
  <1> HIDE DEF u, s, w, Q
  <1>9. /\ Q \in SyncerRows /\ Q.queue = u /\ Q.state = s /\ Q.window = w
        /\ Q.at = P.at /\ Q.since = P.since /\ Q.next = P.next /\ Q.todo = P.todo /\ Q.stopping = P.stopping
    BY <1>5, <1>6, <1>7, <1>8 DEF SyncerRows
  <1>10. /\ Q.queue = u /\ Q.state[r] = {} /\ Q.window[r] = <<>>
         /\ \A q \in Rooms \ {r} : Q.state[q] = P.state[q] /\ Q.window[q] = P.window[q]
    BY <1>6, <1>7, <1>9
  <1> QED
    BY <1>3, <1>4, <1>9, <1>10 DEF u, Q

(* They are all that was held of the room, in their order.                 *)
LEMMA NextRoomIsSound ==
  ASSUME NEW tl, NEW ft, NEW P \in SyncerRows, Sound(P, tl, ft), P.at = "handling", P.queue = <<>>, NEW r \in Rooms,
         MaxEvents \in Nat, Len(tl) \in Nat, \A e \in 1 .. Len(tl) : tl[e].room \in Rooms
  PROVE  Sound(WithRoom(P, r), tl, ft)
  <1> DEFINE Q == WithRoom(P, r)
             s == InOrder(P.state[r])
             w == P.window[r]
  <1>1. /\ Q \in SyncerRows /\ Q.queue = s \o w /\ Q.state[r] = {} /\ Q.window[r] = <<>>
        /\ \A q \in Rooms \ {r} : Q.state[q] = P.state[q] /\ Q.window[q] = P.window[q]
        /\ Q.at = P.at /\ Q.since = P.since /\ Q.next = P.next /\ Q.todo = P.todo /\ Q.stopping = P.stopping
        /\ s \in Seq(Nat) /\ Range(s) = P.state[r]
    BY WithRoomType
  <1>2. w \in Seq(Nat) /\ Ascending(w) /\ Range(w) \subseteq EventsOf(tl, r, 0, P.next)
    BY DEF SyncerRows, Sound, WindowsOK
  <1>3. \A e \in Range(s) : e \in EventsOf(tl, r, 0, P.next) /\ tl[e].kind # "message"
    BY <1>1 DEF Sound, StatesOK
  <1>4. P.next \in Nat /\ P.next <= Len(tl) /\ P.todo = {} /\ Covered(P, tl, ft)
    BY DEF Sound, SyncerRows
  <1> HIDE DEF Q, s
  <1>5. WindowsOK(Q, tl)
    <2> SUFFICES ASSUME NEW q \in Rooms PROVE Ascending(Q.window[q]) /\ Range(Q.window[q]) \subseteq EventsOf(tl, q, 0, P.next)
      BY <1>1 DEF WindowsOK
    <2>1. CASE q = r
      BY <1>1, <2>1, NoGap
    <2>2. CASE q # r
      BY <1>1, <2>2 DEF Sound, WindowsOK
    <2> QED
      BY <2>1, <2>2
  <1>6. StatesOK(Q, tl)
    <2> SUFFICES ASSUME NEW q \in Rooms, NEW e \in Q.state[q] PROVE e \in EventsOf(tl, q, 0, P.next) /\ tl[e].kind # "message"
      BY <1>1 DEF StatesOK
    <2>1. q # r
      BY <1>1
    <2> QED
      BY <1>1, <2>1 DEF Sound, StatesOK
  <1> HIDE DEF w
  <1>7. Range(Q.queue) = Range(s) \cup Range(w)
    BY <1>1, <1>2, RangeConcatenation
  <1>8. \A e \in Range(Q.queue) : e \in 1 .. P.next /\ Q.window[tl[e].room] = <<>>
    BY <1>1, <1>2, <1>3, <1>7 DEF EventsOf
  <1>9. ASSUME NEW i \in 1 .. Len(Q.queue), NEW j \in 1 .. Len(Q.queue), i < j,
               tl[Q.queue[i]].kind = "message", tl[Q.queue[j]].kind = "message"
        PROVE  Q.queue[i] < Q.queue[j]
    <2>1. /\ Len(s \o w) = Len(s) + Len(w) /\ Len(s) \in Nat /\ Len(w) \in Nat
          /\ \A k \in 1 .. Len(s) : (s \o w)[k] = s[k]
          /\ \A k \in (Len(s) + 1) .. (Len(s) + Len(w)) : (s \o w)[k] = w[k - Len(s)]
      BY <1>1, <1>2
    <2>2. \A k \in 1 .. Len(s) : s[k] \in Range(s)
      BY <1>1 DEF Range
    <2>3. i > Len(s)
      <3> SUFFICES ASSUME ~ (i > Len(s)) PROVE FALSE
        OBVIOUS
      <3>1. i \in 1 .. Len(s)
        BY <1>1, <2>1
      <3>2. Q.queue[i] \in Range(s)
        BY <1>1, <2>1, <2>2, <3>1
      <3> QED
        BY <1>3, <1>9, <3>2
    <2>4. /\ i - Len(s) \in 1 .. Len(w) /\ j - Len(s) \in 1 .. Len(w) /\ i - Len(s) < j - Len(s)
          /\ i \in (Len(s) + 1) .. (Len(s) + Len(w)) /\ j \in (Len(s) + 1) .. (Len(s) + Len(w))
      BY <1>1, <1>9, <2>1, <2>3
    <2> QED
      BY <1>1, <1>2, <2>1, <2>4 DEF Ascending
  <1>10. QueueOK(Q, tl)
    BY <1>1, <1>8, <1>9 DEF QueueOK
  <1>11. Covered(Q, tl, ft)
    <2> SUFFICES ASSUME NEW m \in 1 .. P.next, tl[m].kind = "message", ft[m] = "none"
                 PROVE  m \in Range(Q.queue) \/ m \in Range(Q.window[tl[m].room])
      BY <1>1 DEF Covered
    <2>1. m \in Range(P.window[tl[m].room])
      <3>1. m \notin Range(P.queue)
        BY DEF Range
      <3> QED
        BY <1>4, <3>1 DEF Covered
    <2>2. tl[m].room \in Rooms
      BY <1>4
    <2>3. CASE tl[m].room = r
      BY <1>7, <2>1, <2>3 DEF w
    <2>4. CASE tl[m].room # r
      BY <1>1, <2>1, <2>2, <2>4
    <2> QED
      BY <2>3, <2>4
  <1>12. Sound(Q, tl, ft)
    BY <1>1, <1>4, <1>5, <1>6, <1>10, <1>11 DEF Sound
  <1> QED
    BY <1>12 DEF Q

(* The next room of the response.                                          *)
LEMMA NextRoomStep ==
  ASSUME MatrixConstants, SyncInv, NEW b \in Syncers, NextRoom(b)
  PROVE  ProcessStep(b)
  <1> DEFINE P == bot[b]
  <1>1. P \in SyncerRows /\ Len(timeline) \in Nat /\ bot \in [Syncers -> SyncerRows] /\ (~ P.stopping => Sound(P, timeline, fate))
    BY InvFacts
  <1>2. PICK r \in Rooms : bot' = [bot EXCEPT ![b].queue = InOrder(bot[b].state[r]) \o bot[b].window[r],
                                             ![b].state[r] = {}, ![b].window[r] = <<>>]
    BY DEF NextRoom
  <1>3. bot' = [bot EXCEPT ![b] = WithRoom(P, r)]
    <2>1. WithRoom(P, r) = [P EXCEPT !.queue = InOrder(P.state[r]) \o P.window[r], !.state[r] = {}, !.window[r] = <<>>]
      BY <1>1 DEF WithRoom, SyncerRows
    <2>2. bot' = [bot EXCEPT ![b] = [P EXCEPT !.queue = InOrder(P.state[r]) \o P.window[r], !.state[r] = {}, !.window[r] = <<>>]]
      BY <1>1, <1>2
    <2> QED
      BY <2>1, <2>2
  <1>4. P.at = "handling" /\ P.queue = <<>> /\ UNCHANGED <<timeline, fate, token, left>>
    BY DEF NextRoom, At
  <1> HIDE DEF P
  <1>5. WithRoom(P, r) \in SyncerRows /\ WithRoom(P, r).stopping = P.stopping
    BY <1>1, WithRoomType, SizesOfSync
  <1>6. CASE P.stopping
    BY <1>3, <1>4, <1>5, <1>6, StoppedStep
  <1>7. CASE ~ P.stopping
    <2>1. \A e \in 1 .. Len(timeline) : timeline[e].room \in Rooms
      BY TimelineFacts DEF SyncInv
    <2>2. Sound(WithRoom(P, r), timeline, fate)
      BY <1>1, <1>4, <1>7, <2>1, NextRoomIsSound, SizesOfSync
    <2>3. bot' \in [Syncers -> SyncerRows] /\ bot'[b] = WithRoom(P, r) /\ \A c \in Syncers \ {b} : bot'[c] = bot[c]
      BY <1>1, <1>3, <1>5
    <2>4. MixOK'
      BY <1>4 DEF SyncInv, MixOK
    <2> QED
      BY <1>4, <2>2, <2>3, <2>4, NothingSettled DEF ProcessStep
  <1> QED
    BY <1>6, <1>7

(* The process when the first event at hand has been handled.              *)
WithoutFirst(P) == [P EXCEPT !.queue = Tail(P.queue), !.tries = 0]

(* What changes when the first event has been handled.                     *)
LEMMA WithoutFirstType ==
  ASSUME NEW P \in SyncerRows, P.queue # <<>>
  PROVE  /\ WithoutFirst(P) \in SyncerRows
         /\ LET Q == WithoutFirst(P)
            IN  /\ Q.queue = Tail(P.queue) /\ Q.at = P.at /\ Q.since = P.since /\ Q.next = P.next /\ Q.todo = P.todo
                /\ Q.state = P.state /\ Q.window = P.window /\ Q.stopping = P.stopping
  <1> DEFINE u == Tail(P.queue)
             Q == WithoutFirst(P)
  <1>1. u \in Seq(Nat)
    BY DEF SyncerRows
  <1>2. Q = [P EXCEPT !.queue = u, !.tries = 0]
    BY DEF WithoutFirst
  <1> HIDE DEF u, Q
  <1>3. /\ Q \in SyncerRows /\ Q.queue = u /\ Q.at = P.at /\ Q.since = P.since /\ Q.next = P.next /\ Q.todo = P.todo
        /\ Q.state = P.state /\ Q.window = P.window /\ Q.stopping = P.stopping
    BY <1>1, <1>2 DEF SyncerRows
  <1> QED
    BY <1>3 DEF u, Q

(* A list is its head and its tail.                                        *)
LEMMA QueueFacts ==
  ASSUME NEW s \in Seq(Nat), s # <<>>
  PROVE  /\ Len(s) \in Nat /\ 1 \in 1 .. Len(s) /\ Head(s) = s[1] /\ Head(s) \in Range(s)
         /\ Len(Tail(s)) = Len(s) - 1 /\ \A i \in 1 .. Len(s) - 1 : Tail(s)[i] = s[i + 1]
         /\ Range(Tail(s)) \subseteq Range(s)
         /\ \A e \in Range(s) : e = Head(s) \/ e \in Range(Tail(s))
  <1>1. /\ Len(s) \in Nat /\ 1 \in 1 .. Len(s) /\ Head(s) = s[1]
        /\ Len(Tail(s)) = Len(s) - 1 /\ \A i \in 1 .. Len(s) - 1 : Tail(s)[i] = s[i + 1]
    OBVIOUS
  <1>2. /\ \A e : e \in Range(s) <=> \E i \in 1 .. Len(s) : s[i] = e
        /\ \A e : e \in Range(Tail(s)) <=> \E i \in 1 .. Len(s) - 1 : Tail(s)[i] = e
    <2> DEFINE t == Tail(s)
    <2>1. t \in Seq(Nat) /\ Len(t) = Len(s) - 1
      BY <1>1
    <2> HIDE DEF t
    <2>2. DOMAIN s = 1 .. Len(s) /\ DOMAIN t = 1 .. Len(s) - 1
      BY <2>1
    <2>3. \A e : e \in Range(s) <=> \E i \in 1 .. Len(s) : s[i] = e
      BY <2>2 DEF Range
    <2>4. \A e : e \in Range(t) <=> \E i \in 1 .. Len(s) - 1 : t[i] = e
      BY <2>2 DEF Range
    <2> QED
      BY <2>3, <2>4 DEF t
  <1>3. ASSUME NEW e \in Range(Tail(s)) PROVE e \in Range(s)
    <2>1. PICK i \in 1 .. Len(s) - 1 : s[i + 1] = e
      BY <1>1, <1>2
    <2>2. i + 1 \in 1 .. Len(s)
      BY <1>1
    <2> QED
      BY <1>2, <2>1, <2>2
  <1>4. ASSUME NEW e \in Range(s), e # Head(s) PROVE e \in Range(Tail(s))
    <2>1. PICK i \in 1 .. Len(s) : s[i] = e
      BY <1>2
    <2>2. i # 1
      BY <1>1, <1>4, <2>1
    <2>3. i - 1 \in 1 .. Len(s) - 1 /\ (i - 1) + 1 = i
      BY <1>1, <2>2
    <2>4. Tail(s)[i - 1] = s[i]
      BY <1>1, <2>3
    <2> QED
      BY <1>2, <2>1, <2>3, <2>4
  <1>5. Head(s) \in Range(s)
    BY <1>1, <1>2
  <1> QED
    BY <1>1, <1>3, <1>4, <1>5

(* Nothing is forgotten when the first event, if it is a message, is       *)
(* settled.                                                                *)
LEMMA FirstHandledIsSound ==
  ASSUME NEW tl, NEW ft, NEW ft2, NEW P \in SyncerRows, Sound(P, tl, ft), P.at = "handling", P.queue # <<>>, Len(tl) \in Nat,
         \A e \in 1 .. Len(tl) : ft[e] # "none" => ft2[e] # "none",
         tl[Head(P.queue)].kind = "message" => ft2[Head(P.queue)] # "none"
  PROVE  Sound(WithoutFirst(P), tl, ft2)
  <1> DEFINE Q == WithoutFirst(P)
             s == P.queue
  <1>1. /\ Q \in SyncerRows /\ Q.queue = Tail(s) /\ Q.at = P.at /\ Q.since = P.since /\ Q.next = P.next /\ Q.todo = P.todo
        /\ Q.state = P.state /\ Q.window = P.window
    BY WithoutFirstType
  <1>2. Sound(P, tl, ft2)
    BY MoreIsSound
  <1>3. /\ Len(s) \in Nat /\ Len(Tail(s)) = Len(s) - 1 /\ \A i \in 1 .. Len(s) - 1 : Tail(s)[i] = s[i + 1]
        /\ Range(Tail(s)) \subseteq Range(s)
        /\ \A e \in Range(s) : e = Head(s) \/ e \in Range(Tail(s))
    <2>1. s \in Seq(Nat)
      BY DEF SyncerRows
    <2> HIDE DEF s
    <2>2. s # <<>>
      BY DEF s
    <2> QED
      BY <2>1, <2>2, QueueFacts
  <1> HIDE DEF Q
  <1>4. WindowsOK(Q, tl) /\ StatesOK(Q, tl)
    BY <1>1 DEF Sound, WindowsOK, StatesOK
  <1>5. QueueOK(P, tl)
    BY DEF Sound
  <1>6. \A e \in Range(Q.queue) : e \in 1 .. P.next /\ P.window[tl[e].room] = <<>>
    BY <1>1, <1>3, <1>5 DEF QueueOK
  <1>7. ASSUME NEW i \in 1 .. Len(Q.queue), NEW j \in 1 .. Len(Q.queue), i < j,
               tl[Q.queue[i]].kind = "message", tl[Q.queue[j]].kind = "message"
        PROVE  Q.queue[i] < Q.queue[j]
    <2>1. i + 1 \in 1 .. Len(s) /\ j + 1 \in 1 .. Len(s) /\ i + 1 < j + 1 /\ i \in 1 .. Len(s) - 1 /\ j \in 1 .. Len(s) - 1
      BY <1>1, <1>3, <1>7
    <2>2. Q.queue[i] = s[i + 1] /\ Q.queue[j] = s[j + 1]
      BY <1>1, <1>3, <2>1
    <2> QED
      BY <1>5, <1>7, <2>1, <2>2 DEF QueueOK
  <1>8. QueueOK(Q, tl)
    BY <1>1, <1>6, <1>7 DEF QueueOK
  <1>9. Covered(P, tl, ft2)
    BY <1>2 DEF Sound
  <1>10. Covered(Q, tl, ft2)
    <2>1. \A m : ToFetch(Q, tl, m) = ToFetch(P, tl, m)
      BY <1>1 DEF ToFetch, GapOf
    <2> SUFFICES ASSUME NEW m \in 1 .. P.next, tl[m].kind = "message", ft2[m] = "none"
                 PROVE  \/ m \in Range(Q.queue) \/ m \in Range(Q.window[tl[m].room])
                        \/ tl[m].room \in Q.todo /\ m \in ToFetch(Q, tl, tl[m].room)
      BY <1>1 DEF Covered
    <2>2. \/ m \in Range(s) \/ m \in Range(P.window[tl[m].room])
          \/ tl[m].room \in P.todo /\ m \in ToFetch(P, tl, tl[m].room)
      BY <1>9 DEF Covered
    <2> QED
      BY <1>1, <1>3, <2>1, <2>2
  <1>11. Sound(Q, tl, ft2)
    <2>1. P.todo = {}
      BY DEF Sound
    <2> QED
      BY <1>1, <1>2, <1>4, <1>8, <1>10, <2>1 DEF Sound
  <1> QED
    BY <1>11 DEF Q

(* The message at hand is the first of its room that is not settled.       *)
LEMMA FirstIsNext ==
  ASSUME MatrixConstants, SyncInv, NEW b \in Syncers, ~ bot[b].stopping, Handles(b, "message")
  PROVE  Closed({Head(bot[b].queue)}) /\ {Head(bot[b].queue)} \in SUBSET Messages
  <1> DEFINE P == bot[b]
             h == Head(P.queue)
  <1>1. P.at = "handling" /\ P.queue # <<>> /\ timeline[h].kind = "message"
    BY DEF Handles, At
  <1>2. P \in SyncerRows /\ Sound(P, timeline, fate) /\ Len(timeline) \in Nat
    BY InvFacts
  <1> HIDE DEF P
  <1>3. P.queue \in Seq(Nat) /\ P.next \in Nat /\ P.next <= Len(timeline) /\ P.todo = {} /\ QueueOK(P, timeline) /\ Covered(P, timeline, fate)
    BY <1>1, <1>2 DEF Sound, SyncerRows
  <1>4. h = P.queue[1] /\ h \in Range(P.queue) /\ 1 \in 1 .. Len(P.queue) /\ Len(P.queue) \in Nat
    BY <1>1, <1>3, QueueFacts
  <1> HIDE DEF h
  <1>5. h \in 1 .. P.next /\ P.window[timeline[h].room] = <<>>
    BY <1>3, <1>4 DEF QueueOK
  <1>6. h \in 1 .. Len(timeline)
    BY <1>2, <1>3, <1>5
  <1>7. ASSUME NEW e \in 1 .. Len(timeline), timeline[e].kind = "message", timeline[e].room = timeline[h].room, e < h,
               fate[e] = "none"
        PROVE  FALSE
    <2>1. e \in 1 .. P.next
      BY <1>2, <1>3, <1>5, <1>7
    <2>2. e \in Range(P.queue) \/ e \in Range(P.window[timeline[e].room])
      BY <1>3, <1>7, <2>1 DEF Covered
    <2>3. e \notin Range(P.window[timeline[e].room])
      BY <1>5, <1>7 DEF Range
    <2>4. PICK i \in 1 .. Len(P.queue) : P.queue[i] = e
      BY <1>3, <2>2, <2>3 DEF Range
    <2>5. CASE i = 1
      BY <1>4, <1>6, <1>7, <2>4, <2>5
    <2>6. CASE 1 < i
      <3>1. h < e
        BY <1>1, <1>3, <1>4, <1>7, <2>4, <2>6 DEF QueueOK
      <3> QED
        BY <1>6, <1>7, <3>1
    <2> QED
      BY <1>4, <2>5, <2>6
  <1>8. Closed({h})
    BY <1>1, <1>6, <1>7 DEF Closed
  <1>9. h \in Messages
    BY <1>6, SizesOfSync
  <1> QED
    BY <1>8, <1>9 DEF h, P

(* A message at hand is settled; the process goes on, or tries again.      *)
LEMMA SettlingStep ==
  ASSUME MatrixConstants, SyncInv, NEW b \in Syncers, ~ bot[b].stopping, Handles(b, "message"),
         Settles({Head(bot[b].queue)}), bot' = Done(b) \/ bot' = bot, timeline' = timeline, token' = token, MixOK'
  PROVE  ProcessStep(b)
  <1> DEFINE P == bot[b]
  <1>1. P.at = "handling" /\ P.queue # <<>>
    BY DEF Handles, At
  <1>2. P \in SyncerRows /\ Sound(P, timeline, fate) /\ Len(timeline) \in Nat /\ bot \in [Syncers -> SyncerRows]
    BY InvFacts
  <1>3. Closed({Head(P.queue)}) /\ {Head(P.queue)} \in SUBSET Messages
    BY FirstIsNext
  <1>4. /\ \A e \in 1 .. Len(timeline) : fate[e] # "none" => fate'[e] # "none"
        /\ fate'[Head(P.queue)] # "none"
    BY <1>3, SizesOfSync DEF Settles
  <1>5. CASE bot' = bot
    <2>1. Sound(P, timeline, fate')
      BY <1>2, <1>4, MoreIsSound
    <2> QED
      BY <1>2, <1>3, <1>5, <2>1 DEF ProcessStep
  <1>6. CASE bot' = Done(b)
    <2>1. bot' = [bot EXCEPT ![b] = WithoutFirst(P)]
      BY <1>2, <1>6 DEF Done, WithoutFirst, SyncerRows
    <2>2. Settles({Head(P.queue)})
      OBVIOUS
    <2> HIDE DEF P
    <2>3. WithoutFirst(P) \in SyncerRows
      BY <1>1, <1>2, WithoutFirstType
    <2>4. Sound(WithoutFirst(P), timeline, fate')
      BY <1>1, <1>2, <1>4, FirstHandledIsSound
    <2>5. bot' \in [Syncers -> SyncerRows] /\ bot'[b] = WithoutFirst(P) /\ \A c \in Syncers \ {b} : bot'[c] = bot[c]
      BY <1>2, <2>1, <2>3
    <2> QED
      BY <1>3, <2>2, <2>4, <2>5 DEF ProcessStep
  <1> QED
    BY <1>5, <1>6

(* An event of a member: nothing is to be settled, and what is remembered  *)
(* of the room changes.                                                    *)
LEMMA HandleMemberStep ==
  ASSUME MatrixConstants, SyncInv, NEW b \in Syncers, HandleMember(b)
  PROVE  ProcessStep(b)
  <1> DEFINE P == bot[b]
             h == Head(P.queue)
             r == timeline[h].room
  <1>1. /\ ~ P.stopping /\ P.at = "handling" /\ P.queue # <<>> /\ timeline[h].kind = "member"
        /\ UNCHANGED <<timeline, fate, token>>
        /\ left' = left \/ Spends("trouble")
    BY DEF HandleMember, Alive, Handles, At
  <1>2. PICK a \in Answers : bot' = [Done(b) EXCEPT ![b].dms[r] = a]
    <2>1. \A x \in Answers : bot' = [Done(b) EXCEPT ![b].dms[r] = x] => \E a \in Answers : bot' = [Done(b) EXCEPT ![b].dms[r] = a]
      OBVIOUS
    <2>2. CASE bot' = [Done(b) EXCEPT ![b].dms[r] = "unknown"]
      BY <2>1, <2>2 DEF Answers
    <2>3. CASE bot' = [Done(b) EXCEPT ![b].dms[r] = IF @ = "unknown" THEN @ ELSE JoinedMembers(r)]
      <3> DEFINE a == IF Done(b)[b].dms[r] = "unknown" THEN Done(b)[b].dms[r] ELSE JoinedMembers(r)
      <3>1. a \in Answers
        BY DEF Answers, JoinedMembers
      <3>2. bot' = [Done(b) EXCEPT ![b].dms[r] = a]
        BY <2>3
      <3> HIDE DEF a
      <3> QED
        BY <2>1, <3>1, <3>2
    <2>4. \/ bot' = [Done(b) EXCEPT ![b].dms[r] = IF @ = "unknown" THEN @ ELSE JoinedMembers(r)]
          \/ bot' = [Done(b) EXCEPT ![b].dms[r] = "unknown"]
      BY DEF HandleMember
    <2> QED
      BY <2>2, <2>3, <2>4
  <1>3. P \in SyncerRows /\ Sound(P, timeline, fate) /\ Len(timeline) \in Nat /\ bot \in [Syncers -> SyncerRows]
    BY <1>1, InvFacts
  <1> DEFINE W == WithoutFirst(P)
             d == [W.dms EXCEPT ![r] = a]
             Q == [W EXCEPT !.dms = d]
  <1>4. bot' = [bot EXCEPT ![b] = Q]
    <2>1. Done(b) = [bot EXCEPT ![b] = W]
      BY <1>3 DEF Done, WithoutFirst, SyncerRows
    <2> HIDE DEF W, P
    <2> QED
      BY <1>2, <1>3, <2>1
  <1>5. /\ W \in SyncerRows /\ W.stopping = P.stopping /\ W.queue = Tail(P.queue)
    <2> HIDE DEF P
    <2> QED
      BY <1>1, <1>3, WithoutFirstType
  <1>6. Sound(W, timeline, fate)
    <2>1. timeline[h].kind = "message" => fate[h] # "none"
      BY <1>1
    <2> HIDE DEF P
    <2> QED
      BY <1>1, <1>3, <2>1, FirstHandledIsSound
  <1> HIDE DEF W
  <1>7. Q \in SyncerRows /\ SameWork(W, Q) /\ Q.stopping = W.stopping
    <2>1. d \in [Rooms -> Answers]
      BY <1>5 DEF SyncerRows
    <2> HIDE DEF d
    <2> QED
      BY <1>5, <2>1 DEF SyncerRows, SameWork
  <1> HIDE DEF Q
  <1>8. Sound(Q, timeline, fate)
    BY <1>6, <1>7, SameWorkIsSound
  <1>9. bot' \in [Syncers -> SyncerRows] /\ bot'[b] = Q /\ \A c \in Syncers \ {b} : bot'[c] = bot[c]
    BY <1>3, <1>4, <1>7
  <1>10. MixOK'
    BY <1>1, SpendingKeepsMix DEF SyncInv
  <1> QED
    BY <1>1, <1>8, <1>9, <1>10, NothingSettled DEF ProcessStep

(* A message that is none of Core's business.                              *)
LEMMA LeaveAloneStep ==
  ASSUME MatrixConstants, SyncInv, NEW b \in Syncers, LeaveAlone(b)
  PROVE  ProcessStep(b)
  <1>1. /\ ~ bot[b].stopping /\ Handles(b, "message") /\ bot' = Done(b) /\ UNCHANGED <<timeline, token, left>>
        /\ \E what \in {"foreign", "unserved", "ignored", "nothing"} : Becomes({Head(bot[b].queue)}, what)
    BY DEF LeaveAlone, Alive
  <1>2. Settles({Head(bot[b].queue)})
    <2>1. PICK what \in {"foreign", "unserved", "ignored", "nothing"} : Becomes({Head(bot[b].queue)}, what)
      BY <1>1
    <2>2. what \in Fates /\ what # "none"
      BY DEF Fates
    <2> QED
      BY <2>1, <2>2, BecomesSettles
  <1>3. MixOK'
    BY <1>1 DEF SyncInv, MixOK
  <1> QED
    BY <1>1, <1>2, <1>3, SettlingStep

(* A message is handed to Core, whether the bot hears of it or not.        *)
LEMMA PostStep ==
  ASSUME MatrixConstants, SyncInv, NEW b \in Syncers, Post(b) \/ PostUnheard(b)
  PROVE  ProcessStep(b)
  <1>1. /\ ~ bot[b].stopping /\ Handles(b, "message") /\ UNCHANGED <<timeline, token>>
        /\ bot' = Done(b) \/ bot' = bot
        /\ left' = left \/ Spends("trouble")
        /\ Becomes({Head(bot[b].queue)}, "stored")
    BY DEF Post, PostUnheard, Alive, Posts, Stores
  <1>2. Settles({Head(bot[b].queue)})
    <2>1. "stored" \in Fates /\ "stored" # "none"
      BY DEF Fates
    <2> QED
      BY <1>1, <2>1, BecomesSettles
  <1>3. MixOK'
    BY <1>1, SpendingKeepsMix DEF SyncInv
  <1> QED
    BY <1>1, <1>2, <1>3, SettlingStep

(* Core refuses a message, or does not answer.                             *)
LEMMA PostRefusedStep ==
  ASSUME MatrixConstants, SyncInv, NEW b \in Syncers, PostRefused(b) \/ PostFails(b)
  PROVE  ProcessStep(b)
  <1>1. /\ ~ bot[b].stopping /\ Handles(b, "message") /\ UNCHANGED <<timeline, token>>
        /\ Spends("refuse") \/ Spends("trouble")
        /\ Refuse(b) \/ (bot' = [bot EXCEPT ![b].tries = @ + 1] /\ UNCHANGED fate)
    BY DEF PostRefused, PostFails, Alive, Posts
  <1>2. MixOK'
    BY <1>1, SpendingKeepsMix DEF SyncInv
  <1>3. CASE Refuse(b)
    <2>1. Becomes({Head(bot[b].queue)}, "refused") /\ bot' = Done(b)
      BY <1>3 DEF Refuse
    <2>2. "refused" \in Fates /\ "refused" # "none"
      BY DEF Fates
    <2>3. Settles({Head(bot[b].queue)})
      BY <2>1, <2>2, BecomesSettles
    <2> QED
      BY <1>1, <1>2, <2>1, <2>3, SettlingStep
  <1>4. CASE bot' = [bot EXCEPT ![b].tries = @ + 1] /\ UNCHANGED fate
    BY <1>1, <1>2, <1>4, OneMoreTry
  <1> QED
    BY <1>1, <1>3, <1>4

(* The bot is not in the room.                                             *)
LEMMA RoomGoneStep ==
  ASSUME MatrixConstants, SyncInv, NEW b \in Syncers, NEW r \in Rooms, RoomGone(b, r)
  PROVE  ProcessStep(b)
  <1>1. /\ ~ bot[b].stopping /\ Asks(b, r) /\ Spends("trouble") /\ UNCHANGED <<timeline, token>>
        /\ \/ At(b, "filling") /\ bot' = Filled(b, r, <<>>) /\ Becomes(Missing(b, r), "gone")
           \/ At(b, "handling") /\ bot' = Done(b) /\ Becomes({Head(bot[b].queue)}, "gone")
    BY DEF RoomGone, Alive
  <1>2. MixOK'
    BY <1>1, SpendingKeepsMix DEF SyncInv
  <1>3. "gone" \in Fates /\ "gone" # "none"
    BY DEF Fates
  <1>4. CASE At(b, "filling") /\ bot' = Filled(b, r, <<>>) /\ Becomes(Missing(b, r), "gone")
    <2>1. Settles(Missing(b, r))
      BY <1>3, <1>4, BecomesSettles
    <2>2. bot[b].at = "filling" /\ r \in bot[b].todo
      BY <1>1, <1>4 DEF At, Asks, Subject
    <2> QED
      BY <1>1, <1>2, <1>4, <2>1, <2>2, GivenUpStep
  <1>5. CASE At(b, "handling") /\ bot' = Done(b) /\ Becomes({Head(bot[b].queue)}, "gone")
    <2>1. Settles({Head(bot[b].queue)})
      BY <1>3, <1>5, BecomesSettles
    <2>2. Handles(b, "message")
      <3>1. ~ At(b, "filling") /\ bot[b].queue # <<>>
        BY <1>1, <1>5 DEF At, Asks, Subject
      <3> QED
        BY <1>1, <1>5, <3>1 DEF Asks, Handles
    <2> QED
      BY <1>1, <1>2, <1>5, <2>1, <2>2, SettlingStep
  <1> QED
    BY <1>1, <1>4, <1>5

(* An event passes through a process that is being stopped.                *)
LEMMA HandleStoppedStep ==
  ASSUME SyncInv, NEW b \in Syncers, HandleStopped(b)
  PROVE  ProcessStep(b)
  <1> DEFINE P == bot[b]
             Q == WithoutFirst(P)
  <1>1. P.stopping /\ P.queue # <<>> /\ bot' = Done(b) /\ UNCHANGED <<timeline, fate, token, left>>
    BY DEF HandleStopped
  <1>2. P \in SyncerRows /\ bot \in [Syncers -> SyncerRows]
    BY InvFacts
  <1>3. bot' = [bot EXCEPT ![b] = Q]
    BY <1>1, <1>2 DEF Done, WithoutFirst, SyncerRows
  <1>4. Q \in SyncerRows /\ Q.stopping
    <2> HIDE DEF P
    <2> QED
      BY <1>1, <1>2, WithoutFirstType
  <1> HIDE DEF Q
  <1> QED
    BY <1>1, <1>3, <1>4, StoppedStep

(* The process that has saved its token.                                   *)
LEMMA CommitStep ==
  ASSUME MatrixConstants, SyncInv, NEW b \in Syncers, Commit(b)
  PROVE  ProcessStep(b)
  <1> DEFINE P == bot[b]
             Q == [Idle EXCEPT !.at = "ready", !.since = P.next, !.dms = P.dms, !.stopping = P.stopping, !.asked = P.asked]
  <1>1. /\ P.at = "handling" /\ P.queue = <<>> /\ \A r \in Rooms : P.state[r] = {} /\ P.window[r] = <<>>
        /\ UNCHANGED <<timeline, fate, left>>
    BY DEF Commit, Handled, At
  <1>2. MixOK'
    BY <1>1 DEF SyncInv, MixOK
  <1>3. CASE P.stopping
    <2>1. Exit(b) /\ token' = token
      BY <1>3 DEF Commit, Saves
    <2> QED
      BY <1>1, <1>2, <2>1, ExitStep
  <1>4. CASE ~ P.stopping
    <2>1. token' = P.next /\ bot' = [bot EXCEPT ![b] = Q]
      BY <1>4 DEF Commit, Saves
    <2>2. P \in SyncerRows /\ Sound(P, timeline, fate) /\ Len(timeline) \in Nat /\ bot \in [Syncers -> SyncerRows]
      BY <1>4, InvFacts
    <2>3. \A e \in 1 .. Len(timeline) : timeline[e].room \in Rooms
      BY TimelineFacts DEF SyncInv
    <2> HIDE DEF P
    <2>4. P.next \in Nat /\ P.next <= Len(timeline) /\ P.todo = {} /\ Covered(P, timeline, fate)
      BY <1>1, <2>2 DEF Sound, SyncerRows
    <2>5. Behind(P.next, timeline, fate)
      <3> SUFFICES ASSUME NEW e \in 1 .. Len(timeline), timeline[e].kind = "message", e <= P.next, fate[e] = "none"
                   PROVE  FALSE
        BY DEF Behind
      <3>1. e \in 1 .. P.next
        BY <2>2, <2>4
      <3>2. e \in Range(P.queue) \/ e \in Range(P.window[timeline[e].room])
        BY <2>4, <3>1 DEF Covered
      <3>3. P.queue = <<>> /\ P.window[timeline[e].room] = <<>>
        BY <1>1, <2>3
      <3> QED
        BY <3>2, <3>3 DEF Range
    <2>6. /\ Q \in SyncerRows /\ Q.at = "ready" /\ Q.since = P.next /\ Q.next = 0 /\ Q.todo = {} /\ Q.queue = <<>>
          /\ Q.state = [r \in Rooms |-> {}] /\ Q.window = [r \in Rooms |-> <<>>]
      <3>1. P.dms \in [Rooms -> Answers] /\ P.stopping \in BOOLEAN /\ P.asked \in {None} \cup (Rooms \X Answers)
        BY <2>2 DEF SyncerRows
      <3>2. Idle \in SyncerRows
        BY DEF Idle, SyncerRows, Answers
      <3>3. /\ Idle.next = 0 /\ Idle.todo = {} /\ Idle.queue = <<>>
            /\ Idle.state = [r \in Rooms |-> {}] /\ Idle.window = [r \in Rooms |-> <<>>]
        BY DEF Idle
      <3> DEFINE V == Idle
      <3> HIDE DEF V
      <3>4. V \in SyncerRows /\ V.next = 0 /\ V.todo = {} /\ V.queue = <<>>
            /\ V.state = [r \in Rooms |-> {}] /\ V.window = [r \in Rooms |-> <<>>]
        BY <3>2, <3>3 DEF V
      <3>5. Q = [V EXCEPT !.at = "ready", !.since = P.next, !.dms = P.dms, !.stopping = P.stopping, !.asked = P.asked]
        BY DEF V
      <3> HIDE DEF Q
      <3> QED
        BY <2>4, <3>1, <3>4, <3>5 DEF SyncerRows
    <2> HIDE DEF Q
    <2>7. P.next # None
      BY <2>4 DEF MatrixConstants
    <2>8. Sound(Q, timeline, fate)
      BY <2>2, <2>4, <2>5, <2>6, ReadyIsSound
    <2>9. bot' \in [Syncers -> SyncerRows] /\ bot'[b] = Q /\ \A c \in Syncers \ {b} : bot'[c] = bot[c]
      BY <2>1, <2>2, <2>6
    <2>10. token' \in 0 .. Len(timeline) /\ Behind(token', timeline, fate')
      BY <1>1, <2>1, <2>2, <2>4, <2>5
    <2> QED
      BY <1>1, <1>2, <2>8, <2>9, <2>10, NothingSettled DEF ProcessStep
  <1> QED
    BY <1>3, <1>4

(* Another event at the homeserver is not settled, and nothing of what was *)
(* there changes.                                                          *)
LEMMA AppendKeeps ==
  ASSUME MatrixConstants, SyncInv, NEW x \in Row, timeline' = Append(timeline, x), Len(timeline) < MaxEvents,
         x.kind = "message" => x.content \in Contents /\ x.at \in (Len(timeline) + 1) .. (Len(timeline) + 1 + Skew),
         MixOK', fate' = fate, token' = token, bot' = bot
  PROVE  SyncInv'
  <1>1. timeline \in Seq(Row) /\ Len(timeline) \in Nat /\ MaxEvents \in Nat /\ TimelineOK(timeline)
    BY SizesOfSync DEF SyncInv, TimelineOK
  <1>2. /\ timeline' \in Seq(Row) /\ Len(timeline') = Len(timeline) + 1
        /\ \A e \in 1 .. Len(timeline) : timeline'[e] = timeline[e]
        /\ timeline'[Len(timeline) + 1] = x
    BY <1>1
  <1>3. \A e \in 1 .. Len(timeline') : e \in 1 .. Len(timeline) \/ e = Len(timeline) + 1
    BY <1>1, <1>2
  <1>4. TimelineOK(timeline')
    <2>1. \A e \in 1 .. Len(timeline') : timeline'[e].kind = "message" =>
             timeline'[e].content \in Contents /\ timeline'[e].at \in e .. e + Skew
      BY <1>1, <1>2, <1>3 DEF TimelineOK
    <2> QED
      BY <1>1, <1>2, <2>1 DEF TimelineOK
  <1>5. FateOK'
    <2>1. \A e : IsMessage(e, timeline) => IsMessage(e, timeline')
      BY <1>1, <1>2 DEF IsMessage
    <2> QED
      BY <2>1 DEF SyncInv, FateOK
  <1>6. fate[Len(timeline) + 1] = "none"
    <2>1. Len(timeline) + 1 \in Messages /\ Len(timeline) + 1 \notin 1 .. Len(timeline)
      BY <1>1 DEF Messages
    <2> QED
      BY <2>1 DEF SyncInv, FateOK, IsMessage
  <1>7. InTurn(timeline', fate')
    <2> SUFFICES ASSUME NEW e \in 1 .. Len(timeline'), NEW m \in 1 .. Len(timeline'),
                        timeline'[e].kind = "message", timeline'[m].kind = "message",
                        timeline'[e].room = timeline'[m].room, e < m, fate[m] # "none"
                 PROVE  fate[e] # "none"
      BY DEF InTurn
    <2>1. m \in 1 .. Len(timeline)
      BY <1>3, <1>6
    <2>2. e \in 1 .. Len(timeline)
      BY <1>1, <1>3, <2>1
    <2> QED
      BY <1>2, <2>1, <2>2 DEF SyncInv, InTurn
  <1>8. TokenOK'
    <2>1. token # None => token \in 0 .. Len(timeline) /\ Behind(token, timeline, fate)
      BY DEF SyncInv, TokenOK
    <2>2. token # None => Behind(token, timeline', fate)
      BY <1>1, <1>2, <1>3, <2>1 DEF Behind
    <2> QED
      BY <1>1, <1>2, <2>1, <2>2 DEF TokenOK
  <1>9. \A c \in Syncers : ~ bot'[c].stopping => Sound(bot'[c], timeline', fate')
    <2> SUFFICES ASSUME NEW c \in Syncers, ~ bot[c].stopping PROVE Sound(bot[c], timeline', fate)
      OBVIOUS
    <2>1. bot[c] \in SyncerRows /\ Sound(bot[c], timeline, fate)
      BY DEF SyncInv
    <2>2. Sound(bot[c], Append(timeline, x), fate)
      BY <1>1, <2>1, LongerIsSound
    <2> QED
      BY <2>2
  <1>10. bot' \in [Syncers -> SyncerRows]
    BY DEF SyncInv
  <1> QED
    BY <1>4, <1>5, <1>7, <1>8, <1>9, <1>10 DEF SyncInv

(* Somebody writes a message.                                              *)
LEMMA SendKeeps ==
  ASSUME MatrixConstants, SyncInv, NEW r \in left.rooms, NEW c \in Alphabets[left.contents], NEW ahead \in 0 .. left.ahead,
         Say(r, c, ahead)
  PROVE  SyncInv'
  <1> DEFINE x == [room |-> r, kind |-> "message", at |-> Len(timeline) + 1 + ahead, content |-> c]
  <1>1. r \in Rooms /\ c \in Contents /\ ahead \in 0 .. Skew /\ Skew \in Nat /\ Len(timeline) \in Nat
    <2>1. left.rooms \subseteq Rooms /\ Alphabets[left.contents] \subseteq Contents /\ left.ahead \in 0 .. Skew
      BY DEF SyncInv, MixOK
    <2>2. Skew \in Nat /\ Len(timeline) \in Nat
      BY SizesOfSync
    <2> QED
      BY <2>1, <2>2
  <1>2. x \in Row
    BY <1>1 DEF Row
  <1>3. x.content \in Contents /\ x.at \in (Len(timeline) + 1) .. (Len(timeline) + 1 + Skew)
    BY <1>1
  <1>4. timeline' = Append(timeline, x) /\ Len(timeline) < MaxEvents /\ Spends("message") /\ UNCHANGED <<fate, token, bot>>
    BY DEF Say
  <1>5. MixOK'
    BY <1>4, SpendingKeepsMix DEF SyncInv
  <1> HIDE DEF x
  <1> QED
    BY <1>2, <1>3, <1>4, <1>5, AppendKeeps

(* Somebody joins a room or leaves it.                                     *)
LEMMA JoinKeeps ==
  ASSUME MatrixConstants, SyncInv, NEW r \in left.rooms, JoinOrLeave(r)
  PROVE  SyncInv'
  <1> DEFINE x == [room |-> r, kind |-> "member", at |-> Len(timeline) + 1, content |-> None]
  <1>1. r \in Rooms /\ Len(timeline) \in Nat
    BY SizesOfSync DEF SyncInv, MixOK
  <1>2. x \in Row /\ x.kind # "message"
    BY <1>1 DEF Row
  <1>3. timeline' = Append(timeline, x) /\ Len(timeline) < MaxEvents /\ Spends("member") /\ UNCHANGED <<fate, token, bot>>
    BY DEF JoinOrLeave
  <1>4. MixOK'
    BY <1>3, SpendingKeepsMix DEF SyncInv
  <1> HIDE DEF x
  <1> QED
    BY <1>2, <1>3, <1>4, AppendKeeps

(* What a process does.                                                    *)
LEMMA GoesStep ==
  ASSUME MatrixConstants, SyncInv, NEW b \in Syncers, Goes(b)
  PROVE  ProcessStep(b)
  <1>1. CASE Acquire(b) \/ Stop(b) \/ Notice(b)
    BY <1>1, AcquireStep, StopStep
  <1>2. CASE Sync(b) \/ Dispatch(b) \/ NextRoom(b)
    BY <1>2, SyncStep, DispatchStep, NextRoomStep
  <1>3. CASE HandleMember(b) \/ LeaveAlone(b) \/ Post(b)
    BY <1>3, HandleMemberStep, LeaveAloneStep, PostStep
  <1>4. CASE HandleStopped(b) \/ Commit(b)
    BY <1>4, HandleStoppedStep, CommitStep
  <1>5. CASE \E r \in Rooms : LookUp(b, r) \/ PassOver(b, r) \/ Fill(b, r) \/ FillStopped(b, r)
    BY <1>5, LookUpStep, PassOverStep, FillStep, FillStoppedStep
  <1> QED
    BY <1>1, <1>2, <1>3, <1>4, <1>5 DEF Goes

(* What goes wrong with one.                                               *)
LEMMA SuffersStep ==
  ASSUME MatrixConstants, SyncInv, NEW b \in Syncers, Suffers(b)
  PROVE  ProcessStep(b)
  <1>1. CASE Crash(b) \/ Terminate(b)
    BY <1>1, CrashStep, TerminateStep
  <1>2. CASE PostUnheard(b) \/ PostRefused(b) \/ PostFails(b) \/ PostUnanswered(b)
    BY <1>2, PostStep, PostRefusedStep, PostUnansweredStep
  <1>3. CASE \E r \in Rooms : LookUpFails(b, r) \/ RoomGone(b, r) \/ FillFails(b, r)
    BY <1>3, LookUpFailsStep, RoomGoneStep
  <1> QED
    BY <1>1, <1>2, <1>3 DEF Suffers

(* A process goes on, or nothing of the messages changes.                  *)
MatrixStep ==
  \/ \E b \in Syncers : ProcessStep(b)
  \/ \E r \in left.rooms, c \in Alphabets[left.contents], ahead \in 0 .. left.ahead : Say(r, c, ahead)
  \/ \E r \in left.rooms : JoinOrLeave(r)
  \/ UNCHANGED <<timeline, fate, token, bot>> /\ (left' = left \/ Spends("lock"))

(* There are no other steps.                                               *)
LEMMA StepsOfMatrix ==
  ASSUME MatrixConstants, SyncInv, [SyncNext]_syncVars
  PROVE  MatrixStep
  <1>1. CASE SyncNext
    <2>1. CASE \E b \in Syncers : Goes(b)
      BY <2>1, GoesStep DEF MatrixStep
    <2>2. CASE \E b \in Syncers : Suffers(b)
      BY <2>2, SuffersStep DEF MatrixStep
    <2>3. CASE \E b \in Syncers, r \in Rooms : OutboxAsks(b, r)
      BY <2>3, OutboxAsksStep DEF MatrixStep
    <2>4. CASE \E b \in Syncers : OutboxRemembers(b)
      BY <2>4, OutboxRemembersStep DEF MatrixStep
    <2>5. CASE LoseLock
      BY <2>5 DEF MatrixStep, LoseLock
    <2>6. CASE \E r \in left.rooms, c \in Alphabets[left.contents], ahead \in 0 .. left.ahead : Say(r, c, ahead)
      BY <2>6 DEF MatrixStep
    <2>7. CASE \E r \in left.rooms : JoinOrLeave(r)
      BY <2>7 DEF MatrixStep
    <2> QED
      BY <1>1, <2>1, <2>2, <2>3, <2>4, <2>5, <2>6, <2>7 DEF SyncNext
  <1>2. CASE UNCHANGED syncVars
    BY <1>2 DEF MatrixStep, syncVars
  <1> QED
    BY <1>1, <1>2

(* The invariant is inductive.                                             *)
LEMMA SyncInvIsKept ==
  ASSUME MatrixConstants, SyncInv, [SyncNext]_syncVars
  PROVE  SyncInv'
  <1>1. CASE \E b \in Syncers : ProcessStep(b)
    BY <1>1, ProcessStepKeeps
  <1>2. CASE \E r \in left.rooms, c \in Alphabets[left.contents], ahead \in 0 .. left.ahead : Say(r, c, ahead)
    BY <1>2, SendKeeps
  <1>3. CASE \E r \in left.rooms : JoinOrLeave(r)
    BY <1>3, JoinKeeps
  <1>4. CASE UNCHANGED <<timeline, fate, token, bot>> /\ (left' = left \/ Spends("lock"))
    <2>1. MixOK'
      BY <1>4, SpendingKeepsMix DEF SyncInv
    <2> QED
      BY <1>4, <2>1 DEF SyncInv, FateOK, TokenOK
  <1> QED
    BY <1>1, <1>2, <1>3, <1>4, StepsOfMatrix DEF MatrixStep

(* It holds before the first message.                                      *)
LEMMA SyncInvAtFirst ==
  ASSUME MatrixConstants, SyncInit
  PROVE  SyncInv
  <1>1. /\ timeline = <<>> /\ token = None /\ left \in Mixes
        /\ fate = [e \in Messages |-> "none"] /\ bot = [b \in Syncers |-> Idle]
    BY DEF SyncInit
  <1>2. Len(timeline) = 0 /\ timeline \in Seq(Row) /\ MaxEvents \in Nat
    BY <1>1 DEF MatrixConstants
  <1>3. TimelineOK(timeline) /\ InTurn(timeline, fate)
    BY <1>2 DEF TimelineOK, InTurn
  <1>4. MixOK
    BY <1>1 DEF MixOK, MatrixConstants
  <1>5. FateOK
    BY <1>1 DEF FateOK, Fates
  <1>6. TokenOK
    BY <1>1 DEF TokenOK
  <1>7. Idle \in SyncerRows /\ Sound(Idle, timeline, fate)
    BY <1>2, WaitingIsSound
  <1> QED
    BY <1>1, <1>3, <1>4, <1>5, <1>6, <1>7 DEF SyncInv

(* What a reader finds again in parts that Core was given.                 *)
Found(parts) == {IF parts[i] = "failed" THEN "file" ELSE parts[i] : i \in DOMAIN parts}

PartLists == {<<>>, <<"text">>, <<"file">>, <<"file", "text">>, <<"unsupported">>}

(* A file that could not be moved leaves a trace.                          *)
LEMMA MovedIsFound ==
  ASSUME NEW parts, \A i \in DOMAIN parts : parts[i] # "failed", NEW moved \in Moved(parts)
  PROVE  {parts[i] : i \in DOMAIN parts} \subseteq Found(moved)
  <1> SUFFICES ASSUME NEW i \in DOMAIN parts PROVE parts[i] \in Found(moved)
    OBVIOUS
  <1>1. DOMAIN moved = DOMAIN parts
    BY DEF Moved
  <1>2. moved[i] = parts[i] \/ (parts[i] = "file" /\ moved[i] = "failed")
    BY DEF Moved
  <1>3. (IF moved[i] = "failed" THEN "file" ELSE moved[i]) = parts[i]
    BY <1>2
  <1> QED
    BY <1>1, <1>3 DEF Found

(* What is in each of the lists of parts.                                  *)
LEMMA PartListFacts ==
  ASSUME NEW parts \in PartLists
  PROVE  /\ \A i \in DOMAIN parts : parts[i] # "failed"
         /\ parts = <<"text">> => {parts[i] : i \in DOMAIN parts} = {"text"}
         /\ parts = <<"file">> => {parts[i] : i \in DOMAIN parts} = {"file"}
         /\ parts = <<"file", "text">> => {parts[i] : i \in DOMAIN parts} = {"text", "file"}
         /\ parts = <<"unsupported">> => {parts[i] : i \in DOMAIN parts} = {"unsupported"}
  <1>1. CASE parts = <<>>
    BY <1>1
  <1>2. CASE parts = <<"text">>
    BY <1>2
  <1>3. CASE parts = <<"file">>
    BY <1>3
  <1>4. CASE parts = <<"file", "text">>
    <2>1. DOMAIN parts = {1, 2} /\ parts[1] = "file" /\ parts[2] = "text"
      BY <1>4
    <2> QED
      BY <1>4, <2>1
  <1>5. CASE parts = <<"unsupported">>
    BY <1>5
  <1> QED
    BY <1>1, <1>2, <1>3, <1>4, <1>5 DEF PartLists

(* One part after another.                                                 *)
LEMMA TwoInARow ==
  \A x, y : <<x>> \o <<y>> = <<x, y>> /\ <<x>> \o <<>> = <<x>>
  <1> SUFFICES ASSUME NEW x, NEW y PROVE <<x>> \o <<y>> = <<x, y>> /\ <<x>> \o <<>> = <<x>>
    OBVIOUS
  <1> DEFINE S == {x, y}
             f == <<x>>
             t == <<y>>
  <1>1. f \in Seq(S) /\ t \in Seq(S) /\ Len(f) = 1 /\ Len(t) = 1 /\ f[1] = x /\ t[1] = y
    OBVIOUS
  <1>2. <<x, y>> \in Seq(S) /\ Len(<<x, y>>) = 2 /\ <<x, y>>[1] = x /\ <<x, y>>[2] = y
    OBVIOUS
  <1> HIDE DEF S, f, t
  <1>3. f \o t \in Seq(S) /\ Len(f \o t) = 2 /\ (f \o t)[1] = x /\ (f \o t)[2] = y
    BY <1>1, ConcatProperties
  <1>4. f \o t = <<x, y>>
    <2> DEFINE u == f \o t
               v == <<x, y>>
    <2>1. /\ u \in Seq(S) /\ Len(u) = 2 /\ u[1] = x /\ u[2] = y
          /\ v \in Seq(S) /\ Len(v) = 2 /\ v[1] = x /\ v[2] = y
      BY <1>2, <1>3
    <2> HIDE DEF u, v
    <2>2. \A i \in 1 .. Len(u) : u[i] = v[i]
      <3>1. \A i \in 1 .. 2 : i = 1 \/ i = 2
        OBVIOUS
      <3> QED
        BY <2>1, <3>1
    <2>3. u = v
      BY <2>1, <2>2, SeqEqual
    <2> QED
      BY <2>3 DEF u, v
  <1>5. f \o <<>> = f
    BY <1>1, ConcatEmptySeq
  <1> QED
    BY <1>4, <1>5 DEF f, t

(* The parts of a content, by its type.                                    *)
LEMMA PartsOfContent ==
  ASSUME NEW c \in Contents
  PROVE  /\ c.type \in {"text", "location"} => PartsOf(c) = IF c.text THEN <<"text">> ELSE <<>>
         /\ c.type = "media" /\ c.file => PartsOf(c) = IF c.text THEN <<"file", "text">> ELSE <<"file">>
         /\ c.type \notin {"text", "location"} /\ ~ (c.type = "media" /\ c.file) => PartsOf(c) = <<"unsupported">>
         /\ Texts(c) = IF c.text THEN <<"text">> ELSE <<>>
         /\ c.type \in {"text", "location", "media", "notice", "redaction", "other"}
         /\ c.text \in BOOLEAN /\ c.file \in BOOLEAN /\ c.command \in BOOLEAN /\ c.edits \in BOOLEAN /\ c.target \in BOOLEAN
         /\ c.command => c.type = "text" /\ c.text
         /\ c.file => c.type = "media"
  <1>1. /\ c.type \in {"text", "location", "media", "notice", "redaction", "other"}
        /\ c.text \in BOOLEAN /\ c.file \in BOOLEAN /\ c.command \in BOOLEAN /\ c.edits \in BOOLEAN /\ c.target \in BOOLEAN
        /\ c.command => c.type = "text" /\ c.text
        /\ c.file => c.type = "media"
    BY DEF Contents, Types
  <1>2. Texts(c) = IF c.text THEN <<"text">> ELSE <<>>
    BY DEF Texts
  <1>3. c.type \in {"text", "location"} => PartsOf(c) = Texts(c)
    BY DEF PartsOf
  <1>4. c.type = "media" /\ c.file => PartsOf(c) = <<"file">> \o Texts(c)
    BY DEF PartsOf
  <1>5. <<"file">> \o <<"text">> = <<"file", "text">> /\ <<"file">> \o <<>> = <<"file">>
    BY TwoInARow
  <1>6. c.type \notin {"text", "location"} /\ ~ (c.type = "media" /\ c.file) => PartsOf(c) = <<"unsupported">>
    BY <1>1 DEF PartsOf
  <1>7. c.type = "media" /\ c.file => PartsOf(c) = IF c.text THEN <<"file", "text">> ELSE <<"file">>
    BY <1>1, <1>2, <1>4, <1>5
  <1> QED
    BY <1>1, <1>2, <1>3, <1>6, <1>7

(* What was said is among the parts that an event is made into.            *)
LEMMA SaidIsNormalised ==
  ASSUME NEW c \in Contents
  PROVE  /\ Normalised(c) = Nothing => Said(c) = {}
         /\ \A moved \in Moved(Normalised(c).parts) : Said(c) \subseteq Found(moved)
  <1>1. /\ c.type \in {"text", "location", "media", "notice", "redaction", "other"}
        /\ c.text \in BOOLEAN /\ c.file \in BOOLEAN /\ c.command \in BOOLEAN /\ c.edits \in BOOLEAN /\ c.target \in BOOLEAN
        /\ c.command => c.type = "text" /\ c.text
        /\ c.file => c.type = "media"
    BY PartsOfContent
  <1>2. CASE c.type \in {"notice", "redaction"} \/ c.command \/ (c.edits /\ ~ c.target)
    <2>1. Said(c) = {}
      BY <1>2 DEF Said
    <2> QED
      BY <2>1
  <1>3. CASE ~ (c.type \in {"notice", "redaction"} \/ c.command \/ (c.edits /\ ~ c.target))
    <2> DEFINE p == IF c.edits /\ c.type = "media" THEN Texts(c) ELSE PartsOf(c)
    <2>1. Normalised(c) = Event(p)
      <3>1. Normalised(c) = Message(c)
        BY <1>3 DEF Normalised
      <3>2. CASE c.edits
        <4>1. Message(c) = Edit(c)
          BY <1>3, <3>2 DEF Message
        <4>2. Edit(c) = Event(p)
          BY <3>2 DEF Edit
        <4> QED
          BY <3>1, <4>1, <4>2
      <3>3. CASE ~ c.edits
        <4>1. Message(c) = Event(PartsOf(c))
          BY <1>3, <3>3 DEF Message
        <4>2. p = PartsOf(c)
          BY <3>3
        <4> QED
          BY <3>1, <4>1, <4>2
      <3> QED
        BY <3>2, <3>3
    <2>2. /\ c.type \in {"text", "location"} => p = IF c.text THEN <<"text">> ELSE <<>>
          /\ c.type = "media" /\ c.edits => p = IF c.text THEN <<"text">> ELSE <<>>
          /\ c.type = "media" /\ ~ c.edits /\ c.file => p = IF c.text THEN <<"file", "text">> ELSE <<"file">>
          /\ c.type = "media" /\ ~ c.edits /\ ~ c.file => p = <<"unsupported">>
          /\ c.type = "other" => p = <<"unsupported">>
      BY <1>1, PartsOfContent
    <2> HIDE DEF p
    <2>3. p \in PartLists
      BY <1>1, <1>3, <2>2 DEF PartLists
    <2>4. Said(c) = (IF c.text /\ (c.type \in {"text", "location"} \/ c.file) THEN {"text"} ELSE {})
                      \cup (IF c.file /\ ~ c.edits THEN {"file"} ELSE {})
                      \cup (IF c.type = "other" \/ (c.type = "media" /\ ~ c.file /\ ~ c.edits) THEN {"unsupported"} ELSE {})
      BY <1>3 DEF Said
    <2>5. Said(c) \subseteq {p[i] : i \in DOMAIN p}
      <3> DEFINE R == {p[i] : i \in DOMAIN p}
      <3>1. /\ p = <<"text">> => R = {"text"}
            /\ p = <<"file">> => R = {"file"}
            /\ p = <<"file", "text">> => R = {"text", "file"}
            /\ p = <<"unsupported">> => R = {"unsupported"}
        BY <2>3, PartListFacts
      <3> HIDE DEF R
      <3>2. Said(c) \subseteq R
        BY <1>1, <1>3, <2>2, <2>4, <3>1
      <3> QED
        BY <3>2 DEF R
    <2>6. p = <<>> => Said(c) = {}
      BY <2>5
    <2>7. p # <<>> => Normalised(c).parts = p /\ Normalised(c) # Nothing
      BY <2>1 DEF Event, Nothing
    <2>8. ASSUME p # <<>>, NEW moved \in Moved(Normalised(c).parts) PROVE Said(c) \subseteq Found(moved)
      <3>1. moved \in Moved(p)
        BY <2>7, <2>8
      <3>2. \A i \in DOMAIN p : p[i] # "failed"
        BY <2>3, PartListFacts
      <3>3. {p[i] : i \in DOMAIN p} \subseteq Found(moved)
        BY <3>1, <3>2, MovedIsFound
      <3> QED
        BY <2>5, <3>3
    <2> QED
      BY <2>6, <2>7, <2>8
  <1> QED
    BY <1>2, <1>3

(* What Core is given, and what is left alone, fits what was said.         *)
ContentStep ==
  /\ DOMAIN core' = DOMAIN core
  /\ \A e \in 1 .. Len(timeline) : timeline[e].kind = "message" =>
       /\ fate'[e] = "stored" =>
            \/ fate[e] = "stored" /\ core'[e] = core[e]
            \/ Said(timeline[e].content) \subseteq Found(core'[e])
       /\ fate'[e] = "nothing" => fate[e] = "nothing" \/ Said(timeline[e].content) = {}

(* A step that hands nothing over and settles nothing.                     *)
LEMMA SameContents ==
  ASSUME UNCHANGED <<core, fate>>
  PROVE  ContentStep
  BY DEF ContentStep

(* Messages are settled without being handed over.                         *)
LEMMA GivenUpContents ==
  ASSUME MatrixConstants, SyncInv, UNCHANGED core, NEW S,
         NEW what \in Fates \ {"stored", "nothing"}, Becomes(S, what)
  PROVE  ContentStep
  <1>1. ASSUME NEW e \in 1 .. Len(timeline) PROVE fate'[e] = what \/ fate'[e] = fate[e]
    <2>1. e \in Messages
      BY SizesOfSync
    <2> QED
      BY <2>1 DEF Becomes
  <1> QED
    BY <1>1 DEF ContentStep

(* The messages of a gap are passed over.                                  *)
LEMMA PassedOverContents ==
  ASSUME MatrixConstants, SyncInv, NEW b \in Syncers, NEW r \in Rooms, PassOver(b, r)
  PROVE  ContentStep
  <1>1. ASSUME NEW e \in 1 .. Len(timeline) PROVE fate'[e] \in {"unserved", "ignored", fate[e]}
    <2>1. e \in Messages
      BY SizesOfSync
    <2> QED
      BY <2>1 DEF PassOver
  <1>2. core' = core
    BY DEF PassOver
  <1> QED
    BY <1>1, <1>2 DEF ContentStep

(* Only what holds nothing counts as nothing (normalise.go).               *)
LEMMA LeftAloneContents ==
  ASSUME MatrixConstants, SyncInv, NEW b \in Syncers, LeaveAlone(b)
  PROVE  ContentStep
  <1> DEFINE h == Head(bot[b].queue)
  <1>1. core' = core
    BY DEF LeaveAlone
  <1>2. CASE \E what \in {"foreign", "unserved", "ignored"} : Becomes({h}, what)
    <2>1. {"foreign", "unserved", "ignored"} \subseteq Fates \ {"stored", "nothing"}
      BY DEF Fates
    <2> QED
      BY <1>1, <1>2, <2>1, GivenUpContents
  <1>3. CASE Normalised(timeline[h].content) = Nothing /\ Becomes({h}, "nothing")
    <2>1. ASSUME NEW e \in 1 .. Len(timeline), timeline[e].kind = "message", e # h
          PROVE  fate'[e] = fate[e]
      <3>1. e \in Messages
        BY SizesOfSync
      <3> QED
        BY <1>3, <2>1, <3>1 DEF Becomes
    <2>2. ASSUME NEW e \in 1 .. Len(timeline), timeline[e].kind = "message", e = h
          PROVE  /\ Said(timeline[e].content) = {}
                 /\ fate'[e] = "stored" => fate[e] = "stored"
      <3>1. e \in Messages
        BY SizesOfSync
      <3>2. timeline[e].content \in Contents
        BY <2>2 DEF SyncInv, TimelineOK
      <3>3. fate'[e] = "nothing" \/ fate'[e] = fate[e]
        BY <1>3, <3>1 DEF Becomes
      <3> QED
        BY <1>3, <2>2, <3>2, <3>3, SaidIsNormalised
    <2> HIDE DEF h
    <2> QED
      BY <1>1, <2>1, <2>2 DEF ContentStep
  <1> QED
    BY <1>2, <1>3 DEF LeaveAlone

(* Core stores what the event was made into, once.                         *)
LEMMA StoredContents ==
  ASSUME MatrixConstants, SyncInv, ContentInv, NEW h, Stores(h)
  PROVE  ContentStep
  <1>1. Becomes({h}, "stored")
    BY DEF Stores
  <1>2. CASE fate[h] = "stored"
    <2>1. core' = core
      BY <1>2 DEF Stores
    <2>2. ASSUME NEW e \in 1 .. Len(timeline) PROVE fate'[e] = fate[e]
      <3>1. e \in Messages
        BY SizesOfSync
      <3> QED
        BY <1>1, <1>2, <3>1 DEF Becomes
    <2> QED
      BY <2>1, <2>2 DEF ContentStep
  <1>3. CASE fate[h] # "stored"
    <2>1. PICK parts \in Moved(Normalised(timeline[h].content).parts) : core' = [core EXCEPT ![h] = parts]
      BY <1>3 DEF Stores
    <2>2. DOMAIN core = Messages
      BY DEF ContentInv
    <2>3. ASSUME NEW e \in 1 .. Len(timeline), timeline[e].kind = "message", e # h
          PROVE  fate'[e] = fate[e] /\ core'[e] = core[e]
      <3>1. e \in Messages
        BY SizesOfSync
      <3> QED
        BY <1>1, <2>1, <2>2, <2>3, <3>1 DEF Becomes
    <2>4. ASSUME NEW e \in 1 .. Len(timeline), timeline[e].kind = "message", e = h
          PROVE  fate'[e] = "stored" /\ Said(timeline[e].content) \subseteq Found(core'[e])
      <3>1. e \in Messages
        BY SizesOfSync
      <3>2. timeline[e].content \in Contents
        BY <2>4 DEF SyncInv, TimelineOK
      <3>3. core'[e] = parts
        BY <2>1, <2>2, <2>4, <3>1
      <3>4. fate'[e] = "stored"
        BY <1>1, <1>3, <2>4, <3>1 DEF Becomes
      <3> QED
        BY <2>1, <2>4, <3>2, <3>3, <3>4, SaidIsNormalised
    <2>5. DOMAIN core' = DOMAIN core
      BY <2>1
    <2> QED
      BY <2>3, <2>4, <2>5 DEF ContentStep
  <1> QED
    BY <1>2, <1>3

(* What a process does.                                                    *)
LEMMA GoesContents ==
  ASSUME MatrixConstants, SyncInv, ContentInv, NEW b \in Syncers, Goes(b)
  PROVE  ContentStep
  <1>0. {"history", "truncated", "gone", "refused"} \subseteq Fates \ {"stored", "nothing"}
    BY DEF Fates
  <1>1. CASE \/ Acquire(b) \/ Stop(b) \/ Notice(b) \/ Dispatch(b) \/ NextRoom(b) \/ HandleMember(b)
             \/ HandleStopped(b) \/ Commit(b)
    <2>1. UNCHANGED <<core, fate>>
      BY <1>1 DEF Acquire, Stop, Notice, Dispatch, NextRoom, HandleMember, HandleStopped, Commit
    <2> QED
      BY <2>1, SameContents
  <1>2. CASE Sync(b)
    <2>1. core' = core /\ (fate' = fate \/ \E S : Becomes(S, "history"))
      BY <1>2 DEF Sync
    <2> QED
      BY <1>0, <2>1, SameContents, GivenUpContents
  <1>3. CASE LeaveAlone(b)
    BY <1>3, LeftAloneContents
  <1>4. CASE Post(b)
    BY <1>4, StoredContents DEF Post
  <1>5. CASE \E r \in Rooms : LookUp(b, r) \/ FillStopped(b, r)
    <2>1. UNCHANGED <<core, fate>>
      BY <1>5 DEF LookUp, FillStopped
    <2> QED
      BY <2>1, SameContents
  <1>6. CASE \E r \in Rooms : PassOver(b, r)
    BY <1>6, PassedOverContents
  <1>7. CASE \E r \in Rooms : Fill(b, r)
    <2>1. core' = core /\ \E S : Becomes(S, "truncated")
      BY <1>7 DEF Fill
    <2> QED
      BY <1>0, <2>1, GivenUpContents
  <1> QED
    BY <1>1, <1>2, <1>3, <1>4, <1>5, <1>6, <1>7 DEF Goes

(* What goes wrong with one.                                               *)
LEMMA SuffersContents ==
  ASSUME MatrixConstants, SyncInv, ContentInv, NEW b \in Syncers, Suffers(b)
  PROVE  ContentStep
  <1>0. {"history", "truncated", "gone", "refused"} \subseteq Fates \ {"stored", "nothing"}
    BY DEF Fates
  <1>1. CASE Crash(b) \/ Terminate(b) \/ PostUnanswered(b)
    <2>1. UNCHANGED <<core, fate>>
      BY <1>1 DEF Crash, Terminate, PostUnanswered
    <2> QED
      BY <2>1, SameContents
  <1>2. CASE PostUnheard(b)
    BY <1>2, StoredContents DEF PostUnheard
  <1>3. CASE PostRefused(b) \/ PostFails(b)
    <2>1. core' = core /\ (fate' = fate \/ Becomes({Head(bot[b].queue)}, "refused"))
      BY <1>3 DEF PostRefused, PostFails, Refuse
    <2> QED
      BY <1>0, <2>1, SameContents, GivenUpContents
  <1>4. CASE \E r \in Rooms : LookUpFails(b, r) \/ FillFails(b, r)
    <2>1. UNCHANGED <<core, fate>>
      BY <1>4 DEF LookUpFails, FillFails
    <2> QED
      BY <2>1, SameContents
  <1>5. CASE \E r \in Rooms : RoomGone(b, r)
    <2>1. core' = core /\ \E S : Becomes(S, "gone")
      BY <1>5 DEF RoomGone
    <2> QED
      BY <1>0, <2>1, GivenUpContents
  <1> QED
    BY <1>1, <1>2, <1>3, <1>4, <1>5 DEF Suffers

(* The row of a new event.                                                 *)
LEMMA SentRow ==
  ASSUME MatrixConstants, SyncInv, NEW r \in left.rooms, NEW c \in Alphabets[left.contents], NEW ahead \in 0 .. left.ahead,
         Say(r, c, ahead)
  PROVE  \E x \in Row : timeline' = Append(timeline, x) /\ fate' = fate /\ Len(timeline) < MaxEvents
  <1> DEFINE x == [room |-> r, kind |-> "message", at |-> Len(timeline) + 1 + ahead, content |-> c]
  <1>1. timeline' = Append(timeline, x) /\ fate' = fate /\ Len(timeline) < MaxEvents
    BY DEF Say
  <1>2. x \in Row
    <2>1. left.rooms \subseteq Rooms /\ Alphabets[left.contents] \subseteq Contents /\ left.ahead \in 0 .. Skew
      BY DEF SyncInv, MixOK
    <2>2. Skew \in Nat /\ Len(timeline) \in Nat
      BY SizesOfSync
    <2> QED
      BY <2>1, <2>2 DEF Row
  <1> QED
    BY <1>1, <1>2

(* The same for somebody who joins or leaves.                              *)
LEMMA JoinedRow ==
  ASSUME MatrixConstants, SyncInv, NEW r \in left.rooms, JoinOrLeave(r)
  PROVE  \E x \in Row : timeline' = Append(timeline, x) /\ fate' = fate /\ Len(timeline) < MaxEvents
  <1> DEFINE x == [room |-> r, kind |-> "member", at |-> Len(timeline) + 1, content |-> None]
  <1>1. timeline' = Append(timeline, x) /\ fate' = fate /\ Len(timeline) < MaxEvents
    BY DEF JoinOrLeave
  <1>2. x \in Row
    BY SizesOfSync DEF SyncInv, MixOK, Row
  <1> QED
    BY <1>1, <1>2

(* The other steps concern neither; a new message is not settled yet.      *)
LEMMA ContentsAreKept ==
  ASSUME MatrixConstants, SyncInv, ContentInv, [SyncNext]_syncVars
  PROVE  ContentInv'
  <1>1. ContentStep
    <2>1. CASE \E b \in Syncers : Goes(b)
      BY <2>1, GoesContents
    <2>2. CASE \E b \in Syncers : Suffers(b)
      BY <2>2, SuffersContents
    <2>3. CASE ~ (\E b \in Syncers : Goes(b)) /\ ~ (\E b \in Syncers : Suffers(b))
      <3>1. UNCHANGED <<core, fate>>
        BY <2>3 DEF SyncNext, syncVars, Say, JoinOrLeave, LoseLock, OutboxAsks, OutboxRemembers
      <3> QED
        BY <3>1, SameContents
    <2> QED
      BY <2>1, <2>2, <2>3
  <1>2. /\ Len(timeline) \in Nat
        /\ \A e \in 1 .. Len(timeline') : (e \in 1 .. Len(timeline) /\ timeline'[e] = timeline[e]) \/ fate'[e] = "none"
    <2>0. timeline \in Seq(Row) /\ Len(timeline) \in Nat /\ Len(timeline) <= MaxEvents
      BY SizesOfSync DEF SyncInv, TimelineOK
    <2>1. CASE timeline' = timeline
      BY <2>0, <2>1
    <2>2. CASE \E x \in Row : timeline' = Append(timeline, x) /\ fate' = fate /\ Len(timeline) < MaxEvents
      <3>1. PICK x \in Row : timeline' = Append(timeline, x) /\ fate' = fate /\ Len(timeline) < MaxEvents
        BY <2>2
      <3>2. Len(timeline') = Len(timeline) + 1 /\ \A e \in 1 .. Len(timeline) : timeline'[e] = timeline[e]
        BY <2>0, <3>1
      <3>3. fate[Len(timeline) + 1] = "none"
        <4>1. Len(timeline) + 1 \in Messages /\ Len(timeline) + 1 \notin 1 .. Len(timeline)
          BY <2>0, <3>1, SizesOfSync DEF Messages
        <4> QED
          BY <4>1 DEF SyncInv, FateOK, IsMessage
      <3>4. \A e \in 1 .. Len(timeline') : e \in 1 .. Len(timeline) \/ e = Len(timeline) + 1
        BY <2>0, <3>2
      <3> QED
        BY <2>0, <3>1, <3>2, <3>3, <3>4
    <2>3. CASE \E r \in left.rooms, c \in Alphabets[left.contents], ahead \in 0 .. left.ahead : Say(r, c, ahead)
      BY <2>2, <2>3, SentRow
    <2>4. CASE \E r \in left.rooms : JoinOrLeave(r)
      BY <2>2, <2>4, JoinedRow
    <2> QED
      BY <2>1, <2>3, <2>4, StepsOfMatrix DEF MatrixStep, ProcessStep
  <1>3. DOMAIN core' = Messages
    BY <1>1 DEF ContentInv, ContentStep
  <1>4. ASSUME NEW e \in 1 .. Len(timeline'), timeline'[e].kind = "message"
        PROVE  /\ fate'[e] = "stored" => Said(timeline'[e].content) \subseteq Found(core'[e])
               /\ fate'[e] = "nothing" => Said(timeline'[e].content) = {}
    <2>1. CASE fate'[e] = "none"
      BY <2>1
    <2>2. CASE e \in 1 .. Len(timeline) /\ timeline'[e] = timeline[e]
      <3>1. /\ fate[e] = "stored" => Said(timeline[e].content) \subseteq Found(core[e])
            /\ fate[e] = "nothing" => Said(timeline[e].content) = {}
        BY <1>4, <2>2 DEF ContentInv, Kept, Found
      <3> QED
        BY <1>1, <1>4, <2>2, <3>1 DEF ContentStep
    <2> QED
      BY <1>2, <2>1, <2>2
  <1> QED
    BY <1>3, <1>4 DEF ContentInv, Kept, Found, Messages

(* Before the first message Core has been given nothing.                   *)
LEMMA ContentInvAtFirst == SyncInit => ContentInv
  <1> SUFFICES ASSUME SyncInit PROVE ContentInv
    OBVIOUS
  <1>1. timeline = <<>> /\ core = [e \in Messages |-> <<>>]
    BY DEF SyncInit
  <1>2. Len(timeline) = 0
    BY <1>1
  <1> QED
    BY <1>1, <1>2 DEF ContentInv

(* Behind the token everything is settled, and what Core has is what was   *)
(* said.                                                                   *)
LEMMA SettledBehindToken ==
  ASSUME SyncInv, ContentInv
  PROVE  NoMessageSkipped
  <1>1. timeline \in Seq(Row) /\ Len(timeline) \in Nat
    BY DEF SyncInv, TimelineOK
  <1>2. DOMAIN timeline = 1 .. Len(timeline)
    BY <1>1
  <1>3. token # None => Behind(token, timeline, fate)
    BY DEF SyncInv, TokenOK
  <1> QED
    BY <1>2, <1>3 DEF NoMessageSkipped, ContentInv, Behind

(* Behind the saved token every message is settled, and Core has all that  *)
(* was said or a trace of the file that was lost, whatever ended the       *)
(* processes and wherever, as long as no clock is further ahead than a gap *)
(* is filled back (bot.go, backfill.go, syncack.go, normalise.go).         *)
THEOREM NothingIsSkipped == SyncSpec => []NoMessageSkipped
  <1> USE MatrixAssumption
  <1>1. SyncInit => SyncInv /\ ContentInv
    BY SyncInvAtFirst, ContentInvAtFirst
  <1>2. SyncInv /\ ContentInv /\ [SyncNext]_syncVars => SyncInv' /\ ContentInv'
    BY SyncInvIsKept, ContentsAreKept
  <1>3. SyncInv /\ ContentInv => NoMessageSkipped
    BY SettledBehindToken
  <1> QED
    BY <1>1, <1>2, <1>3, PTL DEF SyncSpec

-----------------------------------------------------------------------------
RoomOf == [e \in Messages |-> IF e <= Len(timeline) /\ timeline[e].kind = "message" THEN timeline[e].room ELSE 0]
SettledNow == {e \in Messages : fate[e] # "none"}

(* The rooms of the messages that are written.                             *)
LEMMA RoomsOfMessages ==
  ASSUME MatrixConstants, SyncInv
  PROVE  /\ RoomOf \in [Messages -> Rooms \cup {0}]
         /\ \A e \in Messages : RoomOf[e] # 0 <=> IsMessage(e, timeline)
         /\ \A e \in Messages : IsMessage(e, timeline) => RoomOf[e] = timeline[e].room
  <1>1. Len(timeline) \in Nat /\ \A e \in 1 .. Len(timeline) : timeline[e].room \in Rooms
    BY TimelineFacts, SizesOfSync DEF SyncInv
  <1>2. \A e \in Messages : e \in 1 .. Len(timeline) <=> e <= Len(timeline)
    BY <1>1 DEF Messages
  <1>3. 0 \notin Rooms
    BY DEF MatrixConstants
  <1>4. \A e \in Messages : RoomOf[e] = IF e \in 1 .. Len(timeline) /\ timeline[e].kind = "message" THEN timeline[e].room ELSE 0
    BY <1>2 DEF RoomOf
  <1>5. RoomOf \in [Messages -> Rooms \cup {0}]
    <2>1. \A e \in Messages : RoomOf[e] \in Rooms \cup {0}
      BY <1>1, <1>4
    <2> QED
      BY <2>1 DEF RoomOf
  <1> QED
    BY <1>1, <1>3, <1>4, <1>5 DEF IsMessage

(* At first nothing is written and nothing settled.                        *)
LEMMA HandoverAtFirst ==
  ASSUME MatrixConstants, SyncInit
  PROVE  Order!Init
  <1>1. RoomOf \in [Messages -> Rooms \cup {0}]
    BY RoomsOfMessages, SyncInvAtFirst
  <1>2. SettledNow = {}
    BY DEF SyncInit, SettledNow
  <1>3. Order!Init <=> RoomOf \in [Messages -> Rooms \cup {0}] /\ SettledNow \in SUBSET {m \in Messages : RoomOf[m] # 0}
    BY DEF Order!Init, RoomOf, SettledNow
  <1> QED
    BY <1>1, <1>2, <1>3

(* Settling messages that are next in their rooms is a step of Handover,   *)
(* or none.                                                                *)
LEMMA SettlingIsPromised ==
  ASSUME MatrixConstants, SyncInv, NEW S \in SUBSET Messages, Settles(S), Closed(S), timeline' = timeline
  PROVE  [Order!Next]_(Order!vars)
  <1>1. RoomOf' = RoomOf
    BY DEF RoomOf, Messages
  <1>2. SettledNow' = SettledNow \cup S
    BY DEF SettledNow, Settles, Messages
  <1>3. CASE S = {}
    <2>1. SettledNow' = SettledNow
      BY <1>2, <1>3
    <2> QED
      BY <1>1, <2>1 DEF Order!vars, RoomOf, SettledNow
  <1>4. CASE S # {}
    <2>1. ASSUME NEW m \in S PROVE RoomOf[m] # 0
      BY RoomsOfMessages DEF Closed, IsMessage
    <2>2. ASSUME NEW m \in S, NEW e \in Messages, e < m, RoomOf[e] = RoomOf[m] PROVE e \in SettledNow \cup S
      <3>1. IsMessage(m, timeline) /\ IsMessage(e, timeline)
        BY <2>1, <2>2, RoomsOfMessages
      <3>2. timeline[e].room = timeline[m].room
        BY <2>2, <3>1, RoomsOfMessages
      <3>3. fate[e] # "none" \/ e \in S
        BY <2>2, <3>1, <3>2 DEF Closed, IsMessage
      <3> QED
        BY <2>2, <3>3 DEF SettledNow
    <2>3. Order!Settle(S)
      BY <1>1, <1>2, <1>4, <2>1, <2>2 DEF Order!Settle, RoomOf, SettledNow
    <2> QED
      BY <2>3 DEF Order!Next
  <1> QED
    BY <1>3, <1>4

(* So is a new message; an event of a member is none.                      *)
LEMMA WritingIsPromised ==
  ASSUME MatrixConstants, SyncInv, NEW x \in Row, timeline' = Append(timeline, x), Len(timeline) < MaxEvents, fate' = fate
  PROVE  [Order!Next]_(Order!vars)
  <1> DEFINE n == Len(timeline) + 1
  <1>1. timeline \in Seq(Row) /\ Len(timeline) \in Nat /\ MaxEvents \in Nat
    BY SizesOfSync DEF SyncInv, TimelineOK
  <1>2. /\ Len(timeline') = n /\ n \in Messages /\ timeline'[n] = x
        /\ \A e \in 1 .. Len(timeline) : timeline'[e] = timeline[e]
    BY <1>1 DEF Messages
  <1>3. RoomOf[n] = 0
    BY <1>1, <1>2 DEF RoomOf
  <1>4. ASSUME NEW e \in Messages, e # n PROVE RoomOf'[e] = RoomOf[e]
    <2>1. CASE e <= Len(timeline)
      <3>1. e \in 1 .. Len(timeline) /\ e <= n
        BY <1>1, <2>1 DEF Messages
      <3> QED
        BY <1>2, <2>1, <3>1 DEF RoomOf, Messages
    <2>2. CASE ~ (e <= Len(timeline))
      <3>1. ~ (e <= n)
        BY <1>1, <1>4, <2>2 DEF Messages
      <3> QED
        BY <1>2, <2>2, <3>1 DEF RoomOf, Messages
    <2> QED
      BY <2>1, <2>2
  <1>5. RoomOf'[n] = IF x.kind = "message" THEN x.room ELSE 0
    <2>1. n <= Len(timeline')
      BY <1>1, <1>2
    <2> QED
      BY <1>2, <2>1 DEF RoomOf, Messages
  <1>6. DOMAIN RoomOf = Messages /\ DOMAIN RoomOf' = Messages /\ RoomOf' = [e \in Messages |-> RoomOf'[e]] /\ RoomOf = [e \in Messages |-> RoomOf[e]]
    BY DEF RoomOf, Messages
  <1>7. SettledNow' = SettledNow
    BY DEF SettledNow, Messages
  <1> HIDE DEF n
  <1>8. CASE x.kind = "message"
    <2>1. RoomOf' = [RoomOf EXCEPT ![n] = x.room]
      BY <1>2, <1>4, <1>5, <1>6, <1>8
    <2>2. x.room \in Rooms
      BY DEF Row
    <2>3. Order!Write(n, x.room)
      BY <1>3, <1>7, <2>1 DEF Order!Write, RoomOf, SettledNow
    <2> QED
      BY <1>2, <2>2, <2>3 DEF Order!Next
  <1>9. CASE x.kind # "message"
    <2>1. RoomOf' = RoomOf
      BY <1>2, <1>3, <1>4, <1>5, <1>6, <1>9
    <2> QED
      BY <1>7, <2>1 DEF Order!vars, RoomOf, SettledNow
  <1> QED
    BY <1>8, <1>9

(* Every step is a step of Handover, or none.                              *)
LEMMA StepsArePromised ==
  ASSUME MatrixConstants, SyncInv, [SyncNext]_syncVars
  PROVE  [Order!Next]_(Order!vars)
  <1>1. CASE \E b \in Syncers : ProcessStep(b)
    <2>1. PICK S \in SUBSET Messages : Settles(S) /\ Closed(S)
      BY <1>1 DEF ProcessStep
    <2>2. timeline' = timeline
      BY <1>1 DEF ProcessStep
    <2> QED
      BY <2>1, <2>2, SettlingIsPromised
  <1>2. CASE \E r \in left.rooms, c \in Alphabets[left.contents], ahead \in 0 .. left.ahead : Say(r, c, ahead)
    BY <1>2, SentRow, WritingIsPromised
  <1>3. CASE \E r \in left.rooms : JoinOrLeave(r)
    BY <1>3, JoinedRow, WritingIsPromised
  <1>4. CASE UNCHANGED <<timeline, fate, token, bot>>
    <2>1. \E S \in SUBSET Messages : Settles(S) /\ Closed(S)
      BY <1>4, NothingSettled
    <2> QED
      BY <1>4, <2>1, SettlingIsPromised
  <1> QED
    BY <1>1, <1>2, <1>3, <1>4, StepsOfMatrix DEF MatrixStep

(* The bot implements Handover: messages are settled in the order of their *)
(* rooms and none is taken back, although processes crash, lose the lock   *)
(* and handle the same response again (bot.go, leader.go, backfill.go).    *)
(* That each is settled in the end is the other half of HandsOver.         *)
THEOREM MatrixHandsOver == SyncSpec => Order!Spec
  <1> USE MatrixAssumption
  <1>1. SyncInit => SyncInv /\ Order!Init
    BY SyncInvAtFirst, HandoverAtFirst
  <1>2. SyncInv /\ [SyncNext]_syncVars => SyncInv'
    BY SyncInvIsKept
  <1>3. SyncInv /\ [SyncNext]_syncVars => [Order!Next]_(Order!vars)
    BY StepsArePromised
  <1> QED
    BY <1>1, <1>2, <1>3, PTL DEF SyncSpec, Order!Spec
=============================================================================
