------------------------------- MODULE Outbox -------------------------------
(***************************************************************************)
(* The Core-to-bot channel (core/internal/outbox, store/queries/outbox.sql *)
(* and the bot's delivery loop in bots/matrix/internal/bot/outbox.go).     *)
(*                                                                         *)
(* One row of bot_outbox is an item.  Bot processes of one instance claim  *)
(* items with a lease, send them to the homeserver and report the result.  *)
(* Usually one process runs, but a process that lost its leader lock and   *)
(* its successor overlap, so several are modelled.  The expiry job gives   *)
(* up on items that waited too long, users cancel items, and the retention *)
(* job deletes finished rows.                                              *)
(*                                                                         *)
(* Every transaction is one action.  A report takes three of them (read    *)
(* the row, update it, insert the notification), and so does the expiry    *)
(* job, so whatever happens between them is an interleaving here.          *)
(***************************************************************************)
EXTENDS Naturals, Sequences, FiniteSets

CONSTANTS
  Items,         \* identifiers of outbox items
  Bots,          \* bot processes of the one bot instance the items are addressed to
  Users,
  NoUser,        \* the owner of a lifecycle item (user_id is null)
  NoItem,
  Owner,         \* [Items -> Users \cup {NoUser}]
  CancelSets,    \* the sets of items one cancellation covers: one reminder's, one chat's
  Lease,         \* how long a claim is reserved
  Backoff,       \* the delays before the first retries
  LongDelay,     \* the delay before every later retry
  ExpireAfter,   \* how long an item may wait
  KeepFor,       \* how long a finished row is kept
  ClaimLimit,    \* the most items one claim returns
  MaxTime,       \* bound: the clock stops here
  LastEnqueue,   \* bound: no item is queued after this time
  Slow,          \* bound: how long a report may take between reading the clock and its update
  MaxFailures    \* bound: failed calls and restarts in one behaviour

ASSUME TimesAssumption ==
  /\ Lease \in Nat /\ LongDelay \in Nat /\ ExpireAfter \in Nat /\ KeepFor \in Nat
  /\ MaxTime \in Nat /\ LastEnqueue \in Nat /\ MaxFailures \in Nat /\ ClaimLimit \in Nat /\ Slow \in Nat
  /\ Backoff \in Seq(Nat)

(* The first retry comes 1 minute after the report and a lease lasts 60    *)
(* seconds: no retry is due before every lease is over that was running    *)
(* when the report read the clock.                                         *)
ASSUME BackoffAssumption ==
  /\ LongDelay >= Lease
  /\ \A k \in 1 .. Len(Backoff) : Backoff[k] >= Lease

ASSUME OwnerAssumption ==
  /\ Owner \in [Items -> Users \cup {NoUser}]
  /\ NoUser \notin Users
  /\ NoItem \notin Items
  /\ CancelSets \subseteq SUBSET {i \in Items : Owner[i] # NoUser}

VARIABLES
  now,           \* the clock, shared by the Core replicas
  status,        \* users.status, active or disabled
  state,         \* bot_outbox.state; "none" before the insert, "purged" after the delete
  attempts,      \* bot_outbox.attempts
  nextAttempt,   \* bot_outbox.next_attempt_at
  lease,         \* bot_outbox.lease_expires_at
  created,       \* bot_outbox.created_at
  finished,      \* bot_outbox.finished_at
  reason,        \* bot_outbox.failure_reason, as far as it tells a cancellation from the rest
  recorded,      \* the items with rows in outbox_messages
  told,          \* how many delivery_failed notifications name the item
  hold,          \* per bot: the claimed items it still has to deliver
  grant,         \* per bot: when the lease of that batch ends
  phase,         \* per bot: where it is with the current item
  cur,           \* per bot: the current item
  outcome,       \* per bot: what it reports for the current item
  seen,          \* per bot: the attempts that Report read from the row
  clock,         \* per bot: the time that Report read before the row
  stale,         \* expiry job: rows it read and has not handled
  telling,       \* expiry job: the expired item whose user it still has to tell
  shown,         \* homeserver: the transaction ids it has carried out
  failures       \* bound: failures so far

rowVars == <<state, attempts, nextAttempt, lease, created, finished, reason, recorded>>
botVars == <<hold, grant, phase, cur, outcome, seen, clock>>
jobVars == <<stale, telling>>
vars == <<now, status, rowVars, told, botVars, jobVars, shown, failures>>

Waiting  == {"queued", "claimed"}
Finished == {"delivered", "failed", "expired"}
States   == {"none", "purged"} \cup Waiting \cup Finished
Results  == {"delivered", "failed_transient", "failed_permanent"}
Phases   == {"ready", "report", "update", "notify"}

Lifecycle == {i \in Items : Owner[i] = NoUser}

RowsTypeOK ==
  /\ state \in [Items -> States]
  /\ attempts \in [Items -> Nat]
  /\ nextAttempt \in [Items -> Nat]
  /\ lease \in [Items -> Nat]
  /\ created \in [Items -> Nat]
  /\ finished \in [Items -> Nat]
  /\ reason \in [Items -> {"none", "cancelled", "other"}]

(* Between two items a bot has no current item; otherwise the current item *)
(* is one of its batch and there is something to report about it.          *)
BotsTypeOK ==
  /\ hold \in [Bots -> SUBSET Items]
  /\ grant \in [Bots -> Nat]
  /\ phase \in [Bots -> Phases]
  /\ cur \in [Bots -> Items \cup {NoItem}]
  /\ outcome \in [Bots -> Results \cup {"none"}]
  /\ seen \in [Bots -> Nat]
  /\ clock \in [Bots -> Nat]
  /\ \A b \in Bots :
       /\ phase[b] = "ready" <=> cur[b] = NoItem
       /\ phase[b] # "ready" => cur[b] \in hold[b] /\ outcome[b] \in Results

TypeOK ==
  /\ now \in 0 .. MaxTime
  /\ status \in [Users -> {"active", "disabled"}]
  /\ RowsTypeOK
  /\ recorded \subseteq Items
  /\ told \in [Items -> Nat]
  /\ BotsTypeOK
  /\ stale \subseteq Items
  /\ telling \in Items \cup {NoItem}
  /\ shown \subseteq Items
  /\ failures \in 0 .. MaxFailures

Init ==
  /\ now = 0
  /\ status = [u \in Users |-> "active"]
  /\ state = [i \in Items |-> "none"]
  /\ attempts = [i \in Items |-> 0]
  /\ nextAttempt = [i \in Items |-> 0]
  /\ lease = [i \in Items |-> 0]
  /\ created = [i \in Items |-> 0]
  /\ finished = [i \in Items |-> 0]
  /\ reason = [i \in Items |-> "none"]
  /\ recorded = {}
  /\ told = [i \in Items |-> 0]
  /\ hold = [b \in Bots |-> {}]
  /\ grant = [b \in Bots |-> 0]
  /\ phase = [b \in Bots |-> "ready"]
  /\ cur = [b \in Bots |-> NoItem]
  /\ outcome = [b \in Bots |-> "none"]
  /\ seen = [b \in Bots |-> 0]
  /\ clock = [b \in Bots |-> 0]
  /\ stale = {}
  /\ telling = NoItem
  /\ shown = {}
  /\ failures = 0

-----------------------------------------------------------------------------
(* What other parts of Core do to the rows.                                *)

(* A reminder fires, a notice is sent or a chat is unlinked.               *)
Enqueue(i) ==
  /\ state[i] = "none"
  /\ now <= LastEnqueue
  /\ state' = [state EXCEPT ![i] = "queued"]
  /\ nextAttempt' = [nextAttempt EXCEPT ![i] = now]
  /\ created' = [created EXCEPT ![i] = now]
  /\ UNCHANGED <<now, status, attempts, lease, finished, reason, recorded, told, botVars, jobVars, shown, failures>>

(* One row reaches its end: every such update blanks the lease and stamps  *)
(* finished_at.                                                            *)
Finish(S, to, why, at) ==
  /\ state' = [i \in Items |-> IF i \in S THEN to ELSE state[i]]
  /\ finished' = [i \in Items |-> IF i \in S THEN at ELSE finished[i]]
  /\ lease' = [i \in Items |-> IF i \in S THEN 0 ELSE lease[i]]
  /\ reason' = [i \in Items |-> IF i \in S THEN why ELSE reason[i]]
  /\ UNCHANGED <<attempts, nextAttempt, created>>

(* The user deletes or finishes a reminder, deletes its note, unlinks the  *)
(* chat or turns reminders off for it.                                     *)
Cancel(C) ==
  LET S == {i \in C : state[i] \in Waiting}
  IN /\ S # {}
     /\ Finish(S, "expired", "cancelled", now)
     /\ UNCHANGED <<now, status, recorded, told, botVars, jobVars, shown, failures>>

SetStatus(u, s) ==
  /\ status[u] # s
  /\ status' = [status EXCEPT ![u] = s]
  /\ UNCHANGED <<now, rowVars, told, botVars, jobVars, shown, failures>>

(* Mutant: the purge forgets that only finished rows may go. *)
Purge_anyState ==
  LET S == {i \in Items : state[i] \notin {"none", "purged"} /\ finished[i] + KeepFor < now}
  IN /\ S # {}
     /\ state' = [i \in Items |-> IF i \in S THEN "purged" ELSE state[i]]
     /\ recorded' = recorded \ S
     /\ UNCHANGED <<now, status, attempts, nextAttempt, lease, created, finished, reason, told, botVars, jobVars, shown, failures>>

(* The retention job deletes finished rows and, through the foreign key,   *)
(* their outbox_messages.                                                  *)
Purge ==
  LET S == {i \in Items : state[i] \in Finished /\ finished[i] + KeepFor < now}
  IN /\ S # {}
     /\ state' = [i \in Items |-> IF i \in S THEN "purged" ELSE state[i]]
     /\ recorded' = recorded \ S
     /\ UNCHANGED <<now, status, attempts, nextAttempt, lease, created, finished, reason, told, botVars, jobVars, shown, failures>>

-----------------------------------------------------------------------------
(* The bot's loop.                                                         *)

Claimable(i) ==
  /\ \/ state[i] = "queued" /\ nextAttempt[i] <= now
     \/ state[i] = "claimed" /\ lease[i] < now
  /\ Owner[i] # NoUser => status[Owner[i]] = "active"

(* Any subset may be returned: rows that another transaction has locked    *)
(* are skipped.                                                            *)
Claim(b, S) ==
  /\ phase[b] = "ready" /\ hold[b] = {}
  /\ S # {} /\ Cardinality(S) <= ClaimLimit
  /\ \A i \in S : Claimable(i)
  /\ state' = [i \in Items |-> IF i \in S THEN "claimed" ELSE state[i]]
  /\ lease' = [i \in Items |-> IF i \in S THEN now + Lease ELSE lease[i]]
  /\ hold' = [hold EXCEPT ![b] = S]
  /\ grant' = [grant EXCEPT ![b] = now + Lease]
  /\ UNCHANGED <<now, status, attempts, nextAttempt, created, finished, reason, recorded, told, phase, cur, outcome, seen, clock, jobVars, shown, failures>>

(* Mutant: a room that is gone counts as delivered for every kind of item. *)
SendOutcomes_roomGoneIsDone(i) ==
  {[done |-> TRUE, result |-> "delivered"],
   [done |-> FALSE, result |-> "failed_transient"],
   [done |-> FALSE, result |-> "delivered"]}

(* The ways a send can end.  A lost answer looks like an unreachable       *)
(* homeserver.  Leaving a room that is gone counts as done, so a lifecycle *)
(* item is never a permanent failure.                                      *)
SendOutcomes(i) ==
  {[done |-> TRUE, result |-> "delivered"],
   [done |-> TRUE, result |-> "failed_transient"],
   [done |-> FALSE, result |-> "failed_transient"]}
  \cup IF i \in Lifecycle THEN {} ELSE {[done |-> FALSE, result |-> "failed_permanent"]}

(* The item id is the Matrix transaction id, so a second send of the same  *)
(* item changes nothing in the room.                                       *)
Send(b, i, o) ==
  /\ phase[b] = "ready" /\ i \in hold[b]
  /\ o \in SendOutcomes(i)
  /\ shown' = IF o.done THEN shown \cup {i} ELSE shown
  /\ phase' = [phase EXCEPT ![b] = "report"]
  /\ cur' = [cur EXCEPT ![b] = i]
  /\ outcome' = [outcome EXCEPT ![b] = o.result]
  /\ UNCHANGED <<now, status, rowVars, told, hold, grant, seen, clock, jobVars, failures>>

(* The bot is left with the items of S to deliver.                         *)
GoOnWith(b, S) ==
  /\ hold' = [hold EXCEPT ![b] = S]
  /\ grant' = [grant EXCEPT ![b] = IF S = {} THEN 0 ELSE @]
  /\ phase' = [phase EXCEPT ![b] = "ready"]
  /\ cur' = [cur EXCEPT ![b] = NoItem]
  /\ outcome' = [outcome EXCEPT ![b] = "none"]
  /\ seen' = [seen EXCEPT ![b] = 0]
  /\ clock' = [clock EXCEPT ![b] = 0]

NextItem(b) == GoOnWith(b, hold[b] \ {cur[b]})

-----------------------------------------------------------------------------
(* Report: three steps inside Core.                                        *)

(* Mutant: the updates of a report are not conditional on the state. *)
StillClaimed_unchecked(i) == TRUE

StillClaimed(i) == state[i] = "claimed"

(* The clock, then GetClaimedOutbox.  The row must be claimed, by whom is  *)
(* not asked.  When it is not, Core answers 404 and the bot takes that for *)
(* success.                                                                *)
ReportRead(b) ==
  /\ phase[b] = "report"
  /\ IF StillClaimed(cur[b])
     THEN /\ phase' = [phase EXCEPT ![b] = "update"]
          /\ seen' = [seen EXCEPT ![b] = attempts[cur[b]]]
          /\ clock' = [clock EXCEPT ![b] = now]
          /\ UNCHANGED <<hold, grant, cur, outcome>>
     ELSE NextItem(b)
  /\ UNCHANGED <<now, status, rowVars, told, jobVars, shown, failures>>

(* Mutant: a transient failure is retried at once. *)
RetryDelay_none(n) == 0

RetryDelay(n) == IF n < Len(Backoff) THEN Backoff[n + 1] ELSE LongDelay

(* The update repeats the state check, so a row that was settled meanwhile *)
(* is left alone and the answer is 404.                                    *)
MarkDelivered(b) ==
  /\ phase[b] = "update" /\ outcome[b] = "delivered"
  /\ IF StillClaimed(cur[b])
     THEN /\ Finish({cur[b]}, "delivered", "none", clock[b])
          /\ recorded' = IF cur[b] \in Lifecycle THEN recorded ELSE recorded \cup {cur[b]}
     ELSE UNCHANGED rowVars
  /\ NextItem(b)
  /\ UNCHANGED <<now, status, told, jobVars, shown, failures>>

Requeue(b) ==
  LET i == cur[b]
  IN /\ phase[b] = "update" /\ outcome[b] = "failed_transient"
     /\ IF StillClaimed(i)
        THEN /\ state' = [state EXCEPT ![i] = "queued"]
             /\ attempts' = [attempts EXCEPT ![i] = @ + 1]
             /\ nextAttempt' = [nextAttempt EXCEPT ![i] = clock[b] + RetryDelay(seen[b])]
             /\ lease' = [lease EXCEPT ![i] = 0]
             /\ reason' = [reason EXCEPT ![i] = "other"]
             /\ UNCHANGED <<created, finished, recorded>>
        ELSE UNCHANGED rowVars
     /\ NextItem(b)
     /\ UNCHANGED <<now, status, told, jobVars, shown, failures>>

Fail(b) ==
  /\ phase[b] = "update" /\ outcome[b] = "failed_permanent"
  /\ IF StillClaimed(cur[b])
     THEN /\ Finish({cur[b]}, "failed", "other", clock[b])
          /\ UNCHANGED recorded
          /\ phase' = [phase EXCEPT ![b] = "notify"]
          /\ UNCHANGED <<hold, grant, cur, outcome, seen, clock>>
     ELSE UNCHANGED rowVars /\ NextItem(b)
  /\ UNCHANGED <<now, status, told, jobVars, shown, failures>>

(* notifyFailure, in a transaction of its own.                             *)
NotifyFailure(i) ==
  told' = IF i \in Lifecycle THEN told ELSE [told EXCEPT ![i] = @ + 1]

ReportNotify(b) ==
  /\ phase[b] = "notify"
  /\ NotifyFailure(cur[b])
  /\ NextItem(b)
  /\ UNCHANGED <<now, status, rowVars, jobVars, shown, failures>>

-----------------------------------------------------------------------------
(* Failures.                                                               *)

Failure == failures < MaxFailures /\ failures' = failures + 1

(* The Core replica stops, or the database refuses the next statement: the *)
(* bot sees an error and repeats the whole report.                         *)
ReportFails(b) ==
  /\ Failure
  /\ phase[b] \in {"update", "notify"}
  /\ phase' = [phase EXCEPT ![b] = "report"]
  /\ seen' = [seen EXCEPT ![b] = 0]
  /\ clock' = [clock EXCEPT ![b] = 0]
  /\ UNCHANGED <<now, status, rowVars, told, hold, grant, cur, outcome, jobVars, shown>>

(* The tenth internal error in a row: the SDK gives up and the bot goes on *)
(* with its next item.                                                     *)
ReportAbandoned(b) ==
  /\ Failure
  /\ phase[b] = "report"
  /\ NextItem(b)
  /\ UNCHANGED <<now, status, rowVars, told, jobVars, shown>>

(* The process stops and a new one starts; a request that Core was working *)
(* on is cancelled with its connection.                                    *)
BotRestart(b) ==
  /\ Failure
  /\ hold[b] # {}
  /\ GoOnWith(b, {})
  /\ UNCHANGED <<now, status, rowVars, told, jobVars, shown>>

(* The expiry job stops in the middle; River runs it again later.          *)
ExpireFails ==
  /\ Failure
  /\ telling # NoItem \/ stale # {}
  /\ stale' = {} /\ telling' = NoItem
  /\ UNCHANGED <<now, status, rowVars, told, botVars, shown>>

-----------------------------------------------------------------------------
(* Expire: read the stale rows, then one update and one notification each. *)

(* Mutant: only queued rows are looked for. *)
StaleOutbox_queuedOnly ==
  /\ stale = {} /\ telling = NoItem
  /\ stale' = {i \in Items : state[i] = "queued" /\ created[i] + ExpireAfter < now}
  /\ stale' # {}
  /\ UNCHANGED <<now, status, rowVars, told, botVars, telling, shown, failures>>

StaleOutbox ==
  /\ stale = {} /\ telling = NoItem
  /\ stale' = {i \in Items : state[i] \in Waiting /\ created[i] + ExpireAfter < now}
  /\ stale' # {}
  /\ UNCHANGED <<now, status, rowVars, told, botVars, telling, shown, failures>>

(* Mutant: the update does not ask whether the row still waits. *)
StillWaiting_unchecked(i) == TRUE

StillWaiting(i) == state[i] \in Waiting

ExpireItem(i) ==
  /\ telling = NoItem /\ i \in stale
  /\ stale' = stale \ {i}
  /\ IF StillWaiting(i)
     THEN /\ Finish({i}, "expired", "other", now)
          /\ telling' = IF i \in Lifecycle THEN NoItem ELSE i
          /\ UNCHANGED recorded
     ELSE UNCHANGED <<rowVars, telling>>
  /\ UNCHANGED <<now, status, told, botVars, shown, failures>>

TellExpired ==
  /\ telling # NoItem
  /\ NotifyFailure(telling)
  /\ telling' = NoItem
  /\ UNCHANGED <<now, status, rowVars, botVars, stale, shown, failures>>

-----------------------------------------------------------------------------
(* Time passes in the middle of a report as well, up to a bound.           *)
Tick ==
  /\ now < MaxTime
  /\ \A b \in Bots : phase[b] = "update" => now < clock[b] + Slow
  /\ now' = now + 1
  /\ UNCHANGED <<status, rowVars, told, botVars, jobVars, shown, failures>>

Report(b) == ReportRead(b) \/ MarkDelivered(b) \/ Requeue(b) \/ Fail(b) \/ ReportNotify(b)

Bot(b) ==
  \/ \E S \in SUBSET Items : Claim(b, S)
  \/ \E i \in Items : \E o \in SendOutcomes(i) : Send(b, i, o)
  \/ Report(b)

Expirer == StaleOutbox \/ (\E i \in Items : ExpireItem(i)) \/ TellExpired

Next ==
  \/ Tick
  \/ \E i \in Items : Enqueue(i)
  \/ \E C \in CancelSets : Cancel(C)
  \/ \E u \in Users, s \in {"active", "disabled"} : SetStatus(u, s)
  \/ Purge
  \/ \E b \in Bots : Bot(b) \/ ReportFails(b) \/ ReportAbandoned(b) \/ BotRestart(b)
  \/ Expirer
  \/ ExpireFails

Spec == Init /\ [][Next]_vars

(* Time passes, the bots' loops run until their context ends, and River    *)
(* runs the expiry job every five minutes.                                 *)
FairSpec ==
  /\ Spec
  /\ WF_vars(Tick)
  /\ WF_vars(Expirer)
  /\ \A b \in Bots : WF_vars(Bot(b))

-----------------------------------------------------------------------------
(* Properties.                                                             *)

(* Two bot processes never both hold a lease on one item that has longer   *)
(* to run than a report may take, although a report does not say whose     *)
(* claim it answers and a late report puts an item back in the queue that  *)
(* somebody else has claimed: the retry is due a lease after the time the  *)
(* report read first (Report in outbox.go, ClaimOutbox and RequeueOutbox   *)
(* in outbox.sql).                                                         *)
LeaseExclusive ==
  \A b, c \in Bots : \A i \in hold[b] \cap hold[c] :
    b = c \/ grant[b] <= now + Slow \/ grant[c] <= now + Slow

(* A row that says delivered belongs to a message that is in the chat and  *)
(* whose chat message id can be found again by a reply; nothing else can   *)
(* be found by a reply (Report's one transaction, send in the bot).        *)
DeliveredIsInTheChat ==
  /\ \A i \in Items : state[i] = "delivered" => i \in shown /\ (i \in recorded \/ i \in Lifecycle)
  /\ \A i \in recorded : state[i] = "delivered"

(* The user is told of a failure at most once, and only of a delivery that *)
(* Core itself gave up: the expiry job works from rows it read earlier, and *)
(* the item may be delivered, cancelled or failed by a bot before its turn. *)
NoFalseAlarm ==
  \A i \in Items : told[i] > 0 =>
    /\ told[i] = 1
    /\ i \notin Lifecycle
    /\ state[i] \in {"failed", "expired", "purged"} /\ reason[i] = "other"

(* Whatever a late report, the expiry job or a cancellation does, a        *)
(* finished row keeps its outcome until the retention job deletes it.      *)
FinalStateKept ==
  [][\A i \in Items : state[i] \in Finished => state'[i] \in {state[i], "purged"}]_vars

(* A delivery that Core gave up is announced in the app by the time the    *)
(* call or the job that gave it up is over (docs/design/05 sections 4.2    *)
(* and 4.4, notifyFailure in outbox.go).                                   *)
FailureIsTold ==
  \A i \in Items \ Lifecycle :
    state[i] \in {"failed", "expired"} /\ reason[i] = "other" =>
      \/ told[i] = 1
      \/ telling = i
      \/ \E b \in Bots : cur[b] = i /\ phase[b] = "notify"

(* Every item that was queued is delivered or given up in the end, however *)
(* often bots restart and reports fail: no item waits forever (Expire).    *)
EveryItemSettles ==
  \A i \in Items : state[i] \in Waiting ~> state[i] \in Finished \cup {"purged"}

(* A deleted or finished reminder must not arrive afterwards, as the       *)
(* comment on cancelQueued in reminders.go says of every queued message.   *)
CancelledNeverArrives ==
  [][\A i \in Items : reason[i] = "cancelled" /\ i \notin shown => i \notin shown']_vars

-----------------------------------------------------------------------------
(* The refinement mapping to DeliveryPromise.                              *)

Outcome(i) ==
  IF state[i] = "none" THEN "absent"
  ELSE IF state[i] \in Waiting THEN "waiting" ELSE state[i]

Promise == INSTANCE DeliveryPromise WITH
  outcome <- [i \in Items |-> Outcome(i)],
  shown <- shown

(* Claims, leases, retries and the steps of a report are invisible to the  *)
(* caller: every step is a step of the promise or changes nothing in it.   *)
KeepsPromise == Promise!Spec
=============================================================================
