----------------------------- MODULE ChangeFeed -----------------------------
(***************************************************************************)
(* How the open tabs of one user learn of changes (store.InUserTx,         *)
(* realtime/hub.go, server/sse.go and web/src/realtime/useEvents.ts).      *)
(*                                                                         *)
(* A transaction that changes something takes the next numbers of the      *)
(* user's change feed and commits a notification with it.  Every replica   *)
(* has a listener that wakes the streams of the user; a stream reads what  *)
(* the feed holds beyond its position and writes it to the connection; the *)
(* tab marks its views stale and fetches them again.  Listeners lose their *)
(* connection and the notifications with it, streams end and the browser   *)
(* comes back with the last number it saw, and old changes are purged.     *)
(***************************************************************************)
EXTENDS Integers, Sequences, FiniteSets

CONSTANTS
  Tabs,           \* open tabs, one EventSource each
  Replicas,       \* of Core
  Writers,        \* transactions
  Entities,
  Writes,         \* what one transaction may change: sequences of entities
  None,
  Batch,          \* sseBatch
  Retain,         \* retainChanges
  MaxSeq,         \* bound: changes in one behaviour
  MaxTime,        \* bound: the clock stops here
  MaxFailures     \* bound: lost listeners and ended streams in one behaviour

ASSUME SizesAssumption ==
  /\ IsFiniteSet(Entities)
  /\ Writes \subseteq Seq(Entities)
  /\ Batch \in Nat \ {0}
  /\ Retain \in Nat /\ MaxSeq \in Nat /\ MaxTime \in Nat /\ MaxFailures \in Nat
  /\ None \notin Nat /\ None \notin Replicas

VARIABLES
  now,
  began,      \* per transaction: its now(), None when it does not run
  seq,        \* users.change_seq
  log,        \* changes: seq, entity, at (created_at)
  holes,      \* history: numbers that were purged while smaller ones stayed
  content,    \* per entity: the number of its last change, standing for its content
  listener,   \* per replica: down, listening (LISTEN was executed), up (and caught up)
  notified,   \* per replica: a notification waits on its listener's connection
  at,         \* per tab: the replica that serves its stream
  phase,      \* per tab: where the stream's handler is
  wake,       \* per tab: Stream.Wake, a channel of size one
  last,       \* per tab: the handler's position in the feed
  batch,      \* per tab: rows it read and has not written
  more,       \* per tab: the rows it read were a full batch
  wire,       \* per tab: what was written and has not arrived
  lastId,     \* per tab: the browser's Last-Event-ID
  stale,      \* per tab: entities whose views are to be fetched again
  view,       \* per tab: the content it shows
  failures    \* bound

feedVars == <<now, began, seq, log, holes, content>>
hubVars == <<listener, notified>>
streamVars == <<at, phase, last, batch, more>>
tabVars == <<wire, lastId, stale, view>>
vars == <<feedVars, hubVars, streamVars, wake, tabVars, failures>>

Changes == [seq: Nat, entity: Entities, at: Nat]
Events == [kind: {"hello", "resync", "change"}, seq: Nat, entity: Entities \cup {None}]
Phases == {"closed", "subscribed", "read", "write", "wait"}

(* No position is ahead of the feed and no view ahead of the content; a    *)
(* handler has rows to write exactly while it writes.                      *)
TypeOK ==
  /\ now \in Nat /\ seq \in Nat /\ failures \in Nat
  /\ began \in [Writers -> Nat \cup {None}]
  /\ log \subseteq Changes
  /\ holes \subseteq Nat
  /\ content \in [Entities -> 0 .. seq]
  /\ listener \in [Replicas -> {"down", "listening", "up"}]
  /\ notified \in [Replicas -> BOOLEAN]
  /\ at \in [Tabs -> Replicas \cup {None}]
  /\ phase \in [Tabs -> Phases]
  /\ wake \in [Tabs -> BOOLEAN] /\ more \in [Tabs -> BOOLEAN]
  /\ last \in [Tabs -> 0 .. seq]
  /\ batch \in [Tabs -> SUBSET Changes]
  /\ wire \in [Tabs -> Seq(Events)]
  /\ lastId \in [Tabs -> (0 .. seq) \cup {None}]
  /\ stale \in [Tabs -> SUBSET Entities]
  /\ view \in [Tabs -> [Entities -> Nat]]
  /\ \A t \in Tabs :
       /\ phase[t] = "closed" <=> at[t] = None
       /\ at[t] = None => ~ wake[t]
       /\ phase[t] = "write" <=> batch[t] # {}
       /\ \A e \in Entities : view[t][e] <= content[e]

Init ==
  /\ now = 0 /\ seq = 0 /\ log = {} /\ holes = {} /\ failures = 0
  /\ began = [w \in Writers |-> None]
  /\ content = [e \in Entities |-> 0]
  /\ listener = [r \in Replicas |-> "down"]
  /\ notified = [r \in Replicas |-> FALSE]
  /\ at = [t \in Tabs |-> None]
  /\ phase = [t \in Tabs |-> "closed"]
  /\ wake = [t \in Tabs |-> FALSE]
  /\ last = [t \in Tabs |-> 0]
  /\ batch = [t \in Tabs |-> {}]
  /\ more = [t \in Tabs |-> FALSE]
  /\ wire = [t \in Tabs |-> <<>>]
  /\ lastId = [t \in Tabs |-> None]
  /\ stale = [t \in Tabs |-> {}]
  /\ view = [t \in Tabs |-> [e \in Entities |-> 0]]

Running(w) == began[w] # None

-----------------------------------------------------------------------------
(* Writing.                                                                *)

(* created_at is the transaction's now(), taken before it waits for the    *)
(* user's row.  (The first guard is the bound: more could not commit.)     *)
Begin(w) ==
  /\ seq + Cardinality({v \in Writers : Running(v)}) < MaxSeq
  /\ ~ Running(w)
  /\ began' = [began EXCEPT ![w] = now]
  /\ UNCHANGED <<now, seq, log, holes, content, hubVars, streamVars, wake, tabVars, failures>>

Appended(w, es) == {[seq |-> seq + k, entity |-> es[k], at |-> began[w]] : k \in DOMAIN es}

LastOf(e, es) == CHOOSE k \in DOMAIN es : es[k] = e /\ \A j \in DOMAIN es : es[j] = e => j <= k

(* InUserTx: the lock is held from before the first change to the commit,  *)
(* which hands the notification to every listener.  Who began later may    *)
(* get it first.                                                           *)
Commit(w, es) ==
  /\ Running(w)
  /\ seq + Len(es) <= MaxSeq
  /\ seq' = seq + Len(es)
  /\ log' = log \cup Appended(w, es)
  /\ content' = [e \in Entities |->
                   IF \E k \in DOMAIN es : es[k] = e THEN seq + LastOf(e, es) ELSE content[e]]
  /\ began' = [began EXCEPT ![w] = None]
  /\ notified' = [r \in Replicas |-> notified[r] \/ listener[r] # "down"]
  /\ UNCHANGED <<now, holes, listener, streamVars, wake, tabVars, failures>>

Recent == {c \in log : c.at >= now - Retain}

(* What goes although something with a smaller number stays: the numbers   *)
(* need not follow the times.                                              *)
Torn == {c.seq : c \in {d \in log \ Recent : \E r \in Recent : r.seq < d.seq}}

(* PurgeChanges, run once a day.                                           *)
PurgeChanges ==
  /\ log' = Recent
  /\ holes' = holes \cup Torn
  /\ UNCHANGED <<now, began, seq, content, hubVars, streamVars, wake, tabVars, failures>>

(* A tick stands for days, and an open stream reads the feed every thirty  *)
(* seconds and ends after fifteen minutes: only closed streams fall behind. *)
(* A transaction may see midnight, but not twice.                          *)
KeepsUp(t) == phase[t] = "closed" \/ (phase[t] = "wait" /\ last[t] = seq /\ wire[t] = <<>>)

Tick ==
  /\ now < MaxTime
  /\ \A t \in Tabs : KeepsUp(t)
  /\ \A w \in Writers : Running(w) => began[w] = now
  /\ now' = now + 1
  /\ UNCHANGED <<began, seq, log, holes, content, hubVars, streamVars, wake, tabVars, failures>>

-----------------------------------------------------------------------------
(* The hub of a replica.                                                   *)

(* Mutant: only streams that are waiting are registered. *)
Registered_waiting(t, r) == at[t] = r /\ phase[t] = "wait"

Registered(t, r) == at[t] = r

WakeStreams(r) == [t \in Tabs |-> wake[t] \/ Registered(t, r)]

Listen(r) ==
  /\ listener[r] = "down"
  /\ listener' = [listener EXCEPT ![r] = "listening"]
  /\ UNCHANGED <<feedVars, notified, streamVars, wake, tabVars, failures>>

WakeAll(r) ==
  /\ listener[r] = "listening"
  /\ listener' = [listener EXCEPT ![r] = "up"]
  /\ wake' = WakeStreams(r)
  /\ UNCHANGED <<feedVars, notified, streamVars, tabVars, failures>>

WakeUser(r) ==
  /\ listener[r] = "up" /\ notified[r]
  /\ notified' = [notified EXCEPT ![r] = FALSE]
  /\ wake' = WakeStreams(r)
  /\ UNCHANGED <<feedVars, listener, streamVars, tabVars, failures>>

ListenerLost(r) ==
  /\ failures < MaxFailures /\ failures' = failures + 1
  /\ listener[r] # "down"
  /\ listener' = [listener EXCEPT ![r] = "down"]
  /\ notified' = [notified EXCEPT ![r] = FALSE]
  /\ UNCHANGED <<feedVars, streamVars, wake, tabVars>>

-----------------------------------------------------------------------------
(* The handler of a stream.                                                *)

(* The browser reconnects by itself, and keeps its Last-Event-ID, or the   *)
(* tab opens a new EventSource.                                            *)
Subscribe(t, r, reopened) ==
  /\ phase[t] = "closed"
  /\ phase' = [phase EXCEPT ![t] = "subscribed"]
  /\ at' = [at EXCEPT ![t] = r]
  /\ lastId' = IF reopened THEN [lastId EXCEPT ![t] = None] ELSE lastId
  /\ UNCHANGED <<feedVars, hubVars, last, batch, more, wake, wire, stale, view, failures>>

Hello == [kind |-> "hello", seq |-> 0, entity |-> None]
Resync == [kind |-> "resync", seq |-> 0, entity |-> None]
Change(c) == [kind |-> "change", seq |-> c.seq, entity |-> c.entity]

Start(t) ==
  /\ phase[t] = "subscribed"
  /\ phase' = [phase EXCEPT ![t] = "read"]
  /\ IF lastId[t] = None
     THEN /\ last' = [last EXCEPT ![t] = seq]
          /\ wire' = [wire EXCEPT ![t] = Append(@, Hello)]
     ELSE last' = [last EXCEPT ![t] = lastId[t]] /\ UNCHANGED wire
  /\ UNCHANGED <<feedVars, hubVars, at, batch, more, wake, lastId, stale, view, failures>>

(* Mutant: a feed of which nothing is kept has lost nothing. *)
ChangesLost_kept(p) ==
  p > seq \/ (p < seq /\ log # {} /\ \A c \in log : c.seq > p + 1)

(* oldest = 0 or oldest > p + 1                                            *)
ChangesLost(p) ==
  p > seq \/ (p < seq /\ \A c \in log : c.seq > p + 1)

Beyond(p) == {c \in log : c.seq > p}

(* ListChanges: the first Batch rows beyond p. *)
Rows(p) == {c \in Beyond(p) : Cardinality({d \in Beyond(p) : d.seq < c.seq}) < Batch}

(* One round of drain reads a snapshot.                                    *)
Read(t) ==
  /\ phase[t] = "read"
  /\ IF ChangesLost(last[t])
     THEN /\ wire' = [wire EXCEPT ![t] = Append(@, Resync)]
          /\ last' = [last EXCEPT ![t] = seq]
          /\ phase' = [phase EXCEPT ![t] = "wait"]
          /\ UNCHANGED <<batch, more>>
     ELSE /\ batch' = [batch EXCEPT ![t] = Rows(last[t])]
          /\ more' = [more EXCEPT ![t] = Cardinality(Rows(last[t])) = Batch]
          /\ phase' = [phase EXCEPT ![t] = IF Rows(last[t]) = {} THEN "wait" ELSE "write"]
          /\ UNCHANGED <<wire, last>>
  /\ UNCHANGED <<feedVars, hubVars, at, wake, lastId, stale, view, failures>>

(* Mutant: the rows are written in any order. *)
NextRow_any(t, c) == c \in batch[t]

NextRow(t, c) == c \in batch[t] /\ \A d \in batch[t] : c.seq <= d.seq

AfterRow(t, rest) ==
  IF rest # {} THEN "write" ELSE IF more[t] THEN "read" ELSE "wait"

WriteRow(t, c) ==
  /\ phase[t] = "write"
  /\ NextRow(t, c)
  /\ wire' = [wire EXCEPT ![t] = Append(@, Change(c))]
  /\ last' = [last EXCEPT ![t] = c.seq]
  /\ batch' = [batch EXCEPT ![t] = @ \ {c}]
  /\ phase' = [phase EXCEPT ![t] = AfterRow(t, batch[t] \ {c})]
  /\ more' = [more EXCEPT ![t] = @ /\ batch[t] # {c}]
  /\ UNCHANGED <<feedVars, hubVars, at, wake, lastId, stale, view, failures>>

Woken(t) ==
  /\ phase[t] = "wait" /\ wake[t]
  /\ wake' = [wake EXCEPT ![t] = FALSE]
  /\ phase' = [phase EXCEPT ![t] = "read"]
  /\ UNCHANGED <<feedVars, hubVars, at, last, batch, more, tabVars, failures>>

(* The poll every thirty seconds, in case a notification was missed.       *)
SafetyNet(t) ==
  /\ phase[t] = "wait"
  /\ phase' = [phase EXCEPT ![t] = "read"]
  /\ UNCHANGED <<feedVars, hubVars, at, last, batch, more, wake, tabVars, failures>>

(* The token expires, the replica stops, a read fails, the connection      *)
(* breaks: what has not arrived is lost.                                   *)
End(t) ==
  /\ failures < MaxFailures /\ failures' = failures + 1
  /\ phase[t] # "closed"
  /\ phase' = [phase EXCEPT ![t] = "closed"]
  /\ at' = [at EXCEPT ![t] = None]
  /\ batch' = [batch EXCEPT ![t] = {}]
  /\ last' = [last EXCEPT ![t] = 0]
  /\ more' = [more EXCEPT ![t] = FALSE]
  /\ wake' = [wake EXCEPT ![t] = FALSE]
  /\ wire' = [wire EXCEPT ![t] = <<>>]
  /\ UNCHANGED <<feedVars, hubVars, lastId, stale, view>>

-----------------------------------------------------------------------------
(* The tab.                                                                *)

(* The views a received event makes stale (applyChange, invalidateQueries). *)
Covers(event) == IF event.kind = "change" THEN {event.entity} ELSE Entities

Receive(t) ==
  /\ wire[t] # <<>>
  /\ wire' = [wire EXCEPT ![t] = Tail(@)]
  /\ stale' = [stale EXCEPT ![t] = @ \cup Covers(Head(wire[t]))]
  /\ lastId' = IF Head(wire[t]).kind = "change"
               THEN [lastId EXCEPT ![t] = Head(wire[t]).seq] ELSE lastId
  /\ UNCHANGED <<feedVars, hubVars, streamVars, wake, view, failures>>

Refetch(t, e) ==
  /\ e \in stale[t]
  /\ view' = [view EXCEPT ![t][e] = content[e]]
  /\ stale' = [stale EXCEPT ![t] = @ \ {e}]
  /\ UNCHANGED <<feedVars, hubVars, streamVars, wake, wire, lastId, failures>>

-----------------------------------------------------------------------------
Drain(t) == Start(t) \/ Read(t) \/ (\E c \in batch[t] : WriteRow(t, c)) \/ Woken(t)
Opened(t) == \E r \in Replicas, reopened \in BOOLEAN : Subscribe(t, r, reopened)
Listener(r) == Listen(r) \/ WakeAll(r) \/ WakeUser(r)

Next ==
  \/ \E w \in Writers : Begin(w) \/ \E es \in Writes : Commit(w, es)
  \/ PurgeChanges \/ Tick
  \/ \E r \in Replicas : Listener(r) \/ ListenerLost(r)
  \/ \E t \in Tabs : Opened(t) \/ Drain(t) \/ SafetyNet(t) \/ End(t) \/ Receive(t)
  \/ \E t \in Tabs, e \in Entities : Refetch(t, e)

Spec == Init /\ [][Next]_vars

(* The listeners reconnect, handlers and browsers go on.  The safety net is *)
(* not relied on.                                                          *)
FairSpec ==
  /\ Spec
  /\ \A r \in Replicas : WF_vars(Listener(r))
  /\ \A t \in Tabs :
       /\ WF_vars(Opened(t)) /\ WF_vars(Drain(t)) /\ WF_vars(Receive(t))
       /\ \A e \in Entities : WF_vars(Refetch(t, e))

-----------------------------------------------------------------------------
(* Properties.                                                             *)

(* The tab shows something old and has not been told, and what it has not  *)
(* been told was not torn out of the feed before changes of earlier        *)
(* transactions with smaller numbers.                                      *)
Outdated(t, e) ==
  /\ view[t][e] # content[e] /\ e \notin stale[t]
  /\ content[e] \notin holes

(* A stream that starts at p learns of e: by hello, by a change, by resync. *)
Learns(p, e) ==
  \/ p = None
  \/ \E c \in log : c.entity = e /\ c.seq > p
  \/ ChangesLost(p)

(* A tab that shows an outdated view of something has the news on its way, *)
(* or its stream will read it; and if the connection broke at this moment, *)
(* what the browser comes back with would still bring it.  However streams *)
(* and listeners fail, in whatever order transactions get their numbers,   *)
(* and whatever is purged, no change is missed (CORE-S1, CORE-S3;          *)
(* changesLost, "hello", Last-Event-ID), with the one exception that the   *)
(* code does not see: a change purged out of the middle of the feed, since *)
(* changesLost looks only at the smallest number that is left.             *)
NothingMissed ==
  \A t \in Tabs, e \in Entities : Outdated(t, e) =>
    /\ Learns(lastId[t], e)
    /\ phase[t] \in {"read", "write", "wait"} =>
         \/ \E k \in 1 .. Len(wire[t]) : e \in Covers(wire[t][k])
         \/ \E c \in batch[t] : c.entity = e
         \/ Learns(last[t], e)

(* The numbers a tab receives only grow while it keeps its EventSource     *)
(* (drain writes the rows in order and goes on from the last of them).     *)
InOrder ==
  [][\A t \in Tabs : lastId[t] # None /\ lastId'[t] # None => lastId'[t] >= lastId[t]]_vars

(* Every tab shows the current content in the end, without the safety net: *)
(* a wake-up is never lost between subscribing and waiting, nor while the  *)
(* listener was down (Subscribe before the first read, wakeAll after       *)
(* LISTEN).  The exception is that of NothingMissed.                       *)
CatchesUp ==
  \A t \in Tabs, e \in Entities :
    view[t][e] # content[e] ~> view[t][e] = content[e] \/ content[e] \in holes
=============================================================================
