-------------------------- MODULE ChangeFeedProofs --------------------------
(***************************************************************************)
(* Proofs about ChangeFeed: for any number of tabs, replicas and writers,  *)
(* any batch size and retention, the types are kept, a tab receives its    *)
(* numbers in order, and no change is missed but those that a purge takes  *)
(* out of the middle of the feed.                                          *)
(*                                                                         *)
(* The numbers a tab has seen form a chain: what the browser would come    *)
(* back with, then what is on the wire, then the handler's position, then  *)
(* the rows it has read.  An outdated view is always beyond the part of    *)
(* the chain that does not mention its entity; and what lies beyond a      *)
(* position is either in the feed, or purged together with everything      *)
(* before it, which ChangesLost reports, or a hole.                        *)
(***************************************************************************)
EXTENDS ChangeFeed, FiniteSetTheorems, SequenceTheorems, WellFoundedInduction, TLAPS

-----------------------------------------------------------------------------
(* The numbers of a transaction's changes.                                 *)

LEMMA Greatest ==
  ASSUME NEW n \in Nat, NEW S, S \subseteq 1 .. n, S # {}
  PROVE  \E k \in S : \A j \in S : j <= k
  <1> DEFINE T == {n - k : k \in S}
  <1>0. \A k \in S : k \in Nat /\ k <= n
    OBVIOUS
  <1>1. T \subseteq Nat /\ T # {}
    <2>1. \A k \in S : n - k \in Nat
      BY <1>0
    <2>2. PICK k \in S : TRUE
      OBVIOUS
    <2>3. n - k \in T
      OBVIOUS
    <2> QED
      BY <2>1, <2>3
  <1>2. \E x \in T : \A y \in T : ~ (<<y, x>> \in OpToRel(<, Nat))
    BY <1>1, NatLessThanWellFounded, WFMin
  <1>3. PICK x \in T : \A y \in T : ~ (<<y, x>> \in OpToRel(<, Nat))
    BY <1>2
  <1>4. \A y \in T : ~ (y < x)
    BY <1>1, <1>3 DEF OpToRel
  <1>5. PICK k \in S : x = n - k
    OBVIOUS
  <1>6. \A j \in S : n - j \in T
    OBVIOUS
  <1>7. \A j \in S : ~ (n - j < n - k)
    BY <1>4, <1>5, <1>6
  <1> QED
    BY <1>7

LEMMA LastOfIsLast ==
  ASSUME NEW es \in Seq(Entities), NEW e, NEW i \in DOMAIN es, es[i] = e
  PROVE  /\ LastOf(e, es) \in DOMAIN es
         /\ es[LastOf(e, es)] = e
  <1> DEFINE S == {k \in DOMAIN es : es[k] = e}
  <1>1. DOMAIN es = 1 .. Len(es) /\ Len(es) \in Nat
    BY LenProperties
  <1>2. S \subseteq 1 .. Len(es) /\ S # {}
    BY <1>1
  <1>3. \E k \in S : \A j \in S : j <= k
    BY <1>1, <1>2, Greatest
  <1>4. \E k \in DOMAIN es : es[k] = e /\ \A j \in DOMAIN es : es[j] = e => j <= k
    BY <1>3
  <1> QED
    BY <1>4 DEF LastOf

LEMMA AppendedRows ==
  ASSUME NEW w \in Writers, NEW es \in Seq(Entities), seq \in Nat, began[w] \in Nat
  PROVE  /\ Appended(w, es) \subseteq Changes
         /\ IsFiniteSet(Appended(w, es))
         /\ \A c \in Appended(w, es) : seq < c.seq /\ c.seq <= seq + Len(es) /\ c.at = began[w]
         /\ \A c, d \in Appended(w, es) : c.seq = d.seq => c = d
         /\ \A k \in DOMAIN es : \E c \in Appended(w, es) : c.seq = seq + k /\ c.entity = es[k]
  <1> DEFINE D == DOMAIN es
             f == [k \in D |-> [seq |-> seq + k, entity |-> es[k], at |-> began[w]]]
  <1>1. D = 1 .. Len(es) /\ Len(es) \in Nat /\ \A k \in D : es[k] \in Entities
    BY LenProperties
  <1>2. IsFiniteSet(D)
    BY <1>1, FS_Interval
  <1>3. f \in Surjection(D, Appended(w, es))
    BY DEF Appended, Surjection
  <1>4. IsFiniteSet(Appended(w, es))
    BY <1>2, <1>3, FS_Surjection
  <1>5. \A k \in D : k \in Nat /\ k > 0 /\ k <= Len(es)
    BY <1>1
  <1>6. Appended(w, es) \subseteq Changes
    BY <1>1, <1>5 DEF Appended, Changes
  <1>7. \A c \in Appended(w, es) : \E k \in D : c.seq = seq + k /\ c.entity = es[k] /\ c.at = began[w]
    BY DEF Appended
  <1>8. \A c \in Appended(w, es) : seq < c.seq /\ c.seq <= seq + Len(es) /\ c.at = began[w]
    BY <1>1, <1>5, <1>7
  <1>9. \A c, d \in Appended(w, es) : c.seq = d.seq => c = d
    BY <1>5 DEF Appended
  <1>10. \A k \in D : \E c \in Appended(w, es) : c.seq = seq + k /\ c.entity = es[k]
    <2> TAKE k \in D
    <2>1. [seq |-> seq + k, entity |-> es[k], at |-> began[w]] \in Appended(w, es)
      BY DEF Appended
    <2> QED
      BY <2>1
  <1> QED
    BY <1>4, <1>6, <1>8, <1>9, <1>10

-----------------------------------------------------------------------------
(* The feed.                                                               *)

Feed ==
  /\ now \in Nat /\ seq \in Nat
  /\ began \in [Writers -> Nat \cup {None}]
  /\ log \subseteq Changes /\ IsFiniteSet(log)
  /\ holes \subseteq Nat
  /\ content \in [Entities -> 0 .. seq]
  /\ \A c \in log : c.seq <= seq /\ c.at <= now
  /\ \A c, d \in log : c.seq = d.seq => c = d
  /\ \A w \in Writers : Running(w) => began[w] <= now

(* The steps that do not touch the feed. *)
LEMMA OtherSteps ==
  Next => \/ UNCHANGED feedVars
          \/ \E w \in Writers : Begin(w) \/ \E es \in Writes : Commit(w, es)
          \/ PurgeChanges \/ Tick
  BY DEF Next, Listener, Listen, WakeAll, WakeUser, ListenerLost, Opened, Subscribe, Drain, Start,
         Read, WriteRow, Woken, SafetyNet, End, Receive, Refetch

LEMMA CommitFeed ==
  ASSUME Feed, NEW w \in Writers, NEW es \in Writes, Commit(w, es)
  PROVE  Feed' /\ seq' >= seq
  <1>0. holes' = holes /\ holes \subseteq Nat
    BY DEF Feed, Commit
  <1>1. es \in Seq(Entities) /\ Len(es) \in Nat /\ DOMAIN es = 1 .. Len(es)
    BY SizesAssumption, LenProperties
  <1>2. began[w] \in Nat /\ began[w] <= now
    BY DEF Feed, Commit, Running
  <1>3. /\ Appended(w, es) \subseteq Changes
        /\ IsFiniteSet(Appended(w, es))
        /\ \A c \in Appended(w, es) : seq < c.seq /\ c.seq <= seq + Len(es) /\ c.at = began[w]
        /\ \A c, d \in Appended(w, es) : c.seq = d.seq => c = d
    BY <1>1, <1>2, AppendedRows DEF Feed
  <1>4. seq' = seq + Len(es) /\ log' = log \cup Appended(w, es) /\ now' = now
    BY DEF Commit
  <1>5. now' \in Nat /\ seq' \in Nat /\ seq' >= seq
    BY <1>1, <1>4 DEF Feed
  <1>6. began' \in [Writers -> Nat \cup {None}] /\ \A v \in Writers : Running(v)' => began'[v] <= now'
    BY <1>4 DEF Commit, Feed, Running
  <1>7. log' \subseteq Changes /\ IsFiniteSet(log')
    BY <1>3, <1>4, FS_Union DEF Feed
  <1>8. \A c \in log' : c.seq \in Nat
    BY <1>7 DEF Changes
  <1>9. \A c \in log' : c.seq <= seq' /\ c.at <= now'
    BY <1>1, <1>2, <1>3, <1>4, <1>8 DEF Feed
  <1>10. \A c, d \in log' : c.seq = d.seq => c = d
    BY <1>3, <1>4, <1>8 DEF Feed
  <1>11. content' \in [Entities -> 0 .. seq']
    <2>1. \A e \in Entities : content'[e] = IF \E k \in DOMAIN es : es[k] = e THEN seq + LastOf(e, es) ELSE content[e]
      BY DEF Commit
    <2>2. \A e \in Entities : (\E k \in DOMAIN es : es[k] = e) => LastOf(e, es) \in 1 .. Len(es)
      BY <1>1, LastOfIsLast
    <2>3. \A e \in Entities : content'[e] \in 0 .. seq'
      BY <1>1, <1>4, <2>1, <2>2 DEF Feed
    <2> QED
      BY <2>3 DEF Commit
  <1> QED
    BY <1>0, <1>5, <1>6, <1>7, <1>9, <1>10, <1>11 DEF Feed

LEMMA CommitContent ==
  ASSUME Feed, NEW w \in Writers, NEW es \in Writes, Commit(w, es), NEW e \in Entities
  PROVE  \/ content'[e] = content[e]
         \/ content'[e] > seq /\ \E c \in log' : c.entity = e /\ c.seq = content'[e]
  <1>1. es \in Seq(Entities) /\ Len(es) \in Nat /\ DOMAIN es = 1 .. Len(es)
    BY SizesAssumption, LenProperties
  <1>2. content'[e] = IF \E k \in DOMAIN es : es[k] = e THEN seq + LastOf(e, es) ELSE content[e]
    BY DEF Commit
  <1>3. CASE \E k \in DOMAIN es : es[k] = e
    <2>1. LastOf(e, es) \in DOMAIN es /\ es[LastOf(e, es)] = e
      BY <1>1, <1>3, LastOfIsLast
    <2>2. \E c \in Appended(w, es) : c.seq = seq + LastOf(e, es) /\ c.entity = e
      <3>1. seq \in Nat /\ began[w] \in Nat
        BY DEF Feed, Commit, Running
      <3>2. \A k \in DOMAIN es : \E c \in Appended(w, es) : c.seq = seq + k /\ c.entity = es[k]
        BY <1>1, <3>1, AppendedRows
      <3> QED
        BY <2>1, <3>2
    <2>3. content'[e] = seq + LastOf(e, es)
      BY <1>2, <1>3
    <2>4. content'[e] > seq
      BY <1>1, <2>1, <2>3 DEF Feed
    <2> QED
      BY <2>2, <2>3, <2>4 DEF Commit
  <1> QED
    BY <1>2, <1>3

LEMMA FeedStep ==
  Feed /\ [Next]_vars => Feed' /\ seq' >= seq
  <1> SUFFICES ASSUME Feed, [Next]_vars
               PROVE  Feed' /\ seq' >= seq
    OBVIOUS
  <1>1. ASSUME NEW w \in Writers, Begin(w)
        PROVE  Feed' /\ seq' >= seq
    BY <1>1 DEF Feed, Begin, Running
  <1>2. ASSUME NEW w \in Writers, NEW es \in Writes, Commit(w, es)
        PROVE  Feed' /\ seq' >= seq
    BY <1>2, CommitFeed
  <1>3. CASE PurgeChanges
    <2>1. log' \in SUBSET log
      BY <1>3 DEF PurgeChanges, Recent
    <2>2. IsFiniteSet(log')
      BY <2>1, FS_Subset DEF Feed
    <2>3. Torn \subseteq Nat
      BY DEF Torn, Feed, Changes
    <2>4. holes' \subseteq Nat
      BY <1>3, <2>3 DEF Feed, PurgeChanges
    <2> QED
      BY <1>3, <2>1, <2>2, <2>4 DEF Feed, PurgeChanges, Running
  <1>4. CASE Tick
    <2>1. \A c \in log : c.at \in Nat
      BY DEF Feed, Changes
    <2> QED
      BY <1>4, <2>1 DEF Feed, Tick, Running
  <1>5. CASE UNCHANGED feedVars
    BY <1>5 DEF feedVars, Feed, Running
  <1> QED
    BY <1>1, <1>2, <1>3, <1>4, <1>5, OtherSteps DEF vars

-----------------------------------------------------------------------------
(* The tabs.                                                               *)

Hub ==
  /\ listener \in [Replicas -> {"down", "listening", "up"}]
  /\ notified \in [Replicas -> BOOLEAN]
  /\ failures \in Nat

LEMMA HubStep == Hub /\ [Next]_vars => Hub'
  <1> SUFFICES ASSUME Hub, [Next]_vars
               PROVE  Hub'
    OBVIOUS
  <1>1. ASSUME NEW w \in Writers, NEW es \in Writes, Commit(w, es)
        PROVE  Hub'
    BY <1>1 DEF Hub, Commit
  <1>2. ASSUME NEW r \in Replicas, Listener(r) \/ ListenerLost(r)
        PROVE  Hub'
    <2>1. CASE Listen(r)
      BY <2>1 DEF Hub, Listen
    <2>2. CASE WakeAll(r)
      BY <2>2 DEF Hub, WakeAll
    <2>3. CASE WakeUser(r)
      BY <2>3 DEF Hub, WakeUser
    <2>4. CASE ListenerLost(r)
      BY <2>4 DEF Hub, ListenerLost
    <2> QED
      BY <1>2, <2>1, <2>2, <2>3, <2>4 DEF Listener
  <1>3. ASSUME NEW t \in Tabs, End(t)
        PROVE  Hub'
    BY <1>3 DEF Hub, End, hubVars
  <1>4. CASE UNCHANGED <<hubVars, failures>>
    BY <1>4 DEF Hub, hubVars
  <1>5. \/ UNCHANGED <<hubVars, failures>>
        \/ \E w \in Writers, es \in Writes : Commit(w, es)
        \/ \E r \in Replicas : Listener(r) \/ ListenerLost(r)
        \/ \E t \in Tabs : End(t)
    BY DEF vars, Next, Begin, PurgeChanges, Tick, Opened, Subscribe, Drain, Start, Read, WriteRow, Woken,
           SafetyNet, Receive, Refetch
  <1> QED
    BY <1>1, <1>2, <1>3, <1>4, <1>5

Domains ==
  /\ at \in [Tabs -> Replicas \cup {None}]
  /\ phase \in [Tabs -> Phases]
  /\ wake \in [Tabs -> BOOLEAN]
  /\ more \in [Tabs -> BOOLEAN]
  /\ last \in [Tabs -> 0 .. seq]
  /\ batch \in [Tabs -> SUBSET Changes]
  /\ wire \in [Tabs -> Seq(Events)]
  /\ lastId \in [Tabs -> (0 .. seq) \cup {None}]
  /\ stale \in [Tabs -> SUBSET Entities]
  /\ view \in [Tabs -> [Entities -> Nat]]

Serving == {"read", "write", "wait"}

IsChange(event) == event.kind = "change"

(* What is on the wire is in order, after Last-Event-ID and up to the      *)
(* handler's position.                                                     *)
Wire(t) ==
  /\ phase[t] \notin Serving => wire[t] = <<>>
  /\ \A k \in 1 .. Len(wire[t]) : IsChange(wire[t][k]) =>
       /\ wire[t][k].entity \in Entities
       /\ wire[t][k].seq <= last[t]
       /\ lastId[t] # None => lastId[t] <= wire[t][k].seq
       /\ \A j \in 1 .. k : IsChange(wire[t][j]) => wire[t][j].seq <= wire[t][k].seq

Handler(t) ==
  /\ phase[t] = "closed" <=> at[t] = None
  /\ at[t] = None => ~ wake[t]
  /\ phase[t] = "write" <=> batch[t] # {}
  /\ phase[t] \in Serving /\ lastId[t] # None => lastId[t] <= last[t]
  /\ \A c \in batch[t] : last[t] < c.seq /\ c.seq <= seq
  /\ \A c, d \in batch[t] : c.seq = d.seq => c = d

Views(t) == \A e \in Entities : view[t][e] <= content[e]

Tab(t) == Wire(t) /\ Handler(t) /\ Views(t)

Inv == Feed /\ Hub /\ Domains /\ \A t \in Tabs : Tab(t)

LEMMA InvType == Inv => TypeOK
  BY DEF Inv, Feed, Hub, Domains, Tab, Handler, Views, TypeOK

LEMMA InvInit == Init => Inv
  <1> SUFFICES ASSUME Init
               PROVE  Inv
    OBVIOUS
  <1>1. Feed
    BY FS_EmptySet DEF Init, Feed, Running
  <1>2. Hub /\ Domains
    BY DEF Init, Hub, Domains, Phases
  <1>3. ASSUME NEW t \in Tabs
        PROVE  Tab(t)
    BY DEF Init, Tab, Wire, Handler, Views, Serving
  <1> QED
    BY <1>1, <1>2, <1>3 DEF Inv

(* Everything a tab depends on, but the feed. *)
Values(t) == <<at[t], phase[t], wake[t], last[t], batch[t], wire[t], lastId[t], stale[t], view[t]>>

LEMMA TabKept ==
  ASSUME NEW t \in Tabs, Tab(t), UNCHANGED Values(t), UNCHANGED <<seq, content>>
  PROVE  Tab(t)'
  BY DEF Tab, Wire, Handler, Views, Values

(* What a handler appends: hello, resync, or a change beyond its position. *)
LEMMA WireGrows ==
  ASSUME Inv, NEW t \in Tabs, NEW event \in Events,
         wire'[t] = Append(wire[t], event),
         phase'[t] \in Serving,
         lastId'[t] = lastId[t],
         last'[t] \in Nat, last[t] <= last'[t],
         IsChange(event) => /\ event.entity \in Entities
                            /\ event.seq = last'[t]
                            /\ lastId[t] # None => lastId[t] <= last'[t]
  PROVE  Wire(t)' /\ wire'[t] \in Seq(Events)
  <1> DEFINE n == Len(wire[t])
  <1>1. wire[t] \in Seq(Events) /\ n \in Nat
    BY LenProperties DEF Inv, Domains
  <1>2. /\ wire'[t] \in Seq(Events)
        /\ Len(wire'[t]) = n + 1
        /\ wire'[t][n + 1] = event
        /\ \A k \in 1 .. n : wire'[t][k] = wire[t][k]
    BY <1>1
  <1>3. Wire(t) /\ last[t] \in Nat
    BY DEF Inv, Feed, Tab, Domains
  <1>4. \A k \in 1 .. n : wire[t][k].seq \in Nat
    <2>1. \A k \in 1 .. n : wire[t][k] \in Events
      BY <1>1, ElementOfSeq
    <2> QED
      BY <2>1 DEF Events
  <1>5. ASSUME NEW k \in 1 .. n + 1, IsChange(wire'[t][k])
        PROVE  /\ wire'[t][k].entity \in Entities
               /\ wire'[t][k].seq <= last'[t]
               /\ lastId'[t] # None => lastId'[t] <= wire'[t][k].seq
               /\ \A j \in 1 .. k : IsChange(wire'[t][j]) => wire'[t][j].seq <= wire'[t][k].seq
    <2>1. CASE k = n + 1
      <3>1. \A j \in 1 .. n : IsChange(wire'[t][j]) => wire'[t][j].seq <= last'[t]
        BY <1>1, <1>2, <1>3, <1>4 DEF Wire
      <3>2. wire'[t][k] = event
        BY <1>2, <2>1
      <3>3. \A j \in 1 .. k : j \in 1 .. n \/ j = n + 1
        BY <1>1, <2>1
      <3> QED
        BY <1>2, <1>5, <3>1, <3>2, <3>3
    <2>2. CASE k \in 1 .. n
      <3>1. \A j \in 1 .. k : j \in 1 .. n /\ wire'[t][j] = wire[t][j]
        BY <1>1, <1>2, <2>2
      <3>2. wire'[t][k] = wire[t][k] /\ IsChange(wire[t][k])
        BY <1>2, <1>5, <2>2
      <3>3. wire'[t][k].seq <= last'[t]
        BY <1>3, <1>4, <2>2, <3>2 DEF Wire
      <3> QED
        BY <1>3, <2>2, <3>1, <3>2, <3>3 DEF Wire
    <2>3. k = n + 1 \/ k \in 1 .. n
      BY <1>1
    <2> QED
      BY <2>1, <2>2, <2>3
  <1>6. Wire(t)' <=> \A k \in 1 .. Len(wire'[t]) : IsChange(wire'[t][k]) =>
                       /\ wire'[t][k].entity \in Entities
                       /\ wire'[t][k].seq <= last'[t]
                       /\ lastId'[t] # None => lastId'[t] <= wire'[t][k].seq
                       /\ \A j \in 1 .. k : IsChange(wire'[t][j]) => wire'[t][j].seq <= wire'[t][k].seq
    BY DEF Wire, IsChange
  <1> QED
    BY <1>2, <1>5, <1>6

(* The steps that leave the tabs alone, or only wake their handlers. *)
LEMMA QuietStep ==
  ASSUME Inv, [Next]_vars,
         UNCHANGED <<at, phase, last, batch, more, tabVars>>,
         UNCHANGED <<seq, content>>,
         wake' = wake \/ \E r \in Replicas : wake' = WakeStreams(r)
  PROVE  Domains' /\ \A t \in Tabs : Tab(t)'
  <1>1. Domains'
    BY DEF Inv, Domains, tabVars, WakeStreams, Registered
  <1>2. ASSUME NEW t \in Tabs
        PROVE  Tab(t)'
    <2>1. at[t] = None => ~ wake'[t]
      BY SizesAssumption DEF Inv, Tab, Handler, WakeStreams, Registered
    <2>2. Tab(t)
      BY DEF Inv
    <2>3. Wire(t)' /\ Views(t)'
      BY <2>2 DEF Tab, Wire, Views, tabVars
    <2>4. Handler(t)'
      BY <2>1, <2>2 DEF Tab, Handler, tabVars
    <2> QED
      BY <2>3, <2>4 DEF Tab
  <1> QED
    BY <1>1, <1>2

LEMMA CommitTabs ==
  ASSUME Inv, NEW w \in Writers, NEW es \in Writes, Commit(w, es)
  PROVE  Domains' /\ \A t \in Tabs : Tab(t)'
  <1>1. seq' >= seq /\ seq' \in Nat /\ seq \in Nat /\ content \in [Entities -> 0 .. seq]
    BY CommitFeed DEF Inv, Feed
  <1>2. UNCHANGED <<at, phase, last, batch, more, wake, wire, lastId, stale, view>>
    BY DEF Commit, streamVars, tabVars
  <1>3. Domains'
    BY <1>1, <1>2 DEF Inv, Domains
  <1>4. \A e \in Entities : content'[e] = content[e] \/ content'[e] > seq
    BY CommitContent DEF Inv
  <1>5. content' \in [Entities -> Nat]
    BY CommitFeed DEF Inv, Feed
  <1>6. ASSUME NEW t \in Tabs
        PROVE  Tab(t)'
    <2>1. Tab(t) /\ batch[t] \subseteq Changes /\ view[t] \in [Entities -> Nat]
      BY DEF Inv, Domains
    <2>2. Wire(t)'
      BY <1>2, <2>1 DEF Tab, Wire
    <2>3. Handler(t)'
      BY <1>1, <1>2, <2>1 DEF Tab, Handler, Changes
    <2>4. Views(t)'
      BY <1>1, <1>2, <1>4, <1>5, <2>1 DEF Tab, Views
    <2> QED
      BY <2>2, <2>3, <2>4 DEF Tab
  <1> QED
    BY <1>3, <1>6

(* A step of one tab leaves the others as they are. *)
LEMMA OtherTabs ==
  ASSUME Inv, NEW t \in Tabs, UNCHANGED feedVars,
         \A x \in Tabs \ {t} : UNCHANGED Values(x),
         Tab(t)'
  PROVE  \A x \in Tabs : Tab(x)'
  <1> SUFFICES ASSUME NEW x \in Tabs \ {t}
               PROVE  Tab(x)'
    OBVIOUS
  <1>1. UNCHANGED <<seq, content>>
    BY DEF feedVars
  <1> QED
    BY <1>1, TabKept DEF Inv

LEMMA SubscribeTab ==
  ASSUME Inv, NEW t \in Tabs, NEW r \in Replicas, NEW reopened \in BOOLEAN, Subscribe(t, r, reopened)
  PROVE  Domains' /\ \A x \in Tabs : Tab(x)'
  <1>1. Domains /\ Tab(t) /\ r # None
    BY SizesAssumption DEF Inv
  <1>2. Domains'
    BY <1>1 DEF Domains, Subscribe, feedVars, Phases
  <1>3. \A x \in Tabs \ {t} : UNCHANGED Values(x)
    BY <1>1 DEF Domains, Subscribe, Values
  <1>4. Wire(t)'
    BY <1>1 DEF Domains, Subscribe, Tab, Wire, Serving
  <1>5. Handler(t)'
    BY <1>1 DEF Domains, Subscribe, Tab, Handler, Serving, feedVars
  <1>6. Views(t)'
    BY <1>1 DEF Subscribe, Tab, Views, feedVars
  <1>7. UNCHANGED feedVars
    BY DEF Subscribe
  <1> QED
    BY <1>2, <1>3, <1>4, <1>5, <1>6, <1>7, OtherTabs DEF Tab

LEMMA StartTab ==
  ASSUME Inv, NEW t \in Tabs, Start(t)
  PROVE  Domains' /\ \A x \in Tabs : Tab(x)'
  <1>1. Domains /\ Tab(t) /\ seq \in Nat
    BY DEF Inv, Feed
  <1>2. wire[t] \in Seq(Events) /\ wire[t] = <<>>
    BY <1>1 DEF Domains, Tab, Wire, Start, Serving
  <1>3. Hello \in Events /\ ~ IsChange(Hello)
    BY DEF Hello, Events, IsChange
  <1>4. phase'[t] = "read" /\ batch' = batch /\ batch[t] = {} /\ at[t] # None
    BY <1>1 DEF Domains, Tab, Handler, Start
  <1>5. Domains'
    <2>1. CASE lastId[t] = None
      <3>1. Append(wire[t], Hello) \in Seq(Events)
        BY <1>2, <1>3
      <3>2. wire' = [wire EXCEPT ![t] = Append(wire[t], Hello)] /\ last' = [last EXCEPT ![t] = seq]
        BY <2>1 DEF Start
      <3>3. wire' \in [Tabs -> Seq(Events)] /\ last' \in [Tabs -> 0 .. seq]
        BY <1>1, <3>1, <3>2 DEF Domains
      <3> QED
        BY <1>1, <3>3 DEF Domains, Start, feedVars, Phases
    <2>2. CASE lastId[t] # None
      <3>1. lastId[t] \in 0 .. seq
        BY <1>1, <2>2 DEF Domains
      <3> QED
        BY <1>1, <2>2, <3>1 DEF Domains, Start, feedVars, Phases
    <2> QED
      BY <2>1, <2>2
  <1>6. \A x \in Tabs \ {t} : UNCHANGED Values(x)
    BY <1>1 DEF Domains, Start, Values
  <1>7. Wire(t)'
    <2>1. CASE lastId[t] = None
      <3>1. wire'[t] = Append(wire[t], Hello) /\ last'[t] = seq /\ lastId'[t] = lastId[t]
        BY <1>1, <2>1 DEF Domains, Start
      <3>2. last[t] <= seq /\ phase'[t] \in Serving
        BY <1>1, <1>4 DEF Domains, Serving
      <3> QED
        BY <1>1, <1>3, <3>1, <3>2, WireGrows
    <2>2. CASE lastId[t] # None
      BY <1>1, <1>2, <1>4, <2>2 DEF Start, Wire, Serving
    <2> QED
      BY <2>1, <2>2
  <1>8. Handler(t)'
    BY <1>1, <1>4 DEF Domains, Start, Tab, Handler, feedVars
  <1>9. Views(t)'
    BY <1>1 DEF Start, Tab, Views, feedVars
  <1>10. UNCHANGED feedVars
    BY DEF Start
  <1> QED
    BY <1>5, <1>6, <1>7, <1>8, <1>9, <1>10, OtherTabs DEF Tab

LEMMA ReadTab ==
  ASSUME Inv, NEW t \in Tabs, Read(t)
  PROVE  Domains' /\ \A x \in Tabs : Tab(x)'
  <1>1. Domains /\ Tab(t) /\ Feed /\ seq \in Nat
    BY DEF Inv, Feed
  <1>2. phase[t] = "read" /\ batch[t] = {} /\ at[t] # None /\ last[t] \in 0 .. seq
    BY <1>1 DEF Domains, Tab, Handler, Read
  <1>3. \A x \in Tabs \ {t} : UNCHANGED Values(x)
    BY <1>1 DEF Domains, Read, Values
  <1>4. Views(t)' /\ UNCHANGED feedVars
    BY <1>1 DEF Read, Tab, Views, feedVars
  <1>5. CASE ChangesLost(last[t])
    <2>1. Resync \in Events /\ ~ IsChange(Resync)
      BY DEF Resync, Events, IsChange
    <2>2. /\ wire' = [wire EXCEPT ![t] = Append(wire[t], Resync)]
          /\ last' = [last EXCEPT ![t] = seq]
          /\ phase' = [phase EXCEPT ![t] = "wait"]
          /\ UNCHANGED <<batch, more, at, wake, lastId, stale, view, seq>>
      BY <1>5 DEF Read, feedVars
    <2>3. wire'[t] = Append(wire[t], Resync) /\ last'[t] = seq /\ phase'[t] = "wait" /\ lastId'[t] = lastId[t]
      BY <1>1, <2>2 DEF Domains
    <2>4. Wire(t)' /\ wire'[t] \in Seq(Events)
      <3>1. phase'[t] \in Serving /\ last'[t] \in Nat /\ last[t] <= last'[t]
        BY <1>1, <1>2, <2>3 DEF Serving
      <3> QED
        BY <2>1, <2>3, <3>1, WireGrows
    <2>5. wire' \in [Tabs -> Seq(Events)]
      BY <1>1, <2>2, <2>3, <2>4 DEF Domains
    <2>6. Domains'
      BY <1>1, <2>2, <2>5 DEF Domains, Phases
    <2>7. Handler(t)'
      BY <1>1, <1>2, <2>2, <2>3 DEF Domains, Tab, Handler
    <2> QED
      BY <1>3, <1>4, <2>4, <2>6, <2>7, OtherTabs DEF Tab
  <1>6. CASE ~ ChangesLost(last[t])
    <2> DEFINE R == Rows(last[t])
    <2>1. R \subseteq log /\ \A c \in R : c.seq > last[t]
      BY DEF Rows, Beyond
    <2>2. R \subseteq Changes /\ \A c \in R : last[t] < c.seq /\ c.seq <= seq
      BY <1>1, <1>2, <2>1 DEF Feed, Changes
    <2>3. \A c, d \in R : c.seq = d.seq => c = d
      BY <1>1, <2>1 DEF Feed
    <2> HIDE DEF R
    <2>4. /\ batch' = [batch EXCEPT ![t] = R]
          /\ more' = [more EXCEPT ![t] = Cardinality(R) = Batch]
          /\ phase' = [phase EXCEPT ![t] = IF R = {} THEN "wait" ELSE "write"]
          /\ UNCHANGED <<wire, last, at, wake, lastId, stale, view, seq>>
      BY <1>6 DEF Read, feedVars, R
    <2>5. batch'[t] = R /\ phase'[t] = IF R = {} THEN "wait" ELSE "write"
      BY <1>1, <2>4 DEF Domains
    <2>6. Domains'
      <3>1. more' \in [Tabs -> BOOLEAN] /\ batch' \in [Tabs -> SUBSET Changes] /\ phase' \in [Tabs -> Phases]
        BY <1>1, <2>2, <2>4 DEF Domains, Phases
      <3> QED
        BY <1>1, <2>4, <3>1 DEF Domains
    <2>7. Wire(t)'
      BY <1>1, <1>2, <2>4, <2>5 DEF Tab, Wire, Serving
    <2>8. Handler(t)'
      BY <1>1, <1>2, <2>2, <2>3, <2>4, <2>5 DEF Tab, Handler, Serving
    <2> QED
      BY <1>3, <1>4, <2>6, <2>7, <2>8, OtherTabs DEF Tab
  <1> QED
    BY <1>5, <1>6

LEMMA WriteRowTab ==
  ASSUME Inv, NEW t \in Tabs, NEW c \in batch[t], WriteRow(t, c)
  PROVE  Domains' /\ \A x \in Tabs : Tab(x)'
  <1>1. Domains /\ Tab(t) /\ seq \in Nat
    BY DEF Inv, Feed
  <1>2. phase[t] = "write" /\ at[t] # None /\ last[t] \in 0 .. seq
    BY <1>1 DEF Domains, Tab, Handler, WriteRow
  <1>3. c \in Changes /\ last[t] < c.seq /\ c.seq <= seq /\ c.seq \in Nat /\ c.entity \in Entities
    BY <1>1 DEF Domains, Tab, Handler, Changes
  <1>4. \A x \in Tabs \ {t} : UNCHANGED Values(x)
    BY <1>1 DEF Domains, WriteRow, Values
  <1>5. Views(t)' /\ UNCHANGED feedVars
    BY <1>1 DEF WriteRow, Tab, Views, feedVars
  <1> DEFINE R == batch[t] \ {c}
  <1>6. R \subseteq Changes /\ \A d \in R : c.seq < d.seq /\ d.seq <= seq
    <2>1. \A d \in R : c.seq <= d.seq /\ d.seq # c.seq /\ d \in Changes /\ d.seq <= seq
      BY <1>1 DEF WriteRow, NextRow, Tab, Handler, Domains
    <2> QED
      BY <1>3, <2>1 DEF Changes
  <1>7. \A d, f \in R : d.seq = f.seq => d = f
    BY <1>1 DEF Tab, Handler
  <1>8. AfterRow(t, R) \in {"read", "write", "wait"} /\ (AfterRow(t, R) = "write" <=> R # {})
    BY DEF AfterRow
  <1> HIDE DEF R
  <1>9. /\ wire' = [wire EXCEPT ![t] = Append(wire[t], Change(c))]
        /\ last' = [last EXCEPT ![t] = c.seq]
        /\ batch' = [batch EXCEPT ![t] = R]
        /\ phase' = [phase EXCEPT ![t] = AfterRow(t, R)]
        /\ more' = [more EXCEPT ![t] = more[t] /\ batch[t] # {c}]
        /\ UNCHANGED <<at, wake, lastId, stale, view, seq>>
    BY DEF WriteRow, feedVars, R
  <1>10. /\ wire'[t] = Append(wire[t], Change(c)) /\ last'[t] = c.seq /\ batch'[t] = R
         /\ phase'[t] = AfterRow(t, R) /\ lastId'[t] = lastId[t]
    BY <1>1, <1>9 DEF Domains
  <1>11. Change(c) \in Events /\ IsChange(Change(c)) /\ Change(c).seq = c.seq /\ Change(c).entity = c.entity
    BY <1>3 DEF Change, Events, IsChange
  <1>12. lastId[t] # None => lastId[t] <= c.seq
    BY <1>1, <1>2, <1>3 DEF Domains, Tab, Handler, Serving
  <1>13. Wire(t)' /\ wire'[t] \in Seq(Events)
    <2>1. phase'[t] \in Serving /\ last'[t] \in Nat /\ last[t] <= last'[t]
      BY <1>2, <1>3, <1>8, <1>10 DEF Serving
    <2>2. Change(c).entity \in Entities /\ Change(c).seq = last'[t] /\ (lastId[t] # None => lastId[t] <= last'[t])
      BY <1>3, <1>10, <1>11, <1>12
    <2> QED
      BY <1>10, <1>11, <2>1, <2>2, WireGrows
  <1>14. Domains'
    <2>1. wire' \in [Tabs -> Seq(Events)]
      BY <1>1, <1>9, <1>10, <1>13 DEF Domains
    <2>2. last' \in [Tabs -> 0 .. seq] /\ batch' \in [Tabs -> SUBSET Changes] /\ phase' \in [Tabs -> Phases]
      BY <1>1, <1>3, <1>6, <1>8, <1>9 DEF Domains, Phases
    <2>3. more' \in [Tabs -> BOOLEAN]
      BY <1>1, <1>9 DEF Domains
    <2> QED
      BY <1>1, <1>9, <2>1, <2>2, <2>3 DEF Domains
  <1>15. Handler(t)'
    BY <1>1, <1>2, <1>6, <1>7, <1>8, <1>9, <1>10, <1>12 DEF Tab, Handler
  <1> QED
    BY <1>4, <1>5, <1>13, <1>14, <1>15, OtherTabs DEF Tab

LEMMA WaitTab ==
  ASSUME Inv, NEW t \in Tabs, Woken(t) \/ SafetyNet(t)
  PROVE  Domains' /\ \A x \in Tabs : Tab(x)'
  <1>1. Domains /\ Tab(t)
    BY DEF Inv
  <1>2. /\ phase[t] = "wait" /\ phase' = [phase EXCEPT ![t] = "read"]
        /\ UNCHANGED <<feedVars, at, last, batch, more, tabVars>>
        /\ wake' = [wake EXCEPT ![t] = FALSE] \/ wake' = wake
    BY DEF Woken, SafetyNet
  <1>3. Domains'
    BY <1>1, <1>2 DEF Domains, feedVars, tabVars, Phases
  <1>4. \A x \in Tabs \ {t} : UNCHANGED Values(x)
    BY <1>1, <1>2 DEF Domains, Values, tabVars
  <1>5. Wire(t)' /\ Views(t)'
    BY <1>1, <1>2 DEF Domains, Tab, Wire, Views, feedVars, tabVars, Serving
  <1>6. Handler(t)'
    BY <1>1, <1>2 DEF Domains, Tab, Handler, feedVars, tabVars, Serving
  <1> QED
    BY <1>2, <1>3, <1>4, <1>5, <1>6, OtherTabs DEF Tab

LEMMA EndTab ==
  ASSUME Inv, NEW t \in Tabs, End(t)
  PROVE  Domains' /\ \A x \in Tabs : Tab(x)'
  <1>1. Domains /\ Tab(t) /\ seq \in Nat
    BY DEF Inv, Feed
  <1>2. Domains'
    <2>1. wire' \in [Tabs -> Seq(Events)]
      BY <1>1 DEF Domains, End
    <2> QED
      BY <1>1, <2>1 DEF Domains, End, feedVars, Phases
  <1>3. \A x \in Tabs \ {t} : UNCHANGED Values(x)
    BY <1>1 DEF Domains, End, Values
  <1>4. /\ phase'[t] = "closed" /\ at'[t] = None /\ batch'[t] = {} /\ wake'[t] = FALSE /\ wire'[t] = <<>>
        /\ UNCHANGED <<feedVars, view>>
    BY <1>1 DEF Domains, End
  <1>5. Wire(t)'
    BY <1>4 DEF Wire, Serving
  <1>6. Handler(t)'
    BY <1>4 DEF Handler, Serving
  <1>7. Views(t)'
    BY <1>1, <1>4 DEF Tab, Views, feedVars
  <1> QED
    BY <1>2, <1>3, <1>4, <1>5, <1>6, <1>7, OtherTabs DEF Tab

LEMMA RefetchTab ==
  ASSUME Inv, NEW t \in Tabs, NEW e \in Entities, Refetch(t, e)
  PROVE  Domains' /\ \A x \in Tabs : Tab(x)'
  <1>1. Domains /\ Tab(t) /\ content \in [Entities -> Nat]
    BY DEF Inv, Feed
  <1>2. view' = [view EXCEPT ![t] = [view[t] EXCEPT ![e] = content[e]]] /\ stale' = [stale EXCEPT ![t] = stale[t] \ {e}]
    BY <1>1 DEF Refetch, Domains
  <1>3. UNCHANGED <<feedVars, at, phase, last, batch, more, wake, wire, lastId>>
    BY DEF Refetch, streamVars
  <1>4. view'[t] = [view[t] EXCEPT ![e] = content[e]] /\ view'[t] \in [Entities -> Nat]
    BY <1>1, <1>2 DEF Domains
  <1>5. Domains'
    <2>1. view' \in [Tabs -> [Entities -> Nat]] /\ stale' \in [Tabs -> SUBSET Entities]
      BY <1>1, <1>2, <1>4 DEF Domains
    <2> QED
      BY <1>1, <1>3, <2>1 DEF Domains, feedVars
  <1>6. \A x \in Tabs \ {t} : UNCHANGED Values(x)
    BY <1>1, <1>2, <1>3 DEF Domains, Values
  <1>7. Wire(t)' /\ Handler(t)'
    BY <1>1, <1>3 DEF Tab, Wire, Handler, feedVars
  <1>8. Views(t)'
    BY <1>1, <1>3, <1>4 DEF Domains, Tab, Views, feedVars
  <1> QED
    BY <1>3, <1>5, <1>6, <1>7, <1>8, OtherTabs DEF Tab

(* What arrives is the first on the wire; the rest moves up. *)
LEMMA Arrives ==
  ASSUME Inv, NEW t \in Tabs, Receive(t)
  PROVE  /\ wire[t] \in Seq(Events) /\ Len(wire[t]) \in Nat /\ 1 \in 1 .. Len(wire[t])
         /\ Head(wire[t]) = wire[t][1] /\ wire[t][1] \in Events
         /\ wire'[t] \in Seq(Events) /\ Len(wire'[t]) = Len(wire[t]) - 1
         /\ \A k \in 1 .. Len(wire'[t]) : k + 1 \in 1 .. Len(wire[t]) /\ wire'[t][k] = wire[t][k + 1]
         /\ wire' = [wire EXCEPT ![t] = Tail(wire[t])]
  <1>1. wire \in [Tabs -> Seq(Events)] /\ wire[t] \in Seq(Events) /\ wire[t] # <<>>
    BY DEF Inv, Domains, Receive
  <1>2. Len(wire[t]) \in Nat /\ Len(wire[t]) > 0
    BY <1>1, EmptySeq, LenProperties
  <1>3. Head(wire[t]) = wire[t][1] /\ wire[t][1] \in Events
    BY <1>1, <1>2, ElementOfSeq
  <1>4. wire' = [wire EXCEPT ![t] = Tail(wire[t])] /\ wire'[t] = Tail(wire[t])
    BY <1>1 DEF Receive
  <1>5. /\ Tail(wire[t]) \in Seq(Events) /\ Len(Tail(wire[t])) = Len(wire[t]) - 1
        /\ \A k \in 1 .. Len(Tail(wire[t])) : Tail(wire[t])[k] = wire[t][k + 1]
    BY <1>1, HeadTailProperties
  <1> QED
    BY <1>1, <1>2, <1>3, <1>4, <1>5

LEMMA ReceiveTab ==
  ASSUME Inv, NEW t \in Tabs, Receive(t)
  PROVE  /\ Domains' /\ \A x \in Tabs : Tab(x)'
         /\ lastId[t] # None /\ lastId'[t] # None => lastId'[t] >= lastId[t]
  <1>1. Domains /\ Tab(t) /\ seq \in Nat
    BY DEF Inv, Feed
  <1> DEFINE event == wire[t][1]
             id == IF event.kind = "change" THEN event.seq ELSE lastId[t]
  <1>2. event \in Events /\ event.seq \in Nat /\ 1 \in 1 .. Len(wire[t])
    BY Arrives DEF Events
  <1>3. phase[t] \in Serving
    <2>1. wire[t] # <<>>
      BY DEF Receive
    <2> QED
      BY <1>1, <2>1 DEF Tab, Wire
  <1>4. last[t] \in 0 .. seq /\ lastId[t] \in (0 .. seq) \cup {None} /\ stale[t] \subseteq Entities
    BY <1>1 DEF Domains
  <1>5. IsChange(event) => event.entity \in Entities /\ event.seq <= last[t] /\ (lastId[t] # None => lastId[t] <= event.seq)
    BY <1>1, <1>2 DEF Tab, Wire
  <1>6. Covers(event) \subseteq Entities
    BY <1>5 DEF Covers, IsChange
  <1>7. id \in (0 .. seq) \cup {None} /\ (lastId[t] # None /\ id # None => id >= lastId[t])
    BY <1>1, <1>2, <1>4, <1>5 DEF IsChange
  <1>8. id # None => id <= last[t]
    BY <1>1, <1>3, <1>4, <1>5 DEF IsChange, Tab, Handler
  <1>9. /\ lastId' = [lastId EXCEPT ![t] = id]
        /\ stale' = [stale EXCEPT ![t] = stale[t] \cup Covers(event)]
        /\ UNCHANGED <<feedVars, at, phase, last, batch, more, wake, view>>
    <2>1. Head(wire[t]) = event
      BY Arrives
    <2>2. lastId' = IF event.kind = "change" THEN [lastId EXCEPT ![t] = event.seq] ELSE lastId
      BY <2>1 DEF Receive
    <2>3. lastId' = [lastId EXCEPT ![t] = id]
      BY <1>1, <2>2 DEF Domains
    <2> QED
      BY <2>1, <2>3 DEF Receive, streamVars
  <1>10. \A k \in 1 .. Len(wire[t]) : IsChange(event) /\ IsChange(wire[t][k]) => event.seq <= wire[t][k].seq
    <2>1. ASSUME NEW k \in 1 .. Len(wire[t])
          PROVE  1 \in 1 .. k
      BY Arrives, <2>1
    <2> QED
      BY <1>1, <2>1 DEF Tab, Wire
  <1> HIDE DEF id, event
  <1>11. lastId'[t] = id /\ wire' = [wire EXCEPT ![t] = Tail(wire[t])]
    BY <1>1, <1>9, Arrives DEF Domains
  <1>12. Domains'
    <2>1. wire' \in [Tabs -> Seq(Events)]
      BY <1>1, <1>11, Arrives DEF Domains
    <2>2. lastId' \in [Tabs -> (0 .. seq) \cup {None}] /\ stale' \in [Tabs -> SUBSET Entities]
      BY <1>1, <1>4, <1>6, <1>7, <1>9 DEF Domains
    <2> QED
      BY <1>1, <1>9, <2>1, <2>2 DEF Domains, feedVars
  <1>13. \A x \in Tabs \ {t} : UNCHANGED Values(x)
    BY <1>1, <1>9, <1>11 DEF Domains, Values
  <1>14. Views(t)'
    BY <1>1, <1>9 DEF Tab, Views, feedVars
  <1>15. Handler(t)'
    BY <1>1, <1>8, <1>9, <1>11 DEF Tab, Handler, feedVars
  <1>16. Wire(t)'
    <2>1. ASSUME NEW k \in 1 .. Len(wire'[t]), IsChange(wire'[t][k])
          PROVE  /\ wire'[t][k].entity \in Entities
                 /\ wire'[t][k].seq <= last'[t]
                 /\ lastId'[t] # None => lastId'[t] <= wire'[t][k].seq
                 /\ \A j \in 1 .. k : IsChange(wire'[t][j]) => wire'[t][j].seq <= wire'[t][k].seq
      <3>1. k + 1 \in 1 .. Len(wire[t]) /\ wire'[t][k] = wire[t][k + 1]
        BY Arrives
      <3>2. \A j \in 1 .. k : j \in 1 .. Len(wire'[t]) /\ j + 1 \in 1 .. k + 1
        BY Arrives
      <3>3. \A j \in 1 .. k : wire'[t][j] = wire[t][j + 1]
        BY <3>2, Arrives
      <3>4. \A j \in 1 .. k + 1 : IsChange(wire[t][j]) => wire[t][j].seq <= wire[t][k + 1].seq
        BY <1>1, <2>1, <3>1 DEF Tab, Wire
      <3>5. lastId'[t] # None => lastId'[t] <= wire'[t][k].seq
        BY <1>1, <1>10, <1>11, <2>1, <3>1 DEF Tab, Wire, id, IsChange
      <3>6. wire'[t][k].entity \in Entities /\ wire'[t][k].seq <= last'[t]
        BY <1>1, <1>9, <2>1, <3>1 DEF Tab, Wire
      <3> QED
        BY <3>1, <3>2, <3>3, <3>4, <3>5, <3>6
    <2> QED
      BY <1>3, <1>9, <2>1 DEF Wire, IsChange
  <1>17. UNCHANGED feedVars
    BY <1>9
  <1> QED
    BY <1>7, <1>11, <1>12, <1>13, <1>14, <1>15, <1>16, <1>17, OtherTabs DEF Tab

LEMMA InvStep == Inv /\ [Next]_vars => Inv'
  <1> SUFFICES ASSUME Inv, [Next]_vars
               PROVE  Inv'
    OBVIOUS
  <1>1. Feed' /\ Hub'
    BY FeedStep, HubStep DEF Inv
  <1>2. Domains' /\ \A t \in Tabs : Tab(t)'
    <2>1. ASSUME NEW w \in Writers, NEW es \in Writes, Commit(w, es)
          PROVE  Domains' /\ \A t \in Tabs : Tab(t)'
      BY <2>1, CommitTabs
    <2>2. ASSUME \/ \E w \in Writers : Begin(w)
                 \/ PurgeChanges \/ Tick
                 \/ \E r \in Replicas : Listen(r) \/ ListenerLost(r)
                 \/ UNCHANGED vars
          PROVE  Domains' /\ \A t \in Tabs : Tab(t)'
      BY <2>2, QuietStep
         DEF Begin, PurgeChanges, Tick, Listen, ListenerLost, vars, feedVars, streamVars, tabVars
    <2>3. ASSUME NEW r \in Replicas, WakeAll(r) \/ WakeUser(r)
          PROVE  Domains' /\ \A t \in Tabs : Tab(t)'
      BY <2>3, QuietStep DEF WakeAll, WakeUser, feedVars, streamVars, tabVars
    <2>4. ASSUME NEW t \in Tabs, Opened(t)
          PROVE  Domains' /\ \A x \in Tabs : Tab(x)'
      BY <2>4, SubscribeTab DEF Opened
    <2>5. ASSUME NEW t \in Tabs, Drain(t) \/ SafetyNet(t)
          PROVE  Domains' /\ \A x \in Tabs : Tab(x)'
      BY <2>5, StartTab, ReadTab, WriteRowTab, WaitTab DEF Drain
    <2>6. ASSUME NEW t \in Tabs, End(t) \/ Receive(t)
          PROVE  Domains' /\ \A x \in Tabs : Tab(x)'
      BY <2>6, EndTab, ReceiveTab
    <2>7. ASSUME NEW t \in Tabs, NEW e \in Entities, Refetch(t, e)
          PROVE  Domains' /\ \A x \in Tabs : Tab(x)'
      BY <2>7, RefetchTab
    <2> QED
      BY <2>1, <2>2, <2>3, <2>4, <2>5, <2>6, <2>7 DEF Next, Listener
  <1> QED
    BY <1>1, <1>2 DEF Inv

(* Every state is of its type, and no handler, browser or view is ahead of *)
(* the feed, however many tabs and replicas there are.                     *)
THEOREM TypeCorrect == Spec => []TypeOK
  <1>1. Spec => []Inv
    BY InvInit, InvStep, PTL DEF Spec
  <1> QED
    BY <1>1, InvType, PTL

(* What a tab receives only grows, for any batch size, retention and       *)
(* interleaving of failing streams (drain goes on from the last row).      *)
THEOREM ReceivedInOrder == Spec => InOrder
  <1> DEFINE Grows == \A t \in Tabs : lastId[t] # None /\ lastId'[t] # None => lastId'[t] >= lastId[t]
  <1>1. Inv /\ [Next]_vars => [Grows]_vars
    <2> SUFFICES ASSUME Inv, [Next]_vars, NEW t \in Tabs, lastId[t] # None, lastId'[t] # None
                 PROVE  lastId'[t] >= lastId[t]
      OBVIOUS
    <2>1. lastId[t] \in Nat /\ lastId \in [Tabs -> (0 .. seq) \cup {None}]
      BY DEF Inv, Feed, Domains
    <2>2. ASSUME NEW x \in Tabs, NEW r \in Replicas, NEW reopened \in BOOLEAN, Subscribe(x, r, reopened)
          PROVE  lastId'[t] >= lastId[t]
      BY <2>1, <2>2 DEF Subscribe
    <2>3. ASSUME NEW x \in Tabs, Receive(x)
          PROVE  lastId'[t] >= lastId[t]
      <3>1. CASE x = t
        BY <2>3, <3>1, ReceiveTab
      <3>2. CASE x # t
        BY <2>1, <2>3, <3>2 DEF Receive
      <3> QED
        BY <3>1, <3>2
    <2>4. CASE UNCHANGED lastId
      BY <2>1, <2>4
    <2>5. \/ UNCHANGED lastId
          \/ \E x \in Tabs, r \in Replicas, reopened \in BOOLEAN : Subscribe(x, r, reopened)
          \/ \E x \in Tabs : Receive(x)
      BY DEF vars, tabVars, Next, Begin, Commit, PurgeChanges, Tick, Listener, Listen, WakeAll, WakeUser,
             ListenerLost, Opened, Drain, Start, Read, WriteRow, Woken, SafetyNet, End, Refetch
    <2> QED
      BY <2>2, <2>3, <2>4, <2>5
  <1>2. Spec => []Inv
    BY InvInit, InvStep, PTL DEF Spec
  <1> QED
    BY <1>1, <1>2, PTL DEF Spec, InOrder

-----------------------------------------------------------------------------
(* Nothing is missed.                                                      *)

Kept(e) == \E c \in log : c.entity = e /\ c.seq = content[e]

(* The last change of an entity is in the feed, or everything before it is *)
(* purged too, or it is a hole.                                            *)
Order ==
  \A e \in Entities : \/ content[e] = 0 \/ Kept(e)
                      \/ \A c \in log : c.seq > content[e]
                      \/ content[e] \in holes

LEMMA CommitOrder ==
  ASSUME Feed, Order, NEW w \in Writers, NEW es \in Writes, Commit(w, es)
  PROVE  Order'
  <1>1. es \in Seq(Entities)
    BY SizesAssumption
  <1>2. began[w] \in Nat /\ seq \in Nat
    BY DEF Feed, Commit, Running
  <1>3. \A c \in Appended(w, es) : c \in Changes /\ seq < c.seq
    BY <1>1, <1>2, AppendedRows
  <1>4. log' = log \cup Appended(w, es) /\ holes' = holes
    BY DEF Commit
  <1>5. ASSUME NEW e \in Entities
        PROVE  content'[e] = 0 \/ Kept(e)' \/ (\A c \in log' : c.seq > content'[e]) \/ content'[e] \in holes'
    <2>1. CASE content'[e] = content[e]
      <3>1. content[e] \in 0 .. seq
        BY DEF Feed
      <3>2. \A c \in Appended(w, es) : c.seq > content[e]
        BY <1>2, <1>3, <3>1 DEF Changes
      <3>3. content[e] = 0 \/ Kept(e) \/ (\A c \in log : c.seq > content[e]) \/ content[e] \in holes
        BY DEF Order
      <3> QED
        BY <1>4, <2>1, <3>2, <3>3 DEF Kept
    <2>2. CASE \E c \in log' : c.entity = e /\ c.seq = content'[e]
      BY <2>2 DEF Kept
    <2> QED
      BY <2>1, <2>2, CommitContent
  <1> QED
    BY <1>5 DEF Order

(* A purge takes the change with everything before it, or tears a hole.    *)
LEMMA PurgeOrder ==
  ASSUME Feed, Order, PurgeChanges
  PROVE  Order'
  <1>1. log' = Recent /\ holes' = holes \cup Torn /\ content' = content /\ Recent \subseteq log
    BY DEF PurgeChanges, Recent
  <1>2. \A c \in log : c.seq \in Nat
    BY DEF Feed, Changes
  <1>3. ASSUME NEW e \in Entities, content[e] # 0, ~ Kept(e)', content[e] \notin holes'
        PROVE  \A c \in log' : c.seq > content[e]
    <2>1. CASE \A c \in log : c.seq > content[e]
      BY <1>1, <2>1
    <2>2. CASE Kept(e)
      <3>1. PICK d \in log : d.entity = e /\ d.seq = content[e]
        BY <2>2 DEF Kept
      <3>2. d \notin Recent
        BY <1>1, <1>3, <3>1 DEF Kept
      <3>3. ~ \E r \in Recent : r.seq < d.seq
        BY <1>1, <1>3, <3>1, <3>2 DEF Torn
      <3>4. \A c \in Recent : c.seq # d.seq
        BY <1>1, <3>1, <3>2 DEF Feed
      <3> QED
        BY <1>1, <1>2, <3>1, <3>3, <3>4
    <2> QED
      BY <1>1, <1>3, <2>1, <2>2 DEF Order
  <1> QED
    BY <1>1, <1>3 DEF Order

LEMMA OrderStep ==
  ASSUME Feed, Order, [Next]_vars
  PROVE  Order'
  <1>1. ASSUME NEW w \in Writers, NEW es \in Writes, Commit(w, es)
        PROVE  Order'
    BY <1>1, CommitOrder
  <1>2. CASE PurgeChanges
    BY <1>2, PurgeOrder
  <1>3. CASE UNCHANGED <<log, holes, content>>
    BY <1>3 DEF Order, Kept
  <1>4. (\E w \in Writers : Begin(w)) \/ Tick => UNCHANGED <<log, holes, content>>
    BY DEF Begin, Tick
  <1> QED
    BY <1>1, <1>2, <1>3, <1>4, OtherSteps DEF vars, feedVars

(* What is newer than a position is found there, or reported lost. *)
LEMMA Found ==
  ASSUME Feed, Order, NEW e \in Entities, NEW p \in Nat, content[e] > p, content[e] \notin holes
  PROVE  ChangesLost(p) \/ \E c \in log : c.entity = e /\ c.seq = content[e]
  <1>1. content[e] \in Nat /\ content[e] <= seq /\ seq \in Nat
    BY DEF Feed
  <1>2. CASE \A c \in log : c.seq > content[e]
    <2>1. \A c \in log : c.seq > p + 1
      BY <1>1, <1>2 DEF Feed, Changes
    <2> QED
      BY <1>1, <2>1 DEF ChangesLost
  <1> QED
    BY <1>1, <1>2 DEF Order, Kept

Unmentioned(t, e, n) == \A k \in 1 .. n : e \notin Covers(wire[t][k])

(* An outdated view is beyond the part of the chain that does not mention  *)
(* its entity: Last-Event-ID, the wire, the handler's position.            *)
BeyondId(t) ==
  \A e \in Entities : Outdated(t, e) /\ lastId[t] # None => content[e] > lastId[t]

BeyondWire(t) ==
  \A e \in Entities, k \in 1 .. Len(wire[t]) :
    Outdated(t, e) /\ IsChange(wire[t][k]) /\ Unmentioned(t, e, k) => content[e] > wire[t][k].seq

BeyondHandler(t) ==
  \A e \in Entities :
    Outdated(t, e) /\ phase[t] \in Serving /\ Unmentioned(t, e, Len(wire[t])) => content[e] > last[t]

(* The rows that were read leave nothing out, but holes. *)
NoGap(t) ==
  \A c \in batch[t], e \in Entities :
    last[t] < content[e] /\ content[e] <= c.seq /\ content[e] \notin holes => \E d \in batch[t] : d.entity = e /\ d.seq = content[e]

News(t) == BeyondId(t) /\ BeyondWire(t) /\ BeyondHandler(t) /\ NoGap(t)

(* What News depends on. *)
Sight(t) == <<phase[t], last[t], batch[t], wire[t], lastId[t], stale[t], view[t]>>

LEMMA NewsKept ==
  ASSUME NEW t \in Tabs, News(t), UNCHANGED Sight(t), UNCHANGED content, holes \subseteq holes'
  PROVE  News(t)'
  BY DEF News, BeyondId, BeyondWire, BeyondHandler, NoGap, Sight, Outdated, Unmentioned, Covers, IsChange

LEMMA CommitNews ==
  ASSUME Inv, NEW t \in Tabs, News(t), NEW w \in Writers, NEW es \in Writes, Commit(w, es)
  PROVE  News(t)'
  <1>1. UNCHANGED Sight(t) /\ UNCHANGED <<phase, last, batch, wire, lastId, stale, view, holes>>
    BY DEF Commit, streamVars, tabVars, Sight
  <1>2. /\ seq \in Nat /\ last[t] \in 0 .. seq /\ lastId[t] \in (0 .. seq) \cup {None}
        /\ wire[t] \in Seq(Events) /\ batch[t] \subseteq Changes /\ content \in [Entities -> 0 .. seq]
        /\ Tab(t)
    BY DEF Inv, Feed, Domains
  <1>3. content' \in [Entities -> Nat]
    BY CommitFeed DEF Inv, Feed
  <1>4. \A e \in Entities : content'[e] = content[e] \/ content'[e] > seq
    BY CommitContent DEF Inv
  <1>5. BeyondId(t)'
    BY <1>1, <1>2, <1>3, <1>4 DEF News, BeyondId, Outdated
  <1>6. BeyondWire(t)'
    <2>1. ASSUME NEW e \in Entities, NEW k \in 1 .. Len(wire[t]),
                 Outdated(t, e)', IsChange(wire[t][k]), Unmentioned(t, e, k)
          PROVE  content'[e] > wire[t][k].seq
      <3>1. wire[t][k].seq <= seq /\ wire[t][k].seq \in Nat
        <4>1. wire[t][k] \in Events
          BY <1>2, ElementOfSeq
        <4>2. wire[t][k].seq <= last[t]
          BY <1>2, <2>1 DEF Tab, Wire
        <4> QED
          BY <1>2, <4>1, <4>2 DEF Events
      <3>2. CASE content'[e] = content[e]
        BY <1>1, <2>1, <3>2 DEF News, BeyondWire, Outdated
      <3>3. CASE content'[e] > seq
        BY <1>2, <1>3, <3>1, <3>3
      <3> QED
        BY <1>4, <3>2, <3>3
    <2> QED
      BY <1>1, <2>1 DEF BeyondWire, Unmentioned, Covers, IsChange
  <1>7. BeyondHandler(t)'
    <2>1. ASSUME NEW e \in Entities, Outdated(t, e)', phase[t] \in Serving, Unmentioned(t, e, Len(wire[t]))
          PROVE  content'[e] > last[t]
      <3>1. CASE content'[e] = content[e]
        BY <1>1, <2>1, <3>1 DEF News, BeyondHandler, Outdated
      <3>2. CASE content'[e] > seq
        BY <1>2, <1>3, <3>2
      <3> QED
        BY <1>4, <3>1, <3>2
    <2> QED
      BY <1>1, <2>1 DEF BeyondHandler, Unmentioned, Covers, Serving
  <1>8. NoGap(t)'
    <2>1. ASSUME NEW c \in batch[t], NEW e \in Entities, last[t] < content'[e], content'[e] <= c.seq,
                 content'[e] \notin holes
          PROVE  \E d \in batch[t] : d.entity = e /\ d.seq = content'[e]
      <3>1. c.seq \in Nat /\ c.seq <= seq
        BY <1>2 DEF Tab, Handler, Changes
      <3>2. content'[e] = content[e]
        BY <1>2, <1>3, <1>4, <2>1, <3>1
      <3> QED
        BY <2>1, <3>2 DEF News, NoGap
    <2> QED
      BY <1>1, <2>1 DEF NoGap
  <1> QED
    BY <1>5, <1>6, <1>7, <1>8 DEF News

(* A handler appends an event: what it must not pass over. *)
LEMMA NewsGrows ==
  ASSUME Inv, NEW t \in Tabs, News(t), NEW event \in Events,
         wire'[t] = Append(wire[t], event),
         UNCHANGED <<lastId[t], stale[t], view[t], content, holes>>,
         \A e \in Entities :
           Outdated(t, e) /\ IsChange(event) /\ Unmentioned(t, e, Len(wire[t])) /\ e \notin Covers(event)
             => content[e] > event.seq
  PROVE  /\ BeyondId(t)' /\ BeyondWire(t)'
         /\ \A e \in Entities : Unmentioned(t, e, Len(wire[t]))' =>
              Unmentioned(t, e, Len(wire[t])) /\ e \notin Covers(event)
  <1> DEFINE n == Len(wire[t])
  <1>1. wire[t] \in Seq(Events) /\ n \in Nat
    BY LenProperties DEF Inv, Domains
  <1>2. /\ Len(wire'[t]) = n + 1
        /\ wire'[t][n + 1] = event
        /\ \A k \in 1 .. n : wire'[t][k] = wire[t][k]
    BY <1>1
  <1>3. \A e \in Entities : Outdated(t, e)' <=> Outdated(t, e)
    BY DEF Outdated
  <1>4. \A e \in Entities, k \in 1 .. n : Unmentioned(t, e, k)' <=> Unmentioned(t, e, k)
    <2>1. \A k \in 1 .. n : \A j \in 1 .. k : j \in 1 .. n
      BY <1>1
    <2> QED
      BY <1>2, <2>1 DEF Unmentioned, Covers
  <1>5. \A e \in Entities : (\A k \in 1 .. n + 1 : e \notin Covers(wire'[t][k])) => Unmentioned(t, e, n) /\ e \notin Covers(event)
    <2>1. \A k \in 1 .. n : k \in 1 .. n + 1
      BY <1>1
    <2>2. n + 1 \in 1 .. n + 1
      BY <1>1
    <2> QED
      BY <1>2, <2>1, <2>2 DEF Unmentioned, Covers
  <1>6. BeyondId(t)'
    BY <1>3 DEF News, BeyondId
  <1>7. BeyondWire(t)'
    <2>1. ASSUME NEW e \in Entities, NEW k \in 1 .. n + 1,
                 Outdated(t, e), IsChange(wire'[t][k]), Unmentioned(t, e, k)'
          PROVE  content[e] > wire'[t][k].seq
      <3>1. CASE k \in 1 .. n
        BY <1>2, <1>4, <2>1, <3>1 DEF News, BeyondWire
      <3>2. CASE k = n + 1
        <4>0. \A j \in 1 .. n + 1 : e \notin Covers(wire'[t][j])
          BY <2>1, <3>2 DEF Unmentioned, Covers
        <4>1. Unmentioned(t, e, n) /\ e \notin Covers(event)
          BY <1>5, <4>0
        <4>2. wire'[t][k] = event /\ IsChange(event)
          BY <1>2, <2>1, <3>2
        <4>3. content[e] > event.seq
          BY <2>1, <4>1, <4>2
        <4> QED
          BY <4>2, <4>3
      <3> QED
        BY <1>1, <3>1, <3>2
    <2>2. BeyondWire(t)' <=> \A e \in Entities, k \in 1 .. Len(wire'[t]) :
                               Outdated(t, e)' /\ IsChange(wire'[t][k]) /\ Unmentioned(t, e, k)' => content'[e] > wire'[t][k].seq
      BY DEF BeyondWire, IsChange
    <2> QED
      BY <1>2, <1>3, <2>1, <2>2
  <1>8. \A e \in Entities : Unmentioned(t, e, Len(wire[t]))' <=> \A k \in 1 .. n + 1 : e \notin Covers(wire'[t][k])
    BY <1>2 DEF Unmentioned, Covers
  <1> QED
    BY <1>5, <1>6, <1>7, <1>8

(* What one tab, its handler or its connection does, the others do not see. *)
LEMMA OthersKept ==
  ASSUME Inv, NEW t \in Tabs,
         \/ Opened(t) \/ Drain(t) \/ SafetyNet(t) \/ End(t) \/ Receive(t)
         \/ \E e \in Entities : Refetch(t, e),
         NEW x \in Tabs \ {t}
  PROVE  UNCHANGED Sight(x) /\ UNCHANGED <<content, holes>>
  <1>1. Domains
    BY DEF Inv
  <1>2. CASE Opened(t)
    BY <1>1, <1>2 DEF Domains, Opened, Subscribe, Sight, feedVars
  <1>3. CASE Start(t)
    BY <1>1, <1>3 DEF Domains, Start, Sight, feedVars
  <1>4. CASE Read(t)
    BY <1>1, <1>4 DEF Domains, Read, Sight, feedVars
  <1>5. ASSUME NEW c \in batch[t], WriteRow(t, c)
        PROVE  UNCHANGED Sight(x) /\ UNCHANGED <<content, holes>>
    BY <1>1, <1>5 DEF Domains, WriteRow, Sight, feedVars
  <1>6. CASE Woken(t) \/ SafetyNet(t)
    BY <1>1, <1>6 DEF Domains, Woken, SafetyNet, Sight, feedVars, tabVars
  <1>7. CASE End(t)
    BY <1>1, <1>7 DEF Domains, End, Sight, feedVars
  <1>8. CASE Receive(t)
    BY <1>1, <1>8 DEF Domains, Receive, Sight, feedVars, streamVars
  <1>9. ASSUME NEW e \in Entities, Refetch(t, e)
        PROVE  UNCHANGED Sight(x) /\ UNCHANGED <<content, holes>>
    BY <1>1, <1>9 DEF Domains, Refetch, Sight, feedVars, streamVars
  <1> QED
    BY <1>2, <1>3, <1>4, <1>5, <1>6, <1>7, <1>8, <1>9 DEF Drain

LEMMA StartNews ==
  ASSUME Inv, NEW t \in Tabs, News(t), Start(t)
  PROVE  News(t)'
  <1>1. Domains /\ Tab(t) /\ seq \in Nat
    BY DEF Inv, Feed
  <1>2. /\ wire[t] = <<>> /\ wire[t] \in Seq(Events) /\ batch[t] = {} /\ UNCHANGED <<batch, lastId, stale, view, content, holes>>
    BY <1>1 DEF Domains, Tab, Wire, Handler, Start, Serving, feedVars
  <1>3. NoGap(t)'
    BY <1>2 DEF NoGap
  <1>4. CASE lastId[t] = None
    <2>1. Hello \in Events /\ ~ IsChange(Hello) /\ Covers(Hello) = Entities
      BY DEF Hello, Events, IsChange, Covers
    <2>2. wire'[t] = Append(wire[t], Hello)
      BY <1>1, <1>4 DEF Domains, Start
    <2>3. /\ BeyondId(t)' /\ BeyondWire(t)'
          /\ \A e \in Entities : Unmentioned(t, e, Len(wire[t]))' => e \notin Covers(Hello)
      BY <1>2, <2>1, <2>2, NewsGrows
    <2>4. BeyondHandler(t)'
      BY <2>1, <2>3 DEF BeyondHandler
    <2> QED
      BY <1>3, <2>3, <2>4 DEF News
  <1>5. CASE lastId[t] # None
    <2>1. wire'[t] = wire[t] /\ last'[t] = lastId[t] /\ Len(wire[t]) = 0
      BY <1>1, <1>2, <1>5 DEF Domains, Start
    <2>2. BeyondId(t)'
      BY <1>2 DEF News, BeyondId, Outdated
    <2>3. BeyondWire(t)'
      BY <2>1 DEF BeyondWire
    <2>4. BeyondHandler(t)'
      BY <1>2, <1>5, <2>1 DEF News, BeyondId, BeyondHandler, Outdated
    <2> QED
      BY <1>3, <2>2, <2>3, <2>4 DEF News
  <1> QED
    BY <1>4, <1>5

LEMMA RowsTakeAll ==
  ASSUME Feed, NEW p \in Nat, NEW c \in Rows(p), NEW d \in log, p < d.seq, d.seq <= c.seq
  PROVE  d \in Rows(p)
  <1> DEFINE Before(x) == {y \in Beyond(p) : y.seq < x.seq}
  <1>1. c \in Beyond(p) /\ d \in Beyond(p) /\ c.seq \in Nat /\ d.seq \in Nat
    BY DEF Rows, Beyond, Feed, Changes
  <1>2. IsFiniteSet(Beyond(p))
    BY FS_Subset DEF Beyond, Feed
  <1>3. \A y \in Beyond(p) : y.seq \in Nat
    BY DEF Beyond, Feed, Changes
  <1>4. Before(d) \in SUBSET Before(c) /\ Before(c) \in SUBSET Beyond(p)
    BY <1>1, <1>3
  <1>5. IsFiniteSet(Before(c))
    BY <1>2, <1>4, FS_Subset
  <1>6. Cardinality(Before(d)) <= Cardinality(Before(c)) /\ IsFiniteSet(Before(d))
    BY <1>4, <1>5, FS_Subset
  <1>7. Cardinality(Before(d)) \in Nat /\ Cardinality(Before(c)) \in Nat
    BY <1>5, <1>6, FS_CardinalityType
  <1>8. Cardinality(Before(c)) < Batch
    BY DEF Rows
  <1>9. Cardinality(Before(d)) < Batch
    <2> HIDE DEF Before
    <2> QED
      BY <1>6, <1>7, <1>8, SizesAssumption
  <1> QED
    BY <1>1, <1>9 DEF Rows

LEMMA ReadNews ==
  ASSUME Inv, Order, NEW t \in Tabs, News(t), Read(t)
  PROVE  News(t)'
  <1>1. Domains /\ Tab(t) /\ Feed /\ seq \in Nat /\ last[t] \in Nat
    BY DEF Inv, Feed, Domains
  <1>2. phase[t] = "read" /\ batch[t] = {} /\ UNCHANGED <<lastId, stale, view, content, holes>>
    BY <1>1 DEF Domains, Tab, Handler, Read, feedVars
  <1>3. CASE ChangesLost(last[t])
    <2>1. Resync \in Events /\ ~ IsChange(Resync) /\ Covers(Resync) = Entities
      BY DEF Resync, Events, IsChange, Covers
    <2>2. wire'[t] = Append(wire[t], Resync) /\ batch'[t] = {}
      BY <1>1, <1>2, <1>3 DEF Domains, Read
    <2>3. /\ BeyondId(t)' /\ BeyondWire(t)'
          /\ \A e \in Entities : Unmentioned(t, e, Len(wire[t]))' => e \notin Covers(Resync)
      BY <1>2, <2>1, <2>2, NewsGrows
    <2>4. BeyondHandler(t)'
      BY <2>1, <2>3 DEF BeyondHandler
    <2>5. NoGap(t)'
      BY <2>2 DEF NoGap
    <2> QED
      BY <2>3, <2>4, <2>5 DEF News
  <1>4. CASE ~ ChangesLost(last[t])
    <2>1. UNCHANGED <<wire, last>> /\ batch'[t] = Rows(last[t])
      BY <1>1, <1>4 DEF Domains, Read
    <2>2. BeyondId(t)' /\ BeyondWire(t)'
      BY <1>2, <2>1 DEF News, BeyondId, BeyondWire, Outdated, Unmentioned, Covers, IsChange
    <2>3. BeyondHandler(t)'
      BY <1>2, <2>1 DEF News, BeyondHandler, Outdated, Unmentioned, Covers, Serving
    <2>4. ASSUME NEW c \in Rows(last[t]), NEW e \in Entities, last[t] < content[e], content[e] <= c.seq,
                 content[e] \notin holes
          PROVE  \E d \in Rows(last[t]) : d.entity = e /\ d.seq = content[e]
      <3>1. content[e] > last[t]
        BY <1>1, <2>4 DEF Feed
      <3>2. PICK d \in log : d.entity = e /\ d.seq = content[e]
        BY <1>1, <1>4, <2>4, <3>1, Found
      <3> QED
        BY <1>1, <2>4, <3>2, RowsTakeAll
    <2>5. NoGap(t)'
      BY <1>2, <2>1, <2>4 DEF NoGap
    <2> QED
      BY <2>2, <2>3, <2>5 DEF News
  <1> QED
    BY <1>3, <1>4

LEMMA WriteRowNews ==
  ASSUME Inv, NEW t \in Tabs, News(t), NEW c \in batch[t], WriteRow(t, c)
  PROVE  News(t)'
  <1>1. Domains /\ Tab(t) /\ seq \in Nat /\ content \in [Entities -> Nat]
    BY DEF Inv, Feed
  <1>2. phase[t] = "write" /\ UNCHANGED <<lastId, stale, view, content, holes>>
    BY <1>1 DEF WriteRow, feedVars
  <1>3. /\ wire'[t] = Append(wire[t], Change(c)) /\ last'[t] = c.seq /\ batch'[t] = batch[t] \ {c}
    BY <1>1 DEF Domains, WriteRow
  <1>4. /\ c \in Changes /\ c.seq \in Nat /\ last[t] < c.seq /\ last[t] \in Nat
        /\ \A d \in batch[t] : d.seq \in Nat /\ c.seq <= d.seq /\ (d.seq = c.seq => d = c)
    BY <1>1 DEF Domains, Tab, Handler, WriteRow, NextRow, Changes
  <1>5. Change(c) \in Events /\ Change(c).seq = c.seq /\ Covers(Change(c)) = {c.entity}
    BY <1>4 DEF Change, Events, Covers, Changes
  <1>6. ASSUME NEW e \in Entities, Outdated(t, e), Unmentioned(t, e, Len(wire[t])), e # c.entity
        PROVE  content[e] > c.seq
    <2>1. content[e] > last[t] /\ content[e] \in Nat
      BY <1>1, <1>2, <1>6 DEF News, BeyondHandler, Serving
    <2>2. CASE content[e] <= c.seq
      <3>1. PICK d \in batch[t] : d.entity = e /\ d.seq = content[e]
        BY <1>4, <1>6, <2>1, <2>2 DEF News, NoGap, Outdated
      <3>2. d = c
        BY <1>4, <2>1, <2>2, <3>1
      <3> QED
        BY <1>6, <3>1, <3>2
    <2> QED
      BY <1>4, <2>1, <2>2
  <1>7. /\ BeyondId(t)' /\ BeyondWire(t)'
        /\ \A e \in Entities : Unmentioned(t, e, Len(wire[t]))' =>
             Unmentioned(t, e, Len(wire[t])) /\ e \notin Covers(Change(c))
    <2>1. \A e \in Entities :
            Outdated(t, e) /\ IsChange(Change(c)) /\ Unmentioned(t, e, Len(wire[t])) /\ e \notin Covers(Change(c))
              => content[e] > Change(c).seq
      BY <1>5, <1>6
    <2>2. UNCHANGED <<lastId[t], stale[t], view[t], content, holes>>
      BY <1>2
    <2> QED
      BY <1>3, <1>5, <2>1, <2>2, NewsGrows
  <1>8. BeyondHandler(t)'
    <2>1. ASSUME NEW e \in Entities, Outdated(t, e)', Unmentioned(t, e, Len(wire[t]))'
          PROVE  content'[e] > last'[t]
      <3>1. Unmentioned(t, e, Len(wire[t])) /\ e # c.entity
        BY <1>5, <1>7, <2>1
      <3>2. Outdated(t, e)
        BY <1>2, <2>1 DEF Outdated
      <3> QED
        BY <1>2, <1>3, <1>6, <3>1, <3>2
    <2> QED
      BY <2>1 DEF BeyondHandler
  <1>9. NoGap(t)'
    <2>1. ASSUME NEW d \in batch[t] \ {c}, NEW e \in Entities, c.seq < content[e], content[e] <= d.seq,
                 content[e] \notin holes
          PROVE  \E x \in batch[t] \ {c} : x.entity = e /\ x.seq = content[e]
      <3>1. last[t] < content[e] /\ content[e] \in Nat
        BY <1>1, <1>4, <2>1
      <3>2. PICK x \in batch[t] : x.entity = e /\ x.seq = content[e]
        BY <2>1, <3>1 DEF News, NoGap
      <3>3. x # c
        BY <1>4, <2>1, <3>2
      <3> QED
        BY <3>2, <3>3
    <2> QED
      BY <1>2, <1>3, <2>1 DEF NoGap
  <1> QED
    BY <1>7, <1>8, <1>9 DEF News

LEMMA ReceiveNews ==
  ASSUME Inv, NEW t \in Tabs, News(t), Receive(t)
  PROVE  News(t)'
  <1>1. Domains /\ Tab(t)
    BY DEF Inv
  <1> DEFINE event == wire[t][1]
  <1>2. phase[t] \in Serving /\ UNCHANGED <<phase, last, batch, view, content, holes>>
    BY <1>1 DEF Tab, Wire, Receive, streamVars, feedVars
  <1>3. stale'[t] = stale[t] \cup Covers(event)
    BY <1>1, Arrives DEF Domains, Receive
  <1>4. lastId'[t] = IF IsChange(event) THEN event.seq ELSE lastId[t]
    BY <1>1, Arrives DEF Domains, Receive, IsChange
  <1>5. \A e \in Entities : Outdated(t, e)' => Outdated(t, e) /\ e \notin Covers(event)
    BY <1>2, <1>3 DEF Outdated
  <1>6. /\ 1 \in 1 .. Len(wire[t]) /\ Len(wire[t]) \in Nat /\ Len(wire'[t]) = Len(wire[t]) - 1
        /\ \A k \in 1 .. Len(wire'[t]) : k + 1 \in 1 .. Len(wire[t]) /\ wire'[t][k] = wire[t][k + 1]
    BY Arrives
  <1>7. ASSUME NEW e \in Entities, NEW k \in 0 .. Len(wire'[t]), e \notin Covers(event),
               \A j \in 1 .. k : e \notin Covers(wire'[t][j])
        PROVE  Unmentioned(t, e, k + 1)
    <2>1. ASSUME NEW j \in 1 .. k + 1
          PROVE  e \notin Covers(wire[t][j])
      <3>1. CASE j = 1
        BY <1>7, <3>1
      <3>2. CASE j # 1
        <4>1. j - 1 \in 1 .. k /\ j - 1 \in 1 .. Len(wire'[t]) /\ (j - 1) + 1 = j
          BY <1>6, <2>1, <3>2
        <4>2. wire'[t][j - 1] = wire[t][j]
          BY <1>6, <4>1
        <4> QED
          BY <1>7, <4>1, <4>2
      <3> QED
        BY <3>1, <3>2
    <2> QED
      BY <2>1 DEF Unmentioned
  <1> HIDE DEF event
  <1>8. BeyondId(t)'
    <2>1. ASSUME NEW e \in Entities, Outdated(t, e)', lastId'[t] # None
          PROVE  content[e] > lastId'[t]
      <3>1. CASE IsChange(event)
        <4>1. Unmentioned(t, e, 1)
          BY <1>5, <2>1 DEF Unmentioned, event
        <4> QED
          BY <1>4, <1>5, <1>6, <2>1, <3>1, <4>1 DEF News, BeyondWire, event
      <3>2. CASE ~ IsChange(event)
        BY <1>4, <1>5, <2>1, <3>2 DEF News, BeyondId
      <3> QED
        BY <3>1, <3>2
    <2> QED
      BY <1>2, <2>1 DEF BeyondId
  <1>9. BeyondWire(t)'
    <2>1. ASSUME NEW e \in Entities, NEW k \in 1 .. Len(wire'[t]),
                 Outdated(t, e)', IsChange(wire'[t][k]), \A j \in 1 .. k : e \notin Covers(wire'[t][j])
          PROVE  content[e] > wire'[t][k].seq
      <3>1. Outdated(t, e) /\ Unmentioned(t, e, k + 1)
        BY <1>5, <1>7, <2>1
      <3> QED
        BY <1>6, <2>1, <3>1 DEF News, BeyondWire
    <2> QED
      BY <1>2, <2>1 DEF BeyondWire, Unmentioned, Covers, IsChange
  <1>10. BeyondHandler(t)'
    <2>1. ASSUME NEW e \in Entities, Outdated(t, e)', \A j \in 1 .. Len(wire'[t]) : e \notin Covers(wire'[t][j])
          PROVE  content[e] > last[t]
      <3>1. Len(wire'[t]) \in 0 .. Len(wire'[t]) /\ Len(wire'[t]) + 1 = Len(wire[t])
        BY <1>6
      <3>2. Outdated(t, e) /\ Unmentioned(t, e, Len(wire[t]))
        BY <1>5, <1>7, <2>1, <3>1
      <3> QED
        BY <1>2, <3>2 DEF News, BeyondHandler
    <2> QED
      BY <1>2, <2>1 DEF BeyondHandler, Unmentioned, Covers
  <1>11. NoGap(t)'
    BY <1>2 DEF News, NoGap
  <1> QED
    BY <1>8, <1>9, <1>10, <1>11 DEF News

LEMMA RefetchNews ==
  ASSUME Inv, NEW t \in Tabs, News(t), NEW e \in Entities, Refetch(t, e)
  PROVE  News(t)'
  <1>1. Domains /\ stale[t] \subseteq Entities /\ view[t] \in [Entities -> Nat]
    BY DEF Inv, Domains
  <1>2. UNCHANGED <<phase, last, batch, wire, lastId, content, holes>>
    BY DEF Refetch, feedVars, streamVars
  <1>3. \A f \in Entities : Outdated(t, f)' => Outdated(t, f)
    <2>1. view'[t] = [view[t] EXCEPT ![e] = content[e]] /\ stale'[t] = stale[t] \ {e}
      BY <1>1 DEF Domains, Refetch
    <2> QED
      BY <1>1, <1>2, <2>1 DEF Outdated
  <1>4. BeyondId(t)' /\ BeyondWire(t)' /\ BeyondHandler(t)'
    BY <1>2, <1>3 DEF News, BeyondId, BeyondWire, BeyondHandler, Unmentioned, Covers, IsChange, Serving
  <1>5. NoGap(t)'
    BY <1>2 DEF News, NoGap
  <1> QED
    BY <1>4, <1>5 DEF News

(* The steps that only move a handler, and those that close or open it. *)
LEMMA MoveNews ==
  ASSUME Inv, NEW t \in Tabs, News(t), Opened(t) \/ Woken(t) \/ SafetyNet(t) \/ End(t)
  PROVE  News(t)'
  <1>1. Domains /\ Tab(t)
    BY DEF Inv
  <1>2. CASE Opened(t)
    <2>1. PICK r \in Replicas, reopened \in BOOLEAN : Subscribe(t, r, reopened)
      BY <1>2 DEF Opened
    <2>2. /\ phase'[t] = "subscribed" /\ lastId'[t] \in {lastId[t], None}
          /\ UNCHANGED <<last, batch, wire, stale, view, content, holes>>
      BY <1>1, <2>1 DEF Domains, Subscribe, feedVars
    <2>3. BeyondId(t)' /\ BeyondWire(t)' /\ NoGap(t)'
      BY <2>2 DEF News, BeyondId, BeyondWire, NoGap, Outdated, Unmentioned, Covers, IsChange
    <2>4. BeyondHandler(t)'
      BY <2>2 DEF BeyondHandler, Serving
    <2> QED
      BY <2>3, <2>4 DEF News
  <1>3. CASE Woken(t) \/ SafetyNet(t)
    <2>1. /\ phase[t] \in Serving
          /\ UNCHANGED <<last, batch, wire, lastId, stale, view, content, holes>>
      BY <1>3 DEF Woken, SafetyNet, tabVars, feedVars, Serving
    <2>2. BeyondId(t)' /\ BeyondWire(t)' /\ NoGap(t)'
      BY <2>1 DEF News, BeyondId, BeyondWire, NoGap, Outdated, Unmentioned, Covers, IsChange
    <2>3. BeyondHandler(t)'
      BY <2>1 DEF News, BeyondHandler, Outdated, Unmentioned, Covers
    <2> QED
      BY <2>2, <2>3 DEF News
  <1>4. CASE End(t)
    <2>1. /\ phase'[t] = "closed" /\ batch'[t] = {} /\ wire'[t] = <<>>
          /\ UNCHANGED <<lastId, stale, view, content, holes>>
      BY <1>1, <1>4 DEF Domains, End, feedVars
    <2>2. BeyondId(t)'
      BY <2>1 DEF News, BeyondId, Outdated
    <2>3. BeyondWire(t)' /\ BeyondHandler(t)' /\ NoGap(t)'
      BY <2>1 DEF BeyondWire, BeyondHandler, NoGap, Serving
    <2> QED
      BY <2>2, <2>3 DEF News
  <1> QED
    BY <1>2, <1>3, <1>4

LEMMA NewsStep ==
  ASSUME Inv, Order, [Next]_vars, NEW x \in Tabs, News(x)
  PROVE  News(x)'
  <1>1. ASSUME NEW t \in Tabs,
               \/ Opened(t) \/ Drain(t) \/ SafetyNet(t) \/ End(t) \/ Receive(t)
               \/ \E e \in Entities : Refetch(t, e)
        PROVE  News(x)'
    <2>1. CASE x # t
      <3>1. x \in Tabs \ {t}
        BY <2>1
      <3>2. UNCHANGED Sight(x) /\ UNCHANGED <<content, holes>>
        BY <1>1, <3>1, OthersKept
      <3> QED
        BY <3>2, NewsKept
    <2>2. CASE x = t
      BY <1>1, <2>2, StartNews, ReadNews, WriteRowNews, ReceiveNews, RefetchNews, MoveNews DEF Drain
    <2> QED
      BY <2>1, <2>2
  <1>2. ASSUME NEW w \in Writers, NEW es \in Writes, Commit(w, es)
        PROVE  News(x)'
    BY <1>2, CommitNews
  <1>3. CASE UNCHANGED Sight(x) /\ UNCHANGED content /\ holes \subseteq holes'
    BY <1>3, NewsKept
  <1>4. \/ UNCHANGED vars
        \/ \E w \in Writers : Begin(w)
        \/ PurgeChanges \/ Tick
        \/ \E r \in Replicas : Listener(r) \/ ListenerLost(r)
        => UNCHANGED Sight(x) /\ UNCHANGED content /\ holes \subseteq holes'
    BY DEF vars, Begin, PurgeChanges, Tick, Listener, Listen, WakeAll, WakeUser, ListenerLost,
           feedVars, streamVars, tabVars, Sight
  <1> QED
    BY <1>1, <1>2, <1>3, <1>4 DEF Next

(* A tab misses no change that was not torn out of the feed: for any       *)
(* number of tabs, replicas and writers, whoever overtakes whom, however   *)
(* streams and listeners fail, and whatever is purged (CORE-S1, CORE-S3).  *)
THEOREM NoChangeIsMissed == Spec => []NothingMissed
  <1> DEFINE Whole == Inv /\ Order /\ \A t \in Tabs : News(t)
  <1>1. Init => Whole
    <2> SUFFICES ASSUME Init
                 PROVE  Order /\ \A t \in Tabs : News(t)
      BY InvInit
    <2>1. Order
      BY DEF Init, Order
    <2>2. \A t \in Tabs : News(t)
      BY DEF Init, News, BeyondId, BeyondWire, BeyondHandler, NoGap, Outdated, Serving
    <2> QED
      BY <2>1, <2>2
  <1>2. Whole /\ [Next]_vars => Whole'
    BY InvStep, OrderStep, NewsStep DEF Inv
  <1>3. Whole => NothingMissed
    <2> SUFFICES ASSUME Whole, NEW t \in Tabs, NEW e \in Entities, Outdated(t, e)
                 PROVE  /\ Learns(lastId[t], e)
                        /\ phase[t] \in {"read", "write", "wait"} =>
                             \/ \E k \in 1 .. Len(wire[t]) : e \in Covers(wire[t][k])
                             \/ \E c \in batch[t] : c.entity = e
                             \/ Learns(last[t], e)
      BY DEF NothingMissed
    <2>1. Feed /\ Domains /\ News(t)
      BY DEF Inv
    <2>2. last[t] \in Nat /\ lastId[t] \in Nat \cup {None}
      BY <2>1 DEF Feed, Domains
    <2>0. content[e] \notin holes
      BY DEF Outdated
    <2>3. ASSUME NEW p \in Nat, content[e] > p
          PROVE  Learns(p, e)
      BY <2>0, <2>1, <2>3, Found DEF Learns
    <2>4. Learns(lastId[t], e)
      <3>1. CASE lastId[t] = None
        BY <3>1 DEF Learns
      <3>2. CASE lastId[t] # None
        BY <2>1, <2>2, <2>3, <3>2 DEF News, BeyondId
      <3> QED
        BY <3>1, <3>2
    <2>5. ASSUME phase[t] \in Serving, ~ \E k \in 1 .. Len(wire[t]) : e \in Covers(wire[t][k])
          PROVE  Learns(last[t], e)
      BY <2>1, <2>2, <2>3, <2>5 DEF News, BeyondHandler, Unmentioned
    <2> QED
      BY <2>4, <2>5 DEF Serving
  <1> QED
    BY <1>1, <1>2, <1>3, PTL DEF Spec

=============================================================================
