----------------------------- MODULE MatrixSync -----------------------------
(***************************************************************************)
(* The Matrix bot between a homeserver and Core (bots/matrix, bots/sdk):   *)
(* one of several processes syncs at a time, hands every event of a        *)
(* response to Core, and only then saves the token of the response.  Gaps  *)
(* that the homeserver leaves are filled from its history.                 *)
(*                                                                         *)
(* The homeserver numbers the events of all rooms; a sync token is such a  *)
(* number.  An event is a message or somebody who joins or leaves a room.  *)
(* Core knows a message it has been given before; what it makes of it is   *)
(* the matter of Chat.                                                     *)
(*                                                                         *)
(* The specification is SyncSpec, not Spec, so that BotProofs can extend   *)
(* this module and Outbox.                                                 *)
(***************************************************************************)
EXTENDS Normalise

CONSTANTS
  Syncers, Rooms, None,
  MaxEvents,         \* bound: events of the homeserver
  Window,            \* how many events of a room a response holds at most
  FetchLimit,        \* how many messages of a gap are fetched at most (pages times page size)
  Overlap,           \* how far before Core's newest message a gap is filled
  Skew,              \* how far the time of a message may be ahead of its place
  LookupAttempts, BackfillAttempts, MaxServerErrors,
  Alphabets,           \* bound: sets of contents, by name
  Mixes              \* bound: what a behaviour has: processes, rooms, contents, skew, operations of each family

(* A clock that runs ahead by no more than the gap reaches back for.       *)
MatrixConstants ==
  /\ MaxEvents \in Nat /\ Window \in Nat \ {0} /\ FetchLimit \in Nat
  /\ Skew \in Nat /\ Overlap \in Nat /\ Skew <= Overlap + 1
  /\ None \notin Nat /\ 0 \notin Rooms
  /\ \A mix \in Mixes :
       /\ {"rooms", "contents", "ahead"} \subseteq DOMAIN mix
       /\ mix.rooms \subseteq Rooms /\ Alphabets[mix.contents] \subseteq Contents /\ mix.ahead \in 0 .. Skew

ASSUME MatrixAssumption == MatrixConstants

VARIABLES
  timeline,  \* the homeserver's events
  crowded,   \* rooms that somebody else is in
  core,      \* the parts that Core was given of every message
  fate,      \* what became of every message
  token,     \* the sync token in the bot's database
  lock,      \* who holds the advisory lock
  bot,       \* what the processes are doing
  left       \* bound: the operations there may still be

syncVars == <<timeline, crowded, core, fate, token, lock, bot, left>>

Messages == 1 .. MaxEvents

Fates == {"none", "stored", "refused", "ignored", "unserved", "nothing", "foreign", "truncated", "gone", "history"}

(* A process that waits for the lock knows nothing.                        *)
Idle == [at |-> "waiting", since |-> None, next |-> 0, todo |-> {},
         state |-> [r \in Rooms |-> {}],    \* per room: the member events that were left out
         window |-> [r \in Rooms |-> <<>>], \* per room: the events of the response
         queue |-> <<>>, tries |-> 0,
         dms |-> [r \in Rooms |-> "unknown"], stopping |-> FALSE, asked |-> None]

At(b, step) == bot[b].at = step
Running(b) == ~ At(b, "waiting")
Alive(b) == Running(b) /\ ~ bot[b].stopping

Spends(family) == left[family] > 0 /\ left' = [left EXCEPT ![family] = @ - 1]

(* What Core has stored is settled for good; otherwise the first answer    *)
(* stays.                                                                  *)
Becomes(S, what) ==
  fate' = [e \in Messages |-> IF e \in S /\ fate[e] # "stored" /\ (what = "stored" \/ fate[e] = "none") THEN what ELSE fate[e]]

-----------------------------------------------------------------------------
(* The homeserver *)

Say(r, c, ahead) ==
  /\ Spends("message") /\ Len(timeline) < MaxEvents
  /\ timeline' = Append(timeline, [room |-> r, kind |-> "message", at |-> Len(timeline) + 1 + ahead, content |-> c])
  /\ UNCHANGED <<crowded, core, fate, token, lock, bot>>

JoinOrLeave(r) ==
  /\ Spends("member") /\ Len(timeline) < MaxEvents
  /\ crowded' = IF r \in crowded THEN crowded \ {r} ELSE crowded \cup {r}
  /\ timeline' = Append(timeline, [room |-> r, kind |-> "member", at |-> Len(timeline) + 1, content |-> None])
  /\ UNCHANGED <<core, fate, token, lock, bot>>

JoinedMembers(r) == IF r \in crowded THEN "group" ELSE "direct"

(* The room has been a two-person chat ever since the message was written. *)
DirectSince(e) ==
  /\ timeline[e].room \notin crowded
  /\ \A i \in e .. Len(timeline) : timeline[i].room = timeline[e].room => timeline[i].kind = "message"

(* Events of a room after one place and up to another; the newest of them, *)
(* and what is before these; those that are messages; and all in order.    *)
Between(r, from, to) == {e \in (from + 1) .. to : timeline[e].room = r}
Newest(S, n) == {e \in S : Cardinality({f \in S : f > e}) < n}
Before(S, n) == S \ Newest(S, n)
Written(S)   == {e \in S : timeline[e].kind = "message"}
InOrder(S)   == [i \in 1 .. Cardinality(S) |-> CHOOSE e \in S : Cardinality({f \in S : f <= e}) = i]

-----------------------------------------------------------------------------
(* Starting, stopping and the lock *)

Acquire(b) ==
  /\ At(b, "waiting") /\ lock = None /\ b \in left.bots
  /\ lock' = b
  /\ bot' = [bot EXCEPT ![b] = [Idle EXCEPT !.at = "ready", !.since = token]]
  /\ UNCHANGED <<timeline, crowded, core, fate, token, left>>

Exit(b) == bot' = [bot EXCEPT ![b] = Idle] /\ lock' = IF lock = b THEN None ELSE lock

Crash(b) ==
  /\ Running(b) /\ Spends("crash") /\ Exit(b)
  /\ UNCHANGED <<timeline, crowded, core, fate, token>>

Terminate(b) ==
  /\ Alive(b) /\ Spends("term")
  /\ bot' = [bot EXCEPT ![b].stopping = TRUE]
  /\ UNCHANGED <<timeline, crowded, core, fate, token, lock>>

Stop(b) ==
  /\ At(b, "ready") /\ bot[b].stopping /\ Exit(b)
  /\ UNCHANGED <<timeline, crowded, core, fate, token, left>>

LoseLock ==
  /\ lock # None /\ Spends("lock")
  /\ lock' = None
  /\ UNCHANGED <<timeline, crowded, core, fate, token, bot>>

Notice(b) ==
  /\ Running(b) /\ lock # b /\ Exit(b)
  /\ UNCHANGED <<timeline, crowded, core, fate, token, left>>

-----------------------------------------------------------------------------
(* The answer of the homeserver, and the gaps in it *)

Gap(b, r) == Between(r, bot[b].since, bot[b].next)
Missing(b, r) == Written(Before(Gap(b, r), Window))

(* The first sync of a deployment leaves old messages alone.               *)
Sync(b) ==
  LET first == bot[b].since = None
      since == IF first THEN 0 ELSE bot[b].since
      All(r) == Between(r, since, Len(timeline))
      Out(r) == Before(All(r), Window)
  IN /\ At(b, "ready") /\ Alive(b)
     /\ first \/ Len(timeline) > since
     /\ bot' = [bot EXCEPT ![b] = [@ EXCEPT
          !.at = "filling", !.next = Len(timeline), !.tries = 0,
          !.todo = IF first THEN {} ELSE {r \in Rooms : Out(r) # {}},
          !.state = [r \in Rooms |-> Newest(Out(r) \ Written(Out(r)), 1)],
          !.window = [r \in Rooms |-> InOrder(Newest(All(r), Window))]]]
     /\ IF first THEN Becomes(UNION {Written(Out(r)) : r \in Rooms}, "history")
                 ELSE UNCHANGED fate
     /\ UNCHANGED <<timeline, crowded, core, token, lock, left>>

(* The room whose members have to be known before the process goes on.     *)
Subject(b) ==
  IF At(b, "filling") THEN bot[b].todo
  ELSE IF At(b, "handling") /\ bot[b].queue # <<>> THEN {timeline[Head(bot[b].queue)].room}
  ELSE {}

Asks(b, r) ==
  /\ r \in Subject(b) /\ bot[b].dms[r] = "unknown"
  /\ At(b, "handling") =>
       LET e == Head(bot[b].queue) IN timeline[e].kind = "message" /\ timeline[e].content.known

(* allowedOrStall: the answer is remembered; after too many failures the   *)
(* process gives up before the token is saved.                             *)
LookUp(b, r) ==
  /\ Alive(b) /\ Asks(b, r)
  /\ bot' = [bot EXCEPT ![b].dms[r] = JoinedMembers(r), ![b].tries = 0]
  /\ UNCHANGED <<timeline, crowded, core, fate, token, lock, left>>

LookUpFails(b, r) ==
  /\ Alive(b) /\ Asks(b, r) /\ Spends("trouble")
  /\ IF bot[b].tries + 1 >= LookupAttempts THEN Exit(b)
     ELSE bot' = [bot EXCEPT ![b].tries = @ + 1] /\ UNCHANGED lock
  /\ UNCHANGED <<timeline, crowded, core, fate, token>>

(* The event at hand is dealt with.                                        *)
Done(b) == [bot EXCEPT ![b].queue = Tail(@), ![b].tries = 0]

(* A mistake: what is older comes after what is newer.                     *)
Filled_behind(b, r, gap) == [bot EXCEPT ![b].todo = @ \ {r}, ![b].window[r] = @ \o gap, ![b].tries = 0]

Filled(b, r, gap) == [bot EXCEPT ![b].todo = @ \ {r}, ![b].window[r] = gap \o @, ![b].tries = 0]

(* A room that is not a two-person chat is not filled.                     *)
PassOver(b, r) ==
  /\ Alive(b) /\ At(b, "filling") /\ r \in bot[b].todo /\ bot[b].dms[r] = "group"
  /\ bot' = Filled(b, r, <<>>)
  /\ fate' = [e \in Messages |-> IF e \in Missing(b, r) /\ fate[e] = "none"
                                 THEN IF DirectSince(e) THEN "unserved" ELSE "ignored" ELSE fate[e]]
  /\ UNCHANGED <<timeline, crowded, core, token, lock, left>>

(* The time of the newest message that Core holds of a room; 0: none.      *)
Cursor(r) ==
  LET times == {timeline[e].at : e \in {m \in Messages : fate[m] = "stored" /\ timeline[m].room = r}}
  IN IF times = {} THEN 0 ELSE CHOOSE t \in times : \A u \in times : u <= t

(* A mistake: no allowance for clocks.                                     *)
StopAt_exact(r) == Cursor(r)

StopAt(r) == IF Cursor(r) > Overlap THEN Cursor(r) - Overlap ELSE 0

(* The newest events of a gap down to one from before the cursor; the page *)
(* limit may cut off more.                                                 *)
Wanted(b, r) ==
  {e \in Missing(b, r) : \A f \in Missing(b, r) : timeline[f].at < StopAt(r) => f < e}

Fetched(b, r) == Newest(Wanted(b, r), FetchLimit)

Fill(b, r) ==
  /\ Alive(b) /\ At(b, "filling") /\ r \in bot[b].todo /\ bot[b].dms[r] = "direct"
  /\ bot' = Filled(b, r, InOrder(Fetched(b, r)))
  /\ Becomes(Before(Wanted(b, r), FetchLimit), "truncated")
  /\ UNCHANGED <<timeline, crowded, core, token, lock, left>>

(* A refusal is tried again like any other failure: the test for it asks   *)
(* for a pointer to mautrix's error, which is never returned.              *)
FillFails(b, r) ==
  /\ Alive(b) /\ At(b, "filling") /\ r \in bot[b].todo /\ bot[b].dms[r] = "direct" /\ Spends("trouble")
  /\ IF bot[b].tries + 1 >= BackfillAttempts THEN Exit(b)
     ELSE bot' = [bot EXCEPT ![b].tries = @ + 1] /\ UNCHANGED lock
  /\ UNCHANGED <<timeline, crowded, core, fate, token>>

(* The homeserver says that the bot is not in the room: a plain no, which  *)
(* is not remembered.                                                      *)
RoomGone(b, r) ==
  /\ Alive(b) /\ Asks(b, r) /\ Spends("trouble")
  /\ \/ At(b, "filling")  /\ bot' = Filled(b, r, <<>>) /\ Becomes(Missing(b, r), "gone")
     \/ At(b, "handling") /\ bot' = Done(b) /\ Becomes({Head(bot[b].queue)}, "gone")
  /\ UNCHANGED <<timeline, crowded, core, token, lock>>

(* The whole response is there.                                            *)
Dispatch(b) ==
  /\ At(b, "filling") /\ bot[b].todo = {}
  /\ bot' = [bot EXCEPT ![b].at = "handling"]
  /\ UNCHANGED <<timeline, crowded, core, fate, token, lock, left>>

(* Nobody answers a process that is being stopped: what it does not know   *)
(* counts as no, and a gap that it cannot fill ends it.                    *)
FillStopped(b, r) ==
  /\ At(b, "filling") /\ bot[b].stopping /\ r \in bot[b].todo
  /\ IF bot[b].dms[r] = "direct" THEN Exit(b) ELSE bot' = Filled(b, r, <<>>) /\ UNCHANGED lock
  /\ UNCHANGED <<timeline, crowded, core, fate, token, left>>

-----------------------------------------------------------------------------
(* The events of a response, one after the other *)

(* The rooms come in any order, in each the state before the timeline.     *)
NextRoom(b) ==
  /\ At(b, "handling") /\ bot[b].queue = <<>>
  /\ \E r \in Rooms :
       /\ bot[b].state[r] # {} \/ bot[b].window[r] # <<>>
       /\ bot' = [bot EXCEPT ![b].queue = InOrder(bot[b].state[r]) \o bot[b].window[r],
                             ![b].state[r] = {}, ![b].window[r] = <<>>]
  /\ UNCHANGED <<timeline, crowded, core, fate, token, lock, left>>

Handled(b) ==
  At(b, "handling") /\ bot[b].queue = <<>> /\ \A r \in Rooms : bot[b].state[r] = {} /\ bot[b].window[r] = <<>>

Handles(b, kind) == At(b, "handling") /\ bot[b].queue # <<>> /\ timeline[Head(bot[b].queue)].kind = kind

(* What was remembered of the room is forgotten and, if there was          *)
(* something, asked for again, once.                                       *)
HandleMember(b) ==
  LET r == timeline[Head(bot[b].queue)].room
  IN /\ Alive(b) /\ Handles(b, "member")
     /\ \/ /\ bot' = [Done(b) EXCEPT ![b].dms[r] = IF @ = "unknown" THEN @ ELSE JoinedMembers(r)]
           /\ UNCHANGED left
        \/ /\ bot[b].dms[r] # "unknown" /\ Spends("trouble")
           /\ bot' = [Done(b) EXCEPT ![b].dms[r] = "unknown"]
     /\ UNCHANGED <<timeline, crowded, core, fate, token, lock>>

(* Messages of other homeservers' users, of groups, and those that hold    *)
(* nothing for Core are left alone.                                        *)
LeaveAlone(b) ==
  LET e == Head(bot[b].queue)
      c == timeline[e].content
      dm == bot[b].dms[timeline[e].room]
  IN /\ Alive(b) /\ Handles(b, "message")
     /\ \/ ~ c.known /\ Becomes({e}, "foreign")
        \/ c.known /\ dm = "group" /\ Becomes({e}, IF DirectSince(e) THEN "unserved" ELSE "ignored")
        \/ c.known /\ dm = "direct" /\ Normalised(c) = Nothing /\ Becomes({e}, "nothing")
     /\ bot' = Done(b)
     /\ UNCHANGED <<timeline, crowded, core, token, lock, left>>

Posts(b) ==
  /\ Handles(b, "message")
  /\ LET e == Head(bot[b].queue) IN /\ timeline[e].content.known /\ bot[b].dms[timeline[e].room] = "direct"
                                    /\ Normalised(timeline[e].content) # Nothing

(* A file that cannot be moved to Core is replaced by the reason.          *)
Moved(parts) ==
  {parts} \cup {[i \in DOMAIN parts |-> IF parts[i] = "file" THEN "failed" ELSE parts[i]]}

(* Core stores an event once.                                              *)
Stores(e) ==
  /\ IF fate[e] = "stored" THEN UNCHANGED core
     ELSE \E parts \in Moved(Normalised(timeline[e].content).parts) : core' = [core EXCEPT ![e] = parts]
  /\ Becomes({e}, "stored")

Post(b) ==
  /\ Alive(b) /\ Posts(b) /\ Stores(Head(bot[b].queue))
  /\ bot' = Done(b)
  /\ UNCHANGED <<timeline, crowded, token, lock, left>>

(* Core has stored the event but the answer is lost; the bot tries again.  *)
PostUnheard(b) ==
  /\ Alive(b) /\ Posts(b) /\ Stores(Head(bot[b].queue)) /\ Spends("trouble")
  /\ UNCHANGED <<timeline, crowded, token, lock, bot>>

(* Core refuses the event, at once or by failing too often in a row.       *)
Refuse(b) ==
  /\ bot' = Done(b) /\ Becomes({Head(bot[b].queue)}, "refused")

PostRefused(b) ==
  /\ Alive(b) /\ Posts(b) /\ Spends("refuse") /\ Refuse(b)
  /\ UNCHANGED <<timeline, crowded, core, token, lock>>

PostFails(b) ==
  /\ Alive(b) /\ Posts(b) /\ Spends("trouble")
  /\ IF bot[b].tries + 1 >= MaxServerErrors THEN Refuse(b)
     ELSE bot' = [bot EXCEPT ![b].tries = @ + 1] /\ UNCHANGED fate
  /\ UNCHANGED <<timeline, crowded, core, token, lock>>

(* An outage is waited out and begins the count again.                     *)
PostUnanswered(b) ==
  /\ Alive(b) /\ Posts(b) /\ bot[b].tries > 0 /\ Spends("trouble")
  /\ bot' = [bot EXCEPT ![b].tries = 0]
  /\ UNCHANGED <<timeline, crowded, core, fate, token, lock>>

(* The rest of the response passes through a process that is being stopped *)
(* without effect.                                                         *)
HandleStopped(b) ==
  /\ bot[b].stopping /\ At(b, "handling") /\ bot[b].queue # <<>>
  /\ bot' = Done(b)
  /\ UNCHANGED <<timeline, crowded, core, fate, token, lock, left>>

(* syncack: the token is saved when the whole response has been handled,   *)
(* and cannot be saved by a process that is being stopped.                 *)
Saves(b) == ~ bot[b].stopping

Commit(b) ==
  /\ Handled(b)
  /\ IF Saves(b)
     THEN /\ token' = bot[b].next
          /\ bot' = [bot EXCEPT ![b] = [Idle EXCEPT !.at = "ready", !.since = bot[b].next, !.dms = bot[b].dms,
                                          !.stopping = bot[b].stopping, !.asked = bot[b].asked]]
          /\ UNCHANGED lock
     ELSE Exit(b) /\ UNCHANGED token
  /\ UNCHANGED <<timeline, crowded, core, fate, left>>

-----------------------------------------------------------------------------
(* The outbox of the same process asks who is in a room before it sends    *)
(* something there, and remembers the answer for both.                     *)

OutboxAsks(b, r) ==
  /\ Alive(b) /\ bot[b].asked = None /\ Spends("outbox")
  /\ bot' = [bot EXCEPT ![b].asked = <<r, JoinedMembers(r)>>]
  /\ UNCHANGED <<timeline, crowded, core, fate, token, lock>>

OutboxRemembers(b) ==
  /\ Running(b) /\ bot[b].asked # None
  /\ bot' = [bot EXCEPT ![b].dms[bot[b].asked[1]] = bot[b].asked[2], ![b].asked = None]
  /\ UNCHANGED <<timeline, crowded, core, fate, token, lock, left>>

-----------------------------------------------------------------------------
SyncInit ==
  /\ timeline = <<>> /\ crowded = {} /\ token = None /\ lock = None
  /\ core = [e \in Messages |-> <<>>] /\ fate = [e \in Messages |-> "none"]
  /\ bot = [b \in Syncers |-> Idle]
  /\ left \in Mixes

Goes(b) ==
  \/ Acquire(b) \/ Stop(b) \/ Notice(b)
  \/ Sync(b) \/ Dispatch(b) \/ NextRoom(b)
  \/ HandleMember(b) \/ LeaveAlone(b) \/ Post(b) \/ HandleStopped(b) \/ Commit(b)
  \/ \E r \in Rooms : LookUp(b, r) \/ PassOver(b, r) \/ Fill(b, r) \/ FillStopped(b, r)

Suffers(b) ==
  \/ Crash(b) \/ Terminate(b)
  \/ PostUnheard(b) \/ PostRefused(b) \/ PostFails(b) \/ PostUnanswered(b)
  \/ \E r \in Rooms : LookUpFails(b, r) \/ RoomGone(b, r) \/ FillFails(b, r)

SyncNext ==
  \/ \E r \in left.rooms, c \in Alphabets[left.contents], ahead \in 0 .. left.ahead : Say(r, c, ahead)
  \/ \E r \in left.rooms : JoinOrLeave(r)
  \/ LoseLock
  \/ \E b \in Syncers : Goes(b)
  \/ \E b \in Syncers : Suffers(b)
  \/ \E b \in Syncers, r \in Rooms : OutboxAsks(b, r)
  \/ \E b \in Syncers : OutboxRemembers(b)

SyncSpec == SyncInit /\ [][SyncNext]_syncVars

(* Processes go on and are restarted when they end; nothing says when the  *)
(* outbox has something to send.                                           *)
FairSyncSpec == SyncSpec /\ \A b \in Syncers : WF_syncVars(Goes(b))

-----------------------------------------------------------------------------
(* Behind the saved token every message is settled, whatever ended the     *)
(* processes and wherever: stored, refused, none of Core's business, or    *)
(* given up for a reason that is logged (syncack.go, backfill.go).  And    *)
(* what Core was given is all that was said, a lost file leaving a trace   *)
(* (normalise.go, media.go).                                               *)
Kept(e) == {IF core[e][i] = "failed" THEN "file" ELSE core[e][i] : i \in DOMAIN core[e]}

NoMessageSkipped ==
  \A e \in DOMAIN timeline : timeline[e].kind = "message" =>
    /\ token # None /\ e <= token => fate[e] # "none"
    /\ fate[e] = "stored" => Said(timeline[e].content) \subseteq Kept(e)
    /\ fate[e] = "nothing" => Said(timeline[e].content) = {}

(* A process hands over the messages of a room in their order, none is     *)
(* ever taken back, and each is settled in the end, although processes     *)
(* crash, lose the lock and handle the same response again (bot.go,        *)
(* leader.go).                                                             *)
Order == INSTANCE Handover WITH
  room <- [e \in Messages |-> IF e <= Len(timeline) /\ timeline[e].kind = "message" THEN timeline[e].room ELSE 0],
  settled <- {e \in Messages : fate[e] # "none"}

HandsOver == Order!Spec /\ Order!EachIsSettled

(* A message written in a two-person chat that has been one ever since is  *)
(* never dropped as one of a group (rooms_logic.go: the answer is          *)
(* remembered until somebody joins or leaves).                             *)
DirectChatsAreServed == \A e \in Messages : fate[e] # "unserved"

=============================================================================
