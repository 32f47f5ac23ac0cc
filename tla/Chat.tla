-------------------------------- MODULE Chat --------------------------------
(***************************************************************************)
(* Messages from a chat (core/internal/ingest, core/internal/grouping): a  *)
(* bot reads the timeline of a conversation and posts every event to Core, *)
(* which makes notes of them while the user works on the same notes in the *)
(* app.  The bot may stop at any time and handles again what came after    *)
(* the position it saved, an answer of Core may be lost, and a file the    *)
(* bot uploaded may be removed before its message arrives.                 *)
(*                                                                         *)
(* One conversation of one bot; its senders are linked to one user before  *)
(* the first message (Access models linking).  An event is identified by   *)
(* its place in the timeline, a message by the event that posted it.       *)
(***************************************************************************)
EXTENDS Notes

CONSTANTS
  Senders,        \* linked chat accounts of the user
  Shapes,         \* what messages consist of: sequences of "text", "attachment", "failed"
  Window,         \* the grouping window; 0 turns grouping off
  MaxFutureSkew,  \* a message may claim to be this much in the future
  Ahead,          \* how far the clock of a chat server may be ahead
  MaxEvents,      \* bound: length of the timeline
  MaxCrashes,     \* bound: restarts of the bot
  MaxInputs       \* bound: events and operations of the app together

ASSUME ChatAssumption ==
  /\ Window \in Nat /\ MaxFutureSkew \in Nat /\ Ahead \in Nat
  /\ MaxEvents \in Nat /\ MaxCrashes \in Nat /\ MaxInputs \in Nat
  /\ Shapes \subseteq Seq({"text", "attachment", "failed"})
  /\ Sources = [sender : Senders, message : 1 .. MaxEvents, index : 0 .. MaxPartsPerRequest,
                command : BOOLEAN]

VARIABLES
  timeline,  \* what happened in the conversation
  next,      \* the event the bot handles next
  upload,    \* the file it uploaded for that event, or None
  answered,  \* ingest_events: the events Core has stored an answer for
  crashes, appOps

botVars  == <<timeline, next, upload, crashes>>
chatVars == <<vars, botVars, answered, appOps>>

-----------------------------------------------------------------------------
(* The conversation *)

Relations == [message : 1 .. MaxEvents, reason : {"reply", "thread"}]
Pieces    == [kind : {"text", "attachment", "failed"}, text : Texts \cup {None}]
Events    == [kind : {"created", "edited", "deleted", "remind"}, message : 1 .. MaxEvents,
              sender : Senders, time : Nat, parts : Seq(Pieces), related : Seq(Relations)]

(* The ways to fill a shape with texts. *)
Contents(shape) ==
  {[i \in DOMAIN shape |-> [kind |-> shape[i], text |-> IF shape[i] = "text" THEN t ELSE None]] :
     t \in Texts}

Happens(event) ==
  /\ Len(timeline) < MaxEvents /\ Len(timeline) + appOps < MaxInputs
  /\ timeline' = Append(timeline, event)
  /\ UNCHANGED <<vars, next, upload, crashes, answered, appOps>>

Posted(kinds) == {i \in DOMAIN timeline : timeline[i].kind \in kinds}

(* A message may answer an earlier one, or belong to its thread. *)
Answering == {<<>>} \cup {<<x>> : x \in {r \in Relations : r.message \in Posted({"created"})}}

PostMessage ==
  \E s \in Senders, shape \in Shapes, time \in now .. now + Ahead, related \in Answering :
    \E content \in Contents(shape) :
      Happens([kind |-> "created", message |-> Len(timeline) + 1, sender |-> s, time |-> time,
               parts |-> content, related |-> related])

(* "!remind tomorrow call the dentist" *)
PostCommand ==
  \E s \in Senders, t \in Texts :
    Happens([kind |-> "remind", message |-> Len(timeline) + 1, sender |-> s, time |-> now,
             parts |-> <<[kind |-> "text", text |-> t]>>, related |-> <<>>])

EditMessage ==
  \E m \in Posted({"created", "remind"}), t \in Texts, time \in now .. now + Ahead :
    Happens([kind |-> "edited", message |-> m, sender |-> timeline[m].sender, time |-> time,
             parts |-> <<[kind |-> "text", text |-> t]>>, related |-> <<>>])

DeleteMessage ==
  \E m \in Posted({"created", "remind"}) :
    Happens([kind |-> "deleted", message |-> m, sender |-> timeline[m].sender, time |-> now,
             parts |-> <<>>, related |-> <<>>])

-----------------------------------------------------------------------------
(* Queries *)

(* A note made by a command does not carry the command's message as its    *)
(* source, so what happens to that message later does not find it.         *)
PartsBySourceMessage(m, command) ==
  {p \in Parts : /\ part[p].source # None
                 /\ part[p].source.message = m /\ part[p].source.command = command}

FirstOf(ps) == CHOOSE p \in ps : \A q \in ps : part[p].source.index <= part[q].source.index
OwnedBy(ps, s) == {p \in ps : part[p].source.sender = s}

(* The sender's newest part in an active note; several when times tie.     *)
SenderRecentNote(s) ==
  LET sent == {p \in Parts : /\ part[p].source # None /\ part[p].source.sender = s
                             /\ note[part[p].note].state = "active"}
  IN  {p \in sent : \A q \in sent :
         \/ part[q].created < part[p].created
         \/ part[q].created = part[p].created /\ part[q].ordinal <= part[p].ordinal}

NoteHasText(n) == \E p \in PartsOf(n) : part[p].kind = "text"

HasText(parts)  == \E i \in DOMAIN parts : parts[i].kind = "text"
HasMedia(parts) == \E i \in DOMAIN parts : parts[i].kind # "text"

-----------------------------------------------------------------------------
(* Grouping *)

New == [note |-> None, reason |-> "first"]

(* A message joins the note its sender wrote to last when it comes within  *)
(* the window of that note's last part and adds no second text.            *)
Joins(parts, time, p) ==
  /\ Window > 0
  /\ part[p].created <= time /\ time - part[p].created <= Window
  /\ \/ HasMedia(parts) /\ ~ HasText(parts)
     \/ HasText(parts) /\ ~ NoteHasText(part[p].note)

(* The relations of an event that name a message Core knows. *)
Known(ev) == {i \in DOMAIN ev.related : PartsBySourceMessage(ev.related[i].message, FALSE) # {}}

(* A reply, then a thread, wins over the time; the related note may be in  *)
(* the Trash, and stays as it is then.                                     *)
Decide(ev, time) ==
  IF Known(ev) # {}
  THEN LET i == CHOOSE k \in Known(ev) : \A j \in Known(ev) : k <= j
           n == part[FirstOf(PartsBySourceMessage(ev.related[i].message, FALSE))].note
       IN  {IF note[n].state = "active" THEN [note |-> n, reason |-> ev.related[i].reason] ELSE New}
  ELSE LET recent == SenderRecentNote(ev.sender)
       IN  {[note |-> part[p].note, reason |-> "media"] : p \in {q \in recent : Joins(ev.parts, time, q)}}
           \cup {New : x \in IF \E q \in recent : Joins(ev.parts, time, q) THEN {} ELSE {1}}

-----------------------------------------------------------------------------
(* Handling an event *)

Same == UNCHANGED <<note, part, history, file, view>>

(* The bot uploaded the file first.  When it is gone or used by now, also  *)
(* by an earlier part of the message, the part says so, and the message is *)
(* kept.                                                                   *)
Linked_unchecked(ev, i) == upload # None   \* mutant: whatever has become of the upload
Linked(ev, i) ==
  /\ upload # None /\ GetAttachment(upload) /\ ~ AttachmentInUse(upload)
  /\ \A j \in 1 .. i - 1 : ev.parts[j].kind # "attachment"

ChatInput(ev, i, reason, command) ==
  LET base == CASE ev.parts[i].kind = "text" -> TextInput(ev.parts[i].text)
                [] ev.parts[i].kind = "attachment" /\ Linked(ev, i) -> FileInput(upload)
                [] OTHER -> [FileInput(None) EXCEPT !.kind = "failed"]
  IN  [base EXCEPT !.reason = reason,
                   !.source = [sender |-> ev.sender, message |-> ev.message, index |-> i - 1,
                               command |-> command]]

(* A note of the chat begins in the Inbox. *)
InsertNote(rows, n, time) == InsertNoteAt(rows, n, None, <<>>, time)

(* The parts of a message, in the note the decision names or in a new one. *)
InsertMessage(ev, time, decision, command) ==
  LET ins == [i \in DOMAIN ev.parts |-> ChatInput(ev, i, decision.reason, command)]
      first(n) == IF decision.note = None THEN 0 ELSE NextPartOrdinal(n)
  IN  \E n \in IF decision.note = None THEN {m \in Notes : ~ GetNote(m)} ELSE {decision.note},
         ids \in FreshParts(Len(ev.parts)) :
        /\ first(n) + Len(ev.parts) <= MaxOrdinal + 1
        /\ InsertParts(n, ids, ins, first(n), "chat", time)
        /\ note' = IF decision.note = None THEN InsertNote(note, n, time) ELSE note
        /\ WithinLimits
        /\ UNCHANGED <<file, boardVars>>
        /\ Change({n})

Created(ev, time) ==
  IF PartsBySourceMessage(ev.message, FALSE) # {}
  THEN Same
  ELSE \E decision \in Decide(ev, time) : InsertMessage(ev, time, decision, FALSE)

(* The note of a command stands alone.                                     *)
Remind(ev, time) == InsertMessage(ev, time, New, TRUE)

(* Mutant: the edit that arrives last wins. *)
Applied_always(p, time) == TRUE
Applied(p, time) == part[p].edited = None \/ time > part[p].edited

(* The k-th text of the edited message replaces the k-th text it had; an   *)
(* edit made before the part's last edit only goes to the history.         *)
Edited(ev, time) ==
  LET olds   == {p \in OwnedBy(PartsBySourceMessage(ev.message, FALSE), ev.sender) : part[p].kind = "text"}
      place(p) == Cardinality({q \in olds : part[q].source.index <= part[p].source.index})
      texts  == {i \in DOMAIN ev.parts : ev.parts[i].kind = "text"}
      rank(i) == Cardinality({j \in texts : j <= i})
      pairs  == {x \in olds \X texts : place(x[1]) = rank(x[2])}
      text(p) == ev.parts[(CHOOSE x \in pairs : x[1] = p)[2]].text
      seen   == {x[1] : x \in pairs}
      changed == {p \in seen : Applied(p, time) /\ part[p].text # text(p)}
  IN  /\ \A p \in seen : Len(history[p]) < MaxVersions
      /\ history' = [p \in Parts |->
           IF p \in seen
           THEN InsertPartVersion(history, p, text(p), "chat", time, Applied(p, time), None)[p]
           ELSE history[p]]
      /\ part' = [p \in Parts |->
           IF p \in changed THEN UpdatePartText(part, p, text(p), time)[p] ELSE part[p]]
      /\ UNCHANGED <<note, file, boardVars>>
      /\ Change({part[p].note : p \in changed})

(* A deleted message takes its parts out of their note.  When they are all *)
(* of the note, the note goes to the Trash as it is.                       *)
AllOf(n, ps)       == CountNoteParts(n) <= Cardinality(ps)

Deleted(ev) ==
  LET mine == OwnedBy(PartsBySourceMessage(ev.message, FALSE), ev.sender)
      n    == part[FirstOf(mine)].note
  IN  CASE mine = {} -> Same
        [] mine # {} /\ AllOf(n, mine) /\ note[n].state = "active" ->
             /\ note' = DismissNote(n)
             /\ UNCHANGED <<part, history, file, boardVars>>
             /\ Change({n})
        [] mine # {} /\ AllOf(n, mine) /\ note[n].state # "active" -> Same
        [] OTHER ->
             /\ part' = DeleteNoteParts(mine)
             /\ history' = DeletePartVersions(mine)
             /\ file' = DeleteFiles({part[p].file : p \in mine})
             /\ UNCHANGED <<note, boardVars>>
             /\ TouchNote(n)

(* A clock in the future must not pin a note to the top. *)
Clamped(ev) == IF ev.time > now + MaxFutureSkew THEN now ELSE ev.time

HandleEvent(e) ==
  LET ev == timeline[e]
  IN  CASE ev.kind = "created" -> Created(ev, Clamped(ev))
        [] ev.kind = "remind"  -> Remind(ev, Clamped(ev))
        [] ev.kind = "edited"  -> Edited(ev, Clamped(ev))
        [] OTHER               -> Deleted(ev)

Answered(e) == e \in answered
InsertIngestEvent(e) == answered' = answered \cup {e}

Remember(e) == InsertIngestEvent(e)

Handle_again(e) == HandleEvent(e) /\ Remember(e)   \* mutant: also a repetition

(* An event is handled once; a repetition gets the stored answer. *)
Handle(e) == IF Answered(e) THEN Same /\ UNCHANGED answered
             ELSE HandleEvent(e) /\ Remember(e)

(* An account that is full, or a reminder that is refused: the transaction *)
(* is rolled back, and the bot is told so.                                 *)
Refused(e) ==
  /\ ~ Answered(e)
  /\ \/ timeline[e].kind = "created" /\ CountNotes >= MaxNotes
     \/ timeline[e].kind = "remind"
  /\ Same /\ UNCHANGED answered

-----------------------------------------------------------------------------
(* The bot *)

NeedsUpload(ev) == ev.kind = "created" /\ \E i \in DOMAIN ev.parts : ev.parts[i].kind = "attachment"

BotUpload ==
  /\ next <= Len(timeline) /\ upload = None /\ NeedsUpload(timeline[next])
  /\ \E f \in Files : Upload(f) /\ upload' = f
  /\ UNCHANGED <<timeline, next, crashes, answered, appOps>>

(* When the answer is lost, the bot posts the event again. *)
BotPost ==
  /\ next <= Len(timeline)
  /\ NeedsUpload(timeline[next]) => upload # None
  /\ Handle(next) \/ Refused(next)
  /\ \/ next' = next + 1 /\ upload' = None
     \/ UNCHANGED <<next, upload>>
  /\ UNCHANGED <<now, boardVars, timeline, crashes, appOps>>

(* Which position it had saved by then is left open (MatrixSync). *)
BotCrash ==
  /\ crashes < MaxCrashes
  /\ next' \in 1 .. next /\ upload' = None
  /\ crashes' = crashes + 1
  /\ UNCHANGED <<vars, timeline, answered, appOps>>

-----------------------------------------------------------------------------
(* The whole *)

Init ==
  /\ now = 0
  /\ note = [n \in Notes |-> NoNote]
  /\ part = [p \in Parts |-> NoPart]
  /\ history = [p \in Parts |-> <<>>]
  /\ category = [c \in Categories |-> [page |-> None, position |-> <<>>]]
  /\ page = [g \in Pages |-> <<>>]
  /\ file = [f \in Files |-> "new"]
  /\ view = [e \in Entities |-> Shown(e)]
  /\ timeline = <<>> /\ next = 1 /\ upload = None
  /\ answered = {} /\ crashes = 0 /\ appOps = 0

App == /\ Len(timeline) + appOps < MaxInputs
       /\ NotesNext
       /\ appOps' = appOps + 1
       /\ UNCHANGED <<botVars, answered>>

Next ==
  \/ PostMessage \/ PostCommand \/ EditMessage \/ DeleteMessage
  \/ BotUpload \/ BotPost \/ BotCrash
  \/ App
  \/ Tick /\ UNCHANGED <<botVars, answered, appOps>>

Spec == Init /\ [][Next]_chatVars

-----------------------------------------------------------------------------
(* Properties *)

ChatTypeOK ==
  /\ TypeOK
  /\ timeline \in Seq(Events)
  /\ next \in 1 .. Len(timeline) + 1
  /\ upload \in Files \cup {None}
  /\ answered \subseteq 1 .. Len(timeline)
  /\ crashes \in 0 .. MaxCrashes /\ appOps \in 0 .. MaxInputs

(* The bot repeats events after a restart and after a lost answer, and the *)
(* user may have removed what they made; nothing is stored twice, and      *)
(* nothing the user removed comes back (BOT-7).  (Answers are kept for 90  *)
(* days; the model is of bots that are away for less.)                     *)
NothingComesBack ==
  [][\A p \in Parts : part[p].note = None /\ part'[p].source # None =>
       /\ part'[p].source.message \notin answered
       /\ \A q \in Parts : part'[q].source = part'[p].source => q = p]_chatVars

(* Of all the edits of a part, in the app and in the chat, the one that    *)
(* was made last is shown, whenever it arrived (EDT-5).  An edit in the    *)
(* chat has the time of a server's clock, so two edits that are no further *)
(* apart than such a clock may be ahead can change places, and no others.  *)
LatestEditWins ==
  \A p \in Parts : part[p].kind = "text" /\ part[p].note # None =>
    \E i \in DOMAIN history[p] :
      /\ history[p][i].text = part[p].text
      /\ \A j \in DOMAIN history[p] : history[p][j].edited <= history[p][i].edited + Ahead
=============================================================================
