----------------------------- MODULE ChatProofs -----------------------------
(***************************************************************************)
(* What holds whatever the bot uploads, repeats and loses while the user   *)
(* works in the app:                                                       *)
(*                                                                         *)
(* No file is the file of two parts.  A message takes the upload that came *)
(* with it for at most one of its parts, and only when nothing has used    *)
(* it; whoever deletes parts deletes the files of these parts only.        *)
(*                                                                         *)
(* No message is stored twice: its answer is stored along with its parts.  *)
(*                                                                         *)
(* A text that an edit replaces stays in the history: the text that is     *)
(* shown is one of its versions.                                           *)
(*                                                                         *)
(* And it is the version of the latest edit, where no clock is ahead.      *)
(***************************************************************************)
EXTENDS Chat, NotesProofs

(* A message is named after the event that posted it.                      *)
OwnMessages == \A i \in DOMAIN timeline : timeline[i].kind \in {"created", "remind"} => timeline[i].message = i

ChatInv ==
  /\ NotesInv
  /\ OwnMessages
  /\ now \in Nat
  /\ timeline \in Seq(Events)
  /\ next \in Nat \ {0}
  /\ upload \in Files \cup {None}

-----------------------------------------------------------------------------
(* The conversation.                                                       *)
LEMMA Contents_are_pieces ==
  ASSUME NEW shape \in Shapes, NEW content \in Contents(shape)
  PROVE  content \in Seq(Pieces)
  <1>1. shape \in Seq({"text", "attachment", "failed"})
    BY ChatAssumption
  <1>2. PICK t \in Texts : content = [i \in DOMAIN shape |-> [kind |-> shape[i], text |-> IF shape[i] = "text" THEN t ELSE None]]
    BY DEF Contents
  <1>3. DOMAIN shape = 1 .. Len(shape) /\ Len(shape) \in Nat
    BY <1>1
  <1>4. \A i \in 1 .. Len(shape) : content[i] \in Pieces
    BY <1>1, <1>2, <1>3 DEF Pieces
  <1> QED
    BY <1>2, <1>3, <1>4

LEMMA EventHappens ==
  ASSUME ChatInv, NEW ev \in Events, Happens(ev), ev.kind \in {"created", "remind"} => ev.message = Len(timeline) + 1
  PROVE  ChatInv'
  <1>1. timeline' = Append(timeline, ev) /\ UNCHANGED <<vars, next, upload>>
    BY DEF Happens
  <1>2. timeline \in Seq(Events) /\ timeline' \in Seq(Events)
    BY <1>1 DEF ChatInv
  <1>3. OwnMessages'
    <2>1. ASSUME NEW i \in DOMAIN timeline', timeline'[i].kind \in {"created", "remind"} PROVE timeline'[i].message = i
      <3>1. i \in 1 .. Len(timeline) + 1 /\ Len(timeline) \in Nat
        BY <1>1, <1>2
      <3>2. CASE i = Len(timeline) + 1
        BY <1>1, <1>2, <2>1, <3>2
      <3>3. CASE i \in 1 .. Len(timeline)
        BY <1>1, <1>2, <2>1, <3>3 DEF ChatInv, OwnMessages
      <3> QED
        BY <3>1, <3>2, <3>3
    <2> QED
      BY <2>1 DEF OwnMessages
  <1> QED
    BY <1>1, <1>2, <1>3, NothingStored DEF ChatInv, vars, noteVars, boardVars

LEMMA PostKeeps == ChatInv /\ (PostMessage \/ PostCommand) => ChatInv'
  <1> SUFFICES ASSUME ChatInv, PostMessage \/ PostCommand PROVE ChatInv'
    OBVIOUS
  <1>1. Len(timeline) \in Nat /\ now \in Nat /\ Ahead \in Nat /\ MaxEvents \in Nat
    BY ChatAssumption DEF ChatInv
  <1>2. CASE PostMessage
    <2>1. PICK s \in Senders, shape \in Shapes, time \in now .. now + Ahead, related \in Answering :
            \E content \in Contents(shape) :
              Happens([kind |-> "created", message |-> Len(timeline) + 1, sender |-> s, time |-> time,
                       parts |-> content, related |-> related])
      BY <1>2 DEF PostMessage
    <2>3. PICK content \in Contents(shape) :
            Happens([kind |-> "created", message |-> Len(timeline) + 1, sender |-> s, time |-> time,
                     parts |-> content, related |-> related])
      BY <2>1
    <2> DEFINE ev == [kind |-> "created", message |-> Len(timeline) + 1, sender |-> s, time |-> time,
                      parts |-> content, related |-> related]
    <2>4. Len(timeline) < MaxEvents
      BY <2>3 DEF Happens
    <2>5. content \in Seq(Pieces)
      BY Contents_are_pieces
    <2>6. related \in Seq(Relations)
      <3>1. CASE related = <<>>
        BY <3>1
      <3>2. CASE related # <<>>
        <4>1. related \in {<<x>> : x \in {r \in Relations : r.message \in Posted({"created"})}}
          BY <3>2 DEF Answering
        <4>2. PICK x \in Relations : related = <<x>>
          BY <4>1
        <4> QED
          BY <4>2
      <3> QED
        BY <3>1, <3>2
    <2>7. time \in Nat /\ Len(timeline) + 1 \in 1 .. MaxEvents
      BY <1>1, <2>4
    <2>8. ev \in Events
      BY <2>5, <2>6, <2>7 DEF Events
    <2> QED
      BY <2>3, <2>8, EventHappens
  <1>3. CASE PostCommand
    <2>1. PICK s \in Senders, t \in Texts :
            Happens([kind |-> "remind", message |-> Len(timeline) + 1, sender |-> s, time |-> now,
                     parts |-> <<[kind |-> "text", text |-> t]>>, related |-> <<>>])
      BY <1>3 DEF PostCommand
    <2> DEFINE ev == [kind |-> "remind", message |-> Len(timeline) + 1, sender |-> s, time |-> now,
                      parts |-> <<[kind |-> "text", text |-> t]>>, related |-> <<>>]
    <2>2. Len(timeline) + 1 \in 1 .. MaxEvents
      BY <1>1, <2>1 DEF Happens
    <2>3. <<[kind |-> "text", text |-> t]>> \in Seq(Pieces) /\ <<>> \in Seq(Relations)
      <3>1. [kind |-> "text", text |-> t] \in Pieces
        BY DEF Pieces
      <3> QED
        BY <3>1
    <2>4. ev \in Events
      BY <1>1, <2>2, <2>3 DEF Events
    <2> QED
      BY <2>1, <2>4, EventHappens
  <1> QED
    BY <1>2, <1>3

LEMMA ChangeOfMindKeeps == ChatInv /\ (EditMessage \/ DeleteMessage) => ChatInv'
  <1> SUFFICES ASSUME ChatInv, EditMessage \/ DeleteMessage PROVE ChatInv'
    OBVIOUS
  <1>1. Len(timeline) \in Nat /\ now \in Nat /\ Ahead \in Nat /\ MaxEvents \in Nat
    BY ChatAssumption DEF ChatInv
  <1>2. ASSUME NEW m \in Posted({"created", "remind"}), Len(timeline) < MaxEvents
        PROVE  m \in 1 .. MaxEvents /\ timeline[m].sender \in Senders
    <2>1. m \in 1 .. Len(timeline) /\ timeline[m] \in Events
      BY DEF Posted, ChatInv
    <2> QED
      BY <1>1, <1>2, <2>1 DEF Events
  <1>3. CASE EditMessage
    <2>1. PICK m \in Posted({"created", "remind"}), t \in Texts, time \in now .. now + Ahead :
            Happens([kind |-> "edited", message |-> m, sender |-> timeline[m].sender, time |-> time,
                     parts |-> <<[kind |-> "text", text |-> t]>>, related |-> <<>>])
      BY <1>3 DEF EditMessage
    <2> DEFINE ev == [kind |-> "edited", message |-> m, sender |-> timeline[m].sender, time |-> time,
                      parts |-> <<[kind |-> "text", text |-> t]>>, related |-> <<>>]
    <2>2. m \in 1 .. MaxEvents /\ timeline[m].sender \in Senders
      BY <1>2, <2>1 DEF Happens
    <2>3. <<[kind |-> "text", text |-> t]>> \in Seq(Pieces) /\ <<>> \in Seq(Relations)
      <3>1. [kind |-> "text", text |-> t] \in Pieces
        BY DEF Pieces
      <3> QED
        BY <3>1
    <2>4. time \in Nat
      BY <1>1
    <2>5. ev \in Events
      BY <2>2, <2>3, <2>4 DEF Events
    <2> QED
      BY <2>1, <2>5, EventHappens
  <1>4. CASE DeleteMessage
    <2>1. PICK m \in Posted({"created", "remind"}) :
            Happens([kind |-> "deleted", message |-> m, sender |-> timeline[m].sender, time |-> now,
                     parts |-> <<>>, related |-> <<>>])
      BY <1>4 DEF DeleteMessage
    <2> DEFINE ev == [kind |-> "deleted", message |-> m, sender |-> timeline[m].sender, time |-> now,
                      parts |-> <<>>, related |-> <<>>]
    <2>2. m \in 1 .. MaxEvents /\ timeline[m].sender \in Senders
      BY <1>2, <2>1 DEF Happens
    <2>3. <<>> \in Seq(Pieces) /\ <<>> \in Seq(Relations)
      OBVIOUS
    <2>4. ev \in Events
      BY <1>1, <2>2, <2>3 DEF Events
    <2> QED
      BY <2>1, <2>4, EventHappens
  <1> QED
    BY <1>3, <1>4

-----------------------------------------------------------------------------
(* Core.  A step that leaves the board alone keeps what is said of notes   *)
(* when it keeps it of notes and parts.                                    *)
LEMMA CoreKeeps ==
  ASSUME NotesInv, NoteTable', PartTable', DOMAIN file' = Files, FilesBelongToOnePart', UNCHANGED boardVars
  PROVE  NotesInv'
  BY DEF NotesInv, Tables, CategoryTable, boardVars

(* Two parts of one message do not share the upload.                       *)
LEMMA InputsOfMessage ==
  ASSUME upload \in Files \cup {None}, NEW ev \in Events, NEW reason, NEW command
  PROVE  /\ \A i \in DOMAIN ev.parts : LET in == ChatInput(ev, i, reason, command)
                                       IN  in.file \in Files \cup {None} /\ Usable(in)
         /\ \A i, j \in DOMAIN ev.parts :
              /\ ChatInput(ev, i, reason, command).file = ChatInput(ev, j, reason, command).file
              /\ ChatInput(ev, i, reason, command).file # None
              => i = j
  <1> DEFINE in(i) == ChatInput(ev, i, reason, command)
  <1> DEFINE takes(i) == ev.parts[i].kind = "attachment" /\ Linked(ev, i)
  <1>1. ASSUME NEW i \in DOMAIN ev.parts
        PROVE  in(i).file = IF takes(i) THEN upload ELSE None
    <2>1. CASE ev.parts[i].kind = "text"
      BY <2>1 DEF ChatInput, TextInput
    <2>2. CASE takes(i)
      BY <2>2 DEF ChatInput, FileInput
    <2>3. CASE ev.parts[i].kind # "text" /\ ~ takes(i)
      BY <2>3 DEF ChatInput, FileInput
    <2> QED
      BY <2>1, <2>2, <2>3
  <1>2. DOMAIN ev.parts = 1 .. Len(ev.parts) /\ Len(ev.parts) \in Nat
    BY DEF Events
  <1>3. ASSUME NEW i \in DOMAIN ev.parts, NEW j \in DOMAIN ev.parts, takes(i), takes(j) PROVE i = j
    <2>1. i \in Nat /\ j \in Nat /\ i >= 1 /\ j >= 1
      BY <1>2
    <2>2. ~ (i \in 1 .. j - 1) /\ ~ (j \in 1 .. i - 1)
      BY <1>3 DEF Linked
    <2> QED
      BY <2>1, <2>2
  <1>4. ASSUME NEW i \in DOMAIN ev.parts PROVE in(i).file \in Files \cup {None} /\ Usable(in(i))
    <2>1. CASE takes(i)
      BY <1>1, <2>1 DEF Linked, Usable
    <2>2. CASE ~ takes(i)
      BY <1>1, <2>2 DEF Usable
    <2> QED
      BY <2>1, <2>2
  <1> HIDE DEF in, takes
  <1>5. \A i, j \in DOMAIN ev.parts : in(i).file = in(j).file /\ in(i).file # None => i = j
    BY <1>1, <1>3
  <1> QED
    BY <1>4, <1>5 DEF in

LEMMA MessageKeeps ==
  ASSUME NotesInv, upload \in Files \cup {None}, NEW ev \in Events, NEW time, NEW decision, NEW command,
         InsertMessage(ev, time, decision, command)
  PROVE  NotesInv'
  <1> DEFINE ins == [i \in DOMAIN ev.parts |-> ChatInput(ev, i, decision.reason, command)]
  <1>1. PICK n \in IF decision.note = None THEN {m \in Notes : ~ GetNote(m)} ELSE {decision.note},
             ids \in FreshParts(Len(ev.parts)) :
               /\ \E first : InsertParts(n, ids, ins, first, "chat", time)
               /\ note' = IF decision.note = None THEN InsertNote(note, n, time) ELSE note
               /\ UNCHANGED <<file, boardVars>>
    BY DEF InsertMessage
  <1>2. PICK first : InsertParts(n, ids, ins, first, "chat", time)
    BY <1>1
  <1>3. DOMAIN ev.parts = 1 .. Len(ev.parts)
    BY DEF Events
  <1>4. /\ DOMAIN ids = DOMAIN ev.parts
        /\ \A i \in DOMAIN ids : ids[i] \in FreeParts
        /\ \A i, j \in DOMAIN ids : ids[i] = ids[j] => i = j
    BY <1>3 DEF FreshParts
  <1>5. /\ \A i \in DOMAIN ids : ins[i].file \in Files \cup {None} /\ Usable(ins[i])
        /\ \A i, j \in DOMAIN ids : ins[i].file = ins[j].file /\ ins[i].file # None => i = j
    BY <1>4, InputsOfMessage
  <1> HIDE DEF ins
  <1>6. PartTable' /\ FilesBelongToOnePart'
    BY <1>1, <1>2, <1>4, <1>5, InsertKeeps
  <1>7. NoteTable'
    <2>1. NoteTable
      BY DEF NotesInv, Tables
    <2>2. CASE decision.note = None
      <3>1. n \in Notes /\ note' = InsertNoteAt(note, n, None, <<>>, time)
        BY <1>1, <2>2 DEF InsertNote
      <3> QED
        BY <2>1, <3>1, NoteInserted DEF NoteTable
    <2>3. CASE decision.note # None
      BY <1>1, <2>1, <2>3 DEF NoteTable
    <2> QED
      BY <2>2, <2>3
  <1>8. DOMAIN file' = Files
    BY <1>1 DEF NotesInv, Tables
  <1> QED
    BY <1>1, <1>6, <1>7, <1>8, CoreKeeps

(* An edit changes texts, and nothing else of a part.                      *)
LEMMA EditedParts ==
  ASSUME PartTable, NEW ev, NEW time, Edited(ev, time)
  PROVE  /\ DOMAIN part' = Parts
         /\ \A p \in Parts : /\ DOMAIN part'[p] = DOMAIN part[p] /\ part'[p].file = part[p].file
                             /\ part'[p].note = part[p].note /\ part'[p].source = part[p].source
  <1> DEFINE olds   == {p \in OwnedBy(PartsBySourceMessage(ev.message, FALSE), ev.sender) : part[p].kind = "text"}
  <1> DEFINE place(p) == Cardinality({q \in olds : part[q].source.index <= part[p].source.index})
  <1> DEFINE texts  == {i \in DOMAIN ev.parts : ev.parts[i].kind = "text"}
  <1> DEFINE rank(i) == Cardinality({j \in texts : j <= i})
  <1> DEFINE pairs  == {x \in olds \X texts : place(x[1]) = rank(x[2])}
  <1> DEFINE text(p) == ev.parts[(CHOOSE x \in pairs : x[1] = p)[2]].text
  <1> DEFINE seen   == {x[1] : x \in pairs}
  <1> DEFINE changed == {p \in seen : Applied(p, time) /\ part[p].text # text(p)}
  <1>1. part' = [p \in Parts |-> IF p \in changed THEN UpdatePartText(part, p, text(p), time)[p] ELSE part[p]]
    BY Zenon DEF Edited
  <1> HIDE DEF changed, text
  <1> QED
    BY <1>1 DEF UpdatePartText, PartTable, PartColumns

LEMMA EditedKeeps ==
  ASSUME NotesInv, NEW ev, NEW time, Edited(ev, time)
  PROVE  NotesInv'
  <1>1. UNCHANGED <<note, file>> /\ UNCHANGED boardVars
    BY DEF Edited
  <1>2. PartTable /\ NoteTable' /\ DOMAIN file' = Files
    BY <1>1 DEF NotesInv, Tables, NoteTable
  <1>3. DOMAIN part' = Parts /\ \A p \in Parts : DOMAIN part'[p] = DOMAIN part[p] /\ part'[p].file = part[p].file
    BY <1>2, EditedParts
  <1> QED
    BY <1>1, <1>2, <1>3, FilesStay, CoreKeeps

(* A deletion dismisses the note, or deletes the parts that are of the message. *)
LEMMA DeletedParts ==
  ASSUME NEW ev, Deleted(ev)
  PROVE  \/ Same
         \/ (\E n : note' = DismissNote(n)) /\ UNCHANGED <<part, file>>
         \/ \E mine \in SUBSET Parts :
               /\ part' = DeleteNoteParts(mine) /\ file' = DeleteFiles({part[p].file : p \in mine})
               /\ note' = note
  <1> DEFINE mine == OwnedBy(PartsBySourceMessage(ev.message, FALSE), ev.sender)
  <1> DEFINE n == part[FirstOf(mine)].note
  <1> DEFINE all == AllOf(n, mine)
  <1>1. \/ Same
        \/ note' = DismissNote(n) /\ UNCHANGED <<part, file>>
        \/ /\ part' = DeleteNoteParts(mine) /\ file' = DeleteFiles({part[p].file : p \in mine})
           /\ note' = note
    <2>1. CASE mine = {}
      BY <2>1, Zenon DEF Deleted
    <2>2. CASE mine # {} /\ all /\ note[n].state = "active"
      BY <2>2 DEF Deleted
    <2>3. CASE mine # {} /\ all /\ note[n].state # "active"
      BY <2>3 DEF Deleted
    <2>4. CASE mine # {} /\ ~ all
      BY <2>4 DEF Deleted
    <2> QED
      BY <2>1, <2>2, <2>3, <2>4
  <1>2. mine \in SUBSET Parts
    BY DEF OwnedBy, PartsBySourceMessage
  <1> HIDE DEF mine, n, all
  <1> QED
    BY <1>1, <1>2

LEMMA DeletedKeeps ==
  ASSUME NotesInv, UNCHANGED boardVars, NEW ev, Deleted(ev)
  PROVE  NotesInv'
  <1>1. CASE Same
    BY <1>1, NothingStored DEF Same, boardVars
  <1>2. ASSUME NEW n, note' = DismissNote(n), UNCHANGED <<part, file>> PROVE NotesInv'
    <2>1. NoteTable /\ PartTable /\ FilesBelongToOnePart /\ DOMAIN file = Files
      BY DEF NotesInv, Tables
    <2>2. NoteTable'
      BY <1>2, <2>1 DEF NoteTable, IsRow, NoteColumns, DismissNote
    <2>3. PartTable' /\ FilesBelongToOnePart'
      BY <1>2, <2>1 DEF PartTable, FilesBelongToOnePart, GetAttachment
    <2> QED
      BY <1>2, <2>1, <2>2, <2>3, CoreKeeps
  <1>3. ASSUME NEW mine \in SUBSET Parts, note' = note,
               part' = DeleteNoteParts(mine), file' = DeleteFiles({part[p].file : p \in mine})
        PROVE  NotesInv'
    <2>1. PartTable' /\ DOMAIN file' = Files /\ FilesBelongToOnePart'
      BY <1>3, DeleteKeeps
    <2>2. NoteTable'
      BY <1>3 DEF NotesInv, Tables, NoteTable
    <2> QED
      BY <2>1, <2>2, CoreKeeps
  <1> QED
    BY <1>1, <1>2, <1>3, DeletedParts

(* An event becomes parts of a note, an edit or a deletion, or nothing.    *)
LEMMA EventBecomes ==
  ASSUME NEW e, HandleEvent(e)
  PROVE  LET ev == timeline[e]
             time == Clamped(ev)
         IN  \/ Same
             \/ /\ ev.kind \in {"created", "remind"}
                /\ \E d, command : (d = New \/ d \in Decide(ev, time)) /\ InsertMessage(ev, time, d, command)
             \/ ev.kind = "edited" /\ Edited(ev, time)
             \/ Deleted(ev)
  <1> DEFINE ev == timeline[e]
  <1> DEFINE time == Clamped(ev)
  <1>1. CASE ev.kind = "created"
    <2>1. Created(ev, time)
      BY <1>1 DEF HandleEvent
    <2>2. Same \/ \E d, command : (d = New \/ d \in Decide(ev, time)) /\ InsertMessage(ev, time, d, command)
      BY <2>1, Zenon DEF Created
    <2> QED
      BY <1>1, <2>2
  <1>2. CASE ev.kind = "remind"
    <2>1. Remind(ev, time)
      BY <1>2 DEF HandleEvent
    <2>2. \E d, command : (d = New \/ d \in Decide(ev, time)) /\ InsertMessage(ev, time, d, command)
      BY <2>1, Zenon DEF Remind
    <2> QED
      BY <1>2, <2>2
  <1>3. CASE ev.kind = "edited"
    BY <1>3 DEF HandleEvent
  <1>4. CASE ev.kind \notin {"created", "remind", "edited"}
    BY <1>4 DEF HandleEvent
  <1> QED
    BY <1>1, <1>2, <1>3, <1>4

(* Whatever Core makes of an event.                                        *)
LEMMA HandleKeeps ==
  ASSUME ChatInv, UNCHANGED boardVars, NEW e \in DOMAIN timeline, Handle(e) \/ Refused(e)
  PROVE  NotesInv'
  <1> DEFINE ev == timeline[e]
  <1>1. ev \in Events /\ NotesInv /\ upload \in Files \cup {None}
    BY DEF ChatInv
  <1>2. CASE Same
    BY <1>1, <1>2, NothingStored DEF Same, boardVars
  <1>3. CASE HandleEvent(e)
    <2> DEFINE time == Clamped(ev)
    <2>1. Same \/ (\E d, command : InsertMessage(ev, time, d, command)) \/ Edited(ev, time) \/ Deleted(ev)
      BY <1>3, EventBecomes
    <2> HIDE DEF ev, time
    <2> QED
      BY <1>1, <1>2, <2>1, MessageKeeps, EditedKeeps, DeletedKeeps
  <1> QED
    BY <1>2, <1>3 DEF Handle, Refused

-----------------------------------------------------------------------------
(* The whole.                                                              *)
LEMMA BotKeeps == ChatInv /\ (BotUpload \/ BotPost \/ BotCrash) => ChatInv'
  <1> SUFFICES ASSUME ChatInv, BotUpload \/ BotPost \/ BotCrash PROVE ChatInv'
    OBVIOUS
  <1>1. CASE BotUpload
    <2>1. PICK f \in Files : Upload(f) /\ upload' = f
      BY <1>1 DEF BotUpload
    <2>2. NotesInv'
      BY <2>1, UploadKeeps DEF ChatInv
    <2>3. UNCHANGED <<now, timeline, next>>
      BY <1>1, <2>1 DEF BotUpload, Upload
    <2> QED
      BY <2>1, <2>2, <2>3 DEF ChatInv, OwnMessages
  <1>2. CASE BotPost
    <2>1. next \in DOMAIN timeline
      BY <1>2 DEF BotPost, ChatInv
    <2>2. UNCHANGED <<now, timeline>> /\ UNCHANGED boardVars
      BY <1>2 DEF BotPost
    <2>3. Handle(next) \/ Refused(next)
      BY <1>2 DEF BotPost
    <2>4. NotesInv'
      BY <2>1, <2>2, <2>3, HandleKeeps
    <2>5. next' \in Nat \ {0} /\ upload' \in Files \cup {None}
      BY <1>2 DEF BotPost, ChatInv
    <2> QED
      BY <2>2, <2>4, <2>5 DEF ChatInv, OwnMessages
  <1>3. CASE BotCrash
    <2>1. UNCHANGED vars /\ timeline' = timeline /\ next' \in 1 .. next /\ upload' = None
      BY <1>3 DEF BotCrash
    <2>2. NotesInv' /\ now' = now
      BY <2>1, NothingStored DEF ChatInv, vars, noteVars, boardVars
    <2> QED
      BY <2>1, <2>2 DEF ChatInv, OwnMessages
  <1> QED
    BY <1>1, <1>2, <1>3

LEMMA AppKeeps == ChatInv /\ App => ChatInv'
  <1> SUFFICES ASSUME ChatInv, App PROVE ChatInv'
    OBVIOUS
  <1>1. NotesNext /\ UNCHANGED botVars
    BY DEF App
  <1>2. NotesInv'
    BY <1>1, NotesNextKeeps DEF ChatInv
  <1>3. now' = now
    BY <1>1, Zenon DEF NotesNext, CreateNote, MoveNote, DismissANote, RestoreANote, DeleteNotePermanently, EditNotePart,
         AddNotePart, DeleteNotePart, MergeNotes, SplitNotePart, UploadFile, Janitor, Create, Move, Dismiss, Restore,
         DeletePermanently, EditPart, AddPart, RemovePart, Merge, Split, Upload, RemoveUnused
  <1> QED
    BY <1>1, <1>2, <1>3 DEF ChatInv, OwnMessages, botVars

LEMMA ChatInit == Init => ChatInv
  <1> SUFFICES ASSUME Init PROVE ChatInv
    OBVIOUS
  <1>1. /\ IsRow(NoNote, NoteColumns) /\ DOMAIN NoPart = PartColumns /\ NoPart.file = None
        /\ IsRow([page |-> None, position |-> <<>>], CategoryColumns)
    BY DEF IsRow, NoNote, NoteColumns, NoPart, PartColumns, CategoryColumns
  <1>2. NotesInv
    BY <1>1 DEF Init, NotesInv, Tables, NoteTable, PartTable, CategoryTable, FilesBelongToOnePart
  <1> QED
    BY <1>2 DEF Init, ChatInv, OwnMessages

LEMMA StepKeeps == ChatInv /\ [Next]_chatVars => ChatInv'
  <1> SUFFICES ASSUME ChatInv, [Next]_chatVars PROVE ChatInv'
    OBVIOUS
  <1>1. CASE PostMessage \/ PostCommand \/ EditMessage \/ DeleteMessage
    BY <1>1, PostKeeps, ChangeOfMindKeeps
  <1>2. CASE BotUpload \/ BotPost \/ BotCrash
    BY <1>2, BotKeeps
  <1>3. CASE App
    BY <1>3, AppKeeps
  <1>4. CASE Tick /\ UNCHANGED <<botVars, answered, appOps>>
    <2>1. now' \in Nat /\ UNCHANGED <<noteVars, boardVars, timeline, next, upload>>
      BY <1>4 DEF Tick, botVars, ChatInv
    <2> QED
      BY <2>1, NothingStored DEF ChatInv, OwnMessages, noteVars, boardVars
  <1>5. CASE UNCHANGED chatVars
    BY <1>5, NothingStored DEF ChatInv, OwnMessages, chatVars, vars, noteVars, boardVars, botVars
  <1> QED
    BY <1>1, <1>2, <1>3, <1>4, <1>5 DEF Next

(* A part's file exists and belongs to that part alone, for any number of  *)
(* senders, messages and files, however often the bot stops and repeats,   *)
(* and whatever the janitor and the app delete meanwhile.                  *)
THEOREM FilesAreNotShared == Spec => []FilesBelongToOnePart
  <1>1. Init => ChatInv
    BY ChatInit
  <1>2. ChatInv /\ [Next]_chatVars => ChatInv'
    BY StepKeeps
  <1>3. ChatInv => FilesBelongToOnePart
    BY DEF ChatInv, NotesInv
  <1> QED
    BY <1>1, <1>2, <1>3, PTL DEF Spec
-----------------------------------------------------------------------------
(* Where parts come from.  Only a new event makes parts with a source, and *)
(* it is answered in the same transaction, so whatever has a source was    *)
(* answered, and what was answered makes no parts again.                   *)
SourcesKnown ==
  \A p \in Parts : /\ part[p].note = None => part[p].source = None
                   /\ part[p].source # None => part[p].source.message \in answered

(* The action of NothingComesBack.                                         *)
Fresh ==
  \A p \in Parts : part[p].note = None /\ part'[p].source # None =>
    /\ part'[p].source.message \notin answered
    /\ \A q \in Parts : part'[q].source = part'[p].source => q = p

(* A part keeps its source, goes, or has none.                             *)
KeepsSources ==
  \A p \in Parts : \/ part'[p].source = None
                   \/ part'[p].source = part[p].source /\ (part'[p].note = part[p].note \/ part'[p].note # None)

LEMMA SourcesKept ==
  ASSUME SourcesKnown, KeepsSources, answered \subseteq answered'
  PROVE  SourcesKnown' /\ Fresh
  BY DEF SourcesKnown, KeepsSources, Fresh

LEMMA InsertHasNoSource ==
  ASSUME PartTable, NEW n, NEW ids, NEW ins, NEW first, NEW origin, NEW time,
         InsertParts(n, ids, ins, first, origin, time),
         \A i, j \in DOMAIN ids : ids[i] = ids[j] => i = j,
         \A i \in DOMAIN ids : ins[i].source = None
  PROVE  KeepsSources
  <1>1. /\ \A i \in DOMAIN ids : ids[i] \in Parts => part'[ids[i]] = InsertedRow(n, first + i - 1, ins[i], time)
        /\ \A p \in Parts : (\A i \in DOMAIN ids : ids[i] # p) => part'[p] = part[p]
    BY InsertedParts
  <1>2. \A i \in DOMAIN ids : ids[i] \in Parts => part'[ids[i]].source = None
    <2>1. \A i : InsertedRow(n, first + i - 1, ins[i], time).source = ins[i].source
      BY DEF InsertedRow
    <2> QED
      BY <1>1, <2>1
  <1>3. ASSUME NEW p \in Parts PROVE part'[p].source = None \/ part'[p] = part[p]
    <2>1. CASE \E i \in DOMAIN ids : ids[i] = p
      BY <1>2, <2>1
    <2>2. CASE \A i \in DOMAIN ids : ids[i] # p
      BY <1>1, <2>2
    <2> QED
      BY <2>1, <2>2
  <1> QED
    BY <1>3 DEF KeepsSources

LEMMA DeleteKeepsSources ==
  ASSUME NEW ps, part' = DeleteNoteParts(ps)
  PROVE  KeepsSources
  BY DEF DeleteNoteParts, NoPart, KeepsSources

(* The app gives no part a source.                                         *)
LEMMA AppKeepsSources ==
  ASSUME NotesInv, NotesNext
  PROVE  KeepsSources
  <1>1. PartTable
    BY DEF NotesInv, Tables
  <1>2. \A in \in Inputs : in.source = None
    BY DEF Inputs, TextInput, FileInput
  <1>3. \A n \in Notes : n # None
    BY NotesAssumption
  <1>4. CASE CreateNote
    <2>1. PICK n \in Notes, k \in 1 .. MaxPartsPerRequest :
            \E ids \in FreshParts(k), ins \in [1 .. k -> Inputs] : InsertParts(n, ids, ins, 0, "app", now)
      BY <1>4 DEF CreateNote, Create
    <2>2. PICK ids \in FreshParts(k), ins \in [1 .. k -> Inputs] : InsertParts(n, ids, ins, 0, "app", now)
      BY <2>1
    <2> QED
      BY <1>1, <1>2, <2>2, InsertHasNoSource DEF FreshParts
  <1>5. CASE MoveNote \/ DismissANote \/ RestoreANote \/ UploadFile \/ Janitor
    <2>1. part' = part
      BY <1>5 DEF MoveNote, DismissANote, RestoreANote, UploadFile, Janitor, Move, Dismiss, Restore, Upload, RemoveUnused
    <2> QED
      BY <2>1 DEF KeepsSources
  <1>6. CASE DeleteNotePermanently \/ DeleteNotePart
    <2>1. \E ps : part' = DeleteNoteParts(ps)
      BY <1>6 DEF DeleteNotePermanently, DeleteNotePart, DeletePermanently, RemovePart
    <2> QED
      BY <2>1, DeleteKeepsSources
  <1>7. CASE EditNotePart
    <2>1. PICK p \in Parts, t \in Texts : part' = [part EXCEPT ![p].text = t, ![p].edited = now]
      BY <1>7 DEF EditNotePart, EditPart, UpdatePartText
    <2> QED
      BY <1>1, <2>1 DEF PartTable, PartColumns, KeepsSources
  <1>8. CASE AddNotePart
    <2>1. PICK n \in Notes, p \in FreeParts, in \in Inputs : InsertParts(n, <<p>>, <<in>>, NextPartOrdinal(n), "app", now)
      BY <1>8 DEF AddNotePart, AddPart
    <2>2. DOMAIN <<p>> = {1} /\ <<in>>[1] = in
      OBVIOUS
    <2>3. /\ \A i, j \in DOMAIN <<p>> : <<p>>[i] = <<p>>[j] => i = j
          /\ \A i \in DOMAIN <<p>> : <<in>>[i].source = None
      BY <1>2, <2>2
    <2> QED
      BY <1>1, <2>1, <2>3, InsertHasNoSource
  <1>9. CASE MergeNotes
    <2>1. PICK target \in Notes, source \in Notes : Merge(target, source)
      BY <1>9 DEF MergeNotes
    <2> DEFINE o == NextPartOrdinal(target)
    <2>2. \A p \in Parts : part'[p] = IF part[p].note = source
                                      THEN [part[p] EXCEPT !.note = target, !.ordinal = @ + o] ELSE part[p]
      BY <2>1 DEF Merge, MovePartsToNote
    <2> HIDE DEF o
    <2> QED
      BY <1>1, <1>3, <2>2 DEF PartTable, PartColumns, KeepsSources
  <1>10. CASE SplitNotePart
    <2>1. PICK p \in Parts, new \in Notes : part' = [part EXCEPT ![p].note = new, ![p].ordinal = 0]
      BY <1>10 DEF SplitNotePart, Split, MovePartToNewNote
    <2> QED
      BY <1>1, <1>3, <2>1 DEF PartTable, PartColumns, KeepsSources
  <1> QED
    BY <1>4, <1>5, <1>6, <1>7, <1>8, <1>9, <1>10 DEF NotesNext

(* The parts of a message are told apart by their place in it.             *)
SourceOf(ev, i, command) == [sender |-> ev.sender, message |-> ev.message, index |-> i - 1, command |-> command]

(* These parts are new, each with its place in the message; others stay.   *)
Makes(ids, ev, command) ==
  /\ \A i \in DOMAIN ids : /\ i \in Nat \ {0} /\ ids[i] \in Parts
                           /\ part'[ids[i]].note # None
                           /\ part'[ids[i]].source = SourceOf(ev, i, command)
  /\ \A p \in Parts : (\A i \in DOMAIN ids : ids[i] # p) => part'[p] = part[p]

LEMMA MessageParts ==
  ASSUME PartTable, NEW ev \in Events, NEW time, NEW decision, NEW command, InsertMessage(ev, time, decision, command)
  PROVE  \E ids : Makes(ids, ev, command)
  <1> DEFINE ins == [i \in DOMAIN ev.parts |-> ChatInput(ev, i, decision.reason, command)]
  <1>1. PICK n \in IF decision.note = None THEN {m \in Notes : ~ GetNote(m)} ELSE {decision.note},
             ids \in FreshParts(Len(ev.parts)) : \E first : InsertParts(n, ids, ins, first, "chat", time)
    BY DEF InsertMessage
  <1>2. PICK first : InsertParts(n, ids, ins, first, "chat", time)
    BY <1>1
  <1>3. DOMAIN ev.parts = 1 .. Len(ev.parts)
    BY DEF Events
  <1>4. /\ DOMAIN ids = DOMAIN ev.parts
        /\ \A i \in DOMAIN ids : ids[i] \in Parts /\ i \in Nat \ {0}
        /\ \A i, j \in DOMAIN ids : ids[i] = ids[j] => i = j
    BY <1>3 DEF FreshParts, FreeParts
  <1>5. \A i \in DOMAIN ids : ins[i].source = SourceOf(ev, i, command)
    <2>1. ASSUME NEW i \in DOMAIN ev.parts PROVE ChatInput(ev, i, decision.reason, command).source = SourceOf(ev, i, command)
      <3>1. CASE ev.parts[i].kind = "text"
        BY <3>1 DEF ChatInput, SourceOf, TextInput
      <3>2. CASE ev.parts[i].kind = "attachment" /\ Linked(ev, i)
        BY <3>2 DEF ChatInput, SourceOf, FileInput
      <3>3. CASE ev.parts[i].kind # "text" /\ ~ (ev.parts[i].kind = "attachment" /\ Linked(ev, i))
        BY <3>3 DEF ChatInput, SourceOf, FileInput
      <3> QED
        BY <3>1, <3>2, <3>3
    <2> QED
      BY <1>4, <2>1
  <1>6. n # None
    BY <1>1, NotesAssumption
  <1> HIDE DEF ins
  <1>7. /\ \A i \in DOMAIN ids : part'[ids[i]] = InsertedRow(n, first + i - 1, ins[i], time)
        /\ \A p \in Parts : (\A i \in DOMAIN ids : ids[i] # p) => part'[p] = part[p]
    BY <1>2, <1>4, InsertedParts
  <1>8. \A i \in DOMAIN ids : part'[ids[i]].note # None /\ part'[ids[i]].source = SourceOf(ev, i, command)
    <2>1. \A i : LET row == InsertedRow(n, first + i - 1, ins[i], time) IN row.note = n /\ row.source = ins[i].source
      BY DEF InsertedRow
    <2> QED
      BY <1>5, <1>6, <1>7, <2>1
  <1>9. Makes(ids, ev, command)
    BY <1>4, <1>7, <1>8 DEF Makes
  <1> QED
    BY <1>9

LEMMA MessageIsFresh ==
  ASSUME PartTable, SourcesKnown, NEW ev \in Events, NEW time, NEW decision, NEW command,
         InsertMessage(ev, time, decision, command),
         ev.message \notin answered, answered' = answered \cup {ev.message}
  PROVE  SourcesKnown' /\ Fresh
  <1>0. PICK ids : Makes(ids, ev, command)
    BY MessageParts
  <1>1. /\ \A i \in DOMAIN ids : /\ i \in Nat \ {0} /\ ids[i] \in Parts
                                 /\ part'[ids[i]].note # None
                                 /\ part'[ids[i]].source = SourceOf(ev, i, command)
        /\ \A p \in Parts : (\A i \in DOMAIN ids : ids[i] # p) => part'[p] = part[p]
    BY <1>0 DEF Makes
  <1>2. \A i : SourceOf(ev, i, command).message = ev.message
    BY DEF SourceOf
  <1>3. \A i, j \in Nat : SourceOf(ev, i, command) = SourceOf(ev, j, command) => i = j
    <2>1. \A i : SourceOf(ev, i, command).index = i - 1
      BY DEF SourceOf
    <2> QED
      BY <2>1
  <1>4. SourcesKnown'
    BY <1>1, <1>2 DEF SourcesKnown
  <1>5. Fresh
    <2>1. ASSUME NEW p \in Parts, part[p].note = None, part'[p].source # None
          PROVE  /\ part'[p].source.message \notin answered
                 /\ \A q \in Parts : part'[q].source = part'[p].source => q = p
      <3>1. part[p].source = None
        BY <2>1 DEF SourcesKnown
      <3>2. PICK i \in DOMAIN ids : ids[i] = p
        BY <1>1, <2>1, <3>1
      <3>3. part'[p].source = SourceOf(ev, i, command) /\ part'[p].source.message \notin answered
        BY <1>1, <1>2, <3>2
      <3>4. ASSUME NEW q \in Parts, part'[q].source = part'[p].source PROVE q = p
        <4>1. CASE \E j \in DOMAIN ids : ids[j] = q
          BY <1>1, <1>3, <3>2, <3>3, <3>4, <4>1
        <4>2. CASE \A j \in DOMAIN ids : ids[j] # q
          <5>1. part[q].source = part'[p].source
            BY <1>1, <3>4, <4>2
          <5> QED
            BY <2>1, <3>3, <5>1 DEF SourcesKnown
        <4> QED
          BY <4>1, <4>2
      <3> QED
        BY <3>3, <3>4
    <2> QED
      BY <2>1 DEF Fresh
  <1> QED
    BY <1>4, <1>5

LEMMA HandleIsFresh ==
  ASSUME ChatInv, SourcesKnown, NEW e \in DOMAIN timeline, Handle(e) \/ Refused(e)
  PROVE  SourcesKnown' /\ Fresh
  <1>1. PartTable
    BY DEF ChatInv, NotesInv, Tables
  <1>2. CASE Same /\ UNCHANGED answered
    BY <1>2, SourcesKept DEF Same, KeepsSources
  <1>3. CASE HandleEvent(e) /\ Remember(e) /\ ~ Answered(e)
    <2> DEFINE ev == timeline[e]
    <2> DEFINE time == Clamped(ev)
    <2>1. e \notin answered /\ answered' = answered \cup {e}
      BY <1>3 DEF Answered, Remember, InsertIngestEvent
    <2>2. ev \in Events /\ (ev.kind \in {"created", "remind"} => ev.message = e)
      BY DEF ChatInv, OwnMessages
    <2>3. \/ Same
          \/ ev.kind \in {"created", "remind"} /\ (\E d, command : InsertMessage(ev, time, d, command))
          \/ Edited(ev, time)
          \/ Deleted(ev)
      BY <1>3, EventBecomes
    <2> HIDE DEF ev, time
    <2>4. CASE Same
      BY <2>1, <2>4, SourcesKept DEF Same, KeepsSources
    <2>5. CASE ev.kind \in {"created", "remind"} /\ (\E d, command : InsertMessage(ev, time, d, command))
      BY <1>1, <2>1, <2>2, <2>5, MessageIsFresh
    <2>6. CASE Edited(ev, time)
      <3>1. KeepsSources
        BY <1>1, <2>6, EditedParts DEF KeepsSources
      <3> QED
        BY <2>1, <3>1, SourcesKept
    <2>7. CASE Deleted(ev)
      <3>1. part' = part \/ \E ps : part' = DeleteNoteParts(ps)
        BY <2>7, DeletedParts DEF Same
      <3>2. KeepsSources
        BY <3>1, DeleteKeepsSources DEF KeepsSources
      <3> QED
        BY <2>1, <3>2, SourcesKept
    <2> QED
      BY <2>3, <2>4, <2>5, <2>6, <2>7
  <1> QED
    BY <1>2, <1>3 DEF Handle, Refused

LEMMA StepIsFresh == ChatInv /\ SourcesKnown /\ [Next]_chatVars => SourcesKnown' /\ [Fresh]_chatVars
  <1> SUFFICES ASSUME ChatInv, SourcesKnown, [Next]_chatVars PROVE SourcesKnown' /\ Fresh
    OBVIOUS
  <1>1. CASE App
    <2>1. KeepsSources /\ answered' = answered
      BY <1>1, AppKeepsSources DEF App, ChatInv
    <2> QED
      BY <2>1, SourcesKept
  <1>2. CASE BotPost
    <2>1. next \in DOMAIN timeline
      BY <1>2 DEF BotPost, ChatInv
    <2> QED
      BY <1>2, <2>1, HandleIsFresh DEF BotPost
  <1>3. CASE PostMessage \/ PostCommand \/ EditMessage \/ DeleteMessage
    <2>1. UNCHANGED <<part, answered>>
      BY <1>3 DEF PostMessage, PostCommand, EditMessage, DeleteMessage, Happens, vars, noteVars
    <2> QED
      BY <2>1, SourcesKept DEF KeepsSources
  <1>4. CASE BotUpload \/ BotCrash \/ (Tick /\ UNCHANGED <<botVars, answered, appOps>>) \/ UNCHANGED chatVars
    <2>1. UNCHANGED <<part, answered>>
      BY <1>4 DEF BotUpload, BotCrash, Upload, Tick, chatVars, vars, noteVars
    <2> QED
      BY <2>1, SourcesKept DEF KeepsSources
  <1> QED
    BY <1>1, <1>2, <1>3, <1>4 DEF Next

(* A message the bot hands over again makes no second note, and nothing    *)
(* the user removed comes back with it, for any number of messages,        *)
(* restarts and lost answers: what Core stores in the transaction of an    *)
(* event it remembers as answered in the same transaction.                 *)
THEOREM StoredOnce == Spec => NothingComesBack
  <1> DEFINE I == ChatInv /\ SourcesKnown
  <1>1. Init => I
    <2>1. Init => SourcesKnown
      BY DEF Init, SourcesKnown, NoPart
    <2> QED
      BY <2>1, ChatInit
  <1>2. I /\ [Next]_chatVars => I' /\ [Fresh]_chatVars
    BY StepKeeps, StepIsFresh
  <1>3. NothingComesBack <=> [][Fresh]_chatVars
    BY DEF NothingComesBack, Fresh
  <1> HIDE DEF I
  <1> QED
    BY <1>1, <1>2, <1>3, PTL DEF Spec
-----------------------------------------------------------------------------
(* Texts and their versions: what the bot's events do to one part.         *)
(* An edit in the chat, which counts or comes too late.                    *)
Heard(p, ev, time) ==
  /\ ev.kind = "edited"
  /\ part[p].note # None /\ part'[p].note # None /\ part[p].kind = "text"
  /\ part'[p].kind = part[p].kind /\ part'[p].source = part[p].source
  /\ part[p].source # None /\ part[p].source.message = ev.message
  /\ \E t : /\ history'[p] = Append(history[p], Version(t, "chat", time, Applied(p, time), None))
            /\ \/ Applied(p, time) /\ part'[p].text = t
                  /\ (part'[p].edited = time \/ (part'[p].edited = part[p].edited /\ t = part[p].text))
               \/ ~ Applied(p, time) /\ part'[p].text = part[p].text /\ part'[p].edited = part[p].edited

ChatStep(p, ev, time) ==
  Gone(p) \/ Still(p) \/ (Begun(p, time) /\ part'[p].source.message = ev.message) \/ Heard(p, ev, time)

LEMMA VersionsStayOK ==
  ASSUME NEW p, VersionsOK(p), AppStep(p) \/ \E ev, time : ChatStep(p, ev, time)
  PROVE  VersionsOK(p)'
  <1>1. CASE Ordinary(p)
    BY <1>1, VersionsStay
  <1>2. ASSUME NEW v, history'[p] = Append(history[p], v), DOMAIN v = VersionColumns, part'[p].note # None
        PROVE  /\ VersionsOK(p)'
               /\ \A i \in DOMAIN history[p] : i \in DOMAIN history'[p] /\ history'[p][i] = history[p][i]
               /\ \E i \in DOMAIN history'[p] : history'[p][i] = v
    BY <1>2, VersionIsAdded
  <1>3. CASE \E ev, time : Heard(p, ev, time)
    <2>1. PICK ev, time : Heard(p, ev, time)
      BY <1>3
    <2>2. PICK t : history'[p] = Append(history[p], Version(t, "chat", time, Applied(p, time), None))
      BY <2>1 DEF Heard
    <2>3. part'[p].note # None
      BY <2>1 DEF Heard
    <2> QED
      BY <2>2, <2>3, <1>2 DEF Version, VersionColumns
  <1> QED
    BY <1>1, <1>3 DEF AppStep, ChatStep, Ordinary

-----------------------------------------------------------------------------
PlacesInMessage == \A p \in Parts : part[p].source # None => part[p].source.index \in Nat

(* The first of the parts of a message is one of them.                     *)
LEMMA FirstOfThem ==
  ASSUME NEW ps, ps # {}, \A p \in ps : part[p].source.index \in Nat
  PROVE  FirstOf(ps) \in ps
  <1> DEFINE S == {part[p].source.index : p \in ps}
  <1>1. S \subseteq Nat /\ S # {}
    OBVIOUS
  <1>2. PICK m \in S : \A k \in S : m <= k
    <2> HIDE DEF S
    <2> QED
      BY <1>1, LeastNumber
  <1>3. PICK p \in ps : m = part[p].source.index
    BY <1>2
  <1>4. \A q \in ps : part[p].source.index <= part[q].source.index
    BY <1>2, <1>3
  <1> QED
    BY <1>4 DEF FirstOf

(* What grouping names is a note that is there, or none.                   *)
LEMMA DecisionIsNote ==
  ASSUME NotesOfParts, SourcesKnown, PlacesInMessage, NEW ev \in Events, NEW time, NEW d \in Decide(ev, time)
  PROVE  d.note = None \/ (d.note \in Notes /\ GetNote(d.note))
  <1>1. New.note = None
    BY DEF New
  <1>2. ASSUME NEW p \in Parts, part[p].source # None PROVE part[p].note \in Notes /\ GetNote(part[p].note)
    BY <1>2 DEF SourcesKnown, NotesOfParts
  <1>3. CASE Known(ev) # {}
    <2> DEFINE i == CHOOSE k \in Known(ev) : \A j \in Known(ev) : k <= j
    <2> DEFINE ps == PartsBySourceMessage(ev.related[i].message, FALSE)
    <2> DEFINE n == part[FirstOf(ps)].note
    <2>1. d = IF note[n].state = "active" THEN [note |-> n, reason |-> ev.related[i].reason] ELSE New
      BY <1>3 DEF Decide
    <2>2. i \in Known(ev)
      <3>1. ev.related \in Seq(Relations)
        BY DEF Events
      <3>2. Known(ev) \subseteq Nat
        <4>1. DOMAIN ev.related \subseteq Nat
          BY <3>1
        <4>2. Known(ev) \subseteq DOMAIN ev.related
          BY Zenon DEF Known
        <4> QED
          BY <4>1, <4>2
      <3>3. \E k \in Known(ev) : \A j \in Known(ev) : k <= j
        BY <1>3, <3>2, LeastNumber
      <3> QED
        BY <3>3
    <2>3. ps # {}
      BY <2>2 DEF Known
    <2>4. \A p \in ps : p \in Parts /\ part[p].source # None /\ part[p].source.index \in Nat
      BY DEF PartsBySourceMessage, PlacesInMessage
    <2>5. FirstOf(ps) \in ps
      <3> HIDE DEF ps
      <3> QED
        BY <2>3, <2>4, FirstOfThem
    <2>6. n \in Notes /\ GetNote(n)
      BY <1>2, <2>4, <2>5
    <2> HIDE DEF i, ps, n
    <2> QED
      BY <1>1, <2>1, <2>6
  <1>4. CASE Known(ev) = {}
    <2> DEFINE recent == SenderRecentNote(ev.sender)
    <2>1. d = New \/ \E p \in recent : d = [note |-> part[p].note, reason |-> "media"]
      BY <1>4 DEF Decide
    <2>2. \A p \in recent : p \in Parts /\ part[p].source # None
      BY DEF SenderRecentNote
    <2> HIDE DEF recent
    <2>3. CASE d = New
      BY <1>1, <2>3
    <2>4. CASE \E p \in recent : d = [note |-> part[p].note, reason |-> "media"]
      <3>1. PICK p \in recent : d = [note |-> part[p].note, reason |-> "media"]
        BY <2>4
      <3>2. d.note = part[p].note
        BY <3>1
      <3> QED
        BY <1>2, <2>2, <3>2
    <2> QED
      BY <2>1, <2>3, <2>4
  <1> QED
    BY <1>3, <1>4


(* What the chat does to texts and notes.  A message.                      *)
LEMMA MessageTexts ==
  ASSUME NotesInv, NotesOfParts, HistoryTable, NEW ev \in Events, NEW time, NEW d, NEW command,
         InsertMessage(ev, time, d, command), d.note = None \/ (d.note \in Notes /\ GetNote(d.note))
  PROVE  DOMAIN history' = Parts /\ (\A p \in Parts : ChatStep(p, ev, time)) /\ NotesOfParts'
  <1> DEFINE ins == [i \in DOMAIN ev.parts |-> ChatInput(ev, i, d.reason, command)]
  <1>1. PICK n \in IF d.note = None THEN {m \in Notes : ~ GetNote(m)} ELSE {d.note},
             ids \in FreshParts(Len(ev.parts)) :
               /\ \E first : InsertParts(n, ids, ins, first, "chat", time)
               /\ note' = IF d.note = None THEN InsertNote(note, n, time) ELSE note
    BY DEF InsertMessage
  <1>2. PICK first : InsertParts(n, ids, ins, first, "chat", time)
    BY <1>1
  <1>3. DOMAIN ev.parts = 1 .. Len(ev.parts)
    BY DEF Events
  <1>4. /\ DOMAIN ids = DOMAIN ev.parts
        /\ \A i \in DOMAIN ids : ids[i] \in Parts /\ part[ids[i]].note = None
        /\ \A i, j \in DOMAIN ids : ids[i] = ids[j] => i = j
    BY <1>3 DEF FreshParts, FreeParts
  <1>5. \A i \in DOMAIN ids : ins[i].source = SourceOf(ev, i, command)
    <2>1. ASSUME NEW i \in DOMAIN ev.parts PROVE ChatInput(ev, i, d.reason, command).source = SourceOf(ev, i, command)
      <3>1. CASE ev.parts[i].kind = "text"
        BY <3>1 DEF ChatInput, SourceOf, TextInput
      <3>2. CASE ev.parts[i].kind = "attachment" /\ Linked(ev, i)
        BY <3>2 DEF ChatInput, SourceOf, FileInput
      <3>3. CASE ev.parts[i].kind # "text" /\ ~ (ev.parts[i].kind = "attachment" /\ Linked(ev, i))
        BY <3>3 DEF ChatInput, SourceOf, FileInput
      <3> QED
        BY <3>1, <3>2, <3>3
    <2> QED
      BY <1>4, <2>1
  <1>6. n \in Notes /\ n # None
    BY <1>1, NotesAssumption
  <1>7. PartTable /\ NoteTable /\ DOMAIN history = Parts
    BY DEF NotesInv, Tables, HistoryTable
  <1> HIDE DEF ins
  <1>8. /\ DOMAIN history' = Parts
        /\ \A i \in DOMAIN ids : Begun(ids[i], time) /\ part'[ids[i]].source = ins[i].source
        /\ \A p \in Parts : (\A i \in DOMAIN ids : ids[i] # p) => part'[p] = part[p] /\ history'[p] = history[p]
    BY <1>2, <1>4, <1>6, <1>7, InsertBegins
  <1>9. ASSUME NEW p \in Parts PROVE ChatStep(p, ev, time)
    <2>1. CASE \E i \in DOMAIN ids : ids[i] = p
      <3>1. \A i : SourceOf(ev, i, command).message = ev.message
        BY DEF SourceOf
      <3> QED
        BY <1>5, <1>8, <2>1, <3>1 DEF ChatStep
    <2>2. CASE \A i \in DOMAIN ids : ids[i] # p
      BY <1>8, <2>2 DEF ChatStep, Still
    <2> QED
      BY <2>1, <2>2
  <1>10. note'[n].state # "absent" /\ \A m \in Notes : m # n => note'[m].state = note[m].state
    <2>1. CASE d.note = None
      <3>1. note' = InsertNoteAt(note, n, None, <<>>, time) /\ DOMAIN note = Notes
        BY <1>1, <1>7, <2>1 DEF InsertNote, NoteTable
      <3> QED
        BY <1>6, <3>1, StatesAfterInsert
    <2>2. CASE d.note # None
      BY <1>1, <2>2 DEF GetNote
    <2> QED
      BY <2>1, <2>2
  <1>11. NotesOfParts'
    BY <1>2, <1>4, <1>6, <1>7, <1>10, InsertedInto
  <1> QED
    BY <1>8, <1>9, <1>11

(* An edit.                                                                *)
LEMMA EditTexts ==
  ASSUME PartTable, HistoryTable, SourcesKnown, NEW ev, NEW time, ev.kind = "edited", Edited(ev, time)
  PROVE  DOMAIN history' = Parts /\ \A p \in Parts : ChatStep(p, ev, time)
  <1> DEFINE olds   == {p \in OwnedBy(PartsBySourceMessage(ev.message, FALSE), ev.sender) : part[p].kind = "text"}
  <1> DEFINE place(p) == Cardinality({q \in olds : part[q].source.index <= part[p].source.index})
  <1> DEFINE texts  == {i \in DOMAIN ev.parts : ev.parts[i].kind = "text"}
  <1> DEFINE rank(i) == Cardinality({j \in texts : j <= i})
  <1> DEFINE pairs  == {x \in olds \X texts : place(x[1]) = rank(x[2])}
  <1> DEFINE text(p) == ev.parts[(CHOOSE x \in pairs : x[1] = p)[2]].text
  <1> DEFINE seen   == {x[1] : x \in pairs}
  <1> DEFINE changed == {p \in seen : Applied(p, time) /\ part[p].text # text(p)}
  <1>1. part' = [p \in Parts |-> IF p \in changed THEN UpdatePartText(part, p, text(p), time)[p] ELSE part[p]]
    BY Zenon DEF Edited
  <1>2. history' = [p \in Parts |->
           IF p \in seen THEN InsertPartVersion(history, p, text(p), "chat", time, Applied(p, time), None)[p]
           ELSE history[p]]
    BY Zenon DEF Edited
  <1>3. \A p \in seen : /\ p \in Parts /\ part[p].kind = "text"
                        /\ part[p].source # None /\ part[p].source.message = ev.message
    <2>1. \A p \in olds : /\ p \in Parts /\ part[p].kind = "text"
                          /\ part[p].source # None /\ part[p].source.message = ev.message
      BY DEF OwnedBy, PartsBySourceMessage
    <2>2. ASSUME NEW p \in seen PROVE p \in olds
      <3> HIDE DEF olds, texts, place, rank
      <3>1. PICK x \in pairs : p = x[1]
        OBVIOUS
      <3> QED
        BY <3>1
    <2> HIDE DEF olds, seen
    <2> QED
      BY <2>1, <2>2
  <1>4. \A p \in Parts : p \in changed <=> (p \in seen /\ Applied(p, time) /\ part[p].text # text(p))
    OBVIOUS
  <1> HIDE DEF olds, place, texts, rank, pairs, text, seen, changed
  <1>5. DOMAIN history = Parts /\ DOMAIN part = Parts /\ \A p \in Parts : DOMAIN part[p] = PartColumns
    BY DEF HistoryTable, PartTable
  <1>6. \A p \in Parts : p \in seen =>
          history'[p] = Append(history[p], Version(text(p), "chat", time, Applied(p, time), None))
    BY <1>2, <1>5, Zenon DEF InsertPartVersion, Version
  <1>7. ASSUME NEW p \in Parts, p \in changed
        PROVE  /\ part'[p].text = text(p) /\ part'[p].edited = time
               /\ part'[p].note = part[p].note /\ part'[p].kind = part[p].kind /\ part'[p].source = part[p].source
    <2> DEFINE r == part[p]
    <2> DEFINE x == part'[p]
    <2> DEFINE t == text(p)
    <2>1. DOMAIN r = PartColumns /\ x = [r EXCEPT !.text = t, !.edited = time]
      BY <1>1, <1>5, <1>7 DEF UpdatePartText
    <2> HIDE DEF r, x, t
    <2>2. x.text = t /\ x.edited = time /\ x.note = r.note /\ x.kind = r.kind /\ x.source = r.source
      BY <2>1 DEF PartColumns
    <2> QED
      BY <2>2 DEF r, x, t
  <1>8. ASSUME NEW p \in Parts, p \notin changed PROVE part'[p] = part[p]
    BY <1>1, <1>8
  <1>9. ASSUME NEW p \in Parts PROVE ChatStep(p, ev, time)
    <2>1. CASE p \notin seen
      <3>1. part'[p] = part[p] /\ history'[p] = history[p]
        BY <1>2, <1>4, <1>8, <2>1
      <3> QED
        BY <3>1 DEF ChatStep, Still
    <2>2. CASE p \in seen
      <3>1. /\ part[p].kind = "text" /\ part[p].source # None /\ part[p].source.message = ev.message
            /\ part[p].note # None
        BY <1>3, <2>2 DEF SourcesKnown
      <3>2. history'[p] = Append(history[p], Version(text(p), "chat", time, Applied(p, time), None))
        BY <1>6, <2>2
      <3>3. /\ part'[p].note = part[p].note /\ part'[p].kind = part[p].kind /\ part'[p].source = part[p].source
            /\ \/ /\ Applied(p, time) /\ part'[p].text = text(p)
                  /\ (part'[p].edited = time \/ (part'[p].edited = part[p].edited /\ text(p) = part[p].text))
               \/ ~ Applied(p, time) /\ part'[p].text = part[p].text /\ part'[p].edited = part[p].edited
        BY <1>4, <1>7, <1>8, <2>2
      <3>4. Heard(p, ev, time)
        BY <3>1, <3>2, <3>3 DEF Heard
      <3> QED
        BY <3>4 DEF ChatStep
    <2> QED
      BY <2>1, <2>2
  <1> QED
    BY <1>2, <1>9

(* A deletion.                                                             *)
LEMMA DeletionTexts ==
  ASSUME NotesInv, NotesOfParts, HistoryTable, NEW ev, NEW time, Deleted(ev)
  PROVE  DOMAIN history' = Parts /\ (\A p \in Parts : ChatStep(p, ev, time)) /\ NotesOfParts'
  <1>1. \/ part' = part /\ history' = history
        \/ \E mine : part' = DeleteNoteParts(mine) /\ history' = DeletePartVersions(mine)
    <2> DEFINE mine == OwnedBy(PartsBySourceMessage(ev.message, FALSE), ev.sender)
    <2> DEFINE n == part[FirstOf(mine)].note
    <2> DEFINE all == AllOf(n, mine)
    <2>1. CASE mine = {}
      BY <2>1, Zenon DEF Deleted, Same
    <2>2. CASE mine # {} /\ all /\ note[n].state = "active"
      BY <2>2 DEF Deleted
    <2>3. CASE mine # {} /\ all /\ note[n].state # "active"
      BY <2>3 DEF Deleted, Same
    <2>4. CASE mine # {} /\ ~ all
      BY <2>4 DEF Deleted
    <2> QED
      BY <2>1, <2>2, <2>3, <2>4
  <1>2. DOMAIN history = Parts /\ NoteTable
    BY DEF HistoryTable, NotesInv, Tables
  <1>3. DOMAIN history' = Parts /\ \A p \in Parts : Gone(p) \/ Still(p)
    <2>1. CASE part' = part /\ history' = history
      BY <1>2, <2>1 DEF Still
    <2> QED
      BY <1>1, <2>1, DeleteIsAStep
  <1>4. \A p \in Parts : part'[p].note = None \/ part'[p].note = part[p].note
    BY <1>1 DEF DeleteNoteParts, NoPart
  <1>5. \A m \in Notes : note'[m].state = "absent" => note[m].state = "absent"
    <2>1. note' = note \/ \E n : note' = DismissNote(n)
      BY DeletedParts DEF Same
    <2> QED
      BY <1>2, <2>1 DEF DismissNote, NoteTable, IsRow, NoteColumns
  <1>6. NotesOfParts'
    BY <1>4, <1>5, StillOfNotes
  <1> QED
    BY <1>3, <1>6 DEF ChatStep

-----------------------------------------------------------------------------
(* The text that is shown is in the history, whatever a step does.         *)
LEMMA TextStep ==
  ASSUME NEW p, VersionsOK(p), TextShown(p), AppStep(p) \/ \E ev, time : ChatStep(p, ev, time)
  PROVE  TextShown(p)' /\ TextKept(p)
  <1>1. CASE Ordinary(p)
    BY <1>1, TextStays
  <1>2. ASSUME NEW v, history'[p] = Append(history[p], v), DOMAIN v = VersionColumns, part'[p].note # None
        PROVE  /\ VersionsOK(p)'
               /\ \A i \in DOMAIN history[p] : i \in DOMAIN history'[p] /\ history'[p][i] = history[p][i]
               /\ \E i \in DOMAIN history'[p] : history'[p][i] = v
    BY <1>2, VersionIsAdded
  <1>3. CASE \E ev, time : Heard(p, ev, time)
    <2>1. PICK ev, time : Heard(p, ev, time)
      BY <1>3
    <2>2. PICK t : /\ history'[p] = Append(history[p], Version(t, "chat", time, Applied(p, time), None))
                   /\ part'[p].text = t \/ part'[p].text = part[p].text
      BY <2>1 DEF Heard
    <2>3. PICK j \in DOMAIN history[p] : history[p][j].text = part[p].text
      BY <2>1 DEF Heard, TextShown, InHistory
    <2>4. \E i \in DOMAIN history'[p] : history'[p][i].text = t
      BY <2>1, <2>2, <1>2 DEF Heard, Version, VersionColumns
    <2>5. \E i \in DOMAIN history'[p] : history'[p][i].text = part[p].text
      BY <2>1, <2>2, <2>3, <1>2 DEF Heard, Version, VersionColumns
    <2> QED
      BY <2>2, <2>4, <2>5 DEF TextShown, InHistory, TextKept
  <1> QED
    BY <1>1, <1>3 DEF AppStep, ChatStep, Ordinary

TextsInv ==
  /\ ChatInv /\ SourcesKnown /\ PlacesInMessage /\ NotesOfParts /\ HistoryTable
  /\ \A p \in Parts : TextShown(p)

(* What a step does to texts, notes and places.                            *)
TextsMove ==
  /\ DOMAIN history' = Parts /\ NotesOfParts' /\ PlacesInMessage'
  /\ \A p \in Parts : AppStep(p) \/ \E ev, time : ChatStep(p, ev, time)

LEMMA PlacesKept ==
  ASSUME PlacesInMessage, KeepsSources
  PROVE  PlacesInMessage'
  BY DEF PlacesInMessage, KeepsSources

LEMMA NothingMoves ==
  ASSUME TextsInv, UNCHANGED <<note, part, history>>
  PROVE  TextsMove
  BY DEF TextsInv, TextsMove, HistoryTable, NotesOfParts, GetNote, PlacesInMessage, AppStep, Still

(* What Core makes of an event.                                            *)
ChatMoves(e) == \A p \in Parts : ChatStep(p, timeline[e], Clamped(timeline[e]))

LEMMA HandleTexts ==
  ASSUME TextsInv, NEW e \in DOMAIN timeline, Handle(e) \/ Refused(e)
  PROVE  TextsMove /\ ChatMoves(e)
  <1>1. CASE Same
    <2>1. TextsMove
      BY <1>1, NothingMoves DEF Same
    <2>2. ChatMoves(e)
      BY <1>1 DEF Same, ChatMoves, ChatStep, Still
    <2> QED
      BY <2>1, <2>2
  <1>2. CASE HandleEvent(e)
    <2> DEFINE ev == timeline[e]
    <2> DEFINE time == Clamped(ev)
    <2>1. ev \in Events
      BY DEF TextsInv, ChatInv
    <2>2. /\ NotesInv /\ PartTable /\ SourcesKnown /\ PlacesInMessage /\ NotesOfParts /\ HistoryTable
      BY DEF TextsInv, ChatInv, NotesInv, Tables
    <2>3. \/ Same
          \/ \E d, command : (d = New \/ d \in Decide(ev, time)) /\ InsertMessage(ev, time, d, command)
          \/ ev.kind = "edited" /\ Edited(ev, time)
          \/ Deleted(ev)
      BY <1>2, EventBecomes
    <2> HIDE DEF ev, time
    <2>4. ASSUME DOMAIN history' = Parts, NotesOfParts', PlacesInMessage', \A p \in Parts : ChatStep(p, ev, time)
          PROVE  TextsMove /\ ChatMoves(e)
      <3>1. TextsMove
        BY <2>4 DEF TextsMove
      <3>2. ChatMoves(e)
        BY <2>4 DEF ChatMoves, ev, time
      <3> QED
        BY <3>1, <3>2
    <2>5. CASE \E d, command : (d = New \/ d \in Decide(ev, time)) /\ InsertMessage(ev, time, d, command)
      <3>1. PICK d, command : (d = New \/ d \in Decide(ev, time)) /\ InsertMessage(ev, time, d, command)
        BY <2>5
      <3>2. d.note = None \/ (d.note \in Notes /\ GetNote(d.note))
        BY <2>1, <2>2, <3>1, DecisionIsNote DEF New
      <3>3. DOMAIN history' = Parts /\ (\A p \in Parts : ChatStep(p, ev, time)) /\ NotesOfParts'
        BY <2>1, <2>2, <3>1, <3>2, MessageTexts
      <3>4. PlacesInMessage'
        <4>0. PICK ids : Makes(ids, ev, command)
          BY <2>1, <2>2, <3>1, MessageParts
        <4>1. /\ \A i \in DOMAIN ids : i \in Nat \ {0} /\ part'[ids[i]].source = SourceOf(ev, i, command)
              /\ \A p \in Parts : (\A i \in DOMAIN ids : ids[i] # p) => part'[p] = part[p]
          BY <4>0 DEF Makes
        <4>2. \A i : SourceOf(ev, i, command).index = i - 1
          BY DEF SourceOf
        <4>3. ASSUME NEW p \in Parts, part'[p].source # None PROVE part'[p].source.index \in Nat
          <5>1. CASE \E i \in DOMAIN ids : ids[i] = p
            BY <4>1, <4>2, <5>1
          <5>2. CASE \A i \in DOMAIN ids : ids[i] # p
            BY <2>2, <4>1, <4>3, <5>2 DEF PlacesInMessage
          <5> QED
            BY <5>1, <5>2
        <4> QED
          BY <4>3 DEF PlacesInMessage
      <3> QED
        BY <2>4, <3>3, <3>4
    <2>6. CASE ev.kind = "edited" /\ Edited(ev, time)
      <3>1. DOMAIN history' = Parts /\ \A p \in Parts : ChatStep(p, ev, time)
        BY <2>2, <2>6, EditTexts
      <3>2. \A p \in Parts : part'[p].note = part[p].note /\ part'[p].source = part[p].source
        BY <2>2, <2>6, EditedParts
      <3>3. note' = note
        BY <2>6, Zenon DEF Edited
      <3>4. NotesOfParts' /\ PlacesInMessage'
        BY <2>2, <3>2, <3>3, StillOfNotes DEF PlacesInMessage
      <3> QED
        BY <2>4, <3>1, <3>4
    <2>7. CASE Deleted(ev)
      <3>1. DOMAIN history' = Parts /\ (\A p \in Parts : ChatStep(p, ev, time)) /\ NotesOfParts'
        BY <2>2, <2>7, DeletionTexts
      <3>2. part' = part \/ \E ps : part' = DeleteNoteParts(ps)
        BY <2>7, DeletedParts DEF Same
      <3>3. KeepsSources
        BY <3>2, DeleteKeepsSources DEF KeepsSources
      <3> QED
        BY <2>2, <2>4, <3>1, <3>3, PlacesKept
    <2> QED
      BY <1>1, <2>3, <2>5, <2>6, <2>7
  <1> QED
    BY <1>1, <1>2 DEF Handle, Refused

LEMMA StepMovesTexts == TextsInv /\ [Next]_chatVars => TextsMove
  <1> SUFFICES ASSUME TextsInv, [Next]_chatVars PROVE TextsMove
    OBVIOUS
  <1>1. CASE App
    <2>1. NotesInv /\ NotesNext /\ HistoryTable /\ NotesOfParts /\ PlacesInMessage
      BY <1>1 DEF App, TextsInv, ChatInv
    <2>2. KeepsSources
      BY <2>1, AppKeepsSources
    <2>3. DOMAIN history' = Parts /\ (\A p \in Parts : AppStep(p)) /\ NotesOfParts' /\ PlacesInMessage'
      BY <2>1, <2>2, AppTexts, AppNotes, PlacesKept
    <2> QED
      BY <2>3 DEF TextsMove
  <1>2. CASE BotPost
    <2>1. next \in DOMAIN timeline
      BY <1>2 DEF BotPost, TextsInv, ChatInv
    <2> QED
      BY <1>2, <2>1, HandleTexts DEF BotPost
  <1>3. CASE PostMessage \/ PostCommand \/ EditMessage \/ DeleteMessage
    <2>1. UNCHANGED <<note, part, history>>
      BY <1>3 DEF PostMessage, PostCommand, EditMessage, DeleteMessage, Happens, vars, noteVars
    <2> QED
      BY <2>1, NothingMoves
  <1>4. CASE BotUpload \/ BotCrash \/ (Tick /\ UNCHANGED <<botVars, answered, appOps>>) \/ UNCHANGED chatVars
    <2>1. UNCHANGED <<note, part, history>>
      BY <1>4 DEF BotUpload, BotCrash, Upload, Tick, chatVars, vars, noteVars
    <2> QED
      BY <2>1, NothingMoves
  <1> QED
    BY <1>1, <1>2, <1>3, <1>4 DEF Next

(* The action of OverwrittenTextIsKept.                                    *)
Kept ==
  \A p \in Parts :
    part[p].note # None /\ part'[p].note # None /\ part'[p].text # part[p].text =>
      \/ \E i \in DOMAIN History(part[p].note)[p]' : History(part[p].note)[p][i].text' = part[p].text
      \/ /\ \E s \in Sessions : EditPart(part[p].note, p, part'[p].text, s)
         /\ \A s \in Sessions : EditPart(part[p].note, p, part'[p].text, s) => WroteJustNow(p, s)

LEMMA StepKeepsTexts == TextsInv /\ [Next]_chatVars => TextsInv' /\ Kept
  <1> SUFFICES ASSUME TextsInv, [Next]_chatVars PROVE TextsInv' /\ Kept
    OBVIOUS
  <1>1. ChatInv' /\ SourcesKnown'
    BY StepKeeps, StepIsFresh DEF TextsInv
  <1>2. TextsMove
    BY StepMovesTexts
  <1>3. ASSUME NEW p \in Parts PROVE VersionsOK(p)' /\ TextShown(p)' /\ TextKept(p)
    <2>1. VersionsOK(p) /\ TextShown(p)
      BY DEF TextsInv, HistoryTable
    <2>2. AppStep(p) \/ \E ev, time : ChatStep(p, ev, time)
      BY <1>2 DEF TextsMove
    <2> QED
      BY <2>1, <2>2, VersionsStayOK, TextStep
  <1>4. HistoryTable'
    BY <1>2, <1>3 DEF HistoryTable, TextsMove
  <1>5. TextsInv'
    BY <1>1, <1>2, <1>3, <1>4 DEF TextsInv, TextsMove
  <1>6. ASSUME NEW p \in Parts, part[p].note # None, part'[p].note # None, part'[p].text # part[p].text
        PROVE  \/ \E i \in DOMAIN History(part[p].note)[p]' : History(part[p].note)[p][i].text' = part[p].text
               \/ /\ \E s \in Sessions : EditPart(part[p].note, p, part'[p].text, s)
                  /\ \A s \in Sessions : EditPart(part[p].note, p, part'[p].text, s) => WroteJustNow(p, s)
    <2>1. part'[p].note \in Notes /\ GetNote(part[p].note)'
      BY <1>2, <1>6 DEF TextsMove, NotesOfParts
    <2>2. History(part[p].note)[p]' = history'[p]
      BY <2>1 DEF History, PartsOf
    <2>3. CASE \E i \in DOMAIN history'[p] : history'[p][i].text = part[p].text
      BY <2>2, <2>3
    <2>4. CASE ~ \E i \in DOMAIN history'[p] : history'[p][i].text = part[p].text
      <3>1. InApp(p)
        BY <1>3, <1>6, <2>4 DEF TextKept
      <3>2. HistoryTable /\ TextShown(p)
        BY DEF TextsInv
      <3>3. ASSUME NEW s \in Sessions, EditPart(part[p].note, p, part'[p].text, s) PROVE WroteJustNow(p, s)
        BY <1>6, <2>4, <3>2, <3>3, EditKeepsTexts
      <3> QED
        BY <3>1, <3>3 DEF InApp
    <2> QED
      BY <2>3, <2>4
  <1>7. Kept
    BY <1>6 DEF Kept
  <1> QED
    BY <1>5, <1>7

LEMMA TextsBegin == Init => TextsInv
  <1> SUFFICES ASSUME Init PROVE TextsInv
    OBVIOUS
  <1>1. /\ DOMAIN history = Parts /\ \A p \in Parts : history[p] = <<>> /\ part[p] = NoPart
    BY DEF Init
  <1>2. NoPart.note = None /\ NoPart.source = None
    BY DEF NoPart
  <1>3. IsSeq(<<>>) /\ DOMAIN <<>> = {}
    BY DEF IsSeq
  <1>4. HistoryTable
    BY <1>1, <1>3 DEF HistoryTable, VersionsOK
  <1>5. SourcesKnown /\ PlacesInMessage /\ NotesOfParts /\ \A p \in Parts : TextShown(p)
    BY <1>1, <1>2 DEF SourcesKnown, PlacesInMessage, NotesOfParts, TextShown
  <1> QED
    BY <1>4, <1>5, ChatInit DEF TextsInv

(* An edit, in the app or in the chat, that puts another text in the place *)
(* of one a user saw leaves that one in the note's history, for any number *)
(* of notes, parts, texts, sessions and edits in any order; only what the  *)
(* same session wrote moments before is forgotten.                         *)
THEOREM TextsAreKept == Spec => OverwrittenTextIsKept
  <1>1. Init => TextsInv
    BY TextsBegin
  <1>2. TextsInv /\ [Next]_chatVars => TextsInv' /\ [Kept]_vars
    BY StepKeepsTexts
  <1>3. OverwrittenTextIsKept <=> [][Kept]_vars
    BY DEF OverwrittenTextIsKept, Kept
  <1> HIDE DEF TextsInv, Kept
  <1> QED
    BY <1>1, <1>2, <1>3, PTL DEF Spec
-----------------------------------------------------------------------------
(* The edits of a part, from the app and from the chat, and which of them  *)
(* is shown.  The bot answers for edits in the order they were made, so    *)
(* one that still waits is no older than what the chat has put in a part,  *)
(* but for the time a clock may be ahead; what the app has put there is no *)
(* newer than the part's last edit and than now.                           *)
Waiting == {e \in DOMAIN timeline : timeline[e].kind = "edited" /\ e \notin answered}

InTime ==
  /\ next <= Len(timeline) + 1
  /\ \A i \in DOMAIN timeline : timeline[i].time <= now + Ahead
  /\ \A i, j \in DOMAIN timeline : i <= j => timeline[i].time <= timeline[j].time + Ahead
  /\ \A i \in DOMAIN timeline : i < next /\ timeline[i].kind = "edited" => i \in answered

Dated(p) ==
  /\ \A i \in DOMAIN history[p] : history[p][i].edited \in 0 .. now + Ahead
  /\ part[p].edited = None \/ part[p].edited \in 0 .. now + Ahead

WaitingIsNewer(p) ==
  part[p].source # None =>
    \A i \in DOMAIN history[p], e \in Waiting :
      \/ part[p].edited # None /\ history[p][i].edited <= part[p].edited /\ history[p][i].edited <= now
      \/ history[p][i].edited <= timeline[e].time + Ahead

LatestShown(p) ==
  part[p].kind = "text" =>
    \E i \in DOMAIN history[p] :
      /\ history[p][i].text = part[p].text
      /\ \A j \in DOMAIN history[p] : history[p][j].edited <= history[p][i].edited + Ahead
      /\ part[p].edited = None \/ part[p].edited <= history[p][i].edited

EditsOK(p) == part[p].note # None => Dated(p) /\ WaitingIsNewer(p) /\ LatestShown(p)

EditsInv == TextsInv /\ InTime /\ \A p \in Parts : EditsOK(p)

(* A step that leaves the part alone: an edit may begin to wait, then it   *)
(* is made now.                                                            *)
LEMMA EditsStay ==
  ASSUME NEW p, EditsOK(p), now \in Nat, now' \in Nat, now <= now',
         part'[p].note # None => Still(p) /\ part[p].note # None,
         \A e \in Waiting' : (e \in Waiting /\ timeline'[e].time = timeline[e].time) \/ timeline'[e].time \in {t \in Nat : now <= t}
  PROVE  EditsOK(p)'
  <1> SUFFICES ASSUME part'[p].note # None PROVE Dated(p)' /\ WaitingIsNewer(p)' /\ LatestShown(p)'
    BY DEF EditsOK
  <1>1. /\ history'[p] = history[p] /\ part'[p].edited = part[p].edited /\ part'[p].source = part[p].source
        /\ part'[p].kind = part[p].kind /\ part'[p].text = part[p].text
        /\ Dated(p) /\ WaitingIsNewer(p) /\ LatestShown(p)
    BY DEF Still, EditsOK
  <1>0. Ahead \in Nat
    BY ChatAssumption
  <1>2. Dated(p)'
    <2>1. \A x : x \in 0 .. now + Ahead => x \in 0 .. now' + Ahead
      BY <1>0
    <2> QED
      BY <1>1, <2>1 DEF Dated
  <1>3. LatestShown(p)'
    BY <1>1 DEF LatestShown
  <1>4. ASSUME part[p].source # None, NEW i \in DOMAIN history[p], NEW e \in Waiting'
        PROVE  \/ part[p].edited # None /\ history[p][i].edited <= part[p].edited /\ history[p][i].edited <= now'
               \/ history[p][i].edited <= timeline'[e].time + Ahead
    <2>0. history[p][i].edited \in 0 .. now + Ahead
      BY <1>1 DEF Dated
    <2>1. CASE e \in Waiting /\ timeline'[e].time = timeline[e].time
      <3>1. \/ part[p].edited # None /\ history[p][i].edited <= part[p].edited /\ history[p][i].edited <= now
            \/ history[p][i].edited <= timeline'[e].time + Ahead
        BY <1>1, <1>4, <2>1 DEF WaitingIsNewer
      <3>2. history[p][i].edited <= now => history[p][i].edited <= now'
        BY <1>0, <2>0
      <3> QED
        BY <3>1, <3>2
    <2>2. CASE timeline'[e].time \in {t \in Nat : now <= t}
      <3>1. history[p][i].edited \in 0 .. now + Ahead
        BY <1>1 DEF Dated
      <3>2. \A x \in 0 .. now + Ahead, t \in Nat : now <= t => x <= t + Ahead
        BY <1>0
      <3> QED
        BY <2>2, <3>1, <3>2
    <2> QED
      BY <2>1, <2>2
  <1>5. WaitingIsNewer(p)'
    BY <1>1, <1>4 DEF WaitingIsNewer
  <1> QED
    BY <1>2, <1>3, <1>5

(* A part that begins has at most one version.                             *)
LEMMA BeginningHistory ==
  ASSUME NEW p, NEW time, VersionsOK(p), Begun(p, time)
  PROVE  /\ \A i \in DOMAIN history'[p] : history'[p][i].edited = time
         /\ part'[p].kind = "text" => \E i \in DOMAIN history'[p] : history'[p][i].text = part'[p].text
         /\ part'[p].edited = None
  <1>1. history[p] = <<>> /\ Len(history[p]) = 0 /\ part'[p].edited = None
    BY DEF VersionsOK, Begun
  <1>2. CASE part'[p].kind = "text"
    <2>1. PICK origin : history'[p] = Append(history[p], Version(part'[p].text, origin, time, TRUE, None))
      BY <1>2 DEF Begun
    <2>2. DOMAIN history'[p] = {1} /\ history'[p][1] = Version(part'[p].text, origin, time, TRUE, None)
      <3>1. IsSeq(history[p])
        BY DEF VersionsOK
      <3>2. /\ DOMAIN history'[p] = 1 .. 0 + 1
            /\ history'[p][0 + 1] = Version(part'[p].text, origin, time, TRUE, None)
        BY <1>1, <2>1, <3>1, Appended
      <3>3. 0 + 1 = 1 /\ 1 .. 0 + 1 = {1}
        OBVIOUS
      <3> QED
        BY <3>2, <3>3, Zenon
    <2>3. history'[p][1].edited = time /\ history'[p][1].text = part'[p].text
      BY <2>2 DEF Version
    <2> QED
      BY <1>1, <2>2, <2>3
  <1>3. CASE part'[p].kind # "text"
    <2>1. history'[p] = <<>>
      BY <1>1, <1>3 DEF Begun
    <2> QED
      BY <1>1, <1>3, <2>1
  <1> QED
    BY <1>2, <1>3

LEMMA EditsBegin ==
  ASSUME NEW p, NEW time \in 0 .. now + Ahead, now \in Nat, now' = now, VersionsOK(p), Begun(p, time),
         part'[p].source # None => \A e \in Waiting' : time <= timeline'[e].time + Ahead
  PROVE  EditsOK(p)'
  <1>0. Ahead \in Nat /\ time <= time + Ahead
    BY ChatAssumption
  <1>1. /\ \A i \in DOMAIN history'[p] : history'[p][i].edited = time
        /\ part'[p].kind = "text" => \E i \in DOMAIN history'[p] : history'[p][i].text = part'[p].text
        /\ part'[p].edited = None
    BY BeginningHistory
  <1>2. Dated(p)'
    BY <1>1 DEF Dated
  <1>3. WaitingIsNewer(p)'
    BY <1>1 DEF WaitingIsNewer
  <1>4. LatestShown(p)'
    BY <1>0, <1>1 DEF LatestShown
  <1> QED
    BY <1>2, <1>3, <1>4 DEF EditsOK

(* All versions but one are from before.                                   *)
NewVersion(p, n) ==
  /\ n \in DOMAIN history'[p]
  /\ \A k \in DOMAIN history'[p] :
       k # n => k \in DOMAIN history[p] /\ history'[p][k].edited = history[p][k].edited

LEMMA VersionAppended ==
  ASSUME NEW p, NEW v, VersionsOK(p), history'[p] = Append(history[p], v)
  PROVE  \E n : NewVersion(p, n) /\ history'[p][n] = v
  <1> DEFINE n == Len(history[p]) + 1
  <1>1. /\ DOMAIN history[p] = 1 .. Len(history[p]) /\ Len(history[p]) \in Nat
        /\ DOMAIN history'[p] = 1 .. Len(history[p]) + 1
        /\ \A i \in DOMAIN history[p] : history'[p][i] = history[p][i]
        /\ history'[p][n] = v
    BY Appended DEF VersionsOK
  <1>2. n \in DOMAIN history'[p] /\ \A k \in DOMAIN history'[p] : k # n => k \in DOMAIN history[p]
    BY <1>1
  <1> HIDE DEF n
  <1>3. NewVersion(p, n)
    BY <1>1, <1>2 DEF NewVersion
  <1> QED
    BY <1>1, <1>3

(* A user edits the text in the app: the edit is made now, and every       *)
(* version is from before.                                                 *)
LEMMA EditsInApp ==
  ASSUME NEW p, now \in Nat, now' = now, VersionsOK(p), EditsOK(p), Rewritten(p),
         \A e \in Waiting' : e \in Waiting /\ timeline'[e].time = timeline[e].time
  PROVE  EditsOK(p)'
  <1>0. Ahead \in Nat /\ now \in 0 .. now + Ahead
    BY ChatAssumption
  <1>1. /\ Dated(p) /\ WaitingIsNewer(p) /\ part'[p].edited = now /\ part'[p].note # None
        /\ part'[p].source = part[p].source
        /\ \A i \in DOMAIN history[p] : history[p][i].edited \in 0 .. now + Ahead
    BY DEF Rewritten, EditsOK, Dated
  <1>2. PICK n : NewVersion(p, n) /\ history'[p][n].text = part'[p].text /\ history'[p][n].edited = now
    <2>1. ASSUME NEW s, history'[p] = Append(history[p], Version(part'[p].text, "app", now, TRUE, s))
          PROVE  \E n : NewVersion(p, n) /\ history'[p][n].text = part'[p].text /\ history'[p][n].edited = now
      <3>1. PICK n : NewVersion(p, n) /\ history'[p][n] = Version(part'[p].text, "app", now, TRUE, s)
        BY <2>1, VersionAppended
      <3>2. history'[p][n].text = part'[p].text /\ history'[p][n].edited = now
        BY <3>1 DEF Version
      <3> QED
        BY <3>1, <3>2
    <2>2. ASSUME NEW i \in DOMAIN history[p],
                 history'[p] = [history[p] EXCEPT ![i].text = part'[p].text, ![i].edited = now, ![i].recorded = now]
          PROVE  \E n : NewVersion(p, n) /\ history'[p][n].text = part'[p].text /\ history'[p][n].edited = now
      <3>1. /\ DOMAIN history'[p] = DOMAIN history[p]
            /\ history'[p][i].text = part'[p].text /\ history'[p][i].edited = now
            /\ \A j \in DOMAIN history[p] : j # i => history'[p][j] = history[p][j]
        BY <2>2, Overwritten
      <3>2. NewVersion(p, i)
        BY <3>1 DEF NewVersion
      <3> QED
        BY <3>1, <3>2
    <2> QED
      BY <2>1, <2>2 DEF Rewritten
  <1>3. \A i \in DOMAIN history'[p] : history'[p][i].edited \in 0 .. now + Ahead
    <2> SUFFICES ASSUME NEW i \in DOMAIN history'[p] PROVE history'[p][i].edited \in 0 .. now + Ahead
      OBVIOUS
    <2>1. CASE i = n
      BY <1>0, <1>2, <2>1
    <2>2. CASE i # n
      BY <1>1, <1>2, <2>2 DEF NewVersion
    <2> QED
      BY <2>1, <2>2
  <1>4. Dated(p)'
    <2>1. part'[p].edited \in 0 .. now + Ahead
      BY <1>0, <1>1
    <2> QED
      BY <1>3, <2>1 DEF Dated
  <1>5. WaitingIsNewer(p)'
    <2>0. now # None
      BY NotesAssumption
    <2> SUFFICES ASSUME part[p].source # None, NEW k \in DOMAIN history'[p], NEW e \in Waiting'
                 PROVE  \/ history'[p][k].edited <= now
                        \/ history'[p][k].edited <= timeline'[e].time + Ahead
      BY <1>1, <2>0 DEF WaitingIsNewer
    <2>1. CASE k = n
      BY <1>2, <2>1
    <2>2. CASE k # n
      <3>1. k \in DOMAIN history[p] /\ history'[p][k].edited = history[p][k].edited
        BY <1>2, <2>2 DEF NewVersion
      <3>2. e \in Waiting /\ timeline'[e].time = timeline[e].time
        OBVIOUS
      <3> QED
        BY <1>1, <3>1, <3>2 DEF WaitingIsNewer
    <2> QED
      BY <2>1, <2>2
  <1>6. LatestShown(p)'
    <2>1. n \in DOMAIN history'[p] /\ history'[p][n].text = part'[p].text
      BY <1>2 DEF NewVersion
    <2>2. /\ \A j \in DOMAIN history'[p] : history'[p][j].edited <= history'[p][n].edited + Ahead
          /\ part'[p].edited <= history'[p][n].edited
      BY <1>1, <1>2, <1>3
    <2> QED
      BY <2>1, <2>2 DEF LatestShown
  <1> QED
    BY <1>4, <1>5, <1>6 DEF EditsOK

(* The answer to an edit in the chat: the part's last edit is newer, or    *)
(* this one is newer than all versions.                                    *)
LEMMA EditsHeard ==
  ASSUME NEW p, now \in Nat, now' = now, VersionsOK(p), EditsOK(p), NEW e \in Waiting, NEW time \in 0 .. now + Ahead,
         time = timeline[e].time \/ time = now, Heard(p, timeline[e], time),
         \A w \in Waiting' : w \in Waiting /\ timeline'[w].time = timeline[w].time
                             /\ timeline[w].time \in Nat /\ time <= timeline[w].time + Ahead
  PROVE  EditsOK(p)'
  <1>0. Ahead \in Nat /\ now + Ahead \in Nat
    BY ChatAssumption
  <1>1. /\ part[p].note # None /\ part'[p].note # None /\ part[p].kind = "text" /\ part'[p].kind = "text"
        /\ part[p].source # None /\ part'[p].source = part[p].source
        /\ Dated(p) /\ WaitingIsNewer(p) /\ LatestShown(p)
    BY DEF Heard, EditsOK
  <1>2. PICK t : /\ history'[p] = Append(history[p], Version(t, "chat", time, Applied(p, time), None))
                 /\ \/ Applied(p, time) /\ part'[p].text = t
                       /\ (part'[p].edited = time \/ (part'[p].edited = part[p].edited /\ t = part[p].text))
                    \/ ~ Applied(p, time) /\ part'[p].text = part[p].text /\ part'[p].edited = part[p].edited
    BY DEF Heard
  <1>3. PICK n : NewVersion(p, n) /\ history'[p][n].text = t /\ history'[p][n].edited = time
    <2> DEFINE v == Version(t, "chat", time, Applied(p, time), None)
    <2>0. history'[p] = Append(history[p], v)
      BY <1>2
    <2> HIDE DEF v
    <2>1. PICK n : NewVersion(p, n) /\ history'[p][n] = v
      BY <2>0, VersionAppended
    <2>2. history'[p][n].text = t /\ history'[p][n].edited = time
      BY <2>1 DEF v, Version
    <2> QED
      BY <2>1, <2>2
  <1>4. /\ part[p].edited = None \/ part[p].edited \in 0 .. now + Ahead
        /\ \A k \in DOMAIN history[p] : history[p][k].edited \in 0 .. now + Ahead
        /\ None \notin Nat
    BY <1>1, NotesAssumption DEF Dated
  <1>5. \A k \in DOMAIN history[p] :
          \/ part[p].edited # None /\ history[p][k].edited <= part[p].edited
          \/ history[p][k].edited <= time + Ahead
    <2> SUFFICES ASSUME NEW k \in DOMAIN history[p]
                 PROVE  \/ part[p].edited # None /\ history[p][k].edited <= part[p].edited
                        \/ history[p][k].edited <= time + Ahead
      OBVIOUS
    <2>1. CASE time = timeline[e].time
      BY <1>1, <2>1 DEF WaitingIsNewer
    <2>2. CASE time = now
      BY <1>0, <1>4, <2>2
    <2> QED
      BY <2>1, <2>2
  <1>6. \A k \in DOMAIN history'[p] :
          k # n => k \in DOMAIN history[p] /\ history'[p][k].edited = history[p][k].edited
    BY <1>3 DEF NewVersion
  <1>7. Dated(p)'
    <2>1. ASSUME NEW k \in DOMAIN history'[p] PROVE history'[p][k].edited \in 0 .. now + Ahead
      <3>1. CASE k = n
        BY <1>3, <3>1
      <3>2. CASE k # n
        BY <1>4, <1>6, <3>2
      <3> QED
        BY <3>1, <3>2
    <2>2. part'[p].edited = None \/ part'[p].edited \in 0 .. now + Ahead
      BY <1>2, <1>4
    <2> QED
      BY <2>1, <2>2 DEF Dated
  <1>8. \/ Applied(p, time) /\ part'[p].edited = time
        \/ part'[p].edited = part[p].edited
    BY <1>2
  <1>9. WaitingIsNewer(p)'
    <2> SUFFICES ASSUME NEW k \in DOMAIN history'[p], NEW w \in Waiting'
                 PROVE  \/ /\ part'[p].edited # None /\ history'[p][k].edited <= part'[p].edited
                           /\ history'[p][k].edited <= now
                        \/ history'[p][k].edited <= timeline'[w].time + Ahead
      BY DEF WaitingIsNewer
    <2>1. w \in Waiting /\ timeline'[w].time = timeline[w].time /\ time <= timeline'[w].time + Ahead
      OBVIOUS
    <2>2. CASE k = n
      BY <1>3, <2>1, <2>2
    <2>3. CASE k # n
      <3>1. /\ k \in DOMAIN history[p] /\ history'[p][k].edited = history[p][k].edited
            /\ history[p][k].edited \in 0 .. now + Ahead
        BY <1>4, <1>6, <2>3
      <3>2. CASE history[p][k].edited <= timeline[w].time + Ahead
        BY <2>1, <3>1, <3>2
      <3>3. CASE part[p].edited # None /\ history[p][k].edited <= part[p].edited /\ history[p][k].edited <= now
        <4>1. CASE part'[p].edited = part[p].edited
          BY <3>1, <3>3, <4>1
        <4>2. CASE Applied(p, time) /\ part'[p].edited = time
          <5>1. part[p].edited < time /\ part[p].edited \in 0 .. now + Ahead
            BY <1>4, <3>3, <4>2 DEF Applied
          <5>2. history[p][k].edited <= time
            BY <1>0, <3>1, <3>3, <5>1
          <5>3. time # None
            BY <1>4
          <5> QED
            BY <3>1, <3>3, <4>2, <5>2, <5>3
        <4> QED
          BY <1>8, <4>1, <4>2
      <3>4. \/ part[p].edited # None /\ history[p][k].edited <= part[p].edited /\ history[p][k].edited <= now
            \/ history[p][k].edited <= timeline[w].time + Ahead
        BY <1>1, <2>1, <3>1 DEF WaitingIsNewer
      <3> QED
        BY <3>2, <3>3, <3>4
    <2> QED
      BY <2>2, <2>3
  <1>10. LatestShown(p)'
    <2>1. CASE Applied(p, time)
      <3>1. \A k \in DOMAIN history'[p] : history'[p][k].edited <= time + Ahead
        <4> SUFFICES ASSUME NEW k \in DOMAIN history'[p] PROVE history'[p][k].edited <= time + Ahead
          OBVIOUS
        <4>1. CASE k = n
          BY <1>0, <1>3, <4>1
        <4>2. CASE k # n
          <5>1. /\ k \in DOMAIN history[p] /\ history'[p][k].edited = history[p][k].edited
                /\ history[p][k].edited \in 0 .. now + Ahead
            BY <1>4, <1>6, <4>2
          <5>2. part[p].edited # None => part[p].edited < time /\ part[p].edited \in 0 .. now + Ahead
            BY <1>4, <2>1 DEF Applied
          <5> QED
            BY <1>0, <1>5, <5>1, <5>2
        <4> QED
          BY <4>1, <4>2
      <3>2. part'[p].edited = None \/ part'[p].edited <= time
        <4>1. part[p].edited # None => part[p].edited < time /\ part[p].edited \in 0 .. now + Ahead
          BY <1>4, <2>1 DEF Applied
        <4> QED
          BY <1>8, <4>1
      <3>3. part'[p].text = t
        BY <1>2, <2>1
      <3>4. n \in DOMAIN history'[p]
        BY <1>3 DEF NewVersion
      <3> QED
        BY <1>3, <3>1, <3>2, <3>3, <3>4 DEF LatestShown
    <2>2. CASE ~ Applied(p, time)
      <3>1. /\ part'[p].text = part[p].text /\ part'[p].edited = part[p].edited
            /\ part[p].edited # None /\ part[p].edited \in 0 .. now + Ahead /\ time <= part[p].edited
        BY <1>2, <1>4, <2>2 DEF Applied
      <3>2. PICK i \in DOMAIN history[p] :
              /\ history[p][i].text = part[p].text
              /\ \A j \in DOMAIN history[p] : history[p][j].edited <= history[p][i].edited + Ahead
              /\ part[p].edited <= history[p][i].edited
        BY <1>1, <3>1 DEF LatestShown
      <3>3. i \in DOMAIN history'[p] /\ history'[p][i] = history[p][i]
        BY <1>2, Appended DEF VersionsOK
      <3>4. \A k \in DOMAIN history'[p] : history'[p][k].edited <= history'[p][i].edited + Ahead
        <4> SUFFICES ASSUME NEW k \in DOMAIN history'[p] PROVE history'[p][k].edited <= history'[p][i].edited + Ahead
          OBVIOUS
        <4>1. CASE k = n
          <5>1. history[p][i].edited \in 0 .. now + Ahead
            BY <1>4
          <5>2. time <= history[p][i].edited + Ahead
            BY <1>0, <3>1, <3>2, <5>1
          <5> QED
            BY <1>3, <3>3, <4>1, <5>2
        <4>2. CASE k # n
          BY <1>6, <3>2, <3>3, <4>2
        <4> QED
          BY <4>1, <4>2
      <3> QED
        BY <3>1, <3>2, <3>3, <3>4 DEF LatestShown
    <2> QED
      BY <2>1, <2>2
  <1> QED
    BY <1>7, <1>9, <1>10 DEF EditsOK

LEMMA EventIsOfNow ==
  ASSUME now \in Nat, PostMessage \/ PostCommand \/ EditMessage \/ DeleteMessage
  PROVE  \E ev : /\ timeline' = Append(timeline, ev) /\ ev.time \in now .. now + Ahead
                 /\ UNCHANGED <<vars, next, answered>>
  <1>0. now \in now .. now + Ahead
    BY ChatAssumption
  <1>1. \E ev : Happens(ev) /\ ev.time \in now .. now + Ahead
    <2>1. CASE PostMessage
      <3>1. PICK s \in Senders, shape \in Shapes, time \in now .. now + Ahead, related \in Answering :
              \E content \in Contents(shape) :
                Happens([kind |-> "created", message |-> Len(timeline) + 1, sender |-> s, time |-> time,
                         parts |-> content, related |-> related])
        BY <2>1 DEF PostMessage
      <3>2. PICK content \in Contents(shape) :
              Happens([kind |-> "created", message |-> Len(timeline) + 1, sender |-> s, time |-> time,
                       parts |-> content, related |-> related])
        BY <3>1
      <3> QED
        BY <3>2
    <2>2. CASE PostCommand
      <3>1. PICK s \in Senders, t \in Texts :
              Happens([kind |-> "remind", message |-> Len(timeline) + 1, sender |-> s, time |-> now,
                       parts |-> <<[kind |-> "text", text |-> t]>>, related |-> <<>>])
        BY <2>2 DEF PostCommand
      <3> QED
        BY <1>0, <3>1
    <2>3. CASE EditMessage
      <3>1. PICK m \in Posted({"created", "remind"}), t \in Texts, time \in now .. now + Ahead :
              Happens([kind |-> "edited", message |-> m, sender |-> timeline[m].sender, time |-> time,
                       parts |-> <<[kind |-> "text", text |-> t]>>, related |-> <<>>])
        BY <2>3 DEF EditMessage
      <3> QED
        BY <3>1
    <2>4. CASE DeleteMessage
      <3>1. PICK m \in Posted({"created", "remind"}) :
              Happens([kind |-> "deleted", message |-> m, sender |-> timeline[m].sender, time |-> now,
                       parts |-> <<>>, related |-> <<>>])
        BY <2>4 DEF DeleteMessage
      <3> QED
        BY <1>0, <3>1
    <2> QED
      BY <2>1, <2>2, <2>3, <2>4
  <1> QED
    BY <1>1 DEF Happens

(* An event of the conversation: it is the newest, and may begin to wait.  *)
LEMMA EventKeepsEdits ==
  ASSUME EditsInv, PostMessage \/ PostCommand \/ EditMessage \/ DeleteMessage
  PROVE  InTime' /\ \A p \in Parts : EditsOK(p)'
  <1>1. now \in Nat /\ timeline \in Seq(Events) /\ InTime /\ next \in Nat /\ Ahead \in Nat
    BY ChatAssumption DEF EditsInv, TextsInv, ChatInv
  <1>2. PICK ev : /\ timeline' = Append(timeline, ev) /\ ev.time \in now .. now + Ahead
                  /\ UNCHANGED <<vars, next, answered>>
    BY <1>1, EventIsOfNow
  <1>3. /\ DOMAIN timeline = 1 .. Len(timeline) /\ Len(timeline) \in Nat
        /\ DOMAIN timeline' = 1 .. Len(timeline) + 1
        /\ \A i \in DOMAIN timeline : timeline'[i] = timeline[i]
        /\ timeline'[Len(timeline) + 1] = ev
    <2>1. IsSeq(timeline)
      <3>1. timeline = [j \in DOMAIN timeline |-> timeline[j]] /\ DOMAIN timeline = 1 .. Len(timeline) /\ Len(timeline) \in Nat
        BY <1>1
      <3> QED
        BY <3>1, SequenceOfItsElements
    <2> QED
      BY <1>2, <2>1, Appended
  <1>4. now' = now /\ note' = note /\ part' = part /\ history' = history
    BY <1>2 DEF vars, noteVars
  <1>5. \A i \in DOMAIN timeline : timeline[i].time \in 0 .. now + Ahead
    <2>1. \A i \in DOMAIN timeline : timeline[i].time \in Nat
      <3>1. \A i \in DOMAIN timeline : timeline[i] \in Events
        BY <1>1
      <3>2. \A x \in Events : x.time \in Nat
        BY DEF Events
      <3> QED
        BY <3>1, <3>2
    <2> QED
      BY <1>1, <2>1 DEF InTime
  <1>6. \A i \in DOMAIN timeline' :
          i \in DOMAIN timeline \/ (i = Len(timeline) + 1 /\ timeline'[i].time \in now .. now + Ahead)
    BY <1>2, <1>3
  <1>7. InTime'
    <2>1. \A i \in DOMAIN timeline' : timeline'[i].time <= now' + Ahead
      <3> SUFFICES ASSUME NEW i \in DOMAIN timeline' PROVE timeline'[i].time <= now + Ahead
        BY <1>4
      <3>1. CASE i \in DOMAIN timeline
        BY <1>1, <1>3, <3>1 DEF InTime
      <3> QED
        BY <1>1, <1>6, <3>1
    <2>2. ASSUME NEW i \in DOMAIN timeline', NEW j \in DOMAIN timeline', i <= j
          PROVE  timeline'[i].time <= timeline'[j].time + Ahead
      <3>1. CASE j = Len(timeline) + 1
        <4>1. timeline'[j].time \in now .. now + Ahead
          BY <1>2, <1>3, <3>1
        <4>2. timeline'[i].time \in 0 .. now + Ahead
          BY <1>1, <1>3, <1>5, <1>6
        <4> QED
          BY <1>1, <4>1, <4>2
      <3>2. CASE j \in DOMAIN timeline
        <4>1. i \in DOMAIN timeline
          BY <1>3, <2>2, <3>2
        <4> QED
          BY <1>1, <1>3, <2>2, <3>2, <4>1 DEF InTime
      <3> QED
        BY <1>6, <3>1, <3>2
    <2>3. next' <= Len(timeline') + 1
      <3>1. Len(timeline') = Len(timeline) + 1
        BY <1>3, <1>2, <1>1
      <3> QED
        BY <1>1, <1>2, <1>3, <3>1 DEF InTime
    <2>4. ASSUME NEW i \in DOMAIN timeline', i < next', timeline'[i].kind = "edited" PROVE i \in answered'
      <3>1. i \in DOMAIN timeline
        BY <1>1, <1>2, <1>3, <2>4 DEF InTime
      <3> QED
        BY <1>1, <1>2, <1>3, <2>4, <3>1 DEF InTime
    <2> QED
      BY <2>1, <2>2, <2>3, <2>4 DEF InTime
  <1>8. \A e \in Waiting' : \/ e \in Waiting /\ timeline'[e].time = timeline[e].time
                            \/ timeline'[e].time \in {t \in Nat : now <= t}
    <2> SUFFICES ASSUME NEW e \in Waiting'
                 PROVE  \/ e \in Waiting /\ timeline'[e].time = timeline[e].time
                        \/ timeline'[e].time \in {t \in Nat : now <= t}
      OBVIOUS
    <2>1. e \in DOMAIN timeline' /\ timeline'[e].kind = "edited" /\ e \notin answered
      BY <1>2 DEF Waiting
    <2>2. CASE e \in DOMAIN timeline
      BY <1>3, <2>1, <2>2 DEF Waiting
    <2>3. CASE timeline'[e].time \in now .. now + Ahead
      BY <1>1, <2>3
    <2> QED
      BY <1>6, <2>1, <2>2, <2>3
  <1>9. ASSUME NEW p \in Parts PROVE EditsOK(p)'
    <2>1. EditsOK(p) /\ Still(p) /\ (part'[p].note # None => part[p].note # None)
      BY <1>4 DEF EditsInv, Still
    <2> QED
      BY <1>1, <1>4, <1>8, <2>1, EditsStay
  <1> QED
    BY <1>7, <1>9
(* The bot posts an event, and an edit waits no longer.                    *)
LEMMA AnswerKeepsEdits ==
  ASSUME EditsInv, BotPost
  PROVE  InTime' /\ \A p \in Parts : EditsOK(p)'
  <1>1. /\ now \in Nat /\ timeline \in Seq(Events) /\ InTime /\ next \in Nat \ {0} /\ TextsInv
        /\ MaxFutureSkew \in Nat /\ Ahead \in Nat
    BY ChatAssumption DEF EditsInv, TextsInv, ChatInv
  <1>2. /\ next \in DOMAIN timeline /\ next <= Len(timeline) /\ Len(timeline) \in Nat
        /\ DOMAIN timeline = 1 .. Len(timeline)
    BY <1>1 DEF BotPost
  <1>3. /\ Handle(next) \/ Refused(next)
        /\ now' = now /\ timeline' = timeline /\ (next' = next + 1 \/ next' = next)
    BY DEF BotPost
  <1>4. \A i \in DOMAIN timeline : timeline[i].time \in 0 .. now + Ahead
    <2>1. \A i \in DOMAIN timeline : timeline[i].time \in Nat
      <3>1. \A i \in DOMAIN timeline : timeline[i] \in Events
        BY <1>1
      <3>2. \A ev \in Events : ev.time \in Nat
        BY DEF Events
      <3> QED
        BY <3>1, <3>2
    <2> QED
      BY <1>1, <2>1 DEF InTime
  <1> DEFINE time == Clamped(timeline[next])
  <1>5. /\ time \in 0 .. now + Ahead /\ time <= timeline[next].time
        /\ time = timeline[next].time \/ time = now
    BY <1>1, <1>2, <1>4 DEF Clamped
  <1> HIDE DEF time
  <1>6. /\ \A e : e \in answered => e \in answered'
        /\ timeline[next].kind = "edited" => next \in answered'
        /\ next \in answered => note' = note /\ part' = part /\ history' = history
    <2>1. CASE Handle(next)
      <3>1. CASE next \in answered
        BY <2>1, <3>1 DEF Handle, Answered, Same
      <3>2. CASE next \notin answered
        <4>1. answered' = answered \cup {next}
          BY <2>1, <3>2, Zenon DEF Handle, Answered, Remember, InsertIngestEvent
        <4> QED
          BY <3>2, <4>1
      <3> QED
        BY <3>1, <3>2
    <2>2. CASE Refused(next)
      BY <2>2 DEF Refused, Answered, Same
    <2> QED
      BY <1>3, <2>1, <2>2
  <1>7. \A e \in Waiting' : e \in Waiting /\ timeline'[e].time = timeline[e].time
    BY <1>3, <1>6 DEF Waiting
  <1>8. \A e \in Waiting' : timeline[e].time \in Nat /\ time <= timeline[e].time + Ahead
    <2> SUFFICES ASSUME NEW e \in Waiting' PROVE timeline[e].time \in Nat /\ time <= timeline[e].time + Ahead
      OBVIOUS
    <2>1. e \in DOMAIN timeline /\ timeline[e].kind = "edited" /\ e \notin answered
      BY <1>7 DEF Waiting
    <2>2. next <= e
      BY <1>1, <1>2, <2>1 DEF InTime
    <2>3. timeline[next].time <= timeline[e].time + Ahead
      BY <1>1, <1>2, <2>1, <2>2 DEF InTime
    <2>4. timeline[e].time \in 0 .. now + Ahead /\ timeline[next].time \in 0 .. now + Ahead
      BY <1>2, <1>4, <2>1
    <2> QED
      BY <1>1, <1>5, <2>3, <2>4
  <1>9. InTime'
    <2>1. next' <= Len(timeline') + 1
      BY <1>1, <1>2, <1>3
    <2>2. ASSUME NEW i \in DOMAIN timeline', i < next', timeline'[i].kind = "edited" PROVE i \in answered'
      <3>1. i \in DOMAIN timeline /\ timeline[i].kind = "edited"
        BY <1>3, <2>2
      <3>2. CASE i = next
        BY <1>6, <3>1, <3>2
      <3>3. CASE i # next
        <4>1. i < next
          BY <1>1, <1>2, <1>3, <2>2, <3>1, <3>3
        <4> QED
          BY <1>1, <1>6, <3>1, <4>1 DEF InTime
      <3> QED
        BY <3>2, <3>3
    <2>3. /\ \A i \in DOMAIN timeline' : timeline'[i].time <= now' + Ahead
          /\ \A i, j \in DOMAIN timeline' : i <= j => timeline'[i].time <= timeline'[j].time + Ahead
      BY <1>1, <1>3 DEF InTime
    <2> QED
      BY <2>1, <2>2, <2>3 DEF InTime
  <1>10. ChatMoves(next)
    BY <1>1, <1>2, <1>3, HandleTexts
  <1>11. ASSUME NEW p \in Parts PROVE EditsOK(p)'
    <2>1. ChatStep(p, timeline[next], time) /\ EditsOK(p) /\ VersionsOK(p)
      BY <1>10 DEF ChatMoves, EditsInv, TextsInv, HistoryTable, time
    <2>2. CASE Gone(p) \/ Still(p)
      <3>1. part'[p].note # None => Still(p) /\ part[p].note # None
        BY <2>2 DEF Gone, Still
      <3> QED
        BY <1>1, <1>3, <1>7, <2>1, <3>1, EditsStay
    <2>3. CASE Begun(p, time)
      <3>1. \A e \in Waiting' : time <= timeline'[e].time + Ahead
        BY <1>7, <1>8
      <3> QED
        BY <1>1, <1>3, <1>5, <2>1, <2>3, <3>1, EditsBegin
    <2>4. CASE Heard(p, timeline[next], time)
      <3>1. CASE next \in answered
        <4>1. Still(p)
          BY <1>6, <3>1 DEF Still
        <4> QED
          BY <2>2, <4>1
      <3>2. CASE next \notin answered
        <4>1. next \in Waiting
          BY <1>2, <2>4, <3>2 DEF Waiting, Heard
        <4>2. \A w \in Waiting' : w \in Waiting /\ timeline'[w].time = timeline[w].time
                                  /\ timeline[w].time \in Nat /\ time <= timeline[w].time + Ahead
          BY <1>7, <1>8
        <4> QED
          BY <1>1, <1>3, <1>5, <2>1, <2>4, <4>1, <4>2, EditsHeard
      <3> QED
        BY <3>1, <3>2
    <2> QED
      BY <2>1, <2>2, <2>3, <2>4 DEF ChatStep
  <1> QED
    BY <1>9, <1>11
(* The app changes parts now, and the conversation stays as it is.         *)
LEMMA AppKeepsEdits ==
  ASSUME EditsInv, App
  PROVE  InTime' /\ \A p \in Parts : EditsOK(p)'
  <1>1. NotesNext /\ now \in Nat /\ InTime /\ NotesInv /\ HistoryTable
    BY DEF App, EditsInv, TextsInv, ChatInv
  <1>2. UNCHANGED <<timeline, next, answered>>
    BY DEF App, botVars
  <1>3. now' = now
    BY <1>1, Zenon DEF NotesNext, CreateNote, MoveNote, DismissANote, RestoreANote, DeleteNotePermanently, EditNotePart,
         AddNotePart, DeleteNotePart, MergeNotes, SplitNotePart, UploadFile, Janitor, Create, Move, Dismiss, Restore,
         DeletePermanently, EditPart, AddPart, RemovePart, Merge, Split, Upload, RemoveUnused
  <1>4. \A p \in Parts : AppStep(p)
    BY <1>1, AppTexts
  <1>5. InTime'
    BY <1>1, <1>2, <1>3 DEF InTime
  <1>6. \A e \in Waiting' : e \in Waiting /\ timeline'[e].time = timeline[e].time
    BY <1>2 DEF Waiting
  <1>7. ASSUME NEW p \in Parts PROVE EditsOK(p)'
    <2>1. EditsOK(p) /\ VersionsOK(p) /\ AppStep(p)
      BY <1>1, <1>4 DEF EditsInv, HistoryTable
    <2>2. CASE Gone(p) \/ Still(p)
      <3>1. part'[p].note # None => Still(p) /\ part[p].note # None
        BY <2>2 DEF Gone, Still
      <3> QED
        BY <1>1, <1>3, <1>6, <2>1, <3>1, EditsStay
    <2>3. CASE Begun(p, now) /\ part'[p].source = None
      <3>1. now \in 0 .. now + Ahead
        BY <1>1, ChatAssumption
      <3> QED
        BY <1>1, <1>3, <2>1, <2>3, <3>1, EditsBegin
    <2>4. CASE Rewritten(p)
      BY <1>1, <1>3, <1>6, <2>1, <2>4, EditsInApp
    <2> QED
      BY <2>1, <2>2, <2>3, <2>4 DEF AppStep
  <1> QED
    BY <1>5, <1>7

(* Uploads, restarts and time.                                             *)
LEMMA QuietKeepsEdits ==
  ASSUME EditsInv, BotUpload \/ BotCrash \/ (Tick /\ UNCHANGED <<botVars, answered, appOps>>) \/ UNCHANGED chatVars
  PROVE  InTime' /\ \A p \in Parts : EditsOK(p)'
  <1>1. now \in Nat /\ next \in Nat /\ InTime /\ timeline \in Seq(Events)
    BY DEF EditsInv, TextsInv, ChatInv
  <1>2. UNCHANGED <<note, part, history, timeline, answered>>
    BY DEF BotUpload, BotCrash, Upload, Tick, chatVars, botVars, vars, noteVars
  <1>3. now' \in Nat /\ now <= now'
    <2>1. CASE BotUpload \/ BotCrash \/ UNCHANGED chatVars
      BY <1>1, <2>1 DEF BotUpload, BotCrash, Upload, chatVars, vars
    <2>2. CASE Tick
      BY <1>1, <2>2 DEF Tick
    <2> QED
      BY <2>1, <2>2
  <1>4. next' \in Nat /\ next' <= next
    <2>1. CASE BotUpload \/ (Tick /\ UNCHANGED <<botVars, answered, appOps>>) \/ UNCHANGED chatVars
      BY <1>1, <2>1 DEF BotUpload, chatVars, botVars
    <2>2. CASE BotCrash
      BY <1>1, <2>2 DEF BotCrash
    <2> QED
      BY <2>1, <2>2
  <1>5. InTime'
    <2>1. \A i \in DOMAIN timeline : timeline[i].time <= now' + Ahead
      <3>1. \A i \in DOMAIN timeline : timeline[i].time \in Nat
        <4>1. \A i \in DOMAIN timeline : timeline[i] \in Events
          BY <1>1
        <4>2. \A ev \in Events : ev.time \in Nat
          BY DEF Events
        <4> QED
          BY <4>1, <4>2
      <3> QED
        BY <1>1, <1>3, <3>1, ChatAssumption DEF InTime
    <2>2. /\ next' <= Len(timeline) + 1
          /\ \A i \in DOMAIN timeline : i < next' /\ timeline[i].kind = "edited" => i \in answered
      <3>1. DOMAIN timeline = 1 .. Len(timeline) /\ Len(timeline) \in Nat
        BY <1>1
      <3> QED
        BY <1>1, <1>4, <3>1 DEF InTime
    <2>3. \A i, j \in DOMAIN timeline : i <= j => timeline[i].time <= timeline[j].time + Ahead
      BY <1>1 DEF InTime
    <2> QED
      BY <1>2, <2>1, <2>2, <2>3 DEF InTime
  <1>6. \A e \in Waiting' : e \in Waiting /\ timeline'[e].time = timeline[e].time
    BY <1>2 DEF Waiting
  <1>7. ASSUME NEW p \in Parts PROVE EditsOK(p)'
    <2>1. EditsOK(p) /\ Still(p) /\ (part'[p].note # None => part[p].note # None)
      BY <1>2 DEF EditsInv, Still
    <2> QED
      BY <1>1, <1>3, <1>6, <2>1, EditsStay
  <1> QED
    BY <1>5, <1>7

LEMMA StepKeepsEdits == EditsInv /\ [Next]_chatVars => EditsInv'
  <1> SUFFICES ASSUME EditsInv, [Next]_chatVars PROVE EditsInv'
    OBVIOUS
  <1>1. TextsInv'
    BY StepKeepsTexts DEF EditsInv
  <1>2. InTime' /\ \A p \in Parts : EditsOK(p)'
    <2>1. CASE PostMessage \/ PostCommand \/ EditMessage \/ DeleteMessage
      BY <2>1, EventKeepsEdits
    <2>2. CASE BotPost
      BY <2>2, AnswerKeepsEdits
    <2>3. CASE App
      BY <2>3, AppKeepsEdits
    <2>4. CASE BotUpload \/ BotCrash \/ (Tick /\ UNCHANGED <<botVars, answered, appOps>>) \/ UNCHANGED chatVars
      BY <2>4, QuietKeepsEdits
    <2> QED
      BY <2>1, <2>2, <2>3, <2>4 DEF Next
  <1> QED
    BY <1>1, <1>2 DEF EditsInv

(* The text that is shown is that of the part's latest edit, for any       *)
(* number of edits in the app and in the chat, however late and however    *)
(* often the bot posts them, whatever Core takes for a time in the future. *)
(* Clocks that are ahead change nothing but the order of edits that are no *)
(* further apart than that.                                                *)
THEOREM LatestIsShown == Spec => []LatestEditWins
  <1>1. Init => EditsInv
    <2> SUFFICES ASSUME Init PROVE EditsInv
      OBVIOUS
    <2>1. TextsInv
      BY TextsBegin
    <2>2. /\ \A p \in Parts : part[p] = NoPart
          /\ timeline = <<>> /\ next = 1
      BY DEF Init
    <2>3. NoPart.note = None
      BY DEF NoPart
    <2>4. InTime
      BY <2>2 DEF InTime
    <2>5. \A p \in Parts : EditsOK(p)
      BY <2>2, <2>3 DEF EditsOK
    <2> QED
      BY <2>1, <2>4, <2>5 DEF EditsInv
  <1>2. EditsInv /\ [Next]_chatVars => EditsInv'
    BY StepKeepsEdits
  <1>3. EditsInv => LatestEditWins
    BY DEF LatestEditWins, EditsInv, EditsOK, LatestShown
  <1> HIDE DEF EditsInv
  <1> QED
    BY <1>1, <1>2, <1>3, PTL DEF Spec
=============================================================================
