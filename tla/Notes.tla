------------------------------- MODULE Notes -------------------------------
(***************************************************************************)
(* The notes of one user (core/internal/notes): their rows, their parts,   *)
(* the history of their texts, and the operations of the app on them.      *)
(* Every operation is one transaction that holds the user's row            *)
(* (store.InUserTx), so it is one action; its "change" entries are what    *)
(* the browsers of the user learn of it.  Reminders, links and queued      *)
(* messages of a note have modules of their own.                           *)
(*                                                                         *)
(* Names, titles and times that nothing depends on are left out.  A file   *)
(* stands for the row of an attachment that is ready, from the upload to   *)
(* its deletion; Blobs models the rest of its life.                        *)
(***************************************************************************)
EXTENDS Position

CONSTANTS
  Notes,              \* identifiers of notes: numbers, "order by ... id"
  Categories, Pages,  \* the same for categories and pages; the three are disjoint
  Parts,              \* identifiers of note parts
  Files,              \* attachments
  Texts,
  Sessions,           \* sessions of the user in the app
  Sources,            \* the places in the chat a part can come from
  None,
  MaxNotes, MaxPartsPerNote, MaxPartsPerRequest,
  CoalesceWindow,     \* edits of one session less than this apart are one version
  MaxTime,            \* bound: the clock stops here
  MaxOrdinal,         \* bound: no part is appended beyond it
  MaxVersions         \* bound: texts of one part

ASSUME NotesAssumption ==
  /\ Notes \subseteq Nat /\ Categories \subseteq Nat /\ Pages \subseteq Nat
  /\ Notes \cap Categories = {} /\ Notes \cap Pages = {} /\ Categories \cap Pages = {}
  /\ None \notin Notes \cup Categories \cup Pages \cup Parts \cup Files \cup Texts \cup Sessions \cup Sources
  /\ None \notin Nat
  /\ MaxNotes \in Nat /\ MaxPartsPerNote \in Nat /\ MaxPartsPerRequest \in Nat /\ CoalesceWindow \in Nat
  /\ MaxTime \in Nat /\ MaxOrdinal \in Nat /\ MaxVersions \in Nat

VARIABLES
  now,       \* the clock
  note,      \* the rows of notes
  part,      \* the rows of note_parts
  history,   \* note_part_versions: per part, in the order they were recorded
  category,  \* the page of every category and its position; page None: there is none
  page,      \* the position of every page; empty: there is none
  file,      \* the attachments: not there yet, ready, or deleted
  view       \* what a browser shows that has asked again for every entity it was told of

noteVars == <<note, part, history, file>>
boardVars == <<category, page>>
vars == <<now, noteVars, boardVars, view>>

Entities == Notes \cup Categories \cup Pages

-----------------------------------------------------------------------------
(* Rows *)

Keys == Seq(Digits)

NoteRows == [state : {"absent", "active", "deleted"}, category : Categories \cup {None},
             position : Keys, created : Nat, deleted : Nat]

PartRows == [note : Notes \cup {None}, ordinal : Nat, kind : {"text", "attachment", "failed"},
             text : Texts \cup {None}, file : Files \cup {None}, source : Sources \cup {None},
             reason : {"app", "first", "reply", "thread", "media"},
             created : Nat, edited : Nat \cup {None}]

Versions == [text : Texts, origin : {"app", "chat"}, edited : Nat, recorded : Nat,
             applied : BOOLEAN, session : Sessions \cup {None}]

NoNote == [state |-> "absent", category |-> None, position |-> <<>>, created |-> 0, deleted |-> 0]

NoPart == [note |-> None, ordinal |-> 0, kind |-> "text", text |-> None, file |-> None,
           source |-> None, reason |-> "app", created |-> 0, edited |-> None]

(* What a part is made of when it is inserted. *)
TextInput(t) == [kind |-> "text", text |-> t, file |-> None, source |-> None, reason |-> "app"]
FileInput(f) == [kind |-> "attachment", text |-> None, file |-> f, source |-> None, reason |-> "app"]
Inputs == {TextInput(t) : t \in Texts} \cup {FileInput(f) : f \in Files}

-----------------------------------------------------------------------------
(* Queries *)

GetNote(n)        == note[n].state # "absent"
GetNotePart(p, n) == part[p].note = n
GetCategory(c)    == category[c].page # None
GetPage(g)        == page[g] # <<>>
GetAttachment(f)  == file[f] = "ready"

PartsOf(n)            == {p \in Parts : part[p].note = n}
CountNoteParts(n)     == Cardinality(PartsOf(n))
NextPartOrdinal(n)    == IF PartsOf(n) = {} THEN 0
                         ELSE 1 + (CHOOSE o \in {part[p].ordinal : p \in PartsOf(n)} :
                                     \A p \in PartsOf(n) : part[p].ordinal <= o)
AttachmentsOfNote(n)  == {part[p].file : p \in PartsOf(n)} \ {None}
AttachmentInUse(f)    == \E p \in Parts : part[p].file = f
FreeParts             == {p \in Parts : part[p].note = None}

(* The active notes of a category but one, with their keys. *)
NoteKeys(c, x) ==
  [n \in {m \in Notes \ {x} : note[m].state = "active" /\ note[m].category = c} |-> note[n].position]

InsertNoteAt(rows, n, c, key, time) ==
  [rows EXCEPT ![n] = [state |-> "active", category |-> c, position |-> key,
                       created |-> time, deleted |-> 0]]

SetNoteLocation(rows, n, c, key) == [rows EXCEPT ![n].category = c, ![n].position = key]
DismissNote(n)  == [note EXCEPT ![n].state = "deleted", ![n].deleted = now]
RestoreNote(n)  == [note EXCEPT ![n].state = "active", ![n].deleted = 0]
DeleteNote(n)   == [note EXCEPT ![n] = NoNote]
RekeyNotes(keys) ==
  [n \in Notes |-> IF n \in DOMAIN keys THEN [note[n] EXCEPT !.position = keys[n]] ELSE note[n]]

(* Parts go with their note, and their versions with them. *)
InsertNotePart(rows, p, n, ordinal, in, time) ==
  [rows EXCEPT ![p] = [note |-> n, ordinal |-> ordinal, kind |-> in.kind, text |-> in.text,
                       file |-> in.file, source |-> in.source, reason |-> in.reason,
                       created |-> time, edited |-> None]]
DeleteNoteParts(ps)      == [p \in Parts |-> IF p \in ps THEN NoPart ELSE part[p]]
DeletePartVersions(ps)   == [p \in Parts |-> IF p \in ps THEN <<>> ELSE history[p]]
DeleteFiles(fs)          == [f \in Files |-> IF f \in fs THEN "deleted" ELSE file[f]]
UpdatePartText(rows, p, t, time) == [rows EXCEPT ![p].text = t, ![p].edited = time]
MovePartsToNote(n, m, offset) ==
  [p \in Parts |-> IF part[p].note = n THEN [part[p] EXCEPT !.note = m, !.ordinal = @ + offset]
                   ELSE part[p]]
MovePartToNewNote(p, n)  == [part EXCEPT ![p].note = n, ![p].ordinal = 0]

InsertPartVersion(h, p, t, origin, edited, applied, session) ==
  [h EXCEPT ![p] = Append(@, [text |-> t, origin |-> origin, edited |-> edited, recorded |-> now,
                              applied |-> applied, session |-> session])]

(* The version of the app that was edited last, as its index in the history. *)
AppVersions(p) == {i \in DOMAIN history[p] : history[p][i].origin = "app" /\ history[p][i].applied}
LatestAppVersion(p) ==
  {i \in AppVersions(p) : \A j \in AppVersions(p) :
     \/ history[p][j].edited < history[p][i].edited
     \/ history[p][j].edited = history[p][i].edited /\ j <= i}
OverwriteVersionText(p, i, t) ==
  [history EXCEPT ![p][i].text = t, ![p][i].edited = now, ![p][i].recorded = now]

-----------------------------------------------------------------------------
(* Helpers *)

(* What the app shows of an entity, and the transaction's change entries.  *)
(* A browser that is told of an entity asks for it again.                  *)
Shown(e) == CASE e \in Notes      -> [row |-> note[e], parts |-> [p \in PartsOf(e) |-> part[p]]]
              [] e \in Categories -> category[e]
              [] e \in Pages      -> page[e]

Change(S) == view' = [e \in Entities |-> IF e \in S THEN Shown(e)' ELSE view[e]]

(* What the history dialog shows of a note. *)
History(n) == [p \in {q \in PartsOf(n) : GetNote(n)} |-> history[p]]

(* Where a note goes: the Inbox has no order of its own. *)
PlaceNote(c, x, h) ==
  IF c = None THEN {[key |-> <<>>, keys |-> <<>>, rekeyed |-> {}]} ELSE Place(NoteKeys(c, x), h, None)

(* An upload can become a part once. *)
Usable(in) == in.file # None => GetAttachment(in.file) /\ ~ AttachmentInUse(in.file)

TouchNote(n) == Change({n})

(* A transaction may not leave more notes than the limit, unless it leaves *)
(* no more than there were.                                                *)
CountNotes   == Cardinality({n \in Notes : GetNote(n)})
WithinLimits == CountNotes' <= MaxNotes \/ CountNotes' <= CountNotes

(* The rows after parts were inserted, and the first versions of their texts. *)
InsertParts(n, ids, ins, first, origin, time) ==
  /\ part' = [p \in Parts |->
       IF \E i \in DOMAIN ids : ids[i] = p
       THEN LET i == CHOOSE k \in DOMAIN ids : ids[k] = p
            IN  InsertNotePart(part, p, n, first + i - 1, ins[i], time)[p]
       ELSE part[p]]
  /\ history' = [p \in Parts |->
       IF \E i \in DOMAIN ids : ids[i] = p /\ ins[i].kind = "text"
       THEN LET i == CHOOSE k \in DOMAIN ids : ids[k] = p
            IN  InsertPartVersion(history, p, ins[i].text, origin, time, TRUE, None)[p]
       ELSE history[p]]

-----------------------------------------------------------------------------
(* Operations of the app *)

(* A repeated request, with an identifier that exists, answers with the    *)
(* note or with a conflict, and changes nothing.                           *)
Create(n, c, h, ids, ins) ==
  /\ ~ GetNote(n)
  /\ c # None => GetCategory(c)
  /\ \A i \in DOMAIN ins : Usable(ins[i])
  /\ \A i, j \in DOMAIN ins : ins[i].file = ins[j].file /\ ins[i].file # None => i = j
  /\ InsertParts(n, ids, ins, 0, "app", now)
  /\ UNCHANGED <<now, file, boardVars>>
  /\ \E p \in PlaceNote(c, n, h) :
       /\ note' = InsertNoteAt(RekeyNotes(p.keys), n, c, p.key, now)
       /\ WithinLimits
       /\ Change({n} \cup p.rekeyed)

Move(n, c, h) ==
  /\ GetNote(n) /\ note[n].state = "active"
  /\ c # None => GetCategory(c)
  /\ UNCHANGED <<now, part, history, file, boardVars>>
  /\ \E p \in PlaceNote(c, n, h) :
       /\ note' = SetNoteLocation(RekeyNotes(p.keys), n, c, p.key)
       /\ Change({n} \cup p.rekeyed)

(* A dismissed note keeps its category and its key. *)
Dismiss(n) ==
  /\ GetNote(n) /\ note[n].state = "active"
  /\ note' = DismissNote(n)
  /\ UNCHANGED <<now, part, history, file, boardVars>>
  /\ Change({n})

Restore(n) ==
  /\ GetNote(n) /\ note[n].state = "deleted"
  /\ note' = RestoreNote(n)
  /\ UNCHANGED <<now, part, history, file, boardVars>>
  /\ Change({n})

(* The files of the note go with it. *)
DeletePermanently(n) ==
  /\ GetNote(n) /\ note[n].state = "deleted"
  /\ note' = DeleteNote(n)
  /\ part' = DeleteNoteParts(PartsOf(n))
  /\ history' = DeletePartVersions(PartsOf(n))
  /\ file' = DeleteFiles(AttachmentsOfNote(n))
  /\ UNCHANGED <<now, boardVars>>
  /\ Change({n})

(* The latest edit wins; edits that follow each other quickly in one       *)
(* session are one version.                                                *)
Coalesces_any(p, s) ==   \* mutant: whoever wrote it
  {i \in LatestAppVersion(p) : history[p][i].session # None
                               /\ now - history[p][i].recorded < CoalesceWindow}
Coalesces(p, s) ==
  {i \in LatestAppVersion(p) : history[p][i].session = s
                               /\ now - history[p][i].recorded < CoalesceWindow}

EditPart(n, p, t, s) ==
  /\ GetNote(n) /\ GetNotePart(p, n)
  /\ part[p].kind = "text" /\ part[p].text # t
  /\ part' = UpdatePartText(part, p, t, now)
  /\ IF Coalesces(p, s) # {}
     THEN \E i \in Coalesces(p, s) : history' = OverwriteVersionText(p, i, t)
     ELSE /\ Len(history[p]) < MaxVersions
          /\ history' = InsertPartVersion(history, p, t, "app", now, TRUE, s)
  /\ UNCHANGED <<now, note, file, boardVars>>
  /\ TouchNote(n)

AddPart(n, p, in) ==
  /\ GetNote(n)
  /\ CountNoteParts(n) < MaxPartsPerNote
  /\ NextPartOrdinal(n) <= MaxOrdinal
  /\ Usable(in)
  /\ InsertParts(n, <<p>>, <<in>>, NextPartOrdinal(n), "app", now)
  /\ UNCHANGED <<now, note, file, boardVars>>
  /\ TouchNote(n)

(* A note keeps its last part. *)
RemovePart(n, p) ==
  /\ GetNote(n) /\ GetNotePart(p, n)
  /\ CountNoteParts(n) > 1
  /\ part' = DeleteNoteParts({p})
  /\ history' = DeletePartVersions({p})
  /\ file' = DeleteFiles({part[p].file})
  /\ UNCHANGED <<now, note, boardVars>>
  /\ TouchNote(n)

(* The parts of one note go to the end of another, and the first note goes. *)
Merge(target, source) ==
  /\ target # source
  /\ GetNote(target) /\ GetNote(source)
  /\ note[target].state = "active" /\ note[source].state = "active"
  /\ NextPartOrdinal(target) + NextPartOrdinal(source) <= MaxOrdinal + 1
  /\ part' = MovePartsToNote(source, target, NextPartOrdinal(target))
  /\ note' = DeleteNote(source)
  /\ UNCHANGED <<now, history, file, boardVars>>
  /\ Change({source, target})

(* One part becomes a note of its own, right below the one it leaves. *)
Split(n, p, new) ==
  /\ GetNote(n) /\ note[n].state = "active"
  /\ GetNotePart(p, n)
  /\ CountNoteParts(n) >= 2
  /\ ~ GetNote(new)
  /\ part' = MovePartToNewNote(p, new)
  /\ UNCHANGED <<now, history, file, boardVars>>
  /\ \E k \in PlaceNote(note[n].category, new, [after |-> n, before |-> None, top |-> FALSE]) :
       /\ note' = InsertNoteAt(RekeyNotes(k.keys), new, note[n].category, k.key, part[p].created)
       /\ WithinLimits
       /\ Change({n, new} \cup k.rekeyed)

(* An upload that is complete, and the janitor's removal of one that no    *)
(* part has used; Blobs models both in detail.                             *)
Upload(f) ==
  /\ file[f] = "new"
  /\ file' = [file EXCEPT ![f] = "ready"]
  /\ UNCHANGED <<now, note, part, history, boardVars, view>>

RemoveUnused(f) ==
  /\ GetAttachment(f) /\ ~ AttachmentInUse(f)
  /\ file' = DeleteFiles({f})
  /\ UNCHANGED <<now, note, part, history, boardVars, view>>

-----------------------------------------------------------------------------
(* The requests of the app *)

Lists == Categories \cup {None}
Neighbours(default) == [after : Notes \cup {None}, before : Notes \cup {None}, top : {default}]

(* Fresh identifiers for k parts. *)
FreshParts(k) == {ids \in [1 .. k -> FreeParts] : \A i, j \in 1 .. k : ids[i] = ids[j] => i = j}

CreateNote ==
  \E n \in Notes, c \in Lists, h \in Neighbours(TRUE), k \in 1 .. MaxPartsPerRequest :
    \E ids \in FreshParts(k), ins \in [1 .. k -> Inputs] : Create(n, c, h, ids, ins)
MoveNote      == \E n \in Notes, c \in Lists, h \in Neighbours(TRUE) : Move(n, c, h)
DismissANote  == \E n \in Notes : Dismiss(n)
RestoreANote  == \E n \in Notes : Restore(n)
DeleteNotePermanently == \E n \in Notes : DeletePermanently(n)
EditNotePart  == \E n \in Notes, p \in Parts, t \in Texts, s \in Sessions : EditPart(n, p, t, s)
AddNotePart   == \E n \in Notes, p \in FreeParts, in \in Inputs : AddPart(n, p, in)
DeleteNotePart == \E n \in Notes, p \in Parts : RemovePart(n, p)
MergeNotes    == \E n, m \in Notes : Merge(n, m)
SplitNotePart == \E n, new \in Notes, p \in Parts : Split(n, p, new)

UploadFile == \E f \in Files : Upload(f)
Janitor    == \E f \in Files : RemoveUnused(f)

Tick == /\ now < MaxTime
        /\ now' = now + 1
        /\ UNCHANGED <<noteVars, boardVars, view>>

NotesNext ==
  \/ CreateNote \/ MoveNote \/ DismissANote \/ RestoreANote \/ DeleteNotePermanently
  \/ EditNotePart \/ AddNotePart \/ DeleteNotePart \/ MergeNotes \/ SplitNotePart
  \/ UploadFile \/ Janitor

-----------------------------------------------------------------------------
(* Properties *)

TypeOK ==
  /\ now \in Nat
  /\ note \in [Notes -> NoteRows]
  /\ part \in [Parts -> PartRows]
  /\ history \in [Parts -> Seq(Versions)]
  /\ category \in [Categories -> [page : Pages \cup {None}, position : Keys]]
  /\ page \in [Pages -> Keys]
  /\ file \in [Files -> {"new", "ready", "deleted"}]

(* The parts of a note are in an order, although parts come from the app   *)
(* and from chats, move between notes and go.                              *)
PartsAreOrdered ==
  \A p, q \in Parts :
    part[p].note # None /\ part[p].note = part[q].note /\ part[p].ordinal = part[q].ordinal => p = q

(* A part's file exists, and no file is the file of two parts: deleting a  *)
(* part deletes its file, and would take it from the other part (CORE-A8). *)
FilesBelongToOnePart ==
  \A p \in Parts : part[p].file # None =>
    /\ GetAttachment(part[p].file)
    /\ \A q \in Parts : part[q].file = part[p].file => q = p

(* Whatever an operation changed, browsers were told of it: one that asks  *)
(* again for the entities named in the change feed shows what is stored.   *)
BrowsersSeeEverything == \A e \in Entities : view[e] = Shown(e)

(* An edited text replaces the former one, which the note's history shows, *)
(* unless the edit is one in the app whose own session wrote the former    *)
(* text moments before: what another session or the chat wrote is kept,    *)
(* whoever overwrites it (CORE-S4, CORE-N17, EDT-3).                       *)
WroteJustNow(p, s) ==
  \E i \in DOMAIN history[p] :
    /\ history[p][i].text = part[p].text /\ history[p][i].session = s
    /\ now - history[p][i].recorded < CoalesceWindow

OverwrittenTextIsKept ==
  [][\A p \in Parts :
       part[p].note # None /\ part'[p].note # None /\ part'[p].text # part[p].text =>
         \/ \E i \in DOMAIN History(part[p].note)[p]' : History(part[p].note)[p][i].text' = part[p].text
         \/ /\ \E s \in Sessions : EditPart(part[p].note, p, part'[p].text, s)
            /\ \A s \in Sessions : EditPart(part[p].note, p, part'[p].text, s) => WroteJustNow(p, s)]_vars
=============================================================================
