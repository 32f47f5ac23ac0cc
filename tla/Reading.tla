------------------------------ MODULE Reading -------------------------------
(***************************************************************************)
(* The requests that read much of an account at once: searching            *)
(* (core/internal/notes/search.go) and exporting (core/internal/export),   *)
(* while other devices write.  A request runs several statements in one    *)
(* snapshot (store.InUserRead); the files of an export are read after it,  *)
(* each in a transaction of its own.  Requests that only read do not       *)
(* disturb each other, so there is one at a time.                          *)
(*                                                                         *)
(* The query is one word.  Of a text, or of the name of a file, it matters *)
(* how often it has a word that begins like the query, and whether it has  *)
(* the query inside a word.  Reminders and links of an export are left out. *)
(***************************************************************************)
EXTENDS Board

CONSTANTS
  Count,       \* words a text or a name has that begin like the query
  Inside,      \* the texts and names that have the query inside a word
  LongEnough,  \* the query has at least three characters
  Asked,       \* the searches people make
  MaxDepth,    \* no page of results begins behind it
  Batch,       \* notes an export reads at a time
  PerHour,     \* exports one user may start in an hour, in which all of this happens
  MaxWrites    \* bound: writes of other devices, and ticks of the clock, during a request

(* "active", "trash" or "all", with the filters that were given. *)
Searches == [scope : {"active", "trash", "all"}, category : Categories \cup {None},
             page : Pages \cup {None}, files : {"any", "with", "without"}]

ASSUME ReadingAssumption ==
  /\ Count \in [Texts \cup Files -> Nat] /\ Inside \subseteq Texts \cup Files
  /\ LongEnough \in BOOLEAN /\ Asked \subseteq Searches /\ None \notin Asked
  /\ MaxDepth \in Nat /\ Batch \in Nat \ {0} /\ PerHour \in Nat /\ MaxWrites \in Nat
  /\ IsFiniteSet(Parts)

VARIABLES
  step,     \* what the request does next
  snap,     \* the snapshot of its transaction
  ask,      \* the search, or None
  hits,     \* the page of results being loaded
  offset,   \* where the next page of results begins, None behind the last
  seen,     \* the results of all pages
  out,      \* what the request has read
  exports,  \* exports started
  stayed,   \* the notes that were there, and found, all the time
  drift,    \* whether notes began or ceased to be found by their words meanwhile
  writes    \* writes of other devices, and ticks of the clock, so far

requestVars == <<step, snap, ask, hits, offset, seen, out>>
readingVars == <<boardSpecVars, requestVars, exports, stayed, drift, writes>>

Nothing == [pages |-> {}, categories |-> <<>>, notes |-> <<>>, parts |-> <<>>, versions |-> <<>>,
            places |-> <<>>, batch |-> {}, files |-> {}, open |-> None, copied |-> {}]

-----------------------------------------------------------------------------
(* Helpers *)

(* A finite set in the order of a query, and what is left of a sequence    *)
(* when only some are kept; written out, for proofs to look inside.        *)
Ordered(S, Before(_, _)) ==
  [i \in 1 .. Cardinality(S) |-> CHOOSE x \in S : Cardinality({y \in S : y = x \/ Before(y, x)}) = i]

Kept(s, S) ==
  LET places == Ordered({i \in DOMAIN s : s[i] \in S}, LAMBDA i, j : i < j)
  IN  [k \in DOMAIN places |-> s[places[k]]]

(* More rows beside those that were read before. *)
With(rows, before) ==
  [x \in DOMAIN rows \cup DOMAIN before |-> IF x \in DOMAIN rows THEN rows[x] ELSE before[x]]

-----------------------------------------------------------------------------
(* Snapshots *)

Present == [note |-> note, part |-> part, history |-> history, category |-> category, page |-> page,
            file |-> file]

(* Mutant: every statement sees what is committed when it runs. *)
View_committed == Present

(* What a statement of the request sees. *)
View == snap

(* The queries; v is what they see. *)
RowsOf(f, S) == [x \in S |-> f[x]]
PartsIn(v, ns) == {p \in Parts : v.part[p].note \in ns}
NotesByIDs(v, ns) == RowsOf(v.note, {n \in ns : v.note[n].state # "absent"})
ListNoteParts(v, ns) == RowsOf(v.part, PartsIn(v, ns))
NoteLocations(v, ns) ==
  [n \in {m \in ns : v.note[m].category # None} |->
     [category |-> v.note[n].category, page |-> v.category[v.note[n].category].page]]

ExportPages(v)        == {g \in Pages : v.page[g] # <<>>}
ExportCategories(v)   == RowsOf(v.category, {c \in Categories : v.category[c].page # None})
ExportNotes(v, after) ==
  LET left == {n \in Notes : v.note[n].state # "absent" /\ \A m \in after : n > m}
  IN  RowsOf(v.note, {n \in left : Cardinality({m \in left : m < n}) < Batch})
ExportParts(v, ns)    == ListNoteParts(v, ns)
ExportVersions(v, ns) == RowsOf(v.history, PartsIn(v, ns))
ExportAttachmentInfo(v, fs) == {f \in fs : v.file[f] = "ready"}
CountRecentExports    == exports

-----------------------------------------------------------------------------
(* What a search finds *)

States(q) == CASE q.scope = "active" -> {"active"}
               [] q.scope = "trash"  -> {"deleted"}
               [] OTHER              -> {"active", "deleted"}

Filters(v, q, n) ==
  LET has == \E p \in PartsIn(v, {n}) : v.part[p].file # None
  IN  /\ v.note[n].state \in States(q)
      /\ q.category # None => v.note[n].category = q.category
      /\ q.page # None => v.note[n].category # None /\ v.category[v.note[n].category].page = q.page
      /\ q.files = "with" => has
      /\ q.files = "without" => ~ has

(* What a part adds to the body of its note in the index. *)
Body(r) == IF r.file = None THEN r.text ELSE r.file

(* The words that match, and how many they are.                            *)
Matches(v, n) == UNION {{p} \X (1 .. Count[Body(v.part[p])]) : p \in PartsIn(v, {n})}
Score(v, n)   == Cardinality(Matches(v, n))

Better(v, n, m) ==
  \/ Score(v, n) > Score(v, m)
  \/ Score(v, n) = Score(v, m) /\ v.note[n].created > v.note[m].created
  \/ Score(v, n) = Score(v, m) /\ v.note[n].created = v.note[m].created /\ n > m

Newer(v, n, m) ==
  v.note[n].created > v.note[m].created \/ (v.note[n].created = v.note[m].created /\ n > m)

(* "limit .. offset .." *)
Limited(all, limit, from) ==
  SubSeq(all, from + 1, IF from + limit < Len(all) THEN from + limit ELSE Len(all))

Found(v, q, n)       == Filters(v, q, n) /\ Score(v, n) > 0
FoundInside(v, q, n) == Filters(v, q, n) /\ \E p \in PartsIn(v, {n}) : Body(v.part[p]) \in Inside

RunSearch(v, q, limit, from) ==
  LET all == Ordered({n \in Notes : Found(v, q, n)}, LAMBDA n, m : Better(v, n, m))
  IN  Limited(all, limit, from)

RunSubstring(v, q, limit) ==
  LET all == Ordered({n \in Notes : FoundInside(v, q, n)}, LAMBDA n, m : Newer(v, n, m))
  IN  Limited(all, limit, 0)

-----------------------------------------------------------------------------
(* Searching: one page of results is one request *)

(* Mutant: the next page begins behind the note that only said there is more. *)
NextOffset_late(from, rows) == IF Len(rows) > PageSize THEN from + Len(rows) ELSE None

NextOffset(from, rows) == IF Len(rows) > PageSize THEN from + PageSize ELSE None

(* One more than the page is asked for, to learn whether there is more;    *)
(* what is inside words is looked for when there is nothing else.          *)
Search(q, from) ==
  LET words == RunSearch(Present, q, PageSize + 1, from)
      rows  == IF words = <<>> /\ from = 0 /\ LongEnough THEN RunSubstring(Present, q, PageSize + 1)
               ELSE words
  IN  /\ snap' = Present
      /\ hits' = IF Len(rows) > PageSize THEN SubSeq(rows, 1, PageSize) ELSE rows
      /\ offset' = NextOffset(from, rows)
      /\ step' = "load"
      /\ out' = Nothing

(* All that a search finds, on whatever page. *)
FoundBy(v, q) ==
  {n \in Notes : \/ Found(v, q, n)
                 \/ LongEnough /\ FoundInside(v, q, n) /\ ~ \E m \in Notes : Found(v, q, m)}

SearchFirst(q) ==
  /\ step = "idle"
  /\ Search(q, 0)
  /\ ask' = q
  /\ seen' = <<>>
  /\ stayed' = FoundBy(Present, q)
  /\ UNCHANGED <<boardSpecVars, exports, drift, writes>>

SearchNext ==
  /\ step = "answered" /\ offset # None
  /\ offset <= MaxDepth
  /\ Search(ask, offset)
  /\ UNCHANGED <<boardSpecVars, ask, seen, exports, stayed, drift, writes>>

Hits == {hits[i] : i \in DOMAIN hits}

LoadNotes ==
  /\ step = "load"
  /\ out' = [out EXCEPT !.notes = NotesByIDs(View, Hits)]
  /\ step' = "search parts"
  /\ UNCHANGED <<boardSpecVars, snap, ask, hits, offset, seen, exports, stayed, drift, writes>>

WithParts ==
  /\ step = "search parts"
  /\ out' = [out EXCEPT !.parts = ListNoteParts(View, DOMAIN out.notes)]
  /\ step' = "places"
  /\ UNCHANGED <<boardSpecVars, snap, ask, hits, offset, seen, exports, stayed, drift, writes>>

(* The answer; a hit whose note is gone is left out. *)
AttachLocations ==
  /\ step = "places"
  /\ out' = [out EXCEPT !.places = NoteLocations(View, {n \in DOMAIN out.notes : out.notes[n].category # None})]
  /\ hits' = Kept(hits, DOMAIN out.notes)
  /\ seen' = seen \o hits'
  /\ step' = "answered"
  /\ UNCHANGED <<boardSpecVars, snap, ask, offset, exports, stayed, drift, writes>>

-----------------------------------------------------------------------------
(* Exporting *)

Start ==
  /\ CountRecentExports < PerHour
  /\ exports' = exports + 1
  /\ step' = "pages"
  /\ UNCHANGED <<boardSpecVars, snap, ask, hits, offset, seen, out, stayed, drift, writes>>

WritePages ==
  /\ step = "pages"
  /\ snap' = Present
  /\ out' = [Nothing EXCEPT !.pages = ExportPages(Present)]
  /\ stayed' = {n \in Notes : GetNote(n)}
  /\ step' = "categories"
  /\ UNCHANGED <<boardSpecVars, ask, hits, offset, seen, exports, drift, writes>>

WriteCategories ==
  /\ step = "categories"
  /\ out' = [out EXCEPT !.categories = ExportCategories(View)]
  /\ step' = "notes"
  /\ UNCHANGED <<boardSpecVars, snap, ask, hits, offset, seen, exports, stayed, drift, writes>>

(* The next notes by identifier; none are left when the batch is empty. *)
WriteNotes ==
  /\ step = "notes"
  /\ LET rows == ExportNotes(View, DOMAIN out.notes)
     IN  /\ out' = [out EXCEPT !.batch = DOMAIN rows, !.notes = With(rows, @)]
         /\ step' = IF DOMAIN rows = {} THEN "files" ELSE "parts"
  /\ UNCHANGED <<boardSpecVars, snap, ask, hits, offset, seen, exports, stayed, drift, writes>>

(* The files of an export are those its parts name. *)
WriteParts ==
  /\ step = "parts"
  /\ LET rows == ExportParts(View, out.batch)
         used == {rows[p].file : p \in DOMAIN rows} \ {None}
     IN  out' = [out EXCEPT !.parts = With(rows, @), !.files = @ \cup ExportAttachmentInfo(View, used)]
  /\ step' = "versions"
  /\ UNCHANGED <<boardSpecVars, snap, ask, hits, offset, seen, exports, stayed, drift, writes>>

WriteVersions ==
  /\ step = "versions"
  /\ out' = [out EXCEPT !.versions = With(ExportVersions(View, out.batch), @)]
  /\ step' = "notes"
  /\ UNCHANGED <<boardSpecVars, snap, ask, hits, offset, seen, exports, stayed, drift, writes>>

(* Mutant: a file that is gone is passed over. *)
OpenFile_skip(f) ==
  /\ out' = IF GetAttachment(f) THEN [out EXCEPT !.open = f] ELSE [out EXCEPT !.files = @ \ {f}]
  /\ UNCHANGED step

(* The status was sent before: the client sees an archive without its end. *)
CutShort == step' = "cut"

(* The content outlives an attachment when another one has the same. *)
GetChunk(f) == {TRUE, GetAttachment(f)}

OpenFile(f) ==
  IF GetAttachment(f) THEN out' = [out EXCEPT !.open = f] /\ UNCHANGED step
  ELSE CutShort /\ UNCHANGED out

(* Content is read in a transaction of its own, long after the file was found. *)
ReadFile(f) ==
  \E there \in GetChunk(f) :
    IF there THEN out' = [out EXCEPT !.open = None, !.copied = @ \cup {f}] /\ UNCHANGED step
    ELSE CutShort /\ UNCHANGED out

(* A file that is gone ends the export. *)
CopyFile(f) ==
  /\ step = "files" /\ f \in out.files \ out.copied
  /\ \/ out.open = None /\ OpenFile(f)
     \/ out.open = f /\ ReadFile(f)
  /\ UNCHANGED <<boardSpecVars, snap, ask, hits, offset, seen, exports, stayed, drift, writes>>

FinishExport ==
  /\ step = "files" /\ out.files = out.copied
  /\ step' = "whole"
  /\ UNCHANGED <<boardSpecVars, snap, ask, hits, offset, seen, out, exports, stayed, drift, writes>>

-----------------------------------------------------------------------------
(* The requests of the app *)

SearchNotes == \E q \in Asked : SearchFirst(q)
ExportMyData == step = "idle" /\ Start
CopyFiles == \E f \in Files : CopyFile(f)

(* The user has seen the results, or has the archive. *)
Close ==
  /\ step \in {"answered", "whole", "cut"}
  /\ step' = "idle" /\ snap' = None /\ ask' = None /\ hits' = <<>> /\ offset' = None /\ seen' = <<>>
  /\ out' = Nothing /\ stayed' = {} /\ drift' = {}
  /\ UNCHANGED <<boardSpecVars, exports, writes>>

(* What the writes of other devices mean for the request; a note is found  *)
(* as it was before when as many of its words match.                       *)
SameHit(n) ==
  /\ Score(Present, n)' = Score(Present, n)
  /\ IF Score(Present, n) > 0 THEN Found(Present, ask, n)' ELSE FoundInside(Present, ask, n)'
Noticed ==
  IF ask = None
  THEN stayed' = {n \in stayed : GetNote(n)'} /\ UNCHANGED drift
  ELSE /\ stayed' = {n \in stayed : SameHit(n)}
       /\ drift' = drift
            \cup (IF \E n \in Notes : Found(Present, ask, n) /\ ~ SameHit(n) THEN {"lost"} ELSE {})
            \cup (IF \E n \in Notes : Found(Present, ask, n)' /\ ~ (Found(Present, ask, n) /\ SameHit(n))
                  THEN {"gained"} ELSE {})

WriteMeanwhile ==
  /\ step # "idle" /\ writes < MaxWrites
  /\ \/ CreateNote \/ MoveNote \/ DismissANote \/ RestoreANote \/ DeleteNotePermanently
     \/ EditNotePart \/ MergeNotes \/ PostCategory \/ RemoveCategory \/ RemovePage \/ Tick
  /\ writes' = writes + 1
  /\ UNCHANGED <<readerVars, moves, requestVars, exports>>
  /\ Noticed

ReadingNext ==
  \/ SearchNotes \/ SearchNext \/ LoadNotes \/ WithParts \/ AttachLocations
  \/ ExportMyData \/ WritePages \/ WriteCategories \/ WriteNotes \/ WriteParts \/ WriteVersions
  \/ CopyFiles \/ FinishExport \/ Close \/ WriteMeanwhile

NoRequest ==
  /\ step = "idle" /\ snap = None /\ ask = None /\ hits = <<>> /\ offset = None /\ seen = <<>>
  /\ out = Nothing /\ exports = 0 /\ stayed = {} /\ drift = {} /\ writes = 0

ReadingSpec == Init /\ NoRequest /\ [][ReadingNext]_readingVars

-----------------------------------------------------------------------------
(* Properties *)

(* The notes, the parts and the places in an answer agree with what made   *)
(* the notes hits, whatever is written between the statements (CR-030).    *)
AnswersAgree ==
  step = "answered" =>
    \A n \in Hits :
      /\ n \in DOMAIN out.notes /\ out.notes[n].state \in States(ask)
      /\ ask.category # None => out.notes[n].category = ask.category
      /\ out.notes[n].category # None =>
           /\ n \in DOMAIN out.places /\ out.places[n].category = out.notes[n].category
           /\ ask.page # None => out.places[n].page = ask.page
      /\ \E p \in DOMAIN out.parts : out.parts[p].note = n
           /\ (Count[Body(out.parts[p])] > 0 \/ Body(out.parts[p]) \in Inside)

(* Whoever reads the results to the end has seen every note that was found *)
(* all the time, by its words or inside them, unless others ceased to be   *)
(* found and those behind them moved up; and has seen it once unless       *)
(* others came in between.  Not so the notes found inside words behind the *)
(* first page: its cursor is one, but the request for the next page looks  *)
(* for words only (search.go:121), and the user sees the end of the list.  *)
LeftBehind(n) == Score(Present, n) = 0 /\ Len(seen) >= PageSize

NothingSkipped ==
  step = "answered" /\ offset = None /\ "lost" \notin drift =>
    \A n \in stayed :
      /\ LeftBehind(n) \/ \E i \in DOMAIN seen : seen[i] = n
      /\ drift = {} => \A i, j \in DOMAIN seen : seen[i] = n /\ seen[j] = n => i = j

(* An archive that is not cut short has every note that existed all the    *)
(* time, the category of every note and its page, the texts of every part  *)
(* in its history, and every file it names (AUTH-U5).                      *)
ExportIsWhole ==
  step = "whole" =>
    /\ stayed \subseteq DOMAIN out.notes
    /\ \A n \in DOMAIN out.notes :
         /\ \E p \in DOMAIN out.parts : out.parts[p].note = n
         /\ out.notes[n].category # None =>
              /\ out.notes[n].category \in DOMAIN out.categories
              /\ out.categories[out.notes[n].category].page \in out.pages
    /\ \A p \in DOMAIN out.parts :
         /\ out.parts[p].file # None => out.parts[p].file \in out.copied
         /\ out.parts[p].text # None =>
              p \in DOMAIN out.versions /\ \E i \in DOMAIN out.versions[p] : out.versions[p][i].text = out.parts[p].text
=============================================================================
