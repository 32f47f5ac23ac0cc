------------------------------- MODULE Board -------------------------------
(***************************************************************************)
(* Pages and categories (core/internal/board), and a browser that reads a  *)
(* list page by page while notes, categories and pages change.  A note in  *)
(* a category has a key, and so have categories on their page and pages;   *)
(* an operation writes the key of one item, or of all the others when the  *)
(* gap has become too small.                                               *)
(***************************************************************************)
EXTENDS Notes

CONSTANTS
  MaxPages, MaxCategories,  \* limits per user and per page
  PageSize,                 \* notes in one answer; clients choose it up to 100
  Trash,                    \* names the list of dismissed notes
  MaxMoves                  \* bound: operations that compute a key, and ticks of the clock

ASSUME BoardAssumption ==
  /\ MaxPages \in Nat /\ MaxCategories \in Nat /\ PageSize \in Nat \ {0} /\ MaxMoves \in Nat
  /\ Trash \notin Categories \cup {None}
  /\ IsFiniteSet(Notes) /\ IsFiniteSet(Categories) /\ IsFiniteSet(Pages)
  /\ None \notin [key : Seq(Nat), id : Notes]   \* no cursor looks like none

VARIABLES
  list,    \* the list the browser reads: a category, None for the Inbox, or the Trash
  reading, \* "no", "yes", or "end" when the last page arrived
  cursor,  \* where the next page begins: the sort key of the last note it has
  shown,   \* the notes that arrived, in order
  stay,    \* the notes that were in the list all the time and did not change
  moves    \* operations that computed a key so far

readerVars == <<list, reading, cursor, shown, stay>>
boardSpecVars == <<vars, readerVars, moves>>

-----------------------------------------------------------------------------
(* Queries *)

PageKeys(x) == [g \in {h \in Pages \ {x} : GetPage(h)} |-> page[g]]

CategoryKeys(g, x) ==
  [c \in {d \in Categories \ {x} : category[d].page = g} |-> category[c].position]

CategoryIDsOfPage(g)     == {c \in Categories : category[c].page = g}
ListCategoriesOfPage(g)  == {c \in Categories : category[c].page = g}
ListPages                == {g \in Pages : GetPage(g)}
NoteIDsInCategories(cs)  == {n \in Notes : note[n].category \in cs}
InsertPage(rows, g, key) == [rows EXCEPT ![g] = key]
UpdatePageKey(rows, g, key) == [rows EXCEPT ![g] = key]
DeletePageRow(g)         == [page EXCEPT ![g] = <<>>]
InsertCategory(rows, c, g, key) == [rows EXCEPT ![c] = [page |-> g, position |-> key]]
UpdateCategoryRow(rows, c, g, key) == [rows EXCEPT ![c].page = g, ![c].position = key]
DeleteCategories(cs) ==
  [c \in Categories |-> IF c \in cs THEN [page |-> None, position |-> <<>>] ELSE category[c]]
RekeyPages(keys) == [g \in Pages |-> IF g \in DOMAIN keys THEN keys[g] ELSE page[g]]
RekeyCategories(keys) ==
  [c \in Categories |-> IF c \in DOMAIN keys THEN [category[c] EXCEPT !.position = keys[c]]
                        ELSE category[c]]

(* The lists of a page's categories and of the pages (the notes of a       *)
(* category have theirs in Notes).                                         *)
PlacePage(x, h)        == Place(PageKeys(x), h, None)
PlaceCategory(g, x, h) == Place(CategoryKeys(g, x), h, None)

-----------------------------------------------------------------------------
(* Pages *)

Behind(i) == [after |-> i, before |-> None, top |-> FALSE]
Hinted(h) == h.after # None \/ h.before # None

CreatePage(g, after) ==
  /\ ~ GetPage(g)
  /\ Cardinality(ListPages) < MaxPages
  /\ UNCHANGED <<now, noteVars, category>>
  /\ \E p \in PlacePage(None, Behind(after)) :
       /\ page' = InsertPage(RekeyPages(p.keys), g, p.key)
       /\ Change({g} \cup p.rekeyed)

(* Renaming and archiving change nothing here. *)
UpdatePage(g, h) ==
  /\ GetPage(g) /\ Hinted(h)
  /\ UNCHANGED <<now, noteVars, category>>
  /\ \E p \in PlacePage(g, h) :
       /\ page' = UpdatePageKey(RekeyPages(p.keys), g, p.key)
       /\ Change({g} \cup p.rekeyed)

(* The notes of a category return to the Inbox, those in the Trash too. *)
ReleaseNotes(cs) ==
  [n \in Notes |-> IF n \in NoteIDsInCategories(cs) THEN SetNoteLocation(note, n, None, <<>>)[n]
                   ELSE note[n]]

DeletePage(g) ==
  /\ GetPage(g)
  /\ note' = ReleaseNotes(CategoryIDsOfPage(g))
  /\ category' = DeleteCategories(CategoryIDsOfPage(g))
  /\ page' = DeletePageRow(g)
  /\ UNCHANGED <<now, part, history, file>>
  /\ Change({g} \cup CategoryIDsOfPage(g) \cup NoteIDsInCategories(CategoryIDsOfPage(g)))

-----------------------------------------------------------------------------
(* Categories *)

CreateCategory(c, g, after) ==
  /\ GetPage(g)
  /\ ~ GetCategory(c)
  /\ Cardinality(ListCategoriesOfPage(g)) < MaxCategories
  /\ UNCHANGED <<now, noteVars, page>>
  /\ \E p \in PlaceCategory(g, None, Behind(after)) :
       /\ category' = InsertCategory(RekeyCategories(p.keys), c, g, p.key)
       /\ Change({c} \cup p.rekeyed)

(* A category that moves to another page without neighbours goes to its    *)
(* end.  The limit of categories per page is not looked at.                *)
UpdateCategory(c, g, h) ==
  /\ GetCategory(c) /\ GetPage(g)
  /\ Hinted(h) \/ g # category[c].page
  /\ UNCHANGED <<now, noteVars, page>>
  /\ \E p \in PlaceCategory(g, c, h) :
       /\ category' = UpdateCategoryRow(RekeyCategories(p.keys), c, g, p.key)
       /\ Change({c} \cup p.rekeyed)

(* Mutant: browsers are not told of the notes that are released. *)
DeleteCategory_quietly(c) ==
  /\ GetCategory(c)
  /\ note' = ReleaseNotes({c})
  /\ category' = DeleteCategories({c})
  /\ UNCHANGED <<now, part, history, file, page>>
  /\ Change({c})

DeleteCategory(c) ==
  /\ GetCategory(c)
  /\ note' = ReleaseNotes({c})
  /\ category' = DeleteCategories({c})
  /\ UNCHANGED <<now, part, history, file, page>>
  /\ Change({c} \cup NoteIDsInCategories({c}))

-----------------------------------------------------------------------------
(* Reading a list *)

Members(l) ==
  {n \in Notes : IF l = Trash THEN note[n].state = "deleted"
                 ELSE note[n].state = "active" /\ note[n].category = l}

(* What a list is sorted by: a category by position, the Inbox and the     *)
(* Trash from the newest; the identifier decides between equals.           *)
SortKey(l, n) == CASE l \in Categories -> note[n].position
                   [] l = Trash        -> <<note[n].deleted>>
                   [] OTHER            -> <<note[n].created>>

Follows(l, x, y) ==
  IF l \in Categories THEN KeyLess(y.key, x.key) \/ (x.key = y.key /\ x.id > y.id)
  ELSE KeyLess(x.key, y.key) \/ (x.key = y.key /\ x.id < y.id)

At(l, n) == [key |-> SortKey(l, n), id |-> n]

(* Mutant: the cursor does not carry the identifier. *)
Rest_keyOnly(l, after) ==
  {n \in Members(l) : \/ after = None
                      \/ At(l, n).key # after.key /\ Follows(l, At(l, n), after)}

(* The members behind the cursor, in order. *)
Rest(l, after) == {n \in Members(l) : after = None \/ Follows(l, At(l, n), after)}
Rank(l, ns, n) == Cardinality({m \in ns : m = n \/ Follows(l, At(l, n), At(l, m))})
InOrder(l, ns) == [i \in 1 .. Cardinality(ns) |-> CHOOSE n \in ns : Rank(l, ns, n) = i]

(* One answer: a page of notes, and a cursor when there are more. *)
NextPage(l, after) ==
  LET rest  == InOrder(l, Rest(l, after))
      count == IF Len(rest) > PageSize THEN PageSize ELSE Len(rest)
  IN  [items |-> SubSeq(rest, 1, count),
       cursor |-> IF Len(rest) > PageSize THEN At(l, rest[count]) ELSE None]

ReadFirst(l) ==
  /\ reading = "no"
  /\ list' = l
  /\ stay' = Members(l)
  /\ shown' = NextPage(l, None).items
  /\ cursor' = NextPage(l, None).cursor
  /\ reading' = IF cursor' = None THEN "end" ELSE "yes"
  /\ UNCHANGED <<vars, moves>>

ReadNext ==
  /\ reading = "yes"
  /\ list \in Categories => GetCategory(list)
  /\ shown' = shown \o NextPage(list, cursor).items
  /\ cursor' = NextPage(list, cursor).cursor
  /\ reading' = IF cursor' = None THEN "end" ELSE "yes"
  /\ UNCHANGED <<vars, list, stay, moves>>

(* The user leaves the list. *)
Leave ==
  /\ reading # "no"
  /\ reading' = "no" /\ list' = None /\ cursor' = None /\ shown' = <<>> /\ stay' = {}
  /\ UNCHANGED <<vars, moves>>

-----------------------------------------------------------------------------
(* The requests of the app *)

Near(ids) == [after : ids \cup {None}, before : ids \cup {None}, top : {FALSE}]

PostPage       == \E g \in Pages, after \in Pages \cup {None} : CreatePage(g, after)
PatchPage      == \E g \in Pages, h \in Near(Pages) : UpdatePage(g, h)
RemovePage     == \E g \in Pages : DeletePage(g)
PostCategory   == \E c \in Categories, g \in Pages, after \in Categories \cup {None} :
                    CreateCategory(c, g, after)
PatchCategory  == \E c \in Categories, g \in Pages, h \in Near(Categories) : UpdateCategory(c, g, h)
RemoveCategory == \E c \in Categories : DeleteCategory(c)

(* A page of the board comes with the first notes of every category. *)
OpenInbox == ReadFirst(None)
OpenTrash == ReadFirst(Trash)
OpenBoard == \E c \in Categories : GetCategory(c) /\ ReadFirst(c)

(* A browser reads the pages of a list while other devices work. *)
Unseen == /\ stay' = {n \in stay : Shown(n)' = Shown(n)}
          /\ UNCHANGED <<list, reading, cursor, shown>>

Places == CreateNote \/ MoveNote \/ SplitNotePart
          \/ PostPage \/ PatchPage \/ PostCategory \/ PatchCategory

Keeps == DismissANote \/ RestoreANote \/ DeleteNotePermanently \/ MergeNotes
         \/ RemovePage \/ RemoveCategory

Write == \/ moves < MaxMoves /\ (Places \/ Tick) /\ Unseen /\ moves' = moves + 1
         \/ Keeps /\ Unseen /\ UNCHANGED moves

Read == OpenInbox \/ OpenTrash \/ OpenBoard \/ ReadNext \/ Leave

BoardNext == Write \/ Read

(* An account nobody has used yet. *)
Init ==
  /\ now = 0
  /\ note = [n \in Notes |-> NoNote]
  /\ part = [p \in Parts |-> NoPart]
  /\ history = [p \in Parts |-> <<>>]
  /\ category = [c \in Categories |-> [page |-> None, position |-> <<>>]]
  /\ page = [g \in Pages |-> <<>>]
  /\ file = [f \in Files |-> "new"]
  /\ view = [e \in Entities |-> Shown(e)]
  /\ list = None /\ reading = "no" /\ cursor = None /\ shown = <<>> /\ stay = {}
  /\ moves = 0

Spec == Init /\ [][BoardNext]_boardSpecVars

-----------------------------------------------------------------------------
(* Properties *)

ReaderTypeOK ==
  /\ TypeOK
  /\ list \in Lists \cup {Trash} /\ reading \in {"no", "yes", "end"}
  /\ stay \subseteq Notes
  /\ shown \in Seq(Notes)
  /\ moves \in 0 .. MaxMoves

(* Whoever reads a list to its end, one page at a time, has read every     *)
(* note that was there all along and did not change exactly once, also     *)
(* when others were moved, came and went meanwhile.                        *)
ReadOnce ==
  \A n \in stay :
    /\ \A i, j \in DOMAIN shown : shown[i] = n /\ shown[j] = n => i = j
    /\ reading = "end" => \E i \in DOMAIN shown : shown[i] = n

(* Placing one item leaves the others in their order, also when all keys   *)
(* of the list are rewritten (CORE-S4).                                    *)
SameOrder(old, new) ==
  \E x \in DOMAIN old \cup DOMAIN new \cup {None} :
    \A i, j \in (DOMAIN old \cap DOMAIN new) \ {x} : Precedes(old, i, j) => ~ Precedes(new, j, i)

OthersKeepTheirOrder ==
  [][moves' # moves =>
       /\ \A c \in Categories : SameOrder(NoteKeys(c, None), NoteKeys(c, None)')
       /\ \A g \in Pages : SameOrder(CategoryKeys(g, None), CategoryKeys(g, None)')
       /\ SameOrder(PageKeys(None), PageKeys(None)')]_boardSpecVars

(* What stands strictly between two items. *)
Apart(keys, i, j) == {m \in DOMAIN keys : KeyLess(keys[i], keys[m]) /\ KeyLess(keys[m], keys[j])}

(* The item n came between its neighbours: from the list old without it to *)
(* the list new.  Of two neighbours that are not in the order the client   *)
(* saw, only the first counts.  Nothing stands in between but what stood   *)
(* between the two of them before, or has the key of the one neighbour.    *)
IsBetween(old, new, n, h) ==
  LET a == h.after
      b == h.before
      both == a # None /\ b # None /\ KeyLess(old[a], old[b])
  IN  /\ a # None => KeyLess(new[a], new[n])
      /\ a = None \/ both => KeyLess(new[n], new[b])
      /\ both => \A m \in Apart(new, a, b) \ {n} : Precedes(old, a, m) /\ Precedes(old, m, b)
      /\ a # None /\ ~ both => \A m \in Apart(new, a, n) : old[m] = old[a]
      /\ a = None => Apart(new, n, b) = {}

(* A note that is moved is where the user put it: between the neighbours   *)
(* it was dropped between, right behind the one or right in front of the   *)
(* other, also when these have moved, when other devices have put notes    *)
(* between them, and when all keys are rewritten (position.go, CORE-S4).   *)
GoesWhereAsked ==
  [][moves' # moves => \A n \in Notes, c \in Categories, h \in Neighbours(TRUE) :
       Hinted(h) /\ note'[n].category = c /\ Move(n, c, h) =>
         IsBetween(NoteKeys(c, n), NoteKeys(c, None)', n, h)]_boardSpecVars
=============================================================================
