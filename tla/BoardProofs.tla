----------------------------- MODULE BoardProofs -----------------------------
(***************************************************************************)
(* What holds of the board for every number of pages, categories, notes,   *)
(* digits and devices:                                                     *)
(*                                                                         *)
(* 1. Browsers are told of everything that changes: of the note, category  *)
(*    or page a request names, of those that come along because a list has *)
(*    to be numbered anew, and of the notes a deleted category or page     *)
(*    releases.  NotesProofs has the operations on notes.                  *)
(* 2. The key for a gap is strictly inside it, and the even keys of a list *)
(*    that is numbered anew increase.  Midpoint and Pow are recursive      *)
(*    functions; what they do is shown by looking at the shortest gap, or  *)
(*    the least exponent, for which they would not (LeastNumber).          *)
(* 3. So an item that is placed leaves the others in their order, and a    *)
(*    note that is moved is where it was asked for.                        *)
(* 4. So a list that is read page by page while others work is read once.  *)
(* 5. The operations leave an account of which a request that reads much   *)
(*    can make sense: notes have parts and places, texts are in their      *)
(*    history, files are stored.                                           *)
(* 6. So an archive is whole, whatever is written while it is made; what a *)
(*    search shows is what made it a hit; and no result that stays is      *)
(*    skipped between two pages (Reading).                                 *)
(***************************************************************************)
EXTENDS Reading, NotesProofs, FiniteSetTheorems, SequenceTheorems

(* The categories that are not rewritten keep their rows.                  *)
LEMMA RekeyedCategories ==
  ASSUME CategoryTable, NEW g, NEW x, NEW h, NEW p \in PlaceCategory(g, x, h)
  PROVE  /\ DOMAIN RekeyCategories(p.keys) = Categories
         /\ \A c \in Categories : IsRow(RekeyCategories(p.keys)[c], CategoryColumns)
         /\ \A c \in Categories \ p.rekeyed : RekeyCategories(p.keys)[c] = category[c]
  <1> DEFINE keys == CategoryKeys(g, x)
  <1>1. \A c \in DOMAIN keys : keys[c] = category[c].position
    BY DEF CategoryKeys
  <1>2. \/ p.keys = keys /\ p.rekeyed = {}
        \/ p.rekeyed = DOMAIN keys /\ DOMAIN p.keys = DOMAIN keys
    BY PlaceAnswers DEF PlaceCategory
  <1> HIDE DEF keys
  <1>3. ASSUME NEW c \in Categories
        PROVE  RekeyCategories(p.keys)[c] =
                 IF c \in DOMAIN p.keys THEN [category[c] EXCEPT !.position = p.keys[c]] ELSE category[c]
    BY DEF RekeyCategories
  <1>4. \A c \in Categories : DOMAIN category[c] = CategoryColumns /\ category[c] = [k \in CategoryColumns |-> category[c][k]]
    BY DEF CategoryTable, IsRow
  <1>5. ASSUME NEW c \in Categories PROVE IsRow(RekeyCategories(p.keys)[c], CategoryColumns)
    <2>1. DOMAIN category[c] = CategoryColumns /\ category[c] = [k \in CategoryColumns |-> category[c][k]]
      BY <1>4
    <2>2. CASE c \in DOMAIN p.keys
      <3>1. RekeyCategories(p.keys)[c] = [category[c] EXCEPT !.position = p.keys[c]]
        BY <1>3, <2>2
      <3> QED
        BY <2>1, <3>1 DEF IsRow
    <2>3. CASE c \notin DOMAIN p.keys
      BY <1>3, <2>1, <2>3 DEF IsRow
    <2> QED
      BY <2>2, <2>3
  <1>6. ASSUME NEW c \in Categories \ p.rekeyed PROVE RekeyCategories(p.keys)[c] = category[c]
    <2>1. CASE c \in DOMAIN p.keys
      <3>1. p.keys[c] = category[c].position
        BY <1>1, <1>2, <2>1
      <3>2. RekeyCategories(p.keys)[c] = [category[c] EXCEPT !.position = category[c].position]
        BY <1>3, <2>1, <3>1
      <3>3. DOMAIN category[c] = CategoryColumns /\ category[c] = [k \in CategoryColumns |-> category[c][k]]
        BY <1>4
      <3> QED
        BY <3>2, <3>3
    <2>2. CASE c \notin DOMAIN p.keys
      BY <1>3, <2>2
    <2> QED
      BY <2>1, <2>2
  <1> QED
    BY <1>5, <1>6 DEF RekeyCategories

(* The same of pages, which are nothing but their keys.                    *)
LEMMA RekeyedPages ==
  ASSUME NEW x, NEW h, NEW p \in PlacePage(x, h)
  PROVE  /\ DOMAIN RekeyPages(p.keys) = Pages
         /\ \A g \in Pages \ p.rekeyed : RekeyPages(p.keys)[g] = page[g]
  <1> DEFINE keys == PageKeys(x)
  <1>1. \A g \in DOMAIN keys : keys[g] = page[g]
    BY DEF PageKeys
  <1>2. \/ p.keys = keys /\ p.rekeyed = {}
        \/ p.rekeyed = DOMAIN keys /\ DOMAIN p.keys = DOMAIN keys
    BY PlaceAnswers DEF PlacePage
  <1> HIDE DEF keys
  <1> QED
    BY <1>1, <1>2 DEF RekeyPages

(* A request that changes categories or pages, and of the notes at most    *)
(* the rows of those it tells of.                                          *)
LEMMA BoardOperationKeeps ==
  ASSUME NotesInv, NEW S, Change(S), UNCHANGED <<part, file>>,
         NoteTable', CategoryTable', DOMAIN page' = Pages,
         \A n \in Notes \ S : note'[n] = note[n],
         \A c \in Categories \ S : category'[c] = category[c],
         \A g \in Pages \ S : page'[g] = page[g]
  PROVE  NotesInv' /\ Informs
  <1>1. PartTable /\ FilesBelongToOnePart /\ DOMAIN file = Files
    BY DEF NotesInv, Tables
  <1>2. PartTable' /\ FilesBelongToOnePart' /\ DOMAIN file' = Files
    BY <1>1 DEF PartTable, FilesBelongToOnePart, GetAttachment
  <1>3. PartsStay(S)
    BY DEF PartsStay
  <1>4. Tables'
    BY <1>2 DEF Tables
  <1> QED
    BY <1>2, <1>3, <1>4, AllKeeps

-----------------------------------------------------------------------------
(* The operations.                                                         *)
LEMMA PageKeeps ==
  ASSUME NotesInv, NEW g \in Pages,
         \/ \E after \in Pages \cup {None} : CreatePage(g, after)
         \/ \E h \in Near(Pages) : UpdatePage(g, h)
  PROVE  NotesInv' /\ Informs
  <1>0. PICK x, h : \E p \in PlacePage(x, h) :
          page' = [RekeyPages(p.keys) EXCEPT ![g] = p.key] /\ Change({g} \cup p.rekeyed)
    BY Zenon DEF CreatePage, UpdatePage, InsertPage, UpdatePageKey
  <1>1. PICK p \in PlacePage(x, h) :
          page' = [RekeyPages(p.keys) EXCEPT ![g] = p.key] /\ Change({g} \cup p.rekeyed)
    BY <1>0
  <1>2. UNCHANGED <<note, part, file, category>>
    BY DEF CreatePage, UpdatePage, noteVars
  <1>3. /\ DOMAIN RekeyPages(p.keys) = Pages
        /\ \A f \in Pages \ p.rekeyed : RekeyPages(p.keys)[f] = page[f]
    BY RekeyedPages
  <1>4. DOMAIN page' = Pages /\ \A f \in Pages \ ({g} \cup p.rekeyed) : page'[f] = page[f]
    BY <1>1, <1>3
  <1>5. NoteTable' /\ CategoryTable'
    BY <1>2 DEF NotesInv, Tables, NoteTable, CategoryTable
  <1> QED
    BY <1>1, <1>2, <1>4, <1>5, BoardOperationKeeps

LEMMA CreateCategoryKeeps ==
  ASSUME NotesInv, NEW c \in Categories, NEW g \in Pages, NEW after, CreateCategory(c, g, after)
  PROVE  NotesInv' /\ Informs
  <1>1. PICK p \in PlaceCategory(g, None, Behind(after)) :
          /\ category' = [RekeyCategories(p.keys) EXCEPT ![c] = [page |-> g, position |-> p.key]]
          /\ Change({c} \cup p.rekeyed)
    BY DEF CreateCategory, InsertCategory
  <1>2. UNCHANGED <<note, part, file, page>>
    BY DEF CreateCategory, noteVars
  <1>3. CategoryTable /\ NoteTable' /\ DOMAIN page' = Pages
    BY <1>2 DEF NotesInv, Tables, NoteTable
  <1>4. /\ DOMAIN RekeyCategories(p.keys) = Categories
        /\ \A d \in Categories : IsRow(RekeyCategories(p.keys)[d], CategoryColumns)
        /\ \A d \in Categories \ p.rekeyed : RekeyCategories(p.keys)[d] = category[d]
    BY <1>3, RekeyedCategories
  <1>5. IsRow([page |-> g, position |-> p.key], CategoryColumns)
    BY DEF IsRow, CategoryColumns
  <1>6. CategoryTable' /\ \A d \in Categories \ ({c} \cup p.rekeyed) : category'[d] = category[d]
    BY <1>1, <1>4, <1>5 DEF CategoryTable
  <1> QED
    BY <1>1, <1>2, <1>3, <1>6, BoardOperationKeeps

LEMMA UpdateCategoryKeeps ==
  ASSUME NotesInv, NEW c \in Categories, NEW g \in Pages, NEW h, UpdateCategory(c, g, h)
  PROVE  NotesInv' /\ Informs
  <1>1. PICK p \in PlaceCategory(g, c, h) :
          /\ category' = [RekeyCategories(p.keys) EXCEPT ![c].page = g, ![c].position = p.key]
          /\ Change({c} \cup p.rekeyed)
    BY DEF UpdateCategory, UpdateCategoryRow
  <1>2. UNCHANGED <<note, part, file, page>>
    BY DEF UpdateCategory, noteVars
  <1>3. CategoryTable /\ NoteTable' /\ DOMAIN page' = Pages
    BY <1>2 DEF NotesInv, Tables, NoteTable
  <1> DEFINE rows == RekeyCategories(p.keys)
  <1>4. /\ DOMAIN rows = Categories
        /\ \A d \in Categories : IsRow(rows[d], CategoryColumns)
        /\ \A d \in Categories \ p.rekeyed : rows[d] = category[d]
    BY <1>3, RekeyedCategories
  <1>5. category' = [rows EXCEPT ![c].page = g, ![c].position = p.key]
    BY <1>1
  <1> HIDE DEF rows
  <1>6. CategoryTable'
    BY <1>4, <1>5 DEF CategoryTable, IsRow, CategoryColumns
  <1>7. \A d \in Categories \ ({c} \cup p.rekeyed) : category'[d] = category[d]
    BY <1>4, <1>5
  <1> QED
    BY <1>1, <1>2, <1>3, <1>6, <1>7, BoardOperationKeeps

(* Deleting categories tells of the notes that return to the Inbox.        *)
LEMMA CategoriesDeleted ==
  ASSUME NoteTable, CategoryTable, NEW cs, note' = ReleaseNotes(cs), category' = DeleteCategories(cs)
  PROVE  /\ NoteTable' /\ CategoryTable'
         /\ \A n \in Notes \ NoteIDsInCategories(cs) : note'[n] = note[n]
         /\ \A c \in Categories \ cs : category'[c] = category[c]
  <1>1. /\ DOMAIN note' = Notes
        /\ \A n \in Notes : note'[n] = IF n \in NoteIDsInCategories(cs)
                                       THEN [note EXCEPT ![n].category = None, ![n].position = <<>>][n] ELSE note[n]
    BY DEF ReleaseNotes, SetNoteLocation
  <1>2. NoteTable'
    BY <1>1 DEF NoteTable, IsRow, NoteColumns
  <1>3. /\ DOMAIN category' = Categories
        /\ \A c \in Categories : category'[c] = IF c \in cs THEN [page |-> None, position |-> <<>>] ELSE category[c]
    BY DEF DeleteCategories
  <1>4. IsRow([page |-> None, position |-> <<>>], CategoryColumns)
    BY DEF IsRow, CategoryColumns
  <1>5. CategoryTable'
    BY <1>3, <1>4 DEF CategoryTable
  <1> QED
    BY <1>1, <1>2, <1>3, <1>5

LEMMA DeletePageKeeps ==
  ASSUME NotesInv, NEW g \in Pages, DeletePage(g)
  PROVE  NotesInv' /\ Informs
  <1> DEFINE cs == CategoryIDsOfPage(g)
  <1>1. /\ note' = ReleaseNotes(cs) /\ category' = DeleteCategories(cs) /\ page' = [page EXCEPT ![g] = <<>>]
        /\ UNCHANGED <<part, file>> /\ Change({g} \cup cs \cup NoteIDsInCategories(cs))
    BY DEF DeletePage, DeletePageRow
  <1> HIDE DEF cs
  <1>2. NoteTable /\ CategoryTable /\ DOMAIN page = Pages
    BY DEF NotesInv, Tables
  <1>3. /\ NoteTable' /\ CategoryTable'
        /\ \A n \in Notes \ NoteIDsInCategories(cs) : note'[n] = note[n]
        /\ \A c \in Categories \ cs : category'[c] = category[c]
    BY <1>1, <1>2, CategoriesDeleted
  <1>4. DOMAIN page' = Pages /\ \A f \in Pages \ {g} : page'[f] = page[f]
    BY <1>1, <1>2
  <1> QED
    BY <1>1, <1>3, <1>4, BoardOperationKeeps

LEMMA DeleteCategoryKeeps ==
  ASSUME NotesInv, NEW c \in Categories, DeleteCategory(c)
  PROVE  NotesInv' /\ Informs
  <1>1. /\ note' = ReleaseNotes({c}) /\ category' = DeleteCategories({c})
        /\ UNCHANGED <<part, file, page>> /\ Change({c} \cup NoteIDsInCategories({c}))
    BY DEF DeleteCategory
  <1>2. NoteTable /\ CategoryTable /\ DOMAIN page' = Pages
    BY <1>1 DEF NotesInv, Tables
  <1>3. /\ NoteTable' /\ CategoryTable'
        /\ \A n \in Notes \ NoteIDsInCategories({c}) : note'[n] = note[n]
        /\ \A d \in Categories \ {c} : category'[d] = category[d]
    BY <1>1, <1>2, CategoriesDeleted
  <1> QED
    BY <1>1, <1>2, <1>3, BoardOperationKeeps

-----------------------------------------------------------------------------
(* The board.                                                              *)
BoardInv == NotesInv /\ BrowsersSeeEverything

LEMMA OperationsKeep == NotesInv /\ (Places \/ Keeps) => NotesInv' /\ Informs
  <1> SUFFICES ASSUME NotesInv, Places \/ Keeps PROVE NotesInv' /\ Informs
    OBVIOUS
  <1>1. CASE CreateNote \/ MoveNote \/ SplitNotePart \/ DismissANote \/ RestoreANote
             \/ DeleteNotePermanently \/ MergeNotes
    BY <1>1, NotesNextKeeps DEF NotesNext
  <1>2. CASE PostPage
    BY <1>2, PageKeeps DEF PostPage
  <1>3. CASE PatchPage
    BY <1>3, PageKeeps DEF PatchPage
  <1>4. CASE PostCategory
    BY <1>4, CreateCategoryKeeps DEF PostCategory
  <1>5. CASE PatchCategory
    BY <1>5, UpdateCategoryKeeps DEF PatchCategory
  <1>6. CASE RemovePage
    BY <1>6, DeletePageKeeps DEF RemovePage
  <1>7. CASE RemoveCategory
    BY <1>7, DeleteCategoryKeeps DEF RemoveCategory
  <1> QED
    BY <1>1, <1>2, <1>3, <1>4, <1>5, <1>6, <1>7 DEF Places, Keeps

LEMMA WriteKeeps == NotesInv /\ Write => NotesInv' /\ Informs
  <1>1. Tick => UNCHANGED <<note, part, category, page, file, view>>
    BY DEF Tick, noteVars, boardVars
  <1>2. NotesInv /\ Tick => NotesInv' /\ Informs
    BY <1>1, NothingStored, NothingToTell DEF Informs
  <1> QED
    BY <1>2, OperationsKeep DEF Write

(* Readers change nothing that is stored.                                  *)
LEMMA StoredKeeps ==
  ASSUME BoardInv, UNCHANGED vars
  PROVE  BoardInv'
  <1>1. UNCHANGED <<note, part, category, page, file, view>>
    BY DEF vars, noteVars, boardVars
  <1> QED
    BY <1>1, NothingStored, NothingToTell DEF BoardInv

LEMMA BoardInit == Init => BoardInv
  <1> SUFFICES ASSUME Init PROVE BoardInv
    OBVIOUS
  <1>1. /\ IsRow(NoNote, NoteColumns) /\ DOMAIN NoPart = PartColumns /\ NoPart.file = None
        /\ IsRow([page |-> None, position |-> <<>>], CategoryColumns)
    BY DEF IsRow, NoNote, NoteColumns, NoPart, PartColumns, CategoryColumns
  <1>2. Tables
    BY <1>1 DEF Init, Tables, NoteTable, PartTable, CategoryTable
  <1>3. FilesBelongToOnePart
    BY <1>1 DEF Init, FilesBelongToOnePart
  <1>4. BrowsersSeeEverything
    BY Zenon DEF Init, BrowsersSeeEverything
  <1> QED
    BY <1>2, <1>3, <1>4 DEF BoardInv, NotesInv

(* A browser that asks again for whatever the change feed names shows what *)
(* is stored, however many notes, categories, pages and devices there are: *)
(* no operation of notes and board changes a row it does not name.         *)
THEOREM BrowsersShowWhatIsStored == Spec => []BrowsersSeeEverything
  <1>1. Init => BoardInv
    BY BoardInit
  <1>2. BoardInv /\ [BoardNext]_boardSpecVars => BoardInv'
    <2> SUFFICES ASSUME BoardInv, [BoardNext]_boardSpecVars PROVE BoardInv'
      OBVIOUS
    <2>1. CASE Write
      BY <2>1, WriteKeeps DEF BoardInv, Informs
    <2>2. CASE Read
      <3>1. UNCHANGED vars
        BY <2>2 DEF Read, OpenInbox, OpenTrash, OpenBoard, ReadFirst, ReadNext, Leave
      <3> QED
        BY <3>1, StoredKeeps
    <2>3. CASE UNCHANGED boardSpecVars
      BY <2>3, StoredKeeps DEF boardSpecVars
    <2> QED
      BY <2>1, <2>2, <2>3 DEF BoardNext
  <1>3. BoardInv => BrowsersSeeEverything
    BY DEF BoardInv
  <1> QED
    BY <1>1, <1>2, <1>3, PTL DEF Spec

(* The order of keys is a strict total order, over numbers of any size.    *)
LEMMA LessIsStrict ==
  ASSUME NEW a \in Seq(Nat)
  PROVE  ~ KeyLess(a, a)
  BY DEF KeyLess

(* What is before a key is before what comes behind it.                    *)
LEMMA LessIsTransitive ==
  ASSUME NEW a \in Seq(Nat), NEW b \in Seq(Nat), NEW c \in Seq(Nat), KeyLess(a, b), KeyLess(b, c)
  PROVE  KeyLess(a, c)
  <1>1. PICK n \in 0 .. Len(b) - 1 :
          /\ n <= Len(a)
          /\ \A i \in 1 .. n : a[i] = b[i]
          /\ n = Len(a) \/ a[n + 1] < b[n + 1]
    BY DEF KeyLess
  <1>2. PICK m \in 0 .. Len(c) - 1 :
          /\ m <= Len(b)
          /\ \A i \in 1 .. m : b[i] = c[i]
          /\ m = Len(b) \/ b[m + 1] < c[m + 1]
    BY DEF KeyLess
  <1>3. Len(a) \in Nat /\ Len(b) \in Nat /\ Len(c) \in Nat
    OBVIOUS
  <1>4. CASE n < m
    <2>1. n \in 0 .. Len(c) - 1
      BY <1>3, <1>4
    <2>3. \A i \in 1 .. n : a[i] = c[i]
      <3> SUFFICES ASSUME NEW i \in 1 .. n PROVE a[i] = c[i]
        OBVIOUS
      <3>1. i \in 1 .. m
        BY <1>4
      <3> QED
        BY <1>1, <1>2, <3>1
    <2>2. n = Len(a) \/ a[n + 1] < c[n + 1]
      <3>1. b[n + 1] = c[n + 1]
        BY <1>1, <1>2, <1>3, <1>4
      <3> QED
        BY <1>1, <3>1
    <2> QED
      BY <1>1, <2>1, <2>2, <2>3 DEF KeyLess
  <1>5. CASE m < n
    <2>1. m <= Len(a)
      BY <1>1, <1>3, <1>5
    <2>3. \A i \in 1 .. m : a[i] = c[i]
      <3> SUFFICES ASSUME NEW i \in 1 .. m PROVE a[i] = c[i]
        OBVIOUS
      <3>1. i \in 1 .. n
        BY <1>5
      <3> QED
        BY <1>1, <1>2, <3>1
    <2>2. a[m + 1] < c[m + 1]
      <3>1. a[m + 1] = b[m + 1] /\ m # Len(b)
        BY <1>1, <1>2, <1>3, <1>5
      <3> QED
        BY <1>2, <3>1
    <2> QED
      BY <1>2, <2>1, <2>2, <2>3 DEF KeyLess
  <1>6. CASE n = m
    <2>1. \A i \in 1 .. n : a[i] = c[i]
      BY <1>1, <1>2, <1>6
    <2>2. n = Len(a) \/ a[n + 1] < c[n + 1]
      <3>1. CASE n # Len(a)
        <4>1. n + 1 \in 1 .. Len(a) /\ n + 1 \in 1 .. Len(b) /\ n + 1 \in 1 .. Len(c)
          BY <1>1, <1>2, <1>3, <1>6, <3>1
        <4>2. a[n + 1] < b[n + 1] /\ b[n + 1] < c[n + 1]
          BY <1>1, <1>2, <1>3, <1>6, <3>1
        <4>3. a[n + 1] \in Nat /\ b[n + 1] \in Nat /\ c[n + 1] \in Nat
          BY <4>1, ElementOfSeq
        <4>4. \A x, y, z \in Nat : x < y /\ y < z => x < z
          OBVIOUS
        <4>5. a[n + 1] < c[n + 1]
          BY ONLY <4>2, <4>3, <4>4
        <4> QED
          BY <4>5
      <3> QED
        BY <3>1
    <2> QED
      BY <1>1, <1>2, <1>6, <2>1, <2>2 DEF KeyLess
  <1> QED
    BY <1>4, <1>5, <1>6

(* Of two keys one is before the other.                                    *)
LEMMA LessIsTotal ==
  ASSUME NEW a \in Seq(Nat), NEW b \in Seq(Nat), a # b
  PROVE  KeyLess(a, b) \/ KeyLess(b, a)
  <1> DEFINE differ == {n \in Nat : n + 1 > Len(a) \/ n + 1 > Len(b) \/ a[n + 1] # b[n + 1]}
  <1>1. Len(a) \in Nat /\ Len(b) \in Nat
    OBVIOUS
  <1>2. differ \subseteq Nat /\ Len(a) \in differ
    BY <1>1
  <1>3. PICK n \in differ : \A k \in differ : n <= k
    <2> HIDE DEF differ
    <2> QED
      BY <1>2, LeastNumber
  <1>4. n \in Nat /\ (n + 1 > Len(a) \/ n + 1 > Len(b) \/ a[n + 1] # b[n + 1])
    OBVIOUS
  <1>5. \A k \in 0 .. n - 1 : k + 1 <= Len(a) /\ k + 1 <= Len(b) /\ a[k + 1] = b[k + 1]
    <2> SUFFICES ASSUME NEW k \in 0 .. n - 1
                 PROVE  k + 1 <= Len(a) /\ k + 1 <= Len(b) /\ a[k + 1] = b[k + 1]
      OBVIOUS
    <2>1. k \in Nat /\ k < n
      BY <1>4
    <2>2. k \notin differ
      BY <1>3, <1>4, <2>1
    <2> QED
      BY <1>1, <2>1, <2>2
  <1> HIDE DEF differ
  <1>6. n <= Len(a) /\ n <= Len(b)
    <2>1. CASE n = 0
      BY <1>1, <2>1
    <2>2. CASE n # 0
      <3>1. n - 1 \in 0 .. n - 1 /\ (n - 1) + 1 = n
        BY <1>4, <2>2
      <3> QED
        BY <1>5, <3>1
    <2> QED
      BY <2>1, <2>2
  <1>7. \A i \in 1 .. n : a[i] = b[i]
    <2> SUFFICES ASSUME NEW i \in 1 .. n PROVE a[i] = b[i]
      OBVIOUS
    <2>1. i - 1 \in 0 .. n - 1 /\ (i - 1) + 1 = i
      BY <1>4
    <2> QED
      BY <1>5, <2>1
  <1>8. ~ (n = Len(a) /\ n = Len(b))
    <2> SUFFICES ASSUME n = Len(a), n = Len(b) PROVE FALSE
      OBVIOUS
    <2>1. a = b
      BY <1>7, SeqEqual
    <2> QED
      BY <2>1
  <1>9. CASE n = Len(a)
    <2>1. n \in 0 .. Len(b) - 1
      BY <1>1, <1>4, <1>6, <1>8, <1>9
    <2> QED
      BY <1>6, <1>7, <1>9, <2>1 DEF KeyLess
  <1>10. CASE n = Len(b)
    <2>1. n \in 0 .. Len(a) - 1
      BY <1>1, <1>4, <1>6, <1>8, <1>10
    <2>2. \A i \in 1 .. n : b[i] = a[i]
      BY <1>7
    <2> QED
      BY <1>6, <1>10, <2>1, <2>2 DEF KeyLess
  <1>11. CASE n # Len(a) /\ n # Len(b)
    <2>1. n \in 0 .. Len(a) - 1 /\ n \in 0 .. Len(b) - 1 /\ a[n + 1] # b[n + 1]
      BY <1>1, <1>4, <1>6, <1>11
    <2>2. a[n + 1] \in Nat /\ b[n + 1] \in Nat
      BY <1>1, <1>4, <2>1
    <2>3. CASE a[n + 1] < b[n + 1]
      BY <1>6, <1>7, <2>1, <2>3 DEF KeyLess
    <2>4. CASE b[n + 1] < a[n + 1]
      <3>1. \A i \in 1 .. n : b[i] = a[i]
        BY <1>7
      <3> QED
        BY <1>6, <2>1, <2>4, <3>1 DEF KeyLess
    <2> QED
      BY <2>1, <2>2, <2>3, <2>4
  <1> QED
    BY <1>9, <1>10, <1>11

(* The open end is before every key.                                       *)
LEMMA OpenIsLeast ==
  ASSUME NEW b \in Seq(Nat), b # Open
  PROVE  KeyLess(Open, b)
  <1>1. Len(b) \in Nat \ {0}
    BY DEF Open
  <1>2. 0 \in 0 .. Len(b) - 1 /\ Len(Open) = 0
    BY <1>1 DEF Open
  <1> QED
    BY <1>2 DEF KeyLess

(* Keys that differ in their first digit are ordered by it.                *)
LEMMA FirstDigitDecides ==
  ASSUME NEW a \in Seq(Nat), NEW b \in Seq(Nat), a # Open, b # Open, a[1] < b[1]
  PROVE  KeyLess(a, b)
  <1>1. Len(a) \in Nat \ {0} /\ Len(b) \in Nat \ {0}
    BY DEF Open
  <1>2. 0 \in 0 .. Len(b) - 1 /\ 0 <= Len(a) /\ 0 + 1 = 1
    BY <1>1
  <1> QED
    BY <1>2 DEF KeyLess

(* A common beginning does not change the order.                           *)
LEMMA BehindAPrefix ==
  ASSUME NEW p \in Seq(Nat), NEW x \in Seq(Nat), NEW y \in Seq(Nat), KeyLess(x, y)
  PROVE  KeyLess(p \o x, p \o y)
  <1>1. PICK n \in 0 .. Len(y) - 1 :
          /\ n <= Len(x)
          /\ \A i \in 1 .. n : x[i] = y[i]
          /\ n = Len(x) \/ x[n + 1] < y[n + 1]
    BY DEF KeyLess
  <1> DEFINE px == p \o x
  <1> DEFINE py == p \o y
  <1>2. PICK l \in Nat : l = Len(p)
    OBVIOUS
  <1>3. PICK lx \in Nat : lx = Len(x)
    OBVIOUS
  <1>4. PICK ly \in Nat : ly = Len(y)
    OBVIOUS
  <1>5. /\ Len(px) = l + lx /\ Len(py) = l + ly
        /\ \A i \in 1 .. l : px[i] = p[i] /\ py[i] = p[i]
        /\ \A i \in 1 .. lx : px[l + i] = x[i]
        /\ \A i \in 1 .. ly : py[l + i] = y[i]
    <2>1. /\ Len(px) = l + lx
          /\ \A i \in 1 .. l + lx : px[i] = IF i <= l THEN p[i] ELSE x[i - l]
      BY <1>2, <1>3, ConcatProperties
    <2>2. /\ Len(py) = l + ly
          /\ \A i \in 1 .. l + ly : py[i] = IF i <= l THEN p[i] ELSE y[i - l]
      BY <1>2, <1>4, ConcatProperties
    <2> HIDE DEF px, py
    <2>3. \A i \in 1 .. l : px[i] = p[i] /\ py[i] = p[i]
      BY <2>1, <2>2
    <2>4. ASSUME NEW i \in 1 .. lx PROVE px[l + i] = x[i]
      <3>1. l + i \in 1 .. l + lx /\ ~ (l + i <= l) /\ (l + i) - l = i
        OBVIOUS
      <3> QED
        BY <2>1, <3>1
    <2>5. ASSUME NEW i \in 1 .. ly PROVE py[l + i] = y[i]
      <3>1. l + i \in 1 .. l + ly /\ ~ (l + i <= l) /\ (l + i) - l = i
        OBVIOUS
      <3> QED
        BY <2>2, <3>1
    <2> QED
      BY <2>1, <2>2, <2>3, <2>4, <2>5
  <1> HIDE DEF px, py
  <1>6. \A i \in 1 .. l + n : px[i] = py[i]
    <2> SUFFICES ASSUME NEW i \in 1 .. l + n PROVE px[i] = py[i]
      OBVIOUS
    <2>1. CASE i <= l
      BY <1>5, <2>1
    <2>2. CASE i > l
      <3>1. i - l \in 1 .. n /\ i = l + (i - l)
        BY <2>2
      <3>2. i - l \in 1 .. lx /\ i - l \in 1 .. ly
        BY <1>1, <1>3, <1>4, <3>1
      <3>3. px[l + (i - l)] = x[i - l] /\ py[l + (i - l)] = y[i - l]
        BY <1>5, <3>2
      <3> QED
        BY <1>1, <3>1, <3>3
    <2> QED
      BY <2>1, <2>2
  <1>7. l + n = Len(px) \/ px[(l + n) + 1] < py[(l + n) + 1]
    <2>1. CASE n = lx
      BY <1>5, <2>1
    <2>2. CASE n # lx
      <3>1. n + 1 \in 1 .. lx /\ n + 1 \in 1 .. ly /\ (l + n) + 1 = l + (n + 1)
        BY <1>1, <1>3, <1>4, <2>2
      <3>2. px[l + (n + 1)] = x[n + 1] /\ py[l + (n + 1)] = y[n + 1]
        BY <1>5, <3>1
      <3> QED
        BY <1>1, <1>3, <2>2, <3>1, <3>2
    <2> QED
      BY <2>1, <2>2
  <1>8. l + n \in 0 .. Len(py) - 1 /\ l + n <= Len(px)
    BY <1>1, <1>3, <1>4, <1>5
  <1>9. KeyLess(px, py)
    BY <1>6, <1>7, <1>8 DEF KeyLess
  <1> QED
    BY <1>9 DEF px, py

(* What a key begins with is before it.                                    *)
LEMMA PrefixIsLess ==
  ASSUME NEW p \in Seq(Nat), NEW y \in Seq(Nat), y # Open
  PROVE  KeyLess(p, p \o y)
  <1>1. p \o Open = p
    BY DEF Open
  <1>2. Open \in Seq(Nat) /\ KeyLess(Open, y)
    BY OpenIsLeast DEF Open
  <1>3. KeyLess(p \o Open, p \o y)
    BY <1>2, BehindAPrefix
  <1> QED
    BY <1>1, <1>3

(* The digits of a key are numbers.                                        *)
LEMMA KeysAreNumbers ==
  ASSUME NEW k \in Keys
  PROVE  k \in Seq(Nat) /\ Len(k) \in Nat /\ \A i \in 1 .. Len(k) : k[i] \in Digits
  <1>1. Digits \subseteq Nat
    BY KeysAssumption DEF Digits
  <1>2. k \in Seq(Nat)
    BY <1>1, SeqMonotonic DEF Keys
  <1> QED
    BY <1>2, ElementOfSeq, LenProperties DEF Keys

(* A key, cut after its first n digits.                                    *)
LEMMA CutKey ==
  ASSUME NEW k \in Keys, NEW n \in 0 .. Len(k)
  PROVE  /\ UpTo(k, n) \in Keys /\ Len(UpTo(k, n)) = n
         /\ From(k, n) \in Keys /\ Len(From(k, n)) = Len(k) - n
         /\ k = UpTo(k, n) \o From(k, n)
         /\ \A i \in 1 .. n : UpTo(k, n)[i] = k[i]
         /\ \A i \in 1 .. Len(k) - n : From(k, n)[i] = k[n + i]
  <1>1. Len(k) \in Nat /\ \A i \in 1 .. Len(k) : k[i] \in Digits
    BY KeysAreNumbers
  <1>2. PICK len \in Nat : len = Len(k)
    BY <1>1
  <1>3. /\ UpTo(k, n) \in Keys /\ Len(UpTo(k, n)) = IF 1 <= n THEN n - 1 + 1 ELSE 0
        /\ \A i \in 1 .. n - 1 + 1 : UpTo(k, n)[i] = k[1 + i - 1]
    <2>1. \A i \in 1 .. n : k[i] \in Digits
      BY <1>1, <1>2
    <2>2. 1 \in Int /\ n \in Int
      BY <1>2
    <2> QED
      BY <2>1, <2>2, SubSeqProperties DEF UpTo, Keys
  <1>4. /\ From(k, n) \in Keys /\ Len(From(k, n)) = IF n + 1 <= len THEN len - (n + 1) + 1 ELSE 0
        /\ \A i \in 1 .. len - (n + 1) + 1 : From(k, n)[i] = k[(n + 1) + i - 1]
    <2>1. \A i \in n + 1 .. len : k[i] \in Digits
      BY <1>1, <1>2
    <2>2. n + 1 \in Int /\ len \in Int
      BY <1>2
    <2> QED
      BY <1>2, <2>1, <2>2, SubSeqProperties DEF From, Keys
  <1>5. k = UpTo(k, n) \o From(k, n)
    <2>1. /\ 1 \in 1 .. Len(k) + 1 /\ n \in 1 - 1 .. Len(k) /\ Len(k) \in n .. Len(k)
      BY <1>2
    <2>2. SubSeq(k, 1, n) \o SubSeq(k, n + 1, Len(k)) = SubSeq(k, 1, Len(k))
      BY <2>1, ConcatAdjacentSubSeq DEF Keys
    <2> QED
      BY <2>2, SubSeqFull DEF Keys, UpTo, From
  <1>6. Len(UpTo(k, n)) = n /\ Len(From(k, n)) = len - n
    BY <1>2, <1>3, <1>4
  <1>7. ASSUME NEW i \in 1 .. n PROVE UpTo(k, n)[i] = k[i]
    <2>1. i \in 1 .. n - 1 + 1 /\ 1 + i - 1 = i
      BY <1>2
    <2> QED
      BY <1>3, <2>1
  <1>8. ASSUME NEW i \in 1 .. len - n PROVE From(k, n)[i] = k[n + i]
    <2>1. i \in 1 .. len - (n + 1) + 1 /\ (n + 1) + i - 1 = n + i
      BY <1>2
    <2> QED
      BY <1>4, <2>1
  <1> QED
    BY <1>2, <1>3, <1>4, <1>5, <1>6, <1>7, <1>8

(* Behind all its digits a key has none.                                   *)
LEMMA NothingIsLeft ==
  ASSUME NEW k \in Keys, NEW n \in Nat, Len(k) <= n
  PROVE  From(k, n) = Open
  <1>1. Len(k) \in Nat
    BY KeysAreNumbers
  <1>2. n + 1 \in Int /\ Len(k) \in Int /\ Len(k) < n + 1
    BY <1>1
  <1> QED
    BY <1>2, SubSeqEmpty DEF From, Open

(* A key without its first digit.                                          *)
LEMMA TailOfKey ==
  ASSUME NEW k \in Keys, k # Open
  PROVE  /\ Tail(k) \in Keys /\ Len(k) \in Nat \ {0} /\ Len(Tail(k)) = Len(k) - 1
         /\ k[1] \in Digits /\ <<k[1]>> \in Keys /\ k = <<k[1]>> \o Tail(k)
         /\ \A i \in 1 .. Len(k) - 1 : Tail(k)[i] = k[i + 1]
  <1>1. Len(k) \in Nat \ {0}
    BY EmptySeq DEF Keys, Open
  <1>2. k[1] \in Digits /\ <<k[1]>> \in Keys
    <2>1. 1 \in 1 .. Len(k)
      BY <1>1
    <2>2. k[1] \in Digits
      BY <2>1, KeysAreNumbers
    <2> QED
      BY <2>2 DEF Keys
  <1>3. /\ Tail(k) \in Keys /\ Len(Tail(k)) = Len(k) - 1
        /\ \A i \in 1 .. Len(Tail(k)) : Tail(k)[i] = k[i + 1]
    BY HeadTailProperties DEF Keys, Open
  <1>4. k = <<k[1]>> \o Tail(k)
    BY <1>1, <1>2, <1>3 DEF Keys
  <1> QED
    BY <1>1, <1>2, <1>3, <1>4

(* Digits in front of a valid key make a valid key.                        *)
LEMMA JoinKeys ==
  ASSUME NEW p \in Keys, NEW y \in Keys, Valid(y)
  PROVE  p \o y \in Keys /\ Valid(p \o y)
  <1>1. PICK l \in Nat : l = Len(p)
    BY KeysAreNumbers
  <1>2. PICK m \in Nat \ {0} : m = Len(y)
    BY EmptySeq DEF Keys, Valid, Open
  <1>3. /\ p \o y \in Keys /\ Len(p \o y) = l + m
        /\ \A i \in 1 .. l + m : (p \o y)[i] = IF i <= l THEN p[i] ELSE y[i - l]
    BY <1>1, <1>2, ConcatProperties DEF Keys
  <1>4. (p \o y)[l + m] = y[m]
    <2>1. l + m \in 1 .. l + m /\ ~ (l + m <= l) /\ (l + m) - l = m
      BY <1>2
    <2> QED
      BY <1>3, <2>1
  <1>5. y[m] # 0
    BY <1>2 DEF Valid
  <1>6. p \o y # Open
    <2>1. l + m # 0 /\ Len(Open) = 0
      BY <1>2 DEF Open
    <2> QED
      BY <1>3, <2>1
  <1> QED
    BY <1>3, <1>4, <1>5, <1>6 DEF Valid, Keys

(* What is left of a valid key, when something is left, is valid.          *)
LEMMA RestIsValid ==
  ASSUME NEW k \in Keys, Valid(k), NEW n \in 0 .. Len(k) - 1
  PROVE  Valid(From(k, n))
  <1>1. PICK len \in Nat : len = Len(k)
    BY KeysAreNumbers
  <1>2. /\ From(k, n) \in Keys /\ Len(From(k, n)) = len - n
        /\ \A i \in 1 .. len - n : From(k, n)[i] = k[n + i]
    <2>1. n \in 0 .. Len(k)
      BY <1>1
    <2> QED
      BY <1>1, <2>1, CutKey
  <1>3. From(k, n)[len - n] = k[len]
    <2>1. len - n \in 1 .. len - n /\ n + (len - n) = len
      BY <1>1
    <2> QED
      BY <1>2, <2>1
  <1>4. From(k, n) # Open
    <2>1. len - n # 0 /\ Len(Open) = 0
      BY <1>1 DEF Open
    <2> QED
      BY <1>2, <2>1
  <1> QED
    BY <1>1, <1>2, <1>3, <1>4 DEF Valid, Keys

(* So is its tail.                                                         *)
LEMMA TailIsValid ==
  ASSUME NEW k \in Keys, Valid(k)
  PROVE  Tail(k) = Open \/ Valid(Tail(k))
  <1>1. k # Open
    BY DEF Valid
  <1>2. PICK len \in Nat \ {0} : len = Len(k)
    BY <1>1, TailOfKey
  <1>3. /\ Tail(k) \in Keys /\ Len(Tail(k)) = len - 1
        /\ \A i \in 1 .. len - 1 : Tail(k)[i] = k[i + 1]
    BY <1>1, <1>2, TailOfKey
  <1>4. CASE len = 1
    <2> SUFFICES ASSUME Tail(k) # Open PROVE FALSE
      OBVIOUS
    <2>1. Len(Tail(k)) \in Nat \ {0}
      BY <1>3, EmptySeq DEF Keys, Open
    <2> QED
      BY <1>3, <1>4, <2>1
  <1>5. CASE len # 1
    <2>1. len - 1 \in 1 .. len - 1 /\ (len - 1) + 1 = len
      BY <1>2, <1>5
    <2>2. Tail(k)[len - 1] = k[len]
      BY <1>3, <2>1
    <2>3. Tail(k) # Open
      <3>1. len - 1 # 0 /\ Len(Open) = 0
        BY <1>5 DEF Open
      <3> QED
        BY <1>3, <3>1
    <2> QED
      BY <1>2, <1>3, <2>2, <2>3 DEF Valid, Keys
  <1> QED
    BY <1>4, <1>5

(* CommonPrefix counts the digits two keys share, and no more.             *)
LEMMA PrefixInCommon ==
  ASSUME NEW a \in Keys, NEW b \in Keys
  PROVE  /\ CommonPrefix(a, b) \in 0 .. Len(b)
         /\ \A i \in 1 .. CommonPrefix(a, b) : Digit(a, i) = b[i]
         /\ CommonPrefix(a, b) < Len(b) => Digit(a, CommonPrefix(a, b) + 1) # b[CommonPrefix(a, b) + 1]
  <1>1. PICK len \in Nat : len = Len(b)
    BY KeysAreNumbers
  <1> DEFINE differ == {n \in 0 .. len : n = len \/ Digit(a, n + 1) # b[n + 1]}
  <1>2. differ \subseteq Nat /\ len \in differ
    BY <1>1
  <1>3. PICK n \in differ : \A k \in differ : n <= k
    <2> HIDE DEF differ
    <2> QED
      BY <1>2, LeastNumber
  <1>4. n \in 0 .. len /\ (n < len => Digit(a, n + 1) # b[n + 1])
    BY <1>1
  <1>5. ASSUME NEW i \in 1 .. n PROVE Digit(a, i) = b[i]
    <2>1. i - 1 \in 0 .. len /\ i - 1 # len /\ i - 1 < n /\ (i - 1) + 1 = i
      BY <1>1, <1>4
    <2>2. i - 1 \notin differ
      <3> HIDE DEF differ
      <3>1. ~ (n <= i - 1)
        BY <1>4
      <3> QED
        BY <1>3, <3>1
    <2> QED
      BY <2>1, <2>2
  <1> HIDE DEF differ
  <1>6. \E m \in 0 .. Len(b) :
          /\ \A i \in 1 .. m : Digit(a, i) = b[i]
          /\ m < Len(b) => Digit(a, m + 1) # b[m + 1]
    BY <1>1, <1>4, <1>5
  <1> QED
    BY <1>6 DEF CommonPrefix

-----------------------------------------------------------------------------
(* Midpoint does what its definition says.  A gap is halved by halving a   *)
(* smaller one, if any; so there is exactly one such function.             *)
Gaps == Keys \X Keys

(* The smaller gap.                                                        *)
Further(a, b) ==
  IF b = Open THEN <<Tail(a), Open>>
  ELSE IF a = Open THEN <<Open, Tail(b)>>
  ELSE IF CommonPrefix(a, b) > 0
  THEN <<From(a, CommonPrefix(a, b)), From(b, CommonPrefix(a, b))>>
  ELSE <<Tail(a), Open>>

(* The digits that remain to be looked at.                                 *)
Length(gap) == Len(gap[1]) + Len(gap[2])

(* The arms of Halve: above a key,                                         *)
LEMMA HalveAboveLower ==
  ASSUME NEW a, NEW f, a # Open
  PROVE  Halve(a, Open, f) =
           IF Digit(a, 1) < Base - 1 THEN <<Digit(a, 1) + 1>> ELSE <<Digit(a, 1)>> \o f[<<Tail(a), Open>>]
  BY DEF Halve

(* below one,                                                              *)
LEMMA HalveBelowUpper ==
  ASSUME NEW b, NEW f, b # Open
  PROVE  Halve(Open, b, f) =
           IF b[1] >= 2 THEN <<b[1] - 1>>
           ELSE IF Len(b) > 1 /\ b[1] = 0 THEN <<0>> \o f[<<Open, Tail(b)>>]
           ELSE <<0, Middle>>
  BY DEF Halve

(* between no keys,                                                        *)
LEMMA HalveEverything ==
  ASSUME NEW f
  PROVE  Halve(Open, Open, f) = <<(0 + Base + 1) \div 2>>
  <1>1. Open \in Keys /\ Len(Open) = 0
    BY DEF Keys, Open
  <1>2. CommonPrefix(Open, Open) = 0
    <2>1. CommonPrefix(Open, Open) \in 0 .. 0
      BY <1>1, PrefixInCommon
    <2> QED
      BY <2>1
  <1>3. Digit(Open, 1) = 0
    BY <1>1 DEF Digit
  <1>4. Base - 0 > 1
    BY KeysAssumption
  <1> QED
    BY <1>2, <1>3, <1>4 DEF Halve

(* between keys that begin alike,                                          *)
LEMMA HalveBehindPrefix ==
  ASSUME NEW a, NEW b, NEW f, a # Open, b # Open, CommonPrefix(a, b) > 0
  PROVE  Halve(a, b, f) = UpTo(b, CommonPrefix(a, b)) \o f[Further(a, b)]
  <1> DEFINE n == CommonPrefix(a, b)
  <1>1. Further(a, b) = <<From(a, n), From(b, n)>>
    BY DEF Further
  <1>2. Halve(a, b, f) = UpTo(b, n) \o f[<<From(a, n), From(b, n)>>]
    BY DEF Halve
  <1> QED
    BY <1>1, <1>2

(* between keys with a digit between their first ones,                     *)
LEMMA HalveBetweenDigits ==
  ASSUME NEW a, NEW b, NEW f, a # Open, b # Open, CommonPrefix(a, b) = 0, b[1] - Digit(a, 1) > 1
  PROVE  Halve(a, b, f) = <<(Digit(a, 1) + b[1] + 1) \div 2>>
  BY DEF Halve

(* and between keys whose first digits follow each other.                  *)
LEMMA HalveNextDigit ==
  ASSUME NEW a, NEW b, NEW f, a # Open, b # Open, CommonPrefix(a, b) = 0, ~ (b[1] - Digit(a, 1) > 1)
  PROVE  Halve(a, b, f) = IF Len(b) > 1 THEN <<b[1]>> ELSE <<Digit(a, 1)>> \o f[<<Tail(a), Open>>]
  BY DEF Halve

(* A gap is halved by looking at one other gap at most.                    *)
LEMMA HalveLooksFurther ==
  ASSUME NEW a \in Keys, NEW b \in Keys, NEW f, NEW g,
         a # Open \/ b # Open => f[Further(a, b)] = g[Further(a, b)]
  PROVE  Halve(a, b, f) = Halve(a, b, g)
  <1>1. CASE a = Open /\ b = Open
    BY <1>1, HalveEverything
  <1>2. CASE a # Open /\ b = Open
    <2>1. Further(a, b) = <<Tail(a), Open>>
      BY <1>2 DEF Further
    <2> QED
      BY <1>2, <2>1, HalveAboveLower
  <1>3. CASE a = Open /\ b # Open
    <2>1. f[<<Open, Tail(b)>>] = g[<<Open, Tail(b)>>]
      BY <1>3 DEF Further
    <2>2. \A h : Halve(a, b, h) = IF b[1] >= 2 THEN <<b[1] - 1>>
                                 ELSE IF Len(b) > 1 /\ b[1] = 0 THEN <<0>> \o h[<<Open, Tail(b)>>]
                                 ELSE <<0, Middle>>
      BY <1>3, HalveBelowUpper
    <2> QED
      BY <2>1, <2>2, Zenon
  <1>4. CASE a # Open /\ b # Open /\ CommonPrefix(a, b) > 0
    BY <1>4, HalveBehindPrefix
  <1>5. CASE a # Open /\ b # Open /\ ~ (CommonPrefix(a, b) > 0)
    <2>1. Further(a, b) = <<Tail(a), Open>>
      BY <1>5 DEF Further
    <2>2. CommonPrefix(a, b) = 0
      <3>1. Len(b) \in Nat /\ CommonPrefix(a, b) \in 0 .. Len(b)
        BY KeysAreNumbers, PrefixInCommon
      <3> QED
        BY <1>5, <3>1
    <2>3. CASE b[1] - Digit(a, 1) > 1
      BY <1>5, <2>2, <2>3, HalveBetweenDigits
    <2>4. CASE ~ (b[1] - Digit(a, 1) > 1)
      BY <1>5, <2>1, <2>2, <2>4, HalveNextDigit
    <2> QED
      BY <2>3, <2>4
  <1> QED
    BY <1>1, <1>2, <1>3, <1>4, <1>5

(* That gap is smaller.                                                    *)
LEMMA FurtherIsSmaller ==
  ASSUME NEW a \in Keys, NEW b \in Keys, a # Open \/ b # Open
  PROVE  /\ Further(a, b) \in Gaps
         /\ Length(Further(a, b)) \in Nat /\ Length(<<a, b>>) \in Nat
         /\ Length(Further(a, b)) < Length(<<a, b>>)
  <1>1. Open \in Keys /\ Len(Open) = 0
    BY DEF Keys, Open
  <1>2. PICK la \in Nat : la = Len(a)
    BY KeysAreNumbers
  <1>3. PICK lb \in Nat : lb = Len(b)
    BY KeysAreNumbers
  <1>4. Length(<<a, b>>) = la + lb
    BY <1>2, <1>3 DEF Length
  <1>5. SUFFICES ASSUME NEW c \in Keys, NEW d \in Keys, Further(a, b) = <<c, d>>
                 PROVE  Len(c) + Len(d) < la + lb
    <2>1. Further(a, b) \in Gaps
      <3>1. CASE b = Open
        BY <1>1, <3>1, TailOfKey DEF Further, Gaps
      <3>2. CASE b # Open /\ a = Open
        BY <1>1, <3>2, TailOfKey DEF Further, Gaps
      <3>3. CASE b # Open /\ a # Open /\ CommonPrefix(a, b) > 0
        <4> DEFINE n == CommonPrefix(a, b)
        <4>1. n \in 0 .. Len(b)
          BY PrefixInCommon
        <4>2. From(b, n) \in Keys
          BY <4>1, CutKey
        <4>3. From(a, n) \in Keys
          <5>1. CASE n <= la
            BY <1>2, <1>3, <4>1, <5>1, CutKey
          <5>2. CASE n > la
            BY <1>1, <1>2, <1>3, <4>1, <5>2, NothingIsLeft
          <5> QED
            BY <1>2, <1>3, <4>1, <5>1, <5>2
        <4> QED
          BY <3>3, <4>2, <4>3 DEF Further, Gaps
      <3>4. CASE b # Open /\ a # Open /\ ~ (CommonPrefix(a, b) > 0)
        BY <1>1, <3>4, TailOfKey DEF Further, Gaps
      <3> QED
        BY <3>1, <3>2, <3>3, <3>4
    <2>2. PICK c \in Keys, d \in Keys : Further(a, b) = <<c, d>>
      BY <2>1 DEF Gaps
    <2>3. Len(c) \in Nat /\ Len(d) \in Nat
      BY KeysAreNumbers
    <2>4. Length(Further(a, b)) = Len(c) + Len(d)
      BY <2>2 DEF Length
    <2> HIDE DEF Further
    <2> QED
      BY <1>4, <1>5, <2>1, <2>2, <2>3, <2>4
  <1>6. CASE b = Open
    <2>1. c = Tail(a) /\ d = Open
      BY <1>5, <1>6 DEF Further
    <2>2. Len(Tail(a)) = la - 1
      BY <1>2, <1>6, TailOfKey
    <2> QED
      BY <1>1, <1>2, <1>3, <2>1, <2>2
  <1>7. CASE b # Open /\ a = Open
    <2>1. c = Open /\ d = Tail(b)
      BY <1>5, <1>7 DEF Further
    <2>2. Len(Tail(b)) = lb - 1
      BY <1>3, <1>7, TailOfKey
    <2> QED
      BY <1>1, <1>2, <1>3, <2>1, <2>2
  <1>8. CASE b # Open /\ a # Open /\ CommonPrefix(a, b) > 0
    <2> DEFINE n == CommonPrefix(a, b)
    <2>1. n \in 0 .. lb /\ n > 0
      BY <1>3, <1>8, PrefixInCommon
    <2>2. c = From(a, n) /\ d = From(b, n)
      BY <1>5, <1>8 DEF Further
    <2> HIDE DEF n
    <2>3. Len(From(b, n)) = lb - n
      BY <1>3, <2>1, CutKey
    <2>4. Len(From(a, n)) \in 0 .. la
      <3>1. CASE n <= la
        <4>0. n \in 0 .. Len(a)
          BY <1>2, <1>3, <2>1, <3>1
        <4>1. Len(From(a, n)) = la - n
          BY <1>2, <4>0, CutKey
        <4> QED
          BY <1>2, <1>3, <2>1, <3>1, <4>1
      <3>2. CASE n > la
        <4>1. From(a, n) = Open
          BY <1>2, <1>3, <2>1, <3>2, NothingIsLeft
        <4> QED
          BY <1>1, <1>2, <4>1
      <3> QED
        BY <1>2, <1>3, <2>1, <3>1, <3>2
    <2> QED
      BY <1>2, <1>3, <2>1, <2>2, <2>3, <2>4
  <1>9. CASE b # Open /\ a # Open /\ ~ (CommonPrefix(a, b) > 0)
    <2>1. c = Tail(a) /\ d = Open
      BY <1>5, <1>9 DEF Further
    <2>2. Len(Tail(a)) = la - 1
      BY <1>2, <1>9, TailOfKey
    <2> QED
      BY <1>1, <1>2, <1>3, <2>1, <2>2
  <1> QED
    BY <1>6, <1>7, <1>8, <1>9

(* f halves every gap that is shorter than n as the code does.             *)
Halves(f, n) == \A gap \in Gaps : Length(gap) < n => f[gap] = Halve(gap[1], gap[2], f)

(* A gap is a pair of keys and has a length.                               *)
LEMMA LengthOfGap ==
  ASSUME NEW gap \in Gaps
  PROVE  gap[1] \in Keys /\ gap[2] \in Keys /\ Length(gap) \in Nat /\ gap = <<gap[1], gap[2]>>
  <1>1. gap[1] \in Keys /\ gap[2] \in Keys /\ gap = <<gap[1], gap[2]>>
    BY DEF Gaps
  <1>2. Len(gap[1]) \in Nat /\ Len(gap[2]) \in Nat
    BY <1>1, KeysAreNumbers
  <1> QED
    BY <1>1, <1>2 DEF Length

(* The smaller gap of a gap.                                               *)
LEMMA FurtherOfGap ==
  ASSUME NEW gap \in Gaps, gap[1] # Open \/ gap[2] # Open
  PROVE  /\ Further(gap[1], gap[2]) \in Gaps
         /\ Length(Further(gap[1], gap[2])) \in Nat
         /\ Length(Further(gap[1], gap[2])) < Length(gap)
  <1>1. gap[1] \in Keys /\ gap[2] \in Keys /\ gap = <<gap[1], gap[2]>>
    BY LengthOfGap
  <1> QED
    BY <1>1, FurtherIsSmaller

(* Two functions that halve short gaps as the code does agree on them.     *)
LEMMA HalvesAgree ==
  ASSUME NEW f, NEW g, NEW n \in Nat, NEW m \in Nat, Halves(f, n), Halves(g, m),
         NEW gap \in Gaps, Length(gap) < n, Length(gap) < m
  PROVE  f[gap] = g[gap]
  <1> SUFFICES ASSUME f[gap] # g[gap] PROVE FALSE
    OBVIOUS
  <1> DEFINE bad == {x \in Gaps : Length(x) < n /\ Length(x) < m /\ f[x] # g[x]}
  <1> DEFINE lengths == {Length(x) : x \in bad}
  <1>1. lengths \subseteq Nat /\ lengths # {}
    BY LengthOfGap
  <1>2. PICK l \in lengths : \A k \in lengths : l <= k
    <2> HIDE DEF lengths
    <2> QED
      BY <1>1, LeastNumber
  <1>3. PICK x \in bad : l = Length(x)
    OBVIOUS
  <1>4. x \in Gaps /\ Length(x) < n /\ Length(x) < m /\ f[x] # g[x] /\ Length(x) \in Nat
    BY LengthOfGap
  <1>5. \A y \in Gaps : Length(y) \in Nat /\ Length(y) < Length(x) => f[y] = g[y]
    <2> SUFFICES ASSUME NEW y \in Gaps, Length(y) \in Nat, Length(y) < Length(x), f[y] # g[y] PROVE FALSE
      OBVIOUS
    <2>1. Length(y) < n /\ Length(y) < m
      BY <1>4
    <2>2. Length(y) \in lengths
      BY <2>1
    <2> QED
      BY <1>2, <1>3, <1>4, <2>2
  <1> HIDE DEF bad, lengths
  <1>6. Halve(x[1], x[2], f) = Halve(x[1], x[2], g)
    <2>1. x[1] \in Keys /\ x[2] \in Keys
      BY <1>4, LengthOfGap
    <2>2. x[1] # Open \/ x[2] # Open => f[Further(x[1], x[2])] = g[Further(x[1], x[2])]
      BY <1>4, <1>5, FurtherOfGap
    <2> QED
      BY <2>1, <2>2, HalveLooksFurther
  <1> QED
    BY <1>4, <1>6 DEF Halves

(* There is one for gaps of every length.                                  *)
LEMMA HalvesExist ==
  ASSUME NEW n \in Nat
  PROVE  \E f : Halves(f, n)
  <1> SUFFICES ASSUME ~ \E f : Halves(f, n) PROVE FALSE
    OBVIOUS
  <1> DEFINE bad == {k \in Nat : ~ \E f : Halves(f, k)}
  <1>1. bad \subseteq Nat /\ bad # {}
    OBVIOUS
  <1>2. PICK m \in bad : \A k \in bad : m <= k
    <2> HIDE DEF bad
    <2> QED
      BY <1>1, LeastNumber
  <1>3. m \in Nat /\ ~ \E f : Halves(f, m)
    OBVIOUS
  <1>4. m # 0
    <2>1. \A f : Halves(f, 0)
      <3> SUFFICES ASSUME NEW f, NEW gap \in Gaps, Length(gap) < 0 PROVE FALSE
        BY DEF Halves
      <3> QED
        BY LengthOfGap
    <2> QED
      BY <1>3, <2>1
  <1>5. \E f : Halves(f, m - 1)
    <2>1. m - 1 \in Nat /\ ~ (m <= m - 1)
      BY <1>3, <1>4
    <2>2. m - 1 \notin bad
      BY <1>2, <2>1
    <2> QED
      BY <2>1, <2>2
  <1> HIDE DEF bad
  <1>6. PICK f : Halves(f, m - 1)
    BY <1>5
  <1> DEFINE g == [gap \in Gaps |-> Halve(gap[1], gap[2], f)]
  <1>7. \A gap \in Gaps : g[gap] = Halve(gap[1], gap[2], f)
    OBVIOUS
  <1> HIDE DEF g
  <1>8. ASSUME NEW gap \in Gaps, Length(gap) < m
        PROVE  g[gap] = Halve(gap[1], gap[2], g)
    <2>1. gap[1] \in Keys /\ gap[2] \in Keys /\ Length(gap) \in Nat
      BY LengthOfGap
    <2>2. ASSUME gap[1] # Open \/ gap[2] # Open
          PROVE  f[Further(gap[1], gap[2])] = g[Further(gap[1], gap[2])]
      <3> DEFINE x == Further(gap[1], gap[2])
      <3>1. x \in Gaps /\ Length(x) \in Nat /\ Length(x) < Length(gap)
        BY <2>2, FurtherOfGap
      <3>2. Length(x) < m - 1
        BY <1>3, <1>8, <2>1, <3>1
      <3> HIDE DEF x
      <3>3. f[x] = g[x]
        BY <1>6, <1>7, <3>1, <3>2 DEF Halves
      <3> QED
        BY <3>3 DEF x
    <2>3. Halve(gap[1], gap[2], f) = Halve(gap[1], gap[2], g)
      BY <2>1, <2>2, HalveLooksFurther
    <2> QED
      BY <1>7, <2>3
  <1>9. Halves(g, m)
    BY <1>8 DEF Halves
  <1> QED
    BY <1>3, <1>9

(* What Midpoint answers is what halving the gap gives, with what Midpoint *)
(* answers for the smaller gap.                                            *)
LEMMA MidpointHalves ==
  ASSUME NEW a \in Keys, NEW b \in Keys
  PROVE  Midpoint[<<a, b>>] = Halve(a, b, Midpoint)
  <1> DEFINE upto(n) == CHOOSE f : Halves(f, n)
  <1> DEFINE mid == [gap \in Gaps |-> upto(Length(gap) + 1)[gap]]
  <1>1. \A n \in Nat : Halves(upto(n), n)
    BY HalvesExist
  <1>2. \A gap \in Gaps : mid[gap] = upto(Length(gap) + 1)[gap]
    OBVIOUS
  <1>3. DOMAIN mid = Gaps /\ mid = [gap \in Gaps |-> mid[gap]]
    OBVIOUS
  <1> HIDE DEF upto, mid
  <1>4. ASSUME NEW gap \in Gaps
        PROVE  mid[gap] = Halve(gap[1], gap[2], mid)
    <2>1. gap[1] \in Keys /\ gap[2] \in Keys /\ Length(gap) \in Nat
      BY LengthOfGap
    <2> DEFINE f == upto(Length(gap) + 1)
    <2>2. Halves(f, Length(gap) + 1) /\ mid[gap] = f[gap]
      BY <1>1, <1>2, <2>1
    <2> HIDE DEF f
    <2>3. f[gap] = Halve(gap[1], gap[2], f)
      <3>1. Length(gap) < Length(gap) + 1
        BY <2>1
      <3> QED
        BY <2>2, <3>1 DEF Halves
    <2>4. ASSUME gap[1] # Open \/ gap[2] # Open
          PROVE  f[Further(gap[1], gap[2])] = mid[Further(gap[1], gap[2])]
      <3> DEFINE x == Further(gap[1], gap[2])
      <3>1. x \in Gaps /\ Length(x) \in Nat /\ Length(x) < Length(gap)
        BY <2>4, FurtherOfGap
      <3> HIDE DEF x
      <3> DEFINE g == upto(Length(x) + 1)
      <3>2. Halves(g, Length(x) + 1) /\ mid[x] = g[x]
        BY <1>1, <1>2, <3>1
      <3> HIDE DEF g
      <3>3. /\ Length(x) + 1 \in Nat /\ Length(gap) + 1 \in Nat
            /\ Length(x) < Length(x) + 1 /\ Length(x) < Length(gap) + 1
        BY <2>1, <3>1
      <3>4. f[x] = g[x]
        BY <2>2, <3>1, <3>2, <3>3, HalvesAgree
      <3> QED
        BY <3>2, <3>4 DEF x
    <2>5. Halve(gap[1], gap[2], f) = Halve(gap[1], gap[2], mid)
      BY <2>1, <2>4, HalveLooksFurther
    <2> QED
      BY <2>2, <2>3, <2>5
  <1>5. mid = [gap \in Gaps |-> Halve(gap[1], gap[2], mid)]
    <2>1. [gap \in Gaps |-> mid[gap]] = [gap \in Gaps |-> Halve(gap[1], gap[2], mid)]
      BY <1>4
    <2> QED
      BY <1>3, <2>1
  <1>6. Midpoint = CHOOSE f : f = [gap \in Gaps |-> Halve(gap[1], gap[2], f)]
    BY Zenon DEF Midpoint, Gaps, Keys
  <1>7. \E f : f = [gap \in Gaps |-> Halve(gap[1], gap[2], f)]
    BY <1>5
  <1>8. Midpoint = [gap \in Gaps |-> Halve(gap[1], gap[2], Midpoint)]
    BY <1>6, <1>7, Zenon
  <1>9. <<a, b>> \in Gaps /\ <<a, b>>[1] = a /\ <<a, b>>[2] = b
    BY DEF Gaps
  <1>10. \A gap \in Gaps : Midpoint[gap] = Halve(gap[1], gap[2], Midpoint)
    <2> DEFINE F == [gap \in Gaps |-> Halve(gap[1], gap[2], Midpoint)]
    <2>1. \A gap \in Gaps : F[gap] = Halve(gap[1], gap[2], Midpoint)
      OBVIOUS
    <2>2. Midpoint = F
      BY <1>8
    <2> HIDE DEF F
    <2> QED
      BY <2>1, <2>2, Zenon
  <1> QED
    BY <1>9, <1>10

-----------------------------------------------------------------------------
(* The key for a gap is strictly inside the gap.                           *)
IsGap(a, b) ==
  /\ a \in Keys /\ (a = Open \/ Valid(a))
  /\ b \in Keys /\ (b = Open \/ Valid(b))
  /\ a = Open \/ b = Open \/ KeyLess(a, b)

(* A valid key above the one and below the other.                          *)
Within(k, a, b) == k \in Keys /\ Valid(k) /\ KeyLess(a, k) /\ (b = Open \/ KeyLess(k, b))

(* A key of one digit that is not the smallest is valid.                   *)
LEMMA OneDigit ==
  ASSUME NEW d \in Digits, d # 0
  PROVE  <<d>> \in Keys /\ Valid(<<d>>) /\ <<d>> # Open /\ <<d>>[1] = d
  <1>1. <<d>> \in Seq(Digits) /\ Len(<<d>>) = 1 /\ <<d>>[1] = d
    OBVIOUS
  <1>2. <<d>> # Open
    BY DEF Open
  <1> QED
    BY <1>1, <1>2 DEF Keys, Valid

(* The first digit of a key that is not open.                              *)
LEMMA FirstDigit ==
  ASSUME NEW a \in Keys, a # Open
  PROVE  Digit(a, 1) = a[1] /\ a[1] \in Digits
  <1>1. Len(a) \in Nat \ {0} /\ a[1] \in Digits
    BY TailOfKey
  <1>2. ~ (1 > Len(a))
    BY <1>1
  <1> QED
    BY <1>1, <1>2 DEF Digit

(* The first digit decides, when it differs,                               *)
LEMMA FirstDigitOrders ==
  ASSUME NEW a \in Keys, NEW b \in Keys, a # Open, b # Open, a[1] < b[1]
  PROVE  KeyLess(a, b)
  <1>1. a \in Seq(Nat) /\ b \in Seq(Nat)
    BY KeysAreNumbers
  <1> QED
    BY <1>1, FirstDigitDecides

(* and behind an equal beginning the rest does.                            *)
LEMMA PrefixOrders ==
  ASSUME NEW p \in Keys, NEW x \in Keys, NEW y \in Keys, KeyLess(x, y)
  PROVE  KeyLess(p \o x, p \o y)
  <1>1. p \in Seq(Nat) /\ x \in Seq(Nat) /\ y \in Seq(Nat)
    BY KeysAreNumbers
  <1> QED
    BY <1>1, BehindAPrefix

(* Each arm of Halve puts a key inside its gap: above a key,               *)
LEMMA InsideAboveLower ==
  ASSUME NEW a \in Keys, Valid(a), NEW f, Within(f[<<Tail(a), Open>>], Tail(a), Open)
  PROVE  Within(Halve(a, Open, f), a, Open)
  <1>1. a # Open
    BY DEF Valid
  <1> DEFINE m == f[<<Tail(a), Open>>]
  <1>2. m \in Keys /\ Valid(m) /\ KeyLess(Tail(a), m)
    BY DEF Within
  <1> HIDE DEF m
  <1>3. Digit(a, 1) = a[1] /\ a[1] \in Digits
    BY <1>1, FirstDigit
  <1>4. Halve(a, Open, f) = IF a[1] < Base - 1 THEN <<a[1] + 1>> ELSE <<a[1]>> \o m
    BY <1>1, <1>3, HalveAboveLower DEF m
  <1>5. CASE a[1] < Base - 1
    <2>1. a[1] + 1 \in Digits /\ a[1] + 1 # 0 /\ a[1] < a[1] + 1
      BY <1>3, <1>5, KeysAssumption DEF Digits
    <2>2. KeyLess(a, <<a[1] + 1>>)
      <3>1. /\ <<a[1] + 1>> \in Keys /\ <<a[1] + 1>> # Open /\ <<a[1] + 1>>[1] = a[1] + 1
        BY <2>1, OneDigit
      <3> QED
        BY <1>1, <2>1, <3>1, FirstDigitOrders
    <2> QED
      BY <1>4, <1>5, <2>1, <2>2, OneDigit DEF Within
  <1>6. CASE ~ (a[1] < Base - 1)
    <2>1. <<a[1]>> \in Keys /\ Tail(a) \in Keys /\ a = <<a[1]>> \o Tail(a)
      BY <1>1, TailOfKey
    <2>2. KeyLess(<<a[1]>> \o Tail(a), <<a[1]>> \o m)
      BY <1>2, <2>1, PrefixOrders
    <2>3. KeyLess(a, <<a[1]>> \o m)
      BY <2>1, <2>2
    <2> QED
      BY <1>2, <1>4, <1>6, <2>1, <2>3, JoinKeys DEF Within
  <1> QED
    BY <1>5, <1>6

(* below one,                                                              *)
LEMMA InsideBelowUpper ==
  ASSUME NEW b \in Keys, Valid(b), NEW f, Within(f[<<Open, Tail(b)>>], Open, Tail(b))
  PROVE  Within(Halve(Open, b, f), Open, b)
  <1>1. b # Open
    BY DEF Valid
  <1> DEFINE m == f[<<Open, Tail(b)>>]
  <1>2. m \in Keys /\ Valid(m) /\ (Tail(b) = Open \/ KeyLess(m, Tail(b)))
    BY DEF Within
  <1> HIDE DEF m
  <1>3. Halve(Open, b, f) = IF b[1] >= 2 THEN <<b[1] - 1>>
                            ELSE IF Len(b) > 1 /\ b[1] = 0 THEN <<0>> \o m ELSE <<0, Middle>>
    BY <1>1, HalveBelowUpper DEF m
  <1>4. /\ Tail(b) \in Keys /\ Len(b) \in Nat \ {0} /\ Len(Tail(b)) = Len(b) - 1
        /\ b[1] \in Digits /\ b = <<b[1]>> \o Tail(b)
    BY <1>1, TailOfKey
  <1>5. SUFFICES /\ Halve(Open, b, f) \in Keys /\ Valid(Halve(Open, b, f))
                 /\ KeyLess(Halve(Open, b, f), b)
    <2>1. Halve(Open, b, f) \in Seq(Nat) /\ Halve(Open, b, f) # Open
      BY <1>5, KeysAreNumbers DEF Valid
    <2> QED
      BY <1>5, <2>1, OpenIsLeast DEF Within
  <1>6. CASE b[1] >= 2
    <2>1. b[1] - 1 \in Digits /\ b[1] - 1 # 0 /\ b[1] - 1 < b[1]
      BY <1>4, <1>6, KeysAssumption DEF Digits
    <2>2. <<b[1] - 1>> \in Keys /\ Valid(<<b[1] - 1>>) /\ <<b[1] - 1>> # Open /\ <<b[1] - 1>>[1] = b[1] - 1
      BY <2>1, OneDigit
    <2>3. KeyLess(<<b[1] - 1>>, b)
      BY <1>1, <2>1, <2>2, FirstDigitOrders
    <2> QED
      BY <1>3, <1>6, <2>2, <2>3
  <1>7. CASE Len(b) > 1 /\ b[1] = 0
    <2>1. <<0>> \in Keys /\ b = <<0>> \o Tail(b)
      BY <1>4, <1>7 DEF Keys
    <2>2. Tail(b) # Open
      <3>1. Len(Tail(b)) # 0 /\ Len(Open) = 0
        BY <1>4, <1>7 DEF Open
      <3> QED
        BY <3>1
    <2>3. KeyLess(<<0>> \o m, <<0>> \o Tail(b))
      BY <1>2, <1>4, <2>1, <2>2, PrefixOrders
    <2>4. <<0>> \o m \in Keys /\ Valid(<<0>> \o m)
      BY <1>2, <2>1, JoinKeys
    <2>5. ~ (b[1] >= 2)
      BY <1>7
    <2>6. Halve(Open, b, f) = <<0>> \o m
      BY <1>3, <1>7, <2>5
    <2> QED
      BY <2>1, <2>3, <2>4, <2>6
  <1>8. CASE ~ (b[1] >= 2) /\ ~ (Len(b) > 1 /\ b[1] = 0)
    <2>1. b[1] # 0
      <3>1. CASE Len(b) > 1
        BY <1>8, <3>1
      <3>2. CASE ~ (Len(b) > 1)
        <4>1. Len(b) = 1
          BY <1>4, <3>2
        <4> QED
          BY <4>1 DEF Valid
      <3> QED
        BY <3>1, <3>2
    <2>2. 0 \in Digits /\ Middle \in Digits /\ Middle # 0
      BY KeysAssumption DEF Digits, Middle
    <2>3. <<0, Middle>> \in Keys /\ Len(<<0, Middle>>) = 2 /\ <<0, Middle>>[2] = Middle /\ <<0, Middle>>[1] = 0
      BY <2>2 DEF Keys
    <2>4. <<0, Middle>> # Open
      BY DEF Open
    <2>5. Valid(<<0, Middle>>)
      BY <2>2, <2>3, <2>4 DEF Valid, Keys
    <2>6. 0 < b[1]
      BY <1>4, <2>1, KeysAssumption DEF Digits
    <2>7. KeyLess(<<0, Middle>>, b)
      BY <1>1, <2>3, <2>4, <2>6, FirstDigitOrders
    <2>8. Halve(Open, b, f) = <<0, Middle>>
      BY <1>3, <1>8
    <2> QED
      BY <2>3, <2>5, <2>7, <2>8
  <1> QED
    BY <1>6, <1>7, <1>8

(* between no keys,                                                        *)
LEMMA InsideEverything ==
  ASSUME NEW f
  PROVE  Within(Halve(Open, Open, f), Open, Open)
  <1> DEFINE d == (0 + Base + 1) \div 2
  <1>1. d \in Digits /\ d # 0
    BY KeysAssumption DEF Digits
  <1>2. Halve(Open, Open, f) = <<d>>
    BY HalveEverything
  <1> HIDE DEF d
  <1>3. <<d>> \in Keys /\ Valid(<<d>>) /\ <<d>> # Open
    BY <1>1, OneDigit
  <1>4. KeyLess(Open, <<d>>)
    BY <1>3, KeysAreNumbers, OpenIsLeast
  <1> QED
    BY <1>2, <1>3, <1>4 DEF Within

(* Behind the digits they share, the lower of two keys has the lower digit.*)
LEMMA LowerDigit ==
  ASSUME NEW a \in Keys, NEW b \in Keys, Valid(b), KeyLess(a, b)
  PROVE  /\ CommonPrefix(a, b) \in 0 .. Len(b) - 1
         /\ Digit(a, CommonPrefix(a, b) + 1) < b[CommonPrefix(a, b) + 1]
  <1>1. PICK la \in Nat : la = Len(a)
    BY KeysAreNumbers
  <1>2. PICK lb \in Nat : lb = Len(b)
    BY KeysAreNumbers
  <1>3. PICK k \in 0 .. lb - 1 :
          /\ k <= la
          /\ \A i \in 1 .. k : a[i] = b[i]
          /\ k = la \/ a[k + 1] < b[k + 1]
    BY <1>1, <1>2 DEF KeyLess
  <1>4. PICK n \in 0 .. lb : n = CommonPrefix(a, b)
    BY <1>2, PrefixInCommon
  <1>5. /\ \A i \in 1 .. n : Digit(a, i) = b[i]
        /\ n < lb => Digit(a, n + 1) # b[n + 1]
    BY <1>2, <1>4, PrefixInCommon
  <1>6. /\ \A i \in 1 .. la : a[i] \in Nat /\ Digit(a, i) = a[i]
        /\ \A i \in Nat : i > la => Digit(a, i) = 0
        /\ \A i \in 1 .. lb : b[i] \in Nat
    <2>1. Digits \subseteq Nat
      BY KeysAssumption DEF Digits
    <2>2. (\A i \in 1 .. la : a[i] \in Nat) /\ (\A i \in 1 .. lb : b[i] \in Nat)
      BY <1>1, <1>2, <2>1, KeysAreNumbers
    <2>3. (\A i \in 1 .. la : Digit(a, i) = a[i]) /\ (\A i \in Nat : i > la => Digit(a, i) = 0)
      BY <1>1 DEF Digit
    <2> QED
      BY <2>2, <2>3
  <1>7. ASSUME k < n PROVE k = la
    <2> SUFFICES ASSUME k # la PROVE FALSE
      OBVIOUS
    <2>1. k + 1 \in 1 .. n /\ k + 1 \in 1 .. la /\ k + 1 \in 1 .. lb /\ a[k + 1] < b[k + 1]
      BY <1>1, <1>2, <1>3, <1>4, <1>7
    <2>2. a[k + 1] = b[k + 1]
      BY <1>5, <1>6, <2>1
    <2> QED
      BY <1>6, <2>1, <2>2
  <1>8. n < lb
    <2> SUFFICES ASSUME n = lb PROVE FALSE
      BY <1>2, <1>4
    <2>1. k < n
      BY <1>2, <1>3
    <2>2. lb > la /\ lb \in 1 .. n
      BY <1>1, <1>2, <1>3, <1>7, <2>1
    <2>3. b[lb] = 0
      BY <1>5, <1>6, <2>2
    <2> QED
      BY <1>2, <2>3 DEF Valid
  <1>9. Digit(a, n + 1) < b[n + 1]
    <2>1. n + 1 \in 1 .. lb /\ b[n + 1] \in Nat /\ Digit(a, n + 1) # b[n + 1]
      BY <1>2, <1>4, <1>5, <1>6, <1>8
    <2>2. CASE n < k
      <3>1. n + 1 \in 1 .. k /\ n + 1 \in 1 .. la
        BY <1>1, <1>3, <1>4, <2>2
      <3> QED
        BY <1>3, <1>6, <2>1, <3>1
    <2>3. CASE n >= k /\ n + 1 > la
      <3>1. Digit(a, n + 1) = 0
        BY <1>4, <1>6, <2>3
      <3> QED
        BY <2>1, <3>1
    <2>4. CASE n >= k /\ ~ (n + 1 > la)
      <3>1. n = k /\ k # la
        BY <1>1, <1>3, <1>4, <1>7, <2>4
      <3>2. n + 1 \in 1 .. la
        BY <1>1, <1>4, <2>4
      <3> QED
        BY <1>3, <1>6, <3>1, <3>2
    <2> QED
      BY <1>3, <1>4, <2>2, <2>3, <2>4
  <1> QED
    BY <1>2, <1>4, <1>8, <1>9

(* The gap behind a common prefix is a gap.                                *)
LEMMA GapBehindPrefix ==
  ASSUME NEW a \in Keys, NEW b \in Keys, Valid(a), Valid(b), KeyLess(a, b),
         NEW n \in Nat, n = CommonPrefix(a, b)
  PROVE  IsGap(From(a, n), From(b, n)) /\ From(b, n) # Open
  <1>1. PICK la \in Nat : la = Len(a)
    BY KeysAreNumbers
  <1>2. PICK lb \in Nat : lb = Len(b)
    BY KeysAreNumbers
  <1>3. n \in 0 .. lb - 1 /\ Digit(a, n + 1) < b[n + 1]
    BY <1>2, LowerDigit
  <1>4. Valid(From(b, n))
    BY <1>2, <1>3, RestIsValid
  <1>5. From(b, n) \in Keys /\ \A i \in 1 .. lb - n : From(b, n)[i] = b[n + i]
    <2>1. n \in 0 .. Len(b)
      BY <1>2, <1>3
    <2> QED
      BY <1>2, <2>1, CutKey
  <1>6. From(b, n) # Open
    BY <1>4 DEF Valid
  <1>7. CASE n < la
    <2>1. Valid(From(a, n))
      <3>1. n \in 0 .. Len(a) - 1
        BY <1>1, <1>7
      <3> QED
        BY <3>1, RestIsValid
    <2>2. From(a, n) \in Keys /\ \A i \in 1 .. la - n : From(a, n)[i] = a[n + i]
      <3>1. n \in 0 .. Len(a)
        BY <1>1, <1>7
      <3> QED
        BY <1>1, <3>1, CutKey
    <2>3. From(a, n)[1] = a[n + 1] /\ From(b, n)[1] = b[n + 1]
      <3>1. 1 \in 1 .. la - n /\ 1 \in 1 .. lb - n
        BY <1>1, <1>2, <1>3, <1>7
      <3> QED
        BY <1>5, <2>2, <3>1
    <2>4. Digit(a, n + 1) = a[n + 1]
      <3>1. ~ (n + 1 > Len(a))
        BY <1>1, <1>7
      <3> QED
        BY <3>1 DEF Digit
    <2>5. From(a, n) # Open
      BY <2>1 DEF Valid
    <2>6. From(a, n)[1] < From(b, n)[1]
      BY <1>3, <2>3, <2>4
    <2>7. KeyLess(From(a, n), From(b, n))
      BY <1>5, <1>6, <2>2, <2>5, <2>6, FirstDigitOrders
    <2> QED
      BY <1>4, <1>5, <1>6, <2>1, <2>2, <2>7 DEF IsGap
  <1>8. CASE ~ (n < la)
    <2>1. From(a, n) = Open
      <3>1. Len(a) <= n
        BY <1>1, <1>8
      <3> QED
        BY <3>1, NothingIsLeft
    <2>2. Open \in Keys
      BY DEF Open, Keys
    <2> QED
      BY <1>4, <1>5, <1>6, <2>1, <2>2 DEF IsGap
  <1> QED
    BY <1>7, <1>8

(* between keys that begin alike,                                          *)
LEMMA InsideBehindPrefix ==
  ASSUME NEW a \in Keys, NEW b \in Keys, Valid(a), Valid(b), KeyLess(a, b),
         NEW n \in Nat, n = CommonPrefix(a, b),
         NEW m, Within(m, From(a, n), From(b, n))
  PROVE  Within(UpTo(b, n) \o m, a, b)
  <1>1. PICK la \in Nat : la = Len(a)
    BY KeysAreNumbers
  <1>2. PICK lb \in Nat : lb = Len(b)
    BY KeysAreNumbers
  <1>3. n \in 0 .. lb - 1 /\ \A i \in 1 .. n : Digit(a, i) = b[i]
    BY <1>2, LowerDigit, PrefixInCommon
  <1> DEFINE p == UpTo(b, n)
  <1>4. /\ p \in Keys /\ Len(p) = n /\ b = p \o From(b, n) /\ From(b, n) \in Keys
        /\ \A i \in 1 .. n : p[i] = b[i]
    <2>1. n \in 0 .. Len(b)
      BY <1>2, <1>3
    <2> QED
      BY <2>1, CutKey
  <1> HIDE DEF p
  <1>5. From(b, n) # Open
    BY GapBehindPrefix
  <1>6. m \in Keys /\ Valid(m) /\ KeyLess(From(a, n), m) /\ KeyLess(m, From(b, n))
    BY <1>5 DEF Within
  <1>7. p \o m \in Keys /\ Valid(p \o m)
    BY <1>4, <1>6, JoinKeys
  <1>8. KeyLess(p \o m, b)
    <2>1. KeyLess(p \o m, p \o From(b, n))
      BY <1>4, <1>6, PrefixOrders
    <2> QED
      BY <1>4, <2>1
  <1>9. KeyLess(a, p \o m)
    <2>1. CASE n <= la
      <3>1. n \in 0 .. Len(a)
        BY <1>1, <2>1
      <3>2. /\ UpTo(a, n) \in Keys /\ Len(UpTo(a, n)) = n /\ a = UpTo(a, n) \o From(a, n)
            /\ From(a, n) \in Keys
            /\ \A i \in 1 .. n : UpTo(a, n)[i] = a[i]
        BY <3>1, CutKey
      <3>3. \A i \in 1 .. n : Digit(a, i) = a[i]
        BY <1>1, <2>1 DEF Digit
      <3>4. UpTo(a, n) = p
        <4>1. \A i \in 1 .. n : UpTo(a, n)[i] = p[i]
          BY <1>3, <1>4, <3>2, <3>3
        <4> QED
          BY <1>4, <3>2, <4>1, SeqEqual DEF Keys
      <3>5. KeyLess(p \o From(a, n), p \o m)
        BY <1>4, <1>6, <3>2, PrefixOrders
      <3> QED
        BY <3>2, <3>4, <3>5
    <2>2. CASE n > la
      <3>1. PICK lm \in Nat : lm = Len(m)
        BY <1>6, KeysAreNumbers
      <3>2. /\ Len(p \o m) = n + lm
            /\ \A i \in 1 .. n + lm : (p \o m)[i] = IF i <= n THEN p[i] ELSE m[i - n]
        <4>1. p \in Seq(Digits) /\ m \in Seq(Digits) /\ Len(p) = n
          BY <1>4, <1>6 DEF Keys
        <4>2. /\ Len(p \o m) = Len(p) + Len(m)
              /\ \A i \in 1 .. Len(p) + Len(m) : (p \o m)[i] = IF i <= Len(p) THEN p[i] ELSE m[i - Len(p)]
          BY <4>1, ConcatProperties
        <4> QED
          BY <3>1, <4>1, <4>2
      <3>3. \A i \in 1 .. la : a[i] = (p \o m)[i]
        <4> SUFFICES ASSUME NEW i \in 1 .. la PROVE a[i] = (p \o m)[i]
          OBVIOUS
        <4>1. i \in 1 .. n /\ i \in 1 .. n + lm /\ i <= n /\ ~ (i > la)
          BY <2>2
        <4>2. (p \o m)[i] = p[i]
          BY <3>2, <4>1
        <4>3. Digit(a, i) = a[i]
          BY <1>1, <4>1 DEF Digit
        <4> QED
          BY <1>3, <1>4, <4>1, <4>2, <4>3
      <3>4. la \in 0 .. Len(p \o m) - 1
        BY <2>2, <3>2
      <3> QED
        BY <1>1, <3>3, <3>4 DEF KeyLess
    <2> QED
      BY <1>1, <1>3, <2>1, <2>2
  <1> QED
    BY <1>7, <1>8, <1>9 DEF Within, p

(* and between keys with different first digits.                           *)
LEMMA InsideDigits ==
  ASSUME NEW a \in Keys, NEW b \in Keys, Valid(a), Valid(b), KeyLess(a, b), CommonPrefix(a, b) = 0,
         NEW f, Within(f[<<Tail(a), Open>>], Tail(a), Open)
  PROVE  Within(Halve(a, b, f), a, b)
  <1>1. a # Open /\ b # Open
    BY DEF Valid
  <1> DEFINE m == f[<<Tail(a), Open>>]
  <1>2. m \in Keys /\ Valid(m) /\ KeyLess(Tail(a), m)
    BY DEF Within
  <1> HIDE DEF m
  <1>3. Digit(a, 1) = a[1] /\ a[1] \in Digits /\ b[1] \in Digits
    BY <1>1, FirstDigit
  <1>4. a[1] < b[1]
    BY <1>3, LowerDigit
  <1>5. a[1] \in Nat /\ b[1] \in Nat /\ b[1] <= Base - 1 /\ Base \in Nat
    BY <1>3, KeysAssumption DEF Digits
  <1>6. CASE b[1] - a[1] > 1
    <2> DEFINE d == (a[1] + b[1] + 1) \div 2
    <2>1. d \in Digits /\ d # 0 /\ a[1] < d /\ d < b[1]
      BY <1>5, <1>6 DEF Digits
    <2>2. Halve(a, b, f) = <<d>>
      BY <1>1, <1>3, <1>6, HalveBetweenDigits
    <2> HIDE DEF d
    <2>3. <<d>> \in Keys /\ Valid(<<d>>) /\ <<d>> # Open /\ <<d>>[1] = d
      BY <2>1, OneDigit
    <2>4. KeyLess(a, <<d>>) /\ KeyLess(<<d>>, b)
      BY <1>1, <2>1, <2>3, FirstDigitOrders
    <2> QED
      BY <2>2, <2>3, <2>4 DEF Within
  <1>7. CASE ~ (b[1] - a[1] > 1)
    <2>1. Halve(a, b, f) = IF Len(b) > 1 THEN <<b[1]>> ELSE <<a[1]>> \o m
      BY <1>1, <1>3, <1>7, HalveNextDigit DEF m
    <2>2. CASE Len(b) > 1
      <3>1. b[1] # 0
        BY <1>4, <1>5
      <3>2. <<b[1]>> \in Keys /\ Valid(<<b[1]>>) /\ <<b[1]>> # Open /\ <<b[1]>>[1] = b[1]
        BY <1>3, <3>1, OneDigit
      <3>3. KeyLess(a, <<b[1]>>)
        BY <1>1, <1>4, <3>2, FirstDigitOrders
      <3>4. KeyLess(<<b[1]>>, b)
        <4>1. Tail(b) \in Keys /\ Len(Tail(b)) = Len(b) - 1 /\ b = <<b[1]>> \o Tail(b) /\ Len(b) \in Nat
          BY <1>1, TailOfKey
        <4>2. Tail(b) # Open
          <5>1. Len(Tail(b)) # 0 /\ Len(Open) = 0
            BY <2>2, <4>1 DEF Open
          <5> QED
            BY <5>1
        <4>3. KeyLess(<<b[1]>>, <<b[1]>> \o Tail(b))
          <5>1. <<b[1]>> \in Seq(Nat) /\ Tail(b) \in Seq(Nat)
            BY <3>2, <4>1, KeysAreNumbers
          <5> QED
            BY <4>2, <5>1, PrefixIsLess
        <4> QED
          BY <4>1, <4>3
      <3> QED
        BY <2>1, <2>2, <3>2, <3>3, <3>4 DEF Within
    <2>3. CASE ~ (Len(b) > 1)
      <3>1. <<a[1]>> \in Keys /\ Tail(a) \in Keys /\ a = <<a[1]>> \o Tail(a)
        BY <1>1, TailOfKey
      <3>2. KeyLess(<<a[1]>> \o Tail(a), <<a[1]>> \o m)
        BY <1>2, <3>1, PrefixOrders
      <3>3. KeyLess(a, <<a[1]>> \o m)
        BY <3>1, <3>2
      <3>4. <<a[1]>> \o m \in Keys /\ Valid(<<a[1]>> \o m)
        BY <1>2, <3>1, JoinKeys
      <3>5. KeyLess(<<a[1]>> \o m, b)
        <4>1. (<<a[1]>> \o m)[1] = a[1]
          <5>1. Len(<<a[1]>>) = 1 /\ <<a[1]>>[1] = a[1] /\ 1 \in 1 .. Len(<<a[1]>>) + Len(m)
            BY <1>2, KeysAreNumbers
          <5> QED
            BY <1>2, <3>1, <5>1, ConcatProperties DEF Keys
        <4>2. <<a[1]>> \o m # Open
          BY <3>4 DEF Valid
        <4> QED
          BY <1>1, <1>4, <3>4, <4>1, <4>2, FirstDigitOrders
      <3> QED
        BY <2>1, <2>3, <3>3, <3>4, <3>5 DEF Within
    <2> QED
      BY <2>2, <2>3
  <1> QED
    BY <1>6, <1>7

(* The open end is a sequence of digits, an empty one.                     *)
LEMMA OpenIsAKey == Open \in Keys /\ Len(Open) = 0
  BY DEF Open, Keys

(* The smaller gap has its ends in order.                                  *)
LEMMA FurtherIsAGap ==
  ASSUME NEW a, NEW b, IsGap(a, b), a # Open \/ b # Open
  PROVE  IsGap(Further(a, b)[1], Further(a, b)[2])
  <1>0. a \in Keys /\ (a = Open \/ Valid(a)) /\ b \in Keys /\ (b = Open \/ Valid(b))
    BY DEF IsGap
  <1>1. ASSUME a # Open PROVE IsGap(Tail(a), Open)
    BY <1>0, <1>1, TailOfKey, TailIsValid, OpenIsAKey DEF IsGap
  <1>2. ASSUME b # Open PROVE IsGap(Open, Tail(b))
    BY <1>0, <1>2, TailOfKey, TailIsValid, OpenIsAKey DEF IsGap
  <1>3. CASE b = Open
    <2>1. Further(a, b) = <<Tail(a), Open>> /\ a # Open
      BY <1>3 DEF Further
    <2> QED
      BY <1>1, <2>1
  <1>4. CASE b # Open /\ a = Open
    <2>1. Further(a, b) = <<Open, Tail(b)>>
      BY <1>4 DEF Further
    <2> QED
      BY <1>2, <1>4, <2>1
  <1>5. CASE b # Open /\ a # Open /\ CommonPrefix(a, b) > 0
    <2> DEFINE n == CommonPrefix(a, b)
    <2>1. n \in Nat
      <3>1. n \in 0 .. Len(b) /\ Len(b) \in Nat
        BY <1>0, KeysAreNumbers, PrefixInCommon
      <3> QED
        BY <3>1
    <2>2. Further(a, b) = <<From(a, n), From(b, n)>>
      BY <1>5 DEF Further
    <2>3. KeyLess(a, b)
      BY <1>5 DEF IsGap
    <2>4. IsGap(From(a, n), From(b, n))
      BY <1>0, <1>5, <2>1, <2>3, GapBehindPrefix
    <2> QED
      BY <2>2, <2>4
  <1>6. CASE b # Open /\ a # Open /\ ~ (CommonPrefix(a, b) > 0)
    <2>1. Further(a, b) = <<Tail(a), Open>>
      BY <1>6 DEF Further
    <2> QED
      BY <1>1, <1>6, <2>1
  <1> QED
    BY <1>3, <1>4, <1>5, <1>6

(* One halving puts a key inside its gap when the next one does.           *)
LEMMA HalveInside ==
  ASSUME NEW a, NEW b, IsGap(a, b), NEW f,
         a # Open \/ b # Open => Within(f[Further(a, b)], Further(a, b)[1], Further(a, b)[2])
  PROVE  Within(Halve(a, b, f), a, b)
  <1>0. a \in Keys /\ (a = Open \/ Valid(a)) /\ b \in Keys /\ (b = Open \/ Valid(b))
    BY DEF IsGap
  <1>1. CASE a = Open /\ b = Open
    BY <1>1, InsideEverything
  <1>2. CASE a # Open /\ b = Open
    <2>1. Further(a, b) = <<Tail(a), Open>>
      BY <1>2 DEF Further
    <2>2. Within(f[<<Tail(a), Open>>], Tail(a), Open)
      BY <1>2, <2>1
    <2> QED
      BY <1>0, <1>2, <2>2, InsideAboveLower
  <1>3. CASE a = Open /\ b # Open
    <2>1. Further(a, b) = <<Open, Tail(b)>>
      BY <1>3 DEF Further
    <2>2. Within(f[<<Open, Tail(b)>>], Open, Tail(b))
      BY <1>3, <2>1
    <2> QED
      BY <1>0, <1>3, <2>2, InsideBelowUpper
  <1>4. CASE a # Open /\ b # Open
    <2> DEFINE n == CommonPrefix(a, b)
    <2>1. n \in Nat
      <3>1. n \in 0 .. Len(b) /\ Len(b) \in Nat
        BY <1>0, KeysAreNumbers, PrefixInCommon
      <3> QED
        BY <3>1
    <2>2. KeyLess(a, b) /\ Valid(a) /\ Valid(b)
      BY <1>0, <1>4 DEF IsGap
    <2>3. CASE n > 0
      <3>1. Further(a, b) = <<From(a, n), From(b, n)>>
        BY <1>4, <2>3 DEF Further
      <3>2. Halve(a, b, f) = UpTo(b, n) \o f[Further(a, b)]
        BY <1>4, <2>3, HalveBehindPrefix
      <3>3. Within(f[Further(a, b)], From(a, n), From(b, n))
        BY <1>4, <3>1
      <3>4. Within(UpTo(b, n) \o f[Further(a, b)], a, b)
        BY <1>0, <2>1, <2>2, <3>3, InsideBehindPrefix
      <3> QED
        BY <3>2, <3>4
    <2>4. CASE ~ (n > 0)
      <3>1. Further(a, b) = <<Tail(a), Open>>
        BY <1>4, <2>4 DEF Further
      <3>2. Within(f[<<Tail(a), Open>>], Tail(a), Open)
        BY <1>4, <3>1
      <3>3. n = 0
        BY <2>1, <2>4
      <3> QED
        BY <1>0, <2>2, <3>2, <3>3, InsideDigits
    <2> QED
      BY <2>3, <2>4
  <1> QED
    BY <1>1, <1>2, <1>3, <1>4

(* Between answers with a valid key strictly between its neighbours.       *)
LEMMA MidpointInside ==
  ASSUME NEW a, NEW b, IsGap(a, b)
  PROVE  Within(Midpoint[<<a, b>>], a, b)
  <1> SUFFICES ASSUME ~ Within(Midpoint[<<a, b>>], a, b) PROVE FALSE
    OBVIOUS
  <1> DEFINE bad == {x \in Gaps : IsGap(x[1], x[2]) /\ ~ Within(Midpoint[x], x[1], x[2])}
  <1> DEFINE lengths == {Length(x) : x \in bad}
  <1>1. lengths \subseteq Nat /\ lengths # {}
    <2>1. <<a, b>> \in bad
      BY DEF IsGap, Gaps
    <2> QED
      BY <2>1, LengthOfGap
  <1>2. PICK l \in lengths : \A k \in lengths : l <= k
    <2> HIDE DEF lengths
    <2> QED
      BY <1>1, LeastNumber
  <1>3. PICK x \in bad : l = Length(x)
    OBVIOUS
  <1>4. x \in Gaps /\ IsGap(x[1], x[2]) /\ ~ Within(Midpoint[x], x[1], x[2]) /\ Length(x) \in Nat
    BY LengthOfGap
  <1>5. ASSUME NEW y \in Gaps, Length(y) \in Nat, Length(y) < Length(x), IsGap(y[1], y[2])
        PROVE  Within(Midpoint[y], y[1], y[2])
    <2> SUFFICES ASSUME ~ Within(Midpoint[y], y[1], y[2]) PROVE FALSE
      OBVIOUS
    <2>1. Length(y) \in lengths
      BY <1>5
    <2> QED
      BY <1>2, <1>3, <1>4, <1>5, <2>1
  <1> HIDE DEF bad, lengths
  <1>6. x[1] \in Keys /\ x[2] \in Keys /\ x = <<x[1], x[2]>>
    BY <1>4, LengthOfGap
  <1>7. Midpoint[x] = Halve(x[1], x[2], Midpoint)
    BY <1>6, MidpointHalves
  <1>8. ASSUME x[1] # Open \/ x[2] # Open
        PROVE  Within(Midpoint[Further(x[1], x[2])], Further(x[1], x[2])[1], Further(x[1], x[2])[2])
    <2> DEFINE y == Further(x[1], x[2])
    <2>1. y \in Gaps /\ Length(y) \in Nat /\ Length(y) < Length(x)
      BY <1>4, <1>8, FurtherOfGap
    <2>2. IsGap(y[1], y[2])
      BY <1>4, <1>8, FurtherIsAGap
    <2> HIDE DEF y
    <2>3. Within(Midpoint[y], y[1], y[2])
      BY <1>5, <2>1, <2>2
    <2> QED
      BY <2>3 DEF y
  <1>9. Within(Halve(x[1], x[2], Midpoint), x[1], x[2])
    BY <1>4, <1>8, HalveInside
  <1> QED
    BY <1>4, <1>7, <1>9

(* So whatever Between answers is a valid key between its ends.            *)
LEMMA BetweenIsInside ==
  ASSUME NEW a, NEW b, IsGap(a, b), NEW k \in Between(a, b)
  PROVE  Within(k, a, b)
  <1>1. k = Midpoint[<<a, b>>]
    BY DEF Between
  <1> QED
    BY <1>1, MidpointInside

-----------------------------------------------------------------------------
(* Powers of the base.                                                     *)
PowStep(e, f) == IF e = 0 THEN 1 ELSE Base * f[e - 1]
Powers(f, n)  == \A e \in Nat : e < n => f[e] = PowStep(e, f)

(* Two functions that multiply up to n agree up to there.                  *)
LEMMA PowersAgree ==
  ASSUME NEW f, NEW g, NEW n \in Nat, NEW m \in Nat, Powers(f, n), Powers(g, m),
         NEW e \in Nat, e < n, e < m
  PROVE  f[e] = g[e]
  <1> SUFFICES ASSUME f[e] # g[e] PROVE FALSE
    OBVIOUS
  <1> DEFINE bad == {x \in Nat : x < n /\ x < m /\ f[x] # g[x]}
  <1>1. bad \subseteq Nat /\ bad # {}
    OBVIOUS
  <1>2. PICK x \in bad : \A k \in bad : x <= k
    <2> HIDE DEF bad
    <2> QED
      BY <1>1, LeastNumber
  <1>3. x \in Nat /\ x < n /\ x < m /\ f[x] # g[x]
    OBVIOUS
  <1>4. ASSUME x # 0 PROVE f[x - 1] = g[x - 1]
    <2>1. x - 1 \in Nat /\ x - 1 < n /\ x - 1 < m /\ ~ (x <= x - 1)
      BY <1>3, <1>4
    <2>2. x - 1 \notin bad
      BY <1>2, <2>1
    <2> QED
      BY <2>1, <2>2
  <1> HIDE DEF bad
  <1>5. f[x] = PowStep(x, f) /\ g[x] = PowStep(x, g)
    BY <1>3 DEF Powers
  <1>6. PowStep(x, f) = PowStep(x, g)
    <2>1. CASE x = 0
      BY <2>1 DEF PowStep
    <2>2. CASE x # 0
      BY <1>4, <2>2 DEF PowStep
    <2> QED
      BY <2>1, <2>2
  <1> QED
    BY <1>3, <1>5, <1>6

(* There is one for every n.                                               *)
LEMMA PowersExist ==
  ASSUME NEW n \in Nat
  PROVE  \E f : Powers(f, n)
  <1> SUFFICES ASSUME ~ \E f : Powers(f, n) PROVE FALSE
    OBVIOUS
  <1> DEFINE bad == {k \in Nat : ~ \E f : Powers(f, k)}
  <1>1. bad \subseteq Nat /\ bad # {}
    OBVIOUS
  <1>2. PICK m \in bad : \A k \in bad : m <= k
    <2> HIDE DEF bad
    <2> QED
      BY <1>1, LeastNumber
  <1>3. m \in Nat /\ ~ \E f : Powers(f, m)
    OBVIOUS
  <1>4. m # 0
    <2>1. \A f : Powers(f, 0)
      BY DEF Powers
    <2> QED
      BY <1>3, <2>1
  <1>5. \E f : Powers(f, m - 1)
    <2>1. m - 1 \in Nat /\ ~ (m <= m - 1)
      BY <1>3, <1>4
    <2>2. m - 1 \notin bad
      BY <1>2, <2>1
    <2> QED
      BY <2>1, <2>2
  <1> HIDE DEF bad
  <1>6. PICK f : Powers(f, m - 1)
    BY <1>5
  <1> DEFINE g == [e \in Nat |-> PowStep(e, f)]
  <1>7. \A e \in Nat : g[e] = PowStep(e, f)
    OBVIOUS
  <1> HIDE DEF g
  <1>8. ASSUME NEW e \in Nat, e < m
        PROVE  g[e] = PowStep(e, g)
    <2>1. CASE e = 0
      BY <1>7, <2>1 DEF PowStep
    <2>2. CASE e # 0
      <3>1. e - 1 \in Nat /\ e - 1 < m - 1
        BY <1>3, <1>8, <2>2
      <3>2. f[e - 1] = PowStep(e - 1, f) /\ g[e - 1] = PowStep(e - 1, f)
        BY <1>6, <1>7, <3>1 DEF Powers
      <3>3. g[e] = Base * f[e - 1] /\ PowStep(e, g) = Base * g[e - 1]
        BY <1>7, <2>2 DEF PowStep
      <3> QED
        BY <3>2, <3>3
    <2> QED
      BY <2>1, <2>2
  <1>9. Powers(g, m)
    BY <1>8 DEF Powers
  <1> QED
    BY <1>3, <1>9

(* Pow is what its definition says.                                        *)
LEMMA PowIs ==
  ASSUME NEW e \in Nat
  PROVE  Pow[e] = IF e = 0 THEN 1 ELSE Base * Pow[e - 1]
  <1> DEFINE upto(n) == CHOOSE f : Powers(f, n)
  <1> DEFINE pow == [x \in Nat |-> upto(x + 1)[x]]
  <1>1. \A n \in Nat : Powers(upto(n), n)
    BY PowersExist
  <1>2. \A x \in Nat : pow[x] = upto(x + 1)[x]
    OBVIOUS
  <1>3. pow = [x \in Nat |-> pow[x]]
    OBVIOUS
  <1> HIDE DEF upto, pow
  <1>4. ASSUME NEW x \in Nat
        PROVE  pow[x] = PowStep(x, pow)
    <2> DEFINE f == upto(x + 1)
    <2>1. Powers(f, x + 1) /\ pow[x] = f[x]
      BY <1>1, <1>2
    <2> HIDE DEF f
    <2>2. f[x] = PowStep(x, f)
      BY <2>1 DEF Powers
    <2>3. CASE x = 0
      BY <2>1, <2>2, <2>3 DEF PowStep
    <2>4. CASE x # 0
      <3> DEFINE g == upto((x - 1) + 1)
      <3>1. x - 1 \in Nat /\ (x - 1) + 1 \in Nat /\ x + 1 \in Nat /\ x - 1 < (x - 1) + 1 /\ x - 1 < x + 1
        BY <2>4
      <3>2. Powers(g, (x - 1) + 1) /\ pow[x - 1] = g[x - 1]
        BY <1>1, <1>2, <3>1
      <3> HIDE DEF g
      <3>3. f[x - 1] = g[x - 1]
        BY <2>1, <3>1, <3>2, PowersAgree
      <3>4. PowStep(x, f) = Base * f[x - 1] /\ PowStep(x, pow) = Base * pow[x - 1]
        BY <2>4 DEF PowStep
      <3> QED
        BY <2>1, <2>2, <3>2, <3>3, <3>4
    <2> QED
      BY <2>3, <2>4
  <1>5. pow = [x \in Nat |-> IF x = 0 THEN 1 ELSE Base * pow[x - 1]]
    <2>1. [x \in Nat |-> pow[x]] = [x \in Nat |-> IF x = 0 THEN 1 ELSE Base * pow[x - 1]]
      BY <1>4 DEF PowStep
    <2> QED
      BY <1>3, <2>1
  <1>6. Pow = CHOOSE f : f = [x \in Nat |-> IF x = 0 THEN 1 ELSE Base * f[x - 1]]
    BY Zenon DEF Pow
  <1>7. \E f : f = [x \in Nat |-> IF x = 0 THEN 1 ELSE Base * f[x - 1]]
    BY <1>5
  <1>8. Pow = [x \in Nat |-> IF x = 0 THEN 1 ELSE Base * Pow[x - 1]]
    BY <1>6, <1>7, Zenon
  <1> DEFINE F == [x \in Nat |-> IF x = 0 THEN 1 ELSE Base * Pow[x - 1]]
  <1>9. \A x \in Nat : F[x] = IF x = 0 THEN 1 ELSE Base * Pow[x - 1]
    OBVIOUS
  <1>10. Pow = F
    BY <1>8
  <1> HIDE DEF F
  <1> QED
    BY <1>9, <1>10, Zenon

(* Products of positive numbers grow.                                      *)
LEMMA ProductGrows ==
  ASSUME NEW d \in Nat, NEW x \in Nat, NEW y \in Nat, x <= y
  PROVE  d * x \in Nat /\ d * y \in Nat /\ d * x <= d * y
  <1>1. PICK z \in Nat : y = x + z
    <2>1. y - x \in Nat /\ y = x + (y - x)
      OBVIOUS
    <2> QED
      BY <2>1
  <1>2. d * y = d * x + d * z
    BY <1>1
  <1>3. d * z \in Nat /\ d * x \in Nat
    OBVIOUS
  <1> QED
    BY <1>2, <1>3

(* Powers are positive, and each exceeds its exponent.                     *)
LEMMA PowGrows ==
  ASSUME NEW e \in Nat
  PROVE  Pow[e] \in Nat /\ Pow[e] >= e + 1 /\ Pow[0] = 1 /\ Pow[e + 1] = Base * Pow[e]
  <1>1. Pow[0] = 1
    BY PowIs
  <1>2. \A x \in Nat : Pow[x + 1] = Base * Pow[x]
    <2> SUFFICES ASSUME NEW x \in Nat PROVE Pow[x + 1] = Base * Pow[x]
      OBVIOUS
    <2>1. x + 1 \in Nat /\ x + 1 # 0 /\ (x + 1) - 1 = x
      OBVIOUS
    <2> QED
      BY <2>1, PowIs
  <1>3. Pow[e] \in Nat /\ Pow[e] >= e + 1
    <2> SUFFICES ASSUME ~ (Pow[e] \in Nat /\ Pow[e] >= e + 1) PROVE FALSE
      OBVIOUS
    <2> DEFINE bad == {x \in Nat : ~ (Pow[x] \in Nat /\ Pow[x] >= x + 1)}
    <2>1. bad \subseteq Nat /\ bad # {}
      OBVIOUS
    <2>2. PICK x \in bad : \A k \in bad : x <= k
      <3> HIDE DEF bad
      <3> QED
        BY <2>1, LeastNumber
    <2>3. x \in Nat /\ ~ (Pow[x] \in Nat /\ Pow[x] >= x + 1)
      OBVIOUS
    <2>4. x # 0
      BY <1>1, <2>3
    <2>5. PICK y \in Nat : y = x - 1 /\ x = y + 1
      BY <2>3, <2>4
    <2>6. y \notin bad
      BY <2>2, <2>3, <2>5
    <2>7. Pow[y] \in Nat /\ Pow[y] >= y + 1
      BY <2>6
    <2> HIDE DEF bad
    <2>8. Pow[x] = Base * Pow[y]
      BY <1>2, <2>5
    <2>9. PICK q \in Nat : q = Pow[y]
      BY <2>7
    <2>10. Base * q \in Nat /\ q + q <= Base * q
      <3>1. Base \in Nat /\ 2 \in Nat /\ 2 <= Base
        BY KeysAssumption
      <3>2. q * 2 <= q * Base
        BY <3>1, ProductGrows
      <3>3. q * 2 = q + q /\ q * Base = Base * q /\ Base * q \in Nat
        BY <3>1
      <3> QED
        BY <3>2, <3>3
    <2> QED
      BY <2>3, <2>5, <2>7, <2>8, <2>9, <2>10
  <1> QED
    BY <1>1, <1>2, <1>3

(* Division with remainder.                                                *)
LEMMA Division ==
  ASSUME NEW v \in Nat, NEW d \in Nat \ {0}
  PROVE  /\ v \div d \in Nat
         /\ d * (v \div d) \in Nat /\ d * (v \div d) <= v /\ v < d * (v \div d) + d
         /\ v % d = v - d * (v \div d) /\ v % d \in 0 .. d - 1
  OBVIOUS

(* The quotient is the only number that fits.                              *)
LEMMA QuotientIs ==
  ASSUME NEW v \in Nat, NEW d \in Nat \ {0}, NEW q \in Nat, d * q <= v, v < d * q + d
  PROVE  v \div d = q
  <1>1. PICK x \in Nat : x = v \div d
    BY Division
  <1>2. d * x \in Nat /\ d * x <= v /\ v < d * x + d
    BY <1>1, Division
  <1>3. CASE x < q
    <2>1. d * (x + 1) <= d * q
      BY <1>3, ProductGrows
    <2>2. d * (x + 1) = d * x + d
      OBVIOUS
    <2> QED
      BY <1>2, <2>1, <2>2
  <1>4. CASE q < x
    <2>1. d * (q + 1) <= d * x
      BY <1>4, ProductGrows
    <2>2. d * (q + 1) = d * q + d
      OBVIOUS
    <2> QED
      BY <1>2, <2>1, <2>2
  <1> QED
    BY <1>1, <1>3, <1>4

(* Quotients keep the order.                                               *)
LEMMA QuotientsGrow ==
  ASSUME NEW u \in Nat, NEW v \in Nat, u <= v, NEW d \in Nat \ {0}
  PROVE  u \div d <= v \div d
  <1>1. PICK x \in Nat : x = u \div d
    BY Division
  <1>2. PICK y \in Nat : y = v \div d
    BY Division
  <1>3. d * x \in Nat /\ d * x <= u /\ d * y \in Nat /\ v < d * y + d
    BY <1>1, <1>2, Division
  <1>4. CASE y < x
    <2>1. d * (y + 1) <= d * x
      BY <1>4, ProductGrows
    <2>2. d * (y + 1) = d * y + d
      OBVIOUS
    <2> QED
      BY <1>3, <2>1, <2>2
  <1> QED
    BY <1>1, <1>2, <1>4

(* Dividing by the base once more drops one more digit.                    *)
LEMMA QuotientOfQuotient ==
  ASSUME NEW v \in Nat, NEW d \in Nat \ {0}, NEW c \in Nat \ {0}, c = Base * d
  PROVE  v \div c = (v \div d) \div Base
  <1>0. PICK b \in Nat \ {0} : b = Base
    BY KeysAssumption
  <1>1. PICK q \in Nat : q = v \div d
    BY Division
  <1>2. PICK r \in Nat : r = q \div b
    BY <1>1, Division
  <1>3. d * q \in Nat /\ d * q <= v /\ v < d * q + d
    BY <1>1, Division
  <1>4. b * r \in Nat /\ b * r <= q /\ q < b * r + b
    BY <1>2, Division
  <1>5. c = b * d
    BY <1>0
  <1>6. c * r <= v
    <2>1. d * (b * r) <= d * q
      BY <1>4, ProductGrows
    <2>2. d * (b * r) = c * r
      BY <1>5
    <2> QED
      BY <1>3, <1>5, <2>1, <2>2
  <1>7. v < c * r + c
    <2>1. q + 1 <= b * r + b /\ b * r + b \in Nat
      BY <1>4
    <2>2. d * (q + 1) <= d * (b * r + b)
      BY <2>1, ProductGrows
    <2>3. d * (q + 1) = d * q + d
      OBVIOUS
    <2>4. d * (b * r + b) = c * r + c
      <3>1. PICK s \in Nat : s = b * r
        BY <1>4
      <3>2. d * (s + b) = d * s + d * b
        BY <3>1
      <3>3. d * s = c * r
        BY <1>5, <3>1
      <3>4. d * b = c
        BY <1>5
      <3> QED
        BY <3>1, <3>2, <3>3, <3>4
    <2> QED
      BY <1>3, <1>5, <2>2, <2>3, <2>4
  <1>8. v \div c = r
    BY <1>6, <1>7, QuotientIs
  <1> QED
    BY <1>0, <1>1, <1>2, <1>8

-----------------------------------------------------------------------------
(* The digits of a number, in a fixed width.                               *)
LEMMA EncodeIs ==
  ASSUME NEW v \in Nat, NEW w \in Nat
  PROVE  /\ Encode(v, w) \in Keys /\ Len(Encode(v, w)) = w
         /\ \A i \in 1 .. w : Encode(v, w)[i] = (v \div Pow[w - i]) % Base
  <1> DEFINE e == Encode(v, w)
  <1>1. \A i \in 1 .. w : e[i] = (v \div Pow[w - i]) % Base
    BY DEF Encode
  <1>2. ASSUME NEW i \in 1 .. w PROVE e[i] \in Digits
    <2>1. w - i \in Nat
      OBVIOUS
    <2>2. PICK p \in Nat \ {0} : p = Pow[w - i]
      BY <2>1, PowGrows
    <2>3. PICK q \in Nat : q = v \div p
      BY Division
    <2>4. q % Base \in 0 .. Base - 1
      BY KeysAssumption, Division
    <2> QED
      BY <1>1, <2>2, <2>3, <2>4 DEF Digits
  <1>3. DOMAIN e = 1 .. w /\ e = [i \in 1 .. w |-> e[i]]
    BY DEF Encode
  <1> HIDE DEF e
  <1>4. e \in [1 .. w -> Digits]
    BY <1>2, <1>3
  <1>5. e \in Seq(Digits) /\ Len(e) = w
    BY <1>4
  <1> QED
    BY <1>1, <1>5 DEF e, Keys

(* The encodings of two numbers differ first in a digit of the same order. *)
LEMMA EncodingsOrdered ==
  ASSUME NEW w \in Nat, NEW u \in Nat, NEW v \in Nat, u < v, v < Pow[w]
  PROVE  \E i \in 1 .. w : /\ \A j \in 1 .. i - 1 : Encode(u, w)[j] = Encode(v, w)[j]
                           /\ Encode(u, w)[i] < Encode(v, w)[i]
  <1> DEFINE q(x, i) == x \div Pow[w - i]
  <1>1. ASSUME NEW i \in 0 .. w
        PROVE  Pow[w - i] \in Nat \ {0} /\ q(u, i) \in Nat /\ q(v, i) \in Nat /\ q(u, i) <= q(v, i)
    <2>1. w - i \in Nat
      OBVIOUS
    <2>2. Pow[w - i] \in Nat \ {0}
      BY <2>1, PowGrows
    <2>3. PICK p \in Nat \ {0} : p = Pow[w - i]
      BY <2>2
    <2>4. u \div p \in Nat /\ v \div p \in Nat /\ u \div p <= v \div p
      <3>1. u <= v
        OBVIOUS
      <3>2. u \div p <= v \div p
        BY <3>1, QuotientsGrow
      <3> QED
        BY <3>2, Division
    <2> QED
      BY <2>2, <2>3, <2>4
  <1> DEFINE differ == {i \in 0 .. w : q(u, i) # q(v, i)}
  <1>2. w \in differ
    <2>1. w - w = 0 /\ Pow[0] = 1
      BY PowGrows
    <2>2. u \div 1 = u /\ v \div 1 = v
      OBVIOUS
    <2>3. q(u, w) = u /\ q(v, w) = v
      BY <2>1, <2>2
    <2> QED
      BY <2>3
  <1>3. PICK i \in differ : \A k \in differ : i <= k
    <2>1. differ \subseteq Nat /\ differ # {}
      BY <1>2
    <2> HIDE DEF differ
    <2> QED
      BY <2>1, LeastNumber
  <1>4. i \in 0 .. w /\ q(u, i) # q(v, i)
    OBVIOUS
  <1>5. ASSUME NEW j \in 0 .. i - 1 PROVE q(u, j) = q(v, j)
    <2>1. j \in 0 .. w /\ ~ (i <= j)
      BY <1>4
    <2>2. j \notin differ
      BY <1>3, <2>1
    <2> QED
      BY <2>1, <2>2
  <1> HIDE DEF differ
  <1>6. i # 0
    <2>1. PICK p \in Nat \ {0} : p = Pow[w]
      BY PowGrows
    <2>2. u \div p = 0 /\ v \div p = 0
      <3>1. p * 0 = 0 /\ 0 \in Nat
        OBVIOUS
      <3>2. u < p /\ v < p
        BY <2>1
      <3> QED
        BY <3>1, <3>2, QuotientIs
    <2>3. w - 0 = w
      OBVIOUS
    <2>4. q(u, 0) = q(v, 0)
      BY <2>1, <2>2, <2>3
    <2> QED
      BY <1>4, <2>4
  <1>7. i \in 1 .. w /\ i - 1 \in 0 .. w /\ i - 1 \in 0 .. i - 1
    BY <1>4, <1>6
  <1>8. ASSUME NEW j \in 1 .. i - 1 PROVE Encode(u, w)[j] = Encode(v, w)[j]
    <2>1. j \in 1 .. w /\ j \in 0 .. i - 1
      BY <1>7
    <2>2. q(u, j) = q(v, j)
      BY <1>5, <2>1
    <2>3. Encode(u, w)[j] = q(u, j) % Base /\ Encode(v, w)[j] = q(v, j) % Base
      BY <2>1, EncodeIs
    <2> QED
      BY <2>2, <2>3
  <1>9. Encode(u, w)[i] < Encode(v, w)[i]
    <2>1. Base \in Nat \ {0}
      BY KeysAssumption
    <2>2. /\ Encode(u, w)[i] = q(u, i) % Base
          /\ Encode(v, w)[i] = q(v, i) % Base
      BY <1>7, EncodeIs
    <2>3. q(u, i - 1) = q(u, i) \div Base /\ q(v, i - 1) = q(v, i) \div Base
      <3>1. w - i \in Nat /\ w - (i - 1) = (w - i) + 1
        BY <1>7
      <3>2. PICK p \in Nat \ {0} : p = Pow[w - i]
        BY <1>1, <1>7
      <3>3. Pow[w - (i - 1)] = Base * p
        BY <3>1, <3>2, PowGrows
      <3>4. PICK c \in Nat \ {0} : c = Base * p
        <4>1. \A b \in Nat \ {0} : b * p \in Nat \ {0}
          OBVIOUS
        <4> QED
          BY <2>1, <4>1
      <3>5. u \div c = (u \div p) \div Base
        BY <3>4, QuotientOfQuotient
      <3>6. v \div c = (v \div p) \div Base
        BY <3>4, QuotientOfQuotient
      <3> QED
        BY <3>2, <3>3, <3>4, <3>5, <3>6
    <2>4. q(u, i) \in Nat /\ q(v, i) \in Nat /\ q(u, i) <= q(v, i)
      BY <1>1, <1>7
    <2>5. PICK x \in Nat : x = q(u, i)
      BY <2>4
    <2>6. PICK y \in Nat : y = q(v, i)
      BY <2>4
    <2>7. x < y
      BY <1>4, <2>4, <2>5, <2>6
    <2>8. x \div Base = y \div Base
      BY <1>5, <1>7, <2>3, <2>5, <2>6
    <2>9. x % Base = x - Base * (x \div Base) /\ y % Base = y - Base * (y \div Base)
      BY <2>1, Division
    <2>10. PICK z \in Nat : z = Base * (x \div Base)
      BY <2>1, Division
    <2> HIDE DEF q
    <2> QED
      BY <2>2, <2>5, <2>6, <2>7, <2>8, <2>9, <2>10
  <1> QED
    BY <1>7, <1>8, <1>9

-----------------------------------------------------------------------------
(* Even gives out valid keys, in increasing order.                         *)
EvenWidth(n) == 1 + CHOOSE w \in 1 .. n + 1 : Pow[w] >= n + 1 /\ (w = 1 \/ Pow[w - 1] < n + 1)
EvenKey(n, i) == Encode(i * (Pow[EvenWidth(n)] \div (n + 1)), EvenWidth(n))

(* The width is found, and leaves room for n numbers.                      *)
LEMMA EvenWidthIs ==
  ASSUME NEW n \in Nat
  PROVE  EvenWidth(n) \in Nat /\ EvenWidth(n) >= 2 /\ Pow[EvenWidth(n)] \in Nat /\ Pow[EvenWidth(n)] >= n + 1
  <1> DEFINE enough == {w \in 1 .. n + 1 : Pow[w] >= n + 1}
  <1>1. enough \subseteq Nat /\ n + 1 \in enough
    <2>1. Pow[n + 1] \in Nat /\ Pow[n + 1] >= (n + 1) + 1
      BY PowGrows
    <2> QED
      BY <2>1
  <1>2. PICK w \in enough : \A k \in enough : w <= k
    <2> HIDE DEF enough
    <2> QED
      BY <1>1, LeastNumber
  <1>3. w \in 1 .. n + 1 /\ Pow[w] >= n + 1
    OBVIOUS
  <1>4. w = 1 \/ Pow[w - 1] < n + 1
    <2> SUFFICES ASSUME w # 1, ~ (Pow[w - 1] < n + 1) PROVE FALSE
      OBVIOUS
    <2>1. w - 1 \in 1 .. n + 1 /\ ~ (w <= w - 1) /\ w - 1 \in Nat
      BY <1>3
    <2>2. Pow[w - 1] \in Nat
      BY <2>1, PowGrows
    <2>3. w - 1 \in enough
      BY <2>1, <2>2
    <2> QED
      BY <1>2, <2>1, <2>3
  <1> HIDE DEF enough
  <1>5. PICK x : x = CHOOSE y \in 1 .. n + 1 : Pow[y] >= n + 1 /\ (y = 1 \/ Pow[y - 1] < n + 1)
    OBVIOUS
  <1>6. x \in 1 .. n + 1 /\ Pow[x] >= n + 1
    BY <1>3, <1>4, <1>5
  <1>7. EvenWidth(n) = 1 + x
    BY <1>5 DEF EvenWidth
  <1>8. PICK q \in Nat : q = Pow[x]
    BY <1>6, PowGrows
  <1>9. Pow[x + 1] = Base * q
    BY <1>6, <1>8, PowGrows
  <1>10. Base * q \in Nat /\ q <= Base * q
    <2>1. q * 1 <= q * Base
      BY KeysAssumption, ProductGrows
    <2>2. q * 1 = q /\ q * Base = Base * q /\ Base * q \in Nat
      BY KeysAssumption
    <2> QED
      BY <2>1, <2>2
  <1>11. 1 + x = x + 1
    BY <1>6
  <1> QED
    BY <1>6, <1>7, <1>8, <1>9, <1>10, <1>11

(* The numbers that are encoded increase, and fit.                         *)
LEMMA EvenNumbers ==
  ASSUME NEW n \in Nat, NEW p \in Nat, p >= n + 1, NEW i \in 1 .. n
  PROVE  /\ i * (p \div (n + 1)) \in Nat /\ i * (p \div (n + 1)) < p
         /\ \A j \in 1 .. i - 1 : j * (p \div (n + 1)) < i * (p \div (n + 1))
  <1>1. n + 1 \in Nat \ {0}
    OBVIOUS
  <1>2. PICK s \in Nat : s = p \div (n + 1)
    BY <1>1, Division
  <1>3. (n + 1) * s <= p /\ p < (n + 1) * s + (n + 1)
    BY <1>1, <1>2, Division
  <1>4. s # 0
    <2> SUFFICES ASSUME s = 0 PROVE FALSE
      OBVIOUS
    <2>1. (n + 1) * s = 0
      OBVIOUS
    <2> QED
      BY <1>3, <2>1
  <1>5. ASSUME NEW j \in Nat, NEW k \in Nat, j < k PROVE j * s \in Nat /\ k * s \in Nat /\ j * s < k * s
    <2>1. s * (j + 1) <= s * k
      BY <1>5, ProductGrows
    <2>2. s * (j + 1) = j * s + s /\ s * k = k * s
      OBVIOUS
    <2> QED
      BY <1>4, <2>1, <2>2
  <1>6. i * s \in Nat /\ i * s < (n + 1) * s /\ (n + 1) * s \in Nat
    BY <1>5
  <1>7. \A j \in 1 .. i - 1 : j * s < i * s
    BY <1>5
  <1> QED
    BY <1>2, <1>3, <1>6, <1>7

(* The key at an index.                                                    *)
LEMMA EvenAt ==
  ASSUME NEW n \in Nat
  PROVE  /\ DOMAIN Even(n) = 1 .. n
         /\ \A i \in 1 .. n : Even(n)[i] = IF EvenKey(n, i)[EvenWidth(n)] = 0
                                           THEN Append(EvenKey(n, i), Middle) ELSE EvenKey(n, i)
  BY DEF Even, EvenKey, EvenWidth

(* Each is a valid key.                                                    *)
LEMMA EvenKeyIs ==
  ASSUME NEW n \in Nat, NEW i \in 1 .. n
  PROVE  /\ EvenKey(n, i) \in Keys /\ Len(EvenKey(n, i)) = EvenWidth(n)
         /\ Even(n)[i] \in Keys /\ Valid(Even(n)[i]) /\ Len(Even(n)[i]) >= EvenWidth(n)
         /\ \A j \in 1 .. EvenWidth(n) : Even(n)[i][j] = EvenKey(n, i)[j]
  <1>1. PICK w \in Nat : w = EvenWidth(n) /\ w >= 2
    BY EvenWidthIs
  <1>2. PICK p \in Nat : p = Pow[w] /\ p >= n + 1
    BY <1>1, EvenWidthIs
  <1> DEFINE e == EvenKey(n, i)
  <1>3. e \in Keys /\ Len(e) = w
    <2>1. i * (p \div (n + 1)) \in Nat
      BY <1>2, EvenNumbers
    <2>2. e = Encode(i * (p \div (n + 1)), w)
      BY <1>1, <1>2 DEF EvenKey
    <2> QED
      BY <2>1, <2>2, EncodeIs
  <1>4. Even(n)[i] = IF e[w] = 0 THEN Append(e, Middle) ELSE e
    BY <1>1, EvenAt
  <1> HIDE DEF e
  <1>5. CASE e[w] = 0
    <2>1. Middle \in Digits /\ Middle # 0
      BY KeysAssumption DEF Middle, Digits
    <2>2. e \in Seq(Digits)
      BY <1>3 DEF Keys
    <2> DEFINE f == Append(e, Middle)
    <2>3. f \in Seq(Digits) /\ Len(f) = w + 1 /\ f[w + 1] = Middle /\ \A j \in 1 .. w : f[j] = e[j]
      BY <1>3, <2>1, <2>2
    <2>4. Even(n)[i] = f
      BY <1>4, <1>5
    <2> HIDE DEF f
    <2>5. f # Open
      <3>1. Len(f) # 0 /\ Len(Open) = 0
        BY <2>3 DEF Open
      <3> QED
        BY <3>1
    <2>6. Valid(f)
      BY <2>1, <2>3, <2>5 DEF Valid
    <2> QED
      BY <1>1, <1>3, <2>3, <2>4, <2>6 DEF e, Keys
  <1>6. CASE e[w] # 0
    <2>1. Even(n)[i] = e
      BY <1>4, <1>6
    <2>2. e # Open
      <3>1. Len(e) # 0 /\ Len(Open) = 0
        BY <1>1, <1>3 DEF Open
      <3> QED
        BY <3>1
    <2>3. Valid(e)
      BY <1>3, <1>6, <2>2 DEF Valid, Keys
    <2> QED
      BY <1>1, <1>3, <2>1, <2>3 DEF e
  <1> QED
    BY <1>5, <1>6

(* Each is before the next ones.                                           *)
LEMMA EvenIncreases ==
  ASSUME NEW n \in Nat, NEW i \in 1 .. n, NEW j \in 1 .. i - 1
  PROVE  KeyLess(Even(n)[j], Even(n)[i])
  <1>1. PICK w \in Nat : w = EvenWidth(n) /\ w >= 2
    BY EvenWidthIs
  <1>2. PICK p \in Nat : p = Pow[w] /\ p >= n + 1
    BY <1>1, EvenWidthIs
  <1>3. j \in 1 .. n
    OBVIOUS
  <1>4. PICK u \in Nat : u = j * (p \div (n + 1))
    BY <1>2, <1>3, EvenNumbers
  <1>5. PICK v \in Nat : v = i * (p \div (n + 1))
    BY <1>2, EvenNumbers
  <1>6. u < v /\ v < p
    BY <1>2, <1>4, <1>5, EvenNumbers
  <1>7. EvenKey(n, j) = Encode(u, w) /\ EvenKey(n, i) = Encode(v, w)
    BY <1>1, <1>2, <1>4, <1>5 DEF EvenKey
  <1>8. PICK k \in 1 .. w : /\ \A l \in 1 .. k - 1 : EvenKey(n, j)[l] = EvenKey(n, i)[l]
                            /\ EvenKey(n, j)[k] < EvenKey(n, i)[k]
    BY <1>2, <1>6, <1>7, EncodingsOrdered
  <1> DEFINE a == Even(n)[j]
  <1> DEFINE b == Even(n)[i]
  <1>9. /\ Len(a) >= w /\ Len(b) >= w /\ Len(a) \in Nat /\ Len(b) \in Nat
        /\ \A l \in 1 .. w : a[l] = EvenKey(n, j)[l] /\ b[l] = EvenKey(n, i)[l]
    BY <1>1, <1>3, EvenKeyIs, KeysAreNumbers
  <1> HIDE DEF a, b
  <1>10. \A l \in 1 .. k - 1 : a[l] = b[l]
    BY <1>8, <1>9
  <1>11. a[(k - 1) + 1] < b[(k - 1) + 1]
    <2>1. (k - 1) + 1 = k
      OBVIOUS
    <2> QED
      BY <1>8, <1>9, <2>1
  <1>12. k - 1 \in 0 .. Len(b) - 1 /\ k - 1 <= Len(a)
    BY <1>9
  <1>13. KeyLess(a, b)
    BY <1>10, <1>11, <1>12 DEF KeyLess
  <1> QED
    BY <1>13 DEF a, b

-----------------------------------------------------------------------------
(* The members of a finite list have ranks, from one to their number.      *)
IsOrder(S, R) ==
  /\ \A x \in S : <<x, x>> \notin R
  /\ \A x, y, z \in S : <<x, y>> \in R /\ <<y, z>> \in R => <<x, z>> \in R
  /\ \A x, y \in S : x = y \/ <<x, y>> \in R \/ <<y, x>> \in R

(* The members up to x, and how many they are.                             *)
NotBehind(S, R, x) == {y \in S : y = x \/ <<y, x>> \in R}
RankIn(S, R, x)    == Cardinality(NotBehind(S, R, x))

(* Ranks are ordered like the members.                                     *)
LEMMA RanksOrder ==
  ASSUME NEW S, IsFiniteSet(S), NEW R, IsOrder(S, R), NEW x \in S
  PROVE  /\ Cardinality(S) \in Nat /\ RankIn(S, R, x) \in 1 .. Cardinality(S)
         /\ \A y \in S : <<x, y>> \in R => RankIn(S, R, x) < RankIn(S, R, y)
  <1>1. ASSUME NEW y \in S
        PROVE  /\ IsFiniteSet(NotBehind(S, R, y)) /\ RankIn(S, R, y) \in Nat
               /\ RankIn(S, R, y) <= Cardinality(S)
    <2>1. NotBehind(S, R, y) \in SUBSET S
      BY DEF NotBehind
    <2> QED
      BY <2>1, FS_Subset, FS_CardinalityType DEF RankIn
  <1>2. RankIn(S, R, x) # 0
    <2>1. x \in NotBehind(S, R, x)
      BY DEF NotBehind
    <2> QED
      BY <1>1, <2>1, FS_EmptySet DEF RankIn
  <1>3. ASSUME NEW y \in S, <<x, y>> \in R PROVE RankIn(S, R, x) < RankIn(S, R, y)
    <2>1. NotBehind(S, R, x) \in SUBSET NotBehind(S, R, y)
      BY <1>3 DEF NotBehind, IsOrder
    <2>2. y \in NotBehind(S, R, y) /\ y \notin NotBehind(S, R, x)
      <3>1. y # x
        BY <1>3 DEF IsOrder
      <3>2. <<y, x>> \notin R
        BY <1>3 DEF IsOrder
      <3> QED
        BY <3>1, <3>2 DEF NotBehind
    <2>3. /\ RankIn(S, R, x) <= RankIn(S, R, y)
          /\ RankIn(S, R, y) = RankIn(S, R, x) => NotBehind(S, R, y) = NotBehind(S, R, x)
      BY <1>1, <2>1, FS_Subset DEF RankIn
    <2>4. RankIn(S, R, x) # RankIn(S, R, y)
      BY <2>2, <2>3
    <2> QED
      BY <1>1, <2>3, <2>4
  <1>4. Cardinality(S) \in Nat
    BY FS_CardinalityType
  <1> QED
    BY <1>1, <1>2, <1>3, <1>4

(* No two members share a rank.                                            *)
LEMMA RanksDiffer ==
  ASSUME NEW S, IsFiniteSet(S), NEW R, IsOrder(S, R), NEW x \in S, NEW y \in S,
         RankIn(S, R, x) = RankIn(S, R, y)
  PROVE  x = y
  <1> SUFFICES ASSUME x # y PROVE FALSE
    OBVIOUS
  <1>1. RankIn(S, R, x) \in Nat /\ RankIn(S, R, y) \in Nat
    BY RanksOrder
  <1>2. <<x, y>> \in R \/ <<y, x>> \in R
    BY DEF IsOrder
  <1>3. CASE <<x, y>> \in R
    BY <1>1, <1>3, RanksOrder
  <1>4. CASE <<y, x>> \in R
    BY <1>1, <1>4, RanksOrder
  <1> QED
    BY <1>2, <1>3, <1>4

(* Every number up to the size of the list is a rank.                      *)
LEMMA EveryRankIsTaken ==
  ASSUME NEW S, IsFiniteSet(S), NEW R, IsOrder(S, R), NEW i \in 1 .. Cardinality(S)
  PROVE  \E x \in S : RankIn(S, R, x) = i
  <1>1. PICK n \in Nat : n = Cardinality(S)
    BY FS_CardinalityType
  <1> DEFINE f == [x \in S |-> RankIn(S, R, x)]
  <1>2. f \in [S -> 1 .. n]
    BY <1>1, RanksOrder
  <1>3. \A x, y \in S : f[x] = f[y] => x = y
    BY RanksDiffer
  <1>4. f \in Injection(S, 1 .. n)
    <2> HIDE DEF f
    <2> QED
      BY <1>2, <1>3, Zenon DEF Injection, IsInjective
  <1>5. IsFiniteSet(1 .. n) /\ Cardinality(1 .. n) = n
    <2>1. 1 \in Int /\ n \in Int
      OBVIOUS
    <2>2. IsFiniteSet(1 .. n) /\ Cardinality(1 .. n) = IF 1 > n THEN 0 ELSE n - 1 + 1
      BY <2>1, FS_Interval
    <2> QED
      BY <2>2
  <1>6. f \in Surjection(S, 1 .. n)
    <2> HIDE DEF f
    <2> QED
      BY <1>1, <1>4, <1>5, FS_Injection
  <1>7. \E x \in S : f[x] = i
    <2>1. i \in 1 .. n
      BY <1>1
    <2> HIDE DEF f
    <2> QED
      BY <1>6, <2>1 DEF Surjection
  <1> QED
    BY <1>7

(* A finite list that is not empty has a first and a last member.          *)
LEMMA FirstAndLast ==
  ASSUME NEW S, IsFiniteSet(S), S # {}, NEW R, IsOrder(S, R)
  PROVE  /\ \E x \in S : \A y \in S : <<y, x>> \notin R
         /\ \E x \in S : \A y \in S : <<x, y>> \notin R
  <1>1. PICK n \in Nat : n = Cardinality(S)
    BY FS_CardinalityType
  <1>2. n # 0
    BY <1>1, FS_EmptySet
  <1>3. 1 \in 1 .. Cardinality(S) /\ n \in 1 .. Cardinality(S)
    BY <1>1, <1>2
  <1>4. PICK x \in S : RankIn(S, R, x) = 1
    BY <1>3, EveryRankIsTaken
  <1>5. PICK z \in S : RankIn(S, R, z) = n
    BY <1>3, EveryRankIsTaken
  <1>6. ASSUME NEW y \in S PROVE <<y, x>> \notin R /\ <<z, y>> \notin R
    <2>1. RankIn(S, R, y) \in 1 .. n
      BY <1>1, RanksOrder
    <2>2. <<y, x>> \in R => RankIn(S, R, y) < 1
      BY <1>4, RanksOrder
    <2>3. <<z, y>> \in R => n < RankIn(S, R, y)
      BY <1>5, RanksOrder
    <2> QED
      BY <1>1, <2>1, <2>2, <2>3
  <1> QED
    BY <1>6

-----------------------------------------------------------------------------
(* A list of items with valid keys.                                        *)
KeyList(keys) ==
  /\ IsFiniteSet(DOMAIN keys) /\ DOMAIN keys \subseteq Nat
  /\ keys = [i \in DOMAIN keys |-> keys[i]]
  /\ \A i \in DOMAIN keys : keys[i] \in Keys /\ Valid(keys[i])

(* The order of a list, as a set of pairs.                                 *)
Before(keys) == {e \in (DOMAIN keys) \X (DOMAIN keys) : Precedes(keys, e[1], e[2])}

(* "order by position, id" is an order.                                    *)
LEMMA PrecedesIsAnOrder ==
  ASSUME NEW keys, KeyList(keys)
  PROVE  /\ IsOrder(DOMAIN keys, Before(keys))
         /\ \A i, j \in DOMAIN keys : <<i, j>> \in Before(keys) <=> Precedes(keys, i, j)
  <1>1. \A i, j \in DOMAIN keys : <<i, j>> \in Before(keys) <=> Precedes(keys, i, j)
    BY DEF Before
  <1>2. \A i \in DOMAIN keys : keys[i] \in Seq(Nat) /\ i \in Nat
    BY KeysAreNumbers DEF KeyList
  <1>3. ASSUME NEW x \in DOMAIN keys PROVE ~ Precedes(keys, x, x)
    BY <1>2, LessIsStrict DEF Precedes
  <1>4. ASSUME NEW x \in DOMAIN keys, NEW y \in DOMAIN keys, NEW z \in DOMAIN keys,
               Precedes(keys, x, y), Precedes(keys, y, z)
        PROVE  Precedes(keys, x, z)
    <2>1. keys[x] \in Seq(Nat) /\ keys[y] \in Seq(Nat) /\ keys[z] \in Seq(Nat) /\ x \in Nat /\ y \in Nat /\ z \in Nat
      BY <1>2
    <2>2. CASE keys[x] = keys[y] /\ x < y
      <3>1. CASE keys[y] = keys[z] /\ y < z
        BY <2>1, <2>2, <3>1 DEF Precedes
      <3>2. CASE KeyLess(keys[y], keys[z])
        BY <2>2, <3>2 DEF Precedes
      <3> QED
        BY <1>4, <3>1, <3>2 DEF Precedes
    <2>3. CASE KeyLess(keys[x], keys[y])
      <3>1. CASE keys[y] = keys[z] /\ y < z
        BY <2>3, <3>1 DEF Precedes
      <3>2. CASE KeyLess(keys[y], keys[z])
        <4>1. KeyLess(keys[x], keys[z])
          BY <2>1, <2>3, <3>2, LessIsTransitive
        <4> QED
          BY <4>1 DEF Precedes
      <3> QED
        BY <1>4, <3>1, <3>2 DEF Precedes
    <2> QED
      BY <1>4, <2>2, <2>3 DEF Precedes
  <1>5. ASSUME NEW x \in DOMAIN keys, NEW y \in DOMAIN keys
        PROVE  x = y \/ Precedes(keys, x, y) \/ Precedes(keys, y, x)
    <2>1. keys[x] \in Seq(Nat) /\ keys[y] \in Seq(Nat) /\ x \in Nat /\ y \in Nat
      BY <1>2
    <2>2. CASE keys[x] = keys[y]
      BY <2>1, <2>2 DEF Precedes
    <2>3. CASE keys[x] # keys[y]
      <3>1. KeyLess(keys[x], keys[y]) \/ KeyLess(keys[y], keys[x])
        BY <2>1, <2>3, LessIsTotal
      <3> QED
        BY <3>1 DEF Precedes
    <2> QED
      BY <2>2, <2>3
  <1> QED
    BY <1>1, <1>3, <1>4, <1>5 DEF IsOrder

(* Rebalancing gives everybody a valid key and keeps the order.            *)
LEMMA RebalancedKeepsOrder ==
  ASSUME NEW keys, KeyList(keys)
  PROVE  /\ KeyList(Rebalanced(keys)) /\ DOMAIN Rebalanced(keys) = DOMAIN keys
         /\ \A i, j \in DOMAIN keys :
              Precedes(keys, i, j) => KeyLess(Rebalanced(keys)[i], Rebalanced(keys)[j])
  <1> DEFINE S == DOMAIN keys
  <1> DEFINE R == Before(keys)
  <1> DEFINE new == Rebalanced(keys)
  <1>1. IsOrder(S, R) /\ \A i, j \in S : <<i, j>> \in R <=> Precedes(keys, i, j)
    BY PrecedesIsAnOrder
  <1>2. PICK n \in Nat : n = Cardinality(S) /\ IsFiniteSet(S) /\ S \subseteq Nat
    BY FS_CardinalityType DEF KeyList
  <1>3. DOMAIN new = S /\ new = [i \in DOMAIN new |-> new[i]]
    BY DEF Rebalanced
  <1>4. ASSUME NEW i \in S PROVE new[i] = Even(n)[RankIn(S, R, i)] /\ RankIn(S, R, i) \in 1 .. n
    <2>1. NotBehind(S, R, i) = {j \in S : j = i \/ Precedes(keys, j, i)}
      <3> HIDE DEF R
      <3> QED
        BY <1>1 DEF NotBehind
    <2>2. new[i] = Even(n)[Cardinality({j \in S : j = i \/ Precedes(keys, j, i)})]
      BY <1>2 DEF Rebalanced
    <2>3. RankIn(S, R, i) \in 1 .. n
      <3> HIDE DEF R, S
      <3> QED
        BY <1>1, <1>2, RanksOrder
    <2> QED
      BY <2>1, <2>2, <2>3 DEF RankIn
  <1> HIDE DEF new, R, S
  <1>5. \A i \in S : new[i] \in Keys /\ Valid(new[i])
    BY <1>4, EvenKeyIs
  <1>6. ASSUME NEW i \in S, NEW j \in S, Precedes(keys, i, j) PROVE KeyLess(new[i], new[j])
    <2>1. RankIn(S, R, i) < RankIn(S, R, j)
      BY <1>1, <1>2, <1>6, RanksOrder
    <2>2. PICK x \in 1 .. n : x = RankIn(S, R, i)
      BY <1>4
    <2>3. PICK y \in 1 .. n : y = RankIn(S, R, j)
      BY <1>4
    <2>4. x \in 1 .. y - 1
      BY <2>1, <2>2, <2>3
    <2>5. KeyLess(Even(n)[x], Even(n)[y])
      BY <2>4, EvenIncreases
    <2> QED
      BY <1>4, <2>2, <2>3, <2>5
  <1>7. KeyList(new)
    BY <1>2, <1>3, <1>5 DEF KeyList
  <1> QED
    BY <1>3, <1>6, <1>7 DEF new, S

-----------------------------------------------------------------------------
(* Finding the gap.                                                        *)
LEMMA KeysHaveEnds ==
  ASSUME NEW S, IsFiniteSet(S), S # {}, S \subseteq Keys
  PROVE  /\ \E x \in S : \A y \in S : ~ KeyLess(y, x)
         /\ \E x \in S : \A y \in S : ~ KeyLess(x, y)
  <1> DEFINE R == {e \in S \X S : KeyLess(e[1], e[2])}
  <1>1. \A x, y \in S : <<x, y>> \in R <=> KeyLess(x, y)
    OBVIOUS
  <1>2. \A x \in S : x \in Seq(Nat)
    BY KeysAreNumbers
  <1> HIDE DEF R
  <1>3. \A x \in S : <<x, x>> \notin R
    BY <1>1, <1>2, LessIsStrict
  <1>4. ASSUME NEW x \in S, NEW y \in S, NEW z \in S, <<x, y>> \in R, <<y, z>> \in R
        PROVE  <<x, z>> \in R
    <2>1. x \in Seq(Nat) /\ y \in Seq(Nat) /\ z \in Seq(Nat) /\ KeyLess(x, y) /\ KeyLess(y, z)
      BY <1>1, <1>2, <1>4
    <2> QED
      BY <1>1, <2>1, LessIsTransitive
  <1>5. ASSUME NEW x \in S, NEW y \in S PROVE x = y \/ <<x, y>> \in R \/ <<y, x>> \in R
    BY <1>1, <1>2, LessIsTotal
  <1>6. IsOrder(S, R)
    BY <1>3, <1>4, <1>5 DEF IsOrder
  <1>7. /\ \E x \in S : \A y \in S : <<y, x>> \notin R
        /\ \E x \in S : \A y \in S : <<x, y>> \notin R
    BY <1>6, FirstAndLast
  <1> QED
    BY <1>1, <1>7

(* A list has finitely many keys.                                          *)
LEMMA KeysOfList ==
  ASSUME NEW keys, KeyList(keys)
  PROVE  IsFiniteSet({keys[i] : i \in DOMAIN keys}) /\ {keys[i] : i \in DOMAIN keys} \subseteq Keys
  <1> DEFINE T == {keys[i] : i \in DOMAIN keys}
  <1>1. keys \in [DOMAIN keys -> T]
    BY Zenon DEF KeyList
  <1>2. keys \in Surjection(DOMAIN keys, T)
    BY <1>1 DEF Surjection
  <1>3. IsFiniteSet(T)
    <2> HIDE DEF T
    <2> QED
      BY <1>2, FS_Surjection DEF KeyList
  <1> QED
    BY <1>3 DEF KeyList

(* KeyAfter is the end of the gap above a key: no key of the list is in    *)
(* it.                                                                     *)
LEMMA KeyAfterIs ==
  ASSUME NEW keys, KeyList(keys), NEW k \in Keys
  PROVE  /\ IsGap(k, KeyAfter(keys, k)) \/ ~ (k = Open \/ Valid(k))
         /\ KeyAfter(keys, k) = Open \/ KeyLess(k, KeyAfter(keys, k))
         /\ \A i \in DOMAIN keys : KeyLess(k, keys[i]) =>
              KeyAfter(keys, k) # Open /\ ~ KeyLess(keys[i], KeyAfter(keys, k))
  <1> DEFINE above == {x \in {keys[i] : i \in DOMAIN keys} : KeyLess(k, x)}
  <1>1. IsFiniteSet(above) /\ above \subseteq Keys
    <2> DEFINE T == {keys[i] : i \in DOMAIN keys}
    <2>1. above \in SUBSET T
      OBVIOUS
    <2>2. IsFiniteSet(T) /\ T \subseteq Keys
      BY KeysOfList
    <2> HIDE DEF above, T
    <2> QED
      BY <2>1, <2>2, FS_Subset
  <1>2. KeyAfter(keys, k) = IF above = {} THEN Open ELSE CHOOSE x \in above : \A y \in above : ~ KeyLess(y, x)
    BY DEF KeyAfter
  <1>3. \A x \in above : KeyLess(k, x) /\ Valid(x) /\ x # Open
    BY DEF KeyList, Valid
  <1>4. \A i \in DOMAIN keys : KeyLess(k, keys[i]) => keys[i] \in above
    OBVIOUS
  <1> HIDE DEF above
  <1>5. CASE above = {}
    <2>1. KeyAfter(keys, k) = Open
      BY <1>2, <1>5
    <2> QED
      BY <1>4, <1>5, <2>1, OpenIsAKey DEF IsGap
  <1>6. CASE above # {}
    <2>1. KeyAfter(keys, k) \in above /\ \A y \in above : ~ KeyLess(y, KeyAfter(keys, k))
      <3>1. \E x \in above : \A y \in above : ~ KeyLess(y, x)
        BY <1>1, <1>6, KeysHaveEnds
      <3> QED
        BY <1>2, <1>6, <3>1
    <2> QED
      BY <1>1, <1>3, <1>4, <2>1 DEF IsGap
  <1> QED
    BY <1>5, <1>6

(* KeyBefore is the end of the gap below a key.                            *)
LEMMA KeyBeforeIs ==
  ASSUME NEW keys, KeyList(keys), NEW k \in Keys, Valid(k)
  PROVE  /\ IsGap(KeyBefore(keys, k), k)
         /\ \A i \in DOMAIN keys : KeyLess(keys[i], k) =>
              KeyBefore(keys, k) # Open /\ ~ KeyLess(KeyBefore(keys, k), keys[i])
  <1> DEFINE below == {x \in {keys[i] : i \in DOMAIN keys} : KeyLess(x, k)}
  <1>1. IsFiniteSet(below) /\ below \subseteq Keys
    <2> DEFINE T == {keys[i] : i \in DOMAIN keys}
    <2>1. below \in SUBSET T
      OBVIOUS
    <2>2. IsFiniteSet(T) /\ T \subseteq Keys
      BY KeysOfList
    <2> HIDE DEF below, T
    <2> QED
      BY <2>1, <2>2, FS_Subset
  <1>2. KeyBefore(keys, k) = IF below = {} THEN Open ELSE CHOOSE x \in below : \A y \in below : ~ KeyLess(x, y)
    BY DEF KeyBefore
  <1>3. \A x \in below : KeyLess(x, k) /\ Valid(x) /\ x # Open
    BY DEF KeyList, Valid
  <1>4. \A i \in DOMAIN keys : KeyLess(keys[i], k) => keys[i] \in below
    OBVIOUS
  <1> HIDE DEF below
  <1>5. CASE below = {}
    <2>1. KeyBefore(keys, k) = Open
      BY <1>2, <1>5
    <2> QED
      BY <1>4, <1>5, <2>1, OpenIsAKey DEF IsGap
  <1>6. CASE below # {}
    <2>1. KeyBefore(keys, k) \in below /\ \A y \in below : ~ KeyLess(KeyBefore(keys, k), y)
      <3>1. \E x \in below : \A y \in below : ~ KeyLess(x, y)
        BY <1>1, <1>6, KeysHaveEnds
      <3> QED
        BY <1>2, <1>6, <3>1
    <2> QED
      BY <1>1, <1>3, <1>4, <2>1 DEF IsGap
  <1> QED
    BY <1>5, <1>6

(* KeyLast is the last key, or open.                                       *)
LEMMA KeyLastIs ==
  ASSUME NEW keys, KeyList(keys)
  PROVE  IsGap(KeyLast(keys), Open)
  <1> DEFINE all == {keys[i] : i \in DOMAIN keys}
  <1>1. IsFiniteSet(all) /\ all \subseteq Keys
    BY KeysOfList
  <1>2. KeyLast(keys) = IF all = {} THEN Open ELSE CHOOSE x \in all : \A y \in all : ~ KeyLess(x, y)
    BY DEF KeyLast
  <1>3. \A x \in all : Valid(x)
    BY DEF KeyList
  <1> HIDE DEF all
  <1>4. CASE all = {}
    BY <1>2, <1>4, OpenIsAKey DEF IsGap
  <1>5. CASE all # {}
    <2>1. KeyLast(keys) \in all
      <3>1. \E x \in all : \A y \in all : ~ KeyLess(x, y)
        BY <1>1, <1>5, KeysHaveEnds
      <3> QED
        BY <1>2, <1>5, <3>1
    <2> QED
      BY <1>1, <1>3, <2>1, OpenIsAKey DEF IsGap
  <1> QED
    BY <1>4, <1>5

(* The key is where the hints ask for it: right behind the one neighbour,  *)
(* right before the other, or somewhere between two that are in order.     *)
InOrderOf(keys, h, none) == h.after # none /\ h.before # none /\ KeyLess(keys[h.after], keys[h.before])

IsAsked(keys, k, h, none) ==
  /\ h.after # none =>
       /\ h.after \in DOMAIN keys /\ KeyLess(keys[h.after], k)
       /\ h.before \in DOMAIN keys \cup {none}
       /\ InOrderOf(keys, h, none) => KeyLess(k, keys[h.before])
       /\ ~ InOrderOf(keys, h, none) =>
            \A m \in DOMAIN keys : ~ (KeyLess(keys[h.after], keys[m]) /\ KeyLess(keys[m], k))
  /\ h.after = none /\ h.before # none =>
       /\ h.before \in DOMAIN keys /\ KeyLess(k, keys[h.before])
       /\ \A m \in DOMAIN keys : ~ (KeyLess(k, keys[m]) /\ KeyLess(keys[m], keys[h.before]))

(* The others keep their order, strictly where their keys differed.        *)
KeepsKeys(old, new) ==
  \A i, j \in DOMAIN old :
    /\ Precedes(old, i, j) => ~ Precedes(new, j, i)
    /\ KeyLess(old[i], old[j]) => KeyLess(new[i], new[j])

(* The gap the hints name.                                                 *)
LEMMA GapIsOneOf ==
  ASSUME NEW keys, NEW h, NEW none, NEW g \in Gap(keys, h, none)
  PROVE  LET a == h.after
             b == h.before
         IN  /\ {a, b} \subseteq DOMAIN keys \cup {none}
             /\ a # none /\ b # none /\ KeyLess(keys[a], keys[b]) => g = <<keys[a], keys[b]>>
             /\ a # none /\ ~ (b # none /\ KeyLess(keys[a], keys[b])) => g = <<keys[a], KeyAfter(keys, keys[a])>>
             /\ a = none /\ b # none => g = <<KeyBefore(keys, keys[b]), keys[b]>>
             /\ a = none /\ b = none => g = <<Open, KeyFirst(keys)>> \/ g = <<KeyLast(keys), Open>>
  <1> DEFINE a == h.after
  <1> DEFINE b == h.before
  <1>1. {a, b} \subseteq DOMAIN keys \cup {none}
    BY DEF Gap
  <1>2. g \in CASE a # none /\ b # none /\ KeyLess(keys[a], keys[b]) -> {<<keys[a], keys[b]>>}
                [] a # none /\ ~ (b # none /\ KeyLess(keys[a], keys[b])) -> {<<keys[a], KeyAfter(keys, keys[a])>>}
                [] a = none /\ b # none -> {<<KeyBefore(keys, keys[b]), keys[b]>>}
                [] a = none /\ b = none /\ h.top -> {<<Open, KeyFirst(keys)>>}
                [] OTHER -> {<<KeyLast(keys), Open>>}
    BY <1>1, Zenon DEF Gap
  <1> HIDE DEF a, b
  <1>3. CASE a # none /\ b # none /\ KeyLess(keys[a], keys[b])
    BY <1>1, <1>2, <1>3 DEF a, b
  <1>4. CASE a # none /\ ~ (b # none /\ KeyLess(keys[a], keys[b]))
    BY <1>1, <1>2, <1>4 DEF a, b
  <1>5. CASE a = none /\ b # none
    BY <1>1, <1>2, <1>5 DEF a, b
  <1>6. CASE a = none /\ b = none
    BY <1>1, <1>2, <1>6 DEF a, b
  <1> QED
    BY <1>3, <1>4, <1>5, <1>6

(* The keys for a place are valid and where the hints ask.                 *)
LEMMA KeysAreWhereAsked ==
  ASSUME NEW keys, KeyList(keys), NEW h, NEW none, NEW k \in KeysFor(keys, h, none)
  PROVE  k \in Keys /\ Valid(k) /\ IsAsked(keys, k, h, none)
  <1> DEFINE a == h.after
  <1> DEFINE b == h.before
  <1>1. PICK g \in Gap(keys, h, none) : k \in Between(g[1], g[2])
    BY DEF KeysFor
  <1>2. /\ {a, b} \subseteq DOMAIN keys \cup {none}
        /\ a # none /\ b # none /\ KeyLess(keys[a], keys[b]) => g = <<keys[a], keys[b]>>
        /\ a # none /\ ~ (b # none /\ KeyLess(keys[a], keys[b])) => g = <<keys[a], KeyAfter(keys, keys[a])>>
        /\ a = none /\ b # none => g = <<KeyBefore(keys, keys[b]), keys[b]>>
        /\ a = none /\ b = none => g = <<Open, KeyFirst(keys)>> \/ g = <<KeyLast(keys), Open>>
    BY GapIsOneOf
  <1> HIDE DEF a, b
  <1>3. \A i \in DOMAIN keys : keys[i] \in Keys /\ Valid(keys[i])
    BY DEF KeyList
  <1>4. CASE a # none /\ b # none /\ KeyLess(keys[a], keys[b])
    <2>1. a \in DOMAIN keys /\ b \in DOMAIN keys /\ g[1] = keys[a] /\ g[2] = keys[b]
      BY <1>2, <1>4
    <2>2. IsGap(keys[a], keys[b])
      BY <1>3, <1>4, <2>1 DEF IsGap
    <2>3. Within(k, keys[a], keys[b])
      BY <1>1, <2>1, <2>2, BetweenIsInside
    <2> QED
      BY <1>2, <1>3, <1>4, <2>1, <2>3 DEF Within, IsAsked, InOrderOf, a, b, Valid
  <1>5. CASE a # none /\ ~ (b # none /\ KeyLess(keys[a], keys[b]))
    <2> DEFINE after == KeyAfter(keys, keys[a])
    <2>1. a \in DOMAIN keys /\ g[1] = keys[a] /\ g[2] = after
      BY <1>2, <1>5
    <2>2. /\ keys[a] \in Keys /\ IsGap(keys[a], after)
          /\ \A i \in DOMAIN keys : KeyLess(keys[a], keys[i]) => after # Open /\ ~ KeyLess(keys[i], after)
      BY <1>3, <2>1, KeyAfterIs
    <2> HIDE DEF after
    <2>3. k \in Keys /\ Valid(k) /\ KeyLess(keys[a], k) /\ (after = Open \/ KeyLess(k, after)) /\ after \in Keys
      BY <1>1, <2>1, <2>2, BetweenIsInside DEF Within, IsGap
    <2>4. ASSUME NEW m \in DOMAIN keys, KeyLess(keys[a], keys[m]), KeyLess(keys[m], k) PROVE FALSE
      <3>1. after # Open /\ ~ KeyLess(keys[m], after)
        BY <2>2, <2>4
      <3>2. keys[m] \in Seq(Nat) /\ k \in Seq(Nat) /\ after \in Seq(Nat) /\ KeyLess(k, after)
        BY <1>3, <2>3, <3>1, KeysAreNumbers
      <3> QED
        BY <2>4, <3>1, <3>2, LessIsTransitive
    <2> QED
      BY <1>2, <1>5, <2>1, <2>3, <2>4 DEF IsAsked, InOrderOf, a, b
  <1>6. CASE a = none /\ b # none
    <2> DEFINE before == KeyBefore(keys, keys[b])
    <2>1. b \in DOMAIN keys /\ g[1] = before /\ g[2] = keys[b]
      BY <1>2, <1>6
    <2>2. /\ IsGap(before, keys[b])
          /\ \A i \in DOMAIN keys : KeyLess(keys[i], keys[b]) => before # Open /\ ~ KeyLess(before, keys[i])
      BY <1>3, <2>1, KeyBeforeIs
    <2> HIDE DEF before
    <2>3. k \in Keys /\ Valid(k) /\ KeyLess(before, k) /\ KeyLess(k, keys[b]) /\ before \in Keys
      <3>1. Within(k, before, keys[b]) /\ keys[b] # Open
        BY <1>1, <1>3, <2>1, <2>2, BetweenIsInside DEF Valid
      <3> QED
        BY <2>2, <3>1 DEF Within, IsGap
    <2>4. ASSUME NEW m \in DOMAIN keys, KeyLess(k, keys[m]), KeyLess(keys[m], keys[b]) PROVE FALSE
      <3>1. before # Open /\ ~ KeyLess(before, keys[m])
        BY <2>2, <2>4
      <3>2. keys[m] \in Seq(Nat) /\ k \in Seq(Nat) /\ before \in Seq(Nat)
        BY <1>3, <2>3, KeysAreNumbers
      <3> QED
        BY <2>3, <2>4, <3>1, <3>2, LessIsTransitive
    <2> QED
      BY <1>6, <2>1, <2>3, <2>4 DEF IsAsked, a, b
  <1>7. CASE a = none /\ b = none
    <2>1. IsGap(g[1], g[2])
      <3>1. CASE g = <<Open, KeyFirst(keys)>>
        BY <3>1, KeyAfterIs, OpenIsAKey DEF KeyFirst
      <3>2. CASE g = <<KeyLast(keys), Open>>
        BY <3>2, KeyLastIs
      <3> QED
        BY <1>2, <1>7, <3>1, <3>2
    <2>2. Within(k, g[1], g[2])
      BY <1>1, <2>1, BetweenIsInside
    <2> QED
      BY <1>7, <2>2 DEF Within, IsAsked, a, b
  <1> QED
    BY <1>4, <1>5, <1>6, <1>7

(* What Place answers: valid keys, the one that is asked for where it is   *)
(* asked for, the others in their order.                                   *)
LEMMA PlaceIs ==
  ASSUME NEW keys, KeyList(keys), NEW h, NEW none, NEW p \in Place(keys, h, none)
  PROVE  /\ KeyList(p.keys) /\ DOMAIN p.keys = DOMAIN keys
         /\ p.key \in Keys /\ Valid(p.key) /\ IsAsked(p.keys, p.key, h, none)
         /\ \A i, j \in DOMAIN keys : Precedes(keys, i, j) => ~ Precedes(p.keys, j, i)
         /\ KeepsKeys(keys, p.keys)
  <1> DEFINE new == Rebalanced(keys)
  <1>1. \/ p.keys = keys /\ p.key \in KeysFor(keys, h, none)
        \/ p.keys = new /\ p.key \in KeysFor(new, h, none)
    <2> DEFINE E == {x \in KeysFor(keys, h, none) : Len(x) <= MaxLength}
    <2> DEFINE K == IF \E x \in KeysFor(keys, h, none) : Len(x) > MaxLength
                    THEN KeysFor(Rebalanced(keys), h, none) ELSE {}
    <2>1. /\ \A x \in E : x \in KeysFor(keys, h, none)
          /\ \A x \in K : x \in KeysFor(new, h, none)
      <3> HIDE DEF new
      <3> QED
        BY DEF new
    <2>2. p \in {[key |-> k, keys |-> keys, rekeyed |-> {}] : k \in E}
                \cup {[key |-> k, keys |-> new, rekeyed |-> DOMAIN keys] : k \in K}
      BY DEF Place
    <2> HIDE DEF E, K, new
    <2>3. CASE p \in {[key |-> k, keys |-> keys, rekeyed |-> {}] : k \in E}
      BY <2>1, <2>3
    <2>4. CASE p \in {[key |-> k, keys |-> new, rekeyed |-> DOMAIN keys] : k \in K}
      BY <2>1, <2>4
    <2> QED
      BY <2>2, <2>3, <2>4
  <1>2. /\ KeyList(new) /\ DOMAIN new = DOMAIN keys
        /\ \A i, j \in DOMAIN keys : Precedes(keys, i, j) => KeyLess(new[i], new[j])
    BY RebalancedKeepsOrder
  <1> HIDE DEF new
  <1>3. CASE p.keys = keys /\ p.key \in KeysFor(keys, h, none)
    <2>1. ASSUME NEW i \in DOMAIN keys, NEW j \in DOMAIN keys, Precedes(keys, i, j)
          PROVE  ~ Precedes(p.keys, j, i)
      <3> SUFFICES ASSUME Precedes(keys, j, i) PROVE FALSE
        BY <1>3
      <3>1. <<i, j>> \in Before(keys) /\ <<j, i>> \in Before(keys) /\ IsOrder(DOMAIN keys, Before(keys))
        BY <2>1, PrecedesIsAnOrder
      <3> QED
        BY <3>1 DEF IsOrder
    <2> QED
      BY <1>3, <2>1, KeysAreWhereAsked DEF KeepsKeys
  <1>4. CASE p.keys = new /\ p.key \in KeysFor(new, h, none)
    <2>1. ASSUME NEW i \in DOMAIN keys, NEW j \in DOMAIN keys, Precedes(keys, i, j)
          PROVE  ~ Precedes(p.keys, j, i)
      <3>1. KeyLess(new[i], new[j])
        BY <1>2, <2>1
      <3>2. new[i] \in Seq(Nat) /\ new[j] \in Seq(Nat)
        BY <1>2, KeysAreNumbers DEF KeyList
      <3>3. ~ KeyLess(new[j], new[i]) /\ new[i] # new[j]
        BY <3>1, <3>2, LessIsStrict, LessIsTransitive
      <3> QED
        BY <1>4, <3>3 DEF Precedes
    <2>2. \A i, j \in DOMAIN keys : KeyLess(keys[i], keys[j]) => KeyLess(new[i], new[j])
      BY <1>2 DEF Precedes
    <2> QED
      BY <1>2, <1>4, <2>1, <2>2, KeysAreWhereAsked DEF KeepsKeys
  <1> QED
    BY <1>1, <1>3, <1>4

-----------------------------------------------------------------------------
(* The rows the lists are made of: whatever is in a list has a valid key,  *)
(* and every note the times the Inbox and the Trash are sorted by.         *)
NotesInOrder ==
  \A n \in Notes :
    /\ note[n].category \in Lists
    /\ note[n].category # None => note[n].position \in Keys /\ Valid(note[n].position)
    /\ note[n].created \in Nat /\ note[n].deleted \in Nat

CategoriesInOrder ==
  \A c \in Categories : category[c].page # None => category[c].position \in Keys /\ Valid(category[c].position)

PagesInOrder == \A g \in Pages : page[g] # <<>> => page[g] \in Keys /\ Valid(page[g])

TimesAreNumbers == now \in Nat /\ \A p \in Parts : part[p].created \in Nat

OrderInv == NotesInv /\ NotesInOrder /\ CategoriesInOrder /\ PagesInOrder /\ TimesAreNumbers

(* What a step that places an item leaves alone.                           *)
NotesKeepOrder      == \A c \in Categories : SameOrder(NoteKeys(c, None), NoteKeys(c, None)')
CategoriesKeepOrder == \A g \in Pages : SameOrder(CategoryKeys(g, None), CategoryKeys(g, None)')
PagesKeepOrder      == SameOrder(PageKeys(None), PageKeys(None)')

(* The lists of the board are lists of valid keys: notes of a category,    *)
LEMMA ListOfNotes ==
  ASSUME NotesInOrder, NEW c \in Categories, NEW x
  PROVE  /\ KeyList(NoteKeys(c, x))
         /\ \A m : m \in DOMAIN NoteKeys(c, x) <=>
                     m \in Notes /\ m # x /\ note[m].state = "active" /\ note[m].category = c
         /\ \A m \in DOMAIN NoteKeys(c, x) : NoteKeys(c, x)[m] = note[m].position
  <1> DEFINE D == {m \in Notes \ {x} : note[m].state = "active" /\ note[m].category = c}
  <1>1. NoteKeys(c, x) = [n \in D |-> note[n].position]
    BY DEF NoteKeys
  <1>2. D \in SUBSET Notes /\ D \subseteq Nat /\ c # None
    BY NotesAssumption
  <1>3. IsFiniteSet(D)
    <2> HIDE DEF D
    <2> QED
      BY <1>2, BoardAssumption, FS_Subset
  <1>4. \A m \in D : note[m].position \in Keys /\ Valid(note[m].position)
    BY <1>2 DEF NotesInOrder
  <1>5. \A m : m \in D <=> m \in Notes /\ m # x /\ note[m].state = "active" /\ note[m].category = c
    OBVIOUS
  <1> HIDE DEF D
  <1>6. DOMAIN NoteKeys(c, x) = D /\ \A m \in D : NoteKeys(c, x)[m] = note[m].position
    BY <1>1
  <1>7. NoteKeys(c, x) = [i \in DOMAIN NoteKeys(c, x) |-> NoteKeys(c, x)[i]]
    BY <1>1
  <1> QED
    BY <1>2, <1>3, <1>4, <1>5, <1>6, <1>7 DEF KeyList

(* categories of a page,                                                   *)
LEMMA ListOfCategories ==
  ASSUME CategoriesInOrder, NEW g \in Pages, NEW x
  PROVE  /\ KeyList(CategoryKeys(g, x))
         /\ \A d : d \in DOMAIN CategoryKeys(g, x) <=> d \in Categories /\ d # x /\ category[d].page = g
         /\ \A d \in DOMAIN CategoryKeys(g, x) : CategoryKeys(g, x)[d] = category[d].position
  <1> DEFINE D == {d \in Categories \ {x} : category[d].page = g}
  <1>1. CategoryKeys(g, x) = [c \in D |-> category[c].position]
    BY DEF CategoryKeys
  <1>2. D \in SUBSET Categories /\ D \subseteq Nat /\ g # None
    BY NotesAssumption
  <1>3. IsFiniteSet(D)
    <2> HIDE DEF D
    <2> QED
      BY <1>2, BoardAssumption, FS_Subset
  <1>4. \A d \in D : category[d].position \in Keys /\ Valid(category[d].position)
    BY <1>2 DEF CategoriesInOrder
  <1>5. \A d : d \in D <=> d \in Categories /\ d # x /\ category[d].page = g
    OBVIOUS
  <1> HIDE DEF D
  <1>6. DOMAIN CategoryKeys(g, x) = D /\ \A d \in D : CategoryKeys(g, x)[d] = category[d].position
    BY <1>1
  <1>7. CategoryKeys(g, x) = [i \in DOMAIN CategoryKeys(g, x) |-> CategoryKeys(g, x)[i]]
    BY <1>1
  <1> QED
    BY <1>2, <1>3, <1>4, <1>5, <1>6, <1>7 DEF KeyList

(* and pages.                                                              *)
LEMMA ListOfPages ==
  ASSUME PagesInOrder, NEW x
  PROVE  /\ KeyList(PageKeys(x))
         /\ \A g : g \in DOMAIN PageKeys(x) <=> g \in Pages /\ g # x /\ page[g] # <<>>
         /\ \A g \in DOMAIN PageKeys(x) : PageKeys(x)[g] = page[g]
  <1> DEFINE D == {h \in Pages \ {x} : GetPage(h)}
  <1>1. PageKeys(x) = [g \in D |-> page[g]]
    BY DEF PageKeys
  <1>2. D \in SUBSET Pages /\ D \subseteq Nat
    BY NotesAssumption
  <1>3. IsFiniteSet(D)
    <2> HIDE DEF D
    <2> QED
      BY <1>2, BoardAssumption, FS_Subset
  <1>4. \A g \in D : page[g] \in Keys /\ Valid(page[g])
    BY DEF PagesInOrder, GetPage
  <1>5. \A g : g \in D <=> g \in Pages /\ g # x /\ page[g] # <<>>
    BY DEF GetPage
  <1> HIDE DEF D
  <1>6. DOMAIN PageKeys(x) = D /\ \A g \in D : PageKeys(x)[g] = page[g]
    BY <1>1
  <1>7. PageKeys(x) = [i \in DOMAIN PageKeys(x) |-> PageKeys(x)[i]]
    BY <1>1
  <1> QED
    BY <1>2, <1>3, <1>4, <1>5, <1>6, <1>7 DEF KeyList

(* To leave the others in their order it is enough to leave out one item.  *)
LEMMA OrderIsSame ==
  ASSUME NEW old, NEW new, NEW x,
         \A i, j \in (DOMAIN old \cap DOMAIN new) \ {x} : Precedes(old, i, j) => ~ Precedes(new, j, i)
  PROVE  SameOrder(old, new)
  <1>1. CASE x \in DOMAIN old \cup DOMAIN new
    BY <1>1 DEF SameOrder
  <1>2. CASE x \notin DOMAIN old \cup DOMAIN new
    <2>1. \A i, j \in (DOMAIN old \cap DOMAIN new) \ {None} : Precedes(old, i, j) => ~ Precedes(new, j, i)
      BY <1>2
    <2> QED
      BY <2>1 DEF SameOrder
  <1> QED
    BY <1>1, <1>2

(* Items whose keys stay keep their order, as those do that Place rewrites.*)
LEMMA OrderStays ==
  ASSUME NEW old, KeyList(old), NEW i \in DOMAIN old, NEW j \in DOMAIN old, Precedes(old, i, j),
         NEW new, new[i] = old[i], new[j] = old[j]
  PROVE  ~ Precedes(new, j, i)
  <1> SUFFICES ASSUME Precedes(new, j, i) PROVE FALSE
    OBVIOUS
  <1>1. Precedes(old, j, i)
    BY DEF Precedes
  <1>2. <<i, j>> \in Before(old) /\ <<j, i>> \in Before(old) /\ IsOrder(DOMAIN old, Before(old))
    BY <1>1, PrecedesIsAnOrder
  <1> QED
    BY <1>2 DEF IsOrder

(* A list that stays as it is keeps its order.                             *)
LEMMA NothingMoves ==
  ASSUME NEW old, KeyList(old)
  PROVE  SameOrder(old, old)
  BY OrderStays, OrderIsSame

-----------------------------------------------------------------------------
(* The rows of the notes once a place was found: only positions change,    *)
(* and those of the list the note goes to keep their order.                *)
LEMMA PlacedNotes ==
  ASSUME NoteTable, NotesInOrder, NEW c \in Lists, NEW n, NEW h, NEW p \in PlaceNote(c, n, h)
  PROVE  LET rows == RekeyNotes(p.keys)
             keys == NoteKeys(c, n)
         IN  /\ \A m \in Notes : /\ rows[m].state = note[m].state /\ rows[m].category = note[m].category
                                 /\ rows[m].created = note[m].created /\ rows[m].deleted = note[m].deleted
             /\ \A m \in Notes : note[m].category # None => rows[m].position \in Keys /\ Valid(rows[m].position)
             /\ \A m \in Notes : c = None \/ m \notin DOMAIN keys => rows[m] = note[m]
             /\ c = None => p.key = <<>>
             /\ c # None =>
                  /\ DOMAIN p.keys = DOMAIN keys
                  /\ \A m \in DOMAIN keys : rows[m].position = p.keys[m]
                  /\ p.key \in Keys /\ Valid(p.key) /\ IsAsked(p.keys, p.key, h, None)
                  /\ \A i, j \in DOMAIN keys : Precedes(keys, i, j) => ~ Precedes(p.keys, j, i)
                  /\ KeyList(keys) /\ KeyList(p.keys) /\ KeepsKeys(keys, p.keys)
  <1> DEFINE rows == RekeyNotes(p.keys)
  <1> DEFINE keys == NoteKeys(c, n)
  <1>1. ASSUME NEW m \in Notes
        PROVE  rows[m] = IF m \in DOMAIN p.keys THEN [note[m] EXCEPT !.position = p.keys[m]] ELSE note[m]
    BY DEF RekeyNotes
  <1>2. \A m \in Notes : DOMAIN note[m] = NoteColumns
    BY DEF NoteTable, IsRow
  <1>3. \A m \in Notes : note[m].category # None => note[m].position \in Keys /\ Valid(note[m].position)
    BY DEF NotesInOrder
  <1>4. CASE c = None
    <2>1. p.keys = <<>> /\ p.key = <<>>
      BY <1>4 DEF PlaceNote
    <2>2. DOMAIN <<>> = {}
      OBVIOUS
    <2>3. \A m \in Notes : rows[m] = note[m]
      BY <1>1, <2>1, <2>2
    <2> HIDE DEF rows, keys
    <2> QED
      BY <1>3, <1>4, <2>1, <2>3 DEF rows, keys
  <1>5. CASE c # None
    <2>1. c \in Categories /\ p \in Place(keys, h, None)
      BY <1>5 DEF PlaceNote, Lists
    <2>2. /\ KeyList(keys)
          /\ \A m \in DOMAIN keys : m \in Notes /\ keys[m] = note[m].position
      BY <2>1, ListOfNotes
    <2> HIDE DEF rows, keys
    <2>3. /\ KeyList(p.keys) /\ DOMAIN p.keys = DOMAIN keys
          /\ p.key \in Keys /\ Valid(p.key) /\ IsAsked(p.keys, p.key, h, None)
          /\ \A i, j \in DOMAIN keys : Precedes(keys, i, j) => ~ Precedes(p.keys, j, i)
          /\ KeepsKeys(keys, p.keys)
      BY <2>1, <2>2, PlaceIs
    <2>4. ASSUME NEW m \in Notes, m \in DOMAIN p.keys
          PROVE  /\ rows[m].state = note[m].state /\ rows[m].category = note[m].category
                 /\ rows[m].created = note[m].created /\ rows[m].deleted = note[m].deleted
                 /\ rows[m].position = p.keys[m]
      <3>1. rows[m] = [note[m] EXCEPT !.position = p.keys[m]]
        BY <1>1, <2>4
      <3>2. DOMAIN note[m] = {"state", "category", "position", "created", "deleted"}
        BY <1>2 DEF NoteColumns
      <3> QED
        BY <3>1, <3>2
    <2>5. \A m \in Notes : m \notin DOMAIN p.keys => rows[m] = note[m]
      BY <1>1
    <2>6. \A m \in DOMAIN p.keys : p.keys[m] \in Keys /\ Valid(p.keys[m])
      BY <2>3 DEF KeyList
    <2> QED
      BY <1>3, <1>5, <2>2, <2>3, <2>4, <2>5, <2>6 DEF rows, keys
  <1> QED
    BY <1>4, <1>5

(* The note goes there, and the others keep their order.                   *)
LEMMA NotePlaced ==
  ASSUME NoteTable, NotesInOrder, NEW c \in Lists, NEW n \in Notes, NEW h, NEW p \in PlaceNote(c, n, h),
         \A m \in Notes : m # n => note'[m] = RekeyNotes(p.keys)[m],
         note'[n].category = c, note'[n].position = p.key,
         note'[n].created \in Nat, note'[n].deleted \in Nat
  PROVE  NotesInOrder' /\ NotesKeepOrder
  <1> DEFINE rows == RekeyNotes(p.keys)
  <1> DEFINE keys == NoteKeys(c, n)
  <1>1. /\ \A m \in Notes : /\ rows[m].state = note[m].state /\ rows[m].category = note[m].category
                            /\ rows[m].created = note[m].created /\ rows[m].deleted = note[m].deleted
        /\ \A m \in Notes : note[m].category # None => rows[m].position \in Keys /\ Valid(rows[m].position)
        /\ \A m \in Notes : c = None \/ m \notin DOMAIN keys => rows[m] = note[m]
        /\ c # None =>
             /\ DOMAIN p.keys = DOMAIN keys
             /\ \A m \in DOMAIN keys : rows[m].position = p.keys[m]
             /\ p.key \in Keys /\ Valid(p.key)
             /\ \A i, j \in DOMAIN keys : Precedes(keys, i, j) => ~ Precedes(p.keys, j, i)
    BY PlacedNotes
  <1>2. \A m \in Notes : m # n => note'[m] = rows[m]
    OBVIOUS
  <1> HIDE DEF rows
  <1>3. NotesInOrder'
    <2>1. ASSUME NEW m \in Notes
          PROVE  /\ note'[m].category \in Lists
                 /\ note'[m].category # None => note'[m].position \in Keys /\ Valid(note'[m].position)
                 /\ note'[m].created \in Nat /\ note'[m].deleted \in Nat
      <3>1. CASE m = n
        BY <1>1, <3>1
      <3>2. CASE m # n
        <4>1. note'[m] = rows[m]
          BY <1>2, <3>2
        <4>2. note[m].category \in Lists /\ note[m].created \in Nat /\ note[m].deleted \in Nat
          BY DEF NotesInOrder
        <4> QED
          BY <1>1, <4>1, <4>2
      <3> QED
        BY <3>1, <3>2
    <2> QED
      BY <2>1 DEF NotesInOrder
  <1>4. ASSUME NEW d \in Categories
        PROVE  SameOrder(NoteKeys(d, None), NoteKeys(d, None)')
    <2> DEFINE old == NoteKeys(d, None)
    <2> DEFINE new == NoteKeys(d, None)'
    <2>1. /\ KeyList(old)
          /\ \A m \in DOMAIN old : m \in Notes /\ note[m].state = "active" /\ note[m].category = d
                                   /\ old[m] = note[m].position
      BY ListOfNotes
    <2>2. \A m \in DOMAIN new : m \in Notes /\ new[m] = note'[m].position
      BY DEF NoteKeys
    <2>3. c \in Categories =>
            /\ \A m : m \in DOMAIN keys <=> m \in Notes /\ m # n /\ note[m].state = "active" /\ note[m].category = c
            /\ \A m \in DOMAIN keys : keys[m] = note[m].position
      BY ListOfNotes
    <2> HIDE DEF old, new, keys
    <2>4. ASSUME NEW i \in (DOMAIN old \cap DOMAIN new) \ {n}, NEW j \in (DOMAIN old \cap DOMAIN new) \ {n},
                 Precedes(old, i, j)
          PROVE  ~ Precedes(new, j, i)
      <3>1. /\ old[i] = note[i].position /\ old[j] = note[j].position
            /\ new[i] = rows[i].position /\ new[j] = rows[j].position
        BY <1>2, <2>1, <2>2
      <3>2. CASE d = c
        <4>1. c # None /\ c \in Categories
          BY <3>2, NotesAssumption
        <4>2. i \in DOMAIN keys /\ j \in DOMAIN keys /\ keys[i] = old[i] /\ keys[j] = old[j]
          BY <2>1, <2>3, <3>1, <3>2, <4>1
        <4>3. Precedes(keys, i, j)
          BY <2>4, <4>2 DEF Precedes
        <4>4. ~ Precedes(p.keys, j, i)
          BY <1>1, <4>1, <4>2, <4>3
        <4>5. new[i] = p.keys[i] /\ new[j] = p.keys[j]
          BY <1>1, <3>1, <4>1, <4>2
        <4> QED
          BY <4>4, <4>5 DEF Precedes
      <3>3. CASE d # c
        <4>1. rows[i] = note[i] /\ rows[j] = note[j]
          <5>1. CASE c = None
            BY <1>1, <2>1, <5>1
          <5>2. CASE c # None
            BY <1>1, <2>1, <2>3, <3>3, <5>2 DEF Lists
          <5> QED
            BY <5>1, <5>2
        <4>2. new[i] = old[i] /\ new[j] = old[j]
          BY <3>1, <4>1
        <4> QED
          BY <2>1, <2>4, <4>2, OrderStays
      <3> QED
        BY <3>2, <3>3
    <2>5. SameOrder(old, new)
      BY <2>4, OrderIsSame
    <2> QED
      BY <2>5 DEF old, new
  <1> QED
    BY <1>3, <1>4 DEF NotesKeepOrder

(* The same of categories on their page.                                   *)
LEMMA CategoryPlaced ==
  ASSUME CategoryTable, CategoriesInOrder, NEW g \in Pages, NEW c \in Categories, NEW x, NEW h,
         NEW p \in PlaceCategory(g, x, h), x = c \/ (category[c].page # g /\ x = None),
         \A d \in Categories : d # c => category'[d] = RekeyCategories(p.keys)[d],
         category'[c].page = g, category'[c].position = p.key
  PROVE  CategoriesInOrder' /\ CategoriesKeepOrder
  <1> DEFINE rows == RekeyCategories(p.keys)
  <1> DEFINE keys == CategoryKeys(g, x)
  <1>1. /\ KeyList(keys)
        /\ \A d : d \in DOMAIN keys <=> d \in Categories /\ d # x /\ category[d].page = g
        /\ \A d \in DOMAIN keys : keys[d] = category[d].position
    BY ListOfCategories
  <1>2. \A d \in DOMAIN keys : d \in Categories /\ d # c
    BY <1>1
  <1>3. \A d \in Categories : d # c /\ category[d].page = g => d \in DOMAIN keys
    <2>1. None \notin Categories
      BY NotesAssumption
    <2> QED
      BY <1>1, <2>1
  <1>4. p \in Place(keys, h, None)
    BY DEF PlaceCategory
  <1>5. ASSUME NEW d \in Categories
        PROVE  rows[d] = IF d \in DOMAIN p.keys THEN [category[d] EXCEPT !.position = p.keys[d]] ELSE category[d]
    BY DEF RekeyCategories
  <1>6. \A d \in Categories : d # c => category'[d] = rows[d]
    OBVIOUS
  <1> HIDE DEF rows, keys
  <1>7. /\ KeyList(p.keys) /\ DOMAIN p.keys = DOMAIN keys
        /\ p.key \in Keys /\ Valid(p.key)
        /\ \A i, j \in DOMAIN keys : Precedes(keys, i, j) => ~ Precedes(p.keys, j, i)
    BY <1>1, <1>4, PlaceIs
  <1>8. ASSUME NEW d \in Categories, d \in DOMAIN keys
        PROVE  rows[d].page = category[d].page /\ rows[d].position = p.keys[d]
    <2>1. rows[d] = [category[d] EXCEPT !.position = p.keys[d]]
      BY <1>5, <1>7, <1>8
    <2>2. DOMAIN category[d] = {"page", "position"}
      BY DEF CategoryTable, IsRow, CategoryColumns
    <2> QED
      BY <2>1, <2>2
  <1>9. \A d \in Categories : d \notin DOMAIN keys => rows[d] = category[d]
    BY <1>5, <1>7
  <1>10. CategoriesInOrder'
    <2>1. ASSUME NEW d \in Categories, category'[d].page # None
          PROVE  category'[d].position \in Keys /\ Valid(category'[d].position)
      <3>1. CASE d = c
        BY <1>7, <3>1
      <3>2. CASE d # c /\ d \in DOMAIN keys
        <4>1. category'[d].position = p.keys[d]
          BY <1>6, <1>8, <3>2
        <4> QED
          BY <1>7, <3>2, <4>1 DEF KeyList
      <3>3. CASE d # c /\ d \notin DOMAIN keys
        <4>1. category'[d] = category[d]
          BY <1>6, <1>9, <3>3
        <4> QED
          BY <2>1, <4>1 DEF CategoriesInOrder
      <3> QED
        BY <3>1, <3>2, <3>3
    <2> QED
      BY <2>1 DEF CategoriesInOrder
  <1>11. ASSUME NEW f \in Pages
         PROVE  SameOrder(CategoryKeys(f, None), CategoryKeys(f, None)')
    <2> DEFINE old == CategoryKeys(f, None)
    <2> DEFINE new == CategoryKeys(f, None)'
    <2>1. /\ KeyList(old)
          /\ \A d \in DOMAIN old : d \in Categories /\ category[d].page = f /\ old[d] = category[d].position
      BY ListOfCategories
    <2>2. \A d \in DOMAIN new : new[d] = category'[d].position
      BY DEF CategoryKeys
    <2> HIDE DEF old, new
    <2>3. ASSUME NEW i \in (DOMAIN old \cap DOMAIN new) \ {c}, NEW j \in (DOMAIN old \cap DOMAIN new) \ {c},
                 Precedes(old, i, j)
          PROVE  ~ Precedes(new, j, i)
      <3>1. /\ old[i] = category[i].position /\ old[j] = category[j].position
            /\ new[i] = rows[i].position /\ new[j] = rows[j].position
        BY <1>6, <2>1, <2>2
      <3>2. CASE f = g
        <4>1. i \in DOMAIN keys /\ j \in DOMAIN keys
          BY <1>3, <2>1, <3>2
        <4>2. keys[i] = old[i] /\ keys[j] = old[j]
          BY <1>1, <3>1, <4>1
        <4>3. Precedes(keys, i, j)
          BY <2>3, <4>2 DEF Precedes
        <4>4. ~ Precedes(p.keys, j, i)
          BY <1>7, <4>1, <4>3
        <4>5. new[i] = p.keys[i] /\ new[j] = p.keys[j]
          BY <1>2, <1>8, <3>1, <4>1
        <4> QED
          BY <4>4, <4>5 DEF Precedes
      <3>3. CASE f # g
        <4>1. i \notin DOMAIN keys /\ j \notin DOMAIN keys
          BY <1>1, <2>1, <3>3
        <4>2. new[i] = old[i] /\ new[j] = old[j]
          BY <1>9, <2>1, <3>1, <4>1
        <4> QED
          BY <2>1, <2>3, <4>2, OrderStays
      <3> QED
        BY <3>2, <3>3
    <2>4. SameOrder(old, new)
      BY <2>3, OrderIsSame
    <2> QED
      BY <2>4 DEF old, new
  <1> QED
    BY <1>10, <1>11 DEF CategoriesKeepOrder

(* And of pages.                                                           *)
LEMMA PagePlaced ==
  ASSUME PagesInOrder, NEW g \in Pages, NEW x, NEW h, NEW p \in PlacePage(x, h),
         x = g \/ (page[g] = <<>> /\ x = None),
         page' = [RekeyPages(p.keys) EXCEPT ![g] = p.key]
  PROVE  PagesInOrder' /\ PagesKeepOrder
  <1> DEFINE rows == RekeyPages(p.keys)
  <1> DEFINE keys == PageKeys(x)
  <1> DEFINE old == PageKeys(None)
  <1> DEFINE new == PageKeys(None)'
  <1>1. /\ KeyList(keys)
        /\ \A f : f \in DOMAIN keys <=> f \in Pages /\ f # x /\ page[f] # <<>>
        /\ \A f \in DOMAIN keys : keys[f] = page[f]
    BY ListOfPages
  <1>2. \A f \in Pages : f # g /\ page[f] # <<>> => f \in DOMAIN keys
    <2>1. None \notin Pages
      BY NotesAssumption
    <2> QED
      BY <1>1, <2>1
  <1>3. p \in Place(keys, h, None)
    BY DEF PlacePage
  <1>4. /\ DOMAIN rows = Pages
        /\ \A f \in Pages : rows[f] = IF f \in DOMAIN p.keys THEN p.keys[f] ELSE page[f]
    BY DEF RekeyPages
  <1>5. page' = [rows EXCEPT ![g] = p.key]
    OBVIOUS
  <1>6. \A f \in DOMAIN old : f \in Pages /\ page[f] # <<>> /\ old[f] = page[f]
    BY ListOfPages
  <1>7. \A f \in DOMAIN new : new[f] = page'[f]
    BY DEF PageKeys
  <1> HIDE DEF rows, keys, old, new
  <1>8. /\ KeyList(p.keys) /\ DOMAIN p.keys = DOMAIN keys
        /\ p.key \in Keys /\ Valid(p.key)
        /\ \A i, j \in DOMAIN keys : Precedes(keys, i, j) => ~ Precedes(p.keys, j, i)
    BY <1>1, <1>3, PlaceIs
  <1>9. \A f \in Pages : f # g => page'[f] = IF f \in DOMAIN keys THEN p.keys[f] ELSE page[f]
    BY <1>4, <1>5, <1>8
  <1>10. PagesInOrder'
    <2>1. page'[g] = p.key
      BY <1>4, <1>5
    <2>2. \A f \in DOMAIN keys : p.keys[f] \in Keys /\ Valid(p.keys[f])
      BY <1>8 DEF KeyList
    <2>3. ASSUME NEW f \in Pages, page'[f] # <<>> PROVE page'[f] \in Keys /\ Valid(page'[f])
      <3>1. CASE f = g
        BY <1>8, <2>1, <3>1
      <3>2. CASE f # g /\ f \in DOMAIN keys
        BY <1>9, <2>2, <3>2
      <3>3. CASE f # g /\ f \notin DOMAIN keys
        <4>1. page'[f] = page[f]
          BY <1>9, <3>3
        <4> QED
          BY <2>3, <4>1 DEF PagesInOrder
      <3> QED
        BY <3>1, <3>2, <3>3
    <2> QED
      BY <2>3 DEF PagesInOrder
  <1>11. ASSUME NEW i \in (DOMAIN old \cap DOMAIN new) \ {g}, NEW j \in (DOMAIN old \cap DOMAIN new) \ {g},
                Precedes(old, i, j)
         PROVE  ~ Precedes(new, j, i)
    <2>1. i \in DOMAIN keys /\ j \in DOMAIN keys
      BY <1>2, <1>6
    <2>2. keys[i] = old[i] /\ keys[j] = old[j]
      BY <1>1, <1>6, <2>1
    <2>3. Precedes(keys, i, j)
      BY <1>11, <2>2 DEF Precedes
    <2>4. ~ Precedes(p.keys, j, i)
      BY <1>8, <2>1, <2>3
    <2>5. new[i] = p.keys[i] /\ new[j] = p.keys[j]
      BY <1>6, <1>7, <1>9, <2>1
    <2> QED
      BY <2>4, <2>5 DEF Precedes
  <1>12. SameOrder(old, new)
    BY <1>11, OrderIsSame
  <1> QED
    BY <1>10, <1>12 DEF PagesKeepOrder, old, new

-----------------------------------------------------------------------------
(* What is not written keeps its order.                                    *)
LEMMA NotesStay ==
  ASSUME NotesInOrder, note' = note
  PROVE  NotesInOrder' /\ NotesKeepOrder
  <1>1. ASSUME NEW c \in Categories PROVE SameOrder(NoteKeys(c, None), NoteKeys(c, None)')
    <2>1. NoteKeys(c, None)' = NoteKeys(c, None)
      BY DEF NoteKeys
    <2>2. KeyList(NoteKeys(c, None))
      BY ListOfNotes
    <2> QED
      BY <2>1, <2>2, NothingMoves
  <1> QED
    BY <1>1 DEF NotesInOrder, NotesKeepOrder

(* The same of categories,                                                 *)
LEMMA CategoriesStay ==
  ASSUME CategoriesInOrder, category' = category
  PROVE  CategoriesInOrder' /\ CategoriesKeepOrder
  <1>1. ASSUME NEW g \in Pages PROVE SameOrder(CategoryKeys(g, None), CategoryKeys(g, None)')
    <2>1. CategoryKeys(g, None)' = CategoryKeys(g, None)
      BY DEF CategoryKeys
    <2>2. KeyList(CategoryKeys(g, None))
      BY ListOfCategories
    <2> QED
      BY <2>1, <2>2, NothingMoves
  <1> QED
    BY <1>1 DEF CategoriesInOrder, CategoriesKeepOrder

(* and of pages.                                                           *)
LEMMA PagesStay ==
  ASSUME PagesInOrder, page' = page
  PROVE  PagesInOrder' /\ PagesKeepOrder
  <1>1. PageKeys(None)' = PageKeys(None)
    BY DEF PageKeys, GetPage
  <1>2. SameOrder(PageKeys(None), PageKeys(None)')
    BY <1>1, ListOfPages, NothingMoves
  <1> QED
    BY <1>2 DEF PagesInOrder, PagesKeepOrder

-----------------------------------------------------------------------------
(* The operations: rows stay in order, and those that place an item leave  *)
(* the others in theirs.                                                   *)
StaysInOrder == NotesInOrder' /\ CategoriesInOrder' /\ PagesInOrder' /\ TimesAreNumbers'
OthersKeep   == NotesKeepOrder /\ CategoriesKeepOrder /\ PagesKeepOrder

(* A note is created,                                                      *)
LEMMA CreateOrder ==
  ASSUME OrderInv, NEW n \in Notes, NEW c \in Lists, NEW h, NEW ids, NEW ins, Create(n, c, h, ids, ins),
         \A i \in DOMAIN ids : ids[i] \in Parts, \A i, j \in DOMAIN ids : ids[i] = ids[j] => i = j
  PROVE  StaysInOrder /\ OthersKeep
  <1>1. NoteTable /\ PartTable /\ NotesInOrder /\ CategoriesInOrder /\ PagesInOrder /\ TimesAreNumbers
    BY DEF OrderInv, NotesInv, Tables
  <1>2. PICK p \in PlaceNote(c, n, h) : note' = InsertNoteAt(RekeyNotes(p.keys), n, c, p.key, now)
    BY DEF Create
  <1>3. now' = now /\ category' = category /\ page' = page
    BY DEF Create, boardVars
  <1>4. /\ \A m \in Notes : m # n => note'[m] = RekeyNotes(p.keys)[m]
        /\ note'[n] = [state |-> "active", category |-> c, position |-> p.key, created |-> now, deleted |-> 0]
    BY <1>2 DEF InsertNoteAt, RekeyNotes
  <1>5. now \in Nat
    BY <1>1 DEF TimesAreNumbers
  <1>6. NotesInOrder' /\ NotesKeepOrder
    <2>1. note'[n].category = c /\ note'[n].position = p.key /\ note'[n].created \in Nat /\ note'[n].deleted \in Nat
      BY <1>4, <1>5
    <2> QED
      BY <1>1, <1>4, <2>1, NotePlaced
  <1>7. TimesAreNumbers'
    <2>1. InsertParts(n, ids, ins, 0, "app", now)
      BY DEF Create
    <2>2. /\ \A i \in DOMAIN ids : part'[ids[i]] = InsertedRow(n, 0 + i - 1, ins[i], now)
          /\ \A q \in Parts : (\A i \in DOMAIN ids : ids[i] # q) => part'[q] = part[q]
      BY <1>1, <2>1, InsertedParts
    <2>3. \A i : InsertedRow(n, 0 + i - 1, ins[i], now).created = now
      BY DEF InsertedRow
    <2>4. ASSUME NEW q \in Parts PROVE part'[q].created \in Nat
      <3>1. CASE \E i \in DOMAIN ids : ids[i] = q
        BY <1>5, <2>2, <2>3, <3>1
      <3>2. CASE \A i \in DOMAIN ids : ids[i] # q
        BY <1>1, <2>2, <3>2 DEF TimesAreNumbers
      <3> QED
        BY <3>1, <3>2
    <2> QED
      BY <1>3, <1>5, <2>4 DEF TimesAreNumbers
  <1> QED
    BY <1>1, <1>3, <1>6, <1>7, CategoriesStay, PagesStay DEF StaysInOrder, OthersKeep

(* a note is moved,                                                        *)
LEMMA MoveOrder ==
  ASSUME OrderInv, NEW n \in Notes, NEW c \in Lists, NEW h, Move(n, c, h)
  PROVE  StaysInOrder /\ OthersKeep
  <1>1. NoteTable /\ NotesInOrder /\ CategoriesInOrder /\ PagesInOrder /\ TimesAreNumbers
    BY DEF OrderInv, NotesInv, Tables
  <1>2. PICK p \in PlaceNote(c, n, h) : note' = SetNoteLocation(RekeyNotes(p.keys), n, c, p.key)
    BY DEF Move
  <1>3. UNCHANGED <<now, part, category, page>>
    BY DEF Move, boardVars
  <1> DEFINE rows == RekeyNotes(p.keys)
  <1>4. note' = [rows EXCEPT ![n].category = c, ![n].position = p.key]
    BY <1>2 DEF SetNoteLocation
  <1>5. DOMAIN rows = Notes /\ IsRow(rows[n], NoteColumns)
    BY <1>1, RekeyedNotes
  <1>6. rows[n].created = note[n].created /\ rows[n].deleted = note[n].deleted
    BY <1>1, PlacedNotes
  <1> HIDE DEF rows
  <1>7. /\ \A m \in Notes : m # n => note'[m] = rows[m]
        /\ note'[n].category = c /\ note'[n].position = p.key
        /\ note'[n].created = rows[n].created /\ note'[n].deleted = rows[n].deleted
    BY <1>4, <1>5 DEF IsRow, NoteColumns
  <1>8. note[n].created \in Nat /\ note[n].deleted \in Nat
    BY <1>1 DEF NotesInOrder
  <1>9. NotesInOrder' /\ NotesKeepOrder
    BY <1>1, <1>6, <1>7, <1>8, NotePlaced DEF rows
  <1> QED
    BY <1>1, <1>3, <1>9, CategoriesStay, PagesStay DEF StaysInOrder, OthersKeep, TimesAreNumbers

(* a part becomes a note,                                                  *)
LEMMA SplitOrder ==
  ASSUME OrderInv, NEW n \in Notes, NEW p \in Parts, NEW new \in Notes, Split(n, p, new)
  PROVE  StaysInOrder /\ OthersKeep
  <1>1. NoteTable /\ PartTable /\ NotesInOrder /\ CategoriesInOrder /\ PagesInOrder /\ TimesAreNumbers
    BY DEF OrderInv, NotesInv, Tables
  <1> DEFINE c == note[n].category
  <1> DEFINE h == [after |-> n, before |-> None, top |-> FALSE]
  <1>2. PICK k \in PlaceNote(c, new, h) :
          note' = InsertNoteAt(RekeyNotes(k.keys), new, c, k.key, part[p].created)
    BY DEF Split
  <1>3. UNCHANGED <<now, category, page>> /\ part' = MovePartToNewNote(p, new)
    BY DEF Split, boardVars
  <1>4. c \in Lists
    BY <1>1 DEF NotesInOrder
  <1> HIDE DEF c, h
  <1>5. /\ \A m \in Notes : m # new => note'[m] = RekeyNotes(k.keys)[m]
        /\ note'[new] = [state |-> "active", category |-> c, position |-> k.key,
                         created |-> part[p].created, deleted |-> 0]
    BY <1>2 DEF InsertNoteAt, RekeyNotes
  <1>6. NotesInOrder' /\ NotesKeepOrder
    <2>1. part[p].created \in Nat
      BY <1>1 DEF TimesAreNumbers
    <2>2. /\ note'[new].category = c /\ note'[new].position = k.key
          /\ note'[new].created \in Nat /\ note'[new].deleted \in Nat
      BY <1>5, <2>1
    <2> QED
      BY <1>1, <1>4, <1>5, <2>2, NotePlaced
  <1>7. TimesAreNumbers'
    <2>1. part' = [part EXCEPT ![p].note = new, ![p].ordinal = 0]
      BY <1>3 DEF MovePartToNewNote
    <2>2. \A q \in Parts : part'[q].created = part[q].created
      BY <1>1, <2>1 DEF PartTable, PartColumns
    <2> QED
      BY <1>1, <1>3, <2>2 DEF TimesAreNumbers
  <1> QED
    BY <1>1, <1>3, <1>6, <1>7, CategoriesStay, PagesStay DEF StaysInOrder, OthersKeep

(* a page is created or moved,                                             *)
LEMMA PageOrder ==
  ASSUME OrderInv, NEW g \in Pages,
         \/ \E after \in Pages \cup {None} : CreatePage(g, after)
         \/ \E h \in Near(Pages) : UpdatePage(g, h)
  PROVE  StaysInOrder /\ OthersKeep
  <1>1. NotesInOrder /\ CategoriesInOrder /\ PagesInOrder /\ TimesAreNumbers
    BY DEF OrderInv
  <1>2. UNCHANGED <<now, note, part, category>>
    BY DEF CreatePage, UpdatePage, noteVars
  <1>3. PagesInOrder' /\ PagesKeepOrder
    <2>1. CASE \E after \in Pages \cup {None} : CreatePage(g, after)
      <3>1. PICK h : \E p \in PlacePage(None, h) : page' = [RekeyPages(p.keys) EXCEPT ![g] = p.key]
        BY <2>1 DEF CreatePage, InsertPage
      <3>2. page[g] = <<>>
        BY <2>1 DEF CreatePage, GetPage
      <3> QED
        BY <1>1, <3>1, <3>2, PagePlaced
    <2>2. CASE \E h \in Near(Pages) : UpdatePage(g, h)
      <3>1. PICK h : \E p \in PlacePage(g, h) : page' = [RekeyPages(p.keys) EXCEPT ![g] = p.key]
        BY <2>2 DEF UpdatePage, UpdatePageKey
      <3> QED
        BY <1>1, <3>1, PagePlaced
    <2> QED
      BY <2>1, <2>2
  <1> QED
    BY <1>1, <1>2, <1>3, NotesStay, CategoriesStay DEF StaysInOrder, OthersKeep, TimesAreNumbers

(* a category is created or moved.                                         *)
LEMMA CategoryOrder ==
  ASSUME OrderInv, NEW c \in Categories, NEW g \in Pages,
         \/ \E after \in Categories \cup {None} : CreateCategory(c, g, after)
         \/ \E h \in Near(Categories) : UpdateCategory(c, g, h)
  PROVE  StaysInOrder /\ OthersKeep
  <1>1. CategoryTable /\ NotesInOrder /\ CategoriesInOrder /\ PagesInOrder /\ TimesAreNumbers
    BY DEF OrderInv, NotesInv, Tables
  <1>2. UNCHANGED <<now, note, part, page>>
    BY DEF CreateCategory, UpdateCategory, noteVars
  <1>3. CategoriesInOrder' /\ CategoriesKeepOrder
    <2>1. CASE \E after \in Categories \cup {None} : CreateCategory(c, g, after)
      <3>1. PICK h : \E p \in PlaceCategory(g, None, h) :
               category' = [RekeyCategories(p.keys) EXCEPT ![c] = [page |-> g, position |-> p.key]]
        BY <2>1 DEF CreateCategory, InsertCategory
      <3>2. PICK p \in PlaceCategory(g, None, h) :
               category' = [RekeyCategories(p.keys) EXCEPT ![c] = [page |-> g, position |-> p.key]]
        BY <3>1
      <3>3. category[c].page = None /\ g # None
        BY <2>1, NotesAssumption DEF CreateCategory, GetCategory
      <3>4. DOMAIN RekeyCategories(p.keys) = Categories
        BY DEF RekeyCategories
      <3>5. /\ \A d \in Categories : d # c => category'[d] = RekeyCategories(p.keys)[d]
            /\ category'[c].page = g /\ category'[c].position = p.key
        BY <3>2, <3>4
      <3> QED
        BY <1>1, <3>3, <3>5, CategoryPlaced
    <2>2. CASE \E h \in Near(Categories) : UpdateCategory(c, g, h)
      <3>1. PICK h : \E p \in PlaceCategory(g, c, h) :
               category' = [RekeyCategories(p.keys) EXCEPT ![c].page = g, ![c].position = p.key]
        BY <2>2 DEF UpdateCategory, UpdateCategoryRow
      <3>2. PICK p \in PlaceCategory(g, c, h) :
               category' = [RekeyCategories(p.keys) EXCEPT ![c].page = g, ![c].position = p.key]
        BY <3>1
      <3>3. DOMAIN RekeyCategories(p.keys) = Categories /\ IsRow(RekeyCategories(p.keys)[c], CategoryColumns)
        BY <1>1, RekeyedCategories
      <3>4. /\ \A d \in Categories : d # c => category'[d] = RekeyCategories(p.keys)[d]
            /\ category'[c].page = g /\ category'[c].position = p.key
        BY <3>2, <3>3 DEF IsRow, CategoryColumns
      <3> QED
        BY <1>1, <3>4, CategoryPlaced
    <2> QED
      BY <2>1, <2>2
  <1> QED
    BY <1>1, <1>2, <1>3, NotesStay, PagesStay DEF StaysInOrder, OthersKeep, TimesAreNumbers

(* The operations that place nothing.                                      *)
LEMMA TrashOrder ==
  ASSUME OrderInv, NEW n \in Notes, Dismiss(n) \/ Restore(n)
  PROVE  StaysInOrder
  <1>1. NoteTable /\ NotesInOrder /\ CategoriesInOrder /\ PagesInOrder /\ TimesAreNumbers
    BY DEF OrderInv, NotesInv, Tables
  <1>2. UNCHANGED <<now, part, category, page>>
    BY DEF Dismiss, Restore, boardVars
  <1>3. \/ note' = [note EXCEPT ![n].state = "deleted", ![n].deleted = now]
        \/ note' = [note EXCEPT ![n].state = "active", ![n].deleted = 0]
    BY DEF Dismiss, Restore, DismissNote, RestoreNote
  <1>4. DOMAIN note = Notes /\ DOMAIN note[n] = NoteColumns
    BY <1>1 DEF NoteTable, IsRow
  <1>5. /\ \A m \in Notes : m # n => note'[m] = note[m]
        /\ note'[n].category = note[n].category /\ note'[n].position = note[n].position
        /\ note'[n].created = note[n].created /\ note'[n].deleted \in {now, 0}
    BY <1>3, <1>4 DEF NoteColumns
  <1>6. now \in Nat
    BY <1>1 DEF TimesAreNumbers
  <1>7. NotesInOrder'
    BY <1>1, <1>5, <1>6 DEF NotesInOrder
  <1> QED
    BY <1>1, <1>2, <1>7, CategoriesStay, PagesStay DEF StaysInOrder, TimesAreNumbers

(* A note goes, and its parts with it or to another note.                  *)
LEMMA DeleteOrder ==
  ASSUME OrderInv, NEW n \in Notes, DeletePermanently(n) \/ (\E m \in Notes : Merge(m, n))
  PROVE  StaysInOrder
  <1>1. NoteTable /\ PartTable /\ NotesInOrder /\ CategoriesInOrder /\ PagesInOrder /\ TimesAreNumbers
    BY DEF OrderInv, NotesInv, Tables
  <1>2. UNCHANGED <<now, category, page>> /\ note' = [note EXCEPT ![n] = NoNote]
    BY DEF DeletePermanently, Merge, DeleteNote, boardVars
  <1>3. \A p \in Parts : part'[p].created = part[p].created \/ part'[p].created = 0
    <2>1. CASE DeletePermanently(n)
      <3>1. \A p \in Parts : part'[p] = part[p] \/ part'[p] = NoPart
        BY <2>1 DEF DeletePermanently, DeleteNoteParts
      <3>2. NoPart.created = 0
        BY DEF NoPart
      <3> QED
        BY <3>1, <3>2
    <2>2. CASE \E m \in Notes : Merge(m, n)
      <3>1. PICK m, shift : part' = MovePartsToNote(n, m, shift)
        BY <2>2 DEF Merge
      <3>2. ASSUME NEW p \in Parts PROVE part'[p].created = part[p].created
        <4>1. DOMAIN part[p] = PartColumns
          BY <1>1 DEF PartTable
        <4>2. \/ part'[p] = part[p]
              \/ part'[p] = [part[p] EXCEPT !.note = m, !.ordinal = @ + shift]
          BY <3>1 DEF MovePartsToNote
        <4> QED
          BY <4>1, <4>2 DEF PartColumns
      <3> QED
        BY <3>2
    <2> QED
      BY <2>1, <2>2
  <1>4. NotesInOrder'
    <2>1. /\ \A m \in Notes : m # n => note'[m] = note[m]
          /\ note'[n] = NoNote
      BY <1>1, <1>2 DEF NoteTable
    <2>2. NoNote.category = None /\ NoNote.created = 0 /\ NoNote.deleted = 0
      BY DEF NoNote
    <2> QED
      BY <1>1, <2>1, <2>2 DEF NotesInOrder, Lists
  <1>5. TimesAreNumbers'
    BY <1>1, <1>2, <1>3 DEF TimesAreNumbers
  <1> QED
    BY <1>1, <1>2, <1>4, <1>5, CategoriesStay, PagesStay DEF StaysInOrder

(* Categories go, and their notes return to the Inbox.                     *)
LEMMA ReleaseOrder ==
  ASSUME OrderInv, NEW cs, note' = ReleaseNotes(cs), category' = DeleteCategories(cs),
         UNCHANGED <<now, part>>, page' = page \/ (\E g : page' = DeletePageRow(g))
  PROVE  StaysInOrder
  <1>1. /\ NoteTable /\ NotesInOrder /\ CategoriesInOrder /\ PagesInOrder /\ TimesAreNumbers
        /\ DOMAIN page = Pages
    BY DEF OrderInv, NotesInv, Tables
  <1>2. NotesInOrder'
    <2>1. ASSUME NEW n \in Notes
          PROVE  /\ note'[n].category \in Lists
                 /\ note'[n].category # None => note'[n].position \in Keys /\ Valid(note'[n].position)
                 /\ note'[n].created \in Nat /\ note'[n].deleted \in Nat
      <3>1. note'[n] = IF n \in NoteIDsInCategories(cs)
                       THEN [note EXCEPT ![n].category = None, ![n].position = <<>>][n] ELSE note[n]
        BY DEF ReleaseNotes, SetNoteLocation
      <3>2. CASE n \in NoteIDsInCategories(cs)
        <4>1. DOMAIN note = Notes /\ DOMAIN note[n] = NoteColumns
          BY <1>1 DEF NoteTable, IsRow
        <4>2. /\ note'[n].category = None
              /\ note'[n].created = note[n].created /\ note'[n].deleted = note[n].deleted
          BY <3>1, <3>2, <4>1 DEF NoteColumns
        <4> QED
          BY <1>1, <4>2 DEF NotesInOrder, Lists
      <3>3. CASE n \notin NoteIDsInCategories(cs)
        <4>1. note'[n] = note[n]
          BY <3>1, <3>3
        <4> QED
          BY <1>1, <4>1 DEF NotesInOrder
      <3> QED
        BY <3>2, <3>3
    <2> QED
      BY <2>1 DEF NotesInOrder
  <1>3. CategoriesInOrder'
    <2>1. \A c \in Categories : category'[c] = IF c \in cs THEN [page |-> None, position |-> <<>>] ELSE category[c]
      BY DEF DeleteCategories
    <2>2. \A c \in Categories : category'[c].page = None \/ category'[c] = category[c]
      BY <2>1
    <2> QED
      BY <1>1, <2>2 DEF CategoriesInOrder
  <1>4. PagesInOrder'
    <2>1. \A g \in Pages : page'[g] = page[g] \/ page'[g] = <<>>
      BY <1>1 DEF DeletePageRow
    <2> QED
      BY <1>1, <2>1 DEF PagesInOrder
  <1> QED
    BY <1>1, <1>2, <1>3, <1>4 DEF StaysInOrder, TimesAreNumbers

(* All operations that place nothing.                                      *)
LEMMA KeepsOrder ==
  ASSUME OrderInv, Keeps
  PROVE  StaysInOrder
  <1>1. CASE DismissANote \/ RestoreANote
    BY <1>1, TrashOrder DEF DismissANote, RestoreANote
  <1>2. CASE DeleteNotePermanently \/ MergeNotes
    BY <1>2, DeleteOrder DEF DeleteNotePermanently, MergeNotes
  <1>3. CASE RemovePage
    <2>1. PICK g \in Pages : DeletePage(g)
      BY <1>3 DEF RemovePage
    <2>2. /\ note' = ReleaseNotes(CategoryIDsOfPage(g)) /\ category' = DeleteCategories(CategoryIDsOfPage(g))
          /\ page' = DeletePageRow(g) /\ UNCHANGED <<now, part>>
      BY <2>1 DEF DeletePage
    <2> QED
      BY <2>2, ReleaseOrder
  <1>4. CASE RemoveCategory
    <2>1. PICK c \in Categories : DeleteCategory(c)
      BY <1>4 DEF RemoveCategory
    <2>2. /\ note' = ReleaseNotes({c}) /\ category' = DeleteCategories({c})
          /\ UNCHANGED <<now, part, page>>
      BY <2>1 DEF DeleteCategory
    <2> QED
      BY <2>2, ReleaseOrder
  <1> QED
    BY <1>1, <1>2, <1>3, <1>4 DEF Keeps

(* All operations that place something.                                    *)
LEMMA PlacesOrder ==
  ASSUME OrderInv, Places
  PROVE  StaysInOrder /\ OthersKeep
  <1>1. CASE CreateNote
    <2>1. PICK n \in Notes, c \in Lists, h \in Neighbours(TRUE), k \in 1 .. MaxPartsPerRequest :
            \E ids \in FreshParts(k), ins \in [1 .. k -> Inputs] : Create(n, c, h, ids, ins)
      BY <1>1 DEF CreateNote
    <2>2. PICK ids \in FreshParts(k), ins \in [1 .. k -> Inputs] : Create(n, c, h, ids, ins)
      BY <2>1
    <2>3. DOMAIN ids = 1 .. k /\ \A i \in DOMAIN ids : ids[i] \in Parts
      BY DEF FreshParts, FreeParts
    <2>4. \A i, j \in DOMAIN ids : ids[i] = ids[j] => i = j
      BY <2>3 DEF FreshParts
    <2> QED
      BY <2>2, <2>3, <2>4, CreateOrder
  <1>2. CASE MoveNote
    BY <1>2, MoveOrder DEF MoveNote
  <1>3. CASE SplitNotePart
    BY <1>3, SplitOrder DEF SplitNotePart
  <1>4. CASE PostPage \/ PatchPage
    BY <1>4, PageOrder DEF PostPage, PatchPage
  <1>5. CASE PostCategory \/ PatchCategory
    BY <1>5, CategoryOrder DEF PostCategory, PatchCategory
  <1> QED
    BY <1>1, <1>2, <1>3, <1>4, <1>5 DEF Places

(* So every operation keeps the lists in order.                            *)
LEMMA OperationsKeepOrder == OrderInv /\ (Places \/ Keeps) => OrderInv'
  <1> SUFFICES ASSUME OrderInv, Places \/ Keeps PROVE OrderInv'
    OBVIOUS
  <1>1. NotesInv'
    BY OperationsKeep DEF OrderInv
  <1>2. StaysInOrder
    BY KeepsOrder, PlacesOrder
  <1> QED
    BY <1>1, <1>2 DEF OrderInv, StaysInOrder

(* Time is a number that grows.  It moves nothing.                         *)
LEMMA TimeOrder ==
  ASSUME OrderInv, Tick
  PROVE  OrderInv' /\ OthersKeep
  <1>1. UNCHANGED <<note, part, category, page, file>> /\ now' = now + 1
    BY DEF Tick, noteVars, boardVars
  <1>2. NotesInv'
    BY <1>1, NothingStored DEF OrderInv
  <1>3. TimesAreNumbers'
    BY <1>1 DEF OrderInv, TimesAreNumbers
  <1>4. NotesInOrder' /\ CategoriesInOrder' /\ PagesInOrder'
    BY <1>1 DEF OrderInv, NotesInOrder, CategoriesInOrder, PagesInOrder
  <1>5. OthersKeep
    BY <1>1, NotesStay, CategoriesStay, PagesStay DEF OrderInv, OthersKeep
  <1> QED
    BY <1>2, <1>3, <1>4, <1>5 DEF OrderInv

LEMMA WriteKeepsOrder == OrderInv /\ Write => OrderInv'
  BY OperationsKeepOrder, TimeOrder DEF Write

(* As long as nothing is stored, nothing moves.                            *)
LEMMA StoredOrder ==
  ASSUME OrderInv, UNCHANGED vars
  PROVE  OrderInv'
  <1>1. UNCHANGED <<now, note, part, category, page, file>>
    BY DEF vars, noteVars, boardVars
  <1>2. NotesInv'
    BY <1>1, NothingStored DEF OrderInv
  <1> QED
    BY <1>1, <1>2 DEF OrderInv, NotesInOrder, CategoriesInOrder, PagesInOrder, TimesAreNumbers

(* Readers store nothing.                                                  *)
LEMMA ReadersWriteNothing == Read => UNCHANGED vars /\ moves' = moves
  BY DEF Read, OpenInbox, OpenTrash, OpenBoard, ReadFirst, ReadNext, Leave

(* Nothing is out of order in an empty account.                            *)
LEMMA OrderInit == Init => OrderInv
  <1> SUFFICES ASSUME Init PROVE OrderInv
    OBVIOUS
  <1>1. NotesInv
    BY BoardInit DEF BoardInv
  <1>2. NoNote.category = None /\ NoNote.created = 0 /\ NoNote.deleted = 0 /\ NoPart.created = 0
    BY DEF NoNote, NoPart
  <1>3. \A n \in Notes : note[n] = NoNote
    BY DEF Init
  <1>4. NotesInOrder
    BY <1>2, <1>3 DEF NotesInOrder, Lists
  <1>5. CategoriesInOrder /\ PagesInOrder
    BY DEF Init, CategoriesInOrder, PagesInOrder
  <1>6. TimesAreNumbers
    BY <1>2 DEF Init, TimesAreNumbers
  <1> QED
    BY <1>1, <1>4, <1>5, <1>6 DEF OrderInv

(* No step brings a list out of order.                                     *)
LEMMA OrderStep == OrderInv /\ [BoardNext]_boardSpecVars => OrderInv'
  <1> SUFFICES ASSUME OrderInv, [BoardNext]_boardSpecVars PROVE OrderInv'
    OBVIOUS
  <1>1. CASE Write
    BY <1>1, WriteKeepsOrder
  <1>2. CASE Read
    BY <1>2, ReadersWriteNothing, StoredOrder
  <1>3. CASE UNCHANGED boardSpecVars
    BY <1>3, StoredOrder DEF boardSpecVars
  <1> QED
    BY <1>1, <1>2, <1>3 DEF BoardNext

(* Placing a note, a category or a page leaves the others of its list in   *)
(* their order, whatever the keys have come to and however many there are, *)
(* also when the whole list is rewritten (CORE-S4).                        *)
THEOREM OthersStay == Spec => OthersKeepTheirOrder
  <1>1. ASSUME OrderInv, [BoardNext]_boardSpecVars
        PROVE  [moves' # moves =>
                  /\ \A c \in Categories : SameOrder(NoteKeys(c, None), NoteKeys(c, None)')
                  /\ \A g \in Pages : SameOrder(CategoryKeys(g, None), CategoryKeys(g, None)')
                  /\ SameOrder(PageKeys(None), PageKeys(None)')]_boardSpecVars
    <2> SUFFICES ASSUME moves' # moves PROVE OthersKeep
      BY DEF OthersKeep, NotesKeepOrder, CategoriesKeepOrder, PagesKeepOrder
    <2>1. Places \/ Tick
      BY <1>1, ReadersWriteNothing DEF BoardNext, Write, boardSpecVars
    <2> QED
      BY <1>1, <2>1, PlacesOrder, TimeOrder
  <1> QED
    BY <1>1, OrderInit, OrderStep, PTL DEF Spec, OthersKeepTheirOrder

-----------------------------------------------------------------------------
(* The list a note was moved into: the keys Place answered, and its own.   *)
LEMMA MovedList ==
  ASSUME OrderInv, NEW n \in Notes, NEW c \in Categories, NEW h, Move(n, c, h)
  PROVE  \E keys, key :
           /\ KeyList(NoteKeys(c, n)) /\ KeyList(keys) /\ DOMAIN keys = DOMAIN NoteKeys(c, n)
           /\ KeepsKeys(NoteKeys(c, n), keys)
           /\ IsAsked(keys, key, h, None) /\ key \in Keys
           /\ DOMAIN NoteKeys(c, None)' = DOMAIN keys \cup {n} /\ n \notin DOMAIN keys
           /\ NoteKeys(c, None)'[n] = key
           /\ \A m \in DOMAIN keys : NoteKeys(c, None)'[m] = keys[m]
  <1>1. NoteTable /\ NotesInOrder
    BY DEF OrderInv, NotesInv, Tables
  <1>2. c \in Lists /\ c # None /\ None \notin Notes
    BY NotesAssumption DEF Lists
  <1>3. PICK p \in PlaceNote(c, n, h) : note' = SetNoteLocation(RekeyNotes(p.keys), n, c, p.key)
    BY DEF Move
  <1> DEFINE rows == RekeyNotes(p.keys)
  <1> DEFINE keys == NoteKeys(c, n)
  <1> DEFINE new == NoteKeys(c, None)'
  <1>4. /\ \A m \in Notes : rows[m].state = note[m].state /\ rows[m].category = note[m].category
        /\ DOMAIN p.keys = DOMAIN keys
        /\ \A m \in DOMAIN keys : rows[m].position = p.keys[m]
        /\ p.key \in Keys /\ IsAsked(p.keys, p.key, h, None)
        /\ KeyList(keys) /\ KeyList(p.keys) /\ KeepsKeys(keys, p.keys)
    BY <1>1, <1>2, PlacedNotes
  <1>5. DOMAIN rows = Notes /\ IsRow(rows[n], NoteColumns)
    BY <1>1, RekeyedNotes
  <1>6. note' = [rows EXCEPT ![n].category = c, ![n].position = p.key]
    BY <1>3 DEF SetNoteLocation
  <1>7. \A m : m \in DOMAIN keys <=> m \in Notes /\ m # n /\ note[m].state = "active" /\ note[m].category = c
    BY <1>1, ListOfNotes
  <1>8. /\ \A m : m \in DOMAIN new <=> m \in Notes /\ m # None /\ note'[m].state = "active" /\ note'[m].category = c
        /\ \A m \in DOMAIN new : new[m] = note'[m].position
    BY DEF NoteKeys
  <1>9. note[n].state = "active"
    BY DEF Move
  <1> HIDE DEF rows, keys, new
  <1>10. /\ \A m \in Notes : m # n => note'[m] = rows[m]
         /\ note'[n].category = c /\ note'[n].position = p.key /\ note'[n].state = rows[n].state
    BY <1>5, <1>6 DEF IsRow, NoteColumns
  <1>11. n \in DOMAIN new /\ new[n] = p.key /\ n \notin DOMAIN keys
    BY <1>2, <1>4, <1>7, <1>8, <1>9, <1>10
  <1>12. \A m : m # n => (m \in DOMAIN new <=> m \in DOMAIN keys)
    BY <1>2, <1>4, <1>7, <1>8, <1>10
  <1>13. \A m \in DOMAIN keys : new[m] = p.keys[m]
    BY <1>4, <1>7, <1>8, <1>10, <1>12
  <1>14. DOMAIN new = DOMAIN p.keys \cup {n} /\ n \notin DOMAIN p.keys
    BY <1>4, <1>11, <1>12
  <1> QED
    BY <1>4, <1>11, <1>13, <1>14 DEF new, keys

(* What stands between two items in the list Place answers stood between   *)
(* them before.                                                            *)
LEMMA StoodBetween ==
  ASSUME NEW old, KeyList(old), NEW new, KeyList(new), DOMAIN new = DOMAIN old, KeepsKeys(old, new),
         NEW i \in DOMAIN old, NEW j \in DOMAIN old, NEW m \in DOMAIN old,
         KeyLess(new[i], new[m]), KeyLess(new[m], new[j])
  PROVE  Precedes(old, i, m) /\ Precedes(old, m, j)
  <1>1. ASSUME NEW x \in DOMAIN old, NEW y \in DOMAIN old, KeyLess(new[x], new[y])
        PROVE  Precedes(old, x, y)
    <2>1. new[x] \in Seq(Nat)
      BY KeysAreNumbers DEF KeyList
    <2>2. x # y
      BY <1>1, <2>1, LessIsStrict
    <2>3. ~ Precedes(old, y, x)
      <3>1. Precedes(new, x, y)
        BY <1>1 DEF Precedes
      <3> QED
        BY <3>1 DEF KeepsKeys
    <2>4. IsOrder(DOMAIN old, Before(old)) /\ (<<x, y>> \in Before(old) <=> Precedes(old, x, y))
          /\ (<<y, x>> \in Before(old) <=> Precedes(old, y, x))
      BY PrecedesIsAnOrder
    <2>5. x = y \/ <<x, y>> \in Before(old) \/ <<y, x>> \in Before(old)
      BY <2>4 DEF IsOrder
    <2> QED
      BY <2>2, <2>3, <2>4, <2>5
  <1> QED
    BY <1>1

(* Two neighbours that only their identifiers told apart may get keys that *)
(* differ; what stands between them then had the same key as both.         *)
LEMMA StoodBeside ==
  ASSUME NEW old, KeyList(old), NEW new, KeyList(new), DOMAIN new = DOMAIN old, KeepsKeys(old, new),
         NEW i \in DOMAIN old, NEW j \in DOMAIN old, NEW m \in DOMAIN old,
         KeyLess(new[i], new[m]), KeyLess(new[m], new[j]), ~ KeyLess(old[i], old[j])
  PROVE  old[m] = old[i]
  <1>1. old[i] \in Seq(Nat) /\ old[j] \in Seq(Nat) /\ old[m] \in Seq(Nat)
    BY KeysAreNumbers DEF KeyList
  <1>2. /\ KeyLess(old[i], old[m]) \/ old[i] = old[m]
        /\ KeyLess(old[m], old[j]) \/ old[m] = old[j]
    BY StoodBetween DEF Precedes
  <1> SUFFICES ASSUME KeyLess(old[i], old[m]) PROVE FALSE
    BY <1>2
  <1>3. KeyLess(old[i], old[j])
    BY <1>1, <1>2, LessIsTransitive
  <1> QED
    BY <1>3

(* So the note is where it was asked for.                                  *)
LEMMA MovedWhereAsked ==
  ASSUME OrderInv, NEW n \in Notes, NEW c \in Categories, NEW h, Move(n, c, h), Hinted(h)
  PROVE  IsBetween(NoteKeys(c, n), NoteKeys(c, None)', n, h)
  <1> DEFINE new == NoteKeys(c, None)'
  <1> DEFINE old == NoteKeys(c, n)
  <1> DEFINE a == h.after
  <1> DEFINE b == h.before
  <1> DEFINE both == a # None /\ b # None /\ KeyLess(old[a], old[b])
  <1>1. PICK keys, key :
          /\ KeyList(old) /\ KeyList(keys) /\ DOMAIN keys = DOMAIN old /\ KeepsKeys(old, keys)
          /\ IsAsked(keys, key, h, None) /\ key \in Keys
          /\ DOMAIN new = DOMAIN keys \cup {n} /\ n \notin DOMAIN keys
          /\ new[n] = key
          /\ \A m \in DOMAIN keys : new[m] = keys[m]
    BY MovedList
  <1>2. ~ KeyLess(key, key) /\ key \in Seq(Nat) /\ \A m \in DOMAIN keys : keys[m] \in Seq(Nat)
    BY <1>1, KeysAreNumbers, LessIsStrict DEF KeyList
  <1> HIDE DEF new, old, a, b, both
  <1>3. a # None => a \in DOMAIN keys /\ KeyLess(new[a], new[n])
    BY <1>1 DEF IsAsked, a
  <1>4. a = None => b \in DOMAIN keys /\ KeyLess(new[n], new[b])
    BY <1>1 DEF IsAsked, Hinted, a, b
  <1>5. a # None => b \in DOMAIN keys \cup {None}
    BY <1>1 DEF IsAsked, a, b
  <1>6. ASSUME both PROVE b \in DOMAIN keys /\ KeyLess(new[n], new[b])
    <2>1. a \in DOMAIN keys /\ b \in DOMAIN keys
      BY <1>3, <1>5, <1>6 DEF both
    <2>2. KeyLess(keys[a], keys[b])
      BY <1>1, <1>6, <2>1 DEF KeepsKeys, both
    <2> QED
      <3>1. h.after # None /\ InOrderOf(keys, h, None)
        BY <1>6, <2>2 DEF InOrderOf, a, b, both
      <3>2. KeyLess(key, keys[b])
        BY <1>1, <3>1 DEF IsAsked, b
      <3> QED
        BY <1>1, <2>1, <3>2
  <1>7. ASSUME both, NEW m \in Apart(new, a, b) \ {n}
        PROVE  Precedes(old, a, m) /\ Precedes(old, m, b)
    <2>1. m \in DOMAIN keys /\ a \in DOMAIN keys /\ b \in DOMAIN keys
      BY <1>1, <1>3, <1>6, <1>7 DEF Apart, both
    <2>2. KeyLess(keys[a], keys[m]) /\ KeyLess(keys[m], keys[b])
      BY <1>1, <1>7, <2>1 DEF Apart
    <2> QED
      BY <1>1, <2>1, <2>2, StoodBetween
  <1>8. ASSUME a # None, ~ both, NEW m \in Apart(new, a, n)
        PROVE  old[m] = old[a]
    <2>1. KeyLess(new[a], new[m]) /\ KeyLess(new[m], new[n]) /\ m \in DOMAIN new
      BY <1>8 DEF Apart
    <2>2. m \in DOMAIN keys /\ a \in DOMAIN keys
      BY <1>1, <1>2, <1>3, <1>8, <2>1
    <2>3. KeyLess(keys[a], keys[m]) /\ KeyLess(keys[m], key)
      BY <1>1, <2>1, <2>2
    <2>4. InOrderOf(keys, h, None) /\ b # None /\ KeyLess(key, keys[b])
      <3>1. InOrderOf(keys, h, None)
        BY <1>1, <1>8, <2>2, <2>3 DEF IsAsked, a
      <3>2. KeyLess(key, keys[b])
        BY <1>1, <1>8, <3>1 DEF IsAsked, a, b
      <3> QED
        BY <3>1, <3>2 DEF InOrderOf, b
    <2>5. b \in DOMAIN keys /\ ~ KeyLess(old[a], old[b])
      BY <1>5, <1>8, <2>4 DEF both
    <2>6. KeyLess(keys[m], keys[b])
      BY <1>2, <2>2, <2>3, <2>4, <2>5, LessIsTransitive
    <2> QED
      BY <1>1, <2>2, <2>3, <2>5, <2>6, StoodBeside
  <1>9. ASSUME a = None PROVE Apart(new, n, b) = {}
    <2>1. b \in DOMAIN keys /\ \A m \in DOMAIN keys : ~ (KeyLess(key, keys[m]) /\ KeyLess(keys[m], keys[b]))
      BY <1>1, <1>4, <1>9 DEF IsAsked, Hinted, a, b
    <2>2. \A m \in DOMAIN new : ~ (KeyLess(new[n], new[m]) /\ KeyLess(new[m], new[b]))
      BY <1>1, <1>2, <2>1
    <2> QED
      BY <2>2 DEF Apart
  <1> QED
    BY <1>3, <1>4, <1>6, <1>7, <1>8, <1>9 DEF IsBetween, a, b, both, old, new

(* A note that is moved stands between the neighbours it was dropped       *)
(* between, or next to the one that counts: the midpoint of two keys is    *)
(* strictly between them, for keys of every length and any number of       *)
(* digits, and rebalancing keeps the neighbours where they are.            *)
THEOREM NotesGoWhereAsked == Spec => GoesWhereAsked
  <1>1. ASSUME OrderInv
        PROVE  [moves' # moves => \A n \in Notes, c \in Categories, h \in Neighbours(TRUE) :
                  Hinted(h) /\ note'[n].category = c /\ Move(n, c, h) =>
                    IsBetween(NoteKeys(c, n), NoteKeys(c, None)', n, h)]_boardSpecVars
    BY <1>1, MovedWhereAsked
  <1> QED
    BY <1>1, OrderInit, OrderStep, PTL DEF Spec, GoesWhereAsked

-----------------------------------------------------------------------------
(* Reading a list: its members have an order, the cursor a place in it.    *)
Cursors == [key : Seq(Nat), id : Notes]
Readable == Lists \cup {Trash}

(* What comes behind what in a list is an order, from either end.          *)
LEMMA FollowsIsAnOrder ==
  ASSUME NEW l, NEW x \in Cursors, NEW y \in Cursors, NEW z \in Cursors
  PROVE  /\ ~ Follows(l, x, x)
         /\ Follows(l, x, y) /\ Follows(l, y, z) => Follows(l, x, z)
         /\ x = y \/ Follows(l, x, y) \/ Follows(l, y, x)
  <1>1. /\ x.key \in Seq(Nat) /\ y.key \in Seq(Nat) /\ z.key \in Seq(Nat)
        /\ x.id \in Nat /\ y.id \in Nat /\ z.id \in Nat
    BY NotesAssumption DEF Cursors
  <1>2. ~ Follows(l, x, x)
    BY <1>1, LessIsStrict DEF Follows
  <1>3. ASSUME Follows(l, x, y), Follows(l, y, z) PROVE Follows(l, x, z)
    <2>1. CASE l \in Categories
      <3>1. /\ KeyLess(y.key, x.key) \/ (x.key = y.key /\ x.id > y.id)
            /\ KeyLess(z.key, y.key) \/ (y.key = z.key /\ y.id > z.id)
        BY <1>3, <2>1 DEF Follows
      <3>2. CASE KeyLess(y.key, x.key) /\ KeyLess(z.key, y.key)
        BY <1>1, <2>1, <3>2, LessIsTransitive DEF Follows
      <3>3. CASE KeyLess(y.key, x.key) /\ y.key = z.key
        BY <2>1, <3>3 DEF Follows
      <3>4. CASE x.key = y.key /\ KeyLess(z.key, y.key)
        BY <2>1, <3>4 DEF Follows
      <3>5. CASE x.key = y.key /\ x.id > y.id /\ y.key = z.key /\ y.id > z.id
        BY <1>1, <2>1, <3>5 DEF Follows
      <3> QED
        BY <3>1, <3>2, <3>3, <3>4, <3>5
    <2>2. CASE l \notin Categories
      <3>1. /\ KeyLess(x.key, y.key) \/ (x.key = y.key /\ x.id < y.id)
            /\ KeyLess(y.key, z.key) \/ (y.key = z.key /\ y.id < z.id)
        BY <1>3, <2>2 DEF Follows
      <3>2. CASE KeyLess(x.key, y.key) /\ KeyLess(y.key, z.key)
        BY <1>1, <2>2, <3>2, LessIsTransitive DEF Follows
      <3>3. CASE KeyLess(x.key, y.key) /\ y.key = z.key
        BY <2>2, <3>3 DEF Follows
      <3>4. CASE x.key = y.key /\ KeyLess(y.key, z.key)
        BY <2>2, <3>4 DEF Follows
      <3>5. CASE x.key = y.key /\ x.id < y.id /\ y.key = z.key /\ y.id < z.id
        BY <1>1, <2>2, <3>5 DEF Follows
      <3> QED
        BY <3>1, <3>2, <3>3, <3>4, <3>5
    <2> QED
      BY <2>1, <2>2
  <1>4. x = y \/ Follows(l, x, y) \/ Follows(l, y, x)
    <2>1. CASE x.key = y.key
      <3>1. CASE x.id = y.id
        BY <2>1, <3>1 DEF Cursors
      <3>2. CASE x.id # y.id
        BY <1>1, <2>1, <3>2 DEF Follows
      <3> QED
        BY <3>1, <3>2
    <2>2. CASE x.key # y.key
      <3>1. KeyLess(x.key, y.key) \/ KeyLess(y.key, x.key)
        BY <1>1, <2>2, LessIsTotal
      <3> QED
        BY <3>1 DEF Follows
    <2> QED
      BY <2>1, <2>2
  <1> QED
    BY <1>2, <1>3, <1>4

(* Every member of a list has its place in it.                             *)
LEMMA MembersHavePlaces ==
  ASSUME NotesInOrder, NEW l \in Readable, NEW n \in Members(l)
  PROVE  n \in Notes /\ At(l, n) \in Cursors /\ At(l, n).id = n
  <1>1. n \in Notes /\ At(l, n) = [key |-> SortKey(l, n), id |-> n]
    BY DEF Members, At
  <1>2. SortKey(l, n) \in Seq(Nat)
    <2>1. note[n].created \in Nat /\ note[n].deleted \in Nat
      BY <1>1 DEF NotesInOrder
    <2>2. CASE l \in Categories
      <3>1. l # Trash /\ l # None
        BY <2>2, BoardAssumption, NotesAssumption
      <3>2. SortKey(l, n) = note[n].position
        BY <2>2, <3>1 DEF SortKey
      <3>3. note[n].category = l
        BY <3>1 DEF Members
      <3>4. note[n].position \in Keys
        BY <1>1, <3>1, <3>3 DEF NotesInOrder
      <3> QED
        BY <3>2, <3>4, KeysAreNumbers
    <2>3. CASE l = Trash
      <3>1. l \notin Categories
        BY <2>3, BoardAssumption
      <3>2. SortKey(l, n) = <<note[n].deleted>>
        BY <2>3, <3>1 DEF SortKey
      <3> QED
        BY <2>1, <3>2
    <2>4. CASE l \notin Categories /\ l # Trash
      <3>1. SortKey(l, n) = <<note[n].created>>
        BY <2>4 DEF SortKey
      <3> QED
        BY <2>1, <3>1
    <2> QED
      BY <2>2, <2>3, <2>4
  <1> QED
    BY <1>1, <1>2 DEF Cursors

(* The members behind a cursor, each at its rank.                          *)
LEMMA RestIsRead ==
  ASSUME NotesInOrder, NEW l \in Readable, NEW ns, ns \subseteq Members(l)
  PROVE  /\ Cardinality(ns) \in Nat
         /\ DOMAIN InOrder(l, ns) = 1 .. Cardinality(ns)
         /\ \A i \in 1 .. Cardinality(ns) : InOrder(l, ns)[i] \in ns
         /\ \A n \in ns : \E i \in 1 .. Cardinality(ns) : InOrder(l, ns)[i] = n
         /\ \A i, j \in 1 .. Cardinality(ns) :
              i < j => Follows(l, At(l, InOrder(l, ns)[j]), At(l, InOrder(l, ns)[i]))
  <1> DEFINE R == {e \in ns \X ns : Follows(l, At(l, e[2]), At(l, e[1]))}
  <1>1. \A x, y \in ns : <<x, y>> \in R <=> Follows(l, At(l, y), At(l, x))
    OBVIOUS
  <1>2. \A n \in ns : n \in Notes /\ At(l, n) \in Cursors /\ At(l, n).id = n
    BY MembersHavePlaces
  <1>3. IsFiniteSet(ns)
    <2>1. ns \in SUBSET Notes
      BY <1>2
    <2> QED
      BY <2>1, BoardAssumption, FS_Subset
  <1> HIDE DEF R
  <1>4. IsOrder(ns, R)
    <2>1. \A x \in ns : <<x, x>> \notin R
      BY <1>1, <1>2, FollowsIsAnOrder
    <2>2. ASSUME NEW x \in ns, NEW y \in ns, NEW z \in ns, <<x, y>> \in R, <<y, z>> \in R
          PROVE  <<x, z>> \in R
      <3>1. Follows(l, At(l, y), At(l, x)) /\ Follows(l, At(l, z), At(l, y))
        BY <1>1, <2>2
      <3>2. Follows(l, At(l, z), At(l, x))
        BY <1>2, <3>1, FollowsIsAnOrder
      <3> QED
        BY <1>1, <3>2
    <2>3. ASSUME NEW x \in ns, NEW y \in ns PROVE x = y \/ <<x, y>> \in R \/ <<y, x>> \in R
      <3>1. At(l, x) = At(l, y) \/ Follows(l, At(l, x), At(l, y)) \/ Follows(l, At(l, y), At(l, x))
        BY <1>2, FollowsIsAnOrder
      <3>2. At(l, x) = At(l, y) => x = y
        BY <1>2
      <3> QED
        BY <1>1, <3>1, <3>2
    <2> QED
      BY <2>1, <2>2, <2>3 DEF IsOrder
  <1>5. PICK len \in Nat : len = Cardinality(ns)
    BY <1>3, FS_CardinalityType
  <1>6. ASSUME NEW n \in ns PROVE Rank(l, ns, n) = RankIn(ns, R, n)
    <2>1. {m \in ns : m = n \/ Follows(l, At(l, n), At(l, m))} = NotBehind(ns, R, n)
      BY <1>1 DEF NotBehind
    <2> QED
      BY <2>1 DEF Rank, RankIn
  <1>7. InOrder(l, ns) = [i \in 1 .. len |-> CHOOSE n \in ns : Rank(l, ns, n) = i]
    BY <1>5 DEF InOrder
  <1> DEFINE rest == InOrder(l, ns)
  <1> HIDE DEF rest
  <1>8. ASSUME NEW i \in 1 .. len PROVE rest[i] \in ns /\ RankIn(ns, R, rest[i]) = i
    <2>1. PICK n \in ns : RankIn(ns, R, n) = i
      BY <1>3, <1>4, <1>5, EveryRankIsTaken
    <2>2. Rank(l, ns, n) = i
      BY <1>6, <2>1
    <2>3. rest[i] = CHOOSE m \in ns : Rank(l, ns, m) = i
      BY <1>7 DEF rest
    <2>4. rest[i] \in ns /\ Rank(l, ns, rest[i]) = i
      BY <2>2, <2>3
    <2> QED
      BY <1>6, <2>4
  <1>9. ASSUME NEW n \in ns PROVE \E i \in 1 .. len : rest[i] = n
    <2>1. PICK i \in 1 .. len : i = RankIn(ns, R, n)
      BY <1>3, <1>4, <1>5, RanksOrder
    <2>2. rest[i] \in ns /\ RankIn(ns, R, rest[i]) = RankIn(ns, R, n)
      BY <1>8, <2>1
    <2>3. rest[i] = n
      BY <1>3, <1>4, <2>2, RanksDiffer
    <2> QED
      BY <2>3
  <1>10. ASSUME NEW i \in 1 .. len, NEW j \in 1 .. len, i < j
         PROVE  Follows(l, At(l, rest[j]), At(l, rest[i]))
    <2>1. /\ rest[i] \in ns /\ RankIn(ns, R, rest[i]) = i
          /\ rest[j] \in ns /\ RankIn(ns, R, rest[j]) = j
      BY <1>8
    <2>2. rest[i] # rest[j]
      BY <1>10, <2>1
    <2>3. <<rest[j], rest[i]>> \notin R
      <3>1. <<rest[j], rest[i]>> \in R => RankIn(ns, R, rest[j]) < RankIn(ns, R, rest[i])
        BY <1>3, <1>4, <2>1, RanksOrder
      <3> QED
        BY <1>10, <2>1, <3>1
    <2>4. <<rest[i], rest[j]>> \in R
      BY <1>4, <2>1, <2>2, <2>3 DEF IsOrder
    <2> QED
      BY <1>1, <2>1, <2>4
  <1>11. DOMAIN rest = 1 .. len
    BY <1>7 DEF rest
  <1> QED
    BY <1>5, <1>8, <1>9, <1>10, <1>11 DEF rest

(* One answer: the members behind the cursor up to the next cursor, each   *)
(* once, and all of them when there is no next cursor.                     *)
LEMMA NextPageIs ==
  ASSUME NotesInOrder, NEW l \in Readable, NEW after \in Cursors \cup {None}
  PROVE  LET p   == NextPage(l, after)
             len == Len(p.items)
         IN  /\ p.items \in Seq(Notes)
             /\ \A i \in 1 .. len : p.items[i] \in Rest(l, after)
             /\ \A i, j \in 1 .. len : p.items[i] = p.items[j] => i = j
             /\ p.cursor = None => \A n \in Rest(l, after) : \E i \in 1 .. len : p.items[i] = n
             /\ p.cursor # None =>
                  /\ p.cursor \in Cursors
                  /\ after # None => Follows(l, p.cursor, after)
                  /\ \A n \in Rest(l, after) :
                       (\E i \in 1 .. len : p.items[i] = n) <=> ~ Follows(l, At(l, n), p.cursor)
  <1> DEFINE ns   == Rest(l, after)
  <1> DEFINE rest == InOrder(l, ns)
  <1>1. /\ ns \subseteq Members(l)
        /\ after # None => \A n \in ns : Follows(l, At(l, n), after)
    BY DEF Rest
  <1> HIDE DEF ns
  <1>2. PICK len \in Nat : len = Cardinality(ns)
    BY <1>1, RestIsRead
  <1>3. /\ DOMAIN rest = 1 .. len
        /\ \A i \in 1 .. len : rest[i] \in ns
        /\ \A n \in ns : \E i \in 1 .. len : rest[i] = n
        /\ \A i, j \in 1 .. len : i < j => Follows(l, At(l, rest[j]), At(l, rest[i]))
    BY <1>1, <1>2, RestIsRead
  <1>4. \A n \in ns : n \in Notes /\ At(l, n) \in Cursors
    BY <1>1, MembersHavePlaces
  <1>5. rest = [i \in 1 .. len |-> rest[i]]
    BY <1>2 DEF InOrder
  <1>6. Len(rest) = len
    <2> HIDE DEF rest
    <2>1. rest \in [1 .. len -> ns]
      BY <1>3, <1>5
    <2>2. rest \in Seq(ns)
      BY <2>1
    <2>3. DOMAIN rest = 1 .. Len(rest) /\ Len(rest) \in Nat
      BY <2>2, LenProperties
    <2> QED
      BY <1>3, <2>3
  <1> DEFINE size == IF len > PageSize THEN PageSize ELSE len
  <1>7. PICK count \in Nat : /\ count = size /\ count <= len
                             /\ len > PageSize => count = PageSize /\ count \in 1 .. len
                             /\ ~ (len > PageSize) => count = len
    BY BoardAssumption
  <1> DEFINE p == NextPage(l, after)
  <1>8. /\ p.items = SubSeq(rest, 1, count)
        /\ len > PageSize => p.cursor = At(l, rest[count])
        /\ ~ (len > PageSize) => p.cursor = None
    BY <1>6, <1>7 DEF NextPage, ns
  <1> HIDE DEF rest, size, p
  <1>9. /\ p.items \in Seq(Notes) /\ Len(p.items) = count
        /\ \A i \in 1 .. count : p.items[i] = rest[i]
    <2>1. \A i \in 1 .. count : rest[i] \in Notes
      BY <1>3, <1>4, <1>7
    <2>2. 1 \in Int /\ count \in Int
      OBVIOUS
    <2>3. /\ SubSeq(rest, 1, count) \in Seq(Notes)
          /\ Len(SubSeq(rest, 1, count)) = IF 1 <= count THEN count - 1 + 1 ELSE 0
          /\ \A i \in 1 .. count - 1 + 1 : SubSeq(rest, 1, count)[i] = rest[1 + i - 1]
      BY <2>1, <2>2, SubSeqProperties
    <2> QED
      BY <1>8, <2>3
  <1>10. ASSUME NEW i \in 1 .. len, NEW j \in 1 .. len, i < j
         PROVE  rest[i] # rest[j] /\ ~ Follows(l, At(l, rest[i]), At(l, rest[j]))
    <2>1. Follows(l, At(l, rest[j]), At(l, rest[i]))
      BY <1>3, <1>10
    <2>2. At(l, rest[i]) \in Cursors /\ At(l, rest[j]) \in Cursors
      BY <1>3, <1>4
    <2>3. ~ Follows(l, At(l, rest[i]), At(l, rest[j]))
      BY <2>1, <2>2, FollowsIsAnOrder
    <2> QED
      BY <2>1, <2>3
  <1>11. ASSUME NEW i \in 1 .. count, NEW j \in 1 .. count, p.items[i] = p.items[j] PROVE i = j
    <2>1. i \in 1 .. len /\ j \in 1 .. len /\ rest[i] = rest[j]
      BY <1>7, <1>9, <1>11
    <2>2. ~ (i < j) /\ ~ (j < i)
      BY <1>10, <2>1
    <2> QED
      BY <2>1, <2>2
  <1>12. ASSUME len > PageSize
         PROVE  /\ p.cursor \in Cursors
                /\ after # None => Follows(l, p.cursor, after)
                /\ \A n \in ns : (\E i \in 1 .. count : p.items[i] = n) <=> ~ Follows(l, At(l, n), p.cursor)
    <2>1. count \in 1 .. len /\ p.cursor = At(l, rest[count]) /\ rest[count] \in ns
      BY <1>3, <1>7, <1>8, <1>12
    <2>2. ASSUME NEW n \in ns
          PROVE  (\E i \in 1 .. count : p.items[i] = n) <=> ~ Follows(l, At(l, n), p.cursor)
      <3>1. PICK k \in 1 .. len : rest[k] = n
        BY <1>3
      <3>2. CASE k <= count
        <4>1. k \in 1 .. count
          BY <3>2
        <4>2. p.items[k] = n
          BY <1>9, <3>1, <4>1
        <4>3. ~ Follows(l, At(l, n), p.cursor)
          <5>1. CASE k < count
            BY <1>10, <2>1, <3>1, <5>1
          <5>2. CASE k = count
            BY <1>4, <2>1, <3>1, <5>2, FollowsIsAnOrder
          <5> QED
            BY <2>1, <3>2, <5>1, <5>2
        <4> QED
          BY <4>1, <4>2, <4>3
      <3>3. CASE k > count
        <4>1. Follows(l, At(l, n), p.cursor)
          BY <1>3, <2>1, <3>1, <3>3
        <4>2. ASSUME NEW i \in 1 .. count, p.items[i] = n PROVE FALSE
          <5>1. i \in 1 .. len /\ i < k /\ rest[i] = n
            BY <1>7, <1>9, <3>3, <4>2
          <5> QED
            BY <1>10, <3>1, <5>1
        <4> QED
          BY <4>1, <4>2
      <3> QED
        BY <1>7, <3>2, <3>3
    <2> QED
      BY <1>1, <1>4, <2>1, <2>2
  <1>13. ASSUME ~ (len > PageSize), NEW n \in ns PROVE \E i \in 1 .. count : p.items[i] = n
    BY <1>3, <1>7, <1>9, <1>13
  <1>14. p.cursor = None \/ len > PageSize
    BY <1>8
  <1>15. len > PageSize => p.cursor # None
    BY <1>12, BoardAssumption DEF Cursors
  <1>16. \A i \in 1 .. count : p.items[i] \in ns
    BY <1>3, <1>7, <1>9
  <1> QED
    BY <1>9, <1>11, <1>12, <1>13, <1>14, <1>15, <1>16 DEF p, ns

(* Of the notes that stayed as they were, the browser has those that are   *)
(* not behind its cursor, once, and at the end all of them.                *)
IsShown(n) == \E i \in DOMAIN shown : shown[i] = n

ReaderInv ==
  /\ list \in Readable /\ reading \in {"no", "yes", "end"} /\ shown \in Seq(Notes) /\ stay \subseteq Notes
  /\ reading = "no" => shown = <<>> /\ stay = {}
  /\ reading # "no" => stay \subseteq Members(list)
  /\ reading = "yes" => /\ cursor \in Cursors
                        /\ \A n \in stay : IsShown(n) <=> ~ Follows(list, At(list, n), cursor)
  /\ reading = "end" => \A n \in stay : IsShown(n)
  /\ \A n \in stay : \A i, j \in DOMAIN shown : shown[i] = n /\ shown[j] = n => i = j

(* A note that stays has kept its row.                                     *)
LEMMA StayingNotes ==
  ASSUME stay \subseteq Notes, Unseen, NEW n \in stay'
  PROVE  n \in stay /\ note'[n] = note[n]
  <1>1. n \in stay /\ Shown(n)' = Shown(n) /\ n \in Notes
    BY DEF Unseen
  <1>2. Shown(n) = [row |-> note[n], parts |-> [p \in PartsOf(n) |-> part[p]]]
    BY <1>1, NotesAssumption DEF Shown
  <1>3. Shown(n)' = [row |-> note'[n], parts |-> [p \in PartsOf(n)' |-> part'[p]]]
    BY <1>1, NotesAssumption DEF Shown
  <1>4. Shown(n).row = note[n] /\ Shown(n)'.row = note'[n]
    BY <1>2, <1>3
  <1> QED
    BY <1>1, <1>4

(* While other devices work.                                               *)
LEMMA UnseenKeepsReader ==
  ASSUME ReaderInv, Unseen
  PROVE  ReaderInv'
  <1>1. UNCHANGED <<list, reading, cursor, shown>> /\ stay' \subseteq stay
    BY DEF Unseen
  <1>2. stay \subseteq Notes
    BY DEF ReaderInv
  <1>3. \A n \in stay' : n \in stay /\ note'[n] = note[n]
    BY <1>2, StayingNotes
  <1>4. \A n \in stay' : At(list, n)' = At(list, n)
    BY <1>1, <1>3 DEF At, SortKey
  <1>5. \A n \in stay' : n \in Members(list) => n \in Members(list)'
    BY <1>1, <1>3 DEF Members
  <1>6. \A n : IsShown(n)' = IsShown(n)
    BY <1>1 DEF IsShown
  <1>7. \A x, y : Follows(list, x, y)' = Follows(list, x, y)
    BY <1>1 DEF Follows
  <1>8. reading' = "yes" => /\ cursor' \in Cursors
                            /\ \A n \in stay' : IsShown(n)' <=> ~ Follows(list, At(list, n), cursor)'
    <2> SUFFICES ASSUME reading = "yes", NEW n \in stay'
                 PROVE  IsShown(n)' <=> ~ Follows(list, At(list, n), cursor)'
      BY <1>1 DEF ReaderInv
    <2>1. IsShown(n) <=> ~ Follows(list, At(list, n), cursor)
      BY <1>3 DEF ReaderInv
    <2>2. Follows(list, At(list, n), cursor)' = Follows(list, At(list, n), cursor)
      BY <1>1, <1>4 DEF Follows
    <2>3. IsShown(n)' = IsShown(n)
      BY <1>6
    <2> QED
      BY <2>1, <2>2, <2>3
  <1>9. /\ list' \in Readable /\ reading' \in {"no", "yes", "end"} /\ shown' \in Seq(Notes) /\ stay' \subseteq Notes
        /\ reading' = "no" => shown' = <<>> /\ stay' = {}
    BY <1>1 DEF ReaderInv
  <1>10. reading' # "no" => stay' \subseteq Members(list)'
    BY <1>1, <1>3, <1>5 DEF ReaderInv
  <1>11. reading' = "end" => \A n \in stay' : IsShown(n)'
    BY <1>1, <1>3, <1>6 DEF ReaderInv
  <1>12. \A n \in stay' : \A i, j \in DOMAIN shown' : shown'[i] = n /\ shown'[j] = n => i = j
    BY <1>1, <1>3 DEF ReaderInv
  <1> QED
    BY <1>8, <1>9, <1>10, <1>11, <1>12 DEF ReaderInv

(* An answer arrives: the notes that stayed behind the cursor were not     *)
(* shown before, those before it were.                                     *)
LEMMA AnswerKeepsReader ==
  ASSUME NotesInOrder, UNCHANGED note, NEW l \in Readable, NEW after \in Cursors \cup {None},
         list' = l, stay' \subseteq Members(l), NEW before \in Seq(Notes),
         \A n \in stay' : /\ n \in Rest(l, after) <=> ~ (\E i \in DOMAIN before : before[i] = n)
                          /\ \A i, j \in DOMAIN before : before[i] = n /\ before[j] = n => i = j,
         shown' = before \o NextPage(l, after).items, cursor' = NextPage(l, after).cursor,
         reading' = IF cursor' = None THEN "end" ELSE "yes"
  PROVE  ReaderInv'
  <1> DEFINE p == NextPage(l, after)
  <1>1. PICK len \in Nat :
          /\ len = Len(p.items) /\ p.items \in Seq(Notes)
          /\ \A i \in 1 .. len : p.items[i] \in Rest(l, after)
          /\ \A i, j \in 1 .. len : p.items[i] = p.items[j] => i = j
          /\ p.cursor = None => \A n \in Rest(l, after) : \E i \in 1 .. len : p.items[i] = n
          /\ p.cursor # None =>
               /\ p.cursor \in Cursors
               /\ after # None => Follows(l, p.cursor, after)
               /\ \A n \in Rest(l, after) : (\E i \in 1 .. len : p.items[i] = n) <=> ~ Follows(l, At(l, n), p.cursor)
    <2>1. /\ p.items \in Seq(Notes)
          /\ \A i \in 1 .. Len(p.items) : p.items[i] \in Rest(l, after)
          /\ \A i, j \in 1 .. Len(p.items) : p.items[i] = p.items[j] => i = j
          /\ p.cursor = None => \A n \in Rest(l, after) : \E i \in 1 .. Len(p.items) : p.items[i] = n
          /\ p.cursor # None =>
               /\ p.cursor \in Cursors
               /\ after # None => Follows(l, p.cursor, after)
               /\ \A n \in Rest(l, after) :
                    (\E i \in 1 .. Len(p.items) : p.items[i] = n) <=> ~ Follows(l, At(l, n), p.cursor)
      BY NextPageIs
    <2>2. Len(p.items) \in Nat
      BY <2>1, LenProperties
    <2> HIDE DEF p
    <2> QED
      BY <2>1, <2>2
  <1>2. PICK old \in Nat : old = Len(before)
    OBVIOUS
  <1>3. /\ p.items \in Seq(Notes)
        /\ \A i \in 1 .. len : p.items[i] \in Rest(l, after)
        /\ \A i, j \in 1 .. len : p.items[i] = p.items[j] => i = j
        /\ p.cursor = None => \A n \in Rest(l, after) : \E i \in 1 .. len : p.items[i] = n
        /\ p.cursor # None =>
             /\ p.cursor \in Cursors
             /\ after # None => Follows(l, p.cursor, after)
             /\ \A n \in Rest(l, after) : (\E i \in 1 .. len : p.items[i] = n) <=> ~ Follows(l, At(l, n), p.cursor)
    BY <1>1, Zenon
  <1>4. shown' = before \o p.items /\ cursor' = p.cursor
    OBVIOUS
  <1> HIDE DEF p
  <1>5. /\ shown' \in Seq(Notes) /\ Len(shown') = old + len /\ DOMAIN shown' = 1 .. old + len
        /\ \A i \in 1 .. old + len : shown'[i] = IF i <= old THEN before[i] ELSE p.items[i - old]
    <2>1. /\ before \o p.items \in Seq(Notes) /\ Len(before \o p.items) = Len(before) + Len(p.items)
          /\ \A i \in 1 .. Len(before) + Len(p.items) :
               (before \o p.items)[i] = IF i <= Len(before) THEN before[i] ELSE p.items[i - Len(before)]
      BY <1>3, ConcatProperties
    <2>2. DOMAIN shown' = 1 .. Len(shown')
      BY <1>4, <2>1, LenProperties
    <2> QED
      BY <1>1, <1>2, <1>4, <2>1, <2>2
  <1>6. DOMAIN before = 1 .. old
    BY <1>2, LenProperties
  <1> DEFINE New(n) == \E i \in 1 .. len : p.items[i] = n
  <1> DEFINE Old(n) == \E i \in 1 .. old : before[i] = n
  <1>7. ASSUME NEW n PROVE IsShown(n)' <=> Old(n) \/ New(n)
    <2>1. ASSUME Old(n) PROVE IsShown(n)'
      <3>1. PICK i \in 1 .. old : before[i] = n
        BY <2>1
      <3>2. i \in 1 .. old + len /\ shown'[i] = n
        BY <1>5, <3>1
      <3> QED
        BY <1>5, <3>2 DEF IsShown
    <2>2. ASSUME New(n) PROVE IsShown(n)'
      <3>1. PICK i \in 1 .. len : p.items[i] = n
        BY <2>2
      <3>2. i + old \in 1 .. old + len /\ ~ (i + old <= old) /\ (i + old) - old = i
        OBVIOUS
      <3>3. shown'[i + old] = n
        BY <1>5, <3>1, <3>2
      <3> QED
        BY <1>5, <3>2, <3>3 DEF IsShown
    <2>3. ASSUME IsShown(n)' PROVE Old(n) \/ New(n)
      <3>1. PICK i \in 1 .. old + len : shown'[i] = n
        BY <1>5, <2>3 DEF IsShown
      <3>2. CASE i <= old
        <4>1. i \in 1 .. old /\ before[i] = n
          BY <1>5, <3>1, <3>2
        <4> QED
          BY <4>1
      <3>3. CASE ~ (i <= old)
        <4>1. i - old \in 1 .. len /\ p.items[i - old] = n
          BY <1>5, <3>1, <3>3
        <4> QED
          BY <4>1
      <3> QED
        BY <3>2, <3>3
    <2> QED
      BY <2>1, <2>2, <2>3
  <1>8. \A n \in stay' : n \in Rest(l, after) <=> ~ Old(n)
    BY <1>6
  <1>9. \A n : New(n) => n \in Rest(l, after)
    BY <1>3
  <1>10. ASSUME NEW n \in stay', NEW i \in DOMAIN shown', NEW j \in DOMAIN shown', shown'[i] = n, shown'[j] = n
         PROVE  i = j
    <2>1. i \in 1 .. old + len /\ j \in 1 .. old + len
      BY <1>5
    <2>2. CASE i <= old /\ j <= old
      <3>1. i \in DOMAIN before /\ j \in DOMAIN before /\ before[i] = n /\ before[j] = n
        BY <1>5, <1>6, <1>10, <2>1, <2>2
      <3> QED
        BY <1>10, <3>1
    <2>3. CASE ~ (i <= old) /\ ~ (j <= old)
      <3>1. i - old \in 1 .. len /\ j - old \in 1 .. len
        BY <2>1, <2>3
      <3>2. shown'[i] = p.items[i - old] /\ shown'[j] = p.items[j - old]
        BY <1>5, <2>1, <2>3
      <3>3. p.items[i - old] = p.items[j - old]
        BY <1>10, <3>2
      <3>4. i - old = j - old
        BY <1>3, <3>1, <3>3
      <3> QED
        BY <2>1, <3>4
    <2>4. ASSUME NEW a \in 1 .. old + len, NEW b \in 1 .. old + len, a <= old, ~ (b <= old),
                 shown'[a] = n, shown'[b] = n
          PROVE  FALSE
      <3>1. shown'[a] = before[a] /\ shown'[b] = p.items[b - old]
        BY <1>5, <2>4
      <3>2. before[a] = n /\ p.items[b - old] = n
        BY <2>4, <3>1
      <3>3. a \in 1 .. old /\ b - old \in 1 .. len
        BY <2>4
      <3>4. Old(n) /\ New(n)
        BY <3>2, <3>3
      <3> QED
        BY <1>8, <1>9, <1>10, <3>4
    <2> QED
      BY <1>10, <2>1, <2>2, <2>3, <2>4
  <1>11. \A n \in stay' : n \in Members(l) /\ n \in Notes /\ At(l, n) \in Cursors
    BY MembersHavePlaces
  <1>12. \A n \in stay' : At(list, n)' = At(l, n)
    BY DEF At, SortKey
  <1>13. Members(list)' = Members(l)
    BY DEF Members
  <1> HIDE DEF Old, New
  <1>14. ASSUME cursor' = None, NEW n \in stay' PROVE IsShown(n)'
    <2>1. n \in Rest(l, after) => New(n)
      BY <1>3, <1>4, <1>14 DEF New
    <2> QED
      BY <1>7, <1>8, <2>1
  <1>15. ASSUME cursor' # None, NEW n \in stay'
         PROVE  IsShown(n)' <=> ~ Follows(list, At(list, n), cursor)'
    <2>1. Follows(list, At(list, n), cursor)' = Follows(l, At(l, n), p.cursor)
      BY <1>4, <1>12 DEF Follows
    <2>2. CASE n \in Rest(l, after)
      <3>1. New(n) <=> ~ Follows(l, At(l, n), p.cursor)
        BY <1>3, <1>4, <1>15, <2>2 DEF New
      <3> QED
        BY <1>7, <1>8, <2>1, <2>2, <3>1
    <2>3. CASE n \notin Rest(l, after)
      <3>1. after # None /\ ~ Follows(l, At(l, n), after)
        BY <1>11, <2>3 DEF Rest
      <3>2. after \in Cursors /\ p.cursor \in Cursors /\ Follows(l, p.cursor, after)
        BY <1>3, <1>4, <1>15, <3>1
      <3>3. ~ Follows(l, At(l, n), p.cursor)
        BY <1>11, <3>1, <3>2, FollowsIsAnOrder
      <3> QED
        BY <1>7, <1>8, <2>1, <2>3, <3>3
    <2> QED
      BY <2>2, <2>3
  <1>16. cursor' # None => cursor' \in Cursors
    BY <1>3, <1>4
  <1>17. stay' \subseteq Notes /\ stay' \subseteq Members(list)'
    BY <1>11, <1>13
  <1>18. reading' \in {"yes", "end"} /\ (reading' = "yes" => cursor' # None) /\ (reading' = "end" => cursor' = None)
    OBVIOUS
  <1> QED
    BY <1>5, <1>10, <1>14, <1>15, <1>16, <1>17, <1>18 DEF ReaderInv

(* The invariant of readers.                                               *)
ReadingInv == OrderInv /\ ReaderInv

(* The first answer,                                                       *)
LEMMA FirstKeepsReader ==
  ASSUME NotesInOrder, NEW l \in Readable, ReadFirst(l)
  PROVE  ReaderInv'
  <1>1. /\ list' = l /\ stay' = Members(l) /\ UNCHANGED note
        /\ shown' = NextPage(l, None).items /\ cursor' = NextPage(l, None).cursor
        /\ reading' = IF cursor' = None THEN "end" ELSE "yes"
    BY DEF ReadFirst, vars, noteVars
  <1>2. NextPage(l, None).items \in Seq(Notes)
    BY NextPageIs
  <1>3. <<>> \in Seq(Notes) /\ DOMAIN <<>> = {}
    OBVIOUS
  <1>4. shown' = <<>> \o NextPage(l, None).items
    BY <1>1, <1>2, ConcatEmptySeq
  <1>5. Rest(l, None) = Members(l)
    BY DEF Rest
  <1> DEFINE none == <<>>
  <1>6. ASSUME NEW n \in stay'
        PROVE  /\ n \in Rest(l, None) <=> ~ (\E i \in DOMAIN none : none[i] = n)
               /\ \A i, j \in DOMAIN none : none[i] = n /\ none[j] = n => i = j
    <2>1. n \in Rest(l, None)
      BY <1>1, <1>5
    <2>2. DOMAIN none = {}
      OBVIOUS
    <2> HIDE DEF none
    <2> QED
      BY <2>1, <2>2
  <1>7. none \in Seq(Notes) /\ shown' = none \o NextPage(l, None).items
    BY <1>3, <1>4
  <1> HIDE DEF none
  <1> QED
    BY <1>1, <1>6, <1>7, AnswerKeepsReader

(* the next one,                                                           *)
LEMMA NextKeepsReader ==
  ASSUME NotesInOrder, ReaderInv, ReadNext
  PROVE  ReaderInv'
  <1>1. /\ UNCHANGED <<note, list, stay>>
        /\ shown' = shown \o NextPage(list, cursor).items /\ cursor' = NextPage(list, cursor).cursor
        /\ reading' = IF cursor' = None THEN "end" ELSE "yes"
    BY DEF ReadNext, vars, noteVars
  <1>2. /\ cursor \in Cursors /\ list \in Readable /\ stay \subseteq Members(list) /\ shown \in Seq(Notes)
        /\ \A n \in stay : IsShown(n) <=> ~ Follows(list, At(list, n), cursor)
        /\ \A n \in stay : \A i, j \in DOMAIN shown : shown[i] = n /\ shown[j] = n => i = j
    BY DEF ReaderInv, ReadNext
  <1>3. cursor # None
    BY <1>2, BoardAssumption DEF Cursors
  <1>4. \A n \in stay : n \in Rest(list, cursor) <=> ~ (\E i \in DOMAIN shown : shown[i] = n)
    BY <1>2, <1>3 DEF Rest, IsShown
  <1>5. PICK l, after, before : l = list /\ after = cursor /\ before = shown
    OBVIOUS
  <1>6. /\ l \in Readable /\ after \in Cursors \cup {None} /\ before \in Seq(Notes)
        /\ list' = l /\ stay' \subseteq Members(l)
        /\ shown' = before \o NextPage(l, after).items /\ cursor' = NextPage(l, after).cursor
    BY <1>1, <1>2, <1>5
  <1>7. \A n \in stay' : /\ n \in Rest(l, after) <=> ~ (\E i \in DOMAIN before : before[i] = n)
                         /\ \A i, j \in DOMAIN before : before[i] = n /\ before[j] = n => i = j
    BY <1>1, <1>2, <1>4, <1>5
  <1> QED
    BY <1>1, <1>6, <1>7, AnswerKeepsReader

(* and every step of a reader.                                             *)
LEMMA ReadKeepsReader ==
  ASSUME NotesInOrder, ReaderInv, Read
  PROVE  ReaderInv'
  <1>1. CASE OpenInbox \/ OpenTrash \/ OpenBoard
    <2>1. \E l \in Readable : ReadFirst(l)
      BY <1>1 DEF OpenInbox, OpenTrash, OpenBoard, Readable, Lists
    <2> QED
      BY <2>1, FirstKeepsReader
  <1>2. CASE ReadNext
    BY <1>2, NextKeepsReader
  <1>3. CASE Leave
    <2>1. reading' = "no" /\ list' = None /\ shown' = <<>> /\ stay' = {}
      BY <1>3 DEF Leave
    <2>2. None \in Readable /\ <<>> \in Seq(Notes)
      BY DEF Readable, Lists
    <2> QED
      BY <2>1, <2>2 DEF ReaderInv
  <1> QED
    BY <1>1, <1>2, <1>3 DEF Read

(* Nobody reads yet.                                                       *)
LEMMA ReadingInit == Init => ReadingInv
  <1> SUFFICES ASSUME Init PROVE ReadingInv
    OBVIOUS
  <1>1. reading = "no" /\ list = None /\ shown = <<>> /\ stay = {}
    BY DEF Init
  <1>2. None \in Readable /\ <<>> \in Seq(Notes)
    BY DEF Readable, Lists
  <1>3. ReaderInv
    BY <1>1, <1>2 DEF ReaderInv
  <1> QED
    BY <1>3, OrderInit DEF ReadingInv

(* Readers and writers together.                                           *)
LEMMA ReadingStep == ReadingInv /\ [BoardNext]_boardSpecVars => ReadingInv'
  <1> SUFFICES ASSUME ReadingInv, [BoardNext]_boardSpecVars PROVE ReaderInv'
    BY OrderStep DEF ReadingInv
  <1>1. ReaderInv /\ NotesInOrder
    BY DEF ReadingInv, OrderInv
  <1>2. CASE Write
    BY <1>1, <1>2, UnseenKeepsReader DEF Write
  <1>3. CASE Read
    BY <1>1, <1>3, ReadKeepsReader
  <1>4. CASE UNCHANGED boardSpecVars
    <2>1. UNCHANGED <<note, list, reading, cursor, shown, stay>>
      BY <1>4 DEF boardSpecVars, readerVars, vars, noteVars
    <2>2. stay' = stay /\ Members(list)' = Members(list)
      BY <2>1 DEF Members
    <2>3. \A n : IsShown(n)' = IsShown(n) /\ At(list, n)' = At(list, n)
      BY <2>1 DEF IsShown, At, SortKey
    <2>4. \A n : Follows(list, At(list, n), cursor)' = Follows(list, At(list, n), cursor)
      BY <2>1, <2>3 DEF Follows
    <2> QED
      BY <1>1, <2>1, <2>2, <2>3, <2>4 DEF ReaderInv
  <1> QED
    BY <1>2, <1>3, <1>4 DEF BoardNext

(* Whoever reads a list to its end, one page at a time, has read every     *)
(* note that stayed as it was exactly once, for lists, pages and changes   *)
(* of every size: what is before the cursor was shown, what is behind it   *)
(* was not, and an operation on other notes moves neither.                 *)
THEOREM ListsAreReadOnce == Spec => []ReadOnce
  <1>1. ReadingInv => ReadOnce
    BY DEF ReadingInv, ReaderInv, ReadOnce, IsShown
  <1> QED
    BY <1>1, ReadingInit, ReadingStep, PTL DEF Spec

-----------------------------------------------------------------------------
(* 5. What every operation leaves behind: an account of which a request    *)
(* that reads much can make sense.  The operations are those of the app on *)
(* notes and on the board.                                                 *)
WellMade(r) ==
  \/ r.kind = "text" /\ r.text \in Texts /\ r.file = None
  \/ r.kind = "attachment" /\ r.text = None /\ r.file \in Files

MadeOfSomething == \A p \in Parts : part[p].note # None => WellMade(part[p])
NotesHaveParts  == \A n \in Notes : GetNote(n) => \E p \in Parts : part[p].note = n
TextsAreShown   == \A p \in Parts : TextShown(p)
PlacesExist     ==
  /\ \A n \in Notes : note[n].category # None => GetCategory(note[n].category)
  /\ \A c \in Categories : GetCategory(c) => category[c].page \in Pages /\ GetPage(category[c].page)

Account == OrderInv /\ HistoryTable /\ TextsAreShown /\ MadeOfSomething /\ NotesHaveParts /\ PlacesExist

OnTheBoard == PostPage \/ PatchPage \/ RemovePage \/ PostCategory \/ PatchCategory \/ RemoveCategory

(* Operations that only change parts, and files, leave all in order.       *)
LEMMA PartsOrder ==
  ASSUME OrderInv, EditNotePart \/ AddNotePart \/ DeleteNotePart \/ UploadFile \/ Janitor
  PROVE  OrderInv'
  <1>1. PartTable /\ NotesInOrder /\ CategoriesInOrder /\ PagesInOrder /\ TimesAreNumbers /\ NotesInv
    BY DEF OrderInv, NotesInv, Tables
  <1>2. NotesInv'
    BY <1>1, NotesNextKeeps DEF NotesNext
  <1>3. UNCHANGED <<now, note, category, page>>
    BY DEF EditNotePart, AddNotePart, DeleteNotePart, UploadFile, Janitor,
           EditPart, AddPart, RemovePart, Upload, RemoveUnused, boardVars
  <1>4. \A p \in Parts : part'[p].created \in Nat
    <2>1. now \in Nat /\ \A p \in Parts : part[p].created \in Nat /\ DOMAIN part[p] = PartColumns
      BY <1>1 DEF TimesAreNumbers, PartTable
    <2>2. CASE EditNotePart
      <3>1. PICK p \in Parts, t \in Texts : part' = [part EXCEPT ![p].text = t, ![p].edited = now]
        BY <2>2 DEF EditNotePart, EditPart, UpdatePartText
      <3>2. \A q \in Parts : part'[q].created = part[q].created
        BY <1>1, <2>1, <3>1 DEF PartTable, PartColumns
      <3> QED
        BY <2>1, <3>2
    <2>3. CASE AddNotePart
      <3>1. PICK n \in Notes, p \in FreeParts, in \in Inputs : InsertParts(n, <<p>>, <<in>>, NextPartOrdinal(n), "app", now)
        BY <2>3 DEF AddNotePart, AddPart
      <3> DEFINE first == NextPartOrdinal(n)
      <3>2. \A i, j \in DOMAIN <<p>> : <<p>>[i] = <<p>>[j] => i = j
        OBVIOUS
      <3>3. /\ \A i \in DOMAIN <<p>> : <<p>>[i] \in Parts =>
                   part'[<<p>>[i]] = InsertedRow(n, first + i - 1, <<in>>[i], now)
            /\ \A q \in Parts : (\A i \in DOMAIN <<p>> : <<p>>[i] # q) => part'[q] = part[q]
        BY <1>1, <3>1, <3>2, InsertedParts
      <3>4. \A i : InsertedRow(n, i, in, now).created = now
        BY DEF InsertedRow
      <3>5. ASSUME NEW q \in Parts PROVE part'[q].created = now \/ part'[q] = part[q]
        <4>1. CASE q = p
          <5>1. 1 \in DOMAIN <<p>> /\ <<p>>[1] = p /\ <<in>>[1] = in
            OBVIOUS
          <5>2. part'[p] = InsertedRow(n, first + 1 - 1, in, now)
            BY <3>3, <4>1, <5>1
          <5> QED
            BY <3>4, <4>1, <5>2
        <4>2. CASE q # p
          BY <3>3, <4>2
        <4> QED
          BY <4>1, <4>2
      <3> QED
        BY <2>1, <3>5
    <2>4. CASE DeleteNotePart
      <3>1. \A p \in Parts : part'[p] = part[p] \/ part'[p] = NoPart
        BY <2>4 DEF DeleteNotePart, RemovePart, DeleteNoteParts
      <3>2. NoPart.created = 0
        BY DEF NoPart
      <3> QED
        BY <2>1, <3>1, <3>2
    <2>5. CASE UploadFile \/ Janitor
      <3>1. part' = part
        BY <2>5 DEF UploadFile, Janitor, Upload, RemoveUnused
      <3> QED
        BY <2>1, <3>1
    <2> QED
      BY <2>2, <2>3, <2>4, <2>5
  <1> QED
    BY <1>1, <1>2, <1>3, <1>4 DEF OrderInv, NotesInOrder, CategoriesInOrder, PagesInOrder, TimesAreNumbers

LEMMA AccountOrder ==
  ASSUME OrderInv, NotesNext \/ OnTheBoard
  PROVE  OrderInv'
  <1>1. CASE Places \/ Keeps
    BY <1>1, OperationsKeepOrder
  <1>2. CASE EditNotePart \/ AddNotePart \/ DeleteNotePart \/ UploadFile \/ Janitor
    BY <1>2, PartsOrder
  <1> QED
    BY <1>1, <1>2 DEF NotesNext, OnTheBoard, Places, Keeps

(* Rows of parts that stay as they are make the sense they made.           *)
LEMMA SenseStays ==
  ASSUME MadeOfSomething, NotesHaveParts,
         \A p \in Parts : /\ part'[p].note = part[p].note /\ part'[p].file = part[p].file
                          /\ part'[p].kind = part[p].kind /\ part'[p].text = part[p].text,
         \A n \in Notes : note'[n].state = "absent" \/ note[n].state # "absent"
  PROVE  MadeOfSomething' /\ NotesHaveParts'
  BY DEF MadeOfSomething, NotesHaveParts, WellMade, GetNote

(* A note parts were inserted into has parts, and the others have theirs.  *)
LEMMA SenseOfInserted ==
  ASSUME PartTable, MadeOfSomething, NotesHaveParts,
         NEW n \in Notes, NEW ids, NEW ins, NEW first, NEW origin, NEW time,
         InsertParts(n, ids, ins, first, origin, time),
         \A i, j \in DOMAIN ids : ids[i] = ids[j] => i = j,
         \A i \in DOMAIN ids : ids[i] \in FreeParts /\ ins[i] \in Inputs,
         1 \in DOMAIN ids,
         \A m \in Notes : m # n => note'[m].state = "absent" \/ note[m].state # "absent"
  PROVE  MadeOfSomething' /\ NotesHaveParts'
  <1>1. /\ \A i \in DOMAIN ids : ids[i] \in Parts => part'[ids[i]] = InsertedRow(n, first + i - 1, ins[i], time)
        /\ \A p \in Parts : (\A i \in DOMAIN ids : ids[i] # p) => part'[p] = part[p]
    BY InsertedParts
  <1>2. \A i \in DOMAIN ids : ids[i] \in Parts /\ part[ids[i]].note = None
    BY DEF FreeParts
  <1>3. \A m \in Notes : m # None
    BY NotesAssumption
  <1>4. \A in \in Inputs : WellMade(in)
    BY DEF Inputs, TextInput, FileInput, WellMade
  <1>5. ASSUME NEW in \in Inputs, NEW o
        PROVE  WellMade(InsertedRow(n, o, in, time)) /\ InsertedRow(n, o, in, time).note = n
    BY <1>4 DEF InsertedRow, WellMade
  <1>6. ASSUME NEW p \in Parts, part'[p].note # None PROVE WellMade(part'[p])
    <2>1. CASE \E i \in DOMAIN ids : ids[i] = p
      <3>1. PICK i \in DOMAIN ids : ids[i] = p
        BY <2>1
      <3>2. part'[p] = InsertedRow(n, first + i - 1, ins[i], time)
        BY <1>1, <3>1
      <3> QED
        BY <1>5, <3>2
    <2>2. CASE \A i \in DOMAIN ids : ids[i] # p
      <3>1. part'[p] = part[p]
        BY <1>1, <2>2
      <3> QED
        BY <1>6, <3>1 DEF MadeOfSomething
    <2> QED
      BY <2>1, <2>2
  <1>7. ASSUME NEW m \in Notes, note'[m].state # "absent" PROVE \E p \in Parts : part'[p].note = m
    <2>1. CASE m = n
      <3>1. part'[ids[1]] = InsertedRow(n, first + 1 - 1, ins[1], time) /\ ids[1] \in Parts /\ ins[1] \in Inputs
        BY <1>1, <1>2
      <3>2. part'[ids[1]].note = n
        BY <1>5, <3>1
      <3> QED
        BY <2>1, <3>1, <3>2
    <2>2. CASE m # n
      <3>1. PICK p \in Parts : part[p].note = m
        BY <1>7, <2>2 DEF NotesHaveParts, GetNote
      <3>2. \A i \in DOMAIN ids : ids[i] # p
        BY <1>2, <1>3, <3>1
      <3> QED
        BY <1>1, <3>1, <3>2
    <2> QED
      BY <2>1, <2>2
  <1> QED
    BY <1>6, <1>7 DEF MadeOfSomething, NotesHaveParts, GetNote

(* A note that has several parts has others than each of them.             *)
LEMMA AnotherPart ==
  ASSUME NEW n, NEW p \in Parts, CountNoteParts(n) > 1
  PROVE  \E q \in Parts : q # p /\ part[q].note = n
  <1> SUFFICES ASSUME \A q \in Parts : q # p => part[q].note # n PROVE FALSE
    OBVIOUS
  <1>1. PartsOf(n) \in SUBSET {p}
    BY DEF PartsOf
  <1>2. IsFiniteSet({p}) /\ Cardinality({p}) = 1
    BY FS_Singleton
  <1>3. Cardinality(PartsOf(n)) <= 1 /\ Cardinality(PartsOf(n)) \in Nat
    BY <1>1, <1>2, FS_Subset, FS_CardinalityType
  <1> QED
    BY <1>3 DEF CountNoteParts

(* An operation leaves no note that is there without parts.                *)
LEMMA SenseKept ==
  ASSUME NotesInv, MadeOfSomething, NotesHaveParts, NotesNext
  PROVE  MadeOfSomething' /\ NotesHaveParts'
  <1>1. PartTable /\ NoteTable
    BY DEF NotesInv, Tables
  <1>2. \A n \in Notes : n # None
    BY NotesAssumption
  <1>3. ASSUME NEW keys PROVE DOMAIN RekeyNotes(keys) = Notes
    BY DEF RekeyNotes
  <1>4. CASE CreateNote
    <2>1. PICK n \in Notes, c \in Lists, h \in Neighbours(TRUE), k \in 1 .. MaxPartsPerRequest :
            \E ids \in FreshParts(k), ins \in [1 .. k -> Inputs] : Create(n, c, h, ids, ins)
      BY <1>4 DEF CreateNote
    <2>2. PICK ids \in FreshParts(k), ins \in [1 .. k -> Inputs] : Create(n, c, h, ids, ins)
      BY <2>1
    <2>3. k \in Nat /\ k >= 1
      BY NotesAssumption
    <2>4. /\ InsertParts(n, ids, ins, 0, "app", now) /\ DOMAIN ids = 1 .. k
          /\ \A i, j \in DOMAIN ids : ids[i] = ids[j] => i = j
          /\ \A i \in DOMAIN ids : ids[i] \in FreeParts /\ ins[i] \in Inputs
      BY <2>2 DEF Create, FreshParts
    <2>5. 1 \in DOMAIN ids
      BY <2>3, <2>4
    <2>6. PICK p \in PlaceNote(c, n, h) : note' = InsertNoteAt(RekeyNotes(p.keys), n, c, p.key, now)
      BY <2>2 DEF Create
    <2>7. \A m \in Notes : m # n => note'[m].state = note[m].state
      BY <1>1, <1>3, <2>6, StatesKept, StatesAfterInsert
    <2> QED
      BY <1>1, <2>4, <2>5, <2>7, SenseOfInserted
  <1>5. CASE MoveNote
    <2>1. PICK n \in Notes, c \in Lists, h \in Neighbours(TRUE) : Move(n, c, h)
      BY <1>5 DEF MoveNote
    <2>2. PICK p \in PlaceNote(c, n, h) : note' = SetNoteLocation(RekeyNotes(p.keys), n, c, p.key)
      BY <2>1 DEF Move
    <2>3. part' = part
      BY <2>1 DEF Move
    <2> DEFINE rows == RekeyNotes(p.keys)
    <2> DEFINE key == p.key
    <2>4. note' = [rows EXCEPT ![n].category = c, ![n].position = key]
      BY <2>2 DEF SetNoteLocation
    <2>5. DOMAIN rows = Notes /\ \A m \in Notes : rows[m].state = note[m].state
      BY <1>1, <1>3, StatesKept
    <2> HIDE DEF rows, key
    <2>6. \A m \in Notes : note'[m].state = rows[m].state
      BY <2>4, <2>5
    <2> QED
      BY <2>3, <2>5, <2>6, SenseStays
  <1>6. CASE DismissANote \/ RestoreANote
    <2>1. PICK n \in Notes : part' = part /\ note[n].state # "absent" /\ (note' = DismissNote(n) \/ note' = RestoreNote(n))
      BY <1>6 DEF DismissANote, RestoreANote, Dismiss, Restore, GetNote
    <2>2. \A m \in Notes : m # n => note'[m] = note[m]
      BY <1>1, <2>1 DEF DismissNote, RestoreNote, NoteTable
    <2> QED
      BY <2>1, <2>2, SenseStays
  <1>7. CASE UploadFile \/ Janitor
    <2>1. part' = part /\ note' = note
      BY <1>7 DEF UploadFile, Janitor, Upload, RemoveUnused
    <2> QED
      BY <2>1, SenseStays
  <1>8. CASE DeleteNotePermanently
    <2>1. PICK n \in Notes : note' = DeleteNote(n) /\ part' = DeleteNoteParts(PartsOf(n))
      BY <1>8 DEF DeleteNotePermanently, DeletePermanently
    <2>2. note'[n].state = "absent" /\ \A m \in Notes : m # n => note'[m] = note[m]
      BY <1>1, <2>1 DEF DeleteNote, NoteTable, NoNote
    <2>3. \A p \in Parts : part'[p] = IF part[p].note = n THEN NoPart ELSE part[p]
      BY <2>1 DEF DeleteNoteParts, PartsOf
    <2>4. NoPart.note = None
      BY DEF NoPart
    <2>5. MadeOfSomething'
      BY <2>3, <2>4 DEF MadeOfSomething
    <2>6. NotesHaveParts'
      BY <2>2, <2>3 DEF NotesHaveParts, GetNote
    <2> QED
      BY <2>5, <2>6
  <1>9. CASE DeleteNotePart
    <2>1. PICK n \in Notes, p \in Parts : RemovePart(n, p)
      BY <1>9 DEF DeleteNotePart
    <2>2. note' = note /\ part[p].note = n /\ CountNoteParts(n) > 1 /\ part' = DeleteNoteParts({p})
      BY <2>1 DEF RemovePart, GetNotePart
    <2>3. \A q \in Parts : part'[q] = IF q = p THEN NoPart ELSE part[q]
      BY <2>2 DEF DeleteNoteParts
    <2>4. PICK q \in Parts : q # p /\ part[q].note = n
      BY <2>2, AnotherPart
    <2>5. NoPart.note = None
      BY DEF NoPart
    <2>6. MadeOfSomething'
      BY <2>3, <2>5 DEF MadeOfSomething
    <2>7. ASSUME NEW m \in Notes, note'[m].state # "absent" PROVE \E r \in Parts : part'[r].note = m
      <3>1. CASE m = n
        BY <2>3, <2>4, <3>1
      <3>2. CASE m # n
        <4>1. PICK r \in Parts : part[r].note = m
          BY <2>2, <2>7 DEF NotesHaveParts, GetNote
        <4> QED
          BY <2>2, <2>3, <3>2, <4>1
      <3> QED
        BY <3>1, <3>2
    <2> QED
      BY <2>6, <2>7 DEF NotesHaveParts, GetNote
  <1>10. CASE EditNotePart
    <2>1. PICK p \in Parts, t \in Texts : /\ part' = [part EXCEPT ![p].text = t, ![p].edited = now] /\ note' = note
                                          /\ part[p].kind = "text" /\ part[p].note # None
      BY <1>2, <1>10 DEF EditNotePart, EditPart, UpdatePartText, GetNotePart
    <2>2. /\ \A q \in Parts : q # p => part'[q] = part[q]
          /\ part'[p].note = part[p].note /\ part'[p].kind = "text" /\ part'[p].text = t
          /\ part'[p].file = part[p].file
      BY <1>1, <2>1 DEF PartTable, PartColumns
    <2>3. MadeOfSomething'
      BY <2>1, <2>2 DEF MadeOfSomething, WellMade
    <2>4. NotesHaveParts'
      BY <2>1, <2>2 DEF NotesHaveParts, GetNote
    <2> QED
      BY <2>3, <2>4
  <1>11. CASE AddNotePart
    <2>1. PICK n \in Notes, p \in FreeParts, in \in Inputs :
            note' = note /\ InsertParts(n, <<p>>, <<in>>, NextPartOrdinal(n), "app", now)
      BY <1>11 DEF AddNotePart, AddPart
    <2>2. DOMAIN <<p>> = {1} /\ <<in>>[1] = in /\ <<p>>[1] = p
      OBVIOUS
    <2>3. /\ \A i, j \in DOMAIN <<p>> : <<p>>[i] = <<p>>[j] => i = j
          /\ \A i \in DOMAIN <<p>> : <<p>>[i] \in FreeParts /\ <<in>>[i] \in Inputs
          /\ 1 \in DOMAIN <<p>>
      BY <2>2
    <2>4. \A m \in Notes : note'[m].state = note[m].state
      BY <2>1
    <2> QED
      BY <1>1, <2>1, <2>3, <2>4, SenseOfInserted
  <1>12. CASE MergeNotes
    <2>1. PICK target \in Notes, source \in Notes : Merge(target, source)
      BY <1>12 DEF MergeNotes
    <2> DEFINE o == NextPartOrdinal(target)
    <2>2. /\ \A p \in Parts : part'[p] = IF part[p].note = source
                                         THEN [part[p] EXCEPT !.note = target, !.ordinal = @ + o] ELSE part[p]
          /\ note' = DeleteNote(source) /\ target # source
      BY <2>1 DEF Merge, MovePartsToNote
    <2> HIDE DEF o
    <2>3. note'[source].state = "absent" /\ \A m \in Notes : m # source => note'[m] = note[m]
      BY <1>1, <2>2 DEF DeleteNote, NoteTable, NoNote
    <2>4. ASSUME NEW p \in Parts
          PROVE  /\ part[p].note # source => part'[p] = part[p]
                 /\ part[p].note = source => /\ part'[p].note = target /\ part'[p].kind = part[p].kind
                                             /\ part'[p].text = part[p].text /\ part'[p].file = part[p].file
      BY <1>1, <2>2 DEF PartTable, PartColumns
    <2>5. MadeOfSomething'
      BY <1>2, <2>4 DEF MadeOfSomething, WellMade
    <2>6. NotesHaveParts'
      BY <2>3, <2>4 DEF NotesHaveParts, GetNote
    <2> QED
      BY <2>5, <2>6
  <1>13. CASE SplitNotePart
    <2>1. PICK n \in Notes, p \in Parts, new \in Notes : Split(n, p, new)
      BY <1>13 DEF SplitNotePart
    <2>2. /\ part' = [part EXCEPT ![p].note = new, ![p].ordinal = 0]
          /\ part[p].note = n /\ CountNoteParts(n) >= 2 /\ GetNote(n) /\ ~ GetNote(new)
      BY <2>1 DEF Split, MovePartToNewNote, GetNotePart
    <2>3. PICK k \in PlaceNote(note[n].category, new, [after |-> n, before |-> None, top |-> FALSE]) :
            note' = InsertNoteAt(RekeyNotes(k.keys), new, note[n].category, k.key, part[p].created)
      BY <2>1 DEF Split
    <2>4. \A m \in Notes : m # new => note'[m].state = note[m].state
      BY <1>1, <1>3, <2>3, StatesKept, StatesAfterInsert
    <2>5. /\ \A q \in Parts : q # p => part'[q] = part[q]
          /\ part'[p].note = new /\ part'[p].kind = part[p].kind
          /\ part'[p].text = part[p].text /\ part'[p].file = part[p].file
      BY <1>1, <2>2 DEF PartTable, PartColumns
    <2>6. CountNoteParts(n) > 1
      <3>1. CountNoteParts(n) \in Nat
        <4>1. PartsOf(n) \in SUBSET Parts
          BY DEF PartsOf
        <4> QED
          BY <4>1, ReadingAssumption, FS_Subset, FS_CardinalityType DEF CountNoteParts
      <3> QED
        BY <2>2, <3>1
    <2>7. PICK q \in Parts : q # p /\ part[q].note = n
      BY <2>6, AnotherPart
    <2>8. MadeOfSomething'
      BY <1>2, <2>2, <2>5 DEF MadeOfSomething, WellMade
    <2>9. ASSUME NEW m \in Notes, note'[m].state # "absent" PROVE \E r \in Parts : part'[r].note = m
      <3>1. CASE m = new
        BY <2>5, <3>1
      <3>2. CASE m = n /\ m # new
        BY <2>5, <2>7, <3>2
      <3>3. CASE m # n /\ m # new
        <4>1. PICK r \in Parts : part[r].note = m
          BY <2>4, <2>9, <3>3 DEF NotesHaveParts, GetNote
        <4> QED
          BY <2>2, <2>5, <3>3, <4>1
      <3> QED
        BY <3>1, <3>2, <3>3
    <2> QED
      BY <2>8, <2>9 DEF NotesHaveParts, GetNote
  <1> QED
    BY <1>4, <1>5, <1>6, <1>7, <1>8, <1>9, <1>10, <1>11, <1>12, <1>13 DEF NotesNext

(* A note is in a category that exists, and lasts from when it was created.*)
IsPlaced(m) ==
  /\ note'[m].category = None \/ GetCategory(note'[m].category)
  /\ note[m].state # "absent" /\ note'[m].state # "absent" => note'[m].created = note[m].created

LEMMA SameRowIsPlaced ==
  ASSUME PlacesExist, NEW m \in Notes,
         note'[m].category = note[m].category \/ note'[m].category = None,
         note'[m].created = note[m].created \/ note'[m].state = "absent"
  PROVE  IsPlaced(m)
  BY DEF PlacesExist, IsPlaced

LEMMA NotesArePlaced ==
  ASSUME NotesInv, NotesInOrder, PlacesExist, NotesNext
  PROVE  /\ category' = category /\ page' = page
         /\ \A m \in Notes : IsPlaced(m)
  <1>1. PartTable /\ NoteTable
    BY DEF NotesInv, Tables
  <1>2. \A n \in Notes : DOMAIN note[n] = NoteColumns /\ DOMAIN note = Notes
    BY <1>1 DEF NoteTable, IsRow
  <1>3. category' = category /\ page' = page
    BY DEF NotesNext, CreateNote, MoveNote, DismissANote, RestoreANote, DeleteNotePermanently, EditNotePart, AddNotePart,
           DeleteNotePart, MergeNotes, SplitNotePart, UploadFile, Janitor, Create, Move, Dismiss, Restore,
           DeletePermanently, EditPart, AddPart, RemovePart, Merge, Split, Upload, RemoveUnused, boardVars
  <1>4. ASSUME NEW n \in Notes, NEW c \in Lists, c # None => GetCategory(c), NEW h, NEW p \in PlaceNote(c, n, h), NEW time,
               note[n].state = "absent", note' = InsertNoteAt(RekeyNotes(p.keys), n, c, p.key, time), NEW m \in Notes
        PROVE  IsPlaced(m)
    <2>1. /\ m # n => note'[m] = RekeyNotes(p.keys)[m]
          /\ note'[n] = [state |-> "active", category |-> c, position |-> p.key, created |-> time, deleted |-> 0]
      BY <1>4 DEF InsertNoteAt, RekeyNotes
    <2>2. CASE m = n
      BY <1>4, <2>1, <2>2 DEF IsPlaced
    <2>3. CASE m # n
      <3>1. RekeyNotes(p.keys)[m].category = note[m].category /\ RekeyNotes(p.keys)[m].created = note[m].created
        BY <1>1, PlacedNotes
      <3> QED
        BY <2>1, <2>3, <3>1, SameRowIsPlaced
    <2> QED
      BY <2>2, <2>3
  <1>5. ASSUME NEW m \in Notes PROVE IsPlaced(m)
    <2>1. CASE CreateNote
      <3>1. PICK n \in Notes, c \in Lists, h \in Neighbours(TRUE), k \in 1 .. MaxPartsPerRequest :
              \E ids \in FreshParts(k), ins \in [1 .. k -> Inputs] : Create(n, c, h, ids, ins)
        BY <2>1 DEF CreateNote
      <3>2. PICK ids \in FreshParts(k), ins \in [1 .. k -> Inputs] : Create(n, c, h, ids, ins)
        BY <3>1
      <3>3. PICK p \in PlaceNote(c, n, h) : note' = InsertNoteAt(RekeyNotes(p.keys), n, c, p.key, now)
        BY <3>2 DEF Create
      <3>4. note[n].state = "absent" /\ (c # None => GetCategory(c))
        BY <3>2 DEF Create, GetNote
      <3> QED
        BY <1>4, <3>3, <3>4
    <2>2. CASE MoveNote
      <3>1. PICK n \in Notes, c \in Lists, h \in Neighbours(TRUE) : Move(n, c, h)
        BY <2>2 DEF MoveNote
      <3>2. PICK p \in PlaceNote(c, n, h) : note' = SetNoteLocation(RekeyNotes(p.keys), n, c, p.key)
        BY <3>1 DEF Move
      <3> DEFINE rows == RekeyNotes(p.keys)
      <3> DEFINE key == p.key
      <3>3. note' = [rows EXCEPT ![n].category = c, ![n].position = key]
        BY <3>2 DEF SetNoteLocation
      <3>4. rows[m].category = note[m].category /\ rows[m].created = note[m].created
        BY <1>1, PlacedNotes
      <3>5. DOMAIN rows = Notes /\ IsRow(rows[m], NoteColumns)
        BY <1>1, RekeyedNotes
      <3>6. c # None => GetCategory(c)
        BY <3>1 DEF Move
      <3> HIDE DEF rows, key
      <3>7. CASE m = n
        <4>1. note'[m].category = c /\ note'[m].created = note[m].created
          BY <3>3, <3>4, <3>5, <3>7 DEF IsRow, NoteColumns
        <4> QED
          BY <3>6, <4>1 DEF IsPlaced
      <3>8. CASE m # n
        <4>1. note'[m] = rows[m]
          BY <3>3, <3>5, <3>8
        <4> QED
          BY <3>4, <4>1, SameRowIsPlaced
      <3> QED
        BY <3>7, <3>8
    <2>3. CASE DismissANote \/ RestoreANote
      <3>1. PICK n \in Notes : note' = DismissNote(n) \/ note' = RestoreNote(n)
        BY <2>3 DEF DismissANote, RestoreANote, Dismiss, Restore
      <3>2. note'[m].category = note[m].category /\ note'[m].created = note[m].created
        BY <1>2, <3>1 DEF DismissNote, RestoreNote, NoteColumns
      <3> QED
        BY <3>2, SameRowIsPlaced
    <2>4. CASE DeleteNotePermanently \/ MergeNotes
      <3>1. PICK n \in Notes : note' = DeleteNote(n)
        BY <2>4 DEF DeleteNotePermanently, MergeNotes, DeletePermanently, Merge
      <3>2. note'[m] = NoNote \/ note'[m] = note[m]
        BY <1>2, <3>1 DEF DeleteNote
      <3>3. NoNote.state = "absent" /\ NoNote.category = None
        BY DEF NoNote
      <3> QED
        BY <3>2, <3>3, SameRowIsPlaced
    <2>5. CASE EditNotePart \/ AddNotePart \/ DeleteNotePart \/ UploadFile \/ Janitor
      <3>1. note' = note
        BY <2>5 DEF EditNotePart, AddNotePart, DeleteNotePart, UploadFile, Janitor,
                    EditPart, AddPart, RemovePart, Upload, RemoveUnused
      <3> QED
        BY <3>1, SameRowIsPlaced
    <2>6. CASE SplitNotePart
      <3>1. PICK n \in Notes, p \in Parts, new \in Notes : Split(n, p, new)
        BY <2>6 DEF SplitNotePart
      <3>2. PICK k \in PlaceNote(note[n].category, new, [after |-> n, before |-> None, top |-> FALSE]) :
              note' = InsertNoteAt(RekeyNotes(k.keys), new, note[n].category, k.key, part[p].created)
        BY <3>1 DEF Split
      <3>3. note[new].state = "absent"
        BY <3>1 DEF Split, GetNote
      <3>4. note[n].category \in Lists /\ (note[n].category # None => GetCategory(note[n].category))
        BY DEF NotesInOrder, PlacesExist
      <3> QED
        BY <1>4, <3>2, <3>3, <3>4
    <2> QED
      BY <2>1, <2>2, <2>3, <2>4, <2>5, <2>6 DEF NotesNext
  <1> QED
    BY <1>3, <1>5

(* Pages keep their places when one is created or moved.                   *)
LEMMA PagesRemain ==
  ASSUME PagesInOrder, NEW g \in Pages, NEW x, NEW h, NEW p \in PlacePage(x, h),
         page' = [RekeyPages(p.keys) EXCEPT ![g] = p.key]
  PROVE  \A f \in Pages : page[f] # <<>> => page'[f] # <<>>
  <1>1. KeyList(PageKeys(x)) /\ p \in Place(PageKeys(x), h, None)
    BY ListOfPages DEF PlacePage
  <1>2. KeyList(p.keys) /\ Valid(p.key)
    BY <1>1, PlaceIs
  <1>3. p.key # <<>> /\ \A f \in DOMAIN p.keys : p.keys[f] # <<>>
    BY <1>2 DEF KeyList, Valid, Open
  <1>4. \A f \in Pages : RekeyPages(p.keys)[f] = IF f \in DOMAIN p.keys THEN p.keys[f] ELSE page[f]
    BY DEF RekeyPages
  <1>5. DOMAIN RekeyPages(p.keys) = Pages
    BY DEF RekeyPages
  <1>6. ASSUME NEW f \in Pages, page[f] # <<>> PROVE page'[f] # <<>>
    <2>1. CASE f = g
      BY <1>3, <1>5, <2>1
    <2>2. CASE f # g
      BY <1>3, <1>4, <1>5, <1>6, <2>2
    <2> QED
      BY <2>1, <2>2
  <1> QED
    BY <1>6

(* Rewriting the keys of categories leaves them on their pages.            *)
LEMMA PagesOfCategories ==
  ASSUME CategoryTable, NEW keys
  PROVE  /\ DOMAIN RekeyCategories(keys) = Categories
         /\ \A c \in Categories : /\ RekeyCategories(keys)[c].page = category[c].page
                                  /\ DOMAIN RekeyCategories(keys)[c] = CategoryColumns
  BY DEF RekeyCategories, CategoryTable, IsRow, CategoryColumns

(* Notes and categories are somewhere after the board has changed, too.    *)
LEMMA BoardStands ==
  ASSUME OrderInv, PlacesExist, OnTheBoard
  PROVE  /\ part' = part /\ history' = history
         /\ \A n \in Notes : note'[n].state = note[n].state /\ note'[n].created = note[n].created
         /\ PlacesExist'
  <1>1. NoteTable /\ CategoryTable /\ DOMAIN page = Pages /\ NotesInOrder /\ PagesInOrder
    BY DEF OrderInv, NotesInv, Tables
  <1>2. part' = part /\ history' = history
    BY DEF OnTheBoard, PostPage, PatchPage, RemovePage, PostCategory, PatchCategory, RemoveCategory,
           CreatePage, UpdatePage, DeletePage, CreateCategory, UpdateCategory, DeleteCategory, noteVars
  <1>3. None \notin Pages /\ None \notin Categories
    BY NotesAssumption
  <1>4. CASE PostPage \/ PatchPage
    <2>1. PICK g \in Pages : \E x, h : \E p \in PlacePage(x, h) : page' = [RekeyPages(p.keys) EXCEPT ![g] = p.key]
      BY <1>4, Zenon DEF PostPage, PatchPage, CreatePage, UpdatePage, InsertPage, UpdatePageKey
    <2>2. PICK x, h : \E p \in PlacePage(x, h) : page' = [RekeyPages(p.keys) EXCEPT ![g] = p.key]
      BY <2>1
    <2>6. PICK p \in PlacePage(x, h) : page' = [RekeyPages(p.keys) EXCEPT ![g] = p.key]
      BY <2>2
    <2>3. note' = note /\ category' = category
      BY <1>4 DEF PostPage, PatchPage, CreatePage, UpdatePage, noteVars
    <2>4. \A f \in Pages : page[f] # <<>> => page'[f] # <<>>
      BY <1>1, <2>6, PagesRemain
    <2>5. PlacesExist'
      BY <2>3, <2>4 DEF PlacesExist, GetCategory, GetPage
    <2> QED
      BY <1>2, <2>3, <2>5
  <1>5. CASE PostCategory \/ PatchCategory
    <2>1. note' = note /\ page' = page
      BY <1>5 DEF PostCategory, PatchCategory, CreateCategory, UpdateCategory, noteVars
    <2>2. PICK c \in Categories, g \in Pages :
            /\ GetPage(g)
            /\ \E keys, key : \/ category' = InsertCategory(RekeyCategories(keys), c, g, key)
                              \/ category' = UpdateCategoryRow(RekeyCategories(keys), c, g, key)
      BY <1>5, Zenon DEF PostCategory, PatchCategory, CreateCategory, UpdateCategory
    <2>3. PICK keys, key : \/ category' = InsertCategory(RekeyCategories(keys), c, g, key)
                           \/ category' = UpdateCategoryRow(RekeyCategories(keys), c, g, key)
      BY <2>2
    <2> DEFINE rows == RekeyCategories(keys)
    <2>4. \/ category' = [rows EXCEPT ![c] = [page |-> g, position |-> key]]
          \/ category' = [rows EXCEPT ![c].page = g, ![c].position = key]
      BY <2>3 DEF InsertCategory, UpdateCategoryRow
    <2>5. /\ DOMAIN rows = Categories
          /\ \A d \in Categories : rows[d].page = category[d].page /\ DOMAIN rows[d] = CategoryColumns
      BY <1>1, PagesOfCategories
    <2> HIDE DEF rows
    <2>6. category'[c].page = g /\ \A d \in Categories : d # c => category'[d].page = category[d].page
      BY <2>4, <2>5 DEF CategoryColumns
    <2>7. ASSUME NEW n \in Notes, note'[n].category # None PROVE category'[note'[n].category].page # None
      <3>1. note[n].category \in Categories /\ category[note[n].category].page # None
        BY <2>1, <2>7, <1>1 DEF PlacesExist, GetCategory, NotesInOrder, Lists
      <3> QED
        BY <1>3, <2>1, <2>6, <3>1
    <2>8. ASSUME NEW d \in Categories, category'[d].page # None
          PROVE  category'[d].page \in Pages /\ page'[category'[d].page] # <<>>
      <3>1. CASE d = c
        BY <2>1, <2>2, <2>6, <3>1 DEF GetPage
      <3>2. CASE d # c
        BY <2>1, <2>6, <2>8, <3>2 DEF PlacesExist, GetCategory, GetPage
      <3> QED
        BY <3>1, <3>2
    <2> QED
      BY <1>2, <2>1, <2>7, <2>8 DEF PlacesExist, GetCategory, GetPage
  <1>6. ASSUME NEW cs, note' = ReleaseNotes(cs), category' = DeleteCategories(cs),
               \A c \in Categories \ cs : category[c].page # None => page'[category[c].page] = page[category[c].page]
        PROVE  /\ \A n \in Notes : note'[n].state = note[n].state /\ note'[n].created = note[n].created
               /\ PlacesExist'
    <2>1. ASSUME NEW n \in Notes
          PROVE  /\ note'[n].state = note[n].state /\ note'[n].created = note[n].created
                 /\ note[n].category \in cs => note'[n].category = None
                 /\ note[n].category \notin cs => note'[n] = note[n]
      <3>1. note'[n] = IF n \in NoteIDsInCategories(cs)
                       THEN [note EXCEPT ![n].category = None, ![n].position = <<>>][n] ELSE note[n]
        BY <1>6 DEF ReleaseNotes, SetNoteLocation
      <3>2. DOMAIN note = Notes /\ DOMAIN note[n] = NoteColumns
        BY <1>1 DEF NoteTable, IsRow
      <3>3. n \in NoteIDsInCategories(cs) <=> note[n].category \in cs
        BY DEF NoteIDsInCategories
      <3>4. CASE n \in NoteIDsInCategories(cs)
        BY <3>1, <3>2, <3>3, <3>4 DEF NoteColumns
      <3>5. CASE n \notin NoteIDsInCategories(cs)
        BY <3>1, <3>3, <3>5
      <3> QED
        BY <3>4, <3>5
    <2>2. \A c \in Categories : category'[c] = IF c \in cs THEN [page |-> None, position |-> <<>>] ELSE category[c]
      BY <1>6 DEF DeleteCategories
    <2>3. ASSUME NEW n \in Notes, note'[n].category # None PROVE category'[note'[n].category].page # None
      <3>1. note'[n] = note[n] /\ note[n].category \notin cs
        BY <2>1, <2>3
      <3>2. note[n].category \in Categories /\ category[note[n].category].page # None
        BY <1>1, <2>3, <3>1 DEF PlacesExist, GetCategory, NotesInOrder, Lists
      <3> QED
        BY <2>2, <3>1, <3>2
    <2>4. ASSUME NEW c \in Categories, category'[c].page # None
          PROVE  category'[c].page \in Pages /\ page'[category'[c].page] # <<>>
      <3>1. c \notin cs /\ category'[c] = category[c]
        BY <2>2, <2>4
      <3>2. category[c].page \in Pages /\ page[category[c].page] # <<>>
        BY <2>4, <3>1 DEF PlacesExist, GetCategory, GetPage
      <3> QED
        BY <1>6, <2>4, <3>1, <3>2
    <2> QED
      BY <2>1, <2>3, <2>4 DEF PlacesExist, GetCategory, GetPage
  <1>7. CASE RemoveCategory
    <2>1. PICK c \in Categories : note' = ReleaseNotes({c}) /\ category' = DeleteCategories({c}) /\ page' = page
      BY <1>7 DEF RemoveCategory, DeleteCategory
    <2> QED
      BY <1>2, <1>6, <2>1
  <1>8. CASE RemovePage
    <2>1. PICK g \in Pages : /\ note' = ReleaseNotes(CategoryIDsOfPage(g))
                             /\ category' = DeleteCategories(CategoryIDsOfPage(g))
                             /\ page' = [page EXCEPT ![g] = <<>>]
      BY <1>8 DEF RemovePage, DeletePage, DeletePageRow
    <2>2. \A c \in Categories \ CategoryIDsOfPage(g) : category[c].page # g
      BY DEF CategoryIDsOfPage
    <2>3. \A c \in Categories \ CategoryIDsOfPage(g) :
            category[c].page # None => page'[category[c].page] = page[category[c].page]
      BY <1>1, <2>1, <2>2 DEF PlacesExist, GetCategory
    <2> QED
      BY <1>2, <1>6, <2>1, <2>3
  <1> QED
    BY <1>4, <1>5, <1>7, <1>8 DEF OnTheBoard

(* So an account stays one of which sense can be made, as time passes.     *)
Lasting == \A n \in Notes : note[n].state # "absent" /\ note'[n].state # "absent" => note'[n].created = note[n].created

Operation == NotesNext \/ OnTheBoard \/ Tick

LEMMA AccountKept == Account /\ Operation => Account' /\ Lasting
  <1> SUFFICES ASSUME Account, Operation PROVE Account' /\ Lasting
    OBVIOUS
  <1>1. /\ OrderInv /\ HistoryTable /\ TextsAreShown /\ MadeOfSomething /\ NotesHaveParts /\ PlacesExist
        /\ NotesInv /\ NotesInOrder
    BY DEF Account, OrderInv
  <1>2. OrderInv'
    BY <1>1, AccountOrder, TimeOrder DEF Operation
  <1>3. CASE NotesNext
    <2>1. DOMAIN history' = Parts /\ \A p \in Parts : AppStep(p)
      BY <1>1, <1>3, AppTexts
    <2>2. ASSUME NEW p \in Parts PROVE VersionsOK(p)' /\ TextShown(p)'
      <3>1. VersionsOK(p) /\ TextShown(p)
        BY <1>1 DEF HistoryTable, TextsAreShown
      <3>2. Ordinary(p)
        BY <2>1 DEF AppStep, Ordinary
      <3> QED
        BY <3>1, <3>2, VersionsStay, TextStays
    <2>3. HistoryTable' /\ TextsAreShown'
      BY <2>1, <2>2 DEF HistoryTable, TextsAreShown
    <2>4. MadeOfSomething' /\ NotesHaveParts'
      BY <1>1, <1>3, SenseKept
    <2>5. category' = category /\ page' = page /\ \A m \in Notes : IsPlaced(m)
      BY <1>1, <1>3, NotesArePlaced
    <2>6. PlacesExist'
      BY <1>1, <2>5 DEF PlacesExist, IsPlaced, GetCategory, GetPage
    <2>7. Lasting
      BY <2>5 DEF Lasting, IsPlaced
    <2> QED
      BY <1>2, <2>3, <2>4, <2>6, <2>7 DEF Account
  <1>4. CASE OnTheBoard
    <2>1. /\ part' = part /\ history' = history /\ PlacesExist'
          /\ \A n \in Notes : note'[n].state = note[n].state /\ note'[n].created = note[n].created
      BY <1>1, <1>4, BoardStands
    <2>2. HistoryTable' /\ TextsAreShown'
      BY <1>1, <2>1 DEF HistoryTable, VersionsOK, TextsAreShown, TextShown, InHistory
    <2>3. MadeOfSomething' /\ NotesHaveParts'
      BY <1>1, <2>1, SenseStays
    <2> QED
      BY <1>2, <2>1, <2>2, <2>3 DEF Account, Lasting
  <1>5. CASE Tick
    <2>1. UNCHANGED <<note, part, history, category, page, file>>
      BY <1>5 DEF Tick, noteVars, boardVars
    <2>2. HistoryTable' /\ TextsAreShown'
      BY <1>1, <2>1 DEF HistoryTable, VersionsOK, TextsAreShown, TextShown, InHistory
    <2>3. MadeOfSomething' /\ NotesHaveParts' /\ PlacesExist'
      BY <1>1, <2>1 DEF MadeOfSomething, NotesHaveParts, PlacesExist, GetNote, GetCategory, GetPage
    <2> QED
      BY <1>2, <2>1, <2>2, <2>3 DEF Account, Lasting
  <1> QED
    BY <1>3, <1>4, <1>5 DEF Operation

LEMMA AccountStays == Account /\ UNCHANGED vars => Account'
  <1> SUFFICES ASSUME Account, UNCHANGED vars PROVE Account'
    OBVIOUS
  <1>1. UNCHANGED <<note, part, history, category, page, file>>
    BY DEF vars, noteVars, boardVars
  <1>2. OrderInv'
    BY StoredOrder DEF Account
  <1> QED
    BY <1>1, <1>2 DEF Account, HistoryTable, VersionsOK, TextsAreShown, TextShown, InHistory, MadeOfSomething,
                      NotesHaveParts, PlacesExist, GetNote, GetCategory, GetPage

LEMMA AccountBegins == Init => Account
  <1> SUFFICES ASSUME Init PROVE Account
    OBVIOUS
  <1>1. OrderInv
    BY OrderInit
  <1>2. NoNote.state = "absent" /\ NoNote.category = None /\ NoPart.note = None
    BY DEF NoNote, NoPart
  <1>3. /\ \A n \in Notes : note[n] = NoNote
        /\ \A p \in Parts : part[p] = NoPart /\ history[p] = <<>>
        /\ \A c \in Categories : category[c].page = None
        /\ DOMAIN history = Parts
    BY DEF Init
  <1>4. IsSeq(<<>>) /\ DOMAIN <<>> = {}
    BY DEF IsSeq
  <1> QED
    BY <1>1, <1>2, <1>3, <1>4 DEF Account, HistoryTable, VersionsOK, TextsAreShown, TextShown, MadeOfSomething,
                                  NotesHaveParts, PlacesExist, GetNote, GetCategory

-----------------------------------------------------------------------------
(* 6. Reading an account while it changes.  A snapshot is complete in what *)
(* refers to what: notes to their place, parts to notes and files, texts   *)
(* to the history; and notes have the times results are sorted by.         *)
Existing(v) == {n \in Notes : v.note[n].state # "absent"}

Complete(v) ==
  /\ \A n \in Notes :
       /\ v.note[n].created \in Nat
       /\ v.note[n].state # "absent" => \E p \in Parts : v.part[p].note = n
       /\ v.note[n].category # None =>
            v.note[n].category \in Categories /\ v.category[v.note[n].category].page # None
  /\ \A c \in Categories : v.category[c].page # None => v.category[c].page \in Pages /\ v.page[v.category[c].page] # <<>>
  /\ \A p \in Parts : v.part[p].note # None =>
       /\ WellMade(v.part[p])
       /\ v.part[p].file # None => v.file[v.part[p].file] = "ready"
       /\ v.part[p].text # None => \E i \in DOMAIN v.history[p] : v.history[p][i].text = v.part[p].text

LEMMA AccountIsComplete == Account => Complete(Present)
  <1> SUFFICES ASSUME Account PROVE Complete(Present)
    OBVIOUS
  <1>1. /\ NotesInOrder /\ FilesBelongToOnePart /\ TextsAreShown /\ MadeOfSomething /\ NotesHaveParts /\ PlacesExist
    BY DEF Account, OrderInv, NotesInv
  <1>2. /\ Present.note = note /\ Present.part = part /\ Present.history = history
        /\ Present.category = category /\ Present.page = page /\ Present.file = file
    BY DEF Present
  <1>3. ASSUME NEW n \in Notes
        PROVE  /\ note[n].created \in Nat
               /\ note[n].state # "absent" => \E p \in Parts : part[p].note = n
               /\ note[n].category # None => note[n].category \in Categories /\ category[note[n].category].page # None
    BY <1>1 DEF NotesInOrder, NotesHaveParts, GetNote, PlacesExist, GetCategory, Lists
  <1>4. \A c \in Categories : category[c].page # None => category[c].page \in Pages /\ page[category[c].page] # <<>>
    BY <1>1 DEF PlacesExist, GetCategory, GetPage
  <1>5. ASSUME NEW p \in Parts, part[p].note # None
        PROVE  /\ WellMade(part[p])
               /\ part[p].file # None => file[part[p].file] = "ready"
               /\ part[p].text # None => \E i \in DOMAIN history[p] : history[p][i].text = part[p].text
    <2>1. WellMade(part[p])
      BY <1>1, <1>5 DEF MadeOfSomething
    <2>2. part[p].file # None => file[part[p].file] = "ready"
      BY <1>1, <1>5 DEF FilesBelongToOnePart, GetAttachment
    <2>3. part[p].text # None => part[p].kind = "text"
      BY <2>1 DEF WellMade
    <2>4. part[p].text # None => \E i \in DOMAIN history[p] : history[p][i].text = part[p].text
      BY <1>1, <1>5, <2>3 DEF TextsAreShown, TextShown, InHistory
    <2> QED
      BY <2>1, <2>2, <2>4
  <1> HIDE DEF Present
  <1> QED
    BY <1>2, <1>3, <1>4, <1>5 DEF Complete

(* Any operation of another device, with or without a request under way.   *)
Meanwhile == Operation /\ UNCHANGED requestVars /\ Noticed

LEMMA WritesAreOperations == WriteMeanwhile => Meanwhile
  BY DEF WriteMeanwhile, Meanwhile, Operation, NotesNext, OnTheBoard, requestVars

(* Operations keep the account in order; requests that read write nothing. *)
LEMMA AccountWritten ==
  ASSUME Account, Meanwhile
  PROVE  Account' /\ Lasting
  BY AccountKept DEF Meanwhile

LEMMA ReadersLeaveAccount ==
  ASSUME ReadingNext, ~ WriteMeanwhile
  PROVE  UNCHANGED boardSpecVars
  BY DEF ReadingNext, SearchNotes, SearchFirst, SearchNext, LoadNotes, WithParts, AttachLocations, ExportMyData, Start,
         WritePages, WriteCategories, WriteNotes, WriteParts, WriteVersions, CopyFiles, CopyFile, FinishExport, Close

LEMMA AccountRead == Account /\ [ReadingNext \/ Meanwhile]_readingVars => Account'
  <1> SUFFICES ASSUME Account, [ReadingNext \/ Meanwhile]_readingVars PROVE Account'
    OBVIOUS
  <1>1. CASE Meanwhile
    BY <1>1, AccountWritten
  <1>2. CASE UNCHANGED boardSpecVars
    BY <1>2, AccountStays DEF boardSpecVars
  <1> QED
    BY <1>1, <1>2, ReadersLeaveAccount, WritesAreOperations DEF readingVars

-----------------------------------------------------------------------------
(* Exporting: the notes from the least one on, the parts and the texts of  *)
(* all but the batch that is being read, and the files the parts name.     *)
OutColumns == {"pages", "categories", "notes", "parts", "versions", "places", "batch", "files", "open", "copied"}

NotesRead ==
  /\ DOMAIN out.notes \subseteq Existing(snap) /\ out.batch \subseteq DOMAIN out.notes
  /\ \A n \in DOMAIN out.notes : out.notes[n] = snap.note[n]
  /\ \A n \in DOMAIN out.notes, m \in Existing(snap) : m < n => m \in DOMAIN out.notes
  /\ step \in {"files", "whole"} => Existing(snap) \subseteq DOMAIN out.notes

PartsRead ==
  /\ DOMAIN out.parts \subseteq Parts
  /\ \A p \in DOMAIN out.parts : out.parts[p] = snap.part[p] /\ snap.part[p].note \in DOMAIN out.notes
  /\ \A p \in DOMAIN out.parts : snap.part[p].file # None => snap.part[p].file \in out.files
  /\ \A p \in Parts : snap.part[p].note \in DOMAIN out.notes =>
       p \in DOMAIN out.parts \/ (step = "parts" /\ snap.part[p].note \in out.batch)

VersionsRead ==
  /\ \A p \in DOMAIN out.versions : out.versions[p] = snap.history[p]
  /\ \A p \in DOMAIN out.parts : p \in DOMAIN out.versions \/ (step = "versions" /\ snap.part[p].note \in out.batch)

Exporting == {"categories", "notes", "parts", "versions", "files", "whole"}

ExportInv ==
  /\ DOMAIN out = OutColumns
  /\ step \in {"idle", "pages"} \cup Exporting => ask = None
  /\ step \in Exporting =>
       /\ Complete(snap) /\ stayed \subseteq Existing(snap)
       /\ out.pages = ExportPages(snap)
       /\ step # "categories" => out.categories = ExportCategories(snap)
       /\ NotesRead /\ PartsRead /\ VersionsRead
       /\ step = "whole" => out.files = out.copied

(* The notes of the next batch follow on those that were read; when there  *)
(* are none, all have been read.                                           *)
LEMMA NextBatch ==
  ASSUME NEW v, NEW read, read \subseteq Existing(v),
         \A n \in read, m \in Existing(v) : m < n => m \in read
  PROVE  LET rows == ExportNotes(v, read)
         IN  /\ DOMAIN rows \subseteq Existing(v) /\ \A n \in DOMAIN rows : rows[n] = v.note[n]
             /\ \A n \in DOMAIN rows, m \in Existing(v) : m < n => m \in DOMAIN rows \/ m \in read
             /\ DOMAIN rows = {} => Existing(v) \subseteq read
  <1> DEFINE left == {n \in Notes : v.note[n].state # "absent" /\ \A m \in read : n > m}
  <1> DEFINE Lower(n) == {m \in left : m < n}
  <1> DEFINE next == {n \in left : Cardinality(Lower(n)) < Batch}
  <1> DEFINE rows == ExportNotes(v, read)
  <1>1. DOMAIN rows = next /\ \A n \in next : rows[n] = v.note[n]
    BY DEF ExportNotes, RowsOf
  <1>2. left \subseteq Existing(v) /\ Existing(v) \subseteq Nat /\ Batch \in Nat \ {0}
    BY NotesAssumption, ReadingAssumption DEF Existing
  <1>3. ASSUME NEW m \in Existing(v) PROVE m \in left \/ m \in read
    <2> SUFFICES ASSUME m \notin left PROVE m \in read
      OBVIOUS
    <2>1. PICK n \in read : ~ (m < n) => m = n
      <3>1. PICK n \in read : ~ (m > n)
        BY <1>3 DEF Existing
      <3> QED
        BY <1>2, <3>1
    <2> QED
      BY <2>1
  <1>4. IsFiniteSet(left)
    <2>1. left \in SUBSET Notes
      OBVIOUS
    <2> QED
      BY <2>1, BoardAssumption, FS_Subset
  <1>5. ASSUME NEW n \in left
        PROVE  /\ Lower(n) \in SUBSET left /\ IsFiniteSet(Lower(n)) /\ Cardinality(Lower(n)) \in Nat
    <2>1. Lower(n) \in SUBSET left
      OBVIOUS
    <2> QED
      BY <1>4, <2>1, FS_Subset, FS_CardinalityType
  <1>6. ASSUME NEW n \in next, NEW m \in left, m < n PROVE m \in next
    <2>1. n \in left /\ Cardinality(Lower(n)) < Batch
      OBVIOUS
    <2>2. Lower(m) \in SUBSET Lower(n)
      BY <1>2, <1>6, <2>1
    <2>3. Cardinality(Lower(m)) <= Cardinality(Lower(n))
      BY <1>5, <2>1, <2>2, FS_Subset
    <2>4. Cardinality(Lower(m)) \in Nat /\ Cardinality(Lower(n)) \in Nat
      BY <1>5, <2>1
    <2> HIDE DEF left, Lower
    <2>5. Cardinality(Lower(m)) < Batch
      BY <1>2, <2>1, <2>3, <2>4
    <2> QED
      BY <2>5
  <1>7. next = {} => left = {}
    <2> SUFFICES ASSUME left # {} PROVE next # {}
      OBVIOUS
    <2>1. left \subseteq Nat
      BY <1>2
    <2>2. PICK l \in left : \A k \in left : l <= k
      <3> HIDE DEF left
      <3> QED
        BY <2>1, LeastNumber
    <2>3. Lower(l) = {}
      BY <2>1, <2>2
    <2>4. Cardinality(Lower(l)) = 0
      BY <2>3, FS_EmptySet
    <2>5. Cardinality(Lower(l)) < Batch
      BY <1>2, <2>4
    <2> QED
      BY <2>5
  <1> HIDE DEF left, Lower, rows
  <1>8. next \subseteq left
    OBVIOUS
  <1> HIDE DEF next
  <1>9. DOMAIN rows \subseteq Existing(v) /\ \A n \in DOMAIN rows : rows[n] = v.note[n]
    BY <1>1, <1>2, <1>8
  <1>10. \A n \in DOMAIN rows, m \in Existing(v) : m < n => m \in DOMAIN rows \/ m \in read
    BY <1>1, <1>3, <1>6, <1>8
  <1>11. DOMAIN rows = {} => Existing(v) \subseteq read
    BY <1>1, <1>3, <1>7
  <1> QED
    BY <1>9, <1>10, <1>11 DEF rows

LEMMA ExportBegins ==
  ASSUME Account, ExportInv, WritePages
  PROVE  ExportInv'
  <1>1. Complete(Present)
    BY AccountIsComplete
  <1>2. /\ step' = "categories" /\ snap' = Present /\ ask' = None
        /\ out' = [Nothing EXCEPT !.pages = ExportPages(Present)] /\ stayed' = {n \in Notes : GetNote(n)}
    BY DEF WritePages, ExportInv, Exporting
  <1>3. /\ DOMAIN out' = OutColumns /\ out'.pages = ExportPages(Present) /\ out'.notes = <<>> /\ out'.parts = <<>>
        /\ out'.versions = <<>> /\ out'.batch = {}
    BY <1>2 DEF Nothing, OutColumns
  <1>4. DOMAIN <<>> = {}
    OBVIOUS
  <1>5. stayed' \subseteq Existing(snap')
    BY <1>2 DEF Existing, Present, GetNote
  <1>6. NotesRead' /\ PartsRead' /\ VersionsRead'
    BY <1>2, <1>3, <1>4 DEF NotesRead, PartsRead, VersionsRead
  <1> QED
    BY <1>1, <1>2, <1>3, <1>5, <1>6 DEF ExportInv

LEMMA ExportReadsCategories ==
  ASSUME ExportInv, WriteCategories
  PROVE  ExportInv'
  <1>1. /\ step = "categories" /\ step' = "notes" /\ snap' = snap /\ ask' = ask /\ stayed' = stayed
        /\ out' = [out EXCEPT !.categories = ExportCategories(snap)]
    BY DEF WriteCategories, View
  <1>2. step \in Exporting /\ step' \in Exporting
    BY <1>1 DEF Exporting
  <1>3. /\ DOMAIN out = OutColumns /\ ask = None /\ Complete(snap) /\ stayed \subseteq Existing(snap)
        /\ out.pages = ExportPages(snap) /\ NotesRead /\ PartsRead /\ VersionsRead
    BY <1>2 DEF ExportInv
  <1>4. /\ DOMAIN out' = OutColumns /\ out'.categories = ExportCategories(snap) /\ out'.pages = out.pages
        /\ out'.notes = out.notes /\ out'.parts = out.parts /\ out'.versions = out.versions
        /\ out'.batch = out.batch /\ out'.files = out.files
    BY <1>1, <1>3 DEF OutColumns
  <1>5. NotesRead' /\ PartsRead' /\ VersionsRead'
    BY <1>1, <1>3, <1>4 DEF NotesRead, PartsRead, VersionsRead
  <1> QED
    BY <1>1, <1>3, <1>4, <1>5 DEF ExportInv

LEMMA ExportReadsNotes ==
  ASSUME ExportInv, WriteNotes
  PROVE  ExportInv'
  <1> DEFINE rows == ExportNotes(snap, DOMAIN out.notes)
  <1>1. /\ step = "notes" /\ snap' = snap /\ ask' = ask /\ stayed' = stayed
        /\ step' = IF DOMAIN rows = {} THEN "files" ELSE "parts"
        /\ out' = [out EXCEPT !.batch = DOMAIN rows, !.notes = With(rows, @)]
    BY DEF WriteNotes, View
  <1>2. step \in Exporting
    BY <1>1 DEF Exporting
  <1>3. /\ DOMAIN out = OutColumns /\ ask = None /\ Complete(snap) /\ stayed \subseteq Existing(snap)
        /\ out.pages = ExportPages(snap) /\ out.categories = ExportCategories(snap)
        /\ NotesRead /\ PartsRead /\ VersionsRead
    BY <1>1, <1>2 DEF ExportInv
  <1>4. /\ DOMAIN rows \subseteq Existing(snap) /\ \A n \in DOMAIN rows : rows[n] = snap.note[n]
        /\ \A n \in DOMAIN rows, m \in Existing(snap) : m < n => m \in DOMAIN rows \/ m \in DOMAIN out.notes
        /\ DOMAIN rows = {} => Existing(snap) \subseteq DOMAIN out.notes
    BY <1>3, NextBatch DEF NotesRead
  <1> HIDE DEF rows
  <1>5. /\ DOMAIN out' = OutColumns /\ out'.categories = out.categories /\ out'.pages = out.pages
        /\ out'.notes = With(rows, out.notes) /\ out'.parts = out.parts /\ out'.versions = out.versions
        /\ out'.batch = DOMAIN rows /\ out'.files = out.files
    BY <1>1, <1>3 DEF OutColumns
  <1>6. /\ DOMAIN out'.notes = DOMAIN rows \cup DOMAIN out.notes
        /\ \A n \in DOMAIN out'.notes : out'.notes[n] = rows[n] \/ out'.notes[n] = out.notes[n]
        /\ \A n \in DOMAIN out'.notes : n \in DOMAIN rows \/ out'.notes[n] = out.notes[n]
        /\ \A n \in DOMAIN rows : out'.notes[n] = rows[n]
    BY <1>5 DEF With
  <1>7. NotesRead'
    <2>1. DOMAIN out'.notes \subseteq Existing(snap) /\ out'.batch \subseteq DOMAIN out'.notes
      BY <1>3, <1>4, <1>5, <1>6 DEF NotesRead
    <2>2. \A n \in DOMAIN out'.notes : out'.notes[n] = snap.note[n]
      BY <1>3, <1>4, <1>6 DEF NotesRead
    <2>3. \A n \in DOMAIN out'.notes, m \in Existing(snap) : m < n => m \in DOMAIN out'.notes
      BY <1>3, <1>4, <1>6 DEF NotesRead
    <2>4. step' \in {"files", "whole"} => Existing(snap) \subseteq DOMAIN out'.notes
      BY <1>1, <1>4, <1>6
    <2> QED
      BY <1>1, <2>1, <2>2, <2>3, <2>4 DEF NotesRead
  <1>8. PartsRead'
    <2>1. \A p \in DOMAIN out.parts : snap.part[p].note \in DOMAIN out'.notes
      BY <1>3, <1>6 DEF PartsRead
    <2>2. ASSUME NEW p \in Parts, snap.part[p].note \in DOMAIN out'.notes
          PROVE  p \in DOMAIN out.parts \/ (step' = "parts" /\ snap.part[p].note \in out'.batch)
      <3>1. CASE snap.part[p].note \in DOMAIN out.notes
        BY <1>1, <1>3, <3>1 DEF PartsRead
      <3>2. CASE snap.part[p].note \in DOMAIN rows
        BY <1>1, <1>5, <3>2
      <3> QED
        BY <1>6, <2>2, <3>1, <3>2
    <2> QED
      BY <1>1, <1>3, <1>5, <2>1, <2>2 DEF PartsRead
  <1>9. VersionsRead'
    BY <1>1, <1>3, <1>5 DEF VersionsRead
  <1> QED
    BY <1>1, <1>3, <1>5, <1>7, <1>8, <1>9 DEF ExportInv

LEMMA ExportReadsParts ==
  ASSUME ExportInv, WriteParts
  PROVE  ExportInv'
  <1> DEFINE rows == ExportParts(snap, out.batch)
  <1> DEFINE used == {rows[p].file : p \in DOMAIN rows} \ {None}
  <1>1. /\ step = "parts" /\ step' = "versions" /\ snap' = snap /\ ask' = ask /\ stayed' = stayed
        /\ out' = [out EXCEPT !.parts = With(rows, @), !.files = @ \cup ExportAttachmentInfo(snap, used)]
    BY DEF WriteParts, View
  <1>2. step \in Exporting
    BY <1>1 DEF Exporting
  <1>3. /\ DOMAIN out = OutColumns /\ ask = None /\ Complete(snap) /\ stayed \subseteq Existing(snap)
        /\ out.pages = ExportPages(snap) /\ out.categories = ExportCategories(snap)
        /\ NotesRead /\ PartsRead /\ VersionsRead
    BY <1>1, <1>2 DEF ExportInv
  <1>4. /\ \A p \in DOMAIN rows : p \in Parts /\ snap.part[p].note \in out.batch /\ rows[p] = snap.part[p]
        /\ \A p \in Parts : snap.part[p].note \in out.batch => p \in DOMAIN rows
    BY DEF ExportParts, ListNoteParts, RowsOf, PartsIn
  <1>5. ASSUME NEW p \in DOMAIN rows, snap.part[p].file # None
        PROVE  snap.part[p].file \in ExportAttachmentInfo(snap, used)
    <2>1. snap.part[p].file \in used
      BY <1>4, <1>5
    <2>2. snap.part[p].note # None
      BY <1>3, <1>4, NotesAssumption DEF NotesRead, Existing
    <2>3. snap.file[snap.part[p].file] = "ready"
      BY <1>3, <1>4, <1>5, <2>2 DEF Complete
    <2> HIDE DEF used
    <2> QED
      BY <2>1, <2>3 DEF ExportAttachmentInfo
  <1> HIDE DEF rows, used
  <1>6. /\ DOMAIN out' = OutColumns /\ out'.categories = out.categories /\ out'.pages = out.pages
        /\ out'.notes = out.notes /\ out'.parts = With(rows, out.parts) /\ out'.versions = out.versions
        /\ out'.batch = out.batch /\ out'.files = out.files \cup ExportAttachmentInfo(snap, used)
    BY <1>1, <1>3 DEF OutColumns
  <1>7. /\ DOMAIN out'.parts = DOMAIN rows \cup DOMAIN out.parts
        /\ \A p \in DOMAIN rows : out'.parts[p] = rows[p]
        /\ \A p \in DOMAIN out'.parts : p \in DOMAIN rows \/ out'.parts[p] = out.parts[p]
    BY <1>6 DEF With
  <1>8. NotesRead'
    BY <1>1, <1>3, <1>6 DEF NotesRead
  <1>9. PartsRead'
    <2>1. DOMAIN out'.parts \subseteq Parts
      BY <1>3, <1>4, <1>7 DEF PartsRead
    <2>2. \A p \in DOMAIN out'.parts : out'.parts[p] = snap.part[p] /\ snap.part[p].note \in DOMAIN out'.notes
      BY <1>3, <1>4, <1>6, <1>7 DEF PartsRead, NotesRead
    <2>3. \A p \in DOMAIN out'.parts : snap.part[p].file # None => snap.part[p].file \in out'.files
      BY <1>3, <1>5, <1>6, <1>7 DEF PartsRead
    <2>4. \A p \in Parts : snap.part[p].note \in DOMAIN out'.notes => p \in DOMAIN out'.parts
      BY <1>3, <1>4, <1>6, <1>7 DEF PartsRead
    <2> QED
      BY <1>1, <2>1, <2>2, <2>3, <2>4 DEF PartsRead
  <1>10. VersionsRead'
    BY <1>1, <1>3, <1>4, <1>6, <1>7 DEF VersionsRead
  <1> QED
    BY <1>1, <1>3, <1>6, <1>8, <1>9, <1>10 DEF ExportInv

LEMMA ExportReadsVersions ==
  ASSUME ExportInv, WriteVersions
  PROVE  ExportInv'
  <1> DEFINE rows == ExportVersions(snap, out.batch)
  <1>1. /\ step = "versions" /\ step' = "notes" /\ snap' = snap /\ ask' = ask /\ stayed' = stayed
        /\ out' = [out EXCEPT !.versions = With(rows, @)]
    BY DEF WriteVersions, View
  <1>2. step \in Exporting
    BY <1>1 DEF Exporting
  <1>3. /\ DOMAIN out = OutColumns /\ ask = None /\ Complete(snap) /\ stayed \subseteq Existing(snap)
        /\ out.pages = ExportPages(snap) /\ out.categories = ExportCategories(snap)
        /\ NotesRead /\ PartsRead /\ VersionsRead
    BY <1>1, <1>2 DEF ExportInv
  <1>4. /\ \A p \in DOMAIN rows : rows[p] = snap.history[p]
        /\ \A p \in Parts : snap.part[p].note \in out.batch => p \in DOMAIN rows
    BY DEF ExportVersions, RowsOf, PartsIn
  <1> HIDE DEF rows
  <1>5. /\ DOMAIN out' = OutColumns /\ out'.categories = out.categories /\ out'.pages = out.pages
        /\ out'.notes = out.notes /\ out'.parts = out.parts /\ out'.versions = With(rows, out.versions)
        /\ out'.batch = out.batch /\ out'.files = out.files
    BY <1>1, <1>3 DEF OutColumns
  <1>6. /\ DOMAIN out'.versions = DOMAIN rows \cup DOMAIN out.versions
        /\ \A p \in DOMAIN rows : out'.versions[p] = rows[p]
        /\ \A p \in DOMAIN out'.versions : p \in DOMAIN rows \/ out'.versions[p] = out.versions[p]
    BY <1>5 DEF With
  <1>7. NotesRead' /\ PartsRead'
    BY <1>1, <1>3, <1>5 DEF NotesRead, PartsRead
  <1>8. VersionsRead'
    BY <1>1, <1>3, <1>4, <1>5, <1>6 DEF VersionsRead, PartsRead
  <1> QED
    BY <1>1, <1>3, <1>5, <1>7, <1>8 DEF ExportInv

(* Files are copied one after the other; an export ends when all are.      *)
LEMMA ExportCopies ==
  ASSUME ExportInv, CopyFiles \/ FinishExport
  PROVE  ExportInv'
  <1>1. /\ step = "files" /\ snap' = snap /\ ask' = ask /\ stayed' = stayed
        /\ step' \in {"files", "cut"} \/ (step' = "whole" /\ out.files = out.copied /\ out' = out)
    BY DEF CopyFiles, CopyFile, OpenFile, ReadFile, CutShort, FinishExport
  <1>2. step \in Exporting /\ "cut" \notin Exporting \cup {"idle", "pages"}
    BY <1>1 DEF Exporting
  <1>3. /\ DOMAIN out = OutColumns /\ ask = None /\ Complete(snap) /\ stayed \subseteq Existing(snap)
        /\ out.pages = ExportPages(snap) /\ out.categories = ExportCategories(snap)
        /\ NotesRead /\ PartsRead /\ VersionsRead
    BY <1>1, <1>2 DEF ExportInv
  <1>4. \/ out' = out
        \/ \E f : out' = [out EXCEPT !.open = f]
        \/ \E f : out' = [out EXCEPT !.open = None, !.copied = @ \cup {f}]
    BY DEF CopyFiles, CopyFile, OpenFile, ReadFile, FinishExport
  <1>5. /\ DOMAIN out' = OutColumns /\ out'.categories = out.categories /\ out'.pages = out.pages
        /\ out'.notes = out.notes /\ out'.parts = out.parts /\ out'.versions = out.versions
        /\ out'.batch = out.batch /\ out'.files = out.files
    BY <1>3, <1>4 DEF OutColumns
  <1>6. CASE step' \in {"files", "whole"}
    <2>1. NotesRead' /\ PartsRead' /\ VersionsRead'
      BY <1>1, <1>3, <1>5, <1>6 DEF NotesRead, PartsRead, VersionsRead
    <2>2. step' = "whole" => out'.files = out'.copied
      BY <1>1
    <2> QED
      BY <1>1, <1>3, <1>5, <1>6, <2>1, <2>2 DEF ExportInv
  <1>7. CASE step' = "cut"
    BY <1>2, <1>5, <1>7 DEF ExportInv
  <1> QED
    BY <1>1, <1>6, <1>7

(* Other requests, and what other devices write, do not disturb an export. *)
LEMMA ExportUndisturbed ==
  ASSUME ExportInv, Meanwhile \/ UNCHANGED readingVars
  PROVE  ExportInv'
  <1>1. UNCHANGED <<step, snap, ask, out>>
    BY DEF Meanwhile, requestVars, readingVars
  <1>2. ask = None => stayed' \subseteq stayed
    BY DEF Meanwhile, Noticed, readingVars
  <1> QED
    BY <1>1, <1>2 DEF ExportInv, NotesRead, PartsRead, VersionsRead

LEMMA NoExport ==
  ASSUME ExportInv,
         SearchNotes \/ SearchNext \/ LoadNotes \/ WithParts \/ AttachLocations \/ ExportMyData \/ Close
  PROVE  ExportInv'
  <1>1. DOMAIN Nothing = OutColumns
    BY DEF Nothing, OutColumns
  <1>2. CASE SearchNotes \/ SearchNext
    <2>1. step' = "load" /\ out' = Nothing
      BY <1>2 DEF SearchNotes, SearchFirst, SearchNext, Search
    <2> QED
      BY <1>1, <2>1 DEF ExportInv, Exporting
  <1>3. CASE LoadNotes \/ WithParts \/ AttachLocations
    <2>1. step' \in {"search parts", "places", "answered"}
      BY <1>3 DEF LoadNotes, WithParts, AttachLocations
    <2>2. \/ \E x : out' = [out EXCEPT !.notes = x]
          \/ \E x : out' = [out EXCEPT !.parts = x]
          \/ \E x : out' = [out EXCEPT !.places = x]
      BY <1>3 DEF LoadNotes, WithParts, AttachLocations
    <2>3. DOMAIN out' = OutColumns
      BY <2>2 DEF ExportInv
    <2> QED
      BY <2>1, <2>3 DEF ExportInv, Exporting
  <1>4. CASE ExportMyData
    BY <1>4 DEF ExportMyData, Start, ExportInv, Exporting
  <1>5. CASE Close
    BY <1>1, <1>5 DEF Close, ExportInv, Exporting
  <1> QED
    BY <1>2, <1>3, <1>4, <1>5

LEMMA ExportStep == Account /\ ExportInv /\ [ReadingNext \/ Meanwhile]_readingVars => ExportInv'
  <1> SUFFICES ASSUME Account, ExportInv, [ReadingNext \/ Meanwhile]_readingVars PROVE ExportInv'
    OBVIOUS
  <1> QED
    BY ExportBegins, ExportReadsCategories, ExportReadsNotes, ExportReadsParts, ExportReadsVersions, ExportCopies,
       ExportUndisturbed, NoExport, WritesAreOperations DEF ReadingNext

LEMMA ExportInit == NoRequest => ExportInv
  BY DEF NoRequest, ExportInv, Nothing, OutColumns, Exporting

(* What an archive that was finished has.                                  *)
LEMMA WholeArchive == ExportInv => ExportIsWhole
  <1> SUFFICES ASSUME ExportInv, step = "whole" PROVE ExportIsWhole
    BY DEF ExportIsWhole
  <1>1. step \in Exporting
    BY DEF Exporting
  <1>2. /\ Complete(snap) /\ stayed \subseteq Existing(snap)
        /\ out.pages = ExportPages(snap) /\ out.categories = ExportCategories(snap)
        /\ NotesRead /\ PartsRead /\ VersionsRead /\ out.files = out.copied
    BY <1>1 DEF ExportInv
  <1>3. stayed \subseteq DOMAIN out.notes
    BY <1>2 DEF NotesRead
  <1>4. ASSUME NEW n \in DOMAIN out.notes
        PROVE  /\ \E p \in DOMAIN out.parts : out.parts[p].note = n
               /\ out.notes[n].category # None =>
                    /\ out.notes[n].category \in DOMAIN out.categories
                    /\ out.categories[out.notes[n].category].page \in out.pages
    <2>1. n \in Notes /\ snap.note[n].state # "absent" /\ out.notes[n] = snap.note[n]
      BY <1>2 DEF NotesRead, Existing
    <2>2. PICK p \in Parts : snap.part[p].note = n
      BY <1>2, <2>1 DEF Complete
    <2>3. p \in DOMAIN out.parts /\ out.parts[p] = snap.part[p]
      BY <1>2, <2>2 DEF PartsRead
    <2>4. ASSUME snap.note[n].category # None
          PROVE  /\ snap.note[n].category \in DOMAIN out.categories
                 /\ out.categories[snap.note[n].category].page \in out.pages
      <3> DEFINE c == snap.note[n].category
      <3>1. c \in Categories /\ snap.category[c].page # None
        BY <1>2, <2>1, <2>4 DEF Complete
      <3>2. snap.category[c].page \in Pages /\ snap.page[snap.category[c].page] # <<>>
        BY <1>2, <3>1 DEF Complete
      <3> HIDE DEF c
      <3>3. c \in DOMAIN out.categories /\ out.categories[c] = snap.category[c]
        BY <1>2, <3>1 DEF ExportCategories, RowsOf
      <3> QED
        BY <1>2, <3>2, <3>3 DEF ExportPages, c
    <2> QED
      BY <2>1, <2>2, <2>3, <2>4
  <1>5. ASSUME NEW p \in DOMAIN out.parts
        PROVE  /\ out.parts[p].file # None => out.parts[p].file \in out.copied
               /\ out.parts[p].text # None =>
                    p \in DOMAIN out.versions /\ \E i \in DOMAIN out.versions[p] : out.versions[p][i].text = out.parts[p].text
    <2>1. p \in Parts /\ out.parts[p] = snap.part[p] /\ snap.part[p].note \in DOMAIN out.notes
      BY <1>2 DEF PartsRead
    <2>2. snap.part[p].note # None
      BY <1>2, <2>1, NotesAssumption DEF NotesRead, Existing
    <2>3. p \in DOMAIN out.versions /\ out.versions[p] = snap.history[p]
      BY <1>2 DEF VersionsRead
    <2>4. snap.part[p].text # None => \E i \in DOMAIN snap.history[p] : snap.history[p][i].text = snap.part[p].text
      BY <1>2, <2>1, <2>2 DEF Complete
    <2>5. snap.part[p].file # None => snap.part[p].file \in out.copied
      BY <1>2 DEF PartsRead
    <2> QED
      BY <2>1, <2>3, <2>4, <2>5
  <1> QED
    BY <1>3, <1>4, <1>5 DEF ExportIsWhole

-----------------------------------------------------------------------------
(* Searching: a finite set in the order of a query is a sequence, each     *)
(* member at its rank.                                                     *)
LEMMA RanksAreRead ==
  ASSUME NEW S, IsFiniteSet(S), NEW R, IsOrder(S, R), NEW all \in [1 .. Cardinality(S) -> S],
         \A i \in 1 .. Cardinality(S) : RankIn(S, R, all[i]) = i
  PROVE  /\ Cardinality(S) \in Nat /\ all \in Seq(S) /\ Len(all) = Cardinality(S)
         /\ \A x \in S : RankIn(S, R, x) \in 1 .. Cardinality(S) /\ all[RankIn(S, R, x)] = x
  <1>1. PICK len \in Nat : len = Cardinality(S)
    BY FS_CardinalityType
  <1>2. ASSUME NEW x \in S PROVE RankIn(S, R, x) \in 1 .. len /\ all[RankIn(S, R, x)] = x
    <2>1. PICK i \in 1 .. len : i = RankIn(S, R, x)
      BY <1>1, RanksOrder
    <2>2. all[i] \in S /\ RankIn(S, R, all[i]) = RankIn(S, R, x)
      BY <1>1, <2>1
    <2>3. all[i] = x
      BY <2>2, RanksDiffer
    <2> QED
      BY <2>1, <2>3
  <1>3. all \in Seq(S)
    BY <1>1
  <1>4. Len(all) \in Nat /\ DOMAIN all = 1 .. Len(all)
    BY <1>3, LenProperties
  <1>5. Len(all) = len
    BY <1>1, <1>4
  <1> QED
    BY <1>1, <1>2, <1>3, <1>5

(* The words of a note that match are finitely many.                       *)
LEMMA ScoresAreNumbers ==
  ASSUME NEW v, Complete(v), NEW n \in Notes
  PROVE  /\ Score(v, n) \in Nat
         /\ Score(v, n) > 0 => \E p \in PartsIn(v, {n}) : Count[Body(v.part[p])] > 0
  <1> DEFINE P == PartsIn(v, {n})
  <1> DEFINE Words(p) == {p} \X (1 .. Count[Body(v.part[p])])
  <1> DEFINE f == [p \in P |-> Words(p)]
  <1> DEFINE T == {Words(p) : p \in P}
  <1>1. ASSUME NEW p \in P PROVE Count[Body(v.part[p])] \in Nat
    <2>1. p \in Parts /\ v.part[p].note # None
      BY NotesAssumption DEF PartsIn
    <2>2. WellMade(v.part[p])
      BY <2>1 DEF Complete
    <2>3. Body(v.part[p]) \in Texts \cup Files
      BY <2>2, NotesAssumption DEF Body, WellMade
    <2> QED
      BY <2>3, ReadingAssumption
  <1>2. IsFiniteSet(P)
    <2>1. P \in SUBSET Parts
      BY DEF PartsIn
    <2> QED
      BY <2>1, ReadingAssumption, FS_Subset
  <1>3. ASSUME NEW p \in P PROVE IsFiniteSet(Words(p))
    <2>1. PICK k \in Nat : k = Count[Body(v.part[p])]
      BY <1>1
    <2>2. IsFiniteSet(1 .. k)
      <3>1. 1 \in Int /\ k \in Int
        OBVIOUS
      <3> QED
        BY <3>1, FS_Interval
    <2>3. IsFiniteSet({p})
      BY FS_Singleton
    <2>4. IsFiniteSet({p} \X (1 .. k))
      BY <2>2, <2>3, FS_Product
    <2> QED
      BY <2>1, <2>4
  <1>4. IsFiniteSet(T)
    <2>1. f \in Surjection(P, T)
      <3> HIDE DEF P, Words
      <3>1. f \in [P -> T] /\ \A t \in T : \E p \in P : f[p] = t
        OBVIOUS
      <3> HIDE DEF f, T
      <3> QED
        BY <3>1 DEF Surjection
    <2> HIDE DEF f, T
    <2> QED
      BY <1>2, <2>1, FS_Surjection
  <1>5. \A t \in T : IsFiniteSet(t)
    BY <1>3
  <1>6. Matches(v, n) = UNION T
    BY DEF Matches
  <1>7. IsFiniteSet(Matches(v, n))
    <2> HIDE DEF T
    <2> QED
      BY <1>4, <1>5, <1>6, FS_UNION
  <1>8. Score(v, n) \in Nat
    BY <1>7, FS_CardinalityType DEF Score
  <1>9. ASSUME Score(v, n) > 0 PROVE \E p \in P : Count[Body(v.part[p])] > 0
    <2>1. Matches(v, n) # {}
      <3>1. Cardinality(Matches(v, n)) # 0
        BY <1>8, <1>9 DEF Score
      <3> QED
        BY <3>1, FS_EmptySet
    <2>2. PICK p \in P : Words(p) # {}
      BY <1>6, <2>1
    <2>3. 1 .. Count[Body(v.part[p])] # {}
      BY <2>2
    <2> QED
      BY <1>1, <2>3
  <1> QED
    BY <1>8, <1>9

(* What is better than what among the results of a search; what is newer.  *)
Results(v, q) == {n \in Notes : Found(v, q, n)}
Inner(v, q)   == {n \in Notes : FoundInside(v, q, n)}
ByScore(v)    == {e \in Notes \X Notes : Better(v, e[1], e[2])}
ByAge(v)      == {e \in Notes \X Notes : Newer(v, e[1], e[2])}

LEMMA ResultsAreOrdered ==
  ASSUME NEW v, Complete(v), NEW S, S \subseteq Notes
  PROVE  IsFiniteSet(S) /\ IsOrder(S, ByScore(v)) /\ IsOrder(S, ByAge(v))
  <1>1. IsFiniteSet(S)
    <2>1. S \in SUBSET Notes
      OBVIOUS
    <2> QED
      BY <2>1, BoardAssumption, FS_Subset
  <1>2. \A n \in S : n \in Notes /\ n \in Nat /\ v.note[n].created \in Nat /\ Score(v, n) \in Nat
    BY ScoresAreNumbers, NotesAssumption DEF Complete
  <1>3. \A x, y \in S : /\ <<x, y>> \in ByScore(v) <=> Better(v, x, y)
                        /\ <<x, y>> \in ByAge(v) <=> Newer(v, x, y)
    BY DEF ByScore, ByAge
  <1>4. IsOrder(S, ByScore(v))
    <2>1. \A x \in S : ~ Better(v, x, x)
      BY <1>2 DEF Better
    <2>2. \A x, y, z \in S : Better(v, x, y) /\ Better(v, y, z) => Better(v, x, z)
      BY <1>2 DEF Better
    <2>3. \A x, y \in S : x = y \/ Better(v, x, y) \/ Better(v, y, x)
      BY <1>2 DEF Better
    <2> QED
      BY <1>3, <2>1, <2>2, <2>3 DEF IsOrder
  <1>5. IsOrder(S, ByAge(v))
    <2>1. \A x \in S : ~ Newer(v, x, x)
      BY <1>2 DEF Newer
    <2>2. \A x, y, z \in S : Newer(v, x, y) /\ Newer(v, y, z) => Newer(v, x, z)
      BY <1>2 DEF Newer
    <2>3. \A x, y \in S : x = y \/ Newer(v, x, y) \/ Newer(v, y, x)
      BY <1>2 DEF Newer
    <2> QED
      BY <1>3, <2>1, <2>2, <2>3 DEF IsOrder
  <1> QED
    BY <1>1, <1>4, <1>5

(* "limit .. offset .." of a sequence.                                     *)
LEMMA LimitedIs ==
  ASSUME NEW S, NEW all \in Seq(S), NEW limit \in Nat, NEW from \in Nat
  PROVE  /\ Limited(all, limit, from) \in Seq(S)
         /\ Len(Limited(all, limit, from)) =
              (IF from + limit < Len(all) THEN limit ELSE IF from < Len(all) THEN Len(all) - from ELSE 0)
         /\ \A i \in 1 .. Len(Limited(all, limit, from)) : from + i \in 1 .. Len(all) /\ Limited(all, limit, from)[i] = all[from + i]
  <1>1. Len(all) \in Nat /\ \A i \in 1 .. Len(all) : all[i] \in S
    BY LenProperties
  <1> DEFINE last == IF from + limit < Len(all) THEN from + limit ELSE Len(all)
  <1>2. from + 1 \in Int /\ last \in Int /\ last <= Len(all) /\ last \in Nat
    BY <1>1
  <1>3. Limited(all, limit, from) = SubSeq(all, from + 1, last)
    BY DEF Limited
  <1>4. (last - (from + 1)) + 1 = last - from /\ \A i \in Int : (from + 1) + i - 1 = from + i
    BY <1>2
  <1>5. /\ from + 1 <= last => last - from = (IF from + limit < Len(all) THEN limit ELSE IF from < Len(all) THEN Len(all) - from ELSE 0)
        /\ ~ (from + 1 <= last) => 0 = (IF from + limit < Len(all) THEN limit ELSE IF from < Len(all) THEN Len(all) - from ELSE 0)
    BY <1>1
  <1> HIDE DEF last
  <1>6. \A i \in from + 1 .. last : all[i] \in S
    BY <1>1, <1>2
  <1> DEFINE rows == SubSeq(all, from + 1, last)
  <1>7. /\ rows \in Seq(S)
        /\ Len(rows) = IF from + 1 <= last THEN last - (from + 1) + 1 ELSE 0
        /\ \A i \in 1 .. last - (from + 1) + 1 : rows[i] = all[(from + 1) + i - 1]
    BY <1>2, <1>6, SubSeqProperties
  <1> HIDE DEF rows
  <1>8. \A i \in 1 .. Len(rows) : i \in 1 .. last - (from + 1) + 1 /\ from + i \in 1 .. Len(all)
    BY <1>1, <1>2, <1>7
  <1>9. \A i \in 1 .. Len(rows) : rows[i] = all[from + i]
    BY <1>4, <1>7, <1>8
  <1>10. Len(rows) = (IF from + limit < Len(all) THEN limit ELSE IF from < Len(all) THEN Len(all) - from ELSE 0)
    BY <1>2, <1>4, <1>5, <1>7
  <1> QED
    BY <1>3, <1>7, <1>8, <1>9, <1>10 DEF rows

(* What a search answers: results by their score.                          *)
LEMMA SearchIs ==
  ASSUME NEW v, Complete(v), NEW q, NEW limit \in Nat, NEW from \in Nat
  PROVE  LET F == Results(v, q)
         IN  /\ IsFiniteSet(F) /\ IsOrder(F, ByScore(v)) /\ Cardinality(F) \in Nat
             /\ \E all \in Seq(Notes) :
                  /\ Len(all) = Cardinality(F)
                  /\ RunSearch(v, q, limit, from) = Limited(all, limit, from)
                  /\ \A i \in 1 .. Cardinality(F) : all[i] \in F /\ RankIn(F, ByScore(v), all[i]) = i
                  /\ \A n \in F : /\ RankIn(F, ByScore(v), n) \in 1 .. Cardinality(F)
                                  /\ all[RankIn(F, ByScore(v), n)] = n
  <1> DEFINE F == Results(v, q)
  <1> DEFINE R == ByScore(v)
  <1> DEFINE all == Ordered({n \in Notes : Found(v, q, n)}, LAMBDA n, m : Better(v, n, m))
  <1>1. F \subseteq Notes /\ F = {n \in Notes : Found(v, q, n)}
    BY DEF Results
  <1>2. RunSearch(v, q, limit, from) = Limited(all, limit, from)
    BY DEF RunSearch
  <1> HIDE DEF F
  <1> DEFINE Ranked(i) == CHOOSE x \in F : Cardinality({y \in F : y = x \/ Better(v, y, x)}) = i
  <1>3. all = [i \in 1 .. Cardinality(F) |-> Ranked(i)]
    BY <1>1 DEF Ordered
  <1> HIDE DEF all
  <1>4. \A x \in F : RankIn(F, R, x) = Cardinality({y \in F : y = x \/ Better(v, y, x)})
    <2> SUFFICES ASSUME NEW x \in F PROVE RankIn(F, R, x) = Cardinality({y \in F : y = x \/ Better(v, y, x)})
      OBVIOUS
    <2>1. NotBehind(F, R, x) = {y \in F : y = x \/ Better(v, y, x)}
      BY <1>1 DEF NotBehind, ByScore
    <2> QED
      BY <2>1 DEF RankIn
  <1>5. IsFiniteSet(F) /\ IsOrder(F, R)
    BY <1>1, ResultsAreOrdered
  <1> HIDE DEF R
  <1>7. ASSUME NEW i \in 1 .. Cardinality(F) PROVE all[i] \in F /\ RankIn(F, R, all[i]) = i
    <2>1. all[i] = CHOOSE y \in F : Cardinality({z \in F : z = y \/ Better(v, z, y)}) = i
      BY <1>3
    <2>2. \E x \in F : Cardinality({y \in F : y = x \/ Better(v, y, x)}) = i
      BY <1>4, <1>5, EveryRankIsTaken
    <2>3. all[i] \in F /\ Cardinality({z \in F : z = all[i] \/ Better(v, z, all[i])}) = i
      BY <2>1, <2>2
    <2> QED
      BY <1>4, <2>3
  <1>6. all \in [1 .. Cardinality(F) -> F]
    <2> HIDE DEF Ranked
    <2> QED
      BY <1>3, <1>7
  <1>8. /\ Cardinality(F) \in Nat /\ all \in Seq(F) /\ Len(all) = Cardinality(F)
        /\ \A x \in F : RankIn(F, R, x) \in 1 .. Cardinality(F) /\ all[RankIn(F, R, x)] = x
    BY <1>5, <1>6, <1>7, RanksAreRead
  <1>9. all \in Seq(Notes)
    <2>1. all \in [1 .. Len(all) -> F] /\ Len(all) \in Nat
      BY <1>8, LenProperties
    <2>2. all \in [1 .. Len(all) -> Notes]
      BY <1>1, <2>1
    <2> QED
      BY <2>1, <2>2
  <1> QED
    BY <1>2, <1>5, <1>7, <1>8, <1>9 DEF F, R

(* What is looked for inside words, the newest first.                      *)
LEMMA SubstringIs ==
  ASSUME NEW v, Complete(v), NEW q, NEW limit \in Nat
  PROVE  LET rows == RunSubstring(v, q, limit)
         IN  /\ rows \in Seq(Notes) /\ Len(rows) \in Nat /\ \A i \in 1 .. Len(rows) : rows[i] \in Inner(v, q)
             /\ \A i, j \in 1 .. Len(rows) : rows[i] = rows[j] => i = j
             /\ Len(rows) < limit => \A n \in Inner(v, q) : \E i \in 1 .. Len(rows) : rows[i] = n
  <1> DEFINE F == Inner(v, q)
  <1> DEFINE R == ByAge(v)
  <1> DEFINE all == Ordered({n \in Notes : FoundInside(v, q, n)}, LAMBDA n, m : Newer(v, n, m))
  <1>1. F \subseteq Notes /\ F = {n \in Notes : FoundInside(v, q, n)}
    BY DEF Inner
  <1>2. RunSubstring(v, q, limit) = Limited(all, limit, 0)
    BY DEF RunSubstring
  <1> HIDE DEF F
  <1> DEFINE Ranked(i) == CHOOSE x \in F : Cardinality({y \in F : y = x \/ Newer(v, y, x)}) = i
  <1>3. all = [i \in 1 .. Cardinality(F) |-> Ranked(i)]
    BY <1>1 DEF Ordered
  <1> HIDE DEF all
  <1>4. \A x \in F : RankIn(F, R, x) = Cardinality({y \in F : y = x \/ Newer(v, y, x)})
    <2> SUFFICES ASSUME NEW x \in F PROVE RankIn(F, R, x) = Cardinality({y \in F : y = x \/ Newer(v, y, x)})
      OBVIOUS
    <2>1. NotBehind(F, R, x) = {y \in F : y = x \/ Newer(v, y, x)}
      BY <1>1 DEF NotBehind, ByAge
    <2> QED
      BY <2>1 DEF RankIn
  <1>5. IsFiniteSet(F) /\ IsOrder(F, R)
    BY <1>1, ResultsAreOrdered
  <1> HIDE DEF R
  <1>7. ASSUME NEW i \in 1 .. Cardinality(F) PROVE all[i] \in F /\ RankIn(F, R, all[i]) = i
    <2>1. all[i] = CHOOSE y \in F : Cardinality({z \in F : z = y \/ Newer(v, z, y)}) = i
      BY <1>3
    <2>2. \E x \in F : Cardinality({y \in F : y = x \/ Newer(v, y, x)}) = i
      BY <1>4, <1>5, EveryRankIsTaken
    <2>3. all[i] \in F /\ Cardinality({z \in F : z = all[i] \/ Newer(v, z, all[i])}) = i
      BY <2>1, <2>2
    <2> QED
      BY <1>4, <2>3
  <1>6. all \in [1 .. Cardinality(F) -> F]
    <2> HIDE DEF Ranked
    <2> QED
      BY <1>3, <1>7
  <1>8. /\ Cardinality(F) \in Nat /\ all \in Seq(F) /\ Len(all) = Cardinality(F)
        /\ \A x \in F : RankIn(F, R, x) \in 1 .. Cardinality(F) /\ all[RankIn(F, R, x)] = x
    BY <1>5, <1>6, <1>7, RanksAreRead
  <1> DEFINE rows == Limited(all, limit, 0)
  <1>9. /\ rows \in Seq(F)
        /\ Len(rows) = (IF 0 + limit < Len(all) THEN limit ELSE IF 0 < Len(all) THEN Len(all) - 0 ELSE 0)
        /\ \A i \in 1 .. Len(rows) : 0 + i \in 1 .. Len(all) /\ rows[i] = all[0 + i]
    BY <1>8, LimitedIs
  <1> HIDE DEF rows
  <1>10. rows \in [1 .. Len(rows) -> F] /\ Len(rows) \in Nat
    BY <1>9, LenProperties
  <1>12. \A i \in 1 .. Len(rows) : i \in 1 .. Cardinality(F) /\ rows[i] = all[i]
    BY <1>8, <1>9, <1>10
  <1>13. ASSUME NEW i \in 1 .. Len(rows), NEW j \in 1 .. Len(rows), rows[i] = rows[j] PROVE i = j
    <2>1. all[i] = all[j] /\ RankIn(F, R, all[i]) = i /\ RankIn(F, R, all[j]) = j
      BY <1>7, <1>12, <1>13
    <2> QED
      BY <2>1
  <1>14. ASSUME Len(rows) < limit, NEW n \in F PROVE \E i \in 1 .. Len(rows) : rows[i] = n
    <2>1. PICK k \in 1 .. Cardinality(F) : all[k] = n
      BY <1>8
    <2>2. Len(rows) >= Cardinality(F)
      BY <1>8, <1>9, <1>14
    <2>3. k \in 1 .. Len(rows)
      BY <1>8, <1>10, <2>2
    <2> QED
      BY <1>12, <2>1, <2>3
  <1>11. rows \in Seq(Notes) /\ \A i \in 1 .. Len(rows) : rows[i] \in F
    <2>1. rows \in [1 .. Len(rows) -> Notes]
      BY <1>1, <1>10
    <2> QED
      BY <1>10, <2>1
  <1>15. Inner(v, q) = F
    BY DEF F
  <1> HIDE DEF F
  <1> QED
    BY <1>2, <1>10, <1>11, <1>13, <1>14, <1>15 DEF rows

-----------------------------------------------------------------------------
(* The results of a search have places; a page has those of the places     *)
(* from where it begins up to where the next page does.                    *)
PlaceOf(v, q, n) == RankIn(Results(v, q), ByScore(v), n)
Matching(v, q, n) ==
  Filters(v, q, n) /\ \E p \in PartsIn(v, {n}) : Count[Body(v.part[p])] > 0 \/ Body(v.part[p]) \in Inside

Offsets == (Nat \ {0}) \cup {None}

(* The results that come behind a page that ends where "next" says.        *)
BehindPage(v, q, next, n) == next # None /\ PlaceOf(v, q, n) > next

LEMMA FirstRows ==
  ASSUME NEW rows \in Seq(Notes)
  PROVE  LET top == IF Len(rows) > PageSize THEN SubSeq(rows, 1, PageSize) ELSE rows
         IN  /\ top \in Seq(Notes) /\ Len(top) = IF Len(rows) > PageSize THEN PageSize ELSE Len(rows)
             /\ \A i \in 1 .. Len(top) : i \in 1 .. Len(rows) /\ top[i] = rows[i]
  <1> DEFINE top == IF Len(rows) > PageSize THEN SubSeq(rows, 1, PageSize) ELSE rows
  <1>1. Len(rows) \in Nat /\ \A i \in 1 .. Len(rows) : rows[i] \in Notes
    BY LenProperties
  <1>2. PageSize \in Nat /\ PageSize >= 1
    BY BoardAssumption
  <1>3. CASE Len(rows) > PageSize
    <2>1. \A i \in 1 .. PageSize : rows[i] \in Notes /\ i \in 1 .. Len(rows)
      BY <1>1, <1>2, <1>3
    <2>2. 1 \in Int /\ PageSize \in Int
      BY <1>2
    <2>3. /\ SubSeq(rows, 1, PageSize) \in Seq(Notes)
          /\ Len(SubSeq(rows, 1, PageSize)) = IF 1 <= PageSize THEN PageSize - 1 + 1 ELSE 0
          /\ \A i \in 1 .. PageSize - 1 + 1 : SubSeq(rows, 1, PageSize)[i] = rows[1 + i - 1]
      BY <2>1, <2>2, SubSeqProperties
    <2>4. /\ Len(SubSeq(rows, 1, PageSize)) = PageSize
          /\ \A i \in 1 .. PageSize : SubSeq(rows, 1, PageSize)[i] = rows[i]
      BY <1>2, <2>3
    <2> QED
      BY <1>3, <2>1, <2>3, <2>4
  <1>4. CASE ~ (Len(rows) > PageSize)
    BY <1>4
  <1> QED
    BY <1>3, <1>4

(* One page of results.                                                    *)
LEMMA PageOfResults ==
  ASSUME NEW v, Complete(v), NEW q, NEW from \in Nat
  PROVE  LET F    == Results(v, q)
             rows == RunSearch(v, q, PageSize + 1, from)
             top  == IF Len(rows) > PageSize THEN SubSeq(rows, 1, PageSize) ELSE rows
             next == NextOffset(from, rows)
         IN  /\ rows \in Seq(Notes) /\ \A i \in 1 .. Len(rows) : rows[i] \in F
             /\ \A i, j \in 1 .. Len(top) : top[i] = top[j] => i = j
             /\ \A n \in F : (\E i \in 1 .. Len(top) : top[i] = n) <=> PlaceOf(v, q, n) > from /\ ~ BehindPage(v, q, next, n)
             /\ rows = <<>> /\ from = 0 => F = {}
  <1> DEFINE F    == Results(v, q)
  <1> DEFINE rows == RunSearch(v, q, PageSize + 1, from)
  <1> DEFINE top  == IF Len(rows) > PageSize THEN SubSeq(rows, 1, PageSize) ELSE rows
  <1> DEFINE next == NextOffset(from, rows)
  <1>1. PageSize \in Nat /\ PageSize >= 1 /\ PageSize + 1 \in Nat /\ None \notin Nat
    BY BoardAssumption, NotesAssumption
  <1>2. PICK len \in Nat : len = Cardinality(F)
    BY <1>1, SearchIs
  <1>14. \E all \in Seq(Notes) :
           /\ Len(all) = Cardinality(Results(v, q))
           /\ RunSearch(v, q, PageSize + 1, from) = Limited(all, PageSize + 1, from)
           /\ \A i \in 1 .. Cardinality(Results(v, q)) :
                all[i] \in Results(v, q) /\ RankIn(Results(v, q), ByScore(v), all[i]) = i
           /\ \A n \in Results(v, q) :
                /\ RankIn(Results(v, q), ByScore(v), n) \in 1 .. Cardinality(Results(v, q))
                /\ all[RankIn(Results(v, q), ByScore(v), n)] = n
    BY <1>1, SearchIs
  <1>3. PICK all \in Seq(Notes) :
          /\ Len(all) = len
          /\ rows = Limited(all, PageSize + 1, from)
          /\ \A i \in 1 .. len : all[i] \in F /\ PlaceOf(v, q, all[i]) = i
          /\ \A n \in F : PlaceOf(v, q, n) \in 1 .. len /\ all[PlaceOf(v, q, n)] = n
    BY <1>2, <1>14 DEF PlaceOf
  <1>4. /\ rows \in Seq(Notes)
        /\ Len(rows) = (IF from + (PageSize + 1) < len THEN PageSize + 1 ELSE IF from < len THEN len - from ELSE 0)
        /\ \A i \in 1 .. Len(rows) : from + i \in 1 .. len /\ rows[i] = all[from + i]
    BY <1>1, <1>3, LimitedIs
  <1> HIDE DEF rows, F
  <1>5. /\ top \in Seq(Notes) /\ Len(top) = IF Len(rows) > PageSize THEN PageSize ELSE Len(rows)
        /\ \A i \in 1 .. Len(top) : i \in 1 .. Len(rows) /\ top[i] = rows[i]
    BY <1>4, FirstRows
  <1>6. next = IF Len(rows) > PageSize THEN from + PageSize ELSE None
    BY DEF NextOffset
  <1> HIDE DEF top, next
  <1>7. /\ Len(top) \in Nat
        /\ next # None => Len(top) = PageSize /\ next = from + PageSize /\ from + PageSize < len
        /\ next = None => from + Len(top) >= len
    <2>1. from + PageSize \in Nat
      BY <1>1
    <2>2. CASE Len(rows) > PageSize
      <3>1. next = from + PageSize /\ next # None /\ Len(top) = PageSize
        BY <1>1, <1>5, <1>6, <2>1, <2>2
      <3>2. from + PageSize < len
        BY <1>1, <1>4, <2>2
      <3> QED
        BY <1>1, <3>1, <3>2
    <2>3. CASE ~ (Len(rows) > PageSize)
      <3>1. next = None /\ Len(top) = Len(rows)
        BY <1>5, <1>6, <2>3
      <3>2. Len(rows) \in Nat /\ from + Len(rows) >= len
        BY <1>1, <1>4, <2>3
      <3> QED
        BY <3>1, <3>2
    <2> QED
      BY <2>2, <2>3
  <1>8. \A i \in 1 .. Len(top) : from + i \in 1 .. len /\ top[i] = all[from + i]
    BY <1>4, <1>5
  <1>9. \A i \in 1 .. Len(top) : top[i] \in F /\ PlaceOf(v, q, top[i]) = from + i
    BY <1>3, <1>8
  <1>10. ASSUME NEW i \in 1 .. Len(top), NEW j \in 1 .. Len(top), top[i] = top[j] PROVE i = j
    BY <1>9, <1>10
  <1>11. ASSUME NEW n \in F
         PROVE  (\E i \in 1 .. Len(top) : top[i] = n) <=> PlaceOf(v, q, n) > from /\ ~ BehindPage(v, q, next, n)
    <2>1. PICK k \in 1 .. len : k = PlaceOf(v, q, n) /\ all[k] = n
      BY <1>3
    <2>2. BehindPage(v, q, next, n) <=> next # None /\ k > next
      BY <2>1 DEF BehindPage
    <2>3. ASSUME NEW i \in 1 .. Len(top), top[i] = n PROVE k > from /\ ~ (next # None /\ k > next)
      <3>1. k = from + i
        BY <1>9, <2>1, <2>3
      <3> QED
        BY <1>1, <1>7, <3>1
    <2>4. ASSUME k > from, ~ (next # None /\ k > next) PROVE \E i \in 1 .. Len(top) : top[i] = n
      <3>1. k - from \in 1 .. Len(top) /\ from + (k - from) = k
        BY <1>1, <1>7, <2>4
      <3> QED
        BY <1>8, <2>1, <3>1
    <2> QED
      BY <2>1, <2>2, <2>3, <2>4
  <1>12. rows = <<>> /\ from = 0 => F = {}
    <2> SUFFICES ASSUME rows = <<>>, from = 0, F # {} PROVE FALSE
      OBVIOUS
    <2>1. Len(rows) = 0
      BY EmptySeq
    <2>2. len >= 1
      BY <1>3
    <2> QED
      BY <1>1, <1>4, <2>1, <2>2
  <1>13. \A i \in 1 .. Len(rows) : rows[i] \in F
    BY <1>3, <1>4
  <1> QED
    BY <1>4, <1>10, <1>11, <1>12, <1>13 DEF F, rows, top, next

(* What a request for results answers.                                     *)
LEMMA SearchAnswers ==
  ASSUME Account, NEW q, NEW from \in Nat, Search(q, from)
  PROVE  /\ hits' \in Seq(Notes) /\ offset' \in Offsets /\ (offset' = None \/ offset' > from) /\ snap' = Present
         /\ \A i \in DOMAIN hits' : Matching(Present, q, hits'[i])
         /\ \A n \in Results(Present, q) :
              /\ (\E i \in DOMAIN hits' : hits'[i] = n) <=>
                   PlaceOf(Present, q, n) > from /\ ~ BehindPage(Present, q, offset', n)
              /\ \A i, j \in DOMAIN hits' : hits'[i] = n /\ hits'[j] = n => i = j
         /\ Results(Present, q) = {} /\ from = 0 /\ LongEnough =>
              \A n \in Inner(Present, q) :
                /\ Len(hits') >= PageSize \/ \E i \in DOMAIN hits' : hits'[i] = n
                /\ \A i, j \in DOMAIN hits' : hits'[i] = n /\ hits'[j] = n => i = j
         /\ Results(Present, q) = {} /\ from # 0 => DOMAIN hits' = {}
  <1> DEFINE v     == Present
  <1> DEFINE F     == Results(v, q)
  <1> DEFINE words == RunSearch(v, q, PageSize + 1, from)
  <1> DEFINE rows  == IF words = <<>> /\ from = 0 /\ LongEnough THEN RunSubstring(v, q, PageSize + 1) ELSE words
  <1> DEFINE top   == IF Len(rows) > PageSize THEN SubSeq(rows, 1, PageSize) ELSE rows
  <1>1. Complete(v)
    BY AccountIsComplete
  <1>2. snap' = v /\ hits' = top /\ offset' = NextOffset(from, rows)
    BY DEF Search
  <1>3. PageSize \in Nat /\ PageSize >= 1 /\ PageSize + 1 \in Nat
    BY BoardAssumption
  <1> HIDE DEF v
  <1> DEFINE first == IF Len(words) > PageSize THEN SubSeq(words, 1, PageSize) ELSE words
  <1>14. /\ words \in Seq(Notes) /\ \A i \in 1 .. Len(words) : words[i] \in F
         /\ \A i, j \in 1 .. Len(first) : first[i] = first[j] => i = j
         /\ \A n \in F : (\E i \in 1 .. Len(first) : first[i] = n) <=>
                            PlaceOf(v, q, n) > from /\ ~ BehindPage(v, q, NextOffset(from, words), n)
         /\ words = <<>> /\ from = 0 => F = {}
    BY <1>1, PageOfResults
  <1>4. /\ words \in Seq(Notes) /\ \A i \in 1 .. Len(words) : words[i] \in F
        /\ rows = words =>
             /\ \A i, j \in 1 .. Len(top) : top[i] = top[j] => i = j
             /\ \A n \in F : (\E i \in 1 .. Len(top) : top[i] = n) <=>
                                PlaceOf(v, q, n) > from /\ ~ BehindPage(v, q, NextOffset(from, rows), n)
        /\ words = <<>> /\ from = 0 => F = {}
    <2> HIDE DEF words, rows, F
    <2>1. rows = words => top = first
      OBVIOUS
    <2> HIDE DEF top, first
    <2> QED
      BY <1>14, <2>1
  <1> DEFINE inner == RunSubstring(v, q, PageSize + 1)
  <1>5. /\ inner \in Seq(Notes) /\ Len(inner) \in Nat
        /\ \A i \in 1 .. Len(inner) : inner[i] \in Inner(v, q)
        /\ \A i, j \in 1 .. Len(inner) : inner[i] = inner[j] => i = j
        /\ Len(inner) < PageSize + 1 => \A n \in Inner(v, q) : \E i \in 1 .. Len(inner) : inner[i] = n
    BY <1>1, <1>3, SubstringIs
  <1>6. rows \in Seq(Notes) /\ \A i \in 1 .. Len(rows) : rows[i] \in F \/ rows[i] \in Inner(v, q)
    BY <1>4, <1>5
  <1>7. rows = words \/ F = {}
    BY <1>4
  <1>15. F = {} => words = <<>>
    <2>1. Len(words) \in Nat
      BY <1>4, LenProperties
    <2>2. F = {} => Len(words) = 0
      BY <1>4, <2>1
    <2> QED
      BY <1>4, <2>2, EmptySeq
  <1>16. /\ F = {} /\ from = 0 /\ LongEnough => rows = inner
         /\ F = {} /\ from # 0 => rows = <<>>
    BY <1>15
  <1> HIDE DEF words, rows, inner
  <1>8. /\ top \in Seq(Notes) /\ Len(top) = IF Len(rows) > PageSize THEN PageSize ELSE Len(rows)
        /\ \A i \in 1 .. Len(top) : i \in 1 .. Len(rows) /\ top[i] = rows[i]
    BY <1>6, FirstRows
  <1>9. NextOffset(from, rows) \in Offsets /\ (NextOffset(from, rows) = None \/ NextOffset(from, rows) > from)
    BY <1>3 DEF NextOffset, Offsets
  <1> HIDE DEF top
  <1>10. DOMAIN top = 1 .. Len(top)
    BY <1>8, LenProperties
  <1>11. ASSUME NEW n, n \in F \/ n \in Inner(v, q) PROVE Matching(v, q, n)
    <2>1. CASE n \in F
      <3>1. n \in Notes /\ Filters(v, q, n) /\ Score(v, n) > 0
        BY <2>1 DEF Results, Found
      <3> QED
        BY <1>1, <3>1, ScoresAreNumbers DEF Matching
    <2>2. CASE n \in Inner(v, q)
      BY <2>2 DEF Inner, FoundInside, Matching
    <2> QED
      BY <1>11, <2>1, <2>2
  <1>12. \A i \in DOMAIN top : Matching(v, q, top[i])
    BY <1>6, <1>8, <1>10, <1>11
  <1>13. ASSUME NEW n \in F
         PROVE  /\ (\E i \in DOMAIN top : top[i] = n) <=>
                     PlaceOf(v, q, n) > from /\ ~ BehindPage(v, q, NextOffset(from, rows), n)
                /\ \A i, j \in DOMAIN top : top[i] = n /\ top[j] = n => i = j
    BY <1>4, <1>7, <1>10
  <1>17. ASSUME F = {}, from = 0, LongEnough, NEW n \in Inner(v, q)
         PROVE  /\ Len(top) >= PageSize \/ \E i \in DOMAIN top : top[i] = n
                /\ \A i, j \in DOMAIN top : top[i] = n /\ top[j] = n => i = j
    <2>1. rows = inner
      BY <1>16, <1>17
    <2>2. \A i, j \in DOMAIN top : top[i] = n /\ top[j] = n => i = j
      BY <1>5, <1>8, <1>10, <2>1
    <2>3. CASE Len(rows) > PageSize
      BY <1>3, <1>8, <2>2, <2>3
    <2>4. CASE ~ (Len(rows) > PageSize)
      <3>1. PICK i \in 1 .. Len(inner) : inner[i] = n
        BY <1>3, <1>5, <1>17, <2>1, <2>4
      <3>2. i \in DOMAIN top /\ top[i] = n
        BY <1>8, <1>10, <2>1, <2>4, <3>1
      <3> QED
        BY <2>2, <3>2
    <2> QED
      BY <2>3, <2>4
  <1>18. ASSUME F = {}, from # 0 PROVE DOMAIN top = {}
    <2>1. Len(rows) = 0
      BY <1>16, <1>18, EmptySeq
    <2> QED
      BY <1>3, <1>8, <1>10, <2>1
  <1> HIDE DEF F
  <1> QED
    BY <1>2, <1>8, <1>9, <1>12, <1>13, <1>17, <1>18 DEF v, F

(* Nothing is left out of a sequence whose elements are all kept.          *)
LEMMA AllAreKept ==
  ASSUME NEW s \in Seq(Notes), NEW S, \A i \in DOMAIN s : s[i] \in S
  PROVE  Kept(s, S) = s
  <1>1. PICK len \in Nat : len = Len(s) /\ DOMAIN s = 1 .. len /\ s = [i \in 1 .. len |-> s[i]]
    BY LenProperties
  <1> DEFINE D == {i \in DOMAIN s : s[i] \in S}
  <1> DEFINE Ranked(i) == CHOOSE x \in D : Cardinality({y \in D : y = x \/ y < x}) = i
  <1> DEFINE places == Ordered(D, LAMBDA i, j : i < j)
  <1>2. D = 1 .. len
    BY <1>1
  <1>3. Kept(s, S) = [k \in DOMAIN places |-> s[places[k]]]
    BY DEF Kept
  <1>4. places = [i \in 1 .. Cardinality(D) |-> Ranked(i)]
    BY DEF Ordered
  <1> HIDE DEF D, places
  <1>5. ASSUME NEW k \in Nat PROVE Cardinality(1 .. k) = k
    <2>1. 1 \in Int /\ k \in Int
      OBVIOUS
    <2>2. Cardinality(1 .. k) = IF 1 > k THEN 0 ELSE k - 1 + 1
      BY <2>1, FS_Interval
    <2> QED
      BY <2>2
  <1>6. ASSUME NEW x \in 1 .. len PROVE Cardinality({y \in D : y = x \/ y < x}) = x
    <2>1. {y \in D : y = x \/ y < x} = 1 .. x
      BY <1>2
    <2>2. Cardinality(1 .. x) = x
      BY <1>5
    <2> QED
      BY <2>1, <2>2, Zenon
  <1>7. ASSUME NEW i \in 1 .. len PROVE Ranked(i) = i
    <2>1. i \in D /\ Cardinality({y \in D : y = i \/ y < i}) = i
      BY <1>2, <1>6
    <2>2. Ranked(i) \in D /\ Cardinality({y \in D : y = Ranked(i) \/ y < Ranked(i)}) = i
      BY <2>1
    <2> HIDE DEF Ranked
    <2> QED
      BY <1>2, <1>6, <2>2
  <1> HIDE DEF Ranked
  <1>8. DOMAIN places = 1 .. len /\ \A i \in 1 .. len : places[i] = i
    BY <1>2, <1>4, <1>5, <1>7
  <1> QED
    BY <1>1, <1>3, <1>8

-----------------------------------------------------------------------------
(* An answer: its hits matched when they were found, and what is shown of  *)
(* them is from the same snapshot.                                         *)
Answering == {"load", "search parts", "places", "answered"}

AnswerInv ==
  step \in Answering =>
    /\ ask \in Asked /\ Complete(snap)
    /\ hits \in Seq(Notes) /\ \A i \in DOMAIN hits : Matching(snap, ask, hits[i])
    /\ step # "load" => out.notes = NotesByIDs(snap, Hits)
    /\ step \in {"places", "answered"} => out.parts = ListNoteParts(snap, Hits)
    /\ step = "answered" => out.places = NoteLocations(snap, {n \in Hits : snap.note[n].category # None})

LEMMA FoundNotesExist ==
  ASSUME NEW v, NEW q, NEW n, Filters(v, q, n)
  PROVE  v.note[n].state # "absent"
  BY DEF Filters, States

(* All hits are loaded.                                                    *)
LEMMA HitsAreLoaded ==
  ASSUME \A i \in DOMAIN hits : Matching(snap, ask, hits[i]), out.notes = NotesByIDs(snap, Hits)
  PROVE  DOMAIN out.notes = Hits /\ \A n \in Hits : out.notes[n] = snap.note[n]
  <1>1. \A n \in Hits : snap.note[n].state # "absent"
    BY FoundNotesExist DEF Hits, Matching
  <1> HIDE DEF Hits
  <1> QED
    BY <1>1 DEF NotesByIDs, RowsOf

LEMMA SearchesAnswer ==
  ASSUME Account, AnswerInv, NEW q, NEW from \in Nat, Search(q, from), ask' = q, q \in Asked
  PROVE  AnswerInv'
  <1>1. /\ hits' \in Seq(Notes) /\ snap' = Present
        /\ \A i \in DOMAIN hits' : Matching(Present, q, hits'[i])
    BY SearchAnswers
  <1>2. Complete(Present)
    BY AccountIsComplete
  <1>3. step' = "load"
    BY DEF Search
  <1> QED
    BY <1>1, <1>2, <1>3 DEF AnswerInv

LEMMA HitsStay ==
  ASSUME AnswerInv, AttachLocations
  PROVE  hits' = hits
  <1>1. /\ hits \in Seq(Notes) /\ \A i \in DOMAIN hits : Matching(snap, ask, hits[i])
        /\ out.notes = NotesByIDs(snap, Hits)
    BY DEF AttachLocations, AnswerInv, Answering
  <1>2. DOMAIN out.notes = Hits
    BY <1>1, HitsAreLoaded
  <1>3. \A i \in DOMAIN hits : hits[i] \in DOMAIN out.notes
    BY <1>2 DEF Hits
  <1>4. Kept(hits, DOMAIN out.notes) = hits
    BY <1>1, <1>3, AllAreKept
  <1> QED
    BY <1>4 DEF AttachLocations

LEMMA AnswerIsLoaded ==
  ASSUME AnswerInv, DOMAIN out = OutColumns, LoadNotes \/ WithParts \/ AttachLocations
  PROVE  AnswerInv'
  <1>1. /\ step \in Answering /\ snap' = snap /\ ask' = ask
    BY DEF LoadNotes, WithParts, AttachLocations, Answering
  <1>2. /\ ask \in Asked /\ Complete(snap) /\ hits \in Seq(Notes)
        /\ \A i \in DOMAIN hits : Matching(snap, ask, hits[i])
        /\ step # "load" => out.notes = NotesByIDs(snap, Hits)
        /\ step \in {"places", "answered"} => out.parts = ListNoteParts(snap, Hits)
    BY <1>1 DEF AnswerInv
  <1>3. hits' = hits
    BY HitsStay DEF LoadNotes, WithParts
  <1>4. Hits' = Hits
    BY <1>3 DEF Hits
  <1>5. CASE LoadNotes
    <2>1. step' = "search parts" /\ out'.notes = NotesByIDs(snap, Hits)
      BY <1>5 DEF LoadNotes, View, OutColumns
    <2> QED
      BY <1>1, <1>2, <1>3, <1>4, <2>1 DEF AnswerInv
  <1>6. CASE WithParts
    <2>1. step = "search parts" /\ step' = "places"
      BY <1>6 DEF WithParts
    <2>2. out'.notes = out.notes /\ out'.parts = ListNoteParts(snap, DOMAIN out.notes)
      BY <1>6 DEF WithParts, View, OutColumns
    <2>3. DOMAIN out.notes = Hits
      BY <1>2, <2>1, HitsAreLoaded
    <2> QED
      BY <1>1, <1>2, <1>3, <1>4, <2>1, <2>2, <2>3 DEF AnswerInv
  <1>7. CASE AttachLocations
    <2>1. step = "places" /\ step' = "answered"
      BY <1>7 DEF AttachLocations
    <2> DEFINE S == {n \in DOMAIN out.notes : out.notes[n].category # None}
    <2>2. /\ out'.notes = out.notes /\ out'.parts = out.parts
          /\ out'.places = NoteLocations(snap, S)
      BY <1>7 DEF AttachLocations, View, OutColumns
    <2>3. DOMAIN out.notes = Hits /\ \A n \in Hits : out.notes[n] = snap.note[n]
      BY <1>2, <2>1, HitsAreLoaded
    <2>4. S = {n \in Hits : snap.note[n].category # None}
      BY <2>3
    <2> HIDE DEF S
    <2> QED
      BY <1>1, <1>2, <1>3, <1>4, <2>1, <2>2, <2>4 DEF AnswerInv
  <1> QED
    BY <1>5, <1>6, <1>7

LEMMA NoAnswer ==
  ASSUME AnswerInv,
         \/ ExportMyData \/ WritePages \/ WriteCategories \/ WriteNotes \/ WriteParts \/ WriteVersions
         \/ CopyFiles \/ FinishExport \/ Close \/ Meanwhile \/ UNCHANGED readingVars
  PROVE  AnswerInv'
  <1>1. CASE step' \in Answering
    <2>1. UNCHANGED requestVars
      BY <1>1 DEF ExportMyData, Start, WritePages, WriteCategories, WriteNotes, WriteParts, WriteVersions,
                  CopyFiles, CopyFile, OpenFile, ReadFile, CutShort, FinishExport, Close, Meanwhile, readingVars, requestVars,
                  Answering
    <2>2. UNCHANGED <<step, snap, ask, hits, out>>
      BY <2>1 DEF requestVars
    <2>3. Hits' = Hits
      BY <2>2 DEF Hits
    <2> QED
      BY <2>2, <2>3 DEF AnswerInv
  <1>2. CASE step' \notin Answering
    BY <1>2 DEF AnswerInv
  <1> QED
    BY <1>1, <1>2

(* Where the next page begins.                                             *)
PagesInv == step \in Answering => offset \in Offsets

LEMMA AnswerStep == Account /\ ExportInv /\ PagesInv /\ AnswerInv /\ [ReadingNext \/ Meanwhile]_readingVars => AnswerInv'
  <1> SUFFICES ASSUME Account, ExportInv, PagesInv, AnswerInv, [ReadingNext \/ Meanwhile]_readingVars PROVE AnswerInv'
    OBVIOUS
  <1>1. CASE SearchNotes
    <2>1. PICK q \in Asked : Search(q, 0) /\ ask' = q
      BY <1>1 DEF SearchNotes, SearchFirst
    <2> QED
      BY <2>1, SearchesAnswer
  <1>2. CASE SearchNext
    <2>1. step = "answered" /\ offset # None /\ Search(ask, offset) /\ ask' = ask
      BY <1>2 DEF SearchNext
    <2>2. ask \in Asked /\ offset \in Nat
      BY <2>1 DEF AnswerInv, PagesInv, Answering, Offsets
    <2> QED
      BY <2>1, <2>2, SearchesAnswer
  <1>3. CASE LoadNotes \/ WithParts \/ AttachLocations
    BY <1>3, AnswerIsLoaded DEF ExportInv
  <1> QED
    BY <1>1, <1>2, <1>3, NoAnswer, WritesAreOperations DEF ReadingNext

LEMMA PagesStep == Account /\ PagesInv /\ [ReadingNext \/ Meanwhile]_readingVars => PagesInv'
  <1> SUFFICES ASSUME Account, PagesInv, [ReadingNext \/ Meanwhile]_readingVars PROVE PagesInv'
    OBVIOUS
  <1>1. CASE SearchNotes
    <2>1. PICK q \in Asked : Search(q, 0)
      BY <1>1 DEF SearchNotes, SearchFirst
    <2> QED
      BY <2>1, SearchAnswers DEF PagesInv
  <1>2. CASE SearchNext
    <2>1. step = "answered" /\ offset # None /\ Search(ask, offset)
      BY <1>2 DEF SearchNext
    <2>2. offset \in Nat
      BY <2>1 DEF PagesInv, Answering, Offsets
    <2> QED
      BY <2>1, <2>2, SearchAnswers DEF PagesInv
  <1>3. CASE ~ (SearchNotes \/ SearchNext)
    <2>1. step' \in Answering => step \in Answering /\ offset' = offset
      BY <1>3 DEF ReadingNext, LoadNotes, WithParts, AttachLocations, ExportMyData, Start, WritePages, WriteCategories,
                  WriteNotes, WriteParts, WriteVersions, CopyFiles, CopyFile, OpenFile, ReadFile, CutShort, FinishExport,
                  Close, WriteMeanwhile, Meanwhile, readingVars, requestVars, Answering
    <2> QED
      BY <2>1 DEF PagesInv
  <1> QED
    BY <1>1, <1>2, <1>3

LEMMA AnswersFit == AnswerInv => AnswersAgree
  <1> SUFFICES ASSUME AnswerInv, step = "answered" PROVE AnswersAgree
    BY DEF AnswersAgree
  <1>1. /\ Complete(snap) /\ \A i \in DOMAIN hits : Matching(snap, ask, hits[i])
        /\ out.notes = NotesByIDs(snap, Hits) /\ out.parts = ListNoteParts(snap, Hits)
        /\ out.places = NoteLocations(snap, {n \in Hits : snap.note[n].category # None})
    BY DEF AnswerInv, Answering
  <1>2. DOMAIN out.notes = Hits /\ \A n \in Hits : out.notes[n] = snap.note[n]
    BY <1>1, HitsAreLoaded
  <1>3. \A n \in Hits : Matching(snap, ask, n)
    BY <1>1 DEF Hits
  <1>4. ASSUME NEW n \in Hits
        PROVE  /\ n \in DOMAIN out.notes /\ out.notes[n].state \in States(ask)
               /\ ask.category # None => out.notes[n].category = ask.category
               /\ out.notes[n].category # None =>
                    /\ n \in DOMAIN out.places /\ out.places[n].category = out.notes[n].category
                    /\ ask.page # None => out.places[n].page = ask.page
               /\ \E p \in DOMAIN out.parts : out.parts[p].note = n
                    /\ (Count[Body(out.parts[p])] > 0 \/ Body(out.parts[p]) \in Inside)
    <2>1. /\ Filters(snap, ask, n)
          /\ \E p \in PartsIn(snap, {n}) : Count[Body(snap.part[p])] > 0 \/ Body(snap.part[p]) \in Inside
      BY <1>3 DEF Matching
    <2>2. PICK p \in Parts : snap.part[p].note = n /\ (Count[Body(snap.part[p])] > 0 \/ Body(snap.part[p]) \in Inside)
      BY <2>1 DEF PartsIn
    <2>3. p \in DOMAIN out.parts /\ out.parts[p] = snap.part[p]
      BY <1>1, <2>2 DEF ListNoteParts, RowsOf, PartsIn
    <2>4. ASSUME snap.note[n].category # None
          PROVE  /\ n \in DOMAIN out.places /\ out.places[n].category = snap.note[n].category
                 /\ out.places[n].page = snap.category[snap.note[n].category].page
      BY <1>1, <2>4 DEF NoteLocations
    <2>5. /\ snap.note[n].state \in States(ask)
          /\ ask.category # None => snap.note[n].category = ask.category
          /\ ask.page # None => snap.category[snap.note[n].category].page = ask.page
      BY <2>1 DEF Filters
    <2> QED
      BY <1>2, <2>2, <2>3, <2>4, <2>5
  <1> QED
    BY <1>4 DEF AnswersAgree

-----------------------------------------------------------------------------
(* Reading results to the end: every note that was found all the time is   *)
(* among the results that were read or are being loaded, or comes behind   *)
(* where the next page begins; unless others ceased to be found.  Notes    *)
(* that were found inside words are there, or a page is full of others.    *)
Coming == IF step = "answered" THEN seen ELSE seen \o hits

IsIn(s, n)   == \E i \in DOMAIN s : s[i] = n
IsOnce(s, n) == \A i, j \in DOMAIN s : s[i] = n /\ s[j] = n => i = j

(* Found by its words, or inside them.                                     *)
Stays(v, q, n) == IF Score(v, n) > 0 THEN n \in Results(v, q) ELSE n \in Inner(v, q)

PagingInv ==
  step \in Answering =>
    /\ seen \in Seq(Notes) /\ Coming \in Seq(Notes) /\ \A n \in stayed : Stays(Present, ask, n)
    /\ "lost" \notin drift =>
         \A n \in stayed \cap Results(Present, ask) :
           /\ IsIn(Coming, n) \/ BehindPage(Present, ask, offset, n)
           /\ drift = {} => IsOnce(Coming, n) /\ (BehindPage(Present, ask, offset, n) => ~ IsIn(Coming, n))
    /\ \A n \in stayed \ Results(Present, ask) :
         /\ IsIn(Coming, n) \/ Len(Coming) >= PageSize
         /\ drift = {} => IsOnce(Coming, n) /\ Results(Present, ask) = {}

(* What is in one sequence behind another.                                 *)
LEMMA JoinedResults ==
  ASSUME NEW s \in Seq(Notes), NEW t \in Seq(Notes), NEW n
  PROVE  /\ s \o t \in Seq(Notes) /\ Len(s) \in Nat /\ Len(t) \in Nat /\ Len(s \o t) = Len(s) + Len(t)
         /\ IsIn(s \o t, n) <=> IsIn(s, n) \/ IsIn(t, n)
         /\ IsOnce(s, n) /\ IsOnce(t, n) /\ ~ (IsIn(s, n) /\ IsIn(t, n)) => IsOnce(s \o t, n)
  <1> DEFINE st == s \o t
  <1>1. PICK k \in Nat : k = Len(s) /\ DOMAIN s = 1 .. k
    BY LenProperties
  <1>2. PICK l \in Nat : l = Len(t) /\ DOMAIN t = 1 .. l
    BY LenProperties
  <1>3. /\ st \in Seq(Notes) /\ Len(st) = k + l
        /\ \A i \in 1 .. k + l : st[i] = IF i <= k THEN s[i] ELSE t[i - k]
    BY <1>1, <1>2, ConcatProperties
  <1> HIDE DEF st
  <1>4. DOMAIN st = 1 .. k + l
    BY <1>3, LenProperties
  <1>5. \A i \in 1 .. k : i \in DOMAIN st /\ st[i] = s[i]
    BY <1>3, <1>4
  <1>6. \A i \in 1 .. l : k + i \in DOMAIN st /\ st[k + i] = t[i]
    <2> SUFFICES ASSUME NEW i \in 1 .. l PROVE k + i \in DOMAIN st /\ st[k + i] = t[i]
      OBVIOUS
    <2>1. k + i \in 1 .. k + l /\ ~ (k + i <= k) /\ (k + i) - k = i
      OBVIOUS
    <2> QED
      BY <1>3, <1>4, <2>1
  <1>7. ASSUME NEW i \in DOMAIN st
        PROVE  \/ i \in DOMAIN s /\ st[i] = s[i]
               \/ i - k \in DOMAIN t /\ st[i] = t[i - k] /\ i > k
    <2>1. i \in 1 .. k + l
      BY <1>4
    <2>2. CASE i <= k
      <3>1. i \in 1 .. k /\ st[i] = s[i]
        BY <1>3, <2>1, <2>2
      <3> QED
        BY <1>1, <3>1
    <2>3. CASE ~ (i <= k)
      <3>1. i - k \in 1 .. l /\ i > k /\ st[i] = t[i - k]
        BY <1>3, <2>1, <2>3
      <3> QED
        BY <1>2, <3>1
    <2> QED
      BY <2>2, <2>3
  <1>8. IsIn(st, n) <=> IsIn(s, n) \/ IsIn(t, n)
    BY <1>1, <1>2, <1>5, <1>6, <1>7 DEF IsIn
  <1>9. ASSUME IsOnce(s, n), IsOnce(t, n), ~ (IsIn(s, n) /\ IsIn(t, n)) PROVE IsOnce(st, n)
    <2>1. ASSUME NEW i \in DOMAIN st, NEW j \in DOMAIN st, st[i] = n, st[j] = n PROVE i = j
      <3>1. CASE IsIn(s, n)
        <4>1. i \in DOMAIN s /\ s[i] = n /\ j \in DOMAIN s /\ s[j] = n
          BY <1>7, <1>9, <2>1, <3>1 DEF IsIn
        <4> QED
          BY <1>9, <4>1 DEF IsOnce
      <3>2. CASE ~ IsIn(s, n)
        <4>1. i - k \in DOMAIN t /\ t[i - k] = n /\ j - k \in DOMAIN t /\ t[j - k] = n
          BY <1>7, <2>1, <3>2 DEF IsIn
        <4>2. i - k = j - k
          BY <1>9, <4>1 DEF IsOnce
        <4>3. i \in Int /\ j \in Int
          BY <1>4
        <4> QED
          BY <4>2, <4>3
      <3> QED
        BY <3>1, <3>2
    <2> QED
      BY <2>1 DEF IsOnce
  <1>10. Len(s) \in Nat /\ Len(t) \in Nat /\ Len(st) = Len(s) + Len(t)
    BY <1>1, <1>2, <1>3
  <1> QED
    BY <1>3, <1>8, <1>9, <1>10 DEF st

(* A page of results is asked for.                                         *)
LEMMA SearchKeepsPaging ==
  ASSUME Account, NEW q, NEW from \in Nat, Search(q, from), ask' = q, UNCHANGED boardSpecVars,
         seen' \in Seq(Notes), \A n \in stayed' : Stays(Present, q, n),
         "lost" \notin drift' =>
           \A n \in stayed' \cap Results(Present, q) :
             /\ IsIn(seen', n) \/ PlaceOf(Present, q, n) > from
             /\ drift' = {} => IsOnce(seen', n) /\ (PlaceOf(Present, q, n) > from => ~ IsIn(seen', n)),
         \A n \in stayed' \ Results(Present, q) :
           /\ \/ seen' = <<>> /\ from = 0 /\ LongEnough /\ Results(Present, q) = {}
              \/ IsIn(seen', n) \/ Len(seen') >= PageSize
           /\ drift' = {} =>
                /\ Results(Present, q) = {}
                /\ (seen' = <<>> /\ LongEnough) \/ (from # 0 /\ IsOnce(seen', n))
  PROVE  PagingInv'
  <1>1. Present' = Present
    BY DEF Present, boardSpecVars, vars, noteVars, boardVars
  <1>2. /\ hits' \in Seq(Notes) /\ offset' \in Offsets /\ (offset' = None \/ offset' > from)
        /\ \A n \in Results(Present, q) :
             /\ IsIn(hits', n) <=> PlaceOf(Present, q, n) > from /\ ~ BehindPage(Present, q, offset', n)
             /\ IsOnce(hits', n)
        /\ Results(Present, q) = {} /\ from = 0 /\ LongEnough =>
             \A n \in Inner(Present, q) : (IsIn(hits', n) \/ Len(hits') >= PageSize) /\ IsOnce(hits', n)
        /\ Results(Present, q) = {} /\ from # 0 => DOMAIN hits' = {}
    BY SearchAnswers DEF IsIn, IsOnce
  <1>3. Coming' = seen' \o hits'
    BY DEF Search, Coming
  <1>4. ASSUME NEW n \in Results(Present, q), BehindPage(Present, q, offset', n) PROVE PlaceOf(Present, q, n) > from
    <2>1. offset' \in Nat /\ offset' > from /\ PlaceOf(Present, q, n) > offset'
      BY <1>2, <1>4 DEF BehindPage, Offsets
    <2>2. PlaceOf(Present, q, n) \in Nat
      BY AccountIsComplete, SearchIs DEF PlaceOf
    <2> QED
      BY <2>1, <2>2
  <1>5. ASSUME "lost" \notin drift', NEW n \in stayed' \cap Results(Present, q)
        PROVE  /\ IsIn(Coming', n) \/ BehindPage(Present, q, offset', n)
               /\ drift' = {} => IsOnce(Coming', n) /\ (BehindPage(Present, q, offset', n) => ~ IsIn(Coming', n))
    <2>1. n \in Results(Present, q)
      OBVIOUS
    <2>2. /\ IsIn(Coming', n) <=> IsIn(seen', n) \/ IsIn(hits', n)
          /\ IsOnce(seen', n) /\ IsOnce(hits', n) /\ ~ (IsIn(seen', n) /\ IsIn(hits', n)) => IsOnce(Coming', n)
      BY <1>2, <1>3, JoinedResults
    <2> QED
      BY <1>2, <1>4, <1>5, <2>1, <2>2
  <1>6. Coming' \in Seq(Notes)
    BY <1>2, <1>3, JoinedResults
  <1>7. ASSUME NEW n \in stayed' \ Results(Present, q)
        PROVE  /\ IsIn(Coming', n) \/ Len(Coming') >= PageSize
               /\ drift' = {} => IsOnce(Coming', n) /\ Results(Present, q) = {}
    <2>1. n \in Inner(Present, q)
      BY <1>7 DEF Stays
    <2>2. /\ Len(seen') \in Nat /\ Len(hits') \in Nat /\ Len(Coming') = Len(seen') + Len(hits')
          /\ IsIn(Coming', n) <=> IsIn(seen', n) \/ IsIn(hits', n)
          /\ IsOnce(seen', n) /\ IsOnce(hits', n) /\ ~ (IsIn(seen', n) /\ IsIn(hits', n)) => IsOnce(Coming', n)
      BY <1>2, <1>3, JoinedResults
    <2>3. PageSize \in Nat
      BY BoardAssumption
    <2>4. seen' = <<>> => ~ IsIn(seen', n) /\ IsOnce(seen', n)
      BY EmptySeq DEF IsIn, IsOnce
    <2>5. IsIn(Coming', n) \/ Len(Coming') >= PageSize
      <3>1. CASE seen' = <<>> /\ from = 0 /\ LongEnough /\ Results(Present, q) = {}
        BY <1>2, <2>1, <2>2, <2>3, <3>1
      <3>2. CASE IsIn(seen', n) \/ Len(seen') >= PageSize
        BY <2>2, <2>3, <3>2
      <3> QED
        BY <1>7, <3>1, <3>2
    <2>6. ASSUME drift' = {} PROVE IsOnce(Coming', n) /\ Results(Present, q) = {}
      <3>1. /\ Results(Present, q) = {}
            /\ (seen' = <<>> /\ LongEnough) \/ (from # 0 /\ IsOnce(seen', n))
        BY <1>7, <2>6
      <3>2. from # 0 => IsOnce(hits', n) /\ ~ IsIn(hits', n)
        BY <1>2, <3>1 DEF IsIn, IsOnce
      <3>3. from = 0 => IsOnce(hits', n) /\ ~ IsIn(seen', n) /\ IsOnce(seen', n)
        BY <1>2, <2>1, <2>4, <3>1
      <3> QED
        BY <2>2, <2>4, <3>1, <3>2, <3>3
    <2> QED
      BY <2>5, <2>6
  <1> QED
    BY <1>1, <1>5, <1>6, <1>7 DEF PagingInv, IsIn, IsOnce, Stays, Results, Inner

LEMMA SearchFirstKeepsPaging ==
  ASSUME Account, SearchNotes
  PROVE  PagingInv'
  <1>1. PICK q \in Asked : SearchFirst(q)
    BY DEF SearchNotes
  <1>2. /\ Search(q, 0) /\ ask' = q /\ UNCHANGED boardSpecVars /\ seen' = <<>>
        /\ stayed' = FoundBy(Present, q)
    BY <1>1 DEF SearchFirst
  <1>3. \A n \in stayed' : Stays(Present, q, n)
    <2> SUFFICES ASSUME NEW n \in stayed' PROVE Stays(Present, q, n)
      OBVIOUS
    <2>1. n \in Notes /\ (Found(Present, q, n) \/ FoundInside(Present, q, n))
      BY <1>2 DEF FoundBy
    <2>2. Found(Present, q, n) <=> Filters(Present, q, n) /\ Score(Present, n) > 0
      BY DEF Found
    <2>3. FoundInside(Present, q, n) => Filters(Present, q, n)
      BY DEF FoundInside
    <2> QED
      BY <2>1, <2>2, <2>3 DEF Stays, Results, Inner
  <1>6. \A n \in stayed' \ Results(Present, q) : LongEnough /\ Results(Present, q) = {}
    BY <1>2 DEF FoundBy, Results
  <1>4. seen' \in Seq(Notes) /\ \A n : ~ IsIn(seen', n) /\ IsOnce(seen', n)
    <2>1. <<>> \in Seq(Notes) /\ DOMAIN <<>> = {}
      BY EmptySeq
    <2> QED
      BY <1>2, <2>1 DEF IsIn, IsOnce
  <1>5. \A n \in Results(Present, q) : PlaceOf(Present, q, n) > 0
    <2>1. /\ Cardinality(Results(Present, q)) \in Nat
          /\ \A n \in Results(Present, q) : PlaceOf(Present, q, n) \in 1 .. Cardinality(Results(Present, q))
      BY AccountIsComplete, SearchIs DEF PlaceOf
    <2> QED
      BY <2>1
  <1> QED
    BY <1>2, <1>3, <1>4, <1>5, <1>6, SearchKeepsPaging

LEMMA SearchNextKeepsPaging ==
  ASSUME Account, PagesInv, PagingInv, SearchNext
  PROVE  PagingInv'
  <1>1. /\ step = "answered" /\ offset # None /\ Search(ask, offset) /\ ask' = ask /\ UNCHANGED boardSpecVars
        /\ seen' = seen /\ stayed' = stayed /\ drift' = drift
    BY DEF SearchNext
  <1>2. step \in Answering /\ Coming = seen
    BY <1>1 DEF Answering, Coming
  <1>3. offset \in Nat /\ offset # 0
    BY <1>1, <1>2 DEF PagesInv, Offsets
  <1>4. /\ seen \in Seq(Notes) /\ \A n \in stayed : Stays(Present, ask, n)
        /\ "lost" \notin drift =>
             \A n \in stayed \cap Results(Present, ask) :
               /\ IsIn(seen, n) \/ BehindPage(Present, ask, offset, n)
               /\ drift = {} => IsOnce(seen, n) /\ (BehindPage(Present, ask, offset, n) => ~ IsIn(seen, n))
        /\ \A n \in stayed \ Results(Present, ask) :
             /\ IsIn(seen, n) \/ Len(seen) >= PageSize
             /\ drift = {} => IsOnce(seen, n) /\ Results(Present, ask) = {}
    BY <1>2 DEF PagingInv
  <1>5. \A n : BehindPage(Present, ask, offset, n) <=> PlaceOf(Present, ask, n) > offset
    BY <1>1 DEF BehindPage
  <1> QED
    BY <1>1, <1>3, <1>4, <1>5, SearchKeepsPaging

(* Loading what was found changes nothing of it.                           *)
LEMMA LoadKeepsPaging ==
  ASSUME AnswerInv, PagingInv, LoadNotes \/ WithParts \/ AttachLocations
  PROVE  PagingInv'
  <1>1. /\ step \in Answering /\ step # "answered" /\ UNCHANGED <<boardSpecVars, ask, offset, stayed, drift>>
    BY DEF LoadNotes, WithParts, AttachLocations, Answering
  <1>2. Present' = Present
    BY <1>1 DEF Present, boardSpecVars, vars, noteVars, boardVars
  <1>3. hits' = hits /\ hits \in Seq(Notes)
    BY <1>1, HitsStay DEF LoadNotes, WithParts, AnswerInv
  <1>4. Coming' = Coming /\ (seen' = seen \/ seen' = seen \o hits)
    BY <1>1, <1>3 DEF LoadNotes, WithParts, AttachLocations, Coming
  <1>5. seen' \in Seq(Notes)
    <2>1. seen \in Seq(Notes)
      BY <1>1 DEF PagingInv
    <2>2. seen \o hits \in Seq(Notes)
      BY <1>3, <2>1, JoinedResults
    <2> QED
      BY <1>4, <2>1, <2>2
  <1> QED
    BY <1>1, <1>2, <1>4, <1>5 DEF PagingInv, IsIn, IsOnce, Stays

(* A result does not move forward while no other one ceases to be found,   *)
(* and keeps its place while none comes in between.                        *)
LEMMA PlacesStay ==
  ASSUME Account, Meanwhile, ask # None, "lost" \notin drift', NEW n \in Results(Present, ask)
  PROVE  /\ n \in Results(Present', ask')
         /\ PlaceOf(Present, ask, n) \in Nat /\ PlaceOf(Present', ask', n) \in Nat
         /\ PlaceOf(Present, ask, n) <= PlaceOf(Present', ask', n)
         /\ drift' = {} => PlaceOf(Present', ask', n) = PlaceOf(Present, ask, n)
  <1> DEFINE v == Present
  <1> DEFINE w == Present'
  <1> DEFINE q == ask
  <1> DEFINE F == Results(v, q)
  <1> DEFINE G == Results(w, q)
  <1>1. ask' = q
    BY DEF Meanwhile, requestVars
  <1>2. Account' /\ Lasting
    BY AccountWritten
  <1>3. Complete(v) /\ Complete(w)
    <2>1. Account' => Complete(Present)'
      BY AccountIsComplete, PTL
    <2> QED
      BY <1>2, <2>1, AccountIsComplete
  <1>4. /\ drift' = drift
             \cup (IF \E m \in Notes : Found(Present, ask, m) /\ ~ SameHit(m) THEN {"lost"} ELSE {})
             \cup (IF \E m \in Notes : Found(Present, ask, m)' /\ ~ (Found(Present, ask, m) /\ SameHit(m))
                   THEN {"gained"} ELSE {})
    BY DEF Meanwhile, Noticed
  <1>5. \A m \in Notes : Found(v, q, m) => Found(w, q, m) /\ Score(w, m) = Score(v, m)
    BY <1>1, <1>4 DEF SameHit, Found
  <1>6. drift' = {} => \A m \in Notes : Found(w, q, m) => Found(v, q, m)
    BY <1>1, <1>4
  <1>7. \A m \in Notes : note[m].state # "absent" /\ note'[m].state # "absent" => note'[m].created = note[m].created
    BY <1>2 DEF Lasting
  <1>8. v.note = note /\ w.note = note'
    BY DEF Present
  <1> HIDE DEF v, w, q
  <1>9. F \subseteq G /\ (drift' = {} => F = G) /\ F \subseteq Notes /\ G \subseteq Notes
    BY <1>5, <1>6 DEF Results
  <1>10. ASSUME NEW m \in F PROVE Score(w, m) = Score(v, m) /\ w.note[m].created = v.note[m].created
    <2>1. m \in Notes /\ Found(v, q, m) /\ Found(w, q, m)
      BY <1>5 DEF Results
    <2>2. v.note[m].state # "absent" /\ w.note[m].state # "absent"
      BY <2>1, FoundNotesExist DEF Found
    <2> QED
      BY <1>5, <1>7, <1>8, <2>1, <2>2
  <1>11. ASSUME NEW m \in F, NEW k \in F PROVE <<m, k>> \in ByScore(v) <=> <<m, k>> \in ByScore(w)
    BY <1>9, <1>10 DEF ByScore, Better
  <1>12. n \in F
    BY DEF q, v
  <1>13. NotBehind(F, ByScore(v), n) \in SUBSET NotBehind(G, ByScore(w), n)
    BY <1>9, <1>11, <1>12 DEF NotBehind
  <1>14. IsFiniteSet(G) /\ IsFiniteSet(F)
    BY <1>3, <1>9, ResultsAreOrdered
  <1>15. NotBehind(G, ByScore(w), n) \in SUBSET G /\ NotBehind(F, ByScore(v), n) \in SUBSET F
    BY DEF NotBehind
  <1>16. /\ IsFiniteSet(NotBehind(G, ByScore(w), n)) /\ IsFiniteSet(NotBehind(F, ByScore(v), n))
    BY <1>14, <1>15, FS_Subset
  <1>17. /\ PlaceOf(v, q, n) \in Nat /\ PlaceOf(w, q, n) \in Nat
         /\ PlaceOf(v, q, n) <= PlaceOf(w, q, n)
    BY <1>13, <1>16, FS_Subset, FS_CardinalityType DEF PlaceOf, RankIn
  <1>18. ASSUME drift' = {} PROVE PlaceOf(w, q, n) = PlaceOf(v, q, n)
    <2>1. NotBehind(F, ByScore(v), n) = NotBehind(G, ByScore(w), n)
      BY <1>9, <1>11, <1>12, <1>18 DEF NotBehind
    <2> QED
      BY <2>1 DEF PlaceOf, RankIn
  <1> QED
    BY <1>1, <1>9, <1>12, <1>17, <1>18 DEF q, v, w

LEMMA WritesKeepPaging ==
  ASSUME Account, PagesInv, AnswerInv, PagingInv, Meanwhile
  PROVE  PagingInv'
  <1> SUFFICES ASSUME step' \in Answering PROVE PagingInv'
    BY DEF PagingInv
  <1>1. UNCHANGED <<step, ask, hits, offset, seen>>
    BY DEF Meanwhile, requestVars
  <1>2. step \in Answering /\ ask # None
    BY <1>1, ReadingAssumption DEF AnswerInv
  <1>3. /\ stayed' = {n \in stayed : SameHit(n)} /\ drift \subseteq drift'
    BY <1>2 DEF Meanwhile, Noticed
  <1>4. /\ seen \in Seq(Notes) /\ Coming \in Seq(Notes) /\ offset \in Offsets
        /\ \A n \in stayed : Stays(Present, ask, n)
    BY <1>2 DEF PagingInv, PagesInv
  <1>8. ASSUME NEW n \in stayed'
        PROVE  /\ n \in stayed /\ Stays(Present', ask', n)
               /\ n \in Results(Present, ask) <=> n \in Results(Present', ask')
    <2>1. n \in stayed /\ Score(Present', n) = Score(Present, n)
          /\ IF Score(Present, n) > 0 THEN Found(Present', ask', n) ELSE FoundInside(Present', ask', n)
      BY <1>1, <1>3, <1>8 DEF SameHit
    <2>2. IF Score(Present, n) > 0 THEN n \in Notes /\ Found(Present, ask, n) ELSE n \in Notes
      BY <1>4, <2>1 DEF Stays, Results, Inner
    <2> QED
      BY <2>1, <2>2 DEF Stays, Results, Inner, Found
  <1>6. Coming' = Coming
    BY <1>1 DEF Coming
  <1>7. ASSUME "lost" \notin drift', NEW n \in stayed' \cap Results(Present', ask')
        PROVE  /\ IsIn(Coming, n) \/ BehindPage(Present', ask', offset, n)
               /\ drift' = {} => IsOnce(Coming, n) /\ (BehindPage(Present', ask', offset, n) => ~ IsIn(Coming, n))
    <2>1. n \in stayed /\ n \in Results(Present, ask) /\ "lost" \notin drift /\ (drift' = {} => drift = {})
      BY <1>3, <1>7, <1>8
    <2>2. /\ IsIn(Coming, n) \/ BehindPage(Present, ask, offset, n)
          /\ drift = {} => IsOnce(Coming, n) /\ (BehindPage(Present, ask, offset, n) => ~ IsIn(Coming, n))
      BY <1>2, <2>1 DEF PagingInv
    <2>3. /\ PlaceOf(Present, ask, n) \in Nat /\ PlaceOf(Present', ask', n) \in Nat
          /\ PlaceOf(Present, ask, n) <= PlaceOf(Present', ask', n)
          /\ drift' = {} => PlaceOf(Present', ask', n) = PlaceOf(Present, ask, n)
      BY <1>2, <1>7, <2>1, PlacesStay
    <2>4. /\ BehindPage(Present, ask, offset, n) => BehindPage(Present', ask', offset, n)
          /\ drift' = {} => (BehindPage(Present', ask', offset, n) <=> BehindPage(Present, ask, offset, n))
      BY <1>4, <2>3 DEF BehindPage, Offsets
    <2> QED
      BY <2>1, <2>2, <2>4
  <1>9. ASSUME NEW n \in stayed' \ Results(Present', ask')
        PROVE  /\ IsIn(Coming, n) \/ Len(Coming) >= PageSize
               /\ drift' = {} => IsOnce(Coming, n) /\ Results(Present', ask') = {}
    <2>1. n \in stayed \ Results(Present, ask) /\ (drift' = {} => drift = {})
      BY <1>3, <1>8, <1>9
    <2>2. /\ IsIn(Coming, n) \/ Len(Coming) >= PageSize
          /\ drift = {} => IsOnce(Coming, n) /\ Results(Present, ask) = {}
      BY <1>2, <2>1 DEF PagingInv
    <2>3. drift' = {} => \A m \in Notes : Found(Present', ask', m) => Found(Present, ask, m)
      BY <1>2 DEF Meanwhile, Noticed
    <2> QED
      BY <2>1, <2>2, <2>3 DEF Results
  <1> QED
    BY <1>1, <1>4, <1>6, <1>7, <1>8, <1>9 DEF PagingInv, IsIn, IsOnce, Stays, Results, Inner

LEMMA NoPaging ==
  ASSUME PagingInv,
         \/ ExportMyData \/ WritePages \/ WriteCategories \/ WriteNotes \/ WriteParts \/ WriteVersions
         \/ CopyFiles \/ FinishExport \/ Close \/ UNCHANGED readingVars
  PROVE  PagingInv'
  <1>1. CASE step' \in Answering
    <2>1. UNCHANGED readingVars
      BY <1>1 DEF ExportMyData, Start, WritePages, WriteCategories, WriteNotes, WriteParts, WriteVersions,
                  CopyFiles, CopyFile, OpenFile, ReadFile, CutShort, FinishExport, Close, Answering
    <2>2. UNCHANGED <<step, ask, hits, offset, seen, stayed, drift, boardSpecVars>>
      BY <2>1 DEF readingVars, requestVars
    <2>3. Present' = Present /\ Coming' = Coming
      BY <2>2 DEF Present, Coming, boardSpecVars, vars, noteVars, boardVars
    <2> QED
      BY <2>2, <2>3 DEF PagingInv, IsIn, IsOnce, Stays
  <1>2. CASE step' \notin Answering
    BY <1>2 DEF PagingInv
  <1> QED
    BY <1>1, <1>2

LEMMA PagingStep ==
  Account /\ PagesInv /\ AnswerInv /\ PagingInv /\ [ReadingNext \/ Meanwhile]_readingVars => PagingInv'
  <1> SUFFICES ASSUME Account, PagesInv, AnswerInv, PagingInv, [ReadingNext \/ Meanwhile]_readingVars PROVE PagingInv'
    OBVIOUS
  <1> QED
    BY SearchFirstKeepsPaging, SearchNextKeepsPaging, LoadKeepsPaging, WritesKeepPaging, NoPaging, WritesAreOperations
       DEF ReadingNext

LEMMA AllAreSeen == Account /\ PagingInv => NothingSkipped
  <1> SUFFICES ASSUME PagingInv, Account, step = "answered", offset = None, "lost" \notin drift, NEW n \in stayed
               PROVE  /\ LeftBehind(n) \/ \E i \in DOMAIN seen : seen[i] = n
                      /\ drift = {} => \A i, j \in DOMAIN seen : seen[i] = n /\ seen[j] = n => i = j
    BY DEF NothingSkipped
  <1>1. Coming = seen /\ ~ BehindPage(Present, ask, offset, n)
    BY DEF Coming, BehindPage
  <1>2. Stays(Present, ask, n)
    BY DEF PagingInv, Answering
  <1>3. CASE n \in Results(Present, ask)
    <2>1. IsIn(seen, n) /\ (drift = {} => IsOnce(seen, n))
      BY <1>1, <1>3 DEF PagingInv, Answering
    <2> QED
      BY <2>1 DEF IsIn, IsOnce
  <1>4. CASE n \notin Results(Present, ask)
    <2>1. /\ IsIn(seen, n) \/ Len(seen) >= PageSize
          /\ drift = {} => IsOnce(seen, n)
      BY <1>1, <1>4 DEF PagingInv, Answering
    <2>2. n \in Notes /\ ~ (Score(Present, n) > 0)
      BY <1>2, <1>4 DEF Stays, Inner
    <2>3. Score(Present, n) \in Nat
      BY <2>2, AccountIsComplete, ScoresAreNumbers
    <2>4. Score(Present, n) = 0
      BY <2>2, <2>3
    <2> QED
      BY <2>1, <2>4 DEF IsIn, IsOnce, LeftBehind
  <1> QED
    BY <1>3, <1>4

-----------------------------------------------------------------------------
(* Requests of any account, in which other devices do what they like.      *)
RequestsInv == Account /\ ExportInv /\ PagesInv /\ AnswerInv /\ PagingInv

LEMMA RequestsBegin == Account /\ NoRequest => RequestsInv
  <1>1. NoRequest => ExportInv
    BY ExportInit
  <1>2. NoRequest => PagesInv /\ AnswerInv /\ PagingInv
    BY DEF NoRequest, PagesInv, AnswerInv, PagingInv, Answering
  <1> QED
    BY <1>1, <1>2 DEF RequestsInv

LEMMA RequestsStep == RequestsInv /\ [ReadingNext \/ Meanwhile]_readingVars => RequestsInv'
  BY AccountRead, ExportStep, PagesStep, AnswerStep, PagingStep DEF RequestsInv

(* An account in which any requests are served, one after the other, while *)
(* other devices do any of the operations, without the bounds of Reading.  *)
AnyRequests == Account /\ NoRequest /\ [][ReadingNext \/ Meanwhile]_readingVars

(* Whatever the operations did to an account before, starting empty, it is *)
(* one of which requests can make sense: every note has parts and a place  *)
(* that exists, every part is a text that is in its history or names a     *)
(* file that is stored.                                                    *)
THEOREM AccountsMakeSense == Init /\ [][Operation]_vars => []Account
  <1>1. Account /\ [Operation]_vars => Account'
    BY AccountKept, AccountStays
  <1> QED
    BY <1>1, AccountBegins, PTL

(* An export that was not cut short has every note that existed all the    *)
(* time, its place, its parts, the texts they show and the files they name,*)
(* whatever was written meanwhile (AUTH-U5; export.go).                    *)
THEOREM ArchivesAreWhole == AnyRequests => []ExportIsWhole
  <1> QED
    BY RequestsBegin, RequestsStep, WholeArchive, PTL DEF AnyRequests, RequestsInv

(* What a search shows of its hits is what made them hits, whatever was    *)
(* written between its statements (CR-030; search.go).                     *)
THEOREM SearchesAgree == AnyRequests => []AnswersAgree
  <1> QED
    BY RequestsBegin, RequestsStep, AnswersFit, PTL DEF AnyRequests, RequestsInv

(* Whoever reads the results of a search to the end has seen each note     *)
(* that was found all the time, unless others ceased to be found; and just *)
(* once, unless others were found anew (search.go).  Of notes found inside *)
(* words the search shows one page, and drops those behind it.             *)
THEOREM ResultsAreReadOnce == AnyRequests => []NothingSkipped
  <1> QED
    BY RequestsBegin, RequestsStep, AllAreSeen, PTL DEF AnyRequests, RequestsInv
=============================================================================
