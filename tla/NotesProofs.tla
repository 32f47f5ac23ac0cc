----------------------------- MODULE NotesProofs -----------------------------
(***************************************************************************)
(* What every operation on notes keeps, for the proofs about the modules   *)
(* that use them: that no file is the file of two parts, that browsers are *)
(* told of everything that changes, and what can happen to a part and its  *)
(* history, so that the text that is shown stays in it.  Nothing is        *)
(* assumed about how many notes, parts, files and devices there are.       *)
(*                                                                         *)
(* Positions play no part in this: what Place answers is a key for the     *)
(* item, and the other keys either all as they were or all rewritten.      *)
(***************************************************************************)
EXTENDS Notes, TLAPS, WellFoundedInduction

(* A row has these columns and nothing else.                               *)
IsRow(x, columns) == DOMAIN x = columns /\ x = [k \in columns |-> x[k]]

NoteColumns     == {"state", "category", "position", "created", "deleted"}
CategoryColumns == {"page", "position"}
PartColumns     == {"note", "ordinal", "kind", "text", "file", "source", "reason", "created", "edited"}

PartTable == DOMAIN part = Parts /\ \A p \in Parts : DOMAIN part[p] = PartColumns /\ part[p].file \in Files \cup {None}
NoteTable == DOMAIN note = Notes /\ \A n \in Notes : IsRow(note[n], NoteColumns)
CategoryTable == DOMAIN category = Categories /\ \A c \in Categories : IsRow(category[c], CategoryColumns)

Tables == PartTable /\ NoteTable /\ CategoryTable /\ DOMAIN page = Pages /\ DOMAIN file = Files

NotesInv == Tables /\ FilesBelongToOnePart

(* The operation tells browsers of everything it changes.                  *)
Informs == BrowsersSeeEverything => BrowsersSeeEverything'

-----------------------------------------------------------------------------
(* Every set of numbers has a least: what stands in for induction.         *)
LEMMA LeastNumber ==
  ASSUME NEW S, S \subseteq Nat, S # {}
  PROVE  \E m \in S : \A k \in S : m <= k
  <1>1. IsWellFoundedOn(OpToRel(<, Nat), Nat)
    BY NatLessThanWellFounded
  <1>2. PICK m \in S : \A k \in S : ~ (<<k, m>> \in OpToRel(<, Nat))
    BY <1>1, WFMin
  <1>3. ASSUME NEW k \in S PROVE m <= k
    <2>1. ~ (<<k, m>> \in OpToRel(<, Nat))
      BY <1>2
    <2>2. ~ (k < m)
      BY <2>1 DEF OpToRel
    <2> QED
      BY <2>2
  <1> QED
    BY <1>3

-----------------------------------------------------------------------------
(* A browser is told enough when every note, category and page it is not   *)
(* told of stays as it is, the parts of the notes included.                *)
LEMMA ToldIsEnough ==
  ASSUME BrowsersSeeEverything, NEW S, Change(S),
         \A n \in Notes \ S : note'[n] = note[n],
         \A n \in Notes \ S : \A p \in Parts : part'[p] = part[p] \/ (part[p].note # n /\ part'[p].note # n),
         \A c \in Categories \ S : category'[c] = category[c],
         \A g \in Pages \ S : page'[g] = page[g]
  PROVE  BrowsersSeeEverything'
  <1>1. ASSUME NEW e \in Entities PROVE view'[e] = Shown(e)'
    <2>1. view'[e] = IF e \in S THEN Shown(e)' ELSE view[e]
      BY Zenon DEF Change
    <2>2. CASE e \notin S
      <3>1. view[e] = Shown(e)
        BY DEF BrowsersSeeEverything
      <3>2. CASE e \in Notes
        <4>0. e \notin Categories /\ e \notin Pages
          BY <3>2, NotesAssumption
        <4>1. Shown(e) = [row |-> note[e], parts |-> [p \in PartsOf(e) |-> part[p]]]
          BY <3>2, <4>0 DEF Shown
        <4>6. Shown(e)' = [row |-> note'[e], parts |-> [p \in PartsOf(e)' |-> part'[p]]]
          BY <3>2, <4>0 DEF Shown
        <4>2. note'[e] = note[e]
          BY <2>2, <3>2
        <4>3. PartsOf(e)' = PartsOf(e)
          BY <2>2, <3>2 DEF PartsOf
        <4>4. \A p \in PartsOf(e) : part'[p] = part[p]
          BY <2>2, <3>2 DEF PartsOf
        <4>5. [p \in PartsOf(e)' |-> part'[p]] = [p \in PartsOf(e) |-> part[p]]
          BY <4>3, <4>4
        <4> QED
          BY <2>1, <2>2, <3>1, <4>1, <4>2, <4>5, <4>6
      <3>3. CASE e \in Categories
        BY <2>1, <2>2, <3>1, <3>3, NotesAssumption DEF Shown
      <3>4. CASE e \in Pages
        BY <2>1, <2>2, <3>1, <3>4, NotesAssumption DEF Shown
      <3> QED
        BY <3>2, <3>3, <3>4 DEF Entities
    <2> QED
      BY <2>1, <2>2
  <1> QED
    BY <1>1 DEF BrowsersSeeEverything

LEMMA NothingToTell ==
  ASSUME BrowsersSeeEverything, UNCHANGED <<note, part, category, page, view>>
  PROVE  BrowsersSeeEverything'
  <1>1. \A e \in Entities : Shown(e)' = Shown(e)
    BY DEF Shown, PartsOf
  <1> QED
    BY <1>1 DEF BrowsersSeeEverything

LEMMA NothingStored ==
  ASSUME NotesInv, UNCHANGED <<note, part, category, page, file>>
  PROVE  NotesInv'
  BY DEF NotesInv, Tables, NoteTable, PartTable, CategoryTable, FilesBelongToOnePart, GetAttachment

(* The keys a place was found among are those that are there, or all of    *)
(* them are written anew.                                                  *)
LEMMA PlaceAnswers ==
  ASSUME NEW keys, NEW h, NEW none, NEW p \in Place(keys, h, none)
  PROVE  \/ p.keys = keys /\ p.rekeyed = {}
         \/ p.rekeyed = DOMAIN keys /\ DOMAIN p.keys = DOMAIN keys
  <1> DEFINE even == {[key |-> k, keys |-> keys, rekeyed |-> {}] :
                        k \in {x \in KeysFor(keys, h, none) : Len(x) <= MaxLength}}
  <1> DEFINE K == IF \E x \in KeysFor(keys, h, none) : Len(x) > MaxLength
                  THEN KeysFor(Rebalanced(keys), h, none) ELSE {}
  <1> DEFINE anew == {[key |-> k, keys |-> Rebalanced(keys), rekeyed |-> DOMAIN keys] : k \in K}
  <1>1. p \in even \cup anew
    BY DEF Place
  <1>2. DOMAIN Rebalanced(keys) = DOMAIN keys
    BY DEF Rebalanced
  <1>3. CASE p \in even
    BY <1>3
  <1>4. CASE p \in anew
    <2> HIDE DEF K
    <2> QED
      BY <1>2, <1>4
  <1> QED
    BY <1>1, <1>3, <1>4

(* Notes that are not rewritten keep their rows.                           *)
LEMMA RekeyedNotes ==
  ASSUME NoteTable, NEW c, NEW x, NEW h, NEW p \in PlaceNote(c, x, h)
  PROVE  /\ DOMAIN RekeyNotes(p.keys) = Notes
         /\ \A n \in Notes : IsRow(RekeyNotes(p.keys)[n], NoteColumns)
         /\ \A n \in Notes \ p.rekeyed : RekeyNotes(p.keys)[n] = note[n]
  <1> DEFINE keys == NoteKeys(c, x)
  <1>1. DOMAIN keys \subseteq Notes /\ \A n \in DOMAIN keys : keys[n] = note[n].position
    BY DEF NoteKeys
  <1>2. \/ p.keys = <<>> /\ p.rekeyed = {}
        \/ p.keys = keys /\ p.rekeyed = {}
        \/ p.rekeyed = DOMAIN keys /\ DOMAIN p.keys = DOMAIN keys
    <2>1. CASE c = None
      BY <2>1 DEF PlaceNote
    <2>2. CASE c # None
      <3>1. p \in Place(keys, h, None)
        BY <2>2 DEF PlaceNote
      <3> QED
        BY <3>1, PlaceAnswers
    <2> QED
      BY <2>1, <2>2
  <1>3. ASSUME NEW n \in Notes
        PROVE  RekeyNotes(p.keys)[n] = IF n \in DOMAIN p.keys THEN [note[n] EXCEPT !.position = p.keys[n]] ELSE note[n]
    BY DEF RekeyNotes
  <1>4. \A n \in Notes : DOMAIN note[n] = NoteColumns /\ note[n] = [k \in NoteColumns |-> note[n][k]]
    BY DEF NoteTable, IsRow
  <1> HIDE DEF keys
  <1>5. ASSUME NEW n \in Notes PROVE IsRow(RekeyNotes(p.keys)[n], NoteColumns)
    <2>1. DOMAIN note[n] = NoteColumns /\ note[n] = [k \in NoteColumns |-> note[n][k]]
      BY <1>4
    <2>2. CASE n \in DOMAIN p.keys
      <3>1. RekeyNotes(p.keys)[n] = [note[n] EXCEPT !.position = p.keys[n]]
        BY <1>3, <2>2
      <3> QED
        BY <2>1, <3>1 DEF IsRow
    <2>3. CASE n \notin DOMAIN p.keys
      BY <1>3, <2>1, <2>3 DEF IsRow
    <2> QED
      BY <2>2, <2>3
  <1>6. ASSUME NEW n \in Notes \ p.rekeyed PROVE RekeyNotes(p.keys)[n] = note[n]
    <2>1. CASE n \in DOMAIN p.keys
      <3>1. p.keys = keys \/ p.keys = <<>>
        BY <1>2, <2>1
      <3>2. DOMAIN <<>> = {}
        OBVIOUS
      <3>3. p.keys[n] = note[n].position
        BY <1>1, <2>1, <3>1, <3>2
      <3>4. RekeyNotes(p.keys)[n] = [note[n] EXCEPT !.position = note[n].position]
        BY <1>3, <2>1, <3>3
      <3>5. DOMAIN note[n] = NoteColumns /\ note[n] = [k \in NoteColumns |-> note[n][k]]
        BY <1>4
      <3> QED
        BY <3>4, <3>5
    <2>2. CASE n \notin DOMAIN p.keys
      BY <1>3, <2>2
    <2> QED
      BY <2>1, <2>2
  <1> QED
    BY <1>5, <1>6 DEF RekeyNotes

(* A row that is inserted leaves the others.                               *)
LEMMA NoteInserted ==
  ASSUME NEW rows, DOMAIN rows = Notes, \A n \in Notes : IsRow(rows[n], NoteColumns),
         NEW n \in Notes, NEW c, NEW key, NEW time, note' = InsertNoteAt(rows, n, c, key, time)
  PROVE  NoteTable' /\ \A m \in Notes : m # n => note'[m] = rows[m]
  <1>1. note'[n] = [state |-> "active", category |-> c, position |-> key, created |-> time, deleted |-> 0]
    BY DEF InsertNoteAt
  <1>2. DOMAIN note' = Notes /\ \A m \in Notes : m # n => note'[m] = rows[m]
    BY DEF InsertNoteAt
  <1>3. IsRow(note'[n], NoteColumns)
    BY <1>1 DEF IsRow, NoteColumns
  <1> QED
    BY <1>2, <1>3 DEF NoteTable

(* The rows of parts after some were inserted.                             *)
InsertedRow(n, ordinal, in, time) ==
  [note |-> n, ordinal |-> ordinal, kind |-> in.kind, text |-> in.text, file |-> in.file, source |-> in.source,
   reason |-> in.reason, created |-> time, edited |-> None]

LEMMA InsertedParts ==
  ASSUME PartTable, NEW n, NEW ids, NEW ins, NEW first, NEW origin, NEW time,
         InsertParts(n, ids, ins, first, origin, time),
         \A i, j \in DOMAIN ids : ids[i] = ids[j] => i = j
  PROVE  /\ DOMAIN part' = Parts
         /\ \A i \in DOMAIN ids : ids[i] \in Parts => part'[ids[i]] = InsertedRow(n, first + i - 1, ins[i], time)
         /\ \A p \in Parts : (\A i \in DOMAIN ids : ids[i] # p) => part'[p] = part[p]
  <1> DEFINE k(p) == CHOOSE i \in DOMAIN ids : ids[i] = p
  <1> DEFINE g(p) == InsertNotePart(part, p, n, first + k(p) - 1, ins[k(p)], time)[p]
  <1>1. part' = [p \in Parts |-> IF \E i \in DOMAIN ids : ids[i] = p THEN g(p) ELSE part[p]]
    BY DEF InsertParts
  <1>2. ASSUME NEW i \in DOMAIN ids, ids[i] \in Parts
        PROVE  part'[ids[i]] = InsertedRow(n, first + i - 1, ins[i], time)
    <2>1. k(ids[i]) = i
      OBVIOUS
    <2> HIDE DEF k
    <2>2. part'[ids[i]] = InsertNotePart(part, ids[i], n, first + i - 1, ins[i], time)[ids[i]]
      BY <1>1, <1>2, <2>1
    <2> QED
      BY <1>2, <2>2 DEF InsertNotePart, InsertedRow, PartTable
  <1> HIDE DEF k, g
  <1> QED
    BY <1>1, <1>2

(* The parts of every note outside S stay as they are.                     *)
PartsStay(S) ==
  \A n \in Notes \ S : \A p \in Parts : part'[p] = part[p] \/ (part[p].note # n /\ part'[p].note # n)

LEMMA InsertKeeps ==
  ASSUME NotesInv, NEW n, NEW ids, NEW ins, NEW first, NEW origin, NEW time,
         InsertParts(n, ids, ins, first, origin, time), file' = file,
         \A i, j \in DOMAIN ids : ids[i] = ids[j] => i = j,
         \A i \in DOMAIN ids : ids[i] \in FreeParts /\ ins[i].file \in Files \cup {None} /\ Usable(ins[i]),
         \A i, j \in DOMAIN ids : ins[i].file = ins[j].file /\ ins[i].file # None => i = j
  PROVE  PartTable' /\ FilesBelongToOnePart' /\ PartsStay({n})
  <1> DEFINE row(i) == InsertedRow(n, first + i - 1, ins[i], time)
  <1>1. PartTable /\ FilesBelongToOnePart
    BY DEF NotesInv, Tables
  <1>2. \A i \in DOMAIN ids : ids[i] \in Parts /\ part[ids[i]].note = None
    BY DEF FreeParts
  <1>3. /\ DOMAIN part' = Parts
        /\ \A i \in DOMAIN ids : part'[ids[i]] = row(i)
        /\ \A p \in Parts : (\A i \in DOMAIN ids : ids[i] # p) => part'[p] = part[p]
    BY <1>1, <1>2, InsertedParts
  <1>4. \A i : DOMAIN row(i) = PartColumns /\ row(i).file = ins[i].file /\ row(i).note = n
    BY DEF InsertedRow, PartColumns
  <1> HIDE DEF row
  <1>5. PartTable'
    <2>1. ASSUME NEW p \in Parts PROVE DOMAIN part'[p] = PartColumns /\ part'[p].file \in Files \cup {None}
      <3>1. CASE \E i \in DOMAIN ids : ids[i] = p
        BY <1>3, <1>4, <3>1
      <3>2. CASE \A i \in DOMAIN ids : ids[i] # p
        BY <1>1, <1>3, <3>2 DEF PartTable
      <3> QED
        BY <3>1, <3>2
    <2> QED
      BY <1>3, <2>1 DEF PartTable
  <1>6. FilesBelongToOnePart'
    <2>1. ASSUME NEW p \in Parts, part'[p].file # None, NEW q \in Parts, part'[q].file = part'[p].file
          PROVE  file[part'[p].file] = "ready" /\ q = p
      <3>1. CASE part'[p] = part[p] /\ part'[q] = part[q]
        BY <1>1, <2>1, <3>1 DEF FilesBelongToOnePart, GetAttachment
      <3>2. ASSUME NEW i \in DOMAIN ids, ids[i] = p, part'[q] = part[q] /\ \A j \in DOMAIN ids : ids[j] # q PROVE FALSE
        <4>1. part[q].file = ins[i].file /\ ins[i].file # None
          BY <1>3, <1>4, <2>1, <3>2
        <4> QED
          BY <4>1 DEF Usable, AttachmentInUse
      <3>3. ASSUME NEW j \in DOMAIN ids, ids[j] = q, part'[p] = part[p] /\ \A i \in DOMAIN ids : ids[i] # p PROVE FALSE
        <4>1. part[p].file = ins[j].file /\ ins[j].file # None
          BY <1>3, <1>4, <2>1, <3>3
        <4> QED
          BY <4>1 DEF Usable, AttachmentInUse
      <3>4. ASSUME NEW i \in DOMAIN ids, NEW j \in DOMAIN ids, ids[i] = p, ids[j] = q
            PROVE  file[part'[p].file] = "ready" /\ q = p
        <4>1. ins[i].file = ins[j].file /\ ins[i].file # None /\ part'[p].file = ins[i].file
          BY <1>3, <1>4, <2>1, <3>4
        <4>2. i = j
          BY <4>1
        <4> QED
          BY <3>4, <4>1, <4>2 DEF Usable, GetAttachment
      <3> QED
        BY <1>3, <3>1, <3>2, <3>3, <3>4
    <2> QED
      BY <2>1 DEF FilesBelongToOnePart, GetAttachment
  <1>7. PartsStay({n})
    <2>1. ASSUME NEW m \in Notes \ {n}, NEW p \in Parts
          PROVE  part'[p] = part[p] \/ (part[p].note # m /\ part'[p].note # m)
      <3>1. CASE \E i \in DOMAIN ids : ids[i] = p
        BY <1>2, <1>3, <1>4, <3>1, NotesAssumption
      <3>2. CASE \A i \in DOMAIN ids : ids[i] # p
        BY <1>3, <3>2
      <3> QED
        BY <3>1, <3>2
    <2> QED
      BY <2>1 DEF PartsStay
  <1> QED
    BY <1>5, <1>6, <1>7

(* What goes with a part is its file, which is no other part's.            *)
LEMMA DeleteKeeps ==
  ASSUME NotesInv, NEW ps \in SUBSET Parts, NEW fs,
         part' = DeleteNoteParts(ps), file' = DeleteFiles(fs),
         \A f \in fs : f # None => \E p \in ps : part[p].file = f
  PROVE  /\ PartTable' /\ DOMAIN file' = Files /\ FilesBelongToOnePart'
         /\ \A n \in Notes : ps \subseteq PartsOf(n) => PartsStay({n})
  <1>1. PartTable /\ FilesBelongToOnePart
    BY DEF NotesInv, Tables
  <1>2. DOMAIN part' = Parts /\ \A p \in Parts : part'[p] = IF p \in ps THEN NoPart ELSE part[p]
    BY DEF DeleteNoteParts
  <1>3. DOMAIN NoPart = PartColumns /\ NoPart.file = None /\ NoPart.note = None
    BY DEF NoPart, PartColumns
  <1>4. PartTable'
    BY <1>1, <1>2, <1>3 DEF PartTable
  <1>5. DOMAIN file' = Files /\ \A f \in Files : file'[f] = IF f \in fs THEN "deleted" ELSE file[f]
    BY DEF DeleteFiles
  <1>6. FilesBelongToOnePart'
    <2>1. ASSUME NEW p \in Parts, part'[p].file # None
          PROVE  file'[part'[p].file] = "ready" /\ \A q \in Parts : part'[q].file = part'[p].file => q = p
      <3>1. p \notin ps /\ part'[p] = part[p]
        BY <1>2, <1>3, <2>1
      <3>2. file[part[p].file] = "ready" /\ \A q \in Parts : part[q].file = part[p].file => q = p
        BY <1>1, <2>1, <3>1 DEF FilesBelongToOnePart, GetAttachment
      <3>3. part[p].file \notin fs
        BY <2>1, <3>1, <3>2
      <3>4. part[p].file \in Files
        BY <1>1, <2>1, <3>1 DEF PartTable
      <3> QED
        BY <1>2, <1>3, <1>5, <2>1, <3>1, <3>2, <3>3, <3>4
    <2> QED
      BY <2>1 DEF FilesBelongToOnePart, GetAttachment
  <1>7. \A n \in Notes : ps \subseteq PartsOf(n) => PartsStay({n})
    BY <1>2, <1>3, NotesAssumption DEF PartsStay, PartsOf
  <1> QED
    BY <1>4, <1>5, <1>6, <1>7

(* Parts that keep their files keep NotesInv's share of them.              *)
LEMMA FilesStay ==
  ASSUME NotesInv, file' = file, DOMAIN part' = Parts,
         \A p \in Parts : DOMAIN part'[p] = DOMAIN part[p] /\ part'[p].file = part[p].file
  PROVE  PartTable' /\ FilesBelongToOnePart'
  <1>1. PartTable /\ FilesBelongToOnePart
    BY DEF NotesInv, Tables
  <1>2. PartTable'
    BY <1>1 DEF PartTable
  <1>3. FilesBelongToOnePart'
    BY <1>1 DEF FilesBelongToOnePart, GetAttachment
  <1> QED
    BY <1>2, <1>3

-----------------------------------------------------------------------------
(* The operations.                                                         *)
LEMMA AllKeeps ==
  ASSUME NotesInv, NEW S, Change(S), Tables', FilesBelongToOnePart',
         \A n \in Notes \ S : note'[n] = note[n], PartsStay(S),
         \A c \in Categories \ S : category'[c] = category[c],
         \A g \in Pages \ S : page'[g] = page[g]
  PROVE  NotesInv' /\ Informs
  <1>1. Informs
    BY ToldIsEnough DEF Informs, PartsStay
  <1> QED
    BY <1>1 DEF NotesInv

LEMMA OperationKeeps ==
  ASSUME NotesInv, NEW S, Change(S),
         NoteTable', PartTable', DOMAIN file' = Files, FilesBelongToOnePart', UNCHANGED boardVars,
         \A n \in Notes \ S : note'[n] = note[n], PartsStay(S)
  PROVE  NotesInv' /\ Informs
  <1>1. CategoryTable /\ DOMAIN page = Pages
    BY DEF NotesInv, Tables
  <1>2. category' = category /\ page' = page
    BY DEF boardVars
  <1>3. Tables'
    BY <1>1, <1>2 DEF Tables, CategoryTable
  <1> QED
    BY <1>2, <1>3, AllKeeps

LEMMA FewerStay ==
  ASSUME NEW S, NEW T, S \subseteq T
  PROVE  PartsStay(S) => PartsStay(T)
  BY DEF PartsStay

LEMMA CreateKeeps ==
  ASSUME NotesInv, NEW n \in Notes, NEW c \in Lists, NEW h, NEW k \in Nat,
         NEW ids \in FreshParts(k), NEW ins \in [1 .. k -> Inputs], Create(n, c, h, ids, ins)
  PROVE  NotesInv' /\ Informs
  <1>1. /\ InsertParts(n, ids, ins, 0, "app", now) /\ file' = file /\ UNCHANGED boardVars
        /\ \A i \in DOMAIN ids : ids[i] \in FreeParts /\ ins[i] \in Inputs
        /\ \A i, j \in DOMAIN ids : ids[i] = ids[j] => i = j
        /\ DOMAIN ids = DOMAIN ins
    BY DEF Create, FreshParts
  <1>2. \A i \in DOMAIN ids : ins[i].file \in Files \cup {None} /\ Usable(ins[i])
    <2>1. \A i \in DOMAIN ids : Usable(ins[i])
      BY <1>1 DEF Create
    <2>2. \A in \in Inputs : in.file \in Files \cup {None}
      BY DEF Inputs, TextInput, FileInput
    <2> QED
      BY <1>1, <2>1, <2>2
  <1>3. \A i, j \in DOMAIN ids : ins[i].file = ins[j].file /\ ins[i].file # None => i = j
    BY <1>1 DEF Create
  <1>4. PartTable' /\ FilesBelongToOnePart' /\ PartsStay({n})
    BY <1>1, <1>2, <1>3, InsertKeeps
  <1>5. PICK p \in PlaceNote(c, n, h) :
          note' = InsertNoteAt(RekeyNotes(p.keys), n, c, p.key, now) /\ Change({n} \cup p.rekeyed)
    BY DEF Create
  <1>6. NoteTable /\ DOMAIN file = Files
    BY DEF NotesInv, Tables
  <1>7. /\ DOMAIN RekeyNotes(p.keys) = Notes
        /\ \A m \in Notes : IsRow(RekeyNotes(p.keys)[m], NoteColumns)
        /\ \A m \in Notes \ p.rekeyed : RekeyNotes(p.keys)[m] = note[m]
    BY <1>6, RekeyedNotes
  <1>8. NoteTable' /\ \A m \in Notes : m # n => note'[m] = RekeyNotes(p.keys)[m]
    BY <1>5, <1>7, NoteInserted
  <1>9. \A m \in Notes \ ({n} \cup p.rekeyed) : note'[m] = note[m]
    BY <1>7, <1>8
  <1>10. PartsStay({n} \cup p.rekeyed)
    BY <1>4, FewerStay
  <1> QED
    BY <1>1, <1>4, <1>5, <1>6, <1>8, <1>9, <1>10, OperationKeeps

LEMMA MoveKeeps ==
  ASSUME NotesInv, NEW n \in Notes, NEW c \in Lists, NEW h, Move(n, c, h)
  PROVE  NotesInv' /\ Informs
  <1>1. PICK p \in PlaceNote(c, n, h) :
          note' = SetNoteLocation(RekeyNotes(p.keys), n, c, p.key) /\ Change({n} \cup p.rekeyed)
    BY DEF Move
  <1>2. UNCHANGED <<part, file>> /\ UNCHANGED boardVars
    BY DEF Move
  <1>3. NoteTable /\ PartTable /\ FilesBelongToOnePart /\ DOMAIN file = Files
    BY DEF NotesInv, Tables
  <1> DEFINE rows == RekeyNotes(p.keys)
  <1>4. /\ DOMAIN rows = Notes
        /\ \A m \in Notes : IsRow(rows[m], NoteColumns)
        /\ \A m \in Notes \ p.rekeyed : rows[m] = note[m]
    BY <1>3, RekeyedNotes
  <1>5. note' = [rows EXCEPT ![n].category = c, ![n].position = p.key]
    BY <1>1 DEF SetNoteLocation
  <1> HIDE DEF rows
  <1>6. NoteTable'
    BY <1>4, <1>5 DEF NoteTable, IsRow, NoteColumns
  <1>7. \A m \in Notes \ ({n} \cup p.rekeyed) : note'[m] = note[m]
    BY <1>4, <1>5
  <1>8. PartsStay({n} \cup p.rekeyed) /\ PartTable' /\ FilesBelongToOnePart' /\ DOMAIN file' = Files
    BY <1>2, <1>3 DEF PartsStay, PartTable, FilesBelongToOnePart, GetAttachment
  <1> QED
    BY <1>1, <1>2, <1>6, <1>7, <1>8, OperationKeeps

(* The Trash.                                                              *)
LEMMA TrashKeeps ==
  ASSUME NotesInv, NEW n \in Notes, Dismiss(n) \/ Restore(n)
  PROVE  NotesInv' /\ Informs
  <1>1. Change({n}) /\ UNCHANGED <<part, file>> /\ UNCHANGED boardVars
    BY DEF Dismiss, Restore
  <1>2. NoteTable /\ PartTable /\ FilesBelongToOnePart /\ DOMAIN file = Files
    BY DEF NotesInv, Tables
  <1>3. \E state, deleted : note' = [note EXCEPT ![n].state = state, ![n].deleted = deleted]
    BY DEF Dismiss, Restore, DismissNote, RestoreNote
  <1>4. NoteTable' /\ \A m \in Notes \ {n} : note'[m] = note[m]
    BY <1>2, <1>3 DEF NoteTable, IsRow, NoteColumns
  <1>5. PartsStay({n}) /\ PartTable' /\ FilesBelongToOnePart' /\ DOMAIN file' = Files
    BY <1>1, <1>2 DEF PartsStay, PartTable, FilesBelongToOnePart, GetAttachment
  <1> QED
    BY <1>1, <1>4, <1>5, OperationKeeps

LEMMA NoteDeleted ==
  ASSUME NoteTable, NEW n \in Notes, note' = DeleteNote(n)
  PROVE  NoteTable' /\ \A m \in Notes \ {n} : note'[m] = note[m]
  <1>1. IsRow(NoNote, NoteColumns)
    BY DEF IsRow, NoNote, NoteColumns
  <1> QED
    BY <1>1 DEF NoteTable, DeleteNote

LEMMA DeletePermanentlyKeeps ==
  ASSUME NotesInv, NEW n \in Notes, DeletePermanently(n)
  PROVE  NotesInv' /\ Informs
  <1>1. /\ note' = DeleteNote(n) /\ part' = DeleteNoteParts(PartsOf(n))
        /\ file' = DeleteFiles(AttachmentsOfNote(n)) /\ UNCHANGED boardVars /\ Change({n})
    BY DEF DeletePermanently
  <1>2. NoteTable' /\ \A m \in Notes \ {n} : note'[m] = note[m]
    BY <1>1, NoteDeleted DEF NotesInv, Tables
  <1>3. \A f \in AttachmentsOfNote(n) : f # None => \E p \in PartsOf(n) : part[p].file = f
    BY DEF AttachmentsOfNote
  <1>4. PartTable' /\ DOMAIN file' = Files /\ FilesBelongToOnePart' /\ PartsStay({n})
    <2>1. PartsOf(n) \in SUBSET Parts
      BY DEF PartsOf
    <2> QED
      BY <1>1, <1>3, <2>1, DeleteKeeps
  <1> QED
    BY <1>1, <1>2, <1>4, OperationKeeps

LEMMA RemovePartKeeps ==
  ASSUME NotesInv, NEW n \in Notes, NEW p \in Parts, RemovePart(n, p)
  PROVE  NotesInv' /\ Informs
  <1>1. /\ part' = DeleteNoteParts({p}) /\ file' = DeleteFiles({part[p].file})
        /\ note' = note /\ UNCHANGED boardVars /\ Change({n}) /\ {p} \subseteq PartsOf(n)
    BY DEF RemovePart, TouchNote, GetNotePart, PartsOf
  <1>2. NoteTable'
    BY <1>1 DEF NotesInv, Tables, NoteTable
  <1>3. PartTable' /\ DOMAIN file' = Files /\ FilesBelongToOnePart' /\ PartsStay({n})
    BY <1>1, DeleteKeeps
  <1> QED
    BY <1>1, <1>2, <1>3, OperationKeeps

LEMMA EditPartKeeps ==
  ASSUME NotesInv, NEW n \in Notes, NEW p \in Parts, NEW t, NEW s, EditPart(n, p, t, s)
  PROVE  NotesInv' /\ Informs
  <1>1. /\ part' = [part EXCEPT ![p].text = t, ![p].edited = now] /\ part[p].note = n
        /\ UNCHANGED <<note, file>> /\ UNCHANGED boardVars /\ Change({n})
    BY DEF EditPart, TouchNote, UpdatePartText, GetNotePart
  <1>2. NoteTable' /\ PartTable /\ DOMAIN file' = Files
    BY <1>1 DEF NotesInv, Tables, NoteTable
  <1>3. /\ DOMAIN part' = Parts
        /\ \A q \in Parts : /\ DOMAIN part'[q] = DOMAIN part[q] /\ part'[q].file = part[q].file
                            /\ q # p => part'[q] = part[q]
        /\ part'[p].note = n
    BY <1>1, <1>2 DEF PartTable, PartColumns
  <1>4. PartTable' /\ FilesBelongToOnePart'
    BY <1>1, <1>3, FilesStay
  <1>5. PartsStay({n})
    BY <1>1, <1>3 DEF PartsStay
  <1> QED
    BY <1>1, <1>2, <1>4, <1>5, OperationKeeps

LEMMA AddPartKeeps ==
  ASSUME NotesInv, NEW n \in Notes, NEW p \in FreeParts, NEW in \in Inputs, AddPart(n, p, in)
  PROVE  NotesInv' /\ Informs
  <1>1. /\ InsertParts(n, <<p>>, <<in>>, NextPartOrdinal(n), "app", now)
        /\ UNCHANGED <<note, file>> /\ UNCHANGED boardVars /\ Change({n}) /\ Usable(in)
    BY DEF AddPart, TouchNote
  <1>2. NoteTable' /\ DOMAIN file' = Files
    BY <1>1 DEF NotesInv, Tables, NoteTable
  <1>3. in.file \in Files \cup {None}
    BY DEF Inputs, TextInput, FileInput
  <1>4. DOMAIN <<p>> = {1} /\ <<p>>[1] = p /\ <<in>>[1] = in
    OBVIOUS
  <1>5. PartTable' /\ FilesBelongToOnePart' /\ PartsStay({n})
    <2>1. /\ \A i, j \in DOMAIN <<p>> : <<p>>[i] = <<p>>[j] => i = j
          /\ \A i \in DOMAIN <<p>> : <<p>>[i] \in FreeParts /\ <<in>>[i].file \in Files \cup {None} /\ Usable(<<in>>[i])
          /\ \A i, j \in DOMAIN <<p>> : <<in>>[i].file = <<in>>[j].file /\ <<in>>[i].file # None => i = j
      BY <1>1, <1>3, <1>4
    <2> QED
      BY <1>1, <2>1, InsertKeeps
  <1> QED
    BY <1>1, <1>2, <1>5, OperationKeeps

LEMMA MergeKeeps ==
  ASSUME NotesInv, NEW target \in Notes, NEW source \in Notes, Merge(target, source)
  PROVE  NotesInv' /\ Informs
  <1>1. /\ part' = MovePartsToNote(source, target, NextPartOrdinal(target)) /\ note' = DeleteNote(source)
        /\ file' = file /\ UNCHANGED boardVars /\ Change({source, target})
    BY DEF Merge
  <1>2. NoteTable' /\ \A m \in Notes \ {source} : note'[m] = note[m]
    BY <1>1, NoteDeleted DEF NotesInv, Tables
  <1>3. PartTable /\ DOMAIN file' = Files
    BY <1>1 DEF NotesInv, Tables
  <1> DEFINE o == NextPartOrdinal(target)
  <1>4. /\ DOMAIN part' = Parts
        /\ \A p \in Parts :
             part'[p] = IF part[p].note = source
                        THEN [part[p] EXCEPT !.note = target, !.ordinal = @ + o] ELSE part[p]
    BY <1>1 DEF MovePartsToNote
  <1> HIDE DEF o
  <1>5. \A p \in Parts : /\ DOMAIN part'[p] = DOMAIN part[p] /\ part'[p].file = part[p].file
                         /\ part'[p] = part[p] \/ (part[p].note = source /\ part'[p].note = target)
    BY <1>3, <1>4 DEF PartTable, PartColumns
  <1>6. PartTable' /\ FilesBelongToOnePart'
    BY <1>1, <1>4, <1>5, FilesStay
  <1>7. PartsStay({source, target})
    BY <1>5 DEF PartsStay
  <1> QED
    BY <1>1, <1>2, <1>3, <1>6, <1>7, OperationKeeps

LEMMA SplitKeeps ==
  ASSUME NotesInv, NEW n \in Notes, NEW p \in Parts, NEW new \in Notes, Split(n, p, new)
  PROVE  NotesInv' /\ Informs
  <1> DEFINE h == [after |-> n, before |-> None, top |-> FALSE]
  <1>1. PICK k \in PlaceNote(note[n].category, new, h) :
          /\ note' = InsertNoteAt(RekeyNotes(k.keys), new, note[n].category, k.key, part[p].created)
          /\ Change({n, new} \cup k.rekeyed)
    BY DEF Split
  <1>2. /\ part' = [part EXCEPT ![p].note = new, ![p].ordinal = 0] /\ part[p].note = n
        /\ file' = file /\ UNCHANGED boardVars
    BY DEF Split, MovePartToNewNote, GetNotePart
  <1>3. NoteTable /\ PartTable /\ DOMAIN file' = Files
    BY <1>2 DEF NotesInv, Tables
  <1> HIDE DEF h
  <1>4. /\ DOMAIN RekeyNotes(k.keys) = Notes
        /\ \A m \in Notes : IsRow(RekeyNotes(k.keys)[m], NoteColumns)
        /\ \A m \in Notes \ k.rekeyed : RekeyNotes(k.keys)[m] = note[m]
    BY <1>3, RekeyedNotes
  <1>5. NoteTable' /\ \A m \in Notes : m # new => note'[m] = RekeyNotes(k.keys)[m]
    BY <1>1, <1>4, NoteInserted
  <1>6. /\ DOMAIN part' = Parts
        /\ \A q \in Parts : /\ DOMAIN part'[q] = DOMAIN part[q] /\ part'[q].file = part[q].file
                            /\ q # p => part'[q] = part[q]
        /\ part'[p].note = new
    BY <1>2, <1>3 DEF PartTable, PartColumns
  <1>7. PartTable' /\ FilesBelongToOnePart'
    BY <1>2, <1>6, FilesStay
  <1>8. PartsStay({n, new} \cup k.rekeyed)
    BY <1>2, <1>6 DEF PartsStay
  <1>9. \A m \in Notes \ ({n, new} \cup k.rekeyed) : note'[m] = note[m]
    BY <1>4, <1>5
  <1> QED
    BY <1>1, <1>2, <1>3, <1>5, <1>7, <1>8, <1>9, OperationKeeps

(* An upload, and the janitor, who takes only what is nobody's file.       *)
LEMMA UploadKeeps ==
  ASSUME NotesInv, NEW f \in Files, Upload(f) \/ RemoveUnused(f)
  PROVE  NotesInv' /\ Informs
  <1>1. Tables /\ FilesBelongToOnePart
    BY DEF NotesInv
  <1>2. UNCHANGED <<note, part, category, page, view>>
    BY DEF Upload, RemoveUnused, boardVars
  <1>3. Informs
    BY <1>2, NothingToTell DEF Informs
  <1>4. /\ DOMAIN file' = Files
        /\ \A g \in Files : g = f \/ file'[g] = file[g]
        /\ file'[f] = "ready" \/ ~ AttachmentInUse(f)
    BY <1>1 DEF Tables, Upload, RemoveUnused, DeleteFiles
  <1>5. Tables'
    BY <1>1, <1>2, <1>4 DEF Tables, NoteTable, PartTable, CategoryTable
  <1>6. FilesBelongToOnePart'
    <2>1. ASSUME NEW p \in Parts, part[p].file # None
          PROVE  file'[part[p].file] = "ready" /\ \A q \in Parts : part[q].file = part[p].file => q = p
      BY <1>1, <1>4, <2>1 DEF Tables, PartTable, FilesBelongToOnePart, GetAttachment, AttachmentInUse
    <2> QED
      BY <1>2, <2>1 DEF FilesBelongToOnePart, GetAttachment
  <1> QED
    BY <1>3, <1>5, <1>6 DEF NotesInv

(* Every operation of the app on notes.                                    *)
LEMMA NotesNextKeeps == NotesInv /\ NotesNext => NotesInv' /\ Informs
  <1> SUFFICES ASSUME NotesInv, NotesNext PROVE NotesInv' /\ Informs
    OBVIOUS
  <1>1. CASE CreateNote
    <2>1. 1 .. MaxPartsPerRequest \subseteq Nat
      BY NotesAssumption
    <2> QED
      BY <1>1, <2>1, CreateKeeps DEF CreateNote
  <1>2. CASE MoveNote
    BY <1>2, MoveKeeps DEF MoveNote
  <1>3. CASE DismissANote \/ RestoreANote
    BY <1>3, TrashKeeps DEF DismissANote, RestoreANote
  <1>4. CASE DeleteNotePermanently
    BY <1>4, DeletePermanentlyKeeps DEF DeleteNotePermanently
  <1>5. CASE EditNotePart
    BY <1>5, EditPartKeeps DEF EditNotePart
  <1>6. CASE AddNotePart
    BY <1>6, AddPartKeeps DEF AddNotePart
  <1>7. CASE DeleteNotePart
    BY <1>7, RemovePartKeeps DEF DeleteNotePart
  <1>8. CASE MergeNotes
    BY <1>8, MergeKeeps DEF MergeNotes
  <1>9. CASE SplitNotePart
    BY <1>9, SplitKeeps DEF SplitNotePart
  <1>10. CASE UploadFile \/ Janitor
    BY <1>10, UploadKeeps DEF UploadFile, Janitor
  <1> QED
    BY <1>1, <1>2, <1>3, <1>4, <1>5, <1>6, <1>7, <1>8, <1>9, <1>10 DEF NotesNext

-----------------------------------------------------------------------------
(* Texts and their versions.  What a step can do to one part, its text and *)
(* its versions: nothing, delete it, make it, or edit it in the app.  (An  *)
(* edit in the chat is ChatProofs' matter.)                                *)
VersionColumns == {"text", "origin", "edited", "recorded", "applied", "session"}

Version(t, origin, edited, applied, session) ==
  [text |-> t, origin |-> origin, edited |-> edited, recorded |-> now, applied |-> applied, session |-> session]

IsSeq(h) == h \in Seq({h[i] : i \in DOMAIN h})

Gone(p) == part'[p].note = None /\ history'[p] = <<>>

Still(p) ==
  /\ history'[p] = history[p]
  /\ part'[p].note = None <=> part[p].note = None
  /\ part'[p].kind = part[p].kind /\ part'[p].text = part[p].text /\ part'[p].edited = part[p].edited
  /\ part'[p].source = part[p].source

Begun(p, time) ==
  /\ part[p].note = None /\ part'[p].note # None /\ part'[p].edited = None
  /\ part'[p].kind # "text" => history'[p] = history[p]
  /\ part'[p].kind = "text" => \E origin : history'[p] = Append(history[p], Version(part'[p].text, origin, time, TRUE, None))

(* An edit in the app, recorded or put in the place of one just before.    *)
InApp(p) == \E s \in Sessions : EditPart(part[p].note, p, part'[p].text, s)

Rewritten(p) ==
  /\ part[p].note # None /\ part'[p].note # None /\ part[p].kind = "text"
  /\ part'[p].kind = part[p].kind /\ part'[p].edited = now /\ part'[p].source = part[p].source
  /\ InApp(p)
  /\ \/ \E s : history'[p] = Append(history[p], Version(part'[p].text, "app", now, TRUE, s))
     \/ \E i \in DOMAIN history[p] :
          history'[p] = [history[p] EXCEPT ![i].text = part'[p].text, ![i].edited = now, ![i].recorded = now]

AppStep(p) == Gone(p) \/ Still(p) \/ (Begun(p, now) /\ part'[p].source = None) \/ Rewritten(p)

VersionsOK(p) ==
  /\ IsSeq(history[p])
  /\ part[p].note = None => history[p] = <<>>
  /\ \A i \in DOMAIN history[p] : DOMAIN history[p][i] = VersionColumns

HistoryTable == DOMAIN history = Parts /\ \A p \in Parts : VersionsOK(p)

(* A version that is appended leaves those before it.                      *)
LEMMA Appended ==
  ASSUME NEW h, IsSeq(h), NEW v
  PROVE  /\ IsSeq(Append(h, v)) /\ Len(h) \in Nat /\ DOMAIN h = 1 .. Len(h) /\ DOMAIN Append(h, v) = 1 .. Len(h) + 1
         /\ \A i \in DOMAIN h : Append(h, v)[i] = h[i]
         /\ Append(h, v)[Len(h) + 1] = v
  <1> DEFINE T == {h[i] : i \in DOMAIN h} \cup {v}
  <1>1. h \in Seq({h[i] : i \in DOMAIN h})
    BY DEF IsSeq
  <1>2. DOMAIN h = 1 .. Len(h) /\ Len(h) \in Nat /\ \A i \in 1 .. Len(h) : h[i] \in T
    BY <1>1
  <1> HIDE DEF T
  <1>3. h \in Seq(T)
    <2>1. h = [i \in 1 .. Len(h) |-> h[i]]
      BY <1>1, <1>2
    <2> QED
      BY <1>2, <2>1
  <1>4. v \in T
    BY DEF T
  <1> DEFINE a == Append(h, v)
  <1>5. /\ a \in Seq(T) /\ Len(a) = Len(h) + 1 /\ DOMAIN a = 1 .. Len(h) + 1
        /\ \A i \in 1 .. Len(h) : a[i] = h[i]
        /\ a[Len(h) + 1] = v
    BY <1>2, <1>3, <1>4
  <1> HIDE DEF a
  <1>6. a \in Seq({a[i] : i \in DOMAIN a})
    <2> DEFINE U == {a[i] : i \in DOMAIN a}
    <2>1. \A i \in 1 .. Len(a) : a[i] \in U
      BY <1>5
    <2>2. a = [i \in 1 .. Len(a) |-> a[i]] /\ Len(a) \in Nat
      BY <1>2, <1>5
    <2> HIDE DEF U
    <2>3. a \in Seq(U)
      BY <2>1, <2>2
    <2> QED
      BY <2>3 DEF U
  <1> QED
    BY <1>2, <1>5, <1>6 DEF IsSeq, a

LEMMA SequenceOfItsElements ==
  ASSUME NEW k, NEW n \in Nat, DOMAIN k = 1 .. n, k = [j \in DOMAIN k |-> k[j]]
  PROVE  IsSeq(k)
  <1> DEFINE U == {k[j] : j \in DOMAIN k}
  <1>1. \A j \in 1 .. n : k[j] \in U
    OBVIOUS
  <1>2. k = [j \in 1 .. n |-> k[j]]
    OBVIOUS
  <1> HIDE DEF U
  <1>3. k \in Seq(U)
    BY <1>1, <1>2
  <1> QED
    BY <1>3 DEF U, IsSeq

(* A version that is overwritten stays in its place.                       *)
LEMMA Overwritten ==
  ASSUME NEW p, VersionsOK(p), NEW i \in DOMAIN history[p],
         history'[p] = [history[p] EXCEPT ![i].text = part'[p].text, ![i].edited = now, ![i].recorded = now]
  PROVE  /\ IsSeq(history'[p]) /\ DOMAIN history'[p] = DOMAIN history[p]
         /\ DOMAIN history'[p][i] = VersionColumns
         /\ history'[p][i].text = part'[p].text /\ history'[p][i].edited = now
         /\ \A j \in DOMAIN history[p] : j # i => history'[p][j] = history[p][j]
  <1> DEFINE h == history[p]
  <1> DEFINE k == history'[p]
  <1> DEFINE t == part'[p].text
  <1>1. /\ IsSeq(h) /\ i \in DOMAIN h /\ DOMAIN h[i] = VersionColumns
        /\ k = [h EXCEPT ![i].text = t, ![i].edited = now, ![i].recorded = now]
    BY DEF VersionsOK
  <1>2. DOMAIN h = 1 .. Len(h) /\ Len(h) \in Nat
    <2>1. h \in Seq({h[j] : j \in DOMAIN h})
      BY <1>1 DEF IsSeq
    <2> QED
      BY <2>1
  <1> HIDE DEF h, k, t
  <1>3. /\ DOMAIN k = DOMAIN h /\ k = [j \in DOMAIN k |-> k[j]]
        /\ \A j \in DOMAIN h : j # i => k[j] = h[j]
    BY <1>1
  <1>4. k[i] = [h[i] EXCEPT !.text = t, !.edited = now, !.recorded = now]
    BY <1>1
  <1>5. DOMAIN k[i] = VersionColumns /\ k[i].text = t /\ k[i].edited = now
    BY <1>1, <1>4 DEF VersionColumns
  <1>6. IsSeq(k)
    BY <1>2, <1>3, SequenceOfItsElements
  <1> QED
    BY <1>3, <1>5, <1>6 DEF h, k, t

(* A version that is appended leaves the history what it is, and longer.   *)
LEMMA VersionIsAdded ==
  ASSUME NEW p, VersionsOK(p), NEW v, history'[p] = Append(history[p], v), DOMAIN v = VersionColumns,
         part'[p].note # None
  PROVE  /\ VersionsOK(p)'
         /\ \A i \in DOMAIN history[p] : i \in DOMAIN history'[p] /\ history'[p][i] = history[p][i]
         /\ \E i \in DOMAIN history'[p] : history'[p][i] = v
  <1>1. /\ IsSeq(history'[p]) /\ DOMAIN history[p] = 1 .. Len(history[p]) /\ Len(history[p]) \in Nat
        /\ DOMAIN history'[p] = 1 .. Len(history[p]) + 1
        /\ \A i \in DOMAIN history[p] : history'[p][i] = history[p][i]
        /\ history'[p][Len(history[p]) + 1] = v
    BY Appended DEF VersionsOK
  <1>2. \A i \in DOMAIN history'[p] : DOMAIN history'[p][i] = VersionColumns
    BY <1>1 DEF VersionsOK
  <1>3. VersionsOK(p)'
    BY <1>1, <1>2 DEF VersionsOK, IsSeq
  <1>4. /\ \A i \in DOMAIN history[p] : i \in DOMAIN history'[p] /\ history'[p][i] = history[p][i]
        /\ \E i \in DOMAIN history'[p] : history'[p][i] = v
    BY <1>1
  <1> QED
    BY <1>3, <1>4

(* What any step but an edit in the chat does to one part.                 *)
Ordinary(p) == Gone(p) \/ Still(p) \/ (\E time : Begun(p, time)) \/ Rewritten(p)

LEMMA VersionsStay ==
  ASSUME NEW p, VersionsOK(p), Ordinary(p)
  PROVE  VersionsOK(p)'
  <1>0. IsSeq(<<>>) /\ DOMAIN <<>> = {}
    BY DEF IsSeq
  <1>1. CASE Gone(p)
    BY <1>0, <1>1 DEF Gone, VersionsOK
  <1>2. CASE Still(p)
    BY <1>2 DEF Still, VersionsOK
  <1>3. ASSUME NEW v, history'[p] = Append(history[p], v), DOMAIN v = VersionColumns, part'[p].note # None
        PROVE  /\ VersionsOK(p)'
               /\ \A i \in DOMAIN history[p] : i \in DOMAIN history'[p] /\ history'[p][i] = history[p][i]
               /\ \E i \in DOMAIN history'[p] : history'[p][i] = v
    BY <1>3, VersionIsAdded
  <1>4. CASE \E time : Begun(p, time)
    <2>1. CASE part'[p].kind = "text"
      <3>1. PICK time : Begun(p, time)
        BY <1>4
      <3>2. PICK origin : history'[p] = Append(history[p], Version(part'[p].text, origin, time, TRUE, None))
        BY <2>1, <3>1 DEF Begun
      <3>3. part'[p].note # None
        BY <3>1 DEF Begun
      <3> QED
        BY <3>2, <3>3, <1>3 DEF Version, VersionColumns
    <2>2. CASE part'[p].kind # "text"
      BY <1>4, <2>2 DEF Begun, VersionsOK
    <2> QED
      BY <2>1, <2>2
  <1>5. CASE Rewritten(p)
    <2>1. CASE \E s : history'[p] = Append(history[p], Version(part'[p].text, "app", now, TRUE, s))
      <3>1. PICK s : history'[p] = Append(history[p], Version(part'[p].text, "app", now, TRUE, s))
        BY <2>1
      <3>2. part'[p].note # None
        BY <1>5 DEF Rewritten
      <3> QED
        BY <3>1, <3>2, <1>3 DEF Version, VersionColumns
    <2>2. ASSUME NEW i \in DOMAIN history[p],
                 history'[p] = [history[p] EXCEPT ![i].text = part'[p].text, ![i].edited = now, ![i].recorded = now]
          PROVE  VersionsOK(p)'
      <3>1. /\ IsSeq(history'[p]) /\ DOMAIN history'[p] = DOMAIN history[p]
            /\ DOMAIN history'[p][i] = VersionColumns
            /\ \A j \in DOMAIN history[p] : j # i => history'[p][j] = history[p][j]
        BY <2>2, Overwritten
      <3>2. \A j \in DOMAIN history'[p] : DOMAIN history'[p][j] = VersionColumns
        BY <3>1 DEF VersionsOK
      <3> QED
        BY <1>5, <3>1, <3>2 DEF VersionsOK, Rewritten, IsSeq
    <2> QED
      BY <1>5, <2>1, <2>2 DEF Rewritten
  <1> QED
    BY <1>1, <1>2, <1>4, <1>5 DEF Ordinary

(* Parts that are inserted begin their history with their text.            *)
LEMMA InsertBegins ==
  ASSUME PartTable, DOMAIN history = Parts, NEW n, n # None, NEW ids, NEW ins, NEW first, NEW origin, NEW time,
         InsertParts(n, ids, ins, first, origin, time),
         \A i \in DOMAIN ids : ids[i] \in Parts /\ part[ids[i]].note = None,
         \A i, j \in DOMAIN ids : ids[i] = ids[j] => i = j
  PROVE  /\ DOMAIN history' = Parts
         /\ \A i \in DOMAIN ids : Begun(ids[i], time) /\ part'[ids[i]].source = ins[i].source
         /\ \A p \in Parts : (\A i \in DOMAIN ids : ids[i] # p) => part'[p] = part[p] /\ history'[p] = history[p]
  <1>1. /\ \A i \in DOMAIN ids : part'[ids[i]] = InsertedRow(n, first + i - 1, ins[i], time)
        /\ \A p \in Parts : (\A i \in DOMAIN ids : ids[i] # p) => part'[p] = part[p]
    BY InsertedParts
  <1>2. \A i \in DOMAIN ids :
          LET row == InsertedRow(n, first + i - 1, ins[i], time)
          IN  row.note = n /\ row.kind = ins[i].kind /\ row.text = ins[i].text /\ row.source = ins[i].source /\ row.edited = None
    BY DEF InsertedRow
  <1> DEFINE k(p) == CHOOSE i \in DOMAIN ids : ids[i] = p
  <1> DEFINE g(p) == InsertPartVersion(history, p, ins[k(p)].text, origin, time, TRUE, None)[p]
  <1>3. history' = [p \in Parts |-> IF \E i \in DOMAIN ids : ids[i] = p /\ ins[i].kind = "text" THEN g(p) ELSE history[p]]
    BY DEF InsertParts
  <1>4. ASSUME NEW i \in DOMAIN ids PROVE k(ids[i]) = i
    OBVIOUS
  <1>5. \A p \in Parts : g(p) = Append(history[p], Version(ins[k(p)].text, origin, time, TRUE, None))
    BY DEF InsertPartVersion, Version
  <1> HIDE DEF k, g
  <1>6. \A i \in DOMAIN ids : g(ids[i]) = Append(history[ids[i]], Version(ins[i].text, origin, time, TRUE, None))
    BY <1>4, <1>5
  <1>7. DOMAIN history' = Parts
    BY <1>3
  <1>8. \A p \in Parts : (\A i \in DOMAIN ids : ids[i] # p) => history'[p] = history[p]
    BY <1>3
  <1>9. ASSUME NEW i \in DOMAIN ids PROVE Begun(ids[i], time) /\ part'[ids[i]].source = ins[i].source
    <2>1. /\ part'[ids[i]].note = n /\ part'[ids[i]].kind = ins[i].kind /\ part'[ids[i]].text = ins[i].text
          /\ part'[ids[i]].source = ins[i].source /\ part'[ids[i]].edited = None
      BY <1>1, <1>2
    <2>2. CASE ins[i].kind = "text"
      <3>1. history'[ids[i]] = Append(history[ids[i]], Version(part'[ids[i]].text, origin, time, TRUE, None))
        BY <1>3, <1>6, <2>1, <2>2
      <3> QED
        BY <2>1, <2>2, <3>1 DEF Begun
    <2>3. CASE ins[i].kind # "text"
      <3>1. history'[ids[i]] = history[ids[i]]
        BY <1>3, <2>3
      <3> QED
        BY <2>1, <2>3, <3>1 DEF Begun
    <2> QED
      BY <2>2, <2>3
  <1> QED
    BY <1>1, <1>7, <1>8, <1>9

LEMMA InsertIsAStep ==
  ASSUME PartTable, HistoryTable, NEW n \in Notes, NEW ids, NEW ins, NEW first, NEW origin,
         InsertParts(n, ids, ins, first, origin, now),
         \A i \in DOMAIN ids : ids[i] \in FreeParts /\ ins[i] \in Inputs,
         \A i, j \in DOMAIN ids : ids[i] = ids[j] => i = j
  PROVE  DOMAIN history' = Parts /\ \A p \in Parts : AppStep(p)
  <1>1. /\ n # None /\ DOMAIN history = Parts
        /\ \A i \in DOMAIN ids : ids[i] \in Parts /\ part[ids[i]].note = None
    BY NotesAssumption DEF HistoryTable, FreeParts
  <1>2. \A i \in DOMAIN ids : ins[i].source = None
    BY DEF Inputs, TextInput, FileInput
  <1>3. /\ DOMAIN history' = Parts
        /\ \A i \in DOMAIN ids : Begun(ids[i], now) /\ part'[ids[i]].source = ins[i].source
        /\ \A p \in Parts : (\A i \in DOMAIN ids : ids[i] # p) => part'[p] = part[p] /\ history'[p] = history[p]
    BY <1>1, InsertBegins
  <1>4. ASSUME NEW p \in Parts PROVE AppStep(p)
    <2>1. CASE \E i \in DOMAIN ids : ids[i] = p
      BY <1>2, <1>3, <2>1 DEF AppStep
    <2>2. CASE \A i \in DOMAIN ids : ids[i] # p
      BY <1>3, <2>2 DEF AppStep, Still
    <2> QED
      BY <2>1, <2>2
  <1> QED
    BY <1>3, <1>4

LEMMA DeleteIsAStep ==
  ASSUME HistoryTable, NEW ps, part' = DeleteNoteParts(ps), history' = DeletePartVersions(ps)
  PROVE  DOMAIN history' = Parts /\ \A p \in Parts : Gone(p) \/ Still(p)
  <1>1. /\ DOMAIN history' = Parts
        /\ \A p \in Parts : part'[p] = IF p \in ps THEN NoPart ELSE part[p]
        /\ \A p \in Parts : history'[p] = IF p \in ps THEN <<>> ELSE history[p]
    BY DEF DeleteNoteParts, DeletePartVersions
  <1>2. NoPart.note = None
    BY DEF NoPart
  <1>3. ASSUME NEW p \in Parts PROVE Gone(p) \/ Still(p)
    <2>1. CASE p \in ps
      BY <1>1, <1>2, <2>1 DEF Gone
    <2>2. CASE p \notin ps
      BY <1>1, <2>2 DEF Still
    <2> QED
      BY <2>1, <2>2
  <1> QED
    BY <1>1, <1>3

LEMMA EditIsAStep ==
  ASSUME PartTable, HistoryTable, NEW n \in Notes, NEW p \in Parts, NEW t, NEW s \in Sessions, EditPart(n, p, t, s)
  PROVE  DOMAIN history' = Parts /\ \A q \in Parts : AppStep(q)
  <1>1. /\ part[p].note = n /\ part[p].kind = "text" /\ n # None
        /\ part' = [part EXCEPT ![p].text = t, ![p].edited = now]
    BY NotesAssumption DEF EditPart, GetNotePart, UpdatePartText
  <1>2. /\ DOMAIN part[p] = PartColumns
        /\ \A q \in Parts : q # p => part'[q] = part[q]
        /\ part'[p] = [part[p] EXCEPT !.text = t, !.edited = now]
    BY <1>1 DEF PartTable
  <1>3. /\ part'[p].note = n /\ part'[p].kind = "text" /\ part'[p].text = t /\ part'[p].edited = now
        /\ part'[p].source = part[p].source
    <2> DEFINE r == part[p]
    <2> DEFINE x == part'[p]
    <2>1. DOMAIN r = PartColumns /\ x = [r EXCEPT !.text = t, !.edited = now] /\ r.note = n /\ r.kind = "text"
      BY <1>1, <1>2
    <2> HIDE DEF r, x
    <2>2. x.note = n /\ x.kind = "text" /\ x.text = t /\ x.edited = now /\ x.source = r.source
      BY <2>1 DEF PartColumns
    <2> QED
      BY <2>2 DEF r, x
  <1>4. DOMAIN history = Parts /\ InApp(p)
    <2>1. EditPart(part[p].note, p, part'[p].text, s)
      BY <1>1, <1>3
    <2> QED
      BY <2>1 DEF HistoryTable, InApp
  <1>5. CASE \E i \in Coalesces(p, s) : history' = OverwriteVersionText(p, i, t)
    <2>1. PICK i \in Coalesces(p, s) : history' = OverwriteVersionText(p, i, t)
      BY <1>5
    <2>2. i \in DOMAIN history[p]
      BY DEF Coalesces, LatestAppVersion, AppVersions
    <2>3. history' = [history EXCEPT ![p][i].text = t, ![p][i].edited = now, ![p][i].recorded = now]
      BY <2>1 DEF OverwriteVersionText
    <2>4. /\ DOMAIN history' = Parts /\ \A q \in Parts : q # p => history'[q] = history[q]
          /\ history'[p] = [history[p] EXCEPT ![i].text = t, ![i].edited = now, ![i].recorded = now]
      BY <1>4, <2>3
    <2>5. Rewritten(p)
      BY <1>1, <1>3, <1>4, <2>2, <2>4 DEF Rewritten
    <2> QED
      BY <1>2, <2>4, <2>5 DEF AppStep, Still
  <1>6. CASE history' = InsertPartVersion(history, p, t, "app", now, TRUE, s)
    <2>1. /\ DOMAIN history' = Parts /\ \A q \in Parts : q # p => history'[q] = history[q]
          /\ history'[p] = Append(history[p], Version(t, "app", now, TRUE, s))
      BY <1>4, <1>6 DEF InsertPartVersion, Version
    <2>2. Rewritten(p)
      BY <1>1, <1>3, <1>4, <2>1 DEF Rewritten
    <2> QED
      BY <1>2, <2>1, <2>2 DEF AppStep, Still
  <1> QED
    BY <1>5, <1>6 DEF EditPart

LEMMA MergeIsAStep ==
  ASSUME PartTable, HistoryTable, NEW target \in Notes, NEW source \in Notes, Merge(target, source)
  PROVE  DOMAIN history' = Parts /\ \A p \in Parts : AppStep(p)
  <1> DEFINE o == NextPartOrdinal(target)
  <1>1. /\ history' = history
        /\ \A p \in Parts : part'[p] = IF part[p].note = source
                                       THEN [part[p] EXCEPT !.note = target, !.ordinal = @ + o] ELSE part[p]
    BY DEF Merge, MovePartsToNote
  <1>2. target # None /\ source # None /\ DOMAIN history = Parts
    BY NotesAssumption DEF HistoryTable
  <1> HIDE DEF o
  <1>3. ASSUME NEW p \in Parts, part[p].note = source PROVE Still(p)
    <2> DEFINE r == part[p]
    <2> DEFINE x == part'[p]
    <2>1. DOMAIN r = PartColumns /\ x = [r EXCEPT !.note = target, !.ordinal = @ + o]
      BY <1>1, <1>3 DEF PartTable
    <2> HIDE DEF r, x
    <2>2. x.note = target /\ x.kind = r.kind /\ x.text = r.text /\ x.edited = r.edited /\ x.source = r.source
      BY <2>1 DEF PartColumns
    <2> QED
      BY <1>1, <1>2, <1>3, <2>2 DEF Still, r, x
  <1>4. ASSUME NEW p \in Parts, part[p].note # source PROVE Still(p)
    BY <1>1, <1>4 DEF Still
  <1> QED
    BY <1>1, <1>2, <1>3, <1>4 DEF AppStep

LEMMA SplitIsAStep ==
  ASSUME PartTable, HistoryTable, NEW n \in Notes, NEW p \in Parts, NEW new \in Notes, Split(n, p, new)
  PROVE  DOMAIN history' = Parts /\ \A q \in Parts : AppStep(q)
  <1>1. history' = history /\ part[p].note = n /\ part' = [part EXCEPT ![p].note = new, ![p].ordinal = 0]
    BY DEF Split, GetNotePart, MovePartToNewNote
  <1>2. n # None /\ new # None /\ DOMAIN history = Parts
    BY NotesAssumption DEF HistoryTable
  <1>3. /\ \A q \in Parts : q # p => part'[q] = part[q]
        /\ part'[p] = [part[p] EXCEPT !.note = new, !.ordinal = 0] /\ DOMAIN part[p] = PartColumns
    BY <1>1 DEF PartTable
  <1>4. Still(p)
    <2> DEFINE r == part[p]
    <2> DEFINE x == part'[p]
    <2>1. DOMAIN r = PartColumns /\ x = [r EXCEPT !.note = new, !.ordinal = 0]
      BY <1>3
    <2> HIDE DEF r, x
    <2>2. x.note = new /\ x.kind = r.kind /\ x.text = r.text /\ x.edited = r.edited /\ x.source = r.source
      BY <2>1 DEF PartColumns
    <2> QED
      BY <1>1, <1>2, <2>2 DEF Still, r, x
  <1>5. ASSUME NEW q \in Parts, q # p PROVE Still(q)
    BY <1>1, <1>3, <1>5 DEF Still
  <1> QED
    BY <1>1, <1>2, <1>4, <1>5 DEF AppStep

(* What the app does to texts.                                             *)
LEMMA AppTexts ==
  ASSUME NotesInv, HistoryTable, NotesNext
  PROVE  DOMAIN history' = Parts /\ \A p \in Parts : AppStep(p)
  <1>1. PartTable /\ DOMAIN history = Parts
    BY DEF NotesInv, Tables, HistoryTable
  <1>2. CASE CreateNote
    <2>1. PICK n \in Notes, k \in 1 .. MaxPartsPerRequest :
            \E ids \in FreshParts(k), ins \in [1 .. k -> Inputs] : InsertParts(n, ids, ins, 0, "app", now)
      BY <1>2 DEF CreateNote, Create
    <2>2. PICK ids \in FreshParts(k), ins \in [1 .. k -> Inputs] : InsertParts(n, ids, ins, 0, "app", now)
      BY <2>1
    <2>3. /\ \A i \in DOMAIN ids : ids[i] \in FreeParts /\ ins[i] \in Inputs
          /\ \A i, j \in DOMAIN ids : ids[i] = ids[j] => i = j
      BY DEF FreshParts
    <2> QED
      BY <1>1, <2>2, <2>3, InsertIsAStep
  <1>3. CASE MoveNote \/ DismissANote \/ RestoreANote \/ UploadFile \/ Janitor
    <2>1. part' = part /\ history' = history
      BY <1>3 DEF MoveNote, DismissANote, RestoreANote, UploadFile, Janitor, Move, Dismiss, Restore, Upload, RemoveUnused
    <2> QED
      BY <1>1, <2>1 DEF AppStep, Still
  <1>4. CASE DeleteNotePermanently \/ DeleteNotePart
    <2>1. \E ps : part' = DeleteNoteParts(ps) /\ history' = DeletePartVersions(ps)
      BY <1>4 DEF DeleteNotePermanently, DeleteNotePart, DeletePermanently, RemovePart
    <2> QED
      BY <2>1, DeleteIsAStep DEF AppStep
  <1>5. CASE EditNotePart
    BY <1>1, <1>5, EditIsAStep DEF EditNotePart
  <1>6. CASE AddNotePart
    <2>1. PICK n \in Notes, p \in FreeParts, in \in Inputs : InsertParts(n, <<p>>, <<in>>, NextPartOrdinal(n), "app", now)
      BY <1>6 DEF AddNotePart, AddPart
    <2>2. DOMAIN <<p>> = {1} /\ <<in>>[1] = in /\ <<p>>[1] = p
      OBVIOUS
    <2>3. /\ \A i, j \in DOMAIN <<p>> : <<p>>[i] = <<p>>[j] => i = j
          /\ \A i \in DOMAIN <<p>> : <<p>>[i] \in FreeParts /\ <<in>>[i] \in Inputs
      BY <2>2
    <2> QED
      BY <1>1, <2>1, <2>3, InsertIsAStep
  <1>7. CASE MergeNotes
    BY <1>1, <1>7, MergeIsAStep DEF MergeNotes
  <1>8. CASE SplitNotePart
    BY <1>1, <1>8, SplitIsAStep DEF SplitNotePart
  <1> QED
    BY <1>2, <1>3, <1>4, <1>5, <1>6, <1>7, <1>8 DEF NotesNext

-----------------------------------------------------------------------------
(* A part is a part of a note that is there.                               *)
NotesOfParts == \A p \in Parts : part[p].note # None => part[p].note \in Notes /\ GetNote(part[p].note)

LEMMA StatesKept ==
  ASSUME NoteTable, NEW keys
  PROVE  \A n \in Notes : RekeyNotes(keys)[n].state = note[n].state
  BY DEF RekeyNotes, NoteTable, IsRow, NoteColumns

LEMMA StatesAfterInsert ==
  ASSUME NEW rows, DOMAIN rows = Notes, NEW n \in Notes, NEW c, NEW key, NEW time,
         note' = InsertNoteAt(rows, n, c, key, time), \A m \in Notes : rows[m].state = note[m].state
  PROVE  note'[n].state = "active" /\ \A m \in Notes : m # n => note'[m].state = note[m].state
  BY DEF InsertNoteAt

LEMMA StillOfNotes ==
  ASSUME NotesOfParts,
         \A p \in Parts : part'[p].note = None \/ part'[p].note = part[p].note,
         \A n \in Notes : note'[n].state = "absent" => note[n].state = "absent"
  PROVE  NotesOfParts'
  BY DEF NotesOfParts, GetNote

LEMMA InsertedInto ==
  ASSUME PartTable, NotesOfParts, NEW n \in Notes, NEW ids, NEW ins, NEW first, NEW origin, NEW time,
         InsertParts(n, ids, ins, first, origin, time),
         \A i, j \in DOMAIN ids : ids[i] = ids[j] => i = j,
         note'[n].state # "absent",
         \A m \in Notes : m # n => note'[m].state = note[m].state
  PROVE  NotesOfParts'
  <1>1. /\ \A i \in DOMAIN ids : ids[i] \in Parts => part'[ids[i]] = InsertedRow(n, first + i - 1, ins[i], time)
        /\ \A p \in Parts : (\A i \in DOMAIN ids : ids[i] # p) => part'[p] = part[p]
    BY InsertedParts
  <1>2. \A i : InsertedRow(n, first + i - 1, ins[i], time).note = n
    BY DEF InsertedRow
  <1>3. ASSUME NEW p \in Parts PROVE part'[p].note = n \/ part'[p] = part[p]
    <2>1. CASE \E i \in DOMAIN ids : ids[i] = p
      BY <1>1, <1>2, <2>1
    <2>2. CASE \A i \in DOMAIN ids : ids[i] # p
      BY <1>1, <2>2
    <2> QED
      BY <2>1, <2>2
  <1>4. ASSUME NEW p \in Parts, part'[p].note # None PROVE part'[p].note \in Notes /\ note'[part'[p].note].state # "absent"
    <2>1. CASE part'[p].note = n
      BY <2>1
    <2>2. CASE part'[p].note # n
      BY <1>3, <1>4, <2>2 DEF NotesOfParts, GetNote
    <2> QED
      BY <2>1, <2>2
  <1> QED
    BY <1>4 DEF NotesOfParts, GetNote

(* The app leaves no part behind without its note.                         *)
LEMMA AppNotes ==
  ASSUME NotesInv, NotesOfParts, NotesNext
  PROVE  NotesOfParts'
  <1>1. PartTable /\ NoteTable
    BY DEF NotesInv, Tables
  <1>2. \A n \in Notes : n # None
    BY NotesAssumption
  <1>3. ASSUME NEW keys PROVE DOMAIN RekeyNotes(keys) = Notes
    BY DEF RekeyNotes
  <1>4. CASE CreateNote
    <2>1. PICK n \in Notes, c \in Lists, h \in Neighbours(TRUE), k \in 1 .. MaxPartsPerRequest :
            \E ids \in FreshParts(k), ins \in [1 .. k -> Inputs] : Create(n, c, h, ids, ins)
      BY <1>4 DEF CreateNote
    <2>2. PICK ids \in FreshParts(k), ins \in [1 .. k -> Inputs] : Create(n, c, h, ids, ins)
      BY <2>1
    <2>3. InsertParts(n, ids, ins, 0, "app", now) /\ \A i, j \in DOMAIN ids : ids[i] = ids[j] => i = j
      BY <2>2 DEF Create, FreshParts
    <2>4. PICK p \in PlaceNote(c, n, h) : note' = InsertNoteAt(RekeyNotes(p.keys), n, c, p.key, now)
      BY <2>2 DEF Create
    <2>5. note'[n].state = "active" /\ \A m \in Notes : m # n => note'[m].state = note[m].state
      BY <1>1, <1>3, <2>4, StatesKept, StatesAfterInsert
    <2> QED
      BY <1>1, <2>3, <2>5, InsertedInto
  <1>5. CASE MoveNote
    <2>1. PICK n \in Notes, c \in Lists, h \in Neighbours(TRUE) : Move(n, c, h)
      BY <1>5 DEF MoveNote
    <2>2. PICK p \in PlaceNote(c, n, h) : note' = SetNoteLocation(RekeyNotes(p.keys), n, c, p.key)
      BY <2>1 DEF Move
    <2>3. part' = part
      BY <2>1 DEF Move
    <2>4. DOMAIN RekeyNotes(p.keys) = Notes /\ \A m \in Notes : RekeyNotes(p.keys)[m].state = note[m].state
      BY <1>1, <1>3, StatesKept
    <2> DEFINE rows == RekeyNotes(p.keys)
    <2> DEFINE key == p.key
    <2>5. note' = [rows EXCEPT ![n].category = c, ![n].position = key]
      BY <2>2 DEF SetNoteLocation
    <2>6. DOMAIN rows = Notes /\ \A m \in Notes : rows[m].state = note[m].state
      BY <2>4
    <2> HIDE DEF rows, key
    <2>7. \A m \in Notes : note'[m].state = rows[m].state
      BY <2>5, <2>6
    <2> QED
      BY <2>3, <2>6, <2>7, StillOfNotes
  <1>6. CASE DismissANote \/ RestoreANote
    <2>1. part' = part /\ \E n \in Notes : note' = DismissNote(n) \/ note' = RestoreNote(n)
      BY <1>6 DEF DismissANote, RestoreANote, Dismiss, Restore
    <2>2. \A m \in Notes : note'[m].state = "absent" => note[m].state = "absent"
      BY <1>1, <2>1 DEF DismissNote, RestoreNote, NoteTable, IsRow, NoteColumns
    <2> QED
      BY <2>1, <2>2, StillOfNotes
  <1>7. CASE UploadFile \/ Janitor
    <2>1. part' = part /\ note' = note
      BY <1>7 DEF UploadFile, Janitor, Upload, RemoveUnused
    <2> QED
      BY <2>1, StillOfNotes
  <1>8. CASE DeleteNotePermanently
    <2>1. PICK n \in Notes : note' = DeleteNote(n) /\ part' = DeleteNoteParts(PartsOf(n))
      BY <1>8 DEF DeleteNotePermanently, DeletePermanently
    <2>2. \A m \in Notes : m # n => note'[m] = note[m]
      BY <1>1, <2>1 DEF DeleteNote, NoteTable
    <2>3. \A p \in Parts : part'[p] = IF part[p].note = n THEN NoPart ELSE part[p]
      BY <2>1 DEF DeleteNoteParts, PartsOf
    <2>4. NoPart.note = None
      BY DEF NoPart
    <2>5. ASSUME NEW p \in Parts, part'[p].note # None
          PROVE  part'[p].note \in Notes /\ note'[part'[p].note].state # "absent"
      <3>1. part'[p] = part[p] /\ part[p].note # n
        BY <2>3, <2>4, <2>5
      <3> QED
        BY <2>2, <2>5, <3>1 DEF NotesOfParts, GetNote
    <2> QED
      BY <2>5 DEF NotesOfParts, GetNote
  <1>9. CASE DeleteNotePart
    <2>1. note' = note /\ \E ps : part' = DeleteNoteParts(ps)
      BY <1>9 DEF DeleteNotePart, RemovePart
    <2>2. \A p \in Parts : part'[p].note = None \/ part'[p].note = part[p].note
      BY <2>1 DEF DeleteNoteParts, NoPart
    <2> QED
      BY <2>1, <2>2, StillOfNotes
  <1>10. CASE EditNotePart
    <2>1. PICK p \in Parts, t \in Texts : part' = [part EXCEPT ![p].text = t, ![p].edited = now] /\ note' = note
      BY <1>10 DEF EditNotePart, EditPart, UpdatePartText
    <2>2. \A q \in Parts : part'[q].note = part[q].note
      BY <1>1, <2>1 DEF PartTable, PartColumns
    <2> QED
      BY <2>1, <2>2, StillOfNotes
  <1>11. CASE AddNotePart
    <2>1. PICK n \in Notes, p \in FreeParts, in \in Inputs :
            GetNote(n) /\ note' = note /\ InsertParts(n, <<p>>, <<in>>, NextPartOrdinal(n), "app", now)
      BY <1>11 DEF AddNotePart, AddPart
    <2>2. \A i, j \in DOMAIN <<p>> : <<p>>[i] = <<p>>[j] => i = j
      OBVIOUS
    <2> QED
      BY <1>1, <2>1, <2>2, InsertedInto DEF GetNote
  <1>12. CASE MergeNotes
    <2>1. PICK target \in Notes, source \in Notes : Merge(target, source)
      BY <1>12 DEF MergeNotes
    <2> DEFINE o == NextPartOrdinal(target)
    <2>2. /\ \A p \in Parts : part'[p] = IF part[p].note = source
                                         THEN [part[p] EXCEPT !.note = target, !.ordinal = @ + o] ELSE part[p]
          /\ note' = DeleteNote(source) /\ target # source /\ GetNote(target)
      BY <2>1 DEF Merge, MovePartsToNote
    <2> HIDE DEF o
    <2>3. \A m \in Notes : m # source => note'[m] = note[m]
      BY <1>1, <2>2 DEF DeleteNote, NoteTable
    <2>4. ASSUME NEW p \in Parts
          PROVE  (part[p].note = source /\ part'[p].note = target) \/ (part[p].note # source /\ part'[p] = part[p])
      BY <1>1, <2>2 DEF PartTable, PartColumns
    <2>5. ASSUME NEW p \in Parts, part'[p].note # None
          PROVE  part'[p].note \in Notes /\ note'[part'[p].note].state # "absent"
      BY <2>2, <2>3, <2>4, <2>5 DEF NotesOfParts, GetNote
    <2> QED
      BY <2>5 DEF NotesOfParts, GetNote
  <1>13. CASE SplitNotePart
    <2>1. PICK n \in Notes, p \in Parts, new \in Notes : Split(n, p, new)
      BY <1>13 DEF SplitNotePart
    <2>2. part' = [part EXCEPT ![p].note = new, ![p].ordinal = 0]
      BY <2>1 DEF Split, MovePartToNewNote
    <2>3. PICK k \in PlaceNote(note[n].category, new, [after |-> n, before |-> None, top |-> FALSE]) :
            note' = InsertNoteAt(RekeyNotes(k.keys), new, note[n].category, k.key, part[p].created)
      BY <2>1 DEF Split
    <2>4. note'[new].state = "active" /\ \A m \in Notes : m # new => note'[m].state = note[m].state
      BY <1>1, <1>3, <2>3, StatesKept, StatesAfterInsert
    <2>5. \A q \in Parts : part'[q].note = new \/ part'[q] = part[q]
      BY <1>1, <2>2 DEF PartTable, PartColumns
    <2>6. ASSUME NEW q \in Parts, part'[q].note # None
          PROVE  part'[q].note \in Notes /\ note'[part'[q].note].state # "absent"
      <3>1. CASE part'[q].note = new
        BY <2>4, <3>1
      <3>2. CASE part'[q].note # new
        BY <2>4, <2>5, <2>6, <3>2 DEF NotesOfParts, GetNote
      <3> QED
        BY <3>1, <3>2
    <2> QED
      BY <2>6 DEF NotesOfParts, GetNote
  <1> QED
    BY <1>4, <1>5, <1>6, <1>7, <1>8, <1>9, <1>10, <1>11, <1>12, <1>13 DEF NotesNext

-----------------------------------------------------------------------------
(* The text that is shown is in the history, so that what overwrites it    *)
(* leaves it there.                                                        *)
InHistory(p, t) == \E i \in DOMAIN history[p] : history[p][i].text = t
TextShown(p)    == part[p].note # None /\ part[p].kind = "text" => InHistory(p, part[p].text)

TextKept(p) ==
  part[p].note # None /\ part'[p].note # None /\ part'[p].text # part[p].text =>
    (\E i \in DOMAIN history'[p] : history'[p][i].text = part[p].text) \/ InApp(p)

(* An edit in the app overwrites no version but one its session wrote just *)
(* before, so the text that is shown stays, or is of that version.         *)
LEMMA EditKeepsTexts ==
  ASSUME HistoryTable, NEW n, NEW p \in Parts, NEW t, NEW s, TextShown(p), EditPart(n, p, t, s), part[p].note # None
  PROVE  (\E i \in DOMAIN history'[p] : history'[p][i].text = part[p].text) \/ WroteJustNow(p, s)
  <1>1. PICK j \in DOMAIN history[p] : history[p][j].text = part[p].text
    BY DEF EditPart, TextShown, InHistory
  <1>2. DOMAIN history = Parts /\ IsSeq(history[p])
    BY DEF HistoryTable, VersionsOK
  <1>3. CASE \E i \in Coalesces(p, s) : history' = OverwriteVersionText(p, i, t)
    <2>1. PICK i \in Coalesces(p, s) : history' = OverwriteVersionText(p, i, t)
      BY <1>3
    <2>2. /\ i \in DOMAIN history[p]
          /\ history[p][i].session = s /\ now - history[p][i].recorded < CoalesceWindow
      BY DEF Coalesces, LatestAppVersion, AppVersions
    <2>3. CASE j = i
      BY <1>1, <2>2, <2>3 DEF WroteJustNow
    <2>4. CASE j # i
      <3>1. history'[p] = [history[p] EXCEPT ![i].text = t, ![i].edited = now, ![i].recorded = now]
        BY <1>2, <2>1 DEF OverwriteVersionText
      <3>2. j \in DOMAIN history'[p] /\ history'[p][j] = history[p][j]
        BY <2>4, <3>1
      <3> QED
        BY <1>1, <3>2
    <2> QED
      BY <2>3, <2>4
  <1>4. CASE history' = InsertPartVersion(history, p, t, "app", now, TRUE, s)
    <2> DEFINE v == Version(t, "app", now, TRUE, s)
    <2>1. history'[p] = Append(history[p], v)
      BY <1>2, <1>4 DEF InsertPartVersion, Version
    <2> HIDE DEF v
    <2>2. j \in DOMAIN history'[p] /\ history'[p][j] = history[p][j]
      BY <1>2, <2>1, Appended
    <2> QED
      BY <1>1, <2>2
  <1> QED
    BY <1>3, <1>4 DEF EditPart

(* And a step that keeps the versions in order keeps the text that is      *)
(* shown among them, and what it overwrites.                               *)
LEMMA TextStays ==
  ASSUME NEW p, VersionsOK(p), TextShown(p), Ordinary(p)
  PROVE  TextShown(p)' /\ TextKept(p)
  <1>1. CASE Gone(p)
    BY <1>1 DEF Gone, TextShown, TextKept
  <1>2. CASE Still(p)
    BY <1>2 DEF Still, TextShown, InHistory, TextKept
  <1>3. ASSUME NEW v, history'[p] = Append(history[p], v), DOMAIN v = VersionColumns, part'[p].note # None
        PROVE  /\ VersionsOK(p)'
               /\ \A i \in DOMAIN history[p] : i \in DOMAIN history'[p] /\ history'[p][i] = history[p][i]
               /\ \E i \in DOMAIN history'[p] : history'[p][i] = v
    BY <1>3, VersionIsAdded
  <1>4. CASE \E time : Begun(p, time)
    <2>1. PICK time : Begun(p, time)
      BY <1>4
    <2>2. TextShown(p)'
      <3>1. CASE part'[p].kind = "text"
        <4>1. PICK origin : history'[p] = Append(history[p], Version(part'[p].text, origin, time, TRUE, None))
          BY <2>1, <3>1 DEF Begun
        <4>2. PICK i \in DOMAIN history'[p] : history'[p][i] = Version(part'[p].text, origin, time, TRUE, None)
          BY <2>1, <4>1, <1>3 DEF Begun, Version, VersionColumns
        <4>3. history'[p][i].text = part'[p].text
          BY <4>2 DEF Version, VersionColumns
        <4> QED
          BY <4>3 DEF TextShown, InHistory
      <3>2. CASE part'[p].kind # "text"
        BY <3>2 DEF TextShown
      <3> QED
        BY <3>1, <3>2
    <2> QED
      BY <2>1, <2>2 DEF Begun, TextKept
  <1>5. CASE Rewritten(p)
    <2>0. PICK j \in DOMAIN history[p] : history[p][j].text = part[p].text
      BY <1>5 DEF Rewritten, TextShown, InHistory
    <2>1. CASE \E s : history'[p] = Append(history[p], Version(part'[p].text, "app", now, TRUE, s))
      <3>1. PICK s : history'[p] = Append(history[p], Version(part'[p].text, "app", now, TRUE, s))
        BY <2>1
      <3>2. \E i \in DOMAIN history'[p] : history'[p][i].text = part'[p].text
        <4>1. PICK i \in DOMAIN history'[p] : history'[p][i] = Version(part'[p].text, "app", now, TRUE, s)
          BY <1>5, <3>1, <1>3 DEF Rewritten, Version, VersionColumns
        <4>2. history'[p][i].text = part'[p].text
          BY <4>1 DEF Version, VersionColumns
        <4> QED
          BY <4>2
      <3>3. \E i \in DOMAIN history'[p] : history'[p][i].text = part[p].text
        BY <1>5, <2>0, <3>1, <1>3 DEF Rewritten, Version, VersionColumns
      <3> QED
        BY <3>2, <3>3 DEF TextShown, InHistory, TextKept
    <2>2. ASSUME NEW i \in DOMAIN history[p],
                 history'[p] = [history[p] EXCEPT ![i].text = part'[p].text, ![i].edited = now, ![i].recorded = now]
          PROVE  TextShown(p)' /\ TextKept(p)
      <3>1. /\ DOMAIN history'[p] = DOMAIN history[p] /\ history'[p][i].text = part'[p].text
            /\ \A k \in DOMAIN history[p] : k # i => history'[p][k] = history[p][k]
        BY <2>2, Overwritten
      <3>2. TextShown(p)'
        BY <3>1 DEF TextShown, InHistory
      <3> QED
        BY <1>5, <3>2 DEF Rewritten, TextKept
    <2> QED
      BY <1>5, <2>1, <2>2 DEF Rewritten
  <1> QED
    BY <1>1, <1>2, <1>4, <1>5 DEF Ordinary
=============================================================================
