-------------------------- MODULE RemindersProofs --------------------------
(***************************************************************************)
(* Proofs about Reminders: type correctness, that no occurrence fires      *)
(* twice, that nothing stays queued for what was removed, that nothing     *)
(* stays suspended outside the Trash and that what came due there stays    *)
(* silent.  They hold for any number of reminders, notes and replicas, any *)
(* recurrences and any delays.                                             *)
(*                                                                         *)
(* The inductive invariant is pointwise: RowOK says of one reminder what   *)
(* its row, its note and what is queued for it have to do with each other. *)
(* Two facts about times carry the argument.  A reminder that can still    *)
(* fire is due after it fired last, and it fired no later than now; so     *)
(* whatever a stale batch does, firing again needs a new occurrence.       *)
(*                                                                         *)
(* The second half is about ReminderTimes: that the next occurrence of a   *)
(* rule is the one the days of the calendar say.  It goes from offsets to  *)
(* days, from days to weeks and dates and back, from there to one step of  *)
(* the loop in Rule.Next, and by induction to where the loop ends.         *)
(***************************************************************************)
EXTENDS ReminderTimes, NaturalsInduction, WellFoundedInduction, TLAPS

RowOK(x, nt, q, t) ==
  /\ x \in Rows
  /\ x.state \notin {"none", "removed"} => x.note \in Notes /\ nt[x.note] # "gone"
  /\ x.state = "suspended" => nt[x.note] = "deleted"
  /\ q # {} => x.state \notin {"none", "removed", "done"}
  /\ x.fired <= t
  /\ x.state \in {"pending", "suspended"} => x.due > x.fired

RowsOK == \A r \in Reminders : RowOK(row[r], note, queued[r], now)

SettingsOK ==
  /\ now \in Nat
  /\ active \in BOOLEAN /\ target \in BOOLEAN
  /\ note \in [Notes -> {"active", "deleted", "gone"}]
  /\ acts \in Nat /\ failures \in Nat

ShownOK ==
  /\ queued \in [Reminders -> SUBSET Nat]
  /\ inChat \in [Reminders -> Nat]
  /\ notices \in [Reminders -> Nat]

WorkersOK ==
  /\ batch \in [Workers -> SUBSET Reminders]
  /\ at \in [Workers -> Nat]
  /\ failing \in [Workers -> Reminders \cup {None}]

HistoryOK ==
  /\ back \in [Reminders -> Nat]
  /\ failedDue \in [Reminders -> Nat]
  /\ answered \in [Reminders -> Nat]

TableOK == DOMAIN row = Reminders /\ row = [r \in Reminders |-> row[r]]

Inv == SettingsOK /\ ShownOK /\ WorkersOK /\ HistoryOK /\ TableOK /\ RowsOK

LEMMA InvImplies == Inv => TypeOK /\ SuspendedIsInTheTrash /\ NothingQueuedForTheRemoved
  <1> SUFFICES ASSUME Inv PROVE TypeOK /\ SuspendedIsInTheTrash /\ NothingQueuedForTheRemoved
    OBVIOUS
  <1>1. \A r \in Reminders : RowOK(row[r], note, queued[r], now)
    BY DEF Inv, RowsOK
  <1>2. row \in [Reminders -> Rows]
    BY <1>1 DEF Inv, TableOK, RowOK
  <1>3. \A r \in Reminders : Exists(r) => row[r].note \in Notes /\ note[row[r].note] # "gone"
    BY <1>1 DEF RowOK, Exists
  <1>4. TypeOK
    BY <1>2, <1>3 DEF Inv, TypeOK, SettingsOK, ShownOK, WorkersOK, HistoryOK
  <1>5. SuspendedIsInTheTrash
    BY <1>1 DEF RowOK, SuspendedIsInTheTrash, NoteState, NoteOf, Exists
  <1>6. NothingQueuedForTheRemoved
    BY <1>1 DEF RowOK, NothingQueuedForTheRemoved
  <1> QED
    BY <1>4, <1>5, <1>6

-----------------------------------------------------------------------------
(* What the operators on a row return.                                     *)

(* The next occurrence is later than the one it counts from and than now.  *)
LEMMA NextIsLater ==
  ASSUME NEW d \in Nat, NEW p \in Nat, NEW t \in Nat, p > 0
  PROVE  NextOccurrence(d, p, t) \in Nat /\ NextOccurrence(d, p, t) > t /\ NextOccurrence(d, p, t) > d
  <1>1. CASE t < d
    BY <1>1 DEF NextOccurrence
  <1>2. CASE ~ (t < d)
    <2> DEFINE a == t - d
    <2>1. a \in Nat
      BY <1>2
    <2>2. a \div p \in Nat /\ p * (a \div p + 1) > a
      BY <2>1
    <2>3. NextOccurrence(d, p, t) = d + p * (a \div p + 1)
      BY <1>2 DEF NextOccurrence
    <2> HIDE DEF a
    <2>4. \A k \in Nat : p * (k + 1) \in Nat /\ p * (k + 1) > 0
      OBVIOUS
    <2>5. t = d + a
      BY <2>1 DEF a
    <2> QED
      BY <2>1, <2>2, <2>3, <2>4, <2>5
  <1> QED
    BY <1>1, <1>2

LEMMA ArmedRow ==
  ASSUME NEW x \in Rows, NEW d \in Nat
  PROVE  /\ Armed(x, d) \in Rows
         /\ Armed(x, d).state = "pending" /\ Armed(x, d).due = d
         /\ Armed(x, d).fired = x.fired /\ Armed(x, d).note = x.note /\ Armed(x, d).every = x.every
  BY DEF Armed, Rows, States

LEMMA UnclaimedRow ==
  ASSUME NEW x \in Rows, NEW s \in States
  PROVE  LET y == [x EXCEPT !.state = s, !.claimed = 0]
         IN  y \in Rows /\ y.state = s /\ y.fired = x.fired /\ y.note = x.note /\ y.due = x.due
  BY DEF Rows, States

LEMMA FiredRow ==
  ASSUME NEW x \in Rows, now \in Nat
  PROVE  /\ Fired(x) \in Rows
         /\ Fired(x).fired = now /\ Fired(x).note = x.note
         /\ \/ Fired(x).state = "fired"
            \/ Fired(x).state = x.state /\ Fired(x).due > now
  <1>1. CASE x.every > 0
    <2>1. NextOccurrence(x.due, x.every, now) \in Nat /\ NextOccurrence(x.due, x.every, now) > now
      BY <1>1, NextIsLater DEF Rows
    <2> QED
      BY <1>1, <2>1 DEF Fired, Rows, States
  <1>2. CASE ~ (x.every > 0)
    BY <1>2 DEF Fired, Rows, States
  <1> QED
    BY <1>1, <1>2

LEMMA RestoredRow ==
  ASSUME NEW x \in Rows, now \in Nat
  PROVE  /\ Restored(x) \in Rows
         /\ Restored(x).fired = x.fired /\ Restored(x).note = x.note
         /\ \/ Restored(x).state = "cancelled"
            \/ Restored(x).state = "pending" /\ Restored(x).due > now
  <1>1. CASE x.due > now
    BY <1>1 DEF Restored, Rows, States
  <1>2. CASE ~ (x.due > now) /\ x.every > 0
    <2>1. NextOccurrence(x.due, x.every, now) \in Nat /\ NextOccurrence(x.due, x.every, now) > now
      BY <1>2, NextIsLater DEF Rows
    <2> QED
      BY <1>2, <2>1 DEF Restored, Rows, States
  <1>3. CASE ~ (x.due > now) /\ ~ (x.every > 0)
    BY <1>3 DEF Restored, Rows, States
  <1> QED
    BY <1>1, <1>2, <1>3

-----------------------------------------------------------------------------
(* One reminder changes, the notes and the clock do not.                   *)
LEMMA OneRowChanges ==
  ASSUME Inv, NEW r \in Reminders, NEW y, row' = [row EXCEPT ![r] = y],
         note' = note, now' = now,
         \A q \in Reminders : q # r => queued'[q] = queued[q],
         RowOK(y, note, queued'[r], now)
  PROVE  TableOK' /\ RowsOK'
  <1>1. DOMAIN row = Reminders /\ \A q \in Reminders : RowOK(row[q], note, queued[q], now)
    BY DEF Inv, TableOK, RowsOK
  <1>2. DOMAIN row' = Reminders /\ row' = [q \in Reminders |-> row'[q]]
    BY <1>1
  <1>3. row'[r] = y /\ \A q \in Reminders : q # r => row'[q] = row[q]
    BY <1>1
  <1>4. \A q \in Reminders : RowOK(row'[q], note, queued'[q], now)
    BY <1>1, <1>3
  <1> QED
    BY <1>2, <1>4 DEF TableOK, RowsOK

(* The rows stay as they are.                                              *)
LEMMA RowsStay ==
  ASSUME Inv, row' = row, note' = note, now' \in Nat, now' >= now,
         \A q \in Reminders : queued'[q] = {} \/ queued'[q] = queued[q]
                              \/ row[q].state \notin {"none", "removed", "done"}
  PROVE  TableOK' /\ RowsOK'
  <1>1. \A q \in Reminders : RowOK(row[q], note, queued[q], now)
    BY DEF Inv, RowsOK
  <1>2. now \in Nat
    BY DEF Inv, SettingsOK
  <1>3. ASSUME NEW q \in Reminders PROVE RowOK(row[q], note, queued'[q], now')
    BY <1>1, <1>2 DEF RowOK, Rows
  <1> QED
    BY <1>3 DEF RowsOK, TableOK, Inv

LEMMA CancelType ==
  ASSUME NEW S, ShownOK, CancelQueued(S)
  PROVE  /\ queued' \in [Reminders -> SUBSET Nat]
         /\ \A q \in Reminders : queued'[q] = IF q \in S THEN {} ELSE queued[q]
  BY DEF CancelQueued, ShownOK

-----------------------------------------------------------------------------
LEMMA InitInv == Init => Inv
  <1> SUFFICES ASSUME Init PROVE Inv
    OBVIOUS
  <1>1. SettingsOK /\ ShownOK /\ WorkersOK /\ HistoryOK
    BY DEF Init, SettingsOK, ShownOK, WorkersOK, HistoryOK
  <1>2. TableOK /\ RowsOK
    BY DEF Init, TableOK, RowsOK, RowOK, Rows, States
  <1> QED
    BY <1>1, <1>2 DEF Inv

(* The calls on one reminder.                                              *)
LEMMA OnReminderKeeps ==
  ASSUME Inv, NEW r \in Reminders, OnReminder(r)
  PROVE  Inv'
  <1>t. SettingsOK /\ ShownOK /\ WorkersOK /\ HistoryOK /\ now \in Nat
    BY DEF Inv, SettingsOK
  <1>r. row[r] \in Rows /\ RowOK(row[r], note, queued[r], now)
    BY DEF Inv, RowsOK, RowOK
  <1>q. ASSUME NEW y, row' = [row EXCEPT ![r] = y], OneReminder, UserActs, answered' \in [Reminders -> Nat],
               queued' = queued \/ CancelQueued({r}), RowOK(y, note, queued'[r], now)
        PROVE  Inv'
    <2>1. ShownOK' /\ \A q \in Reminders : q # r => queued'[q] = queued[q]
      BY <1>q, <1>t, CancelType DEF ShownOK, OneReminder
    <2>2. SettingsOK' /\ WorkersOK' /\ HistoryOK'
      BY <1>q, <1>t DEF SettingsOK, WorkersOK, HistoryOK, OneReminder, UserActs, userVars, workerVars
    <2>3. note' = note /\ now' = now
      BY <1>q DEF OneReminder, userVars
    <2>4. TableOK' /\ RowsOK'
      BY <1>q, <2>1, <2>3, OneRowChanges
    <2> QED
      BY <2>1, <2>2, <2>4 DEF Inv
  <1>a. answered \in [Reminders -> Nat]
    BY <1>t DEF HistoryOK
  <1>1. ASSUME NEW n \in Notes, NEW due \in 1 .. MaxDue, NEW every \in Periods, Create(r, n, due, every)
        PROVE  Inv'
    <2> DEFINE y == [state |-> "pending", due |-> due, every |-> every, claimed |-> 0, fired |-> 0, note |-> n]
    <2>1. due \in Nat /\ every \in Nat /\ due > now /\ note[n] = "active" /\ queued[r] = {}
      BY <1>1, <1>r, TimesAssumption DEF Create, RowOK
    <2>2. y \in Rows
      BY <2>1 DEF Rows, States
    <2>3. RowOK(y, note, queued[r], now)
      BY <2>1, <2>2, <1>t DEF RowOK
    <2>4. row' = [row EXCEPT ![r] = y] /\ OneReminder /\ UserActs /\ queued' = queued /\ answered' = answered
      BY <1>1 DEF Create
    <2> HIDE DEF y
    <2> QED
      BY <1>q, <1>a, <2>3, <2>4
  <1>2. ASSUME NEW due \in 1 .. MaxDue, NEW every \in Periods, Update(r, due, every)
        PROVE  Inv'
    <2> DEFINE y == [Armed(row[r], due) EXCEPT !.every = every]
    <2>1. due \in Nat /\ every \in Nat /\ due > now /\ Exists(r) /\ note[row[r].note] = "active"
      BY <1>2, TimesAssumption DEF Update, NoteState, NoteOf
    <2>2. y \in Rows /\ y.state = "pending" /\ y.due = due /\ y.fired = row[r].fired /\ y.note = row[r].note
      BY <1>r, <2>1, ArmedRow DEF Rows
    <2>3. RowOK(y, note, queued[r], now)
      <3> HIDE DEF y
      <3> QED
        BY <1>r, <1>t, <2>1, <2>2 DEF RowOK, Exists, Rows
    <2>4. row' = [row EXCEPT ![r] = y] /\ OneReminder /\ UserActs /\ queued' = queued /\ answered' = answered
      BY <1>2 DEF Update
    <2> HIDE DEF y
    <2> QED
      BY <1>q, <1>a, <2>3, <2>4
  <1>3. ASSUME NEW until \in 1 .. MaxDue, Snooze(r, until)
        PROVE  Inv'
    <2> DEFINE y == Armed(row[r], until)
    <2>1. until \in Nat /\ until > now /\ row[r].state \in {"pending", "fired", "done"}
      BY <1>3, TimesAssumption DEF Snooze
    <2>2. y \in Rows /\ y.state = "pending" /\ y.due = until /\ y.fired = row[r].fired /\ y.note = row[r].note
      BY <1>r, <2>1, ArmedRow
    <2>3. RowOK(y, note, queued[r], now)
      <3> HIDE DEF y
      <3> QED
        BY <1>r, <1>t, <2>1, <2>2 DEF RowOK, Rows
    <2>4. row' = [row EXCEPT ![r] = y] /\ OneReminder /\ UserActs /\ queued' = queued /\ answered' = answered
      BY <1>3 DEF Snooze
    <2> HIDE DEF y
    <2> QED
      BY <1>q, <1>a, <2>3, <2>4
  <1>4. CASE Delete(r)
    <2> DEFINE y == [row[r] EXCEPT !.state = "removed", !.claimed = 0]
    <2>1. y \in Rows /\ y.state = "removed" /\ y.fired = row[r].fired
      BY <1>r DEF Rows, States
    <2>2. CancelQueued({r}) /\ OneReminder /\ UserActs /\ answered' = answered /\ row' = [row EXCEPT ![r] = y]
      BY <1>4 DEF Delete
    <2>3. queued'[r] = {}
      BY <2>2, <1>t, CancelType
    <2>4. RowOK(y, note, queued'[r], now)
      <3> HIDE DEF y
      <3> QED
        BY <1>r, <2>1, <2>3 DEF RowOK
    <2> HIDE DEF y
    <2> QED
      BY <1>q, <1>a, <2>2, <2>4
  <1>5. ASSUME DoneIn(r), OneReminder, UserActs, answered' \in [Reminders -> Nat]
        PROVE  Inv'
    <2> DEFINE y == IF Recurs(r) THEN Armed(row[r], NextOccurrence(row[r].due, row[r].every, now))
                    ELSE [row[r] EXCEPT !.state = "done", !.claimed = 0]
    <2>3. /\ y \in Rows /\ y.fired = row[r].fired /\ y.note = row[r].note
          /\ y.state = "done" \/ (y.state = "pending" /\ y.due > now)
      <3>1. CASE Recurs(r)
        <4>1. NextOccurrence(row[r].due, row[r].every, now) \in Nat /\ NextOccurrence(row[r].due, row[r].every, now) > now
          BY <1>r, <1>t, <3>1, NextIsLater DEF Recurs, Rows
        <4> QED
          BY <1>r, <3>1, <4>1, ArmedRow
      <3>2. CASE ~ Recurs(r)
        BY <1>r, <3>2 DEF Rows, States
      <3> QED
        BY <3>1, <3>2
    <2>4. CancelQueued({r}) /\ row[r].state \in {"pending", "fired"} /\ row' = [row EXCEPT ![r] = y]
      BY <1>5 DEF DoneIn, Recurs
    <2>5. queued'[r] = {}
      BY <2>4, <1>t, CancelType
    <2>6. RowOK(y, note, queued'[r], now)
      <3> HIDE DEF y
      <3> QED
        BY <1>r, <1>t, <2>3, <2>4, <2>5 DEF RowOK, Rows
    <2> HIDE DEF y
    <2> QED
      BY <1>q, <1>5, <2>4, <2>6
  <1>6. CASE Done(r)
    BY <1>5, <1>6, <1>a DEF Done
  <1>7. CASE ReplyDone(r)
    <2>1. CASE DoneIn(r) /\ answered' = [answered EXCEPT ![r] = inChat[r]]
      <3>1. answered' \in [Reminders -> Nat]
        BY <2>1, <1>a, <1>t DEF ShownOK
      <3> QED
        BY <1>5, <1>7, <2>1, <3>1 DEF ReplyDone
    <2>2. CASE CancelQueued({r}) /\ UNCHANGED <<row, answered>>
      <3>1. ShownOK' /\ \A q \in Reminders : queued'[q] = {} \/ queued'[q] = queued[q]
        BY <1>7, <1>t, <2>2, CancelType DEF ShownOK, ReplyDone, OneReminder
      <3>2. SettingsOK' /\ WorkersOK' /\ HistoryOK' /\ note' = note /\ now' = now
        BY <1>7, <1>t, <2>2 DEF SettingsOK, WorkersOK, HistoryOK, ReplyDone, OneReminder, UserActs, userVars, workerVars
      <3>3. TableOK' /\ RowsOK'
        BY <1>t, <2>2, <3>1, <3>2, RowsStay
      <3> QED
        BY <3>1, <3>2, <3>3 DEF Inv
    <2> QED
      BY <1>7, <2>1, <2>2 DEF ReplyDone
  <1> QED
    BY <1>1, <1>2, <1>3, <1>4, <1>6, <1>7 DEF OnReminder

-----------------------------------------------------------------------------
(* The rows of several reminders change together with the state of notes.  *)
LEMMA NotesChange ==
  ASSUME Inv, NEW f, row' = [r \in Reminders |-> f[r]],
         note' \in [Notes -> {"active", "deleted", "gone"}],
         queued' \in [Reminders -> SUBSET Nat],
         UNCHANGED <<now, active, target, inChat, notices, workerVars, failedDue, answered, failures>>,
         UserActs, back' \in [Reminders -> Nat],
         \A r \in Reminders : RowOK(f[r], note', queued'[r], now)
  PROVE  Inv'
  <1>1. SettingsOK' /\ ShownOK' /\ WorkersOK' /\ HistoryOK'
    BY DEF Inv, SettingsOK, ShownOK, WorkersOK, HistoryOK, UserActs, workerVars
  <1>2. TableOK'
    BY DEF TableOK
  <1>3. RowsOK'
    BY DEF RowsOK
  <1> QED
    BY <1>1, <1>2, <1>3 DEF Inv

LEMMA DismissKeeps ==
  ASSUME Inv, NEW n \in Notes, Dismiss(n)
  PROVE  Inv'
  <1> DEFINE f == [r \in Reminders |->
               IF r \in OnNote(n) /\ row[r].state = "pending"
               THEN [row[r] EXCEPT !.state = "suspended", !.claimed = 0] ELSE row[r]]
  <1>1. \A r \in Reminders : RowOK(row[r], note, queued[r], now)
    BY DEF Inv, RowsOK
  <1>2. note \in [Notes -> {"active", "deleted", "gone"}] /\ note' = [note EXCEPT ![n] = "deleted"]
    BY DEF Inv, SettingsOK, Dismiss
  <1>3. ASSUME NEW r \in Reminders PROVE RowOK(f[r], note', queued'[r], now)
    <2>1. queued' = queued /\ RowOK(row[r], note, queued[r], now)
      BY <1>1 DEF Dismiss
    <2>2. CASE r \in OnNote(n) /\ row[r].state = "pending"
      <3> DEFINE y == [row[r] EXCEPT !.state = "suspended", !.claimed = 0]
      <3>1. f[r] = y /\ row[r].note = n
        BY <2>2 DEF OnNote, NoteOf
      <3>2. row[r] \in Rows
        BY <2>1 DEF RowOK
      <3>3. /\ y \in Rows /\ y.state = "suspended" /\ y.note = row[r].note
            /\ y.fired = row[r].fired /\ y.due = row[r].due
        BY <3>2, UnclaimedRow DEF States
      <3> HIDE DEF f, y
      <3> QED
        BY <1>2, <2>1, <2>2, <3>1, <3>3 DEF RowOK
    <2>3. CASE ~ (r \in OnNote(n) /\ row[r].state = "pending")
      <3>1. f[r] = row[r]
        BY <2>3
      <3> HIDE DEF f
      <3> QED
        BY <1>2, <2>1, <3>1 DEF RowOK, Rows
    <2> QED
      BY <2>2, <2>3
  <1>4. row' = [r \in Reminders |-> f[r]]
    BY DEF Dismiss
  <1>5. note' \in [Notes -> {"active", "deleted", "gone"}]
    BY <1>2
  <1>6. /\ queued' \in [Reminders -> SUBSET Nat] /\ back' \in [Reminders -> Nat] /\ UserActs
        /\ UNCHANGED <<now, active, target, inChat, notices, workerVars, failedDue, answered, failures>>
    BY DEF Dismiss, Inv, ShownOK, HistoryOK, history
  <1> HIDE DEF f
  <1> QED
    BY <1>3, <1>4, <1>5, <1>6, NotesChange

LEMMA RestoreKeeps ==
  ASSUME Inv, NEW n \in Notes, Restore(n)
  PROVE  Inv'
  <1> DEFINE f == [r \in Reminders |->
               IF r \in OnNote(n) /\ row[r].state = "suspended" THEN Restored(row[r]) ELSE row[r]]
  <1>1. now \in Nat /\ \A r \in Reminders : RowOK(row[r], note, queued[r], now)
    BY DEF Inv, RowsOK, SettingsOK
  <1>2. note \in [Notes -> {"active", "deleted", "gone"}] /\ note' = [note EXCEPT ![n] = "active"]
    BY DEF Inv, SettingsOK, Restore
  <1>3. ASSUME NEW r \in Reminders PROVE RowOK(f[r], note', queued'[r], now)
    <2>1. queued' = queued /\ RowOK(row[r], note, queued[r], now) /\ row[r] \in Rows
      BY <1>1 DEF Restore, RowOK
    <2>2. CASE r \in OnNote(n) /\ row[r].state = "suspended"
      <3>1. f[r] = Restored(row[r]) /\ row[r].note = n
        BY <2>2 DEF OnNote, NoteOf
      <3>2. /\ f[r] \in Rows /\ f[r].fired = row[r].fired /\ f[r].note = n
            /\ f[r].state = "cancelled" \/ (f[r].state = "pending" /\ f[r].due > now)
        BY <3>1, <1>1, <2>1, RestoredRow
      <3> HIDE DEF f
      <3> QED
        BY <1>1, <1>2, <2>1, <2>2, <3>2 DEF RowOK, Rows
    <2>3. CASE ~ (r \in OnNote(n) /\ row[r].state = "suspended")
      <3>1. f[r] = row[r] /\ (row[r].state = "suspended" => row[r].note # n)
        BY <2>3 DEF OnNote, NoteOf, Exists
      <3> HIDE DEF f
      <3> QED
        BY <1>2, <2>1, <3>1 DEF RowOK, Rows
    <2> QED
      BY <2>2, <2>3
  <1>4. row' = [r \in Reminders |-> f[r]]
    BY DEF Restore
  <1>5. note' \in [Notes -> {"active", "deleted", "gone"}]
    BY <1>2
  <1>6. back' \in [Reminders -> Nat]
    BY <1>1 DEF Restore, Inv, HistoryOK
  <1>7. /\ queued' \in [Reminders -> SUBSET Nat] /\ UserActs
        /\ UNCHANGED <<now, active, target, inChat, notices, workerVars, failedDue, answered, failures>>
    BY DEF Restore, Inv, ShownOK
  <1> HIDE DEF f
  <1> QED
    BY <1>3, <1>4, <1>5, <1>6, <1>7, NotesChange

LEMMA DeletePermanentlyKeeps ==
  ASSUME Inv, NEW n \in Notes, DeletePermanently(n)
  PROVE  Inv'
  <1> DEFINE f == [r \in Reminders |->
               IF r \in OnNote(n) THEN [row[r] EXCEPT !.state = "removed", !.claimed = 0] ELSE row[r]]
  <1>1. ShownOK /\ \A r \in Reminders : RowOK(row[r], note, queued[r], now)
    BY DEF Inv, RowsOK
  <1>2. note \in [Notes -> {"active", "deleted", "gone"}] /\ note' = [note EXCEPT ![n] = "gone"]
    BY DEF Inv, SettingsOK, DeletePermanently
  <1>c. /\ queued' \in [Reminders -> SUBSET Nat]
        /\ \A r \in Reminders : queued'[r] = IF r \in OnNote(n) THEN {} ELSE queued[r]
    BY <1>1, CancelType DEF DeletePermanently
  <1>3. ASSUME NEW r \in Reminders PROVE RowOK(f[r], note', queued'[r], now)
    <2>1. RowOK(row[r], note, queued[r], now)
      BY <1>1
    <2>2. CASE r \in OnNote(n)
      <3> DEFINE y == [row[r] EXCEPT !.state = "removed", !.claimed = 0]
      <3>1. f[r] = y /\ queued'[r] = {}
        BY <2>2, <1>c
      <3>2. row[r] \in Rows
        BY <2>1 DEF RowOK
      <3>3. y \in Rows /\ y.state = "removed" /\ y.fired = row[r].fired
        BY <3>2, UnclaimedRow DEF States
      <3> HIDE DEF f, y
      <3> QED
        BY <2>1, <3>1, <3>3 DEF RowOK
    <2>3. CASE r \notin OnNote(n)
      <3>1. /\ f[r] = row[r] /\ queued'[r] = queued[r]
            /\ row[r].state \notin {"none", "removed"} => row[r].note # n
        BY <2>3, <1>c DEF OnNote, NoteOf, Exists
      <3> HIDE DEF f
      <3> QED
        BY <1>2, <2>1, <3>1 DEF RowOK, Rows
    <2> QED
      BY <2>2, <2>3
  <1>4. row' = [r \in Reminders |-> f[r]]
    BY DEF DeletePermanently
  <1>5. note' \in [Notes -> {"active", "deleted", "gone"}]
    BY <1>2
  <1>6. /\ back' \in [Reminders -> Nat] /\ UserActs
        /\ UNCHANGED <<now, active, target, inChat, notices, workerVars, failedDue, answered, failures>>
    BY DEF DeletePermanently, Inv, HistoryOK, history
  <1> HIDE DEF f
  <1> QED
    BY <1>c, <1>3, <1>4, <1>5, <1>6, NotesChange

(* Both notes are active, so no reminder that moves is suspended.          *)
LEMMA MergeKeeps ==
  ASSUME Inv, NEW n \in Notes, NEW m \in Notes, Merge(n, m)
  PROVE  Inv'
  <1> DEFINE f == [r \in Reminders |-> IF r \in OnNote(m) THEN [row[r] EXCEPT !.note = n] ELSE row[r]]
  <1>1. \A r \in Reminders : RowOK(row[r], note, queued[r], now)
    BY DEF Inv, RowsOK
  <1>2. /\ note \in [Notes -> {"active", "deleted", "gone"}] /\ note' = [note EXCEPT ![m] = "gone"]
        /\ n # m /\ note[n] = "active" /\ note[m] = "active"
    BY DEF Inv, SettingsOK, Merge
  <1>3. ASSUME NEW r \in Reminders PROVE RowOK(f[r], note', queued'[r], now)
    <2>1. queued' = queued /\ RowOK(row[r], note, queued[r], now)
      BY <1>1 DEF Merge
    <2>2. CASE r \in OnNote(m)
      <3>1. f[r] = [row[r] EXCEPT !.note = n] /\ row[r].note = m /\ row[r].state \notin {"none", "removed"}
        BY <2>2 DEF OnNote, NoteOf, Exists
      <3> HIDE DEF f
      <3> QED
        BY <1>2, <2>1, <3>1 DEF RowOK, Rows
    <2>3. CASE r \notin OnNote(m)
      <3>1. f[r] = row[r] /\ (row[r].state \notin {"none", "removed"} => row[r].note # m)
        BY <2>3 DEF OnNote, NoteOf, Exists
      <3> HIDE DEF f
      <3> QED
        BY <1>2, <2>1, <3>1 DEF RowOK, Rows
    <2> QED
      BY <2>2, <2>3
  <1>4. row' = [r \in Reminders |-> f[r]]
    BY DEF Merge
  <1>5. note' \in [Notes -> {"active", "deleted", "gone"}]
    BY <1>2
  <1>6. /\ queued' \in [Reminders -> SUBSET Nat] /\ back' \in [Reminders -> Nat] /\ UserActs
        /\ UNCHANGED <<now, active, target, inChat, notices, workerVars, failedDue, answered, failures>>
    BY DEF Merge, Inv, ShownOK, HistoryOK, history
  <1> HIDE DEF f
  <1> QED
    BY <1>3, <1>4, <1>5, <1>6, NotesChange

-----------------------------------------------------------------------------
(* The job.                                                                *)
LEMMA ClaimKeeps ==
  ASSUME Inv, NEW w \in Workers, NEW S \in SUBSET Reminders, Claim(w, S)
  PROVE  Inv'
  <1>1. now \in Nat /\ Lease \in Nat /\ \A r \in Reminders : RowOK(row[r], note, queued[r], now)
    BY TimesAssumption DEF Inv, RowsOK, SettingsOK
  <1>2. /\ row' = [r \in Reminders |-> IF r \in S THEN [row[r] EXCEPT !.claimed = now + Lease] ELSE row[r]]
        /\ batch' = [batch EXCEPT ![w] = S] /\ at' = [at EXCEPT ![w] = now]
        /\ UNCHANGED <<now, userVars, queued, inChat, notices, failing, history, acts, failures>>
    BY DEF Claim, Reserve
  <1>3. SettingsOK' /\ ShownOK' /\ WorkersOK' /\ HistoryOK'
    BY <1>1, <1>2 DEF Inv, SettingsOK, ShownOK, WorkersOK, HistoryOK, userVars, history
  <1>4. ASSUME NEW r \in Reminders PROVE RowOK(row'[r], note', queued'[r], now')
    <2>1. RowOK(row[r], note, queued[r], now) /\ note' = note /\ queued' = queued /\ now' = now
      BY <1>1, <1>2 DEF userVars
    <2>2. CASE r \in S
      <3>1. row'[r] = [row[r] EXCEPT !.claimed = now + Lease]
        BY <1>2, <2>2
      <3> QED
        BY <1>1, <2>1, <3>1 DEF RowOK, Rows
    <2>3. CASE r \notin S
      BY <1>2, <2>1, <2>3
    <2> QED
      BY <2>2, <2>3
  <1>5. TableOK'
    BY <1>2 DEF TableOK
  <1> QED
    BY <1>3, <1>4, <1>5 DEF Inv, RowsOK

LEMMA FireOneKeeps ==
  ASSUME Inv, NEW w \in Workers, NEW r \in Reminders, FireOne(w, r)
  PROVE  Inv'
  <1>1. now \in Nat /\ ShownOK /\ row[r] \in Rows /\ RowOK(row[r], note, queued[r], now)
    BY DEF Inv, RowsOK, SettingsOK, RowOK
  <1>2. /\ batch' = [batch EXCEPT ![w] = @ \ {r}]
        /\ UNCHANGED <<now, userVars, inChat, at, failing, history, acts, failures>>
    BY DEF FireOne
  <1>3. SettingsOK' /\ WorkersOK' /\ HistoryOK' /\ note' = note /\ now' = now
    BY <1>2 DEF Inv, SettingsOK, WorkersOK, HistoryOK, userVars, history
  <1>4. CASE Qualifies(r)
    <2> DEFINE y == Fired(row[r])
    <2>1. /\ row' = [row EXCEPT ![r] = y]
          /\ queued' = IF target THEN [queued EXCEPT ![r] = @ \cup {row[r].due}] ELSE queued
          /\ notices' = [notices EXCEPT ![r] = @ + 1]
      BY <1>4 DEF FireOne
    <2>2. /\ y \in Rows /\ y.fired = now /\ y.note = row[r].note
          /\ y.state = "fired" \/ (y.state = row[r].state /\ y.due > now)
      BY <1>1, FiredRow
    <2>3. row[r].state = "pending"
      BY <1>4 DEF Qualifies, StillDue, Due
    <2> HIDE DEF y
    <2>4. RowOK(y, note, queued'[r], now)
      BY <1>1, <2>2, <2>3 DEF RowOK, Rows
    <2>5. ShownOK' /\ \A q \in Reminders : q # r => queued'[q] = queued[q]
      <3>1. row[r].due \in Nat
        BY <1>1 DEF Rows
      <3>2. queued' \in [Reminders -> SUBSET Nat] /\ \A q \in Reminders : q # r => queued'[q] = queued[q]
        BY <1>1, <2>1, <3>1 DEF ShownOK
      <3>3. inChat' \in [Reminders -> Nat] /\ notices' \in [Reminders -> Nat]
        BY <1>1, <1>2, <2>1 DEF ShownOK
      <3> QED
        BY <3>2, <3>3 DEF ShownOK
    <2>6. TableOK' /\ RowsOK'
      BY <1>3, <2>1, <2>4, <2>5, OneRowChanges
    <2> QED
      BY <1>3, <2>5, <2>6 DEF Inv
  <1>5. CASE ~ Qualifies(r)
    <2>1. UNCHANGED <<row, queued, notices>>
      BY <1>5 DEF FireOne
    <2>2. TableOK' /\ RowsOK'
      BY <1>1, <1>3, <2>1, RowsStay
    <2> QED
      BY <1>1, <1>2, <1>3, <2>1, <2>2 DEF Inv, ShownOK
  <1> QED
    BY <1>4, <1>5

LEMMA DeferKeeps ==
  ASSUME Inv, NEW w \in Workers, Defer(w)
  PROVE  Inv'
  <1> DEFINE r == failing[w]
  <1>1. /\ now \in Nat /\ r # None /\ r \in Reminders \cup {None} /\ at[w] \in Nat /\ FailureBackoff \in Nat
    BY TimesAssumption DEF Inv, SettingsOK, WorkersOK, Defer
  <1>2. r \in Reminders /\ row[r] \in Rows /\ RowOK(row[r], note, queued[r], now)
    BY <1>1 DEF Inv, RowsOK, RowOK
  <1>3. /\ row' = IF Exists(r) THEN [row EXCEPT ![r].claimed = at[w] + FailureBackoff] ELSE row
        /\ failing' = [failing EXCEPT ![w] = None]
        /\ UNCHANGED <<now, userVars, queued, inChat, notices, batch, at, history, acts, failures>>
    BY DEF Defer
  <1>4. SettingsOK' /\ ShownOK' /\ WorkersOK' /\ HistoryOK' /\ note' = note /\ now' = now /\ queued' = queued
    BY <1>3 DEF Inv, SettingsOK, ShownOK, WorkersOK, HistoryOK, userVars, history
  <1> HIDE DEF r
  <1>5. CASE Exists(r)
    <2> DEFINE y == [row[r] EXCEPT !.claimed = at[w] + FailureBackoff]
    <2>1. row' = [row EXCEPT ![r] = y]
      BY <1>3, <1>5
    <2>2. RowOK(y, note, queued'[r], now)
      BY <1>1, <1>2, <1>4 DEF RowOK, Rows
    <2> HIDE DEF y
    <2>3. TableOK' /\ RowsOK'
      BY <1>2, <1>4, <2>1, <2>2, OneRowChanges
    <2> QED
      BY <1>4, <2>3 DEF Inv
  <1>6. CASE ~ Exists(r)
    <2>1. TableOK' /\ RowsOK'
      BY <1>1, <1>3, <1>4, <1>6, RowsStay
    <2> QED
      BY <1>4, <2>1 DEF Inv
  <1> QED
    BY <1>5, <1>6

(* Steps that leave every row alone.                                       *)
LEMMA QuietStepKeeps ==
  ASSUME Inv,
         \/ SetStatus \/ SetReminderTarget \/ Tick
         \/ \E w \in Workers : Crash(w) \/ \E r \in Reminders : FireFails(w, r)
         \/ \E r \in Reminders : \E d \in queued[r], delivered \in BOOLEAN : LeaveOutbox(r, d, delivered)
  PROVE  Inv'
  <1>1. SettingsOK /\ ShownOK /\ WorkersOK /\ HistoryOK /\ now \in Nat
    BY DEF Inv, SettingsOK
  <1>r. \A r \in Reminders : row[r] \in Rows /\ RowOK(row[r], note, queued[r], now)
    BY DEF Inv, RowsOK, RowOK
  <1>k. ASSUME row' = row, note' = note, SettingsOK', ShownOK', WorkersOK', HistoryOK', now' >= now,
               \A q \in Reminders : queued'[q] \subseteq queued[q]
        PROVE  Inv'
    <2>1. now' \in Nat
      BY <1>k DEF SettingsOK
    <2>2. \A q \in Reminders : queued'[q] = {} \/ queued'[q] = queued[q]
                               \/ row[q].state \notin {"none", "removed", "done"}
      BY <1>k, <1>r DEF RowOK
    <2>3. TableOK' /\ RowsOK'
      BY <1>k, <2>1, <2>2, RowsStay
    <2> QED
      BY <1>k, <2>3 DEF Inv
  <1>2. CASE SetStatus
    <2>1. row' = row /\ note' = note /\ SettingsOK' /\ ShownOK' /\ WorkersOK' /\ HistoryOK' /\ now' >= now
          /\ queued' = queued
      BY <1>1, <1>2 DEF SetStatus, UserActs, SettingsOK, ShownOK, WorkersOK, HistoryOK, workerVars, history
    <2> QED
      BY <1>k, <2>1
  <1>3. CASE SetReminderTarget
    <2>1. CancelQueued(IF target THEN Reminders ELSE {})
      BY <1>3 DEF SetReminderTarget
    <2>2. queued' \in [Reminders -> SUBSET Nat] /\ \A q \in Reminders : queued'[q] \subseteq queued[q]
      BY <1>1, <2>1, CancelType
    <2>3. row' = row /\ note' = note /\ SettingsOK' /\ ShownOK' /\ WorkersOK' /\ HistoryOK' /\ now' >= now
      BY <1>1, <1>3, <2>2 DEF SetReminderTarget, UserActs, SettingsOK, ShownOK, WorkersOK, HistoryOK, workerVars, history
    <2> QED
      BY <1>k, <2>2, <2>3
  <1>4. CASE Tick
    <2>1. row' = row /\ note' = note /\ SettingsOK' /\ ShownOK' /\ WorkersOK' /\ HistoryOK' /\ now' >= now
          /\ queued' = queued
      BY <1>1, <1>4 DEF Tick, SettingsOK, ShownOK, WorkersOK, HistoryOK, userVars, workerVars, history
    <2> QED
      BY <1>k, <2>1
  <1>5. ASSUME NEW w \in Workers, Crash(w) PROVE Inv'
    <2>1. row' = row /\ note' = note /\ SettingsOK' /\ ShownOK' /\ WorkersOK' /\ HistoryOK' /\ now' >= now
          /\ queued' = queued
      BY <1>1, <1>5 DEF Crash, Failure, SettingsOK, ShownOK, WorkersOK, HistoryOK, userVars, history
    <2> QED
      BY <1>k, <2>1
  <1>6. ASSUME NEW w \in Workers, NEW r \in Reminders, FireFails(w, r) PROVE Inv'
    <2>1. row[r].due \in Nat
      BY <1>r DEF Rows
    <2>2. row' = row /\ note' = note /\ SettingsOK' /\ ShownOK' /\ WorkersOK' /\ HistoryOK' /\ now' >= now
          /\ queued' = queued
      BY <1>1, <1>6, <2>1 DEF FireFails, Failure, SettingsOK, ShownOK, WorkersOK, HistoryOK, userVars
    <2> QED
      BY <1>k, <2>2
  <1>7. ASSUME NEW r \in Reminders, NEW d \in queued[r], NEW delivered \in BOOLEAN, LeaveOutbox(r, d, delivered)
        PROVE  Inv'
    <2>1. queued' \in [Reminders -> SUBSET Nat] /\ (\A q \in Reminders : queued'[q] \subseteq queued[q])
          /\ inChat' \in [Reminders -> Nat]
      BY <1>1, <1>7 DEF LeaveOutbox, ShownOK
    <2>2. row' = row /\ note' = note /\ SettingsOK' /\ ShownOK' /\ WorkersOK' /\ HistoryOK' /\ now' >= now
      BY <1>1, <1>7, <2>1 DEF LeaveOutbox, SettingsOK, ShownOK, WorkersOK, HistoryOK, userVars, workerVars, history
    <2> QED
      BY <1>k, <2>1, <2>2
  <1> QED
    BY <1>2, <1>3, <1>4, <1>5, <1>6, <1>7

LEMMA NextKeeps == Inv /\ [Next]_vars => Inv'
  <1> SUFFICES ASSUME Inv, [Next]_vars PROVE Inv'
    OBVIOUS
  <1>1. ASSUME NEW r \in Reminders, OnReminder(r) PROVE Inv'
    BY <1>1, OnReminderKeeps
  <1>2. ASSUME NEW n \in Notes, OnOneNote(n) PROVE Inv'
    BY <1>2, DismissKeeps, RestoreKeeps, DeletePermanentlyKeeps, MergeKeeps DEF OnOneNote
  <1>3. ASSUME NEW w \in Workers, FireDue(w) PROVE Inv'
    BY <1>3, ClaimKeeps, FireOneKeeps, DeferKeeps DEF FireDue
  <1>4. CASE UNCHANGED vars
    BY <1>4 DEF vars, userVars, workerVars, history, Inv, SettingsOK, ShownOK, WorkersOK, HistoryOK, TableOK,
       RowsOK, RowOK
  <1> QED
    BY <1>1, <1>2, <1>3, <1>4, QuietStepKeeps DEF Next

(* What is always true of a user's reminders.                              *)
THEOREM AlwaysInv == Spec => []Inv
  <1> QED
    BY InitInv, NextKeeps, PTL DEF Spec

-----------------------------------------------------------------------------
(* Every reminder's row has the shape of its table and points to a note    *)
(* that exists, whatever the order of calls, jobs and crashes.             *)
THEOREM TypeCorrect == Spec => []TypeOK
  <1>1. Inv => TypeOK
    BY InvImplies
  <1> QED
    BY <1>1, AlwaysInv, PTL

(* Nothing waits in the outbox for a reminder that was deleted, done or    *)
(* whose note was deleted for good, although a batch claimed before that   *)
(* may still hold the reminder (cancelQueued, CancelOutboxForNote, and     *)
(* fireOne, which reads the row again).                                    *)
THEOREM NothingQueuedStays == Spec => []NothingQueuedForTheRemoved
  <1>1. Inv => NothingQueuedForTheRemoved
    BY InvImplies
  <1> QED
    BY <1>1, AlwaysInv, PTL

(* No reminder is left suspended outside the Trash (OnDismiss, OnRestore,  *)
(* Merge, the cascade of a note's deletion).                               *)
THEOREM SuspendedStaysInTheTrash == Spec => []SuspendedIsInTheTrash
  <1>1. Inv => SuspendedIsInTheTrash
    BY InvImplies
  <1> QED
    BY <1>1, AlwaysInv, PTL

(* Only firing raises a notification.                                      *)
LEMMA OnlyFiringNotifies ==
  ASSUME Inv, Next, NEW r \in Reminders, notices'[r] > notices[r]
  PROVE  \E w \in Workers : FireOne(w, r) /\ Qualifies(r)
  <1>0. notices \in [Reminders -> Nat]
    BY DEF Inv, ShownOK
  <1>1. notices' # notices
    BY <1>0
  <1>2. \E w \in Workers, q \in Reminders : FireOne(w, q)
    BY <1>1 DEF Next, Tick, OnReminder, Create, Update, Snooze, Delete, Done, ReplyDone, OneReminder, OnOneNote,
       Dismiss, Restore, DeletePermanently, Merge, SetStatus, SetReminderTarget, FireDue, Claim, Reserve, Defer,
       Crash, FireFails, LeaveOutbox
  <1>3. PICK w \in Workers, q \in Reminders : FireOne(w, q)
    BY <1>2
  <1>4. Qualifies(q) /\ notices' = [notices EXCEPT ![q] = @ + 1]
    BY <1>1, <1>3 DEF FireOne
  <1>5. q = r
    BY <1>0, <1>4
  <1> QED
    BY <1>3, <1>4, <1>5

(* An occurrence fires at most once: whatever replicas hold the reminder   *)
(* in their batches, a step that notifies finds it due after it fired last *)
(* (ClaimDueReminders, GetDueReminder, AdvanceReminder).                   *)
THEOREM FiresOnce == Spec => NoDoubleFiring
  <1> DEFINE A == \A r \in Reminders :
               notices'[r] > notices[r] => row[r].fired < row[r].due /\ row[r].due <= now
  <1>1. ASSUME Inv, [Next]_vars PROVE [A]_vars
    <2>1. CASE Next
      <3>1. ASSUME NEW r \in Reminders, notices'[r] > notices[r]
            PROVE  row[r].fired < row[r].due /\ row[r].due <= now
        <4>1. PICK w \in Workers : FireOne(w, r) /\ Qualifies(r)
          BY <1>1, <2>1, <3>1, OnlyFiringNotifies
        <4>2. row[r].state = "pending" /\ row[r].due <= now /\ RowOK(row[r], note, queued[r], now)
          BY <1>1, <4>1 DEF Qualifies, StillDue, Due, Inv, RowsOK
        <4> QED
          BY <4>2 DEF RowOK, Rows
      <3> QED
        BY <3>1
    <2>2. CASE UNCHANGED vars
      BY <2>2
    <2> QED
      BY <1>1, <2>1, <2>2
  <1>2. Inv /\ [Next]_vars => [A]_vars
    BY <1>1
  <1>3. NoDoubleFiring <=> [][A]_vars
    BY DEF NoDoubleFiring
  <1> HIDE DEF A
  <1> QED
    BY <1>2, <1>3, AlwaysInv, PTL DEF Spec
-----------------------------------------------------------------------------
(* Silence after the Trash.  A reminder that can fire is on an active note *)
(* and due after the note last came back; one that is over never recurs,   *)
(* so answering it with done cannot arm it while its note is in the Trash. *)
SilentOK(x, nt, b, t) ==
  /\ b <= t
  /\ x.state = "pending" => nt[x.note] = "active" /\ x.due > b
  /\ x.state = "fired" => x.every = 0

SilentInv == \A r \in Reminders : SilentOK(row[r], note, back[r], now)

LEMMA OneRowSilent ==
  ASSUME Inv, SilentInv, NEW r \in Reminders, NEW y, row' = [row EXCEPT ![r] = y],
         note' = note, back' = back, now' = now, SilentOK(y, note, back[r], now)
  PROVE  SilentInv'
  <1>1. DOMAIN row = Reminders
    BY DEF Inv, TableOK
  <1>2. row'[r] = y /\ \A q \in Reminders : q # r => row'[q] = row[q]
    BY <1>1
  <1> QED
    BY <1>2 DEF SilentInv

(* Whatever is armed for a later time, on an active note, is silent until  *)
(* then.                                                                   *)
LEMMA ArmedIsSilent ==
  ASSUME Inv, SilentInv, NEW r \in Reminders, NEW y \in Rows,
         y.state = "pending", y.due > now, note[y.note] = "active"
  PROVE  SilentOK(y, note, back[r], now)
  <1>1. now \in Nat /\ back[r] \in Nat /\ back[r] <= now /\ y.due \in Nat
    BY DEF Inv, SettingsOK, HistoryOK, SilentInv, SilentOK, Rows
  <1> QED
    BY <1>1 DEF SilentOK

LEMMA OverIsSilent ==
  ASSUME SilentInv, NEW r \in Reminders, NEW y, y.state \notin {"pending", "fired"}
  PROVE  SilentOK(y, note, back[r], now)
  BY DEF SilentInv, SilentOK

LEMMA DoneInSilent ==
  ASSUME Inv, SilentInv, NEW r \in Reminders, DoneIn(r), note' = note, back' = back, now' = now
  PROVE  SilentInv'
  <1>1. row[r] \in Rows /\ now \in Nat /\ SilentOK(row[r], note, back[r], now)
    BY DEF Inv, RowsOK, RowOK, SettingsOK, SilentInv
  <1>2. CASE Recurs(r)
    <2> DEFINE d == NextOccurrence(row[r].due, row[r].every, now)
    <2> DEFINE y == Armed(row[r], d)
    <2>1. row' = [row EXCEPT ![r] = y]
      BY <1>2 DEF DoneIn
    <2>2. d \in Nat /\ d > now
      BY <1>1, <1>2, NextIsLater DEF Recurs, Rows
    <2>3. row[r].state = "pending"
      BY <1>1, <1>2 DEF DoneIn, Recurs, SilentOK
    <2> HIDE DEF d
    <2>4. y \in Rows /\ y.state = "pending" /\ y.due = d /\ y.note = row[r].note
      BY <1>1, <2>2, ArmedRow
    <2> HIDE DEF y
    <2>5. SilentOK(y, note, back[r], now)
      BY <1>1, <2>2, <2>3, <2>4, ArmedIsSilent DEF SilentOK
    <2> QED
      BY <2>1, <2>5, OneRowSilent
  <1>3. CASE ~ Recurs(r)
    <2> DEFINE y == [row[r] EXCEPT !.state = "done", !.claimed = 0]
    <2>1. row' = [row EXCEPT ![r] = y]
      BY <1>3 DEF DoneIn
    <2>2. y.state = "done"
      BY <1>1, UnclaimedRow DEF States
    <2> HIDE DEF y
    <2>3. SilentOK(y, note, back[r], now)
      BY <2>2, OverIsSilent
    <2> QED
      BY <2>1, <2>3, OneRowSilent
  <1> QED
    BY <1>2, <1>3

(* The calls on one reminder, for users who do not snooze a reminder whose *)
(* note is in the Trash.                                                   *)
LEMMA OnReminderSilent ==
  ASSUME SnoozedNotes \subseteq {"active"}, Inv, SilentInv, NEW r \in Reminders, OnReminder(r)
  PROVE  SilentInv'
  <1>1. row[r] \in Rows /\ SilentOK(row[r], note, back[r], now) /\ MaxDue \in Nat /\ Periods \subseteq Nat
    BY TimesAssumption DEF Inv, RowsOK, RowOK, SilentInv
  <1>2. note' = note /\ back' = back /\ now' = now
    BY DEF OnReminder, Create, Update, Snooze, Delete, Done, ReplyDone, OneReminder, userVars
  <1>3. ASSUME NEW n \in Notes, NEW due \in 1 .. MaxDue, NEW every \in Periods, Create(r, n, due, every)
        PROVE  SilentInv'
    <2> DEFINE y == [state |-> "pending", due |-> due, every |-> every, claimed |-> 0, fired |-> 0, note |-> n]
    <2>1. row' = [row EXCEPT ![r] = y] /\ due > now /\ note[n] = "active"
      BY <1>3 DEF Create
    <2>2. y \in Rows /\ y.state = "pending" /\ y.due = due /\ y.note = n
      BY <1>1 DEF Rows, States
    <2> HIDE DEF y
    <2> QED
      BY <1>2, <2>1, <2>2, ArmedIsSilent, OneRowSilent
  <1>4. ASSUME NEW due \in 1 .. MaxDue, NEW every \in Periods, Update(r, due, every) PROVE SilentInv'
    <2> DEFINE y == [Armed(row[r], due) EXCEPT !.every = every]
    <2>1. row' = [row EXCEPT ![r] = y] /\ due > now /\ note[row[r].note] = "active"
      BY <1>4 DEF Update, NoteState, NoteOf
    <2>2. /\ Armed(row[r], due) \in Rows /\ Armed(row[r], due).state = "pending"
          /\ Armed(row[r], due).due = due /\ Armed(row[r], due).note = row[r].note
      BY <1>1, ArmedRow
    <2>3. y \in Rows /\ y.state = "pending" /\ y.due = due /\ y.note = row[r].note
      BY <1>1, <2>2 DEF Rows
    <2> HIDE DEF y
    <2> QED
      BY <1>2, <2>1, <2>3, ArmedIsSilent, OneRowSilent
  <1>5. ASSUME NEW until \in 1 .. MaxDue, Snooze(r, until) PROVE SilentInv'
    <2> DEFINE y == Armed(row[r], until)
    <2>1. row' = [row EXCEPT ![r] = y] /\ until > now /\ NoteState(r) = "active"
      BY <1>5 DEF Snooze
    <2>2. note[row[r].note] = "active"
      BY <2>1 DEF NoteState, NoteOf
    <2>3. y \in Rows /\ y.state = "pending" /\ y.due = until /\ y.note = row[r].note
      BY <1>1, ArmedRow
    <2> HIDE DEF y
    <2> QED
      BY <1>2, <2>1, <2>2, <2>3, ArmedIsSilent, OneRowSilent
  <1>6. CASE Delete(r)
    <2> DEFINE y == [row[r] EXCEPT !.state = "removed", !.claimed = 0]
    <2>1. row' = [row EXCEPT ![r] = y]
      BY <1>6 DEF Delete
    <2>2. y.state = "removed"
      BY <1>1, UnclaimedRow DEF States
    <2> HIDE DEF y
    <2> QED
      BY <1>2, <2>1, <2>2, OverIsSilent, OneRowSilent
  <1>7. CASE Done(r)
    BY <1>2, <1>7, DoneInSilent DEF Done
  <1>8. CASE ReplyDone(r)
    <2>1. CASE DoneIn(r)
      BY <1>2, <2>1, DoneInSilent
    <2>2. CASE row' = row
      BY <1>2, <2>2 DEF SilentInv
    <2> QED
      BY <1>8, <2>1, <2>2 DEF ReplyDone
  <1> QED
    BY <1>3, <1>4, <1>5, <1>6, <1>7, <1>8 DEF OnReminder

(* What happens to the notes.  A reminder of the note that changes is not  *)
(* pending while the note is in the Trash, and what is restored is armed   *)
(* for a later time.                                                       *)
LEMMA OnOneNoteSilent ==
  ASSUME Inv, SilentInv, NEW n \in Notes, OnOneNote(n)
  PROVE  SilentInv'
  <1>1. /\ now \in Nat /\ note \in [Notes -> {"active", "deleted", "gone"}]
        /\ \A r \in Reminders : row[r] \in Rows /\ RowOK(row[r], note, queued[r], now)
                                /\ SilentOK(row[r], note, back[r], now)
    BY DEF Inv, SettingsOK, RowsOK, RowOK, SilentInv
  <1>e. \A r \in Reminders : r \in OnNote(n) <=> row[r].state \notin {"none", "removed"} /\ row[r].note = n
    BY DEF OnNote, Exists, NoteOf
  <1>2. CASE Dismiss(n)
    <2>1. note' = [note EXCEPT ![n] = "deleted"] /\ back' = back /\ now' = now
      BY <1>2 DEF Dismiss, history
    <2>2. ASSUME NEW r \in Reminders PROVE SilentOK(row'[r], note', back'[r], now')
      <3>1. CASE r \in OnNote(n) /\ row[r].state = "pending"
        <4>1. row'[r] = [row[r] EXCEPT !.state = "suspended", !.claimed = 0]
          BY <1>2, <3>1 DEF Dismiss
        <4>0. row[r] \in Rows
          BY <1>1
        <4>2. row'[r].state = "suspended"
          BY <4>0, <4>1 DEF Rows
        <4>3. back[r] <= now /\ back'[r] = back[r] /\ now' = now
          BY <1>1, <2>1 DEF SilentOK
        <4> QED
          BY <4>2, <4>3 DEF SilentOK
      <3>2. CASE ~ (r \in OnNote(n) /\ row[r].state = "pending")
        <4>1. row'[r] = row[r]
          BY <1>2, <3>2 DEF Dismiss
        <4>2. row[r].state = "pending" => row[r].note # n /\ row[r].note \in Notes
          BY <1>1, <1>e, <3>2 DEF RowOK
        <4> QED
          BY <1>1, <2>1, <4>1, <4>2 DEF SilentOK
      <3> QED
        BY <3>1, <3>2
    <2> QED
      BY <2>2 DEF SilentInv
  <1>3. CASE Restore(n)
    <2>1. /\ note' = [note EXCEPT ![n] = "active"] /\ now' = now /\ note[n] = "deleted"
          /\ back' = [r \in Reminders |-> IF r \in OnNote(n) THEN now ELSE back[r]]
      BY <1>3 DEF Restore
    <2>2. ASSUME NEW r \in Reminders PROVE SilentOK(row'[r], note', back'[r], now')
      <3>1. CASE r \in OnNote(n) /\ row[r].state = "suspended"
        <4>1. row'[r] = Restored(row[r]) /\ row[r].note = n /\ back'[r] = now
          BY <1>3, <1>e, <2>1, <3>1 DEF Restore
        <4>2. /\ row'[r].note = n
              /\ \/ row'[r].state = "cancelled"
                 \/ row'[r].state = "pending" /\ row'[r].due > now
          BY <1>1, <4>1, RestoredRow
        <4> QED
          BY <1>1, <2>1, <4>1, <4>2 DEF SilentOK
      <3>2. CASE ~ (r \in OnNote(n) /\ row[r].state = "suspended")
        <4>1. row'[r] = row[r]
          BY <1>3, <3>2 DEF Restore
        <4>2. row[r].state = "pending" => row[r].note # n /\ row[r].note \in Notes /\ r \notin OnNote(n)
          BY <1>1, <1>e, <2>1 DEF RowOK, SilentOK
        <4>3. back'[r] = now \/ back'[r] = back[r]
          BY <2>1
        <4> QED
          BY <1>1, <2>1, <4>1, <4>2, <4>3 DEF SilentOK
      <3> QED
        BY <3>1, <3>2
    <2> QED
      BY <2>2 DEF SilentInv
  <1>4. CASE DeletePermanently(n)
    <2>1. note' = [note EXCEPT ![n] = "gone"] /\ back' = back /\ now' = now
      BY <1>4 DEF DeletePermanently, history
    <2>2. ASSUME NEW r \in Reminders PROVE SilentOK(row'[r], note', back'[r], now')
      <3>1. CASE r \in OnNote(n)
        <4>1. row'[r] = [row[r] EXCEPT !.state = "removed", !.claimed = 0]
          BY <1>4, <3>1 DEF DeletePermanently
        <4>0. row[r] \in Rows
          BY <1>1
        <4>2. row'[r].state = "removed"
          BY <4>0, <4>1 DEF Rows
        <4>3. back[r] <= now /\ back'[r] = back[r] /\ now' = now
          BY <1>1, <2>1 DEF SilentOK
        <4> QED
          BY <4>2, <4>3 DEF SilentOK
      <3>2. CASE r \notin OnNote(n)
        <4>1. row'[r] = row[r]
          BY <1>4, <3>2 DEF DeletePermanently
        <4>2. row[r].state = "pending" => row[r].note # n /\ row[r].note \in Notes
          BY <1>1, <1>e, <3>2 DEF RowOK
        <4> QED
          BY <1>1, <2>1, <4>1, <4>2 DEF SilentOK
      <3> QED
        BY <3>1, <3>2
    <2> QED
      BY <2>2 DEF SilentInv
  <1>5. ASSUME NEW m \in Notes, Merge(n, m) PROVE SilentInv'
    <2>1. /\ note' = [note EXCEPT ![m] = "gone"] /\ back' = back /\ now' = now
          /\ n # m /\ note[n] = "active"
      BY <1>5 DEF Merge, history
    <2>2. ASSUME NEW r \in Reminders PROVE SilentOK(row'[r], note', back'[r], now')
      <3>1. CASE r \in OnNote(m)
        <4>1. row'[r] = [row[r] EXCEPT !.note = n]
          BY <1>5, <3>1 DEF Merge
        <4>2. /\ row'[r].state = row[r].state /\ row'[r].due = row[r].due /\ row'[r].every = row[r].every
              /\ row'[r].note = n
          BY <1>1, <4>1 DEF Rows
        <4> QED
          BY <1>1, <2>1, <4>2 DEF SilentOK
      <3>2. CASE r \notin OnNote(m)
        <4>1. row'[r] = row[r]
          BY <1>5, <3>2 DEF Merge
        <4>2. row[r].state = "pending" => row[r].note # m /\ row[r].note \in Notes
          BY <1>1, <3>2 DEF RowOK, OnNote, Exists, NoteOf
        <4> QED
          BY <1>1, <2>1, <4>1, <4>2 DEF SilentOK
      <3> QED
        BY <3>1, <3>2
    <2> QED
      BY <2>2 DEF SilentInv
  <1> QED
    BY <1>2, <1>3, <1>4, <1>5 DEF OnOneNote

(* The job: firing arms for a later time, or ends what does not recur; a   *)
(* claim and its end leave the state and the times of a row alone.         *)
LEMMA FireDueSilent ==
  ASSUME Inv, SilentInv, NEW w \in Workers, FireDue(w)
  PROVE  SilentInv'
  <1>1. /\ now \in Nat
        /\ \A r \in Reminders : row[r] \in Rows /\ SilentOK(row[r], note, back[r], now)
    BY DEF Inv, SettingsOK, RowsOK, RowOK, SilentInv
  <1>2. note' = note /\ back' = back /\ now' = now
    BY DEF FireDue, Claim, Reserve, FireOne, Defer, userVars, history
  <1>3. ASSUME NEW S \in SUBSET Reminders, Claim(w, S) PROVE SilentInv'
    <2>1. ASSUME NEW r \in Reminders PROVE SilentOK(row'[r], note', back'[r], now')
      <3>1. row'[r] = row[r] \/ row'[r] = [row[r] EXCEPT !.claimed = now + Lease]
        BY <1>3 DEF Claim, Reserve
      <3>2. /\ row'[r].state = row[r].state /\ row'[r].due = row[r].due
            /\ row'[r].every = row[r].every /\ row'[r].note = row[r].note
        BY <1>1, <3>1 DEF Rows
      <3> QED
        BY <1>1, <1>2, <3>2 DEF SilentOK
    <2> QED
      BY <2>1 DEF SilentInv
  <1>4. ASSUME NEW r \in Reminders, FireOne(w, r) PROVE SilentInv'
    <2>1. CASE Qualifies(r)
      <3> DEFINE y == Fired(row[r])
      <3>1. row' = [row EXCEPT ![r] = y] /\ row[r].state = "pending" /\ note[row[r].note] = "active"
        BY <1>4, <2>1 DEF FireOne, Qualifies, StillDue, Due, NoteOf
      <3>2. y \in Rows /\ y.note = row[r].note
        BY <1>1, FiredRow
      <3>3. \/ y.state = "pending" /\ y.due > now
            \/ y.state = "fired" /\ y.every = 0
        <4>1. CASE row[r].every > 0
          <5>1. NextOccurrence(row[r].due, row[r].every, now) > now
            BY <1>1, <4>1, NextIsLater DEF Rows
          <5> QED
            BY <1>1, <3>1, <4>1, <5>1 DEF Fired, Rows
        <4>2. CASE ~ (row[r].every > 0)
          BY <1>1, <4>2 DEF Fired, Rows, States
        <4> QED
          BY <4>1, <4>2
      <3> HIDE DEF y
      <3>4. SilentOK(y, note, back[r], now)
        BY <1>1, <3>1, <3>2, <3>3, ArmedIsSilent DEF SilentOK
      <3> QED
        BY <1>2, <3>1, <3>4, OneRowSilent
    <2>2. CASE ~ Qualifies(r)
      <3>1. row' = row
        BY <1>4, <2>2 DEF FireOne
      <3> QED
        BY <1>2, <3>1 DEF SilentInv
    <2> QED
      BY <2>1, <2>2
  <1>5. CASE Defer(w)
    <2> DEFINE r == failing[w]
    <2> DEFINE y == [row[r] EXCEPT !.claimed = at[w] + FailureBackoff]
    <2>1. r \in Reminders /\ (row' = row \/ row' = [row EXCEPT ![r] = y])
      BY <1>5 DEF Defer, Inv, WorkersOK
    <2> HIDE DEF r
    <2>2. /\ y.state = row[r].state /\ y.due = row[r].due
          /\ y.every = row[r].every /\ y.note = row[r].note
      BY <1>1, <2>1 DEF Rows
    <2> HIDE DEF y
    <2>3. SilentOK(y, note, back[r], now)
      BY <1>1, <2>1, <2>2 DEF SilentOK
    <2>4. CASE row' = row
      BY <1>2, <2>4 DEF SilentInv
    <2> QED
      BY <1>2, <2>1, <2>3, <2>4, OneRowSilent
  <1> QED
    BY <1>3, <1>4, <1>5 DEF FireDue

LEMMA NextSilent ==
  ASSUME SnoozedNotes \subseteq {"active"}, Inv, SilentInv, [Next]_vars
  PROVE  SilentInv'
  <1>1. ASSUME row' = row, note' = note, back' = back, now' = now \/ now' = now + 1 PROVE SilentInv'
    <2>1. now \in Nat /\ \A r \in Reminders : back[r] \in Nat
      BY DEF Inv, SettingsOK, HistoryOK
    <2> QED
      BY <1>1, <2>1 DEF SilentInv, SilentOK
  <1>2. ASSUME NEW r \in Reminders, OnReminder(r) PROVE SilentInv'
    BY <1>2, OnReminderSilent
  <1>3. ASSUME NEW n \in Notes, OnOneNote(n) PROVE SilentInv'
    BY <1>3, OnOneNoteSilent
  <1>4. ASSUME NEW w \in Workers, FireDue(w) PROVE SilentInv'
    BY <1>4, FireDueSilent
  <1>5. CASE Tick \/ SetStatus \/ SetReminderTarget
    BY <1>1, <1>5 DEF Tick, SetStatus, SetReminderTarget, userVars, history
  <1>6. ASSUME NEW w \in Workers, Crash(w) PROVE SilentInv'
    BY <1>1, <1>6 DEF Crash, userVars, history
  <1>7. ASSUME NEW w \in Workers, NEW r \in Reminders, FireFails(w, r) PROVE SilentInv'
    BY <1>1, <1>7 DEF FireFails, userVars
  <1>8. ASSUME NEW r \in Reminders, NEW d \in queued[r], NEW delivered \in BOOLEAN, LeaveOutbox(r, d, delivered)
        PROVE  SilentInv'
    BY <1>1, <1>8 DEF LeaveOutbox, userVars, history
  <1>9. CASE UNCHANGED vars
    BY <1>1, <1>9 DEF vars, userVars, history
  <1> QED
    BY <1>2, <1>3, <1>4, <1>5, <1>6, <1>7, <1>8, <1>9 DEF Next

(* A reminder that came due while its note was in the Trash is not sent    *)
(* when the note comes back, as long as users do not snooze reminders      *)
(* whose notes are in the Trash (OnDismiss, OnRestore, SnoozeReminder,     *)
(* which does not ask for the state of the note).                          *)
THEOREM SilentWhenRestored ==
  ASSUME SnoozedNotes \subseteq {"active"}
  PROVE  Spec => SilentAfterTheTrash
  <1> DEFINE A == \A r \in Reminders : notices'[r] > notices[r] => row[r].due > back[r]
  <1>1. ASSUME Inv, SilentInv, [Next]_vars PROVE [A]_vars
    <2>1. ASSUME Next, NEW r \in Reminders, notices'[r] > notices[r] PROVE row[r].due > back[r]
      <3>1. PICK w \in Workers : FireOne(w, r) /\ Qualifies(r)
        BY <1>1, <2>1, OnlyFiringNotifies
      <3> QED
        BY <1>1, <3>1 DEF Qualifies, StillDue, Due, SilentInv, SilentOK
    <2> QED
      BY <1>1, <2>1
  <1>2. Inv /\ SilentInv /\ [Next]_vars => [A]_vars
    BY <1>1
  <1>3. SilentAfterTheTrash <=> [][A]_vars
    BY DEF SilentAfterTheTrash
  <1>4. Init => SilentInv
    BY DEF Init, SilentInv, SilentOK
  <1>5. Inv /\ SilentInv /\ [Next]_vars => SilentInv'
    BY NextSilent
  <1> HIDE DEF A
  <1> QED
    BY <1>2, <1>3, <1>4, <1>5, AlwaysInv, PTL DEF Spec

-----------------------------------------------------------------------------
(* Recurrences on the calendar.                                            *)

(* There is a least number of a set.                                       *)
LEMMA LeastNumber ==
  ASSUME NEW S, S \subseteq Nat, S # {}
  PROVE  \E m \in S : \A k \in S : m <= k
  <1>1. IsWellFoundedOn(OpToRel(<, Nat), Nat)
    BY NatLessThanWellFounded
  <1>2. PICK m \in S : \A k \in S : ~ (<<k, m>> \in OpToRel(<, Nat))
    BY <1>1, WFMin
  <1>3. ASSUME NEW k \in S PROVE m <= k
    <2>1. ~ (<<k, m>> \in OpToRel(<, Nat))
      BY <1>2
    <2>2. ~ (k < m)
      BY <2>1 DEF OpToRel
    <2> QED
      BY <2>2
  <1> QED
    BY <1>3

-----------------------------------------------------------------------------
(* Local time is ahead by one of two offsets.                              *)
LEMMA OffsetIs ==
  ASSUME NEW t \in Int
  PROVE  /\ Standard \in Int /\ Offset(t) \in Int
         /\ Summer(t) => Offset(t) = Standard + 60
         /\ ~ Summer(t) => Offset(t) = Standard
  BY ZoneAssumption DEF Offset

(* When the clocks are put forward it is not about midnight.               *)
LEMMA Forward ==
  ASSUME NEW t \in Int, Summer(t), ~ Summer(t - 60)
  PROVE  \E z \in Int : z > t + Standard - 60 /\ z <= t + Standard /\ z % 1440 \in 60 .. 1320
  <1>1. PICK s \in Summers : s.from <= t /\ t < s.to
    BY DEF Summer
  <1>2. s.from \in Int /\ s.to \in Int /\ (s.from + Standard) % Day \in 60 .. Day - 120
    BY ZoneAssumption
  <1>3. s.from > t - 60
    BY <1>1, <1>2 DEF Summer
  <1>4. PICK z \in Int : z = s.from + Standard
    BY <1>2, OffsetIs
  <1>5. z % 1440 \in 60 .. 1320
    BY <1>2, <1>4 DEF Day
  <1>6. z > t + Standard - 60 /\ z <= t + Standard
    BY <1>1, <1>2, <1>3, <1>4, OffsetIs
  <1> QED
    BY <1>5, <1>6

(* What is close behind a change of the clocks is not about midnight.      *)
Behind(z, day, minute) ==
  z % 1440 \in 60 .. 1320 /\ z > 1440 * day + minute - 60 /\ z <= 1440 * day + minute

(* An hour before and after it the day is the same.                        *)
LEMMA FarFromMidnight ==
  ASSUME NEW day \in Int, NEW minute \in Nat, minute < 1440, NEW z \in Int, Behind(z, day, minute)
  PROVE  minute >= 60 /\ minute + 60 < 1440
  <1>1. PICK q \in Int : q = z \div 1440
    OBVIOUS
  <1>2. 1440 * q + 60 <= z /\ z <= 1440 * q + 1320
    BY <1>1 DEF Behind
  <1>3. q < day + 1 /\ q > day - 1
    BY <1>2 DEF Behind
  <1> QED
    BY <1>2, <1>3 DEF Behind

(* A time of day on a day is an instant of that day.                       *)
LEMMA OnItsDay ==
  ASSUME NEW day \in Int, NEW minute \in Nat, minute < 1440
  PROVE  /\ At(day, minute) \in Int
         /\ At(day, minute) <= Day * day + minute - Standard
         /\ At(day, minute) >= Day * day + minute - Standard - 60
         /\ LocalDay(At(day, minute)) = day
  <1> DEFINE local == day * Day + minute
             first == local - Offset(local)
             second == local - Offset(first)
  <1>1. local \in Int /\ first \in Int /\ second \in Int /\ Standard \in Int
    <2>1. local \in Int
      BY DEF Day
    <2>2. first \in Int
      BY <2>1, OffsetIs
    <2> HIDE DEF first
    <2> QED
      BY <2>1, <2>2, OffsetIs
  <1>2. At(day, minute) = IF Summer(first) = Summer(local) THEN first ELSE second
    BY DEF At, FromLocal
  <1>0. first = local - Offset(local) /\ second = local - Offset(first) /\ local = Day * day + minute
    BY DEF Day
  <1>l. local \div Day = day
    BY DEF Day
  <1> HIDE DEF local, first, second
  <1>3. ASSUME NEW t \in Int, t + Offset(t) = local
        PROVE  t <= local - Standard /\ t >= local - Standard - 60 /\ LocalDay(t) = day
    <2>1. Offset(t) \in {Standard, Standard + 60}
      BY OffsetIs
    <2>2. LocalDay(t) = local \div Day
      BY <1>3 DEF LocalDay
    <2> QED
      BY <1>1, <1>3, <1>l, <2>1, <2>2
  <1>9. Summer(first) \in BOOLEAN /\ Summer(local) \in BOOLEAN /\ Summer(second) \in BOOLEAN
    BY DEF Summer
  <1>10. Summer(first) = Summer(local) => At(day, minute) = first
    BY <1>2
  <1>11. Summer(first) # Summer(local) => At(day, minute) = second
    BY <1>2
  <1>12. minute \in Nat /\ minute < 1440
    OBVIOUS
  <1>5. CASE Summer(first) = Summer(local)
    <2>1. Offset(first) = Offset(local)
      BY <1>5 DEF Offset
    <2>2. first + Offset(first) = local
      BY <1>0, <1>1, <2>1, OffsetIs
    <2>a. At(day, minute) = first
      BY <1>5, <1>10, Zenon
    <2> QED
      BY <1>1, <1>3, <1>0, <2>2, <2>a DEF Day
  <1>6. CASE Summer(first) # Summer(local) /\ Summer(second) = Summer(first)
    <2>1. Offset(second) = Offset(first)
      BY <1>6 DEF Offset
    <2>2. second + Offset(second) = local
      BY <1>0, <1>1, <2>1, OffsetIs
    <2>a. At(day, minute) = second
      BY <1>6, <1>11, Zenon
    <2> QED
      BY <1>1, <1>3, <1>0, <2>2, <2>a DEF Day
  <1>7. CASE Summer(local) /\ ~ Summer(first) /\ Summer(second)
    <2>1. first = local - (Standard + 60) /\ second = local - Standard
      BY <1>0, <1>1, <1>7, OffsetIs
    <2>2. first = second - 60
      BY <1>1, <2>1
    <2>3. PICK z \in Int : z > second + Standard - 60 /\ z <= second + Standard /\ z % 1440 \in 60 .. 1320
      <3>1. second - 60 = first
        BY <1>1, <2>2
      <3>2. Summer(second) /\ ~ Summer(second - 60)
        BY <1>7, <3>1
      <3> QED
        BY <1>1, <3>2, Forward
    <2>4. Behind(z, day, minute)
      BY <1>0, <1>1, <1>12, <2>1, <2>3 DEF Day, Behind
    <2>5. minute + 60 < 1440
      BY <1>12, <2>3, <2>4, FarFromMidnight
    <2>6. LocalDay(second) = (local + 60) \div Day
      BY <1>1, <1>7, <2>1, OffsetIs DEF LocalDay
    <2>7. LocalDay(second) = day
      BY <1>0, <2>5, <2>6 DEF Day
    <2>a. At(day, minute) = second
      BY <1>7, <1>11, <1>9, Zenon
    <2> QED
      BY <1>1, <1>0, <2>1, <2>7, <2>a DEF Day
  <1>8. CASE ~ Summer(local) /\ Summer(first) /\ ~ Summer(second)
    <2>1. first = local - Standard /\ second = local - (Standard + 60)
      BY <1>0, <1>1, <1>8, OffsetIs
    <2>2. second = first - 60
      BY <1>1, <2>1
    <2>3. PICK z \in Int : z > first + Standard - 60 /\ z <= first + Standard /\ z % 1440 \in 60 .. 1320
      <3>1. Summer(first) /\ ~ Summer(first - 60)
        BY <1>8, <2>2
      <3> QED
        BY <1>1, <3>1, Forward
    <2>4. Behind(z, day, minute)
      BY <1>0, <1>1, <1>12, <2>1, <2>3 DEF Day, Behind
    <2>5. minute >= 60
      BY <1>12, <2>3, <2>4, FarFromMidnight
    <2>6. LocalDay(second) = (local - 60) \div Day
      BY <1>1, <1>8, <2>1, OffsetIs DEF LocalDay
    <2>7. LocalDay(second) = day
      BY <1>0, <2>5, <2>6 DEF Day
    <2>a. At(day, minute) = second
      BY <1>8, <1>11, <1>9, Zenon
    <2>b. second = Day * day + minute - Standard - 60
      BY <1>1, <1>0, <2>1, <1>12 DEF Day
    <2>c. second \in Int /\ Day * day + minute - Standard \in Int
      BY <1>1, <1>12 DEF Day
    <2>d. second <= Day * day + minute - Standard /\ second >= Day * day + minute - Standard - 60
      BY <1>1, <1>12, <2>b, <2>c DEF Day
    <2> QED
      BY <2>a, <2>c, <2>d, <2>7, Zenon
  <1> QED
    BY <1>5, <1>6, <1>7, <1>8, <1>9

-----------------------------------------------------------------------------
(* Remainders.                                                             *)
LEMMA ProductGrows ==
  ASSUME NEW d \in Nat, NEW x \in Nat, NEW y \in Nat, x <= y
  PROVE  d * x \in Nat /\ d * y \in Nat /\ d * x <= d * y
  <1>1. PICK z \in Nat : y = x + z
    <2>1. y - x \in Nat /\ y = x + (y - x)
      OBVIOUS
    <2> QED
      BY <2>1
  <1>2. d * y = d * x + d * z
    BY <1>1
  <1>3. d * z \in Nat /\ d * x \in Nat
    OBVIOUS
  <1> QED
    BY <1>2, <1>3

(* Division with a remainder, as the provers need it.                      *)
LEMMA Division ==
  ASSUME NEW v \in Nat, NEW d \in Nat \ {0}
  PROVE  /\ v \div d \in Nat
         /\ d * (v \div d) \in Nat /\ d * (v \div d) <= v /\ v < d * (v \div d) + d
         /\ v % d = v - d * (v \div d)
  OBVIOUS

(* A quotient is known by the multiples on both sides.                     *)
LEMMA QuotientIs ==
  ASSUME NEW v \in Nat, NEW d \in Nat \ {0}, NEW q \in Nat, d * q <= v, v < d * q + d
  PROVE  v \div d = q
  <1>1. PICK x \in Nat : x = v \div d
    BY Division
  <1>2. d * x \in Nat /\ d * x <= v /\ v < d * x + d
    BY <1>1, Division
  <1>3. CASE x < q
    <2>1. d * (x + 1) <= d * q
      BY <1>3, ProductGrows
    <2>2. d * (x + 1) = d * x + d
      OBVIOUS
    <2> QED
      BY <1>2, <2>1, <2>2
  <1>4. CASE q < x
    <2>1. d * (q + 1) <= d * x
      BY <1>4, ProductGrows
    <2>2. d * (q + 1) = d * q + d
      OBVIOUS
    <2> QED
      BY <1>2, <2>1, <2>2
  <1> QED
    BY <1>1, <1>3, <1>4

(* The multiples of n follow each other at a distance of n.                *)
LEMMA NextMultiple ==
  ASSUME NEW n \in Nat \ {0}, NEW x \in Nat, x % n = 0
  PROVE  (x + n) % n = 0 /\ \A j \in Nat : 0 < j /\ j < n => (x + j) % n # 0
  <1>1. PICK q \in Nat : q = x \div n
    BY Division
  <1>2. n * q \in Nat /\ x = n * q
    BY <1>1, Division
  <1>3. n * (q + 1) = n * q + n /\ n * (q + 1) \in Nat
    BY <1>2
  <1>4. (x + n) % n = 0
    <2>1. x + n \in Nat /\ q + 1 \in Nat /\ n * (q + 1) <= x + n /\ x + n < n * (q + 1) + n
      BY <1>2, <1>3
    <2>2. (x + n) \div n = q + 1
      BY <2>1, QuotientIs
    <2>3. (x + n) % n = (x + n) - n * ((x + n) \div n)
      BY <2>1, Division
    <2> QED
      BY <1>2, <1>3, <2>2, <2>3
  <1>5. ASSUME NEW j \in Nat, 0 < j, j < n
        PROVE  (x + j) % n # 0
    <2>1. x + j \in Nat /\ n * q <= x + j /\ x + j < n * q + n
      BY <1>2, <1>5
    <2>2. (x + j) \div n = q
      BY <2>1, QuotientIs
    <2>3. (x + j) % n = (x + j) - n * ((x + j) \div n)
      BY <2>1, Division
    <2> QED
      BY <1>2, <1>5, <2>2, <2>3
  <1> QED
    BY <1>4, <1>5

-----------------------------------------------------------------------------
(* Weeks.                                                                  *)
LEMMA WeekIs ==
  ASSUME NEW day \in Nat
  PROVE  /\ Weekday(day) \in Nat /\ Weekday(day) < 7
         /\ WeekStart(day) = 7 * (day \div 7) /\ day \div 7 \in Nat
         /\ day = 7 * (day \div 7) + Weekday(day)
  BY DEF Weekday, WeekStart

(* A day is known by its week and its weekday.                             *)
LEMMA WeekdayOf ==
  ASSUME NEW q \in Nat, NEW w \in Nat, w < 7
  PROVE  (7 * q + w) \div 7 = q /\ Weekday(7 * q + w) = w
  BY DEF Weekday

(* Rounding the time between two Mondays gives the weeks between them.     *)
LEMMA WeeksAre ==
  ASSUME NEW from \in Nat, NEW day \in Nat
  PROVE  WeeksApart(from, day) = day \div 7 - from \div 7
  <1>1. PICK p \in Nat, q \in Nat : p = day \div 7 /\ q = from \div 7
    BY WeekIs
  <1>2. WeekStart(day) = 7 * p /\ WeekStart(from) = 7 * q
    BY <1>1, WeekIs
  <1>3. \A a \in Int : /\ At(a, 0) \in Int
                        /\ At(a, 0) <= 1440 * a - Standard /\ At(a, 0) >= 1440 * a - Standard - 60
    <2> SUFFICES ASSUME NEW a \in Int
                 PROVE  /\ At(a, 0) \in Int
                        /\ At(a, 0) <= 1440 * a - Standard /\ At(a, 0) >= 1440 * a - Standard - 60
      OBVIOUS
    <2>1. /\ At(a, 0) \in Int
          /\ At(a, 0) <= Day * a + 0 - Standard /\ At(a, 0) >= Day * a + 0 - Standard - 60
      BY OnItsDay
    <2>2. Standard \in Int
      BY ZoneAssumption
    <2> QED
      BY <2>1, <2>2 DEF Day
  <1>4. PICK a \in Int, b \in Int : a = 7 * p /\ b = 7 * q
    OBVIOUS
  <1>7. PICK x \in Int, y \in Int : x = At(a, 0) /\ y = At(b, 0)
    BY <1>3, <1>4
  <1>5. WeeksApart(from, day) = ((x - y + 720) \div 1440) \div 7
    BY <1>2, <1>4, <1>7 DEF WeeksApart, Day
  <1>6. (x - y + 720) \div 1440 = 7 * (p - q)
    <2>1. Standard \in Int
      BY ZoneAssumption
    <2>2. /\ x <= 1440 * a - Standard /\ x >= 1440 * a - Standard - 60
          /\ y <= 1440 * b - Standard /\ y >= 1440 * b - Standard - 60
      BY <1>3, <1>4, <1>7
    <2> QED
      BY <1>4, <1>7, <2>1, <2>2
  <1> QED
    BY <1>1, <1>5, <1>6

-----------------------------------------------------------------------------
(* Years and months follow each other without gaps.                        *)
YearDays(y) == IF IsLeap(y) THEN 366 ELSE 365

(* A year begins where the one before it ends.                             *)
LEMMA YearLength ==
  ASSUME NEW y \in Nat, y >= 1
  PROVE  /\ NewYear(y) \in Nat /\ NewYear(y + 1) = NewYear(y) + YearDays(y)
         /\ 365 * (y - 1) <= NewYear(y) /\ NewYear(y + 1) <= 366 * y
  <1>1. PICK p \in Nat : p = y - 1 /\ y = p + 1
    OBVIOUS
  <1>2. PICK a \in Nat, b \in Nat, c \in Nat, d \in Nat :
          p = 400 * a + 100 * b + 4 * c + d /\ b < 4 /\ c < 25 /\ d < 4
    <2>1. PICK a \in Nat, u \in Nat : p = 400 * a + u /\ u < 400
      <3>1. PICK x \in Int : x = p \div 400
        OBVIOUS
      <3>2. x \in Nat /\ p - 400 * x \in Nat /\ p - 400 * x < 400 /\ p = 400 * x + (p - 400 * x)
        BY <3>1
      <3> QED
        BY <3>2
    <2>2. PICK b \in Nat, v \in Nat : u = 100 * b + v /\ v < 100
      <3>1. PICK x \in Int : x = u \div 100
        OBVIOUS
      <3>2. x \in Nat /\ u - 100 * x \in Nat /\ u - 100 * x < 100 /\ u = 100 * x + (u - 100 * x)
        BY <3>1
      <3> QED
        BY <3>2
    <2>3. PICK c \in Nat, d \in Nat : v = 4 * c + d /\ d < 4
      <3>1. PICK x \in Int : x = v \div 4
        OBVIOUS
      <3>2. x \in Nat /\ v - 4 * x \in Nat /\ v - 4 * x < 4 /\ v = 4 * x + (v - 4 * x)
        BY <3>1
      <3> QED
        BY <3>2
    <2>4. b < 4 /\ c < 25 /\ p = 400 * a + 100 * b + 4 * c + d
      BY <2>1, <2>2, <2>3
    <2> QED
      BY <2>3, <2>4
  <1>3. p \div 4 = 100 * a + 25 * b + c /\ p \div 100 = 4 * a + b /\ p \div 400 = a
    BY <1>2
  <1>4. NewYear(y) = 365 * p + (100 * a + 25 * b + c) - (4 * a + b) + a
    BY <1>1, <1>3 DEF NewYear
  <1>5. IsLeap(y) <=> d = 3 /\ (c # 24 \/ b = 3)
    <2>1. y % 4 = 0 <=> d = 3
      BY <1>1, <1>2
    <2>2. y % 100 = 0 <=> d = 3 /\ c = 24
      BY <1>1, <1>2
    <2>3. y % 400 = 0 <=> d = 3 /\ c = 24 /\ b = 3
      BY <1>1, <1>2
    <2> QED
      BY <2>1, <2>2, <2>3 DEF IsLeap
  <1>6. NewYear(y + 1) = 365 * y + y \div 4 - y \div 100 + y \div 400
    BY DEF NewYear
  <1>7. /\ y \div 4 = p \div 4 + IF d = 3 THEN 1 ELSE 0
        /\ y \div 100 = p \div 100 + IF d = 3 /\ c = 24 THEN 1 ELSE 0
        /\ y \div 400 = p \div 400 + IF d = 3 /\ c = 24 /\ b = 3 THEN 1 ELSE 0
    BY <1>1, <1>2, <1>3
  <1>8. NewYear(y + 1) = NewYear(y) + YearDays(y)
    BY <1>1, <1>3, <1>4, <1>5, <1>6, <1>7 DEF YearDays
  <1>9. y = 400 * a + 100 * b + 4 * c + d + 1
    BY <1>1, <1>2
  <1>10. NewYear(y) \in Nat /\ 365 * (y - 1) <= NewYear(y) /\ NewYear(y) <= 366 * p
    BY <1>1, <1>2, <1>4
  <1> QED
    BY <1>1, <1>8, <1>10 DEF YearDays

(* Later years begin later.                                                *)
LEMMA YearsGrow ==
  ASSUME NEW y \in Nat, NEW z \in Nat, y >= 1, y < z
  PROVE  NewYear(y + 1) <= NewYear(z)
  <1>1. NewYear(y + 1) = 365 * y + y \div 4 - y \div 100 + y \div 400
    BY DEF NewYear
  <1>2. NewYear(z) = 365 * (z - 1) + (z - 1) \div 4 - (z - 1) \div 100 + (z - 1) \div 400
    BY DEF NewYear
  <1>3. y \div 4 <= (z - 1) \div 4 /\ y \div 400 <= (z - 1) \div 400
    OBVIOUS
  <1>4. (z - 1) \div 100 - y \div 100 <= z - 1 - y
    OBVIOUS
  <1> QED
    BY <1>1, <1>2, <1>3, <1>4

(* A month begins where the one before it ends.                            *)
LEMMA MonthLength ==
  ASSUME NEW y \in Nat, NEW m \in Nat, 1 <= m, m <= 12
  PROVE  /\ LastDay(y, m) \in Nat /\ 28 <= LastDay(y, m) /\ LastDay(y, m) <= 31 /\ BeforeMonth(y, m) \in Nat
         /\ BeforeMonth(y, 1) = 0
         /\ m < 12 => BeforeMonth(y, m + 1) = BeforeMonth(y, m) + LastDay(y, m)
         /\ BeforeMonth(y, 12) + LastDay(y, 12) = YearDays(y)
         /\ \A k \in Nat : 1 <= k /\ k < m => BeforeMonth(y, k) + LastDay(y, k) <= BeforeMonth(y, m)
  <1> DEFINE l == IF IsLeap(y) THEN 1 ELSE 0
  <1>1. l \in {0, 1}
    OBVIOUS
  <1>2. YearDays(y) = 365 + l
    BY DEF YearDays
  <1>3. /\ BeforeMonth(y, 1) = 0 /\ BeforeMonth(y, 2) = 31 /\ BeforeMonth(y, 3) = 59 + l
        /\ BeforeMonth(y, 4) = 90 + l /\ BeforeMonth(y, 5) = 120 + l /\ BeforeMonth(y, 6) = 151 + l
        /\ BeforeMonth(y, 7) = 181 + l /\ BeforeMonth(y, 8) = 212 + l /\ BeforeMonth(y, 9) = 243 + l
        /\ BeforeMonth(y, 10) = 273 + l /\ BeforeMonth(y, 11) = 304 + l /\ BeforeMonth(y, 12) = 334 + l
    BY DEF BeforeMonth
  <1>4. /\ LastDay(y, 1) = 31 /\ LastDay(y, 2) = 28 + l /\ LastDay(y, 3) = 31 /\ LastDay(y, 4) = 30
        /\ LastDay(y, 5) = 31 /\ LastDay(y, 6) = 30 /\ LastDay(y, 7) = 31 /\ LastDay(y, 8) = 31
        /\ LastDay(y, 9) = 30 /\ LastDay(y, 10) = 31 /\ LastDay(y, 11) = 30 /\ LastDay(y, 12) = 31
    BY DEF LastDay
  <1> HIDE DEF l
  <1>5. \/ m = 1 \/ m = 2 \/ m = 3 \/ m = 4 \/ m = 5 \/ m = 6
        \/ m = 7 \/ m = 8 \/ m = 9 \/ m = 10 \/ m = 11 \/ m = 12
    OBVIOUS
  <1>6. LastDay(y, m) \in Nat /\ 28 <= LastDay(y, m) /\ LastDay(y, m) <= 31 /\ BeforeMonth(y, m) \in Nat
    BY <1>1, <1>3, <1>4, <1>5
  <1>7. ASSUME m < 12 PROVE BeforeMonth(y, m + 1) = BeforeMonth(y, m) + LastDay(y, m)
    BY <1>1, <1>3, <1>4, <1>5, <1>7
  <1>8. BeforeMonth(y, 12) + LastDay(y, 12) = YearDays(y)
    BY <1>1, <1>2, <1>3, <1>4
  <1>9. ASSUME NEW k \in Nat, 1 <= k, k < m
        PROVE  BeforeMonth(y, k) + LastDay(y, k) <= BeforeMonth(y, m)
    <2>1. \/ k = 1 \/ k = 2 \/ k = 3 \/ k = 4 \/ k = 5 \/ k = 6
          \/ k = 7 \/ k = 8 \/ k = 9 \/ k = 10 \/ k = 11 \/ k = 12
      BY <1>9
    <2> QED
      BY <1>1, <1>3, <1>4, <1>5, <1>9, <2>1, SMTT(30)
  <1> QED
    BY <1>3, <1>6, <1>7, <1>8, <1>9

(* A date is the date of its day.                                          *)
LEMMA DateIs ==
  ASSUME NEW y \in Nat, y >= 1, NEW m \in Nat, 1 <= m, m <= 12,
         NEW d \in Nat, 1 <= d, d <= LastDay(y, m), NEW day, day = DayOf(y, m, d)
  PROVE  /\ day \in Nat /\ NewYear(y) <= day /\ day < NewYear(y + 1)
         /\ Civil(day) = [y |-> y, m |-> m, d |-> d]
  <1>1. /\ NewYear(y) \in Nat /\ BeforeMonth(y, m) \in Nat /\ LastDay(y, m) \in Nat /\ 28 <= LastDay(y, m) /\ LastDay(y, m) <= 31 /\ d \in Nat
        /\ 1 <= d /\ d <= LastDay(y, m) /\ NewYear(y + 1) = NewYear(y) + YearDays(y)
        /\ day = NewYear(y) + BeforeMonth(y, m) + d - 1
    <2>1. LastDay(y, m) \in Nat /\ 28 <= LastDay(y, m) /\ LastDay(y, m) <= 31
      BY MonthLength
    <2> QED
      BY <2>1, YearLength, MonthLength DEF DayOf
  <1>2. day \in Nat /\ NewYear(y) <= day
    BY <1>1
  <1>3. BeforeMonth(y, m) + LastDay(y, m) <= YearDays(y)
    <2>1. CASE m = 12
      BY <2>1, MonthLength
    <2>2. CASE m < 12
      <3>1. /\ BeforeMonth(y, m) + LastDay(y, m) <= BeforeMonth(y, 12)
            /\ BeforeMonth(y, 12) + LastDay(y, 12) = YearDays(y)
            /\ BeforeMonth(y, 12) \in Nat /\ LastDay(y, 12) \in Nat
        BY <2>2, MonthLength
      <3> QED
        BY <1>1, <3>1
    <2> QED
      BY <2>1, <2>2
  <1>4. day < NewYear(y + 1)
    <2>1. YearDays(y) \in Nat
      BY DEF YearDays
    <2> QED
      BY <1>1, <1>3, <2>1
  <1>5. YearOf(day) = y
    <2> DEFINE ys == day \div 366 + 1 .. day \div 365 + 1
    <2>1. y \in ys
      <3>1. 365 * (y - 1) <= day /\ day < 366 * y
        <4>1. 365 * (y - 1) <= NewYear(y) /\ NewYear(y + 1) <= 366 * y
          BY YearLength
        <4>2. NewYear(y + 1) \in Nat
          BY YearLength
        <4> QED
          BY <1>1, <1>2, <1>4, <4>1, <4>2
      <3> QED
        BY <1>2, <3>1
    <2>2. ASSUME NEW z \in ys, NewYear(z) <= day, day < NewYear(z + 1)
          PROVE  z = y
      <3>1. z \in Nat /\ z >= 1
        BY <1>2, <2>2
      <3>2. NewYear(z) \in Nat /\ NewYear(z + 1) \in Nat /\ NewYear(y + 1) \in Nat
        BY <3>1, YearLength
      <3>3. ~ (z < y)
        BY <1>1, <1>2, <2>2, <3>1, <3>2, YearsGrow
      <3>4. ~ (y < z)
        BY <1>4, <1>2, <2>2, <3>1, <3>2, YearsGrow
      <3> QED
        BY <3>1, <3>3, <3>4
    <2>3. YearOf(day) = CHOOSE z \in ys : NewYear(z) <= day /\ day < NewYear(z + 1)
      BY DEF YearOf
    <2> HIDE DEF ys
    <2> QED
      BY <1>2, <1>4, <2>1, <2>2, <2>3
  <1>6. MonthOf(day, y) = m
    <2>1. DayOf(y, m, 1) <= day /\ day <= DayOf(y, m, LastDay(y, m))
      BY <1>1 DEF DayOf
    <2>2. ASSUME NEW k \in 1 .. 12, DayOf(y, k, 1) <= day, day <= DayOf(y, k, LastDay(y, k))
          PROVE  k = m
      <3>0. k \in Nat /\ 1 <= k /\ k <= 12
        OBVIOUS
      <3>1. BeforeMonth(y, k) \in Nat /\ LastDay(y, k) \in Nat
        BY <3>0, MonthLength
      <3>2. BeforeMonth(y, k) + 1 <= BeforeMonth(y, m) + d /\ BeforeMonth(y, m) + d <= BeforeMonth(y, k) + LastDay(y, k)
        BY <1>1, <2>2, <3>1 DEF DayOf
      <3>3. ~ (k < m)
        BY <1>1, <3>0, <3>1, <3>2, MonthLength
      <3>4. ~ (m < k)
        BY <1>1, <3>0, <3>1, <3>2, MonthLength
      <3> QED
        BY <3>0, <3>3, <3>4
    <2>3. MonthOf(day, y) = CHOOSE k \in 1 .. 12 : DayOf(y, k, 1) <= day /\ day <= DayOf(y, k, LastDay(y, k))
      BY DEF MonthOf
    <2> QED
      BY <2>1, <2>2, <2>3
  <1>7. Civil(day) = [y |-> y, m |-> m, d |-> day - DayOf(y, m, 1) + 1]
    BY <1>5, <1>6 DEF Civil, InYear, InMonth
  <1>8. day - DayOf(y, m, 1) + 1 = d
    BY <1>1 DEF DayOf
  <1> QED
    BY <1>2, <1>4, <1>7, <1>8

(* Every day has a date.                                                   *)
LEMMA EveryDayHasADate ==
  ASSUME NEW day \in Nat
  PROVE  \E y \in Nat : y >= 1 /\ \E m \in 1 .. 12 : \E d \in 1 .. LastDay(y, m) : day = DayOf(y, m, d)
  <1> DEFINE ends == {y \in Nat : y >= 1 /\ day < NewYear(y + 1)}
  <1>1. ends \subseteq Nat /\ ends # {}
    <2>1. PICK z \in Nat : z = day \div 365 + 1
      OBVIOUS
    <2>2. z >= 1 /\ day < 365 * z
      BY <2>1
    <2>3. 365 * ((z + 1) - 1) <= NewYear(z + 1) /\ NewYear(z + 1) \in Nat
      BY <2>2, YearLength
    <2>4. z \in ends
      BY <2>2, <2>3
    <2> QED
      BY <2>4
  <1>2. PICK y \in ends : \A z \in ends : y <= z
    <2> HIDE DEF ends
    <2> QED
      BY <1>1, LeastNumber
  <1>3. y \in Nat /\ y >= 1 /\ day < NewYear(y + 1)
    OBVIOUS
  <1>4. NewYear(y) <= day
    <2>1. CASE y = 1
      <3>1. NewYear(1) = 0
        BY DEF NewYear
      <3> QED
        BY <2>1, <3>1
    <2>2. CASE y # 1
      <3>1. PICK x \in Nat : x = y - 1 /\ x >= 1 /\ y = x + 1
        BY <1>3, <2>2
      <3>2. x \notin ends
        BY <1>2, <1>3, <3>1
      <3>3. ~ (day < NewYear(x + 1))
        BY <3>1, <3>2
      <3>4. NewYear(y) \in Nat
        BY <1>3, YearLength
      <3> QED
        BY <3>1, <3>3, <3>4
    <2> QED
      BY <2>1, <2>2
  <1> HIDE DEF ends
  <1>5. PICK e \in Nat : e = day - NewYear(y) /\ e < YearDays(y)
    <2>1. NewYear(y) \in Nat /\ NewYear(y + 1) = NewYear(y) + YearDays(y)
      BY <1>3, YearLength
    <2>2. YearDays(y) \in Nat
      BY DEF YearDays
    <2>3. day - NewYear(y) \in Nat /\ day - NewYear(y) < YearDays(y)
      BY <1>3, <1>4, <2>1, <2>2
    <2> QED
      BY <2>3
  <1>6. PICK m \in 1 .. 12 : BeforeMonth(y, m) <= e /\ e < BeforeMonth(y, m) + LastDay(y, m)
    <2>1. \A k \in 1 .. 12 : BeforeMonth(y, k) \in Nat /\ LastDay(y, k) \in Nat
      <3> SUFFICES ASSUME NEW k \in 1 .. 12 PROVE BeforeMonth(y, k) \in Nat /\ LastDay(y, k) \in Nat
        OBVIOUS
      <3>1. LastDay(y, k) \in Nat /\ BeforeMonth(y, k) \in Nat
        BY <1>3, MonthLength
      <3> QED
        BY <3>1
    <2>2. \A k \in 1 .. 12 : k < 12 => BeforeMonth(y, k + 1) = BeforeMonth(y, k) + LastDay(y, k)
      BY <1>3, MonthLength
    <2>3. BeforeMonth(y, 1) = 0 /\ BeforeMonth(y, 12) + LastDay(y, 12) = YearDays(y)
      <3>1. 1 \in 1 .. 12
        OBVIOUS
      <3> QED
        BY <1>3, <3>1, MonthLength
    <2> DEFINE late == {k \in Nat : k \in 1 .. 12 /\ e < BeforeMonth(y, k) + LastDay(y, k)}
    <2>4. late \subseteq Nat /\ late # {}
      <3>1. 12 \in late
        BY <1>5, <2>3
      <3> QED
        BY <3>1
    <2>5. PICK m \in late : \A k \in late : m <= k
      <3> HIDE DEF late
      <3> QED
        BY <2>4, LeastNumber
    <2>6. m \in 1 .. 12 /\ e < BeforeMonth(y, m) + LastDay(y, m)
      OBVIOUS
    <2>7. BeforeMonth(y, m) <= e
      <3>1. CASE m = 1
        BY <2>3, <3>1
      <3>2. CASE m # 1
        <4>1. PICK x \in 1 .. 12 : x = m - 1 /\ x < 12 /\ m = x + 1
          BY <2>6, <3>2
        <4>2. x \notin late
          BY <2>5, <2>6, <4>1
        <4>3. ~ (e < BeforeMonth(y, x) + LastDay(y, x))
          BY <4>1, <4>2
        <4>4. BeforeMonth(y, m) = BeforeMonth(y, x) + LastDay(y, x)
          BY <2>2, <4>1
        <4> QED
          BY <2>1, <2>6, <4>1, <4>3, <4>4
      <3> QED
        BY <3>1, <3>2
    <2> QED
      BY <2>6, <2>7
  <1>7. PICK d \in 1 .. LastDay(y, m) : d = e - BeforeMonth(y, m) + 1
    <2>1. LastDay(y, m) \in Nat /\ 28 <= LastDay(y, m) /\ LastDay(y, m) <= 31 /\ BeforeMonth(y, m) \in Nat
      BY <1>3, MonthLength
    <2>2. e - BeforeMonth(y, m) + 1 \in 1 .. LastDay(y, m)
      BY <1>6, <2>1
    <2> QED
      BY <2>2
  <1>8. day = DayOf(y, m, d)
    <2>1. LastDay(y, m) \in Nat /\ BeforeMonth(y, m) \in Nat
      BY <1>3, MonthLength
    <2>2. NewYear(y) \in Nat
      BY <1>3, YearLength
    <2> QED
      BY <1>5, <1>7, <2>1, <2>2 DEF DayOf
  <1> QED
    BY <1>3, <1>8

(* The date of a day.                                                      *)
LEMMA CivilIs ==
  ASSUME NEW day \in Nat
  PROVE  /\ Civil(day).y \in Nat /\ Civil(day).y >= 1
         /\ Civil(day).m \in Nat /\ 1 <= Civil(day).m /\ Civil(day).m <= 12
         /\ Civil(day).d \in Nat /\ 1 <= Civil(day).d /\ Civil(day).d <= LastDay(Civil(day).y, Civil(day).m)
         /\ day = DayOf(Civil(day).y, Civil(day).m, Civil(day).d)
  <1>1. PICK y \in Nat : y >= 1 /\ \E m \in 1 .. 12 : \E d \in 1 .. LastDay(y, m) : day = DayOf(y, m, d)
    BY EveryDayHasADate
  <1>2. PICK m \in 1 .. 12 : \E d \in 1 .. LastDay(y, m) : day = DayOf(y, m, d)
    BY <1>1
  <1>3. PICK d \in 1 .. LastDay(y, m) : day = DayOf(y, m, d)
    BY <1>2
  <1>4. m \in Nat /\ 1 <= m /\ m <= 12
    OBVIOUS
  <1>5. LastDay(y, m) \in Nat
    BY <1>1, <1>4, MonthLength
  <1>6. d \in Nat /\ 1 <= d /\ d <= LastDay(y, m)
    BY <1>5
  <1>7. Civil(day) = [y |-> y, m |-> m, d |-> d]
    BY <1>1, <1>3, <1>4, <1>6, DateIs
  <1>8. Civil(day).y = y /\ Civil(day).m = m /\ Civil(day).d = d
    BY <1>7
  <1> QED
    BY <1>1, <1>3, <1>4, <1>6, <1>8

(* Later days are of the same month or of later ones.                      *)
LEMMA MonthsInOrder ==
  ASSUME NEW a \in Nat, NEW b \in Nat, a < b
  PROVE  /\ MonthNo(a) \in Nat /\ MonthNo(b) \in Nat /\ MonthNo(a) <= MonthNo(b)
         /\ MonthNo(a) = MonthNo(b) => Civil(a).y = Civil(b).y /\ Civil(a).m = Civil(b).m
  <1>1. PICK y \in Nat, m \in Nat, d \in Nat : y = Civil(a).y /\ m = Civil(a).m /\ d = Civil(a).d
    BY CivilIs
  <1>2. PICK v \in Nat, w \in Nat, e \in Nat : v = Civil(b).y /\ w = Civil(b).m /\ e = Civil(b).d
    BY CivilIs
  <1>3. /\ y >= 1 /\ 1 <= m /\ m <= 12 /\ 1 <= d /\ d <= LastDay(y, m) /\ a = DayOf(y, m, d)
        /\ v >= 1 /\ 1 <= w /\ w <= 12 /\ 1 <= e /\ e <= LastDay(v, w) /\ b = DayOf(v, w, e)
    BY <1>1, <1>2, CivilIs
  <1>4. MonthNo(a) = 12 * y + m /\ MonthNo(b) = 12 * v + w
    BY <1>1, <1>2 DEF MonthNo
  <1>5. ~ (v < y)
    <2> SUFFICES ASSUME v < y PROVE FALSE
      OBVIOUS
    <2>1. b < NewYear(v + 1)
      BY <1>3, DateIs
    <2>2. NewYear(y) <= a
      BY <1>3, DateIs
    <2>3. NewYear(v + 1) <= NewYear(y)
      BY <1>3, YearsGrow
    <2>4. NewYear(y) \in Nat /\ NewYear(v + 1) \in Nat
      BY <1>3, YearLength
    <2> QED
      BY <2>1, <2>2, <2>3, <2>4
  <1>6. ASSUME v = y PROVE ~ (w < m)
    <2> SUFFICES ASSUME w < m PROVE FALSE
      OBVIOUS
    <2>1. BeforeMonth(y, w) + LastDay(y, w) <= BeforeMonth(y, m)
      BY <1>3, MonthLength
    <2>2. /\ BeforeMonth(y, w) \in Nat /\ LastDay(y, w) \in Nat
          /\ BeforeMonth(y, m) \in Nat /\ LastDay(y, m) \in Nat
      BY <1>3, MonthLength
    <2>3. NewYear(y) \in Nat
      BY <1>3, YearLength
    <2>4. a = NewYear(y) + BeforeMonth(y, m) + d - 1 /\ b = NewYear(y) + BeforeMonth(y, w) + e - 1
      BY <1>3, <1>6 DEF DayOf
    <2>5. e <= LastDay(y, w)
      BY <1>3, <1>6
    <2> QED
      BY <1>3, <2>1, <2>2, <2>3, <2>4, <2>5
  <1>7. 12 * y + m <= 12 * v + w /\ (12 * y + m = 12 * v + w => y = v /\ m = w)
    BY <1>3, <1>5, <1>6
  <1> QED
    BY <1>1, <1>2, <1>4, <1>7

-----------------------------------------------------------------------------
(* One step of the loop.                                                   *)
IsRule(r) ==
  /\ r.freq \in Frequencies /\ r.interval \in Nat \ {0}
  /\ \A d \in r.byDay : d \in Nat /\ d < 7

(* The days of the rule after cur start with next.                         *)
Follows(r, first, cur, next) ==
  /\ next \in Nat /\ cur < next /\ InRule(r, first, next)
  /\ \A day \in Nat : cur < day /\ day < next => ~ InRule(r, first, day)

OnPath(r, first, cur) == first <= cur /\ (cur = first \/ InRule(r, first, cur))

(* A daily rule goes on by its interval.                                   *)
LEMMA NextOfDays ==
  ASSUME NEW r, IsRule(r), r.freq = "DAILY", NEW first \in Nat, NEW cur \in Nat, OnPath(r, first, cur)
  PROVE  Follows(r, first, cur, NextDay(r, first, cur))
  <1>1. PICK n \in Nat \ {0} : n = r.interval
    BY DEF IsRule
  <1>2. NextDay(r, first, cur) = cur + n
    BY <1>1 DEF NextDay
  <1>3. \A day : InRule(r, first, day) <=> (day - first) % n = 0
    BY <1>1 DEF InRule
  <1>4. PICK x \in Nat : x = cur - first
    BY DEF OnPath
  <1>5. x % n = 0
    <2>1. CASE cur = first
      <3>1. x = 0 /\ 0 \in Nat /\ n * 0 <= 0 /\ 0 < n * 0 + n
        BY <1>4, <2>1
      <3>2. 0 \div n = 0
        BY <3>1, QuotientIs
      <3>3. 0 % n = 0 - n * (0 \div n)
        BY Division
      <3> QED
        BY <3>1, <3>2, <3>3
    <2>2. CASE InRule(r, first, cur)
      BY <1>3, <1>4, <2>2
    <2> QED
      BY <2>1, <2>2 DEF OnPath
  <1>6. (x + n) % n = 0 /\ \A j \in Nat : 0 < j /\ j < n => (x + j) % n # 0
    BY <1>5, NextMultiple
  <1>7. InRule(r, first, cur + n)
    <2>1. (cur + n) - first = x + n
      BY <1>4
    <2> QED
      BY <1>3, <1>6, <2>1
  <1>8. ASSUME NEW day \in Nat, cur < day, day < cur + n
        PROVE  ~ InRule(r, first, day)
    <2>1. PICK j \in Nat : j = day - cur /\ 0 < j /\ j < n
      BY <1>8
    <2>2. day - first = x + j
      BY <1>4, <2>1
    <2> QED
      BY <1>3, <1>6, <2>1, <2>2
  <1> QED
    BY <1>2, <1>7, <1>8 DEF Follows

(* A weekly rule goes to its next weekday in a week of its interval.       *)
LEMMA NextOfWeeks ==
  ASSUME NEW r, IsRule(r), r.freq = "WEEKLY", NEW first \in Nat, NEW cur \in Nat, OnPath(r, first, cur)
  PROVE  Follows(r, first, cur, NextDay(r, first, cur))
  <1> DEFINE days == IF r.byDay = {} THEN {Weekday(first)} ELSE r.byDay
             found == {d \in cur + 1 .. cur + 7 * r.interval + 7 :
                         Weekday(d) \in days /\ WeeksApart(first, d) % r.interval = 0}
  <1>1. PICK n \in Nat \ {0} : n = r.interval
    BY DEF IsRule
  <1>2. NextDay(r, first, cur) = Min(found)
    BY DEF NextDay
  <1>3. \A day \in Nat : WeeksApart(first, day) = day \div 7 - first \div 7
    BY WeeksAre
  <1>4. PICK f \in Nat : f = first \div 7
    OBVIOUS
  <1>5. \A day \in Nat : InRule(r, first, day) <=> Weekday(day) \in days /\ (day \div 7 - f) % n = 0
    <2> SUFFICES ASSUME NEW day \in Nat
                 PROVE  InRule(r, first, day) <=> Weekday(day) \in days /\ (day \div 7 - f) % n = 0
      OBVIOUS
    <2>1. WeekStart(day) = 7 * (day \div 7) /\ day \div 7 \in Nat
      BY WeekIs
    <2>2. WeekStart(first) = 7 * f
      BY <1>4, WeekIs
    <2>3. (WeekStart(day) - WeekStart(first)) \div 7 = day \div 7 - f
      BY <2>1, <2>2
    <2>4. InRule(r, first, day) <=> Weekday(day) \in days /\ ((WeekStart(day) - WeekStart(first)) \div 7) % n = 0
      BY <1>1 DEF InRule
    <2> QED
      BY <2>3, <2>4
  <1>6. \E d \in days : d \in Nat /\ d < 7
    BY WeekIs DEF IsRule
  <1>7. PICK c \in Nat : c = cur \div 7 /\ f <= c /\ 7 * c <= cur /\ cur < 7 * c + 7
    BY <1>4 DEF OnPath
  <1>8. PICK x \in Nat : x = c - f
    BY <1>7
  <1>9. x % n = 0
    <2>1. CASE cur = first
      <3>1. x = 0 /\ 0 \in Nat /\ n * 0 <= 0 /\ 0 < n * 0 + n
        BY <1>4, <1>7, <1>8, <2>1
      <3>2. 0 \div n = 0
        BY <3>1, QuotientIs
      <3>3. 0 % n = 0 - n * (0 \div n)
        BY Division
      <3> QED
        BY <3>1, <3>2, <3>3
    <2>2. CASE InRule(r, first, cur)
      BY <1>5, <1>7, <1>8, <2>2
    <2> QED
      BY <2>1, <2>2 DEF OnPath
  <1>10. (x + n) % n = 0
    BY <1>9, NextMultiple
  <1>11. \A d : d \in found <=> /\ d \in Nat /\ cur + 1 <= d /\ d <= cur + 7 * n + 7
                                /\ InRule(r, first, d)
    <2> SUFFICES ASSUME NEW d
                 PROVE  d \in found <=> d \in Nat /\ cur + 1 <= d /\ d <= cur + 7 * n + 7 /\ InRule(r, first, d)
      OBVIOUS
    <2>1. d \in found <=> d \in cur + 1 .. cur + 7 * n + 7 /\ Weekday(d) \in days /\ WeeksApart(first, d) % n = 0
      BY <1>1
    <2>2. d \in cur + 1 .. cur + 7 * n + 7 <=> d \in Nat /\ cur + 1 <= d /\ d <= cur + 7 * n + 7
      OBVIOUS
    <2> HIDE DEF found, days
    <2> QED
      BY <1>3, <1>4, <1>5, <2>1, <2>2
  <1> HIDE DEF found
  <1>12. found # {}
    <2>1. PICK w \in days : w \in Nat /\ w < 7
      BY <1>6
    <2> HIDE DEF days
    <2>2. PICK q \in Nat : q = c + n /\ q - f = x + n
      BY <1>8
    <2>3. PICK d \in Nat : d = 7 * q + w
      BY <2>1
    <2>4. d \div 7 = q /\ Weekday(d) = w
      BY <2>1, <2>3, WeekdayOf
    <2>5. InRule(r, first, d)
      BY <1>5, <1>10, <2>1, <2>2, <2>3, <2>4
    <2>6. cur + 1 <= d /\ d <= cur + 7 * n + 7
      BY <1>7, <2>1, <2>2, <2>3
    <2> QED
      BY <1>11, <2>3, <2>5, <2>6
  <1>13. PICK next \in found : \A d \in found : next <= d
    <2>1. found \subseteq Nat
      BY <1>11
    <2> QED
      BY <1>12, <2>1, LeastNumber
  <1>14. Min(found) \in found /\ \A d \in found : Min(found) <= d
    BY <1>13 DEF Min
  <1>15. PICK m \in Nat : m = Min(found) /\ m <= cur + 7 * n + 7 /\ cur < m /\ InRule(r, first, m)
    BY <1>11, <1>14
  <1>16. ASSUME NEW day \in Nat, cur < day, day < m
         PROVE  ~ InRule(r, first, day)
    <2>1. ~ (m <= day) /\ cur + 1 <= day /\ day <= cur + 7 * n + 7
      BY <1>15, <1>16
    <2>2. day \notin found
      BY <1>14, <1>15, <2>1
    <2> QED
      BY <1>11, <2>1, <2>2
  <1> QED
    BY <1>2, <1>15, <1>16 DEF Follows

(* The smaller of two numbers.                                             *)
LEMMA MinOfTwo ==
  ASSUME NEW a \in Nat, NEW b \in Nat
  PROVE  /\ Min({a, b}) \in {a, b} /\ Min({a, b}) <= a /\ Min({a, b}) <= b
         /\ a <= b => Min({a, b}) = a
  BY DEF Min

(* A monthly rule goes to the same day, or the last, of a later month.     *)
LEMMA NextOfMonths ==
  ASSUME NEW r, IsRule(r), r.freq = "MONTHLY", NEW first \in Nat, NEW cur \in Nat, OnPath(r, first, cur)
  PROVE  Follows(r, first, cur, NextDay(r, first, cur))
  <1>1. PICK n \in Nat \ {0} : n = r.interval
    BY DEF IsRule
  <1>2. PICK y \in Nat, m \in Nat, d \in Nat : y = Civil(cur).y /\ m = Civil(cur).m /\ d = Civil(cur).d
    BY CivilIs
  <1>3. y >= 1 /\ 1 <= m /\ m <= 12 /\ 1 <= d /\ d <= LastDay(y, m) /\ cur = DayOf(y, m, d)
    BY <1>2, CivilIs
  <1>4. PICK f \in Nat : f = Civil(first).d /\ 1 <= f
    BY CivilIs
  <1>5. \A day : InRule(r, first, day) <=>
                   /\ (MonthNo(day) - MonthNo(first)) % n = 0
                   /\ Civil(day).d = Min({f, LastDay(Civil(day).y, Civil(day).m)})
    BY <1>1, <1>4 DEF InRule
  <1>6. PICK v \in Nat, w \in Nat : /\ v = y + (m + n - 1) \div 12 /\ w = ((m + n - 1) % 12) + 1
                                    /\ 12 * v + w = 12 * y + m + n /\ 1 <= w /\ w <= 12 /\ v >= 1
    <2>1. PICK k \in Nat : k = m + n - 1
      BY <1>3
    <2>2. PICK q \in Int : q = k \div 12
      OBVIOUS
    <2>3. q \in Nat /\ 12 * q <= k /\ k < 12 * q + 12 /\ k % 12 = k - 12 * q
      BY <2>2
    <2>4. /\ y + q \in Nat /\ (k - 12 * q) + 1 \in Nat /\ 12 * (y + q) + ((k - 12 * q) + 1) = 12 * y + m + n
          /\ 1 <= (k - 12 * q) + 1 /\ (k - 12 * q) + 1 <= 12 /\ y + q >= 1
      BY <1>3, <2>1, <2>3
    <2> QED
      BY <2>1, <2>2, <2>3, <2>4
  <1>7. PICK l \in Nat : l = LastDay(v, w) /\ 28 <= l
    BY <1>6, MonthLength
  <1>8. PICK e \in Nat : e = Min({f, l}) /\ 1 <= e /\ e <= l
    <2>1. Min({f, l}) \in {f, l} /\ Min({f, l}) <= l
      BY MinOfTwo
    <2> QED
      BY <1>4, <1>7, <2>1
  <1>9. NextDay(r, first, cur) = DayOf(v, w, e)
    <2>1. Civil(cur).m + r.interval - 1 = m + n - 1
      BY <1>1, <1>2
    <2> QED
      BY <1>1, <1>2, <1>4, <1>6, <1>7, <1>8, <2>1, Zenon DEF NextDay
  <1>10. PICK next \in Nat : next = DayOf(v, w, e) /\ Civil(next) = [y |-> v, m |-> w, d |-> e]
    BY <1>6, <1>7, <1>8, DateIs
  <1>11. PICK a \in Nat, b \in Nat : a = MonthNo(first) /\ b = MonthNo(cur) /\ a <= b /\ b = 12 * y + m
    <2>1. MonthNo(cur) = 12 * y + m
      BY <1>2 DEF MonthNo
    <2>2. CASE cur = first
      BY <2>1, <2>2
    <2>3. CASE first < cur
      BY <2>1, <2>3, MonthsInOrder
    <2> QED
      BY <2>2, <2>3 DEF OnPath
  <1>0. n \in Nat /\ n > 0 /\ b + n # b
    OBVIOUS
  <1>12. MonthNo(next) = b + n
    BY <1>6, <1>10, <1>11 DEF MonthNo
  <1>13. d = Min({f, LastDay(y, m)}) /\ (b - a) % n = 0
    <2>1. CASE cur = first
      <3>0. d = f /\ b = a
        BY <1>2, <1>4, <1>11, <2>1
      <3>1. d = f /\ b - a = 0
        BY <3>0
      <3>2. LastDay(y, m) \in Nat /\ f <= LastDay(y, m)
        BY <1>3, <3>1, MonthLength
      <3>3. Min({f, LastDay(y, m)}) = f
        BY <3>2, MinOfTwo
      <3>4. 0 \in Nat /\ n * 0 <= 0 /\ 0 < n * 0 + n
        OBVIOUS
      <3>5. 0 \div n = 0
        BY <3>4, QuotientIs
      <3>6. 0 % n = 0 - n * (0 \div n)
        BY Division
      <3> QED
        BY <3>1, <3>3, <3>4, <3>5, <3>6
    <2>2. CASE InRule(r, first, cur)
      BY <1>2, <1>5, <1>11, <2>2
    <2> QED
      BY <2>1, <2>2 DEF OnPath
  <1>14. PICK x \in Nat : x = b - a
    BY <1>11
  <1>15. (x + n) % n = 0 /\ \A j \in Nat : 0 < j /\ j < n => (x + j) % n # 0
    BY <1>13, <1>14, NextMultiple
  <1>16. InRule(r, first, next)
    <2>1. MonthNo(next) - MonthNo(first) = x + n
      BY <1>11, <1>12, <1>14
    <2>2. Civil(next).d = e /\ Civil(next).y = v /\ Civil(next).m = w
      BY <1>10
    <2> QED
      BY <1>5, <1>7, <1>8, <1>15, <2>1, <2>2
  <1>17. cur < next
    <2>1. cur # next
      BY <1>0, <1>11, <1>12, Zenon
    <2>2. ~ (next < cur)
      <3> SUFFICES ASSUME next < cur PROVE FALSE
        OBVIOUS
      <3>1. MonthNo(next) <= MonthNo(cur)
        BY MonthsInOrder
      <3> QED
        BY <1>0, <1>11, <1>12, <3>1
    <2> QED
      BY <2>1, <2>2
  <1>18. ASSUME NEW day \in Nat, cur < day, day < next
         PROVE  ~ InRule(r, first, day)
    <2> SUFFICES ASSUME InRule(r, first, day) PROVE FALSE
      OBVIOUS
    <2>1. PICK z \in Nat : z = MonthNo(day) /\ b <= z /\ z <= b + n
      <3>1. MonthNo(day) \in Nat /\ MonthNo(cur) <= MonthNo(day) /\ MonthNo(day) <= MonthNo(next)
        BY <1>18, MonthsInOrder
      <3> QED
        BY <1>11, <1>12, <3>1
    <2>2. PICK j \in Nat : j = z - b /\ j <= n
      BY <2>1
    <2>3. (x + j) % n = 0
      <3>1. MonthNo(day) - MonthNo(first) = x + j
        BY <1>11, <1>14, <2>1, <2>2
      <3> QED
        BY <1>5, <3>1
    <2>4. j = 0 \/ j = n
      <3>1. ~ (0 < j /\ j < n)
        BY <1>15, <2>3, Zenon
      <3> QED
        BY <1>0, <2>2, <3>1
    <2>5. Civil(day).d = Min({f, LastDay(Civil(day).y, Civil(day).m)})
      BY <1>5
    <2>6. day = DayOf(Civil(day).y, Civil(day).m, Civil(day).d)
      BY CivilIs
    <2>7. CASE j = 0
      <3>1. MonthNo(cur) = MonthNo(day)
        BY <1>11, <2>1, <2>2, <2>7
      <3>2. Civil(day).y = y /\ Civil(day).m = m
        BY <1>2, <1>18, <3>1, MonthsInOrder
      <3>3. day = cur
        BY <1>3, <1>13, <2>5, <2>6, <3>2
      <3> QED
        BY <1>18, <3>3
    <2>8. CASE j = n
      <3>1. MonthNo(day) = MonthNo(next)
        BY <1>12, <2>1, <2>2, <2>8
      <3>2. Civil(day).y = v /\ Civil(day).m = w
        <4>1. Civil(next).y = v /\ Civil(next).m = w
          BY <1>10
        <4> QED
          BY <1>18, <3>1, <4>1, MonthsInOrder
      <3>3. day = next
        BY <1>7, <1>8, <1>10, <2>5, <2>6, <3>2
      <3> QED
        BY <1>18, <3>3
    <2> QED
      BY <2>4, <2>7, <2>8
  <1> QED
    BY <1>9, <1>10, <1>16, <1>17, <1>18 DEF Follows

(* Whatever the rule, one round of the loop leaves no day of it out.       *)
LEMMA NextDayFollows ==
  ASSUME NEW r, IsRule(r), NEW first \in Nat, NEW cur \in Nat, OnPath(r, first, cur)
  PROVE  Follows(r, first, cur, NextDay(r, first, cur))
  <1>1. r.freq = "DAILY" \/ r.freq = "WEEKLY" \/ r.freq = "MONTHLY"
    BY DEF IsRule, Frequencies
  <1> QED
    BY <1>1, NextOfDays, NextOfWeeks, NextOfMonths

-----------------------------------------------------------------------------
(* Recursive functions.                                                    *)
LEMMA Induction ==
  ASSUME NEW S, NEW n \in Nat, 0 \in S, \A k \in Nat : k < n /\ k \in S => k + 1 \in S
  PROVE  n \in S
  <1> SUFFICES ASSUME n \notin S PROVE FALSE
    OBVIOUS
  <1> DEFINE bad == {k \in Nat : k <= n /\ k \notin S}
  <1>1. bad \subseteq Nat /\ bad # {}
    OBVIOUS
  <1>2. PICK m \in bad : \A k \in bad : m <= k
    <2> HIDE DEF bad
    <2> QED
      BY <1>1, LeastNumber
  <1>3. m \in Nat /\ m <= n /\ m \notin S /\ m # 0
    OBVIOUS
  <1>4. PICK j \in Nat : m = j + 1 /\ j < n /\ ~ (m <= j)
    <2>1. m - 1 \in Nat /\ m = (m - 1) + 1 /\ m - 1 < n /\ ~ (m <= m - 1)
      BY <1>3
    <2> QED
      BY <2>1
  <1>5. j \notin bad
    BY <1>2, <1>4
  <1>6. j \in S
    BY <1>4, <1>5
  <1> QED
    BY <1>3, <1>4, <1>6

(* A function is defined by its first value and by each from the one       *)
(* before.                                                                 *)
IsStep(step, V) == \A x \in V : \A k \in Nat : step[<<k, x>>] \in V
Chain(f, v, n, step, V) ==
  /\ f[0] = v /\ \A k \in Nat : k <= n => f[k] \in V
  /\ \A k \in Nat : k < n => f[k + 1] = step[<<k + 1, f[k]>>]

(* A loop of n rounds has values.                                          *)
LEMMA StepsExist ==
  ASSUME NEW n \in Nat, NEW V, NEW v \in V, NEW step, IsStep(step, V)
  PROVE  \E f : Chain(f, v, n, step, V)
  <1> USE DEF IsStep
  <1> DEFINE Steps(f, m) == /\ f[0] = v /\ \A k \in Nat : k <= m => f[k] \in V
                            /\ \A k \in Nat : k < m => f[k + 1] = step[<<k + 1, f[k]>>]
             S == {m \in Nat : \E f : Steps(f, m)}
  <1>1. 0 \in S
    <2>1. [k \in {0} |-> v][0] = v
      OBVIOUS
    <2>2. \A k \in Nat : k <= 0 => k = 0
      OBVIOUS
    <2>3. \A k \in Nat : ~ (k < 0)
      OBVIOUS
    <2>4. Steps([k \in {0} |-> v], 0)
      BY <2>1, <2>2, <2>3
    <2> QED
      BY <2>4
  <1>2. ASSUME NEW m \in Nat, m \in S
        PROVE  m + 1 \in S
    <2>1. PICK f : Steps(f, m)
      BY <1>2
    <2> DEFINE g == [k \in Nat |-> IF k = m + 1 THEN step[<<m + 1, f[m]>>] ELSE f[k]]
    <2>2. f[m] \in V
      BY <2>1
    <2>3. g[m + 1] = step[<<m + 1, f[m]>>] /\ g[m + 1] \in V
      <3>1. m + 1 \in Nat
        OBVIOUS
      <3> QED
        BY <2>2, <3>1
    <2>4. \A k \in Nat : k <= m => g[k] = f[k]
      OBVIOUS
    <2> HIDE DEF g
    <2>5. g[0] = v
      BY <2>1, <2>4
    <2>6. ASSUME NEW k \in Nat, k <= m + 1 PROVE g[k] \in V
      <3>1. CASE k = m + 1
        BY <2>3, <3>1
      <3>2. CASE k <= m
        BY <2>1, <2>4, <3>2
      <3> QED
        BY <2>6, <3>1, <3>2
    <2>7. ASSUME NEW k \in Nat, k < m + 1 PROVE g[k + 1] = step[<<k + 1, g[k]>>]
      <3>1. CASE k = m
        BY <2>3, <2>4, <3>1
      <3>2. CASE k < m
        <4>1. f[k + 1] = step[<<k + 1, f[k]>>]
          BY <2>1, <3>2
        <4>2. g[k + 1] = f[k + 1] /\ g[k] = f[k]
          BY <2>4, <3>2
        <4> QED
          BY <4>1, <4>2
      <3> QED
        BY <2>7, <3>1, <3>2
    <2>8. Steps(g, m + 1)
      BY <2>5, <2>6, <2>7
    <2> QED
      BY <2>8
  <1> HIDE DEF S
  <1>3. n \in S
    BY <1>1, <1>2, Induction
  <1> QED
    BY <1>3 DEF S, Chain

-----------------------------------------------------------------------------
(* The loop.                                                               *)
LEMMA LocalTimeIs ==
  ASSUME NEW t \in Int
  PROVE  LocalDay(t) \in Int /\ LocalMinute(t) \in Nat /\ LocalMinute(t) < 1440
  BY OffsetIs DEF LocalDay, LocalMinute, Day

WalkStep(r, from, after, k, t) ==
  IF k > 1 /\ t > after THEN t ELSE At(NextDay(r, LocalDay(from), LocalDay(t)), LocalMinute(from))

OnWalk(r, first) == {t \in Int : LocalDay(t) \in Nat /\ OnPath(r, first, LocalDay(t))}

(* A round of the loop stays on the days of the rule.                      *)
LEMMA WalkStays ==
  ASSUME NEW r, IsRule(r), NEW from \in Int, LocalDay(from) \in Nat, NEW after \in Int, NEW k \in Nat,
         NEW t \in OnWalk(r, LocalDay(from))
  PROVE  WalkStep(r, from, after, k, t) \in OnWalk(r, LocalDay(from))
  <1> DEFINE first == LocalDay(from)
             minute == LocalMinute(from)
  <1>1. t \in Int /\ LocalDay(t) \in Nat /\ OnPath(r, first, LocalDay(t))
    BY DEF OnWalk
  <1>2. minute \in Nat /\ minute < 1440
    BY LocalTimeIs
  <1>3. PICK next \in Nat : /\ next = NextDay(r, first, LocalDay(t))
                            /\ LocalDay(t) < next /\ InRule(r, first, next)
    BY <1>1, NextDayFollows DEF Follows
  <1> HIDE DEF minute
  <1>4. At(next, minute) \in Int /\ LocalDay(At(next, minute)) = next
    BY <1>2, <1>3, OnItsDay
  <1>5. OnPath(r, first, next)
    BY <1>1, <1>3 DEF OnPath
  <1>6. At(next, minute) \in OnWalk(r, first)
    BY <1>4, <1>5 DEF OnWalk
  <1>7. WalkStep(r, from, after, k, t) = IF k > 1 /\ t > after THEN t ELSE At(next, minute)
    BY <1>3 DEF WalkStep, minute
  <1> QED
    BY <1>6, <1>7

(* RuleNext is where the loop of Rule.Next ends.                           *)
LEMMA WalkIs ==
  ASSUME NEW r, IsRule(r), NEW from \in Int, LocalDay(from) \in Nat, NEW after \in Int
  PROVE  \E walk : /\ RuleNext(r, from, after) = walk[MaxSteps] /\ walk[0] = from
                   /\ \A k \in Nat : k < MaxSteps => walk[k + 1] = WalkStep(r, from, after, k + 1, walk[k])
  <1> DEFINE V == OnWalk(r, LocalDay(from))
             step == [p \in Nat \X V |-> WalkStep(r, from, after, p[1], p[2])]
             body(f, k) == IF k = 0 THEN from ELSE WalkStep(r, from, after, k, f[k - 1])
  <1>1. from \in V
    BY DEF OnWalk, OnPath
  <1>2. \A k \in Nat, t \in V : step[<<k, t>>] = WalkStep(r, from, after, k, t)
    <2> HIDE DEF V
    <2> QED
      OBVIOUS
  <1>3. \A t \in V : \A k \in Nat : step[<<k, t>>] \in V
    <2> SUFFICES ASSUME NEW t \in V, NEW k \in Nat PROVE step[<<k, t>>] \in V
      OBVIOUS
    <2>1. WalkStep(r, from, after, k, t) \in V
      BY WalkStays
    <2> HIDE DEF V, step
    <2> QED
      BY <1>2, <2>1
  <1> HIDE DEF V, step
  <1>4. MaxSteps \in Nat
    BY ZoneAssumption
  <1>5. PICK f : /\ f[0] = from /\ \A k \in Nat : k <= MaxSteps => f[k] \in V
                 /\ \A k \in Nat : k < MaxSteps => f[k + 1] = step[<<k + 1, f[k]>>]
    <2>1. IsStep(step, V)
      BY <1>3 DEF IsStep
    <2>2. \E f : Chain(f, from, MaxSteps, step, V)
      BY <1>1, <1>4, <2>1, StepsExist, Zenon
    <2> QED
      BY <2>2 DEF Chain
  <1> DEFINE g == [k \in 0 .. MaxSteps |-> f[k]]
  <1>6. \A k \in 0 .. MaxSteps : g[k] = f[k]
    OBVIOUS
  <1>7. g = [k \in 0 .. MaxSteps |-> g[k]]
    OBVIOUS
  <1> HIDE DEF g
  <1>8. ASSUME NEW k \in 0 .. MaxSteps PROVE g[k] = body(g, k)
    <2>1. CASE k = 0
      BY <1>5, <1>6, <1>8, <2>1
    <2>2. CASE k # 0
      <3>1. PICK j \in Nat : j = k - 1 /\ k = j + 1 /\ j < MaxSteps /\ j \in 0 .. MaxSteps /\ j <= MaxSteps
        <4>1. k - 1 \in Nat /\ k = (k - 1) + 1 /\ k - 1 < MaxSteps /\ k - 1 \in 0 .. MaxSteps /\ k - 1 <= MaxSteps
          BY <1>4, <1>8, <2>2
        <4> QED
          BY <4>1
      <3>2. f[j + 1] = step[<<j + 1, f[j]>>] /\ f[j] \in V /\ j + 1 \in Nat
        BY <1>5, <3>1
      <3>3. f[k] = WalkStep(r, from, after, k, f[j])
        BY <1>2, <3>1, <3>2
      <3>4. g[k - 1] = f[j] /\ g[k] = f[k]
        BY <1>6, <3>1
      <3> QED
        BY <2>2, <3>3, <3>4
    <2> QED
      BY <2>1, <2>2
  <1>9. g = [k \in 0 .. MaxSteps |-> body(g, k)]
    <2>1. [k \in 0 .. MaxSteps |-> g[k]] = [k \in 0 .. MaxSteps |-> body(g, k)]
      BY <1>8
    <2> QED
      BY <1>7, <2>1
  <1> DEFINE walk == CHOOSE h : h = [k \in 0 .. MaxSteps |-> body(h, k)]
  <1>10. walk = [k \in 0 .. MaxSteps |-> body(walk, k)]
    <2>1. \E h : h = [k \in 0 .. MaxSteps |-> body(h, k)]
      BY <1>9
    <2> HIDE DEF body
    <2> QED
      BY <2>1, Zenon
  <1>11. RuleNext(r, from, after) = walk[MaxSteps]
    BY Zenon DEF RuleNext, WalkStep
  <1> HIDE DEF walk
  <1>12. \A k \in 0 .. MaxSteps : walk[k] = body(walk, k)
    <2> DEFINE h == [k \in 0 .. MaxSteps |-> body(walk, k)]
    <2> HIDE DEF body
    <2>1. \A k \in 0 .. MaxSteps : h[k] = body(walk, k)
      OBVIOUS
    <2>2. walk = h
      BY <1>10
    <2> HIDE DEF h
    <2> QED
      BY <2>1, <2>2, Zenon
  <1>13. walk[0] = from
    <2>1. 0 \in 0 .. MaxSteps
      BY <1>4
    <2> QED
      BY <1>12, <2>1
  <1>14. ASSUME NEW k \in Nat, k < MaxSteps
         PROVE  walk[k + 1] = WalkStep(r, from, after, k + 1, walk[k])
    <2>1. k + 1 \in 0 .. MaxSteps /\ k + 1 # 0 /\ (k + 1) - 1 = k
      BY <1>4, <1>14
    <2>2. walk[k + 1] = body(walk, k + 1)
      BY <1>12, <2>1
    <2> QED
      BY <2>1, <2>2
  <1> QED
    BY <1>11, <1>13, <1>14

(* Where the loop is after k rounds: on a day of the rule, with no day     *)
(* left out that is still to come, and past the present or further on.     *)
Reached(r, from, after, k, t) ==
  LET first == LocalDay(from)
      day == LocalDay(t)
      minute == LocalMinute(from)
  IN /\ t \in Int /\ day \in Nat /\ first < day /\ t = At(day, minute) /\ InRule(r, first, day)
     /\ \A d \in Nat : first < d /\ d < day /\ At(d, minute) > after => ~ InRule(r, first, d)
     /\ t > after \/ day >= first + k

(* The first round reaches the first day of the rule.                      *)
LEMMA FirstRound ==
  ASSUME NEW r, IsRule(r), NEW from \in Int, LocalDay(from) \in Nat, NEW after \in Int
  PROVE  Reached(r, from, after, 1, WalkStep(r, from, after, 1, from))
  <1>1. PICK first \in Nat, minute \in Nat : first = LocalDay(from) /\ minute = LocalMinute(from) /\ minute < 1440
    BY LocalTimeIs
  <1>2. PICK next \in Nat : /\ next = NextDay(r, first, first) /\ first < next /\ InRule(r, first, next)
                            /\ \A d \in Nat : first < d /\ d < next => ~ InRule(r, first, d)
    <2>1. OnPath(r, first, first)
      BY DEF OnPath
    <2>2. Follows(r, first, first, NextDay(r, first, first))
      BY <2>1, NextDayFollows
    <2> QED
      BY <2>2 DEF Follows
  <1>3. At(next, minute) \in Int /\ LocalDay(At(next, minute)) = next
    BY <1>1, <1>2, OnItsDay
  <1>4. WalkStep(r, from, after, 1, from) = At(next, minute)
    BY <1>1, <1>2 DEF WalkStep
  <1>5. next >= first + 1
    BY <1>2
  <1> QED
    BY <1>1, <1>2, <1>3, <1>4, <1>5 DEF Reached

(* Every other round goes on, or has found what it looked for.             *)
LEMMA NextRound ==
  ASSUME NEW r, IsRule(r), NEW from \in Int, LocalDay(from) \in Nat, NEW after \in Int,
         NEW k \in Nat, k >= 1, NEW t, Reached(r, from, after, k, t)
  PROVE  Reached(r, from, after, k + 1, WalkStep(r, from, after, k + 1, t))
  <1>1. PICK first \in Nat, minute \in Nat : first = LocalDay(from) /\ minute = LocalMinute(from) /\ minute < 1440
    BY LocalTimeIs
  <1>2. PICK day \in Nat : day = LocalDay(t)
    BY DEF Reached
  <1>3. /\ t \in Int /\ first < day /\ t = At(day, minute) /\ InRule(r, first, day)
        /\ \A d \in Nat : first < d /\ d < day /\ At(d, minute) > after => ~ InRule(r, first, d)
        /\ t > after \/ day >= first + k
    BY <1>1, <1>2 DEF Reached
  <1>4. CASE t > after
    <2>1. WalkStep(r, from, after, k + 1, t) = t
      BY <1>4 DEF WalkStep
    <2>2. Reached(r, from, after, k + 1, t)
      BY <1>1, <1>2, <1>3, <1>4, Zenon DEF Reached
    <2> QED
      BY <2>1, <2>2
  <1>5. CASE ~ (t > after)
    <2>1. PICK next \in Nat : /\ next = NextDay(r, first, day) /\ day < next /\ InRule(r, first, next)
                              /\ \A d \in Nat : day < d /\ d < next => ~ InRule(r, first, d)
      <3>1. OnPath(r, first, day)
        BY <1>3 DEF OnPath
      <3>2. Follows(r, first, day, NextDay(r, first, day))
        BY <3>1, NextDayFollows
      <3> QED
        BY <3>2 DEF Follows
    <2>2. At(next, minute) \in Int /\ LocalDay(At(next, minute)) = next
      BY <1>1, <2>1, OnItsDay
    <2>3. WalkStep(r, from, after, k + 1, t) = At(next, minute)
      BY <1>1, <1>2, <1>5, <2>1 DEF WalkStep
    <2>4. first < next /\ next >= first + (k + 1)
      BY <1>3, <1>5, <2>1
    <2>5. ASSUME NEW d \in Nat, first < d, d < next, At(d, minute) > after
          PROVE  ~ InRule(r, first, d)
      <3>1. CASE d < day
        BY <1>3, <2>5, <3>1
      <3>2. CASE d = day
        BY <1>3, <1>5, <2>5, <3>2
      <3>3. CASE day < d
        BY <2>1, <2>5, <3>3
      <3> QED
        BY <3>1, <3>2, <3>3
    <2> QED
      BY <1>1, <2>1, <2>2, <2>3, <2>4, <2>5 DEF Reached
  <1> QED
    BY <1>4, <1>5

(* What Rule.Next returns, if the loop goes far enough.                    *)
LEMMA RuleNextIs ==
  ASSUME NEW r, IsRule(r), NEW from \in Int, LocalDay(from) \in Nat, NEW after \in Int,
         MaxSteps >= 1, after < 1440 * (LocalDay(from) + MaxSteps) - Standard - 60
  PROVE  IsNext(r, from, after, RuleNext(r, from, after))
  <1>1. PICK walk : /\ RuleNext(r, from, after) = walk[MaxSteps] /\ walk[0] = from
                    /\ \A k \in Nat : k < MaxSteps => walk[k + 1] = WalkStep(r, from, after, k + 1, walk[k])
    BY WalkIs
  <1>2. MaxSteps \in Nat /\ Standard \in Int
    BY ZoneAssumption
  <1> DEFINE S == {k \in Nat : k = 0 \/ Reached(r, from, after, k, walk[k])}
  <1>3. 0 \in S
    OBVIOUS
  <1>4. ASSUME NEW k \in Nat, k < MaxSteps, k \in S
        PROVE  k + 1 \in S
    <2>1. walk[k + 1] = WalkStep(r, from, after, k + 1, walk[k])
      BY <1>1, <1>4
    <2>2. CASE k = 0
      <3>1. k + 1 = 1 /\ walk[k + 1] = WalkStep(r, from, after, 1, from)
        BY <1>1, <2>1, <2>2
      <3>2. Reached(r, from, after, k + 1, walk[k + 1])
        BY <3>1, FirstRound
      <3> QED
        BY <3>2
    <2>3. CASE k # 0
      <3>1. Reached(r, from, after, k, walk[k]) /\ k >= 1
        BY <1>4, <2>3
      <3>2. Reached(r, from, after, k + 1, walk[k + 1])
        BY <2>1, <3>1, NextRound
      <3> QED
        BY <3>2
    <2> QED
      BY <2>2, <2>3
  <1>5. MaxSteps \in S
    <2> HIDE DEF S
    <2> QED
      BY <1>2, <1>3, <1>4, Induction
  <1>6. PICK t : t = RuleNext(r, from, after) /\ Reached(r, from, after, MaxSteps, t)
    BY <1>1, <1>2, <1>5
  <1>7. PICK first \in Nat, minute \in Nat : first = LocalDay(from) /\ minute = LocalMinute(from) /\ minute < 1440
    BY LocalTimeIs
  <1>8. PICK day \in Nat : day = LocalDay(t)
    BY <1>6 DEF Reached
  <1>9. /\ t \in Int /\ first < day /\ t = At(day, minute) /\ InRule(r, first, day)
        /\ \A d \in Nat : first < d /\ d < day /\ At(d, minute) > after => ~ InRule(r, first, d)
        /\ t > after \/ day >= first + MaxSteps
    BY <1>6, <1>7, <1>8 DEF Reached
  <1>10. t > after
    <2> SUFFICES ASSUME day >= first + MaxSteps PROVE t > after
      BY <1>9
    <2>1. t >= Day * day + minute - Standard - 60
      BY <1>7, <1>9, OnItsDay
    <2>2. t >= 1440 * day + minute - Standard - 60
      BY <2>1 DEF Day
    <2>3. after < 1440 * (first + MaxSteps) - Standard - 60
      BY <1>7
    <2> QED
      BY <1>2, <1>9, <2>2, <2>3
  <1>11. \A d \in LocalDay(from) + 1 .. LocalDay(t) - 1 :
           At(d, LocalMinute(from)) > after => ~ InRule(r, LocalDay(from), d)
    <2>1. \A d \in first + 1 .. day - 1 : d \in Nat /\ first < d /\ d < day
      OBVIOUS
    <2> QED
      BY <1>7, <1>8, <1>9, <2>1
  <1>12. /\ t > after /\ t = At(LocalDay(t), LocalMinute(from)) /\ LocalDay(t) > LocalDay(from)
         /\ InRule(r, LocalDay(from), LocalDay(t))
    BY <1>7, <1>8, <1>9, <1>10
  <1>13. IsNext(r, from, after, t)
    BY <1>11, <1>12 DEF IsNext
  <1> QED
    BY <1>6, <1>13

-----------------------------------------------------------------------------
(* What ParseRule accepts is a rule.                                       *)
ReadRules == [freq : {""} \cup Frequencies, interval : Nat \ {0}, byDay : SUBSET {d \in Nat : d < 7}]

(* One part of a rule after the other is read.                             *)
LEMMA ReadPartReads ==
  ASSUME NEW x \in ReadRules, NEW p, GoodPart(p)
  PROVE  ReadPart(x, p) \in ReadRules
  <1>1. CASE p.key = "FREQ"
    <2>1. ReadPart(x, p) = [x EXCEPT !.freq = p.freq] /\ p.freq \in Frequencies
      BY <1>1 DEF ReadPart, GoodPart
    <2> QED
      BY <2>1 DEF ReadRules
  <1>2. CASE p.key = "INTERVAL"
    <2>1. ReadPart(x, p) = [x EXCEPT !.interval = p.n] /\ p.n \in Nat \ {0}
      BY <1>2 DEF ReadPart, GoodPart
    <2> QED
      BY <2>1 DEF ReadRules
  <1>3. CASE p.key # "FREQ" /\ p.key # "INTERVAL"
    <2> DEFINE more == {DayCodes[d] : d \in p.days}
    <2>1. ReadPart(x, p) = [x EXCEPT !.byDay = @ \cup more] /\ p.days \subseteq DOMAIN DayCodes
      BY <1>3 DEF ReadPart, GoodPart
    <2>2. \A d \in DOMAIN DayCodes : DayCodes[d] \in {e \in Nat : e < 7}
      BY DEF DayCodes
    <2>3. more \subseteq {e \in Nat : e < 7}
      BY <2>1, <2>2
    <2> HIDE DEF more
    <2> QED
      BY <2>1, <2>3 DEF ReadRules
  <1> QED
    BY <1>1, <1>2, <1>3

(* ParseRule accepts rules only.                                           *)
LEMMA ParsedIsRule ==
  ASSUME NEW text \in RuleTexts, NEW r \in ParseRule(text)
  PROVE  IsRule(r)
  <1> DEFINE read == CHOOSE f : f = [i \in 0 .. Len(text) |-> IF i = 0 THEN NoRule ELSE ReadPart(f[i - 1], text[i])]
             body(f, i) == IF i = 0 THEN NoRule ELSE ReadPart(f[i - 1], text[i])
             step == [p \in Nat \X ReadRules |-> IF p[1] \in DOMAIN text THEN ReadPart(p[2], text[p[1]]) ELSE p[2]]
  <1>1. ParseRule(text) = {x \in {read[Len(text)]} : /\ \A i \in DOMAIN text : GoodPart(text[i])
                                                     /\ x.freq # ""
                                                     /\ x.byDay # {} => x.freq = "WEEKLY"}
    BY Zenon DEF ParseRule
  <1>2. Len(text) \in Nat /\ DOMAIN text = 1 .. Len(text)
    <2>1. text \in Seq(Range(text))
      BY ReadingsAssumption
    <2> QED
      BY <2>1
  <1> HIDE DEF read
  <1>3. r = read[Len(text)] /\ r.freq # "" /\ \A i \in DOMAIN text : GoodPart(text[i])
    BY <1>1
  <1>4. NoRule \in ReadRules
    BY DEF NoRule, ReadRules
  <1>5. \A i \in Nat : \A x \in ReadRules :
          step[<<i, x>>] = IF i \in DOMAIN text THEN ReadPart(x, text[i]) ELSE x
    <2> HIDE DEF read
    <2> QED
      OBVIOUS
  <1> HIDE DEF step
  <1>6. IsStep(step, ReadRules)
    <2> SUFFICES ASSUME NEW x \in ReadRules, NEW i \in Nat PROVE step[<<i, x>>] \in ReadRules
      BY DEF IsStep
    <2>1. CASE i \in DOMAIN text
      BY <1>3, <1>5, <2>1, ReadPartReads
    <2>2. CASE i \notin DOMAIN text
      BY <1>5, <2>2
    <2> QED
      BY <2>1, <2>2
  <1>7. PICK f : Chain(f, NoRule, Len(text), step, ReadRules)
    BY <1>2, <1>4, <1>6, StepsExist, Zenon
  <1> DEFINE g == [i \in 0 .. Len(text) |-> f[i]]
  <1>8. (\A i \in 0 .. Len(text) : g[i] = f[i]) /\ g = [i \in 0 .. Len(text) |-> g[i]]
    OBVIOUS
  <1> HIDE DEF g
  <1>9. ASSUME NEW i \in 0 .. Len(text) PROVE g[i] = body(g, i)
    <2>1. CASE i = 0
      BY <1>7, <1>8, <1>9, <2>1 DEF Chain
    <2>2. CASE i # 0
      <3>1. PICK j \in Nat : j = i - 1 /\ i = j + 1 /\ j < Len(text) /\ j <= Len(text) /\ j \in 0 .. Len(text)
        <4>1. i - 1 \in Nat /\ i = (i - 1) + 1 /\ i - 1 < Len(text) /\ i - 1 <= Len(text) /\ i - 1 \in 0 .. Len(text)
          BY <1>2, <1>9, <2>2
        <4> QED
          BY <4>1
      <3>2. f[j + 1] = step[<<j + 1, f[j]>>] /\ f[j] \in ReadRules /\ j + 1 \in Nat
        BY <1>7, <3>1 DEF Chain
      <3>3. i \in DOMAIN text
        BY <1>2, <1>9, <2>2
      <3>4. f[i] = ReadPart(f[j], text[i])
        BY <1>5, <3>1, <3>2, <3>3
      <3>5. g[i - 1] = f[j] /\ g[i] = f[i]
        BY <1>8, <3>1
      <3> QED
        BY <2>2, <3>4, <3>5
    <2> QED
      BY <2>1, <2>2
  <1>10. g = [i \in 0 .. Len(text) |-> body(g, i)]
    <2>1. [i \in 0 .. Len(text) |-> g[i]] = [i \in 0 .. Len(text) |-> body(g, i)]
      BY <1>9
    <2> QED
      BY <1>8, <2>1
  <1>11. read = [i \in 0 .. Len(text) |-> body(read, i)]
    <2>1. \E h : h = [i \in 0 .. Len(text) |-> body(h, i)]
      BY <1>10
    <2>2. read = CHOOSE h : h = [i \in 0 .. Len(text) |-> body(h, i)]
      BY Zenon DEF read
    <2> HIDE DEF body
    <2> QED
      BY <2>1, <2>2, Zenon
  <1>12. \A i \in 0 .. Len(text) : read[i] = body(read, i)
    <2> DEFINE h == [i \in 0 .. Len(text) |-> body(read, i)]
    <2> HIDE DEF body
    <2>1. \A i \in 0 .. Len(text) : h[i] = body(read, i)
      OBVIOUS
    <2>2. read = h
      BY <1>11
    <2> HIDE DEF h
    <2> QED
      BY <2>1, <2>2, Zenon
  <1> DEFINE S == {i \in Nat : i <= Len(text) => read[i] \in ReadRules}
  <1>13. 0 \in S
    <2>1. 0 \in 0 .. Len(text)
      BY <1>2
    <2> QED
      BY <1>4, <1>12, <2>1
  <1>14. ASSUME NEW i \in Nat, i < Len(text), i \in S
         PROVE  i + 1 \in S
    <2>1. i + 1 \in 0 .. Len(text) /\ i + 1 \in DOMAIN text /\ i + 1 # 0 /\ (i + 1) - 1 = i /\ i <= Len(text)
      BY <1>2, <1>14
    <2>2. read[i + 1] = ReadPart(read[i], text[i + 1]) /\ read[i] \in ReadRules
      BY <1>12, <1>14, <2>1
    <2>3. read[i + 1] \in ReadRules
      BY <1>3, <2>1, <2>2, ReadPartReads
    <2> QED
      BY <2>3
  <1>15. Len(text) \in S
    <2> HIDE DEF S
    <2> QED
      BY <1>2, <1>13, <1>14, Induction
  <1>16. r \in ReadRules
    <2>1. Len(text) <= Len(text) => read[Len(text)] \in ReadRules
      BY <1>15, Zenon
    <2>2. Len(text) <= Len(text)
      BY <1>2
    <2> QED
      BY <1>3, <2>1, <2>2
  <1> QED
    BY <1>3, <1>16 DEF ReadRules, IsRule

-----------------------------------------------------------------------------
(* A step leaves the times of a row as they are or sets a later one.       *)
Kept(x, y, t) == (y.due = x.due /\ y.every = x.every) \/ y.due > t

(* Changing one row that way keeps the others.                             *)
LEMMA OneRowKept ==
  ASSUME Inv, NEW r \in Reminders, NEW y, row' = [row EXCEPT ![r] = y], Kept(row[r], y, now)
  PROVE  \A q \in Reminders : Kept(row[q], row'[q], now)
  <1>1. DOMAIN row = Reminders
    BY DEF Inv, TableOK
  <1>2. row'[r] = y /\ \A q \in Reminders : q # r => row'[q] = row[q]
    BY <1>1
  <1> QED
    BY <1>2 DEF Kept

(* The user's calls on a reminder.                                         *)
LEMMA OnReminderKept ==
  ASSUME Inv, NEW r \in Reminders, OnReminder(r)
  PROVE  \A q \in Reminders : Kept(row[q], row'[q], now)
  <1>1. row[r] \in Rows /\ now \in Nat /\ MaxDue \in Nat /\ Periods \subseteq Nat
    BY TimesAssumption DEF Inv, RowsOK, RowOK, SettingsOK
  <1>2. ASSUME NEW n \in Notes, NEW due \in 1 .. MaxDue, NEW every \in Periods, Create(r, n, due, every)
        PROVE  \A q \in Reminders : Kept(row[q], row'[q], now)
    <2> DEFINE y == [state |-> "pending", due |-> due, every |-> every, claimed |-> 0, fired |-> 0, note |-> n]
    <2>1. row' = [row EXCEPT ![r] = y] /\ y.due > now
      BY <1>2 DEF Create
    <2> HIDE DEF y
    <2> QED
      BY <2>1, OneRowKept DEF Kept
  <1>3. ASSUME NEW due \in 1 .. MaxDue, NEW every \in Periods, Update(r, due, every)
        PROVE  \A q \in Reminders : Kept(row[q], row'[q], now)
    <2> DEFINE y == [Armed(row[r], due) EXCEPT !.every = every]
    <2>1. row' = [row EXCEPT ![r] = y] /\ due > now /\ due \in Nat
      BY <1>1, <1>3 DEF Update
    <2>2. Armed(row[r], due) \in Rows /\ Armed(row[r], due).due = due
      BY <1>1, <2>1, ArmedRow
    <2>3. y.due = due
      BY <2>2 DEF Rows
    <2> HIDE DEF y
    <2> QED
      BY <2>1, <2>3, OneRowKept DEF Kept
  <1>4. ASSUME NEW until \in 1 .. MaxDue, Snooze(r, until)
        PROVE  \A q \in Reminders : Kept(row[q], row'[q], now)
    <2> DEFINE y == Armed(row[r], until)
    <2>1. row' = [row EXCEPT ![r] = y] /\ until > now /\ until \in Nat
      BY <1>1, <1>4 DEF Snooze
    <2>2. y.due = until
      BY <1>1, <2>1, ArmedRow
    <2> HIDE DEF y
    <2> QED
      BY <2>1, <2>2, OneRowKept DEF Kept
  <1>5. CASE Delete(r)
    <2> DEFINE y == [row[r] EXCEPT !.state = "removed", !.claimed = 0]
    <2>1. row' = [row EXCEPT ![r] = y]
      BY <1>5 DEF Delete
    <2>2. y.due = row[r].due /\ y.every = row[r].every
      BY <1>1 DEF Rows
    <2> HIDE DEF y
    <2> QED
      BY <2>1, <2>2, OneRowKept DEF Kept
  <1>6. CASE DoneIn(r)
    <2> DEFINE y == IF Recurs(r) THEN Armed(row[r], NextOccurrence(row[r].due, row[r].every, now))
                    ELSE [row[r] EXCEPT !.state = "done", !.claimed = 0]
    <2>1. row' = [row EXCEPT ![r] = y]
      BY <1>6 DEF DoneIn, Recurs
    <2>2. Kept(row[r], y, now)
      <3>1. CASE Recurs(r)
        <4>1. NextOccurrence(row[r].due, row[r].every, now) \in Nat /\ NextOccurrence(row[r].due, row[r].every, now) > now
          BY <1>1, <3>1, NextIsLater DEF Recurs, Rows
        <4>2. y.due > now
          BY <1>1, <3>1, <4>1, ArmedRow
        <4> QED
          BY <4>2 DEF Kept
      <3>2. CASE ~ Recurs(r)
        <4>1. y.due = row[r].due /\ y.every = row[r].every
          BY <1>1, <3>2 DEF Rows
        <4> QED
          BY <4>1 DEF Kept
      <3> QED
        BY <3>1, <3>2
    <2> HIDE DEF y
    <2> QED
      BY <2>1, <2>2, OneRowKept
  <1>7. CASE row' = row
    BY <1>7 DEF Kept
  <1> QED
    BY <1>2, <1>3, <1>4, <1>5, <1>6, <1>7 DEF OnReminder, Done, ReplyDone

(* The user's calls on a note.                                             *)
LEMMA OnOneNoteKept ==
  ASSUME Inv, NEW n \in Notes, OnOneNote(n)
  PROVE  \A q \in Reminders : Kept(row[q], row'[q], now)
  <1>1. now \in Nat /\ \A r \in Reminders : row[r] \in Rows
    BY DEF Inv, RowsOK, RowOK, SettingsOK
  <1> SUFFICES ASSUME NEW r \in Reminders PROVE Kept(row[r], row'[r], now)
    OBVIOUS
  <1>2. CASE Restore(n)
    <2>1. row'[r] = Restored(row[r]) \/ row'[r] = row[r]
      BY <1>2 DEF Restore
    <2>2. Kept(row[r], Restored(row[r]), now)
      <3>1. CASE row[r].due <= now /\ row[r].every > 0
        <4>1. NextOccurrence(row[r].due, row[r].every, now) > now
          BY <1>1, <3>1, NextIsLater DEF Rows
        <4>2. Restored(row[r]).due > now
          BY <1>1, <3>1, <4>1 DEF Restored, Rows
        <4> QED
          BY <4>2 DEF Kept
      <3>2. CASE ~ (row[r].due <= now /\ row[r].every > 0)
        <4>1. Restored(row[r]).due = row[r].due /\ Restored(row[r]).every = row[r].every
          BY <1>1, <3>2 DEF Restored, Rows
        <4> QED
          BY <4>1 DEF Kept
      <3> QED
        BY <3>1, <3>2
    <2> QED
      BY <2>1, <2>2 DEF Kept
  <1>3. ASSUME \/ row'[r] = row[r] \/ row'[r] = [row[r] EXCEPT !.state = "suspended", !.claimed = 0]
               \/ row'[r] = [row[r] EXCEPT !.state = "removed", !.claimed = 0] \/ row'[r] = [row[r] EXCEPT !.note = n]
        PROVE  Kept(row[r], row'[r], now)
    <2>1. row'[r].due = row[r].due /\ row'[r].every = row[r].every
      BY <1>1, <1>3 DEF Rows
    <2> QED
      BY <2>1 DEF Kept
  <1>4. CASE Dismiss(n)
    BY <1>3, <1>4 DEF Dismiss
  <1>5. CASE DeletePermanently(n)
    BY <1>3, <1>5 DEF DeletePermanently
  <1>6. CASE \E m \in Notes : Merge(n, m)
    BY <1>3, <1>6 DEF Merge
  <1> QED
    BY <1>2, <1>4, <1>5, <1>6 DEF OnOneNote

(* The job.                                                                *)
LEMMA FireDueKept ==
  ASSUME Inv, NEW w \in Workers, FireDue(w)
  PROVE  \A q \in Reminders : Kept(row[q], row'[q], now)
  <1>1. now \in Nat /\ \A r \in Reminders : row[r] \in Rows
    BY DEF Inv, RowsOK, RowOK, SettingsOK
  <1>2. ASSUME NEW S \in SUBSET Reminders, Claim(w, S), NEW r \in Reminders
        PROVE  Kept(row[r], row'[r], now)
    <2>1. row'[r] = row[r] \/ row'[r] = [row[r] EXCEPT !.claimed = now + Lease]
      BY <1>2 DEF Claim, Reserve
    <2>2. row'[r].due = row[r].due /\ row'[r].every = row[r].every
      BY <1>1, <2>1 DEF Rows
    <2> QED
      BY <2>2 DEF Kept
  <1>3. ASSUME NEW r \in Reminders, FireOne(w, r)
        PROVE  \A q \in Reminders : Kept(row[q], row'[q], now)
    <2> DEFINE y == Fired(row[r])
    <2>1. row' = [row EXCEPT ![r] = y] \/ row' = row
      BY <1>3 DEF FireOne
    <2>2. Kept(row[r], y, now)
      <3>1. CASE row[r].every > 0
        <4>1. NextOccurrence(row[r].due, row[r].every, now) > now
          BY <1>1, <3>1, NextIsLater DEF Rows
        <4>2. y.due > now
          BY <1>1, <3>1, <4>1 DEF Fired, Rows
        <4> QED
          BY <4>2 DEF Kept
      <3>2. CASE ~ (row[r].every > 0)
        <4>1. y.due = row[r].due /\ y.every = row[r].every
          BY <1>1, <3>2 DEF Fired, Rows
        <4> QED
          BY <4>1 DEF Kept
      <3> QED
        BY <3>1, <3>2
    <2> HIDE DEF y
    <2> QED
      BY <2>1, <2>2, OneRowKept DEF Kept
  <1>4. CASE Defer(w)
    <2> DEFINE r == failing[w]
    <2> DEFINE y == [row[r] EXCEPT !.claimed = at[w] + FailureBackoff]
    <2>1. r \in Reminders /\ (row' = row \/ row' = [row EXCEPT ![r] = y])
      BY <1>4 DEF Defer, Inv, WorkersOK
    <2> HIDE DEF r
    <2>2. y.due = row[r].due /\ y.every = row[r].every
      BY <1>1, <2>1 DEF Rows
    <2> HIDE DEF y
    <2> QED
      BY <2>1, <2>2, OneRowKept DEF Kept
  <1> QED
    BY <1>2, <1>3, <1>4 DEF FireDue

(* What recurs has an occurrence, and the clock is between its bounds.     *)
DatesInv == now \in 1 .. MaxTime /\ \A r \in Reminders : row[r].every > 0 => row[r].due > 0

(* A step leaves every recurring row with an occurrence.                   *)
LEMMA DatesKeep ==
  ASSUME Inv, DatesInv, [Next]_vars
  PROVE  DatesInv'
  <1>1. now \in Nat /\ MaxTime \in Nat /\ \A r \in Reminders : row[r].due \in Nat
    BY TimesAssumption DEF Inv, SettingsOK, RowsOK, RowOK, Rows
  <1>2. ASSUME now' \in 1 .. MaxTime, \A r \in Reminders : Kept(row[r], row'[r], now) PROVE DatesInv'
    <2>1. Inv'
      BY NextKeeps
    <2>2. \A r \in Reminders : row'[r].due \in Nat
      BY <2>1 DEF Inv, RowsOK, RowOK, Rows
    <2> QED
      BY <1>1, <1>2, <2>2 DEF DatesInv, Kept
  <1>3. ASSUME row' = row, now' = now PROVE DatesInv'
    BY <1>3 DEF DatesInv
  <1>4. ASSUME NEW r \in Reminders, OnReminder(r) PROVE DatesInv'
    <2>1. now' = now
      BY <1>4 DEF OnReminder, Create, Update, Snooze, Delete, Done, ReplyDone, OneReminder
    <2> QED
      BY <1>2, <1>4, <2>1, OnReminderKept DEF DatesInv
  <1>5. ASSUME NEW n \in Notes, OnOneNote(n) PROVE DatesInv'
    <2>1. now' = now
      BY <1>5 DEF OnOneNote, Dismiss, Restore, DeletePermanently, Merge
    <2> QED
      BY <1>2, <1>5, <2>1, OnOneNoteKept DEF DatesInv
  <1>6. ASSUME NEW w \in Workers, FireDue(w) PROVE DatesInv'
    <2>1. now' = now
      BY <1>6 DEF FireDue, Claim, Reserve, FireOne, Defer
    <2> QED
      BY <1>2, <1>6, <2>1, FireDueKept DEF DatesInv
  <1>7. CASE Tick
    <2>1. now' \in 1 .. MaxTime /\ row' = row
      BY <1>1, <1>7 DEF Tick, DatesInv
    <2> QED
      BY <2>1 DEF DatesInv
  <1>8. CASE \/ SetStatus \/ SetReminderTarget
             \/ \E w \in Workers : Crash(w) \/ \E r \in Reminders : FireFails(w, r)
             \/ \E r \in Reminders : \E d \in queued[r], delivered \in BOOLEAN : LeaveOutbox(r, d, delivered)
    BY <1>3, <1>8 DEF SetStatus, SetReminderTarget, Crash, FireFails, LeaveOutbox
  <1>9. CASE UNCHANGED vars
    BY <1>3, <1>9 DEF vars
  <1> QED
    BY <1>4, <1>5, <1>6, <1>7, <1>8, <1>9 DEF Next

(* On the days of a reading, the present is within the loop's reach.       *)
LEMMA WithinReach ==
  ASSUME NEW start \in Nat, NEW a \in Nat, NEW b \in Nat, NEW m \in Nat, b <= m,
         NEW minute \in Nat, minute < 1440, NEW past \in Nat,
         (m + 2) * 1440 + past <= MaxSteps * 1440
  PROVE  /\ At(start + a, minute) \in Int /\ At(start + b, minute) + past \in Int
         /\ LocalDay(At(start + a, minute)) \in Nat /\ MaxSteps >= 1
         /\ At(start + b, minute) + past
               < 1440 * (LocalDay(At(start + a, minute)) + MaxSteps) - Standard - 60
  <1>1. MaxSteps \in Nat /\ Standard \in Int
    BY ZoneAssumption
  <1>2. PICK first \in Int : first = start + a
    OBVIOUS
  <1>3. PICK last \in Int : last = start + b
    OBVIOUS
  <1>4. At(first, minute) \in Int /\ LocalDay(At(first, minute)) = first
    BY OnItsDay
  <1>5. At(last, minute) \in Int /\ At(last, minute) <= Day * last + minute - Standard
    BY OnItsDay
  <1>6. PICK t \in Int : t = At(last, minute)
    BY <1>5
  <1>7. t <= 1440 * last + minute - Standard
    BY <1>5, <1>6 DEF Day
  <1>8. first \in Nat /\ MaxSteps >= 1
    BY <1>1, <1>2
  <1>9. t + past < 1440 * (first + MaxSteps) - Standard - 60
    BY <1>1, <1>2, <1>3, <1>7
  <1>10. t + past \in Int
    OBVIOUS
  <1> QED
    BY <1>2, <1>3, <1>4, <1>6, <1>8, <1>9, <1>10

(* What the readings are assumed to be, one field at a time.               *)
LEMMA ReadingIs ==
  ASSUME NEW c \in Readings
  PROVE  \E start \in Nat, stride \in Nat, minute \in Nat, past \in Nat :
           /\ c.start = start /\ c.stride = stride /\ c.minute = minute /\ c.past = past
           /\ minute < 1440 /\ (stride * MaxTime + 2) * 1440 + past <= MaxSteps * 1440
  <1>1. /\ c.start \in Nat /\ c.stride \in Nat /\ c.minute \in 0 .. Day - 1 /\ c.past \in Nat
        /\ (c.stride * MaxTime + 2) * Day + c.past <= MaxSteps * Day
    BY ReadingsAssumption
  <1>2. PICK start, stride, minute, past : c.start = start /\ c.stride = stride /\ c.minute = minute /\ c.past = past
    OBVIOUS
  <1>3. start \in Nat /\ stride \in Nat /\ minute \in 0 .. Day - 1 /\ past \in Nat
    BY <1>1, <1>2
  <1>4. (stride * MaxTime + 2) * Day + past <= MaxSteps * Day
    BY <1>1, <1>2
  <1>5. (stride * MaxTime + 2) * 1440 + past <= MaxSteps * 1440
    BY <1>4 DEF Day
  <1>6. minute \in Nat /\ minute < 1440
    BY <1>3 DEF Day
  <1> QED
    BY <1>2, <1>3, <1>5, <1>6

(* Whenever the next occurrence is asked for, the loop reaches it.         *)
LEMMA RulesAreFollowed ==
  ASSUME NEW due \in Nat, NEW tick \in Nat, tick <= MaxTime
  PROVE  RuleIsFollowed(due, tick)
  <1> SUFFICES ASSUME NEW c \in Readings, NEW text \in RuleTexts, NEW r \in ParseRule(text)
               PROVE  IsNext(r, Occurrence(c, due), Moment(c, tick),
                             RuleNext(r, Occurrence(c, due), Moment(c, tick)))
    BY DEF RuleIsFollowed
  <1>1. IsRule(r)
    BY ParsedIsRule
  <1>2. PICK start \in Nat, stride \in Nat, minute \in Nat, past \in Nat :
          /\ c.start = start /\ c.stride = stride /\ c.minute = minute /\ c.past = past
          /\ minute < 1440 /\ (stride * MaxTime + 2) * 1440 + past <= MaxSteps * 1440
    BY ReadingIs
  <1>3. MaxTime \in Nat
    BY TimesAssumption
  <1>4. stride * due \in Nat
    BY ProductGrows
  <1>5. stride * tick \in Nat /\ stride * MaxTime \in Nat /\ stride * tick <= stride * MaxTime
    BY <1>3, ProductGrows
  <1>6. PICK a : a = stride * due
    OBVIOUS
  <1>7. PICK b : b = stride * tick
    OBVIOUS
  <1>8. PICK m : m = stride * MaxTime
    OBVIOUS
  <1>9. a \in Nat /\ b \in Nat /\ m \in Nat /\ b <= m
    BY <1>4, <1>5, <1>6, <1>7, <1>8
  <1>10. (m + 2) * 1440 + past <= MaxSteps * 1440
    BY <1>2, <1>8
  <1>11. PICK from, after : from = At(start + a, minute) /\ after = At(start + b, minute) + past
    OBVIOUS
  <1>12. /\ from \in Int /\ after \in Int /\ LocalDay(from) \in Nat /\ MaxSteps >= 1
         /\ after < 1440 * (LocalDay(from) + MaxSteps) - Standard - 60
    BY <1>2, <1>9, <1>10, <1>11, WithinReach
  <1>13. Occurrence(c, due) = from
    BY <1>2, <1>6, <1>11 DEF Occurrence
  <1>14. Moment(c, tick) = after
    BY <1>2, <1>7, <1>11 DEF Moment, Occurrence
  <1>15. IsNext(r, from, after, RuleNext(r, from, after))
    BY <1>1, <1>12, RuleNextIs
  <1> QED
    BY <1>13, <1>14, <1>15

(* The next occurrence of a recurring reminder is on a day of its rule, at *)
(* the time of day of the one before, after the present, and none that     *)
(* could still be kept is left out: for every rule that ParseRule accepts, *)
(* in every zone whose clocks change at some distance from midnight, as    *)
(* long as the loop of Rule.Next may go on for as many days as passed.     *)
THEOREM OccurrencesKeepTheirTime == Spec => []RecurrenceKeepsItsTime
  <1>1. Init => DatesInv
    BY TimesAssumption DEF Init, DatesInv
  <1>2. Inv /\ DatesInv /\ [Next]_vars => DatesInv'
    BY DatesKeep
  <1>3. Inv /\ DatesInv => RecurrenceKeepsItsTime
    <2> SUFFICES ASSUME Inv, DatesInv, NEW r \in Reminders, Recurs(r), row[r].due <= MaxTime + MaxDue
                 PROVE  <<row[r].due, now>> \in Followed
      BY DEF RecurrenceKeepsItsTime
    <2>1. row[r].due \in 1 .. MaxTime + MaxDue /\ now \in 1 .. MaxTime /\ row[r].due \in Nat /\ now \in Nat
          /\ now <= MaxTime
      BY TimesAssumption DEF DatesInv, Inv, RowsOK, RowOK, Rows, Recurs
    <2>2. RuleIsFollowed(row[r].due, now)
      BY <2>1, RulesAreFollowed
    <2> QED
      BY <2>1, <2>2 DEF Followed
  <1> QED
    BY <1>1, <1>2, <1>3, AlwaysInv, PTL DEF Spec
=============================================================================
