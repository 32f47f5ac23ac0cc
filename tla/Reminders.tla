----------------------------- MODULE Reminders -----------------------------
(***************************************************************************)
(* The reminders of one user (core/internal/reminders,                     *)
(* store/queries/reminders.sql) and what happens to the notes they are on  *)
(* (core/internal/notes).                                                  *)
(*                                                                         *)
(* Every call of the user runs in a transaction that locks the user's row, *)
(* so each is one action.  The job FireDue runs on every Core replica and  *)
(* does not hold that lock while it claims: it reserves due reminders in   *)
(* one transaction, fires each in a transaction of its own and sets a      *)
(* reminder aside in a third one when firing failed.  In between the user  *)
(* changes reminders, other replicas claim them and replicas stop.         *)
(***************************************************************************)
EXTENDS Integers, FiniteSets

CONSTANTS
  Reminders,       \* identifiers of reminders
  Notes,
  Workers,         \* runs of the job, on any replica
  None,
  Periods,         \* the recurrences a user picks; 0 stands for none
  Lease,           \* how long a claim is reserved
  FailureBackoff,  \* how long a reminder is set aside
  ClaimLimit,      \* the most reminders one claim returns
  MaxPerNote,
  MaxPerUser,
  SnoozedNotes,    \* bound: the states of the notes whose reminders the user snoozes
  MaxTime,         \* bound: the clock stops here
  MaxDue,          \* bound: the latest time a user picks
  QuietAfter,      \* bound: users do nothing and nothing fails after this time
  MaxActs,         \* bound: calls of users in one behaviour
  MaxFailures      \* bound: failures in one behaviour

ASSUME TimesAssumption ==
  /\ Periods \subseteq Nat
  /\ Lease \in Nat /\ FailureBackoff \in Nat /\ ClaimLimit \in Nat
  /\ MaxPerNote \in Nat /\ MaxPerUser \in Nat
  /\ MaxTime \in Nat \ {0} /\ MaxDue \in Nat /\ QuietAfter \in Nat
  /\ MaxActs \in Nat /\ MaxFailures \in Nat

ASSUME NoneAssumption == None \notin Reminders /\ None \notin Notes

VARIABLES
  now,         \* the clock, shared by the replicas
  active,      \* whether users.status is active
  note,        \* notes.state: "active", "deleted" (in the Trash) or "gone"
  row,         \* the reminders: state, due, every, claimed, fired, note
  queued,      \* the occurrences of a reminder that wait in the outbox
  inChat,      \* the latest occurrence whose message is in the chat, 0 for none
  target,      \* whether the user's chat receives reminders
  notices,     \* how many in-app notifications name the reminder
  batch,       \* per worker: the claimed reminders it has not handled
  at,          \* per worker: when its run began
  failing,     \* per worker: the reminder it has to set aside
  back,        \* history: when the note of a reminder was last restored
  failedDue,   \* history: the occurrence whose firing failed last
  answered,    \* history: the occurrence whose message was last answered with done
  acts,        \* bound
  failures     \* bound

userVars == <<active, note, target>>
workerVars == <<batch, at, failing>>
history == <<back, failedDue, answered>>
vars == <<now, userVars, row, queued, inChat, notices, workerVars, history, acts, failures>>

States == {"none", "pending", "fired", "suspended", "done", "cancelled", "removed"}
Exists(r) == row[r].state \notin {"none", "removed"}

Rows == [state: States, due: Nat, every: Nat, claimed: Nat, fired: Nat, note: Notes \cup {None}]

(* A reminder that exists is on a note that exists (the foreign key).      *)
TypeOK ==
  /\ now \in Nat
  /\ active \in BOOLEAN /\ target \in BOOLEAN
  /\ note \in [Notes -> {"active", "deleted", "gone"}]
  /\ row \in [Reminders -> Rows]
  /\ \A r \in Reminders : Exists(r) => row[r].note \in Notes /\ note[row[r].note] # "gone"
  /\ queued \in [Reminders -> SUBSET Nat]
  /\ inChat \in [Reminders -> Nat]
  /\ notices \in [Reminders -> Nat]
  /\ batch \in [Workers -> SUBSET Reminders]
  /\ at \in [Workers -> Nat]
  /\ failing \in [Workers -> Reminders \cup {None}]
  /\ back \in [Reminders -> Nat]
  /\ failedDue \in [Reminders -> Nat]
  /\ answered \in [Reminders -> Nat]
  /\ acts \in Nat /\ failures \in Nat

Init ==
  /\ now = 1
  /\ active = TRUE /\ target = TRUE
  /\ note = [n \in Notes |-> "active"]
  /\ row = [r \in Reminders |->
       [state |-> "none", due |-> 0, every |-> 0, claimed |-> 0, fired |-> 0, note |-> None]]
  /\ queued = [r \in Reminders |-> {}]
  /\ inChat = [r \in Reminders |-> 0]
  /\ notices = [r \in Reminders |-> 0]
  /\ batch = [w \in Workers |-> {}]
  /\ at = [w \in Workers |-> 0]
  /\ failing = [w \in Workers |-> None]
  /\ back = [r \in Reminders |-> 0]
  /\ failedDue = [r \in Reminders |-> 0]
  /\ answered = [r \in Reminders |-> 0]
  /\ acts = 0 /\ failures = 0

-----------------------------------------------------------------------------
(* Rule.Next: the first occurrence after the time t, counting from d.      *)
NextOccurrence(d, p, t) == d + p * (IF t < d THEN 1 ELSE (t - d) \div p + 1)

Recurs(r) == row[r].every > 0

(* A row is armed for a time, and any claim on it is dropped.              *)
Armed(x, due) == [x EXCEPT !.state = "pending", !.due = due, !.claimed = 0]

NoteOf(r) == row[r].note
OnNote(n) == {r \in Reminders : Exists(r) /\ NoteOf(r) = n}
NoteState(r) == IF Exists(r) THEN note[NoteOf(r)] ELSE "gone"

UserActs == now <= QuietAfter /\ acts < MaxActs /\ acts' = acts + 1

(* What every call on a single reminder leaves alone.                      *)
OneReminder == UNCHANGED <<now, userVars, inChat, notices, workerVars, back, failedDue, failures>>

Create(r, n, due, every) ==
  /\ UserActs
  /\ row[r].state = "none"
  /\ due > now
  /\ note[n] = "active"
  /\ Cardinality(OnNote(n)) < MaxPerNote
  /\ Cardinality({x \in Reminders : row[x].state \in {"pending", "suspended"}}) < MaxPerUser
  /\ row' = [row EXCEPT ![r] =
       [state |-> "pending", due |-> due, every |-> every, claimed |-> 0, fired |-> 0, note |-> n]]
  /\ OneReminder /\ UNCHANGED <<queued, answered>>

(* A new time, a new recurrence or both; the old ones are values too.      *)
Update(r, due, every) ==
  /\ UserActs
  /\ Exists(r)
  /\ due > now
  /\ NoteState(r) = "active"
  /\ row' = [row EXCEPT ![r] = [Armed(@, due) EXCEPT !.every = every]]
  /\ OneReminder /\ UNCHANGED <<queued, answered>>

(* The state of the note is not asked for.                                 *)
Snooze(r, until) ==
  /\ UserActs
  /\ until > now
  /\ row[r].state \in {"pending", "fired", "done"}
  /\ NoteState(r) \in SnoozedNotes
  /\ row' = [row EXCEPT ![r] = Armed(@, until)]
  /\ OneReminder /\ UNCHANGED <<queued, answered>>

(* Mutant: what waits for the chat is forgotten. *)
CancelQueued_not(S) == UNCHANGED queued

(* cancelQueued, and the cancellation of a note's or a chat's messages.    *)
CancelQueued(S) == queued' = [r \in Reminders |-> IF r \in S THEN {} ELSE queued[r]]

Delete(r) ==
  /\ UserActs
  /\ Exists(r)
  /\ row' = [row EXCEPT ![r].state = "removed", ![r].claimed = 0]
  /\ CancelQueued({r})
  /\ OneReminder /\ UNCHANGED answered

(* DoneIn: a recurring reminder skips to its next occurrence, another one  *)
(* ends.  On a state it does not apply to, the transaction rolls back.     *)
DoneIn(r) ==
  /\ row[r].state \in {"pending", "fired"}
  /\ row' = [row EXCEPT ![r] =
       IF Recurs(r) THEN Armed(@, NextOccurrence(@.due, @.every, now))
                    ELSE [@ EXCEPT !.state = "done", !.claimed = 0]]
  /\ CancelQueued({r})

Done(r) ==
  /\ UserActs
  /\ DoneIn(r)
  /\ OneReminder /\ UNCHANGED answered

(* The chat command done, as a reply to the reminder's message.  When done *)
(* does not apply, the refusal is a reply and the cancellation commits.    *)
ReplyDone(r) ==
  /\ UserActs
  /\ inChat[r] > 0
  /\ \/ /\ DoneIn(r)
        /\ answered' = [answered EXCEPT ![r] = inChat[r]]
     \/ /\ Exists(r) /\ row[r].state \notin {"pending", "fired"}
        /\ CancelQueued({r})
        /\ UNCHANGED <<row, answered>>
  /\ OneReminder

-----------------------------------------------------------------------------
(* What happens to the notes.                                              *)

Dismiss(n) ==
  /\ UserActs
  /\ note[n] = "active"
  /\ note' = [note EXCEPT ![n] = "deleted"]
  /\ row' = [r \in Reminders |->
       IF r \in OnNote(n) /\ row[r].state = "pending"
       THEN [row[r] EXCEPT !.state = "suspended", !.claimed = 0] ELSE row[r]]
  /\ UNCHANGED <<now, active, target, queued, inChat, notices, workerVars, history, failures>>

(* Mutant: a reminder that came due in the Trash is armed again as it is. *)
Restored_asItWas(x) == [x EXCEPT !.state = "pending"]

(* What OnRestore makes of a suspended reminder.                           *)
Restored(x) ==
  IF x.due > now THEN [x EXCEPT !.state = "pending"]
  ELSE IF x.every > 0
       THEN [x EXCEPT !.state = "pending", !.due = NextOccurrence(x.due, x.every, now)]
       ELSE [x EXCEPT !.state = "cancelled"]

Restore(n) ==
  /\ UserActs
  /\ note[n] = "deleted"
  /\ note' = [note EXCEPT ![n] = "active"]
  /\ row' = [r \in Reminders |->
       IF r \in OnNote(n) /\ row[r].state = "suspended" THEN Restored(row[r]) ELSE row[r]]
  /\ back' = [r \in Reminders |-> IF r \in OnNote(n) THEN now ELSE back[r]]
  /\ UNCHANGED <<now, active, target, queued, inChat, notices, workerVars, failedDue, answered, failures>>

(* The reminders go with the note.                                         *)
DeletePermanently(n) ==
  /\ UserActs
  /\ note[n] = "deleted"
  /\ note' = [note EXCEPT ![n] = "gone"]
  /\ row' = [r \in Reminders |->
       IF r \in OnNote(n) THEN [row[r] EXCEPT !.state = "removed", !.claimed = 0] ELSE row[r]]
  /\ CancelQueued(OnNote(n))
  /\ UNCHANGED <<now, active, target, inChat, notices, workerVars, history, failures>>

(* Mutant: a note in the Trash can be merged into another one. *)
Merge_anyState(n, m) ==
  /\ UserActs
  /\ n # m /\ note[n] = "active" /\ note[m] # "gone"
  /\ note' = [note EXCEPT ![m] = "gone"]
  /\ row' = [r \in Reminders |-> IF r \in OnNote(m) THEN [row[r] EXCEPT !.note = n] ELSE row[r]]
  /\ UNCHANGED <<now, active, target, queued, inChat, notices, workerVars, history, failures>>

(* The reminders of m move to n, whatever the limit per note says.         *)
Merge(n, m) ==
  /\ UserActs
  /\ n # m /\ note[n] = "active" /\ note[m] = "active"
  /\ note' = [note EXCEPT ![m] = "gone"]
  /\ row' = [r \in Reminders |-> IF r \in OnNote(m) THEN [row[r] EXCEPT !.note = n] ELSE row[r]]
  /\ UNCHANGED <<now, active, target, queued, inChat, notices, workerVars, history, failures>>

SetStatus ==
  /\ UserActs
  /\ active' = ~ active
  /\ UNCHANGED <<now, note, target, row, queued, inChat, notices, workerVars, history, failures>>

(* SetReminderTarget; unlinking the chat cancels in the same way.          *)
SetReminderTarget ==
  /\ UserActs
  /\ target' = ~ target
  /\ CancelQueued(IF target THEN Reminders ELSE {})
  /\ UNCHANGED <<now, active, note, row, inChat, notices, workerVars, history, failures>>

-----------------------------------------------------------------------------
(* The job.                                                                *)

Idle(w) == batch[w] = {} /\ failing[w] = None

Reserve(w, S) ==
  /\ row' = [r \in Reminders |-> IF r \in S THEN [row[r] EXCEPT !.claimed = now + Lease] ELSE row[r]]
  /\ batch' = [batch EXCEPT ![w] = S]
  /\ at' = [at EXCEPT ![w] = now]
  /\ UNCHANGED <<now, userVars, queued, inChat, notices, failing, history, acts, failures>>

Due(r) == row[r].state = "pending" /\ row[r].due <= now

(* Mutant: a claim never ends. *)
Claim_forever(w, S) ==
  /\ Idle(w)
  /\ S # {} /\ Cardinality(S) <= ClaimLimit
  /\ active
  /\ \A r \in S : Due(r) /\ row[r].claimed = 0
  /\ Reserve(w, S)

(* ClaimDueReminders.  Rows that another transaction has locked are        *)
(* skipped, so any subset may be returned.                                 *)
Claim(w, S) ==
  /\ Idle(w)
  /\ S # {} /\ Cardinality(S) <= ClaimLimit
  /\ active
  /\ \A r \in S : Due(r) /\ row[r].claimed < now
  /\ Reserve(w, S)

(* Mutant: fireOne trusts the claim instead of reading the time again. *)
StillDue_claimed(r) == row[r].state = "pending"

(* GetDueReminder: the claim itself is not asked for.                      *)
StillDue(r) == Due(r)

Qualifies(r) == active /\ StillDue(r) /\ note[NoteOf(r)] = "active"

(* AdvanceReminder or MarkReminderFired.                                   *)
Fired(x) ==
  IF x.every > 0
  THEN [x EXCEPT !.due = NextOccurrence(x.due, x.every, now), !.fired = now, !.claimed = 0]
  ELSE [x EXCEPT !.state = "fired", !.fired = now, !.claimed = 0]

(* fireOne: a message for the chat, if it is a reminder target, and a      *)
(* notification, together with the change of the row.                      *)
FireOne(w, r) ==
  /\ failing[w] = None /\ r \in batch[w]
  /\ batch' = [batch EXCEPT ![w] = @ \ {r}]
  /\ IF Qualifies(r)
     THEN /\ row' = [row EXCEPT ![r] = Fired(@)]
          /\ queued' = IF target THEN [queued EXCEPT ![r] = @ \cup {row[r].due}] ELSE queued
          /\ notices' = [notices EXCEPT ![r] = @ + 1]
     ELSE UNCHANGED <<row, queued, notices>>
  /\ UNCHANGED <<now, userVars, inChat, at, failing, history, acts, failures>>

Failure == now <= QuietAfter /\ failures < MaxFailures /\ failures' = failures + 1

(* The transaction rolls back.                                             *)
FireFails(w, r) ==
  /\ Failure
  /\ failing[w] = None /\ r \in batch[w]
  /\ Qualifies(r)
  /\ batch' = [batch EXCEPT ![w] = @ \ {r}]
  /\ failing' = [failing EXCEPT ![w] = r]
  /\ failedDue' = [failedDue EXCEPT ![r] = row[r].due]
  /\ UNCHANGED <<now, userVars, row, queued, inChat, notices, at, back, answered, acts>>

(* DeferReminder: whatever has become of the reminder since it failed.     *)
Defer(w) ==
  LET r == failing[w]
  IN /\ r # None
     /\ row' = IF Exists(r) THEN [row EXCEPT ![r].claimed = at[w] + FailureBackoff] ELSE row
     /\ failing' = [failing EXCEPT ![w] = None]
     /\ UNCHANGED <<now, userVars, queued, inChat, notices, batch, at, history, acts, failures>>

(* The replica stops.                                                      *)
Crash(w) ==
  /\ Failure
  /\ ~ Idle(w)
  /\ batch' = [batch EXCEPT ![w] = {}]
  /\ failing' = [failing EXCEPT ![w] = None]
  /\ UNCHANGED <<now, userVars, row, queued, inChat, notices, at, history, acts>>

(* The outbox is done with an occurrence's message: it is in the chat, or  *)
(* it was given up.                                                        *)
LeaveOutbox(r, d, delivered) ==
  /\ d \in queued[r]
  /\ queued' = [queued EXCEPT ![r] = @ \ {d}]
  /\ inChat' = IF delivered THEN [inChat EXCEPT ![r] = d] ELSE inChat
  /\ UNCHANGED <<now, userVars, row, notices, workerVars, history, acts, failures>>

Tick ==
  /\ now < MaxTime
  /\ now' = now + 1
  /\ UNCHANGED <<userVars, row, queued, inChat, notices, workerVars, history, acts, failures>>

FireDue(w) ==
  \/ \E S \in SUBSET Reminders : Claim(w, S)
  \/ \E r \in Reminders : FireOne(w, r)
  \/ Defer(w)

OnReminder(r) ==
  \/ \E due \in 1 .. MaxDue, every \in Periods :
       (\E n \in Notes : Create(r, n, due, every)) \/ Update(r, due, every)
  \/ \E until \in 1 .. MaxDue : Snooze(r, until)
  \/ Delete(r) \/ Done(r) \/ ReplyDone(r)

OnOneNote(n) ==
  Dismiss(n) \/ Restore(n) \/ DeletePermanently(n) \/ \E m \in Notes : Merge(n, m)

Next ==
  \/ Tick
  \/ \E r \in Reminders : OnReminder(r)
  \/ \E n \in Notes : OnOneNote(n)
  \/ SetStatus \/ SetReminderTarget
  \/ \E w \in Workers : FireDue(w) \/ Crash(w) \/ \E r \in Reminders : FireFails(w, r)
  \/ \E r \in Reminders : \E d \in queued[r], delivered \in BOOLEAN : LeaveOutbox(r, d, delivered)

Spec == Init /\ [][Next]_vars

(* Time passes, and River starts the job every ten seconds.                *)
FairSpec == Spec /\ WF_vars(Tick) /\ \A w \in Workers : WF_vars(FireDue(w))

-----------------------------------------------------------------------------
(* Properties.                                                             *)

(* An occurrence fires at most once and never before its time, whichever   *)
(* replicas claimed it and however often the user armed the reminder: what *)
(* fires came due after the reminder fired last (CORE-R5; missed           *)
(* occurrences collapse into one, CORE-R10; fireOne reads the row again    *)
(* but not the claim).                                                     *)
NoDoubleFiring ==
  [][\A r \in Reminders :
       notices'[r] > notices[r] => row[r].fired < row[r].due /\ row[r].due <= now]_vars

(* What waits for the chat belongs to a reminder that is still wanted: not *)
(* deleted, not done, and its note not deleted for good (cancelQueued and  *)
(* CancelOutboxForNote run in the transaction that ends the reminder, and  *)
(* no job that is under way queues it again).                              *)
NothingQueuedForTheRemoved ==
  \A r \in Reminders : queued[r] # {} => row[r].state \notin {"none", "removed", "done"}

(* Suspended reminders are on notes in the Trash: none is left behind when *)
(* its note is restored, merged or deleted (OnDismiss, OnRestore, Merge).  *)
SuspendedIsInTheTrash ==
  \A r \in Reminders : row[r].state = "suspended" => NoteState(r) = "deleted"

(* A reminder that came due while its note was in the Trash is not sent    *)
(* when the note comes back (CORE-R7).                                     *)
SilentAfterTheTrash ==
  [][\A r \in Reminders : notices'[r] > notices[r] => row[r].due > back[r]]_vars

(* Every reminder that is due fires, unless the user changes it, although  *)
(* replicas stop, transactions fail and claims are left behind (CORE-R4).  *)
DueNow(r) == active /\ Due(r) /\ NoteState(r) = "active"

EveryDueFires == \A r \in Reminders : DueNow(r) ~> ~ DueNow(r)

(* Only a reminder whose firing failed is set aside for a while, as the    *)
(* comment on DeferReminder says.                                          *)
OnlyFailuresAreSetAside ==
  \A r \in Reminders : row[r].state = "pending" /\ row[r].claimed > now + Lease =>
    failedDue[r] = row[r].due

(* Answering the message of one occurrence with done keeps the reminder    *)
(* armed for the occurrence that follows it (comment on DoneIn).           *)
DoneKeepsTheNext ==
  [][\A r \in Reminders : answered'[r] # answered[r] /\ Recurs(r) =>
       row'[r].due <= NextOccurrence(answered'[r], row[r].every, now)]_vars
=============================================================================
