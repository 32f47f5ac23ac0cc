------------------------------- MODULE Access -------------------------------
(***************************************************************************)
(* Who may use Notekeeper, together: accounts, sessions, linked chats and  *)
(* share links, the job that deletes an account, and the job that purges   *)
(* what is over.  Accounts, Identities and Shares hold the operations;     *)
(* this module adds what touches all of them, and puts them side by side.  *)
(***************************************************************************)
EXTENDS Identities, Shares, SequencesExt

CONSTANTS
  Workers,  \* runs of the deletion job at the same time
  Mixes     \* bound: where a behaviour starts and how many operations of each family it has

vars == <<now, rowVars, throttleVars, call, job, browserVars, chatVars, shareVars, seen, left>>

-----------------------------------------------------------------------------
(* What the app does with notes, in the transaction that holds the user's  *)
(* row; the account's status is not looked at again.                       *)
WriteNote(c) ==
  /\ At(c, "write note")
  /\ \E K \in {Kinds \ {"ingest"}, {"notes", "changes"}} :
       IF Exists(call[c].user) THEN Grows(call[c].user, K) ELSE UNCHANGED content
  /\ Returns(c)
  /\ UNCHANGED <<now, users, links, sessions, told, throttleVars, job, browserVars, chatVars, shareVars, left>>

(* Mutant: only the chats that get reminders.                              *)
ChatsToTell_targets(u) == {linked[i].chat : i \in {i \in IdentitiesOf(u) : linked[i].conversation /\ linked[i].target}}

(* The chats that RequestDeletion says goodbye to.                         *)
ChatsToTell(u) == {linked[i].chat : i \in {i \in IdentitiesOf(u) : linked[i].conversation}}

-----------------------------------------------------------------------------
(* ProcessDeletions.  The rows of a kind are deleted in batches, of which  *)
(* each is a transaction, until none is left; after the last kind comes    *)
(* the transaction that takes the account.                                 *)

Batches == <<"chunks", "notes", "changes", "ingest">>
Asleep == [at |-> "asleep"]
Resting(w) == job[w] = Asleep
Deleting == {u \in Users : users[u].status = "deleting"}

JobGoes(w, to) == job' = [job EXCEPT ![w] = to]
NextAccount(w) == LET rest == Tail(job[w].accounts)
                  IN  JobGoes(w, IF rest = <<>> THEN Asleep ELSE [at |-> "batch", step |-> 1, accounts |-> rest])

DeleteUsers(w) ==
  /\ Resting(w) /\ Deleting # {}
  /\ \E order \in SetToSeqs(Deleting) : JobGoes(w, [at |-> "batch", step |-> 1, accounts |-> order])
  /\ UNCHANGED <<now, rowVars, throttleVars, call, browserVars, chatVars, shareVars, left>>

(* What refers to the user's rows goes with them.                          *)
Without(u, table) == [k \in DOMAIN table |-> IF table[k].user = u THEN [table[k] EXCEPT !.user = None] ELSE table[k]]

NoteGoes(u) == note' = [note EXCEPT ![u] = "none"]

(* What every batch removes; a call of it answers how many rows there were. *)
Removes(u, kind) == content' = [content EXCEPT ![u][kind] = 0]

(* Deleting a note takes its share links.                                  *)
DeleteBatch(w) ==
  /\ job[w].at = "batch"
  /\ LET u == Head(job[w].accounts)
         kind == Batches[job[w].step]
     IN  /\ Removes(u, kind)
         /\ IF content[u][kind] > 0 THEN UNCHANGED job
            ELSE IF job[w].step = Len(Batches) THEN job' = [job EXCEPT ![w].at = "files"]
            ELSE job' = [job EXCEPT ![w].step = @ + 1]
         /\ IF kind = "notes"
            THEN shares' = Without(u, shares) /\ NoteGoes(u)
            ELSE UNCHANGED shareVars
  /\ UNCHANGED <<now, users, links, sessions, told, throttleVars, call, browserVars, chatVars, left>>

(* Mutant: the attachments are left to the cascade.                        *)
FilesSeen_none(u) == 0

FilesSeen(u) == content[u]["files"]

(* The attachments that are there when the last transaction looks.         *)
DeleteFiles(w) ==
  /\ job[w].at = "files"
  /\ JobGoes(w, [at |-> "account", accounts |-> job[w].accounts, seen |-> FilesSeen(Head(job[w].accounts))])
  /\ UNCHANGED <<now, rowVars, throttleVars, call, browserVars, chatVars, shareVars, left>>

(* The row, if the account is still to be deleted, and everything that     *)
(* refers to it.  A file that came in between refers to a blob without a   *)
(* cascade: then all of the transaction is undone and the job fails.       *)
DeleteAccount(w) ==
  /\ job[w].at = "account"
  /\ LET u == Head(job[w].accounts)
     IN  \/ /\ users[u].status = "deleting" /\ content[u]["files"] > job[w].seen
            /\ JobGoes(w, Asleep)
            /\ UNCHANGED <<rowVars, codes, linked, shareVars>>
         \/ /\ users[u].status = "deleting" /\ content[u]["files"] <= job[w].seen
            /\ users' = [users EXCEPT ![u] = [status |-> "gone", password |-> None]]
            /\ content' = [content EXCEPT ![u] = [k \in Kinds |-> 0]]
            /\ sessions' = Without(u, sessions) /\ links' = Without(u, links)
            /\ codes' = Without(u, codes) /\ linked' = Without(u, linked)
            /\ shares' = Without(u, shares) /\ NoteGoes(u)
            /\ NextAccount(w)
            /\ UNCHANGED told
         \/ /\ users[u].status # "deleting"
            /\ content' = [content EXCEPT ![u]["files"] = IF @ > job[w].seen THEN @ - job[w].seen ELSE 0]
            /\ NextAccount(w)
            /\ UNCHANGED <<users, links, sessions, told, codes, linked, shareVars>>
  /\ UNCHANGED <<now, throttleVars, call, browserVars, botVars, behind, written, kept, ignored, left>>

(* The job's deadline passes, or Core stops.                               *)
JobStops(w) ==
  /\ ~ Resting(w)
  /\ left["stop"] > 0 /\ left' = [left EXCEPT !["stop"] = @ - 1]
  /\ JobGoes(w, Asleep)
  /\ UNCHANGED <<now, rowVars, throttleVars, call, browserVars, chatVars, shareVars>>

DeleteOldSessions(before) ==
  sessions' = [s \in SessionIds |->
    LET end == IF sessions[s].revoked THEN sessions[s].ended ELSE sessions[s].expires
    IN  IF sessions[s].user # None /\ end < before THEN [sessions[s] EXCEPT !.user = None] ELSE sessions[s]]

PurgeThrottle(before) == meter' = [k \in MeterKeys |-> IF meter[k].at < before THEN Fresh ELSE meter[k]]

(* Purge and PurgeShareLinks: what has been over for long.                 *)
Purge ==
  /\ left["purge"] > 0 /\ left' = [left EXCEPT !["purge"] = @ - 1]
  /\ DeleteOldSessions(now - RetainSessions)
  /\ PurgeThrottle(now - RetainThrottle)
  /\ shares' = PurgeShares(shares)
  /\ UNCHANGED <<now, users, links, content, told, tries, call, job, browserVars, chatVars, note>>

-----------------------------------------------------------------------------
Slow(t, then) == \/ sent[t] # None /\ sent[t].at + Prompt < then
                 \/ answer[t] # None /\ answer[t].at + Prompt < then

Tick ==
  /\ left["tick"] > 0 /\ left' = [left EXCEPT !["tick"] = @ - 1]
  /\ now' = now + 1
  /\ hiccup' = (hiccup \/ \E t \in Tabs : Slow(t, now + 1))
  /\ UNCHANGED <<rowVars, throttleVars, call, job, jar, sent, answer, due, locks, chatVars, shareVars>>

(* A new deployment, or one that has been running: its accounts are        *)
(* active, the browser is signed in to one of them, which has a note, and  *)
(* perhaps a linked chat and a share link.                                 *)
Begins(mix, u, p, x) ==
  /\ left = mix.ops
  /\ users = [v \in Users |-> IF mix.new THEN [status |-> "absent", password |-> None]
                              ELSE [status |-> "active", password |-> p]]
  /\ sessions = [s \in SessionIds |-> IF ~ mix.new /\ s = 1
       THEN [NoSession EXCEPT !.user = u, !.expires = Idle, !.absolute = Absolute] ELSE NoSession]
  /\ bot = (IF mix.new THEN "absent" ELSE "active") /\ keys = IF mix.new THEN {} ELSE {CHOOSE k \in Keys : TRUE}
  /\ jar = IF mix.new THEN None ELSE [session |-> 1, generation |-> 0]
  /\ content = [v \in Users |-> [k \in Kinds |-> IF ~ mix.new /\ v = u THEN 1 ELSE 0]]
  /\ note = [v \in Users |-> IF ~ mix.new /\ v = u THEN "active" ELSE "none"]
  /\ linked = [i \in IdentityIds |-> IF mix.chat /\ i = 1
       THEN [NoIdentity EXCEPT !.user = u, !.chat = x, !.target = TRUE, !.conversation = TRUE] ELSE NoIdentity]
  /\ shares = [h \in ShareIds |-> IF mix.share /\ h = 1
       THEN [NoShare EXCEPT !.user = u, !.expires = CHOOSE l \in Lifetimes : TRUE] ELSE NoShare]
  /\ behind \in IF mix.ops["write"] > 0 THEN 0 .. MaxBehind ELSE {0}
  /\ locks \in IF mix.ops["refresh"] > 0 THEN BOOLEAN ELSE {TRUE}

Init ==
  /\ now = 0
  /\ \E mix \in Mixes, u \in Users \ Admins, p \in {CHOOSE p \in Passwords : TRUE}, x \in {CHOOSE x \in Chats : TRUE} :
       Begins(mix, u, p, x)
  /\ links = [l \in Links |-> NoLink]
  /\ codes = [k \in Codes |-> NoCode]
  /\ written = {} /\ kept = [v \in Users |-> {}] /\ ignored = [v \in Users |-> {}]
  /\ meter = [k \in MeterKeys |-> Fresh] /\ tries = [k \in GuardedKeys |-> <<>>]
  /\ told = {}
  /\ call = [c \in Callers |-> Done] /\ seen = [c \in Callers |-> {}]
  /\ job = [w \in Workers |-> Asleep]
  /\ sent = [t \in Tabs |-> None] /\ answer = [t \in Tabs |-> None] /\ due = [t \in Tabs |-> 0]
  /\ hiccup = FALSE

PostNote(c) == Request(c, "app", "write note")

AccountStep(c) ==
  \/ ChangePassword(c) \/ DeleteMyAccount(c) \/ Logout(c) \/ RevokeSession(c) \/ RevokeAllSessions(c) \/ PostNote(c)
  \/ Login(c) \/ Charge(c) \/ Refund(c) \/ (\E op \in {"change", "leave"} : Confirm(c, op))
  \/ CheckPassword(c) \/ Succeed(c) \/ SignIn(c) \/ SetPassword(c)
  \/ SignOut(c) \/ SignOutElsewhere(c) \/ SignOutEverywhere(c)
  \/ IssueActivation(c) \/ FinishIssue(c) \/ Activate(c) \/ PeekLink(c) \/ FinishActivate(c) \/ ForgetAttempts(c)
  \/ SetDisabled(c) \/ FinishDisable(c) \/ AdminDeleteUser(c) \/ RequestDeletion(c)
  \/ (At(c, "mark deleting") /\ MarkDeleting(c, ChatsToTell(call[c].user)))

ChatStep(c) ==
  \/ CreateCode(c) \/ CreatePairingCode(c) \/ InsertPairingCode(c)
  \/ Link(c) \/ CountFailure(c) \/ LinkChat(c) \/ ForgetFailures(c) \/ Ingest(c) \/ Store(c)

BotStep ==
  \/ CreateInstance \/ SetInstanceStatus \/ (\E k \in Keys : CreateCredential(k) \/ DisableCredential(k))
  \/ Unlink \/ SetReminderTarget \/ (\E x \in Chats : Write(x))

ShareStep(c) ==
  \/ CreateShareLink(c) \/ RevokeShareLink(c) \/ RevokeAllShareLinks(c) \/ MoveOrRestore(c)
  \/ Create(c) \/ Revoke(c) \/ RevokeAll(c) \/ MoveNote(c)
  \/ OpenShare(c) \/ LookUp(c) \/ LookAtNote(c) \/ Show(c) \/ FindFile(c)

BrowserStep(t) == RefreshSession(t) \/ Refresh(t) \/ TabHears(t) \/ TabHearsNothing(t)

JobStep(w) == DeleteUsers(w) \/ DeleteBatch(w) \/ DeleteFiles(w) \/ DeleteAccount(w)

Step ==
  \/ \E c \in Callers :
       \/ AccountStep(c) /\ UNCHANGED <<chatVars, shareVars>>
       \/ ChatStep(c) /\ UNCHANGED shareVars
       \/ ShareStep(c) /\ UNCHANGED chatVars
       \/ WriteNote(c)
  \/ \E t \in Tabs : BrowserStep(t) /\ UNCHANGED <<chatVars, shareVars>>
  \/ \E u \in Users : (CreateUser(u) \/ Bootstrap(u)) /\ UNCHANGED <<chatVars, shareVars>>
  \/ BotStep /\ UNCHANGED shareVars
  \/ \E w \in Workers : JobStep(w) \/ JobStops(w)
  \/ Purge
  \/ Tick

(* History: what was in order while a visitor's request was under way.     *)
Sees ==
  seen' = [c \in Callers |-> IF call'[c] = Done THEN {} ELSE (IF call[c] = Done THEN {} ELSE seen[c]) \cup InOrder(c)']

Next == Step /\ Sees

Spec == Init /\ [][Next]_vars

(* The deletion job is scheduled again and again, and goes on with what it *)
(* began.                                                                  *)
FairSpec ==
  /\ Spec
  /\ \A w \in Workers : WF_vars(JobStep(w) /\ Sees)
-----------------------------------------------------------------------------
TypeOK ==
  /\ now \in Nat
  /\ \A u \in Users : users[u].status \in Statuses /\ users[u].password \in Passwords \cup {None}
  /\ \A s \in SessionIds : sessions[s].user \in Users \cup {None} /\ sessions[s].generation \in Nat
  /\ \A k \in MeterKeys : meter[k] \in Rows
  /\ told \subseteq Chats /\ \A u \in Users : note[u] \in {"none", "active", "trash"}
  /\ \A u \in Users : content[u] \in [Kinds -> Nat]

(* Renewal (Refresh, refreshSession; 03-auth.md section 2.3): A token that *)
(* was superseded ends its session, as it should when somebody else has    *)
(* it.  The tabs of one browser never do this to their own session, unless *)
(* an answer was lost or late: with locks for any number of tabs, and two  *)
(* tabs without.                                                           *)
EndsForReuse(t) ==
  /\ sent[t] # None /\ sent'[t] = None
  /\ ~ sessions[sent[t].session].revoked /\ sessions'[sent[t].session].revoked

RaceSignsNobodyOut ==
  [][\A t \in Tabs : EndsForReuse(t) => hiccup]_vars

(* Guessing (throttle.Attempt): Attempts on one password from one place    *)
(* that were let through are as far apart as their number asks for, however*)
(* many handlers make them at once.                                        *)
GuessesTakeTime ==
  \A k \in GuardedKeys : \A n \in 2 .. Len(tries[k]) :
    tries[k][n] - tries[k][n - 1] >= Delay(PolicyOf(k), n - 1)

(* Linking (bots.Link, ingest.Handle): What is stored for a user came from *)
(* a chat that was the user's, and was written after the chat asked to be  *)
(* linked; what is left out as history was written before.                 *)
ChatHistoryStaysOut ==
  \A u \in Users :
    /\ \A r \in kept[u] : r.owner = u /\ r.message.sent >= linked[r.identity].asked
    /\ \A r \in ignored[u] : r.owner = u /\ r.message.sent < linked[r.identity].asked

(* Deletion (ProcessDeletions): Nothing of an account that is gone is left *)
(* or comes back with a handler that was under way; and the bots of an     *)
(* account that goes have been told to forget each of its chats.           *)
NothingLeft(u) ==
  /\ \A k \in Kinds : content[u][k] = 0
  /\ SessionsOf(u) = {} /\ ActivationLinksOf(u) = {} /\ IdentitiesOf(u) = {} /\ SharesOf(u) = {}
  /\ \A k \in Codes : codes[k].user # u

DeletionIsComplete ==
  \A u \in Users :
    /\ users[u].status = "gone" => NothingLeft(u)
    /\ users[u].status = "deleting" =>
         \A i \in IdentitiesOf(u) : linked[i].conversation => linked[i].chat \in told

(* RequestDeletion: From this moment on the account is on its way out.     *)
DeletionIsFinal ==
  [][\A u \in Users : users[u].status = "deleting" => users'[u].status \in {"deleting", "gone"}]_vars

(* The deletion of an account ends, whatever arrives for it meanwhile, and *)
(* although the job is stopped now and then.                               *)
DeletionEnds ==
  \A u \in Users : users[u].status = "deleting" ~> users[u].status # "deleting"
=============================================================================
