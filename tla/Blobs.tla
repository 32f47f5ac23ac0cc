------------------------------- MODULE Blobs -------------------------------
(***************************************************************************)
(* The attachments of one user (core/internal/blobs, queries/blobs.sql).   *)
(*                                                                         *)
(* An upload takes three steps: a locked transaction reserves quota and    *)
(* inserts an incomplete blob, the chunks are written without the lock,    *)
(* and a second locked transaction publishes the blob as an attachment or, *)
(* when the user already has the same content, points the attachment to    *)
(* that blob.  A failed upload aborts in a third transaction, which may    *)
(* never run.  The janitor cleans up after uploads that were abandoned     *)
(* and attachments no note uses.  Nothing tells it that an upload is still *)
(* running: it goes by age, against the deadline of an upload.             *)
(*                                                                         *)
(* The commit of a transaction may succeed although its caller is told     *)
(* that it failed; such a step is marked `answered = FALSE'.               *)
(***************************************************************************)
EXTENDS Integers, FiniteSets

CONSTANTS
  Uploads,        \* attempts to upload; each has a blob of its own
  Ids,            \* attachment identifiers, chosen by the client
  Contents,
  Parts,          \* places for note parts that are attachments
  None,
  Size,           \* the size of a content
  MaxSize,        \* Cfg.MaxSize
  Quotas,         \* the quotas an administrator sets
  Deadline,       \* uploadDeadline
  StaleAge,       \* StaleUploadAge
  Skew,           \* how far the janitor's clock may be ahead of the database's
  MaxTime,        \* bound: the clock stops here
  QuietAfter      \* bound: users do nothing and nothing fails after this time

ASSUME SizesAssumption ==
  /\ IsFiniteSet(Uploads)
  /\ MaxSize \in Nat /\ Size \in [Contents -> 1 .. MaxSize]
  /\ Quotas \subseteq Nat /\ Quotas # {}
  /\ None \notin Uploads /\ None \notin Ids /\ None \notin Contents

(* uploadDeadline is ten minutes and StaleUploadAge an hour.               *)
ASSUME TimesAssumption ==
  /\ Deadline \in Nat /\ StaleAge \in Nat /\ Skew \in Nat
  /\ Deadline + Skew <= StaleAge
  /\ MaxTime \in Nat /\ QuietAfter \in Nat

VARIABLES
  now,        \* the database's clock
  quota,      \* user_storage.quota_bytes, or the default
  used,       \* user_storage.used_bytes
  reserved,   \* user_storage.reserved_bytes
  blob,       \* the blobs: state, id (upload_id), content, since (created_at)
  att,        \* the attachments: blob, since (created_at)
  file,       \* note_parts.attachment_id; None where no such part is
  pc          \* where each attempt is

vars == <<now, quota, used, reserved, blob, att, file, pc>>

BlobRows == [state: {"none", "incomplete", "complete", "removed"},
             id: Ids \cup {None}, content: Contents \cup {None}, since: Nat]
AttRows == [blob: Uploads \cup {None}, since: Nat]
NoAtt == [blob |-> None, since |-> 0]
Present(i) == att[i].blob # None
InUse(i) == \E p \in Parts : file[p] = i

(* An attachment points to a complete blob (foreign key, GetAttachmentWithBlob). *)
TypeOK ==
  /\ now \in Nat /\ quota \in Nat /\ used \in Nat /\ reserved \in Nat
  /\ blob \in [Uploads -> BlobRows]
  /\ att \in [Ids -> AttRows]
  /\ file \in [Parts -> Ids \cup {None}]
  /\ \A i \in Ids : Present(i) => blob[att[i].blob].state = "complete"
  /\ pc \in [Uploads -> {"idle", "streaming", "publishing", "aborting", "over"}]

Init ==
  /\ now = 1
  /\ quota \in Quotas
  /\ used = 0 /\ reserved = 0
  /\ blob = [u \in Uploads |-> [state |-> "none", id |-> None, content |-> None, since |-> 0]]
  /\ att = [i \in Ids |-> NoAtt]
  /\ file = [p \in Parts |-> None]
  /\ pc = [u \in Uploads |-> "idle"]

-----------------------------------------------------------------------------
(* The bytes of some blobs, so that their number is a cardinality.         *)
SizeOf(u) == Size[blob[u].content]
InState(s) == {u \in Uploads : blob[u].state = s}
Bytes(S) == {x \in Uploads \X (1 .. MaxSize) : x[1] \in S /\ x[2] <= SizeOf(x[1])}
Total(S) == Cardinality(Bytes(S))

(* greatest(n - m, 0) *)
Less(n, m) == IF n >= m THEN n - m ELSE 0

Remove(S) == [u \in Uploads |-> IF u \in S THEN [blob[u] EXCEPT !.state = "removed"] ELSE blob[u]]

(* Mutant: what other uploads have reserved is not counted. *)
WithinQuota_used(n) == used + n <= quota

WithinQuota(n) == used + reserved + n <= quota

(* Step 1.  An attachment that exists is answered, an upload that runs and *)
(* one that would exceed the quota are refused: none changes anything.     *)
Begin(u, i, c, answered) ==
  /\ now <= QuietAfter
  /\ pc[u] = "idle"
  /\ ~ Present(i)
  /\ \A v \in Uploads : ~ (blob[v].state = "incomplete" /\ blob[v].id = i)
  /\ WithinQuota(Size[c])
  /\ reserved' = reserved + Size[c]
  /\ blob' = [blob EXCEPT ![u] = [state |-> "incomplete", id |-> i, content |-> c, since |-> now]]
  /\ pc' = [pc EXCEPT ![u] = IF answered THEN "streaming" ELSE "over"]
  /\ UNCHANGED <<now, quota, used, att, file>>

InTime(u) == now <= blob[u].since + Deadline

(* Step 2: all chunks were written, each to a blob that was still there.   *)
Stream(u) ==
  /\ pc[u] = "streaming"
  /\ InTime(u)
  /\ blob[u].state = "incomplete"
  /\ pc' = [pc EXCEPT ![u] = "publishing"]
  /\ UNCHANGED <<now, quota, used, reserved, blob, att, file>>

(* Mutant: every content is stored again. *)
Duplicates_none(u) == {}

Duplicates(u) == {v \in InState("complete") : blob[v].content = blob[u].content}

(* Step 3. *)
Publish(u, answered) ==
  LET i == blob[u].id
  IN /\ pc[u] = "publishing"
     /\ InTime(u)
     /\ ~ Present(i)
     /\ \/ \E v \in Duplicates(u) :
             /\ blob' = Remove({u})
             /\ att' = [att EXCEPT ![i] = [blob |-> v, since |-> now]]
             /\ used' = used
        \/ /\ Duplicates(u) = {}
           /\ blob[u].state = "incomplete"
           /\ blob' = [blob EXCEPT ![u].state = "complete"]
           /\ att' = [att EXCEPT ![i] = [blob |-> u, since |-> now]]
           /\ used' = used + SizeOf(u)
     /\ reserved' = Less(reserved, SizeOf(u))
     /\ pc' = [pc EXCEPT ![u] = IF answered THEN "over" ELSE "aborting"]
     /\ UNCHANGED <<now, quota, file>>

(* The body ended early or was too long, the deadline passed, the blob is  *)
(* gone, the identifier was taken or the transaction failed.               *)
Breaks(u) ==
  /\ pc[u] \in {"streaming", "publishing"}
  /\ now <= QuietAfter \/ ~ InTime(u) \/ blob[u].state # "incomplete" \/ Present(blob[u].id)
  /\ pc' = [pc EXCEPT ![u] = "aborting"]
  /\ UNCHANGED <<now, quota, used, reserved, blob, att, file>>

(* Mutant: abort does not ask whether the upload was published after all. *)
Abort_always(u) ==
  /\ pc[u] = "aborting"
  /\ IF blob[u].state \in {"incomplete", "complete"}
     THEN blob' = Remove({u}) /\ reserved' = Less(reserved, SizeOf(u))
     ELSE UNCHANGED <<blob, reserved>>
  /\ pc' = [pc EXCEPT ![u] = "over"]
  /\ UNCHANGED <<now, quota, used, att, file>>

Abort(u) ==
  /\ pc[u] = "aborting"
  /\ IF blob[u].state = "incomplete"
     THEN blob' = Remove({u}) /\ reserved' = Less(reserved, SizeOf(u))
     ELSE UNCHANGED <<blob, reserved>>
  /\ pc' = [pc EXCEPT ![u] = "over"]
  /\ UNCHANGED <<now, quota, used, att, file>>

(* The process stops, or the abort fails: its error is ignored.            *)
GiveUp(u) ==
  /\ now <= QuietAfter
  /\ pc[u] \in {"streaming", "publishing", "aborting"}
  /\ pc' = [pc EXCEPT ![u] = "over"]
  /\ UNCHANGED <<now, quota, used, reserved, blob, att, file>>

-----------------------------------------------------------------------------
(* A part of a note, written in the app or come from a chat, takes a file  *)
(* that no part uses.                                                      *)
AddPart(p, i) ==
  /\ now <= QuietAfter
  /\ file[p] = None
  /\ Present(i) /\ ~ InUse(i)
  /\ file' = [file EXCEPT ![p] = i]
  /\ UNCHANGED <<now, quota, used, reserved, blob, att, pc>>

(* Mutant: a blob goes with an attachment although others share it. *)
Unshared_never(S) == {att[i].blob : i \in S}

(* The blobs that no attachment outside S refers to.                       *)
Unshared(S) == {att[i].blob : i \in S} \ {att[i].blob : i \in Ids \ S}

(* Delete for the attachments S, with the incomplete blobs the janitor     *)
(* removes besides.  The foreign key of note_parts is no guard here: that  *)
(* no part is left without its file is for the properties to show.         *)
Discard(S, stale) ==
  /\ att' = [i \in Ids |-> IF i \in S THEN NoAtt ELSE att[i]]
  /\ blob' = Remove(Unshared(S) \cup stale)
  /\ used' = Less(used, Total(Unshared(S)))
  /\ reserved' = Less(reserved, Total(stale))
  /\ UNCHANGED <<now, quota, pc>>

(* The files of a note that is deleted for good, of a part that is removed *)
(* or of the parts of a message that was redacted.                         *)
RemoveParts(S) ==
  /\ now <= QuietAfter
  /\ S # {}
  /\ \A p \in S : file[p] # None
  /\ file' = [p \in Parts |-> IF p \in S THEN None ELSE file[p]]
  /\ Discard({file[p] : p \in S}, {})

OlderThan(since, t) == since < t - StaleAge

StaleBlobs(t) == {u \in InState("incomplete") : OlderThan(blob[u].since, t)}
Unlinked(t) == {i \in Ids : Present(i) /\ ~ InUse(i) /\ OlderThan(att[i].since, t)}

(* Mutant: only attachments are looked for. *)
ReleaseStale_noBlobs(t) ==
  /\ Unlinked(t) # {}
  /\ Discard(Unlinked(t), {})
  /\ UNCHANGED file

(* ReleaseStale, at the time t of the janitor's clock.                     *)
ReleaseStale(t) ==
  /\ StaleBlobs(t) # {} \/ Unlinked(t) # {}
  /\ Discard(Unlinked(t), StaleBlobs(t))
  /\ UNCHANGED file

SetQuota(q) ==
  /\ now <= QuietAfter
  /\ quota' = q
  /\ UNCHANGED <<now, used, reserved, blob, att, file, pc>>

Tick ==
  /\ now < MaxTime
  /\ now' = now + 1
  /\ UNCHANGED <<quota, used, reserved, blob, att, file, pc>>

Janitor == \E ahead \in 0 .. Skew : ReleaseStale(now + ahead)

Next ==
  \/ \E u \in Uploads, answered \in BOOLEAN :
       (\E i \in Ids, c \in Contents : Begin(u, i, c, answered)) \/ Publish(u, answered)
  \/ \E u \in Uploads : Stream(u) \/ Breaks(u) \/ Abort(u) \/ GiveUp(u)
  \/ \E p \in Parts, i \in Ids : AddPart(p, i)
  \/ \E S \in SUBSET Parts : RemoveParts(S)
  \/ \E q \in Quotas : SetQuota(q)
  \/ Janitor
  \/ Tick

Spec == Init /\ [][Next]_vars

(* Time passes and River starts the janitor every fifteen minutes.         *)
FairSpec == Spec /\ WF_vars(Tick) /\ WF_vars(Janitor)

-----------------------------------------------------------------------------
(* Properties.                                                             *)

(* The counters are what the blobs take up, after any sequence of retries, *)
(* aborts, lost answers, duplicates and clean-ups: what is reserved belongs *)
(* to blobs that are incomplete and what is used to blobs that are         *)
(* complete, so no quota leaks and none is given back twice (CORE-A8,      *)
(* SEC-CNT-6; greatest(..., 0) would hide an error of this kind).          *)
AccountsExact ==
  /\ reserved = Total(InState("incomplete"))
  /\ used = Total(InState("complete"))

(* What is stored and reserved grows only within the quota, however many   *)
(* uploads run at once (ReserveQuota; a quota that was lowered stays       *)
(* exceeded until something is deleted).                                   *)
GrowsWithinQuota ==
  [][used' + reserved' > used + reserved => used' + reserved' <= quota]_vars

(* Content is stored once and never without an attachment (CORE-A5, CORE-A8; *)
(* the blob of a duplicate goes, a shared blob goes with its last user).   *)
NoOrphans ==
  /\ \A u \in InState("complete") : \E i \in Ids : att[i].blob = u
  /\ \A u, v \in InState("complete") : blob[u].content = blob[v].content => u = v

(* What an upload reserved is released or used in the end, although        *)
(* processes stop and aborts fail (janitor).                               *)
ReservationsEnd ==
  \A u \in Uploads : blob[u].state = "incomplete" ~> blob[u].state # "incomplete"

(* The attachment is there with its blob, which is complete and holds c.   *)
Holds(i, c) ==
  /\ Present(i)
  /\ blob[att[i].blob].state = "complete"
  /\ blob[att[i].blob].content = c

(* A file that is removed, or loses its content, is one that no part of a  *)
(* note is left to use; and either a part used it until now, or the client *)
(* has had StaleAge to use it.  So what other notes do with files of the   *)
(* same content, which share its blob, never takes it away (Delete,        *)
(* ReleaseStale, BlobIsShared, UnlinkedAttachments).                       *)
KeptWhileNeeded ==
  [][\A i \in Ids, c \in Contents : Holds(i, c) /\ ~ Holds(i, c)' =>
       /\ ~ InUse(i)'
       /\ InUse(i) \/ now + Skew > att[i].since + StaleAge]_vars
=============================================================================
