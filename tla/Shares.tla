------------------------------- MODULE Shares -------------------------------
(***************************************************************************)
(* Links that show a note to whoever has them (core/internal/shares).      *)
(* Whether a link works is found out on every request, by reads of their   *)
(* own: the link, then its note, then what the note holds.  Links are made *)
(* to one note of a user here, the first; the others are only counted.     *)
(* The rate limits of the public listener are left out.                    *)
(***************************************************************************)
EXTENDS Accounts

CONSTANTS
  ShareIds,        \* rows of share_links, in the order they are made: numbers
  Lifetimes,       \* the presets that the operator's maximum lets through
  MaxActive,       \* links a user may have at once
  CreatedPerHour,
  Hour,
  RetainShares     \* how long links that are over are kept

ASSUME SharesAssumption == Lifetimes # {} /\ Lifetimes \subseteq Nat

VARIABLES
  shares,   \* share_links
  note,     \* what has become of the note of every user that links are made to
  seen      \* history: what was in order at some time since a visitor's request came

shareVars == <<shares, note>>

NoShare == [user |-> None, created |-> 0, expires |-> 0, revoked |-> FALSE, ended |-> 0]

NoteExists(u) == note[u] # "none"
NoteIsActive(u) == note[u] = "active"

SharesOf(u) == {h \in ShareIds : shares[h].user = u}
InForce(h) == shares[h].user # None /\ ~ shares[h].revoked /\ shares[h].expires > now
ActiveShares(u) == Cardinality({h \in SharesOf(u) : InForce(h)})
RecentShares(u) == Cardinality({h \in SharesOf(u) : shares[h].created > now - Hour})
NextShare == {h \in ShareIds : shares[h] = NoShare /\ \A k \in ShareIds : k < h => shares[k] # NoShare}

-----------------------------------------------------------------------------
(* The owner.  Each is one transaction that holds the user's row.          *)

Owner(c) == call[c].user

CreateShareLink(c) == Request(c, "share", "share") /\ UNCHANGED shareVars
RevokeShareLink(c) == Request(c, "share", "revoke") /\ UNCHANGED shareVars
RevokeAllShareLinks(c) == Request(c, "share", "revoke all shares") /\ UNCHANGED shareVars
MoveOrRestore(c) == Request(c, "share", "move note") /\ UNCHANGED shareVars

InsertShareLink(h, u, life) ==
  shares' = [shares EXCEPT ![h] = [NoShare EXCEPT !.user = u, !.created = now, !.expires = now + life]]

Create(c) ==
  /\ At(c, "share")
  /\ LET u == Owner(c)
         allowed == NoteIsActive(u) /\ ActiveShares(u) < MaxActive /\ RecentShares(u) < CreatedPerHour
     IN  \E life \in Lifetimes :
           IF Exists(u) /\ allowed
           THEN /\ \E h \in NextShare : InsertShareLink(h, u, life)
                /\ Grows(u, {"changes"})
           ELSE UNCHANGED <<shares, content>>
  /\ Returns(c)
  /\ UNCHANGED <<now, users, links, sessions, told, throttleVars, job, browserVars, note, left>>

(* What is in force of the links S is revoked.                             *)
Ended(c, S) ==
  /\ LET over == {h \in S : InForce(h)}
     IN  IF Exists(Owner(c)) /\ over # {}
         THEN /\ shares' = [h \in ShareIds |-> IF h \in over THEN [shares[h] EXCEPT !.revoked = TRUE, !.ended = now] ELSE shares[h]]
              /\ Grows(Owner(c), {"changes"})
         ELSE UNCHANGED <<shares, content>>
  /\ Returns(c)
  /\ UNCHANGED <<now, users, links, sessions, told, throttleVars, job, browserVars, note, left>>

Revoke(c) == At(c, "revoke") /\ \E h \in SharesOf(Owner(c)) : Ended(c, {h})
RevokeAll(c) == At(c, "revoke all shares") /\ Ended(c, SharesOf(Owner(c)))

(* The note is dismissed, or restored.                                     *)
MoveNote(c) ==
  /\ At(c, "move note")
  /\ LET u == Owner(c)
     IN  IF Exists(u) /\ NoteExists(u)
         THEN /\ note' = [note EXCEPT ![u] = IF @ = "active" THEN "trash" ELSE "active"]
              /\ Grows(u, {"changes"})
         ELSE UNCHANGED <<note, content>>
  /\ Returns(c)
  /\ UNCHANGED <<now, users, links, sessions, told, throttleVars, job, browserVars, shares, left>>

(* Purge: links that have been over for long.                              *)
PurgeShares(table) ==
  [h \in ShareIds |-> LET end == IF table[h].revoked THEN Lesser(table[h].ended, table[h].expires) ELSE table[h].expires
                      IN  IF table[h].user # None /\ end < now - RetainShares THEN [table[h] EXCEPT !.user = None] ELSE table[h]]

-----------------------------------------------------------------------------
(* A visitor.                                                              *)

OpenShare(c) ==
  /\ Starts(c, "open")
  /\ \E h \in ShareIds, wants \in {"show", "find file"} :
       shares[h] # NoShare /\ call' = [call EXCEPT ![c] = [at |-> "look up", share |-> h, wants |-> wants]]
  /\ UNCHANGED <<now, rowVars, throttleVars, job, browserVars, shareVars>>

(* Mutant: whose link it is does not matter.                               *)
LinkWorks_anyOwner(h) == InForce(h)

LinkWorks(h) == InForce(h) /\ users[shares[h].user].status = "active"

(* LookupShare.  Without a link the note is looked for all the same.       *)
LookUp(c) ==
  /\ At(c, "look up")
  /\ LET h == call[c].share
     IN  call' = [call EXCEPT ![c] = [at |-> "look at note", share |-> h, wants |-> @.wants,
                                      owner |-> IF LinkWorks(h) THEN shares[h].user ELSE None]]
  /\ UNCHANGED <<now, rowVars, throttleVars, job, browserVars, shareVars, left>>

LookAtNote(c) ==
  /\ At(c, "look at note")
  /\ LET u == call[c].owner
     IN  IF u # None /\ NoteIsActive(u) THEN GoesTo(c, call[c].wants) ELSE Returns(c)
  /\ UNCHANGED <<now, rowVars, throttleVars, job, browserVars, shareVars, left>>

(* Get, wherever the note is now; the view is counted.                     *)
Show(c) ==
  /\ At(c, "show")
  /\ Returns(c)
  /\ UNCHANGED <<now, rowVars, throttleVars, job, browserVars, shareVars, left>>

NoteHasAttachment(u) == NoteExists(u) /\ content[u]["files"] > 0

(* OpenAttachment: the file must be one of the note's; then it is opened.  *)
FindFile(c) ==
  /\ At(c, "find file")
  /\ IF NoteHasAttachment(call[c].owner) THEN GoesTo(c, "show") ELSE Returns(c)
  /\ UNCHANGED <<now, rowVars, throttleVars, job, browserVars, shareVars, left>>

(* What is in order for a request that is under way: its link; and the     *)
(* note of the link, which may outlive it.                                 *)
NoteOf(c) == IF "owner" \in DOMAIN call[c] THEN call[c].owner ELSE shares[call[c].share].user

InOrder(c) ==
  IF "share" \notin DOMAIN call[c] THEN {}
  ELSE LET h == call[c].share
       IN  (IF InForce(h) /\ users[shares[h].user].status = "active" THEN {"link"} ELSE {})
           \cup (IF NoteOf(c) # None /\ NoteIsActive(NoteOf(c)) THEN {"note"} ELSE {})

(* What a link shows (Shares.Open): Whatever is shown was shared at some   *)
(* moment of the request: the link was in force and its owner active, and  *)
(* the note was not in the Trash, although three reads find this out and   *)
(* others change each of them in between.                                  *)
ShowsWhatIsShared ==
  \A c \in Callers : At(c, "show") => seen[c] = {"link", "note"}
=============================================================================
