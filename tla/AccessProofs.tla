---------------------------- MODULE AccessProofs ----------------------------
(***************************************************************************)
(* Theorems about Access for any number of accounts, handlers, tabs, chats *)
(* and links: that its state is what it should be, and the safety of       *)
(* throttling, linking, deleting, showing and renewing.                    *)
(***************************************************************************)
EXTENDS Access, FiniteSetTheorems, TLAPS

(* The rows of the tables.                                                 *)
Someone == Users \cup {None}

UserRows == [status : Statuses, password : Passwords \cup {None}]
LinkRows == [user : Someone, expires : Nat, used : BOOLEAN]
CodeRows == LinkRows
SessionRows == [user : Someone, generation : Nat, previous : Nat, expires : Nat, absolute : Nat,
                short : BOOLEAN, revoked : BOOLEAN, ended : Nat]
IdentityRows == [user : Someone, chat : Chats \cup {None}, linkedAt : Nat, target : BOOLEAN,
                 conversation : BOOLEAN, asked : Nat]
ShareRows == [user : Someone, created : Nat, expires : Nat, revoked : BOOLEAN, ended : Nat]
Messages == [chat : Chats, sent : Nat, n : Nat]
Records == [message : Messages, identity : IdentityIds, owner : Someone]

UsersOK == users \in [Users -> UserRows]
LinksOK == links \in [Links -> LinkRows]
CodesOK == codes \in [Codes -> CodeRows]
SessionsOK == sessions \in [SessionIds -> SessionRows]
LinkedOK ==
  /\ linked \in [IdentityIds -> IdentityRows]
  /\ \A i \in IdentityIds : linked[i].user # None => linked[i].chat # None
SharesOK == shares \in [ShareIds -> ShareRows] /\ note \in [Users -> {"none", "active", "trash"}]
ContentOK == content \in [Users -> [Kinds -> Nat]]
MeterOK == meter \in [MeterKeys -> Rows]
ClockOK == now \in Nat /\ behind \in Nat
MessagesOK ==
  /\ written \subseteq Messages /\ IsFiniteSet(written)
  /\ kept \in [Users -> SUBSET Records] /\ ignored \in [Users -> SUBSET Records]
ToldOK == told \subseteq Chats

TablesOK ==
  /\ ClockOK /\ UsersOK /\ LinksOK /\ CodesOK /\ SessionsOK /\ LinkedOK /\ SharesOK /\ ContentOK /\ MeterOK
  /\ MessagesOK /\ ToldOK

(* What is under way between the browser and Core.                         *)
Presented == [session : SessionIds, generation : Nat, at : Nat]

BrowserOK ==
  /\ jar \in Tokens \cup {None}
  /\ sent \in [Tabs -> Presented \cup {None}]
  /\ answer \in [Tabs -> Replies \cup {None}]
  /\ due \in [Tabs -> Nat]
  /\ locks \in BOOLEAN /\ hiccup \in BOOLEAN

(* The handlers that are at work, by the request they serve.               *)
Asks ==
  [at : {"change", "leave", "log out", "revoke session", "revoke all", "write note", "count codes", "insert code",
         "share", "revoke", "revoke all shares", "move note"},
   user : Users, session : SessionIds]
Logins ==
  [at : {"charge", "check", "reset", "refund", "sign in"}, keys : Seq(MeterKeys), op : {"login"},
   user : Users, password : Passwords, address : Addresses, remember : BOOLEAN]
Confirmations ==
  [at : {"charge", "check", "reset", "set password", "delete", "mark deleting"}, keys : Seq(MeterKeys),
   op : {"change", "leave"}, user : Users, session : SessionIds, password : Passwords]
Activations ==
  [at : {"charge", "check", "activate", "forget attempts"}, keys : Seq(MeterKeys), op : {"activate"},
   link : Links, address : Addresses]
Issues == [at : {"issue"}, user : Users, old : SUBSET Links]
Settings == [at : {"set status"}, user : Users, status : {"disabled", "pending", "active"}]
Deletions == [at : {"delete", "mark deleting"}, user : Users]
Failed_ == [at : {"count failure"}, chat : Chats]
Linkings ==
  [at : {"link", "count failure", "linked"}, chat : Chats, code : Codes, user : Users, asked : Nat, read : Nat]
Storings == [at : {"store"}, message : Messages, user : Users, identity : IdentityIds]
Visits == [at : {"look up"}, share : ShareIds, wants : {"show", "find file"}]
Views == [at : {"look at note", "find file", "show"}, share : ShareIds, wants : {"show", "find file"}, owner : Someone]

Calls ==
  {Done} \cup Asks \cup Logins \cup Confirmations \cup Activations \cup Issues \cup Settings \cup Deletions
  \cup Failed_ \cup Linkings \cup Storings \cup Visits \cup Views

(* A handler that counts attempts has keys to count them with, and what it *)
(* takes back is never the one that is guarded.                            *)
KeysLeft(r) ==
  /\ r.at \in {"charge", "refund"} => r.keys # <<>>
  /\ r.at = "refund" => r.keys \in Seq(MeterKeys \ GuardedKeys)

CallsOK == call \in [Callers -> {r \in Calls : KeysLeft(r)}]

Jobs ==
  {Asleep} \cup [at : {"batch", "files"}, step : 1 .. 4, accounts : Seq(Users) \ {<<>>}]
  \cup [at : {"account"}, accounts : Seq(Users) \ {<<>>}, seen : Nat]

JobOK == job \in [Workers -> Jobs]

TypeInv == TablesOK /\ BrowserOK /\ CallsOK /\ JobOK
-----------------------------------------------------------------------------
(* Guessing: a row counts the attempts that were let through since it was  *)
(* reset, unless it was purged after the last of them was long ago.        *)
Counted(k) ==
  LET n == Len(tries[k])
  IN  \/ n = 0 /\ meter[k] = Fresh
      \/ /\ n > 0 /\ meter[k].failures = n /\ meter[k].at = tries[k][n]
         /\ Delay(PolicyOf(k), n) > 0 => meter[k].until >= tries[k][n] + Delay(PolicyOf(k), n)
      \/ n > 0 /\ meter[k] = Fresh /\ tries[k][n] < now - RetainThrottle

Spaced(k) ==
  /\ \A n \in 1 .. Len(tries[k]) : tries[k][n] <= now
  /\ \A n \in 2 .. Len(tries[k]) : tries[k][n] - tries[k][n - 1] >= Delay(PolicyOf(k), n - 1)

GuessInv == tries \in [GuardedKeys -> Seq(Nat)] /\ \A k \in GuardedKeys : Counted(k) /\ Spaced(k)

(* Linking: a row that was made stays, with the time the chat asked.       *)
Made(i) == linked[i].chat # None

LinkInv ==
  /\ \A i \in IdentityIds : linked[i].linkedAt = linked[i].asked
  /\ \A c \in Callers : At(c, "link") => call[c].asked <= call[c].read
  /\ \A u \in Users : \A r \in kept[u] \cup ignored[u] : Made(r.identity)
  /\ ChatHistoryStaysOut

(* Showing: what a request has found out was seen to be in order.          *)
ViewInv ==
  \A c \in Callers :
    /\ seen[c] \subseteq {"link", "note"}
    /\ At(c, "look at note") /\ call[c].owner # None => "link" \in seen[c]
    /\ At(c, "find file") \/ At(c, "show") => seen[c] = {"link", "note"}

(* Renewing with Web Locks: one tab at a time, and everything that is      *)
(* under way bears the current generation; so does the cookie, unless the  *)
(* answer that replaces it is on its way.                                  *)
Begun(s) == sessions[s].absolute > 0
Current(token) == token.generation = sessions[token.session].generation
Answered(t) == answer[t] # None /\ answer[t].token # None

TokensBegun ==
  /\ jar # None => Begun(jar.session)
  /\ \A t \in Tabs : sent[t] # None => Begun(sent[t].session)
  /\ \A t \in Tabs : Answered(t) => Begun(answer[t].token.session)

OneAtATime ==
  /\ \A t \in Tabs : sent[t] # None => answer[t] = None
  /\ \A t, r \in Tabs : Busy(t) /\ Busy(r) => t = r

TokensCurrent ==
  /\ \A t \in Tabs : sent[t] # None => Current(sent[t])
  /\ \A t \in Tabs : Answered(t) => Current(answer[t].token)
  /\ jar # None /\ (\A t \in Tabs : Answered(t) => answer[t].token.session # jar.session) => Current(jar)

RenewInv == TokensBegun /\ (locks => OneAtATime) /\ (locks /\ ~ hiccup => TokensCurrent)
-----------------------------------------------------------------------------
(* Where a handler is tells what it has.                                   *)
LEMMA Phases ==
  ASSUME CallsOK, NEW c \in Callers
  PROVE  /\ call[c] \in Calls /\ KeysLeft(call[c]) /\ "at" \in DOMAIN call[c]
         /\ call[c].at \in {"change", "leave", "log out", "revoke session", "revoke all", "write note", "count codes",
                            "insert code", "share", "revoke", "revoke all shares", "move note"} => call[c] \in Asks
         /\ call[c].at \in {"charge", "check"} => call[c] \in Logins \cup Confirmations \cup Activations
         /\ call[c].at = "reset" => call[c] \in Logins \cup Confirmations
         /\ call[c].at \in {"refund", "sign in"} => call[c] \in Logins
         /\ call[c].at = "set password" => call[c] \in Confirmations
         /\ call[c].at \in {"delete", "mark deleting"} => call[c] \in Confirmations \cup Deletions
         /\ call[c].at \in {"activate", "forget attempts"} => call[c] \in Activations
         /\ call[c].at = "issue" => call[c] \in Issues
         /\ call[c].at = "set status" => call[c] \in Settings
         /\ call[c].at = "count failure" => call[c] \in Failed_ \cup Linkings
         /\ call[c].at \in {"link", "linked"} => call[c] \in Linkings
         /\ call[c].at = "store" => call[c] \in Storings
         /\ call[c].at = "look up" => call[c] \in Visits
         /\ call[c].at \in {"look at note", "find file", "show"} => call[c] \in Views
  <1>1. call[c] \in Calls /\ KeysLeft(call[c])
    BY DEF CallsOK
  <1>2. call[c] = Done => call[c].at = "done" /\ "at" \in DOMAIN call[c]
    BY DEF Done
  <1>3. call[c] \in Asks => call[c].at \in {"change", "leave", "log out", "revoke session", "revoke all", "write note", "count codes", "insert code",
         "share", "revoke", "revoke all shares", "move note"} /\ "at" \in DOMAIN call[c]
    BY DEF Asks
  <1>4. call[c] \in Logins => call[c].at \in {"charge", "check", "reset", "refund", "sign in"} /\ "at" \in DOMAIN call[c]
    BY DEF Logins
  <1>5. call[c] \in Confirmations => call[c].at \in {"charge", "check", "reset", "set password", "delete", "mark deleting"} /\ "at" \in DOMAIN call[c]
    BY DEF Confirmations
  <1>6. call[c] \in Activations => call[c].at \in {"charge", "check", "activate", "forget attempts"} /\ "at" \in DOMAIN call[c]
    BY DEF Activations
  <1>7. call[c] \in Issues => call[c].at \in {"issue"} /\ "at" \in DOMAIN call[c]
    BY DEF Issues
  <1>8. call[c] \in Settings => call[c].at \in {"set status"} /\ "at" \in DOMAIN call[c]
    BY DEF Settings
  <1>9. call[c] \in Deletions => call[c].at \in {"delete", "mark deleting"} /\ "at" \in DOMAIN call[c]
    BY DEF Deletions
  <1>10. call[c] \in Failed_ => call[c].at \in {"count failure"} /\ "at" \in DOMAIN call[c]
    BY DEF Failed_
  <1>11. call[c] \in Linkings => call[c].at \in {"link", "count failure", "linked"} /\ "at" \in DOMAIN call[c]
    BY DEF Linkings
  <1>12. call[c] \in Storings => call[c].at \in {"store"} /\ "at" \in DOMAIN call[c]
    BY DEF Storings
  <1>13. call[c] \in Visits => call[c].at \in {"look up"} /\ "at" \in DOMAIN call[c]
    BY DEF Visits
  <1>14. call[c] \in Views => call[c].at \in {"look at note", "find file", "show"} /\ "at" \in DOMAIN call[c]
    BY DEF Views
  <1> QED
    BY <1>1, <1>2, <1>3, <1>4, <1>5, <1>6, <1>7, <1>8, <1>9, <1>10, <1>11, <1>12, <1>13, <1>14 DEF Calls

LEMMA CallMoves ==
  ASSUME CallsOK, NEW c \in Callers, NEW r \in Calls, KeysLeft(r), call' = [call EXCEPT ![c] = r]
  PROVE  CallsOK'
  BY DEF CallsOK, KeysLeft

LEMMA CallEnds ==
  ASSUME CallsOK, NEW c \in Callers, Returns(c)
  PROVE  CallsOK'
  <1>1. Done \in Calls /\ KeysLeft(Done)
    BY DEF Calls, Done, KeysLeft
  <1> QED
    BY <1>1, CallMoves DEF Returns

(* Most steps only decide what a handler does next.                        *)
Frame == <<now, rowVars, throttleVars, job, browserVars, chatVars, shareVars>>

LEMMA FrameKeepsTypes ==
  ASSUME TypeInv, UNCHANGED Frame
  PROVE  TablesOK' /\ BrowserOK' /\ JobOK'
  <1>1. TablesOK'
    BY DEF TypeInv, Frame, rowVars, throttleVars, chatVars, shareVars, TablesOK, ClockOK, UsersOK, LinksOK, CodesOK, SessionsOK,
           LinkedOK, SharesOK, ContentOK, MeterOK, MessagesOK, ToldOK
  <1>2. BrowserOK' /\ JobOK'
    BY DEF TypeInv, Frame, browserVars, BrowserOK, JobOK
  <1> QED
    BY <1>1, <1>2

LEMMA SessionOwner ==
  ASSUME TypeInv, NEW s \in SessionIds, Authenticated(s)
  PROVE  sessions[s].user \in Users
  BY AccountsAssumption DEF TypeInv, TablesOK, SessionsOK, SessionRows, Someone, Authenticated, Live

LEMMA RequestTypes ==
  ASSUME TypeInv, NEW c \in Callers, NEW family, NEW step \in {"change", "leave", "log out", "revoke session", "revoke all",
           "write note", "count codes", "insert code", "share", "revoke", "revoke all shares", "move note"},
         Request(c, family, step)
  PROVE  CallsOK'
  <1>1. jar \in Tokens /\ Authenticated(jar.session)
    BY DEF TypeInv, BrowserOK, Request
  <1>2. jar.session \in SessionIds
    BY <1>1 DEF Tokens
  <1>3. sessions[jar.session].user \in Users
    BY <1>1, <1>2, SessionOwner
  <1> DEFINE r == [at |-> step, user |-> sessions[jar.session].user, session |-> jar.session]
  <1>4. r \in Asks
    BY <1>2, <1>3 DEF Asks
  <1>5. r \in Calls /\ KeysLeft(r)
    BY <1>4 DEF Calls, KeysLeft
  <1>6. call' = [call EXCEPT ![c] = r]
    BY DEF Request
  <1> HIDE DEF r
  <1> QED
    BY <1>5, <1>6, CallMoves DEF TypeInv

LEMMA KeyTypes ==
  ASSUME NEW u \in Users, NEW a \in Addresses, NEW x \in Chats
  PROVE  /\ PairKey(u, a) \in GuardedKeys /\ PasswordKey(u) \in GuardedKeys
         /\ AccountKey(u) \in MeterKeys \ GuardedKeys /\ AddressKey(a) \in MeterKeys \ GuardedKeys
         /\ ActivationKey(a) \in MeterKeys \ GuardedKeys /\ PairingKey(x) \in MeterKeys \ GuardedKeys
  BY DEF MeterKeys, GuardedKeys, PairKey, PasswordKey, AccountKey, AddressKey, ActivationKey, PairingKey

LEMMA GuardedAreKeys == GuardedKeys \subseteq MeterKeys
  BY DEF MeterKeys

(* A handler stays with its request and goes on to another step of it.     *)
LEMMA GoesOn ==
  ASSUME CallsOK, NEW c \in Callers, NEW step, GoesTo(c, step), [call[c] EXCEPT !.at = step] \in Calls, step \notin {"charge", "refund"}
  PROVE  CallsOK'
  <1> DEFINE r == [call[c] EXCEPT !.at = step]
  <1>1. call' = [call EXCEPT ![c] = r]
    BY DEF GoesTo
  <1>2. r.at = step
    BY Phases
  <1>3. KeysLeft(r)
    BY <1>2 DEF KeysLeft
  <1>4. r \in Calls
    OBVIOUS
  <1> HIDE DEF r
  <1> QED
    BY <1>1, <1>3, <1>4, CallMoves

-----------------------------------------------------------------------------
(* The steps that only look, and decide what the handler does next.        *)
LookStep(c) ==
  \/ ChangePassword(c) \/ DeleteMyAccount(c) \/ Logout(c) \/ RevokeSession(c) \/ RevokeAllSessions(c) \/ PostNote(c)
  \/ Login(c) \/ (\E op \in {"change", "leave"} : Confirm(c, op)) \/ CheckPassword(c)
  \/ IssueActivation(c) \/ Activate(c) \/ PeekLink(c) \/ SetDisabled(c) \/ AdminDeleteUser(c) \/ RequestDeletion(c)
LookAtChat(c) == CreateCode(c) \/ CreatePairingCode(c) \/ Link(c) \/ Ingest(c)
LookAtShare(c) ==
  \/ CreateShareLink(c) \/ RevokeShareLink(c) \/ RevokeAllShareLinks(c) \/ MoveOrRestore(c)
  \/ OpenShare(c) \/ LookUp(c) \/ LookAtNote(c) \/ Show(c) \/ FindFile(c)

Looks(c) ==
  \/ LookStep(c) /\ UNCHANGED <<chatVars, shareVars>>
  \/ LookAtChat(c) /\ UNCHANGED shareVars
  \/ LookAtShare(c) /\ UNCHANGED chatVars

LEMMA LooksFrame ==
  ASSUME NEW c, Looks(c)
  PROVE  UNCHANGED Frame
  <1>1. CASE LookStep(c) /\ UNCHANGED <<chatVars, shareVars>>
    BY <1>1 DEF LookStep, Frame, ChangePassword, DeleteMyAccount, Logout, RevokeSession, RevokeAllSessions, PostNote, Request,
       Login, Confirm, CheckPassword, IssueActivation, Activate, PeekLink, SetDisabled, AdminDeleteUser, RequestDeletion
  <1>2. CASE LookAtChat(c) /\ UNCHANGED shareVars
    BY <1>2 DEF LookAtChat, Frame, CreateCode, CreatePairingCode, Link, Ingest, Request
  <1>3. CASE LookAtShare(c) /\ UNCHANGED chatVars
    BY <1>3 DEF LookAtShare, Frame, CreateShareLink, RevokeShareLink, RevokeAllShareLinks, MoveOrRestore, OpenShare, LookUp,
       LookAtNote, Show, FindFile, Request
  <1> QED
    BY <1>1, <1>2, <1>3 DEF Looks

(* An attempt goes through the throttle, or the handler is done.           *)
LEMMA AttemptTypes ==
  ASSUME CallsOK, NEW c \in Callers, NEW r \in Logins \cup Confirmations \cup Activations, r.at = "charge", r.keys # <<>>,
         Attempt(c, r)
  PROVE  CallsOK'
  <1>1. r \in Calls /\ KeysLeft(r)
    BY DEF Calls, KeysLeft
  <1>2. Done \in Calls /\ KeysLeft(Done)
    BY DEF Calls, Done, KeysLeft
  <1>3. CASE Blocked(r.keys)
    BY <1>2, <1>3, CallMoves DEF Attempt
  <1>4. CASE ~ Blocked(r.keys)
    BY <1>1, <1>4, CallMoves DEF Attempt
  <1> QED
    BY <1>3, <1>4

LEMMA LoginTypes ==
  ASSUME TypeInv, NEW c \in Callers, Login(c)
  PROVE  CallsOK'
  <1>1. PICK u \in Users, p \in Passwords, a \in Addresses, remember \in BOOLEAN :
          Attempt(c, [at |-> "charge", keys |-> <<PairKey(u, a), AccountKey(u), AddressKey(a)>>,
                      op |-> "login", user |-> u, password |-> p, address |-> a, remember |-> remember])
    BY DEF Login
  <1> DEFINE r == [at |-> "charge", keys |-> <<PairKey(u, a), AccountKey(u), AddressKey(a)>>,
                   op |-> "login", user |-> u, password |-> p, address |-> a, remember |-> remember]
  <1>2. PairKey(u, a) \in MeterKeys /\ AccountKey(u) \in MeterKeys /\ AddressKey(a) \in MeterKeys
    BY DEF MeterKeys, GuardedKeys, PairKey, PasswordKey, AccountKey, AddressKey
  <1>3. <<PairKey(u, a), AccountKey(u), AddressKey(a)>> \in Seq(MeterKeys) /\ <<PairKey(u, a), AccountKey(u), AddressKey(a)>> # <<>>
    BY <1>2
  <1>4. r \in Logins /\ r.at = "charge" /\ r.keys # <<>>
    BY <1>3 DEF Logins
  <1> HIDE DEF r
  <1> QED
    BY <1>1, <1>4, AttemptTypes DEF TypeInv, r

LEMMA ConfirmTypes ==
  ASSUME TypeInv, NEW c \in Callers, NEW op \in {"change", "leave"}, Confirm(c, op)
  PROVE  CallsOK'
  <1>1. call[c] \in Asks
    BY Phases DEF TypeInv, Confirm, At
  <1> DEFINE u == call[c].user
  <1>2. PICK p \in Passwords :
          Attempt(c, [at |-> "charge", keys |-> <<PasswordKey(call[c].user)>>,
                      op |-> op, user |-> call[c].user, session |-> call[c].session, password |-> p])
    BY DEF Confirm
  <1> DEFINE r == [at |-> "charge", keys |-> <<PasswordKey(u)>>, op |-> op, user |-> u, session |-> call[c].session, password |-> p]
  <1>3. u \in Users /\ call[c].session \in SessionIds
    BY <1>1 DEF Asks
  <1>4. PasswordKey(u) \in MeterKeys
    BY <1>3 DEF MeterKeys, GuardedKeys
  <1>5. r \in Confirmations /\ r.at = "charge" /\ r.keys # <<>>
    BY <1>3, <1>4 DEF Confirmations
  <1>6. Attempt(c, r)
    BY <1>2
  <1> HIDE DEF r
  <1> QED
    BY <1>5, <1>6, AttemptTypes DEF TypeInv

LEMMA ActivateTypes ==
  ASSUME TypeInv, NEW c \in Callers, Activate(c)
  PROVE  CallsOK'
  <1>1. PICK l \in Links, a \in Addresses :
          Attempt(c, [at |-> "charge", keys |-> <<ActivationKey(a)>>, op |-> "activate", link |-> l, address |-> a])
    BY DEF Activate
  <1> DEFINE r == [at |-> "charge", keys |-> <<ActivationKey(a)>>, op |-> "activate", link |-> l, address |-> a]
  <1>2. ActivationKey(a) \in MeterKeys
    BY DEF MeterKeys
  <1>3. r \in Activations /\ r.at = "charge" /\ r.keys # <<>>
    BY <1>2 DEF Activations
  <1>4. Attempt(c, r)
    BY <1>1
  <1> HIDE DEF r
  <1> QED
    BY <1>3, <1>4, AttemptTypes DEF TypeInv

LEMMA LookStepTypes ==
  ASSUME TypeInv, NEW c \in Callers, LookStep(c)
  PROVE  CallsOK'
  <1> USE DEF TypeInv
  <1>1. CASE ChangePassword(c) \/ DeleteMyAccount(c) \/ Logout(c) \/ RevokeSession(c) \/ RevokeAllSessions(c) \/ PostNote(c)
    BY <1>1, RequestTypes DEF ChangePassword, DeleteMyAccount, Logout, RevokeSession, RevokeAllSessions, PostNote
  <1>2. CASE Login(c)
    BY <1>2, LoginTypes
  <1>3. CASE \E op \in {"change", "leave"} : Confirm(c, op)
    BY <1>3, ConfirmTypes
  <1>4. CASE CheckPassword(c)
    <2>1. call[c] \in Logins \cup Confirmations \cup Activations /\ call[c].op # "activate"
      BY <1>4, Phases DEF CheckPassword, At
    <2>2. call[c] \in Logins \cup Confirmations
      BY <2>1 DEF Activations
    <2>3. [call[c] EXCEPT !.at = "reset"] \in Calls
      BY <2>2 DEF Logins, Confirmations, Calls
    <2> QED
      BY <1>4, <2>3, GoesOn, CallEnds DEF CheckPassword
  <1>5. CASE IssueActivation(c)
    <2>1. PICK u \in Users : call' = [call EXCEPT ![c] = [at |-> "issue", user |-> u, old |-> ActivationLinksOf(u)]]
      BY <1>5 DEF IssueActivation
    <2>2. [at |-> "issue", user |-> u, old |-> ActivationLinksOf(u)] \in Calls
      BY DEF Issues, ActivationLinksOf, Calls
    <2> QED
      BY <2>1, <2>2, CallMoves DEF KeysLeft
  <1>6. CASE Activate(c)
    BY <1>6, ActivateTypes
  <1>7. CASE PeekLink(c)
    <2>1. call[c] \in Logins \cup Confirmations \cup Activations /\ call[c].op = "activate"
      BY <1>7, Phases DEF PeekLink, At
    <2>2. call[c] \in Activations
      BY <2>1 DEF Logins, Confirmations
    <2>3. [call[c] EXCEPT !.at = "activate"] \in Calls
      BY <2>2 DEF Activations, Calls
    <2> QED
      BY <1>7, <2>3, GoesOn, CallEnds DEF PeekLink
  <1>8. CASE SetDisabled(c)
    <2>1. PICK u \in Users, disabled \in BOOLEAN :
            call' = [call EXCEPT ![c] = [at |-> "set status", user |-> u,
               status |-> IF disabled THEN "disabled" ELSE IF users[u].password = None THEN "pending" ELSE "active"]]
      BY <1>8 DEF SetDisabled
    <2> DEFINE r == [at |-> "set status", user |-> u,
               status |-> IF disabled THEN "disabled" ELSE IF users[u].password = None THEN "pending" ELSE "active"]
    <2>2. r \in Calls /\ KeysLeft(r)
      BY DEF Settings, Calls, KeysLeft
    <2> HIDE DEF r
    <2> QED
      BY <2>1, <2>2, CallMoves DEF r
  <1>9. CASE AdminDeleteUser(c)
    <2>1. PICK u \in Users : call' = [call EXCEPT ![c] = [at |-> "delete", user |-> u]]
      BY <1>9 DEF AdminDeleteUser
    <2>2. [at |-> "delete", user |-> u] \in Calls
      BY DEF Deletions, Calls
    <2> QED
      BY <2>1, <2>2, CallMoves DEF KeysLeft
  <1>10. CASE RequestDeletion(c)
    <2>1. call[c] \in Confirmations \cup Deletions
      BY <1>10, Phases DEF RequestDeletion, At
    <2>2. [call[c] EXCEPT !.at = "mark deleting"] \in Calls
      BY <2>1 DEF Confirmations, Deletions, Calls
    <2> QED
      BY <1>10, <2>2, GoesOn, CallEnds DEF RequestDeletion
  <1> QED
    BY <1>1, <1>2, <1>3, <1>4, <1>5, <1>6, <1>7, <1>8, <1>9, <1>10 DEF LookStep

LEMMA LookAtChatTypes ==
  ASSUME TypeInv, NEW c \in Callers, LookAtChat(c)
  PROVE  CallsOK'
  <1> USE DEF TypeInv
  <1>1. CASE CreateCode(c)
    BY <1>1, RequestTypes DEF CreateCode
  <1>2. CASE CreatePairingCode(c)
    <2>1. call[c] \in Asks
      BY <1>2, Phases DEF CreatePairingCode, At
    <2>2. [call[c] EXCEPT !.at = "insert code"] \in Calls
      BY <2>1 DEF Asks, Calls
    <2> QED
      BY <1>2, <2>2, GoesOn, CallEnds DEF CreatePairingCode
  <1>3. CASE Link(c)
    <2>1. PICK x \in Chats, k \in Codes, asked \in 0 .. ServerTime :
            call' = [call EXCEPT ![c] =
              IF IsBlocked(meter[PairingKey(x)], now) THEN Done
              ELSE IF ~ CodeIsGood(k) THEN [at |-> "count failure", chat |-> x]
              ELSE IF IdentityOf(x) # {} THEN Done
              ELSE [at |-> "link", chat |-> x, code |-> k, user |-> codes[k].user, asked |-> asked, read |-> now]]
      BY <1>3 DEF Link
    <2>2. Done \in Calls /\ KeysLeft(Done)
      BY DEF Calls, Done, KeysLeft
    <2>3. [at |-> "count failure", chat |-> x] \in Calls /\ KeysLeft([at |-> "count failure", chat |-> x])
      BY DEF Failed_, Calls, KeysLeft
    <2> DEFINE r == [at |-> "link", chat |-> x, code |-> k, user |-> codes[k].user, asked |-> asked, read |-> now]
    <2>4. ASSUME CodeIsGood(k) PROVE r \in Calls /\ KeysLeft(r)
      <3>1. codes[k].user \in Users
        BY <2>4 DEF CodeIsGood, TablesOK, CodesOK, CodeRows, LinkRows, Someone
      <3>2. asked \in Nat /\ now \in Nat
        BY DEF TablesOK, ClockOK, ServerTime
      <3> QED
        BY <3>1, <3>2 DEF Linkings, Calls, KeysLeft
    <2> HIDE DEF r
    <2>5. CASE IsBlocked(meter[PairingKey(x)], now)
      BY <2>1, <2>2, <2>5, CallMoves
    <2>6. CASE ~ IsBlocked(meter[PairingKey(x)], now) /\ ~ CodeIsGood(k)
      BY <2>1, <2>3, <2>6, CallMoves
    <2>7. CASE ~ IsBlocked(meter[PairingKey(x)], now) /\ CodeIsGood(k) /\ IdentityOf(x) # {}
      BY <2>1, <2>2, <2>7, CallMoves
    <2>8. CASE ~ IsBlocked(meter[PairingKey(x)], now) /\ CodeIsGood(k) /\ IdentityOf(x) = {}
      <3>1. call' = [call EXCEPT ![c] = r]
        BY <2>1, <2>8 DEF r
      <3> QED
        BY <2>4, <2>8, <3>1, CallMoves
    <2> QED
      BY <2>5, <2>6, <2>7, <2>8
  <1>4. CASE Ingest(c)
    <2>1. PICK m \in written :
            call' = [call EXCEPT ![c] =
              IF IdentityOf(m.chat) = {} THEN Done
              ELSE LET i == CHOOSE i \in IdentityOf(m.chat) : TRUE
                   IN  [at |-> "store", message |-> m, user |-> linked[i].user, identity |-> i]]
      BY <1>4 DEF Ingest
    <2>2. Done \in Calls /\ KeysLeft(Done)
      BY DEF Calls, Done, KeysLeft
    <2>3. CASE IdentityOf(m.chat) = {}
      BY <2>1, <2>2, <2>3, CallMoves
    <2>4. CASE IdentityOf(m.chat) # {}
      <3> DEFINE i == CHOOSE i \in IdentityOf(m.chat) : TRUE
      <3> DEFINE r == [at |-> "store", message |-> m, user |-> linked[i].user, identity |-> i]
      <3>1. i \in IdentityOf(m.chat)
        BY <2>4
      <3>2. i \in IdentityIds /\ linked[i].user \in Users
        BY <3>1 DEF IdentityOf, TablesOK, LinkedOK, IdentityRows, Someone
      <3>3. m \in Messages
        BY DEF TablesOK, MessagesOK
      <3>4. r \in Calls /\ KeysLeft(r)
        BY <3>2, <3>3 DEF Storings, Calls, KeysLeft
      <3>5. call' = [call EXCEPT ![c] = r]
        BY <2>1, <2>4
      <3> HIDE DEF r
      <3> QED
        BY <3>4, <3>5, CallMoves
    <2> QED
      BY <2>3, <2>4
  <1> QED
    BY <1>1, <1>2, <1>3, <1>4 DEF LookAtChat

LEMMA LookAtShareTypes ==
  ASSUME TypeInv, NEW c \in Callers, LookAtShare(c)
  PROVE  CallsOK'
  <1> USE DEF TypeInv
  <1>1. CASE CreateShareLink(c) \/ RevokeShareLink(c) \/ RevokeAllShareLinks(c) \/ MoveOrRestore(c)
    BY <1>1, RequestTypes DEF CreateShareLink, RevokeShareLink, RevokeAllShareLinks, MoveOrRestore
  <1>2. CASE OpenShare(c)
    <2>1. PICK h \in ShareIds, wants \in {"show", "find file"} :
            call' = [call EXCEPT ![c] = [at |-> "look up", share |-> h, wants |-> wants]]
      BY <1>2 DEF OpenShare
    <2>2. [at |-> "look up", share |-> h, wants |-> wants] \in Calls
      BY DEF Visits, Calls
    <2> QED
      BY <2>1, <2>2, CallMoves DEF KeysLeft
  <1>3. CASE LookUp(c)
    <2>1. call[c] \in Visits
      BY <1>3, Phases DEF LookUp, At
    <2> DEFINE h == call[c].share
    <2> DEFINE r == [at |-> "look at note", share |-> h, wants |-> call[c].wants,
                     owner |-> IF LinkWorks(h) THEN shares[h].user ELSE None]
    <2>2. h \in ShareIds /\ call[c].wants \in {"show", "find file"}
      BY <2>1 DEF Visits
    <2>3. shares[h].user \in Someone /\ None \in Someone
      BY <2>2 DEF TablesOK, SharesOK, ShareRows, Someone
    <2>4. r \in Calls /\ KeysLeft(r)
      BY <2>2, <2>3 DEF Views, Calls, KeysLeft
    <2>5. call' = [call EXCEPT ![c] = r]
      BY <1>3, <2>2 DEF LookUp, CallsOK
    <2> HIDE DEF r
    <2> QED
      BY <2>4, <2>5, CallMoves
  <1>4. CASE LookAtNote(c)
    <2>1. call[c] \in Views
      BY <1>4, Phases DEF LookAtNote, At
    <2>2. [call[c] EXCEPT !.at = call[c].wants] \in Calls
      BY <2>1 DEF Views, Calls
    <2>3. call[c].wants \notin {"charge", "refund"}
      BY <2>1 DEF Views
    <2> QED
      BY <1>4, <2>2, <2>3, GoesOn, CallEnds DEF LookAtNote
  <1>5. CASE Show(c)
    BY <1>5, CallEnds DEF Show
  <1>6. CASE FindFile(c)
    <2>1. call[c] \in Views
      BY <1>6, Phases DEF FindFile, At
    <2>2. [call[c] EXCEPT !.at = "show"] \in Calls
      BY <2>1 DEF Views, Calls
    <2> QED
      BY <1>6, <2>2, GoesOn, CallEnds DEF FindFile
  <1> QED
    BY <1>1, <1>2, <1>3, <1>4, <1>5, <1>6 DEF LookAtShare

LEMMA LooksTypes ==
  ASSUME TypeInv, NEW c \in Callers, Looks(c)
  PROVE  TypeInv'
  BY LooksFrame, FrameKeepsTypes, LookStepTypes, LookAtChatTypes, LookAtShareTypes DEF Looks, TypeInv

-----------------------------------------------------------------------------
(* The throttle *)

LEMMA PowersAreNumbers ==
  ASSUME NEW i \in 1 .. 20
  PROVE  PowersOfTwo[i] \in Nat
  BY DEF PowersOfTwo

LEMMA DelayType ==
  ASSUME NEW p \in Policies, NEW n \in Nat
  PROVE  Delay(p, n) \in Nat
  <1>1. p.free \in Nat /\ p.max \in Nat
    BY DEF Policies
  <1>2. CASE n - p.free \in 1 .. 20
    <2>1. PowersOfTwo[n - p.free] \in Nat
      BY <1>2, PowersAreNumbers
    <2> QED
      BY <1>1, <1>2, <2>1 DEF Delay
  <1> QED
    BY <1>1, <1>2 DEF Delay

LEMMA PolicyType ==
  ASSUME NEW k \in MeterKeys
  PROVE  PolicyOf(k) \in Policies
  <1>1. {PairPolicy, AccountPolicy, AddressPolicy, ActivationPolicy, SecretPolicy, PairingPolicy} \subseteq Policies
    BY AccountsAssumption
  <1> QED
    BY <1>1 DEF PolicyOf, MeterKeys, GuardedKeys, PairKey, PasswordKey, AccountKey, PairingKey, AddressKey, ActivationKey

LEMMA RowTypes ==
  ASSUME NEW row \in Rows, NEW p \in Policies, NEW t \in Nat
  PROVE  /\ Fresh \in Rows /\ Charged(row, p, t) \in Rows /\ Failed(row, p, t) \in Rows /\ Refunded(row, p) \in Rows
         /\ Failures(row, t) \in Nat
  <1>1. row.failures \in Nat /\ row.until \in Nat /\ row.at \in Nat
    BY DEF Rows
  <1>2. Failures(row, t) \in Nat
    BY <1>1 DEF Failures
  <1>3. Delay(p, Failures(row, t)) \in Nat
    BY <1>2, DelayType
  <1>4. Until(p, Failures(row, t), t, 0) \in Nat /\ Until(p, Failures(row, t), t, row.until) \in Nat
    BY <1>1, <1>3 DEF Until
  <1>5. Fresh \in Rows
    BY DEF Fresh, Rows
  <1>6. Charged(row, p, t) \in Rows
    BY <1>2, <1>4 DEF Charged, SetThrottle, Rows
  <1>7. Failed(row, p, t) \in Rows
    BY <1>2, <1>4 DEF Failed, SetThrottleBlock, Rows
  <1>8. Refunded(row, p) \in Rows
    BY <1>1, <1>5 DEF Refunded, SetThrottle, Rows
  <1> QED
    BY <1>2, <1>5, <1>6, <1>7, <1>8

(* What the throttle's steps leave alone.                                  *)
ThrottleStep(c) ==
  \/ (Charge(c) \/ Refund(c) \/ Succeed(c) \/ ForgetAttempts(c)) /\ UNCHANGED <<chatVars, shareVars>>
  \/ (CountFailure(c) \/ ForgetFailures(c)) /\ UNCHANGED shareVars

ThrottleFrame == <<now, rowVars, job, browserVars, chatVars, shareVars>>

LEMMA ThrottleStepFrame ==
  ASSUME NEW c, ThrottleStep(c)
  PROVE  UNCHANGED ThrottleFrame
  BY DEF ThrottleStep, ThrottleFrame, Charge, Refund, Succeed, ForgetAttempts, CountFailure, ForgetFailures

LEMMA ThrottleFrameTypes ==
  ASSUME TypeInv, UNCHANGED ThrottleFrame, MeterOK', CallsOK'
  PROVE  TypeInv'
  <1>1. TablesOK'
    BY DEF TypeInv, ThrottleFrame, rowVars, chatVars, shareVars, TablesOK, ClockOK, UsersOK, LinksOK, CodesOK, SessionsOK,
           LinkedOK, SharesOK, ContentOK, MessagesOK, ToldOK
  <1>2. BrowserOK' /\ JobOK'
    BY DEF TypeInv, ThrottleFrame, browserVars, BrowserOK, JobOK
  <1> QED
    BY <1>1, <1>2 DEF TypeInv

LEMMA MeterChanges ==
  ASSUME MeterOK, NEW k, NEW row, k \in MeterKeys => row \in Rows, meter' = [meter EXCEPT ![k] = row]
  PROVE  MeterOK'
  BY DEF MeterOK

LEMMA ThrottleTypes ==
  ASSUME TypeInv, NEW c \in Callers, ThrottleStep(c)
  PROVE  TypeInv'
  <1> USE DEF TypeInv
  <1>1. MeterOK /\ now \in Nat /\ Fresh \in Rows
    BY DEF TablesOK, ClockOK, Fresh, Rows
  <1>2. ASSUME NEW k \in MeterKeys
        PROVE  meter[k] \in Rows /\ PolicyOf(k) \in Policies
    BY <1>1, PolicyType DEF MeterOK
  <1>3. PairingPolicy \in Policies
    BY AccountsAssumption
  <1>4. UNCHANGED ThrottleFrame
    BY ThrottleStepFrame
  <1>5. CASE Charge(c)
    <2>1. call[c] \in Logins \cup Confirmations \cup Activations /\ KeysLeft(call[c]) /\ call[c].at = "charge"
      BY <1>5, Phases DEF Charge, At
    <2> DEFINE k == Head(call[c].keys)
    <2> DEFINE rest == Tail(call[c].keys)
    <2>2. call[c].keys \in Seq(MeterKeys) /\ call[c].keys # <<>>
      BY <2>1 DEF Logins, Confirmations, Activations, KeysLeft
    <2>3. k \in MeterKeys /\ rest \in Seq(MeterKeys)
      BY <2>2
    <2>4. CASE Refuses(k)
      <3>1. MeterOK'
        BY <1>5, <2>4, <1>1 DEF Charge, throttleVars, MeterOK
      <3>2. CallsOK'
        BY <1>5, <2>4, CallEnds DEF Charge
      <3> QED
        BY <1>4, <3>1, <3>2, ThrottleFrameTypes
    <2>5. CASE ~ Refuses(k)
      <3>1. meter' = [meter EXCEPT ![k] = Charged(meter[k], PolicyOf(k), now)]
        BY <1>5, <2>5 DEF Charge
      <3>2. MeterOK'
        BY <3>1, <2>3, <1>1, <1>2, RowTypes, MeterChanges
      <3> DEFINE r == [call[c] EXCEPT !.keys = rest, !.at = IF rest = <<>> THEN "check" ELSE "charge"]
      <3>3. call' = [call EXCEPT ![c] = r]
        BY <1>5, <2>5 DEF Charge, CallsOK
      <3>4. r \in Calls /\ r.keys = rest /\ r.at = IF rest = <<>> THEN "check" ELSE "charge"
        <4> PICK step : step = IF rest = <<>> THEN "check" ELSE "charge"
          OBVIOUS
        <4>1. r = [call[c] EXCEPT !.keys = rest, !.at = step] /\ step \in {"check", "charge"}
          OBVIOUS
        <4>2. CASE call[c] \in Logins
          BY <2>3, <4>1, <4>2 DEF Logins, Calls
        <4>3. CASE call[c] \in Confirmations
          BY <2>3, <4>1, <4>3 DEF Confirmations, Calls
        <4>4. CASE call[c] \in Activations
          BY <2>3, <4>1, <4>4 DEF Activations, Calls
        <4> QED
          BY <2>1, <4>2, <4>3, <4>4
      <3>5. KeysLeft(r)
        BY <3>4 DEF KeysLeft
      <3> HIDE DEF r
      <3>6. CallsOK'
        BY <3>3, <3>4, <3>5, CallMoves
      <3> QED
        BY <1>4, <3>2, <3>6, ThrottleFrameTypes
    <2> QED
      BY <2>4, <2>5
  <1>6. CASE Refund(c)
    <2>1. call[c] \in Logins /\ KeysLeft(call[c]) /\ call[c].at = "refund"
      BY <1>6, Phases DEF Refund, At
    <2> DEFINE k == Head(call[c].keys)
    <2> DEFINE rest == Tail(call[c].keys)
    <2>2. call[c].keys \in Seq(MeterKeys) /\ call[c].keys \in Seq(MeterKeys \ GuardedKeys) /\ call[c].keys # <<>>
      BY <2>1 DEF Logins, KeysLeft
    <2>3. k \in MeterKeys /\ rest \in Seq(MeterKeys) /\ rest \in Seq(MeterKeys \ GuardedKeys)
      BY <2>2
    <2>4. MeterOK'
      <3>1. meter' = [meter EXCEPT ![k] = Refunded(meter[k], PolicyOf(k))]
        BY <1>6 DEF Refund
      <3> QED
        BY <3>1, <2>3, <1>1, <1>2, RowTypes, MeterChanges
    <2> DEFINE r == [call[c] EXCEPT !.keys = rest, !.at = IF rest = <<>> THEN "sign in" ELSE "refund"]
    <2>5. call' = [call EXCEPT ![c] = r]
      BY <1>6 DEF Refund, CallsOK
    <2>6. r \in Calls /\ r.keys = rest /\ r.at = IF rest = <<>> THEN "sign in" ELSE "refund"
      BY <2>1, <2>3 DEF Logins, Calls
    <2>7. KeysLeft(r)
      BY <2>3, <2>6 DEF KeysLeft
    <2> HIDE DEF r
    <2>8. CallsOK'
      BY <2>5, <2>6, <2>7, CallMoves
    <2> QED
      BY <1>4, <2>4, <2>8, ThrottleFrameTypes
  <1>7. CASE Succeed(c)
    <2>1. call[c] \in Logins \cup Confirmations
      BY <1>7, Phases DEF Succeed, At
    <2>2. MeterOK'
      BY <1>7, <1>1, MeterChanges DEF Succeed, Reset
    <2> DEFINE keys2 == <<AccountKey(call[c].user), AddressKey(call[c].address)>>
    <2>3. CASE call[c].op = "login"
      <3>1. call[c] \in Logins
        BY <2>1, <2>3 DEF Confirmations
      <3> DEFINE r == [call[c] EXCEPT !.at = "refund", !.keys = keys2]
      <3>2. call' = [call EXCEPT ![c] = r]
        BY <1>7, <2>3 DEF Succeed, CallsOK
      <3>3. call[c].user \in Users /\ call[c].address \in Addresses
        BY <3>1 DEF Logins
      <3>4. AccountKey(call[c].user) \in MeterKeys \ GuardedKeys /\ AddressKey(call[c].address) \in MeterKeys \ GuardedKeys
        BY <3>3 DEF MeterKeys, GuardedKeys, PairKey, PasswordKey, AccountKey, AddressKey
      <3>5. keys2 \in Seq(MeterKeys \ GuardedKeys) /\ keys2 \in Seq(MeterKeys) /\ keys2 # <<>>
        BY <3>4
      <3> HIDE DEF keys2
      <3>6. r \in Logins /\ r.keys = keys2 /\ r.at = "refund"
        BY <3>1, <3>5 DEF Logins
      <3>7. r \in Calls /\ KeysLeft(r)
        BY <3>5, <3>6 DEF KeysLeft, Calls
      <3> HIDE DEF r
      <3>8. CallsOK'
        BY <3>2, <3>7, CallMoves
      <3> QED
        BY <1>4, <2>2, <3>8, ThrottleFrameTypes
    <2>4. CASE call[c].op \in {"change", "leave"}
      <3>1. call[c] \in Confirmations
        BY <2>1, <2>4 DEF Logins
      <3> DEFINE step == IF call[c].op = "change" THEN "set password" ELSE "delete"
      <3>2. GoesTo(c, step)
        BY <1>7, <2>4 DEF Succeed, GoesTo, CallsOK
      <3>3. [call[c] EXCEPT !.at = step] \in Calls
        BY <3>1 DEF Confirmations, Calls
      <3>4. CallsOK'
        BY <3>2, <3>3, GoesOn
      <3> QED
        BY <1>4, <2>2, <3>4, ThrottleFrameTypes
    <2> QED
      BY <2>1, <2>3, <2>4 DEF Logins, Confirmations
  <1>8. CASE ForgetAttempts(c)
    <2>1. MeterOK' /\ CallsOK'
      BY <1>8, <1>1, MeterChanges, CallEnds DEF ForgetAttempts, Reset
    <2> QED
      BY <1>4, <2>1, ThrottleFrameTypes
  <1>9. CASE CountFailure(c)
    <2> DEFINE k == PairingKey(call[c].chat)
    <2>1. meter' = [meter EXCEPT ![k] = Failed(meter[k], PairingPolicy, now)]
      BY <1>9 DEF CountFailure
    <2>2. MeterOK'
      BY <2>1, <1>1, <1>2, <1>3, RowTypes, MeterChanges
    <2>3. CallsOK'
      BY <1>9, CallEnds DEF CountFailure
    <2> QED
      BY <1>4, <2>2, <2>3, ThrottleFrameTypes
  <1>10. CASE ForgetFailures(c)
    <2>1. MeterOK' /\ CallsOK'
      BY <1>10, <1>1, MeterChanges, CallEnds DEF ForgetFailures
    <2> QED
      BY <1>4, <2>1, ThrottleFrameTypes
  <1> QED
    BY <1>5, <1>6, <1>7, <1>8, <1>9, <1>10 DEF ThrottleStep

-----------------------------------------------------------------------------
(* Accounts and sessions *)

LEMMA RevokeTypes ==
  ASSUME ClockOK, SessionsOK, NEW S
  PROVE  RevokeSessions(S, sessions) \in [SessionIds -> SessionRows]
  BY DEF ClockOK, SessionsOK, SessionRows, RevokeSessions

LEMMA NewSessionType ==
  ASSUME ClockOK, NEW u \in Users, NEW remember \in BOOLEAN
  PROVE  NewSession(u, remember) \in SessionRows
  <1>1. Absolute \in Nat /\ SessionOnly \in Nat /\ Idle \in Nat /\ now \in Nat
    BY AccountsAssumption DEF ClockOK
  <1> DEFINE absolute == now + IF remember THEN Absolute ELSE SessionOnly
  <1> DEFINE idle == now + IF remember THEN Idle ELSE SessionOnly
  <1>2. absolute \in Nat /\ idle \in Nat
    BY <1>1
  <1> DEFINE expires == Lesser(idle, absolute)
  <1> DEFINE short == ~ remember
  <1>3. expires \in Nat
    BY <1>2 DEF Lesser
  <1>4. NewSession(u, remember)
          = [NoSession EXCEPT !.user = u, !.expires = expires, !.absolute = absolute, !.short = short]
    BY DEF NewSession
  <1>5. short \in BOOLEAN
    OBVIOUS
  <1> HIDE DEF absolute, idle, expires, short
  <1> QED
    <2> DEFINE r == NewSession(u, remember)
    <2>1. r.user = u /\ r.generation = 0 /\ r.previous = 0 /\ r.expires = expires /\ r.absolute = absolute
      BY <1>4 DEF NoSession
    <2>2. r.short = short /\ r.revoked = FALSE
      BY <1>4 DEF NoSession
    <2>7. r.ended = 0
      BY <1>4 DEF NoSession
    <2>3. r = [user |-> r.user, generation |-> r.generation, previous |-> r.previous, expires |-> r.expires,
               absolute |-> r.absolute, short |-> r.short, revoked |-> r.revoked, ended |-> r.ended]
      BY <1>4 DEF NoSession
    <2> HIDE DEF r
    <2>4. r.user \in Someone /\ r.generation \in Nat /\ r.previous \in Nat /\ r.expires \in Nat /\ r.absolute \in Nat
      BY <1>2, <1>3, <2>1 DEF Someone
    <2>5. r.short \in BOOLEAN /\ r.revoked \in BOOLEAN
      BY <1>5, <2>2, Zenon
    <2>6. r \in SessionRows
      BY <2>3, <2>4, <2>5, <2>7 DEF SessionRows
    <2> QED
      BY <2>6 DEF r

LEMMA WithoutTypes ==
  ASSUME TablesOK, NEW u
  PROVE  /\ Without(u, sessions) \in [SessionIds -> SessionRows] /\ Without(u, links) \in [Links -> LinkRows]
         /\ Without(u, codes) \in [Codes -> CodeRows] /\ Without(u, linked) \in [IdentityIds -> IdentityRows]
         /\ Without(u, shares) \in [ShareIds -> ShareRows]
  <1>1. Without(u, sessions) \in [SessionIds -> SessionRows]
    BY DEF TablesOK, SessionsOK, SessionRows, Without, Someone
  <1>2. Without(u, links) \in [Links -> LinkRows] /\ Without(u, codes) \in [Codes -> CodeRows]
    BY DEF TablesOK, LinksOK, LinkRows, CodesOK, CodeRows, Without, Someone
  <1>3. Without(u, linked) \in [IdentityIds -> IdentityRows]
    BY DEF TablesOK, LinkedOK, IdentityRows, Without, Someone
  <1>4. Without(u, shares) \in [ShareIds -> ShareRows]
    BY DEF TablesOK, SharesOK, ShareRows, Without, Someone
  <1> QED
    BY <1>1, <1>2, <1>3, <1>4

LEMMA StatusTypes ==
  ASSUME UsersOK, NEW u, NEW status \in Statuses, SetUserStatus(u, status)
  PROVE  UsersOK'
  BY DEF UsersOK, UserRows, SetUserStatus

(* The tables that the steps of accounts write, and what they leave alone. *)
AccountWrite(c) ==
  \/ SignIn(c) \/ SetPassword(c) \/ SignOut(c) \/ SignOutElsewhere(c) \/ SignOutEverywhere(c)
  \/ FinishIssue(c) \/ FinishActivate(c) \/ FinishDisable(c) \/ MarkDeleting(c, ChatsToTell(call[c].user))
  \/ \E u \in Users : CreateUser(u) \/ Bootstrap(u)

AccountFrame == <<now, content, throttleVars, job, sent, answer, due, locks, hiccup>>

LEMMA AccountWriteFrame ==
  ASSUME NEW c, AccountWrite(c)
  PROVE  UNCHANGED AccountFrame
  <1>1. CASE SignIn(c)
    BY <1>1 DEF SignIn, AccountFrame, Receives, browserVars
  <1>2. CASE SetPassword(c)
    BY <1>2 DEF SetPassword, AccountFrame, browserVars
  <1>3. CASE SignOut(c) \/ SignOutElsewhere(c) \/ SignOutEverywhere(c)
    BY <1>3 DEF SignOut, SignOutElsewhere, SignOutEverywhere, Ends, AccountFrame
  <1>4. CASE FinishIssue(c)
    BY <1>4 DEF FinishIssue, AccountFrame, browserVars
  <1>5. CASE FinishActivate(c)
    BY <1>5 DEF FinishActivate, AccountFrame, Receives, browserVars
  <1>6. CASE FinishDisable(c)
    BY <1>6 DEF FinishDisable, AccountFrame, browserVars
  <1>7. CASE MarkDeleting(c, ChatsToTell(call[c].user))
    BY <1>7 DEF MarkDeleting, AccountFrame, browserVars
  <1>8. CASE \E u \in Users : CreateUser(u) \/ Bootstrap(u)
    BY <1>8 DEF CreateUser, Bootstrap, AccountFrame, browserVars
  <1> QED
    BY <1>1, <1>2, <1>3, <1>4, <1>5, <1>6, <1>7, <1>8 DEF AccountWrite

LEMMA AccountFrameTypes ==
  ASSUME TypeInv, UNCHANGED AccountFrame, UNCHANGED <<chatVars, shareVars>>,
         UsersOK', LinksOK', SessionsOK', ToldOK', jar' \in Tokens \cup {None}, CallsOK'
  PROVE  TypeInv'
  <1>1. TablesOK'
    BY DEF TypeInv, AccountFrame, throttleVars, chatVars, shareVars, TablesOK, ClockOK, CodesOK,
           LinkedOK, SharesOK, ContentOK, MeterOK, MessagesOK
  <1>2. BrowserOK' /\ JobOK'
    BY DEF TypeInv, AccountFrame, BrowserOK, JobOK
  <1> QED
    BY <1>1, <1>2 DEF TypeInv

LEMMA AccountWriteTypes ==
  ASSUME TypeInv, NEW c \in Callers, AccountWrite(c), UNCHANGED <<chatVars, shareVars>>
  PROVE  TypeInv'
  <1> USE DEF TypeInv
  <1>1. UNCHANGED AccountFrame
    BY AccountWriteFrame
  <1>2. ClockOK /\ UsersOK /\ LinksOK /\ SessionsOK /\ LinkedOK /\ ToldOK /\ jar \in Tokens \cup {None}
    BY DEF TablesOK, BrowserOK
  <1>3. (users' = users => UsersOK') /\ (links' = links => LinksOK') /\ (sessions' = sessions => SessionsOK')
        /\ (told' = told => ToldOK')
    BY <1>2 DEF UsersOK, LinksOK, SessionsOK, ToldOK
  <1>4. CASE SignIn(c)
    <2>1. call[c] \in Logins
      BY <1>4, Phases DEF SignIn, At
    <2>2. call[c].user \in Users /\ call[c].remember \in BOOLEAN
      BY <2>1 DEF Logins
    <2>3. NewSession(call[c].user, call[c].remember) \in SessionRows
      BY <1>2, <2>2, NewSessionType
    <2>4. SessionsOK' /\ jar' \in Tokens \cup {None}
      <3>1. CASE Exists(call[c].user)
        <4>1. PICK s \in NextSession :
                sessions' = [sessions EXCEPT ![s] = NewSession(call[c].user, call[c].remember)] /\ Receives(s)
          BY <1>4, <3>1 DEF SignIn
        <4>2. s \in SessionIds
          BY DEF NextSession
        <4> QED
          BY <1>2, <2>3, <4>1, <4>2 DEF SessionsOK, Receives, Tokens
      <3>2. CASE ~ Exists(call[c].user)
        BY <1>4, <1>2, <1>3, <3>2 DEF SignIn, browserVars
      <3> QED
        BY <3>1, <3>2
    <2>5. users' = users /\ links' = links /\ told' = told /\ CallsOK'
      BY <1>4, CallEnds DEF SignIn
    <2> QED
      BY <1>1, <1>3, <2>4, <2>5, AccountFrameTypes
  <1>5. CASE SetPassword(c)
    <2>1. UsersOK'
      BY <1>5, <1>2 DEF SetPassword, SetPasswordHash, UsersOK, UserRows
    <2>2. SessionsOK'
      BY <1>5, <1>2, RevokeTypes DEF SetPassword, SessionsOK
    <2>3. links' = links /\ told' = told /\ CallsOK' /\ jar' = jar
      BY <1>5, CallEnds DEF SetPassword, browserVars
    <2> QED
      BY <1>1, <1>2, <1>3, <2>1, <2>2, <2>3, AccountFrameTypes
  <1>6. CASE SignOut(c) \/ SignOutElsewhere(c) \/ SignOutEverywhere(c)
    <2>1. PICK S : Ends(c, S)
      BY <1>6 DEF SignOut, SignOutElsewhere, SignOutEverywhere
    <2>2. SessionsOK'
      BY <2>1, <1>2, RevokeTypes DEF Ends, SessionsOK
    <2>3. users' = users /\ links' = links /\ told' = told /\ CallsOK' /\ jar' \in {jar, None}
      BY <2>1, CallEnds DEF Ends
    <2> QED
      BY <1>1, <1>2, <1>3, <2>2, <2>3, AccountFrameTypes
  <1>7. CASE FinishIssue(c)
    <2>1. call[c] \in Issues
      BY <1>7, Phases DEF FinishIssue, At
    <2>2. call[c].user \in Users
      BY <2>1 DEF Issues
    <2>3. UsersOK' /\ SessionsOK' /\ LinksOK'
      <3>1. CASE Exists(call[c].user)
        <4>1. UsersOK'
          BY <1>7, <3>1, <1>2 DEF FinishIssue, ClearUserPassword, UsersOK, UserRows, Statuses
        <4>2. SessionsOK'
          BY <1>7, <3>1, <1>2, RevokeTypes DEF FinishIssue, SessionsOK
        <4>3. PICK l \in NextLink : links' = InsertUserToken(DeleteUserTokens(call[c].old), call[c].user, l)
          BY <1>7, <3>1 DEF FinishIssue
        <4>4. now + Ttl \in Nat
          BY <1>2, AccountsAssumption DEF ClockOK
        <4>5. LinksOK'
          BY <4>3, <4>4, <2>2, <1>2 DEF InsertUserToken, DeleteUserTokens, LinksOK, LinkRows, Someone
        <4> QED
          BY <4>1, <4>2, <4>5
      <3>2. CASE ~ Exists(call[c].user)
        BY <1>7, <3>2, <1>3 DEF FinishIssue
      <3> QED
        BY <3>1, <3>2
    <2>4. told' = told /\ CallsOK' /\ jar' = jar
      BY <1>7, CallEnds DEF FinishIssue, browserVars
    <2> QED
      BY <1>1, <1>2, <1>3, <2>3, <2>4, AccountFrameTypes
  <1>8. CASE FinishActivate(c)
    <2>1. call[c] \in Activations
      BY <1>8, Phases DEF FinishActivate, At
    <2> DEFINE l == call[c].link
    <2>2. told' = told
      BY <1>8 DEF FinishActivate
    <2>3. CASE Usable(l) /\ users[links[l].user].status = "pending"
      <3>1. PICK p \in Passwords, s \in NextSession :
              /\ ActivateUser(links[l].user, p) /\ ConsumeUserToken(l)
              /\ sessions' = [sessions EXCEPT ![s] = NewSession(links[l].user, TRUE)]
              /\ Receives(s)
              /\ GoesTo(c, "forget attempts")
        BY <1>8, <2>3 DEF FinishActivate
      <3>2. l \in Links /\ s \in SessionIds
        BY <2>1 DEF Activations, NextSession
      <3>3. links[l].user \in Users
        BY <2>3, <3>2, <1>2 DEF Usable, LinksOK, LinkRows, Someone
      <3>4. UsersOK'
        BY <3>1, <1>2 DEF ActivateUser, UsersOK, UserRows, Statuses
      <3>5. LinksOK'
        BY <3>1, <1>2 DEF ConsumeUserToken, LinksOK, LinkRows
      <3>6. NewSession(links[l].user, TRUE) \in SessionRows
        BY <1>2, <3>3, NewSessionType
      <3>7. SessionsOK' /\ jar' \in Tokens \cup {None}
        <4>1. sessions' = [sessions EXCEPT ![s] = NewSession(links[l].user, TRUE)]
          BY <3>1
        <4>2. SessionsOK'
          BY <1>2, <3>6, <4>1 DEF SessionsOK
        <4>3. jar' \in {jar, [session |-> s, generation |-> 0]}
          BY <3>1 DEF Receives
        <4>4. [session |-> s, generation |-> 0] \in Tokens
          BY <3>2 DEF Tokens
        <4> QED
          BY <1>2, <4>2, <4>3, <4>4
      <3>8. [call[c] EXCEPT !.at = "forget attempts"] \in Calls
        BY <2>1 DEF Activations, Calls
      <3>9. CallsOK'
        BY <3>1, <3>8, GoesOn
      <3> QED
        BY <1>1, <1>3, <2>2, <3>4, <3>5, <3>7, <3>9, AccountFrameTypes
    <2>4. CASE ~ (Usable(l) /\ users[links[l].user].status = "pending")
      <3>1. users' = users /\ links' = links /\ sessions' = sessions /\ jar' = jar /\ CallsOK'
        BY <1>8, <2>4, CallEnds DEF FinishActivate, browserVars
      <3> QED
        BY <1>1, <1>2, <1>3, <2>2, <3>1, AccountFrameTypes
    <2> QED
      BY <2>3, <2>4
  <1>9. CASE FinishDisable(c)
    <2>1. call[c] \in Settings
      BY <1>9, Phases DEF FinishDisable, At
    <2>2. call[c].status \in Statuses
      BY <2>1 DEF Settings, Statuses
    <2>3. UsersOK'
      BY <1>9, <1>2, <2>2, StatusTypes DEF FinishDisable
    <2>4. SessionsOK'
      BY <1>9, <1>2, <1>3, RevokeTypes DEF FinishDisable, SessionsOK
    <2>5. links' = links /\ told' = told /\ CallsOK' /\ jar' = jar
      BY <1>9, CallEnds DEF FinishDisable, browserVars
    <2> QED
      BY <1>1, <1>2, <1>3, <2>3, <2>4, <2>5, AccountFrameTypes
  <1>10. CASE MarkDeleting(c, ChatsToTell(call[c].user))
    <2>1. UsersOK'
      BY <1>10, <1>2, <1>3, StatusTypes DEF MarkDeleting, Statuses
    <2>2. SessionsOK'
      BY <1>10, <1>2, <1>3, RevokeTypes DEF MarkDeleting, SessionsOK
    <2>3. links' = links /\ CallsOK' /\ jar' = jar
      BY <1>10, CallEnds DEF MarkDeleting, browserVars
    <2>4. call[c] \in Confirmations \cup Deletions
      BY <1>10, Phases DEF MarkDeleting, At
    <2>5. call[c].user \in Users
      BY <2>4 DEF Confirmations, Deletions
    <2>6. ASSUME NEW i \in IdentityIds, linked[i].user = call[c].user, linked[i].conversation
          PROVE  linked[i].chat \in Chats
      <3>1. linked[i].user # None
        BY <2>5, <2>6, AccountsAssumption
      <3> QED
        BY <1>2, <3>1 DEF LinkedOK, IdentityRows
    <2>7. ChatsToTell(call[c].user) \subseteq Chats
      BY <2>6 DEF ChatsToTell, IdentitiesOf
    <2>8. told' = told \/ told' = told \cup ChatsToTell(call[c].user)
      BY <1>10 DEF MarkDeleting
    <2>9. ToldOK'
      BY <2>7, <2>8, <1>2 DEF ToldOK
    <2> QED
      BY <1>1, <1>2, <1>3, <2>1, <2>2, <2>3, <2>9, AccountFrameTypes
  <1>11. CASE \E u \in Users : CreateUser(u) \/ Bootstrap(u)
    <2>1. PICK u \in Users : CreateUser(u) \/ Bootstrap(u)
      BY <1>11
    <2>2. UsersOK'
      BY <2>1, <1>2 DEF CreateUser, Bootstrap, NewUser, InsertUser, UsersOK, UserRows, Statuses
    <2>3. now + Ttl \in Nat
      BY <1>2, AccountsAssumption DEF ClockOK
    <2>4. LinksOK'
      <3>1. CASE CreateUser(u)
        BY <3>1, <1>3 DEF CreateUser
      <3>2. CASE Bootstrap(u)
        <4>1. PICK l \in NextLink : links' = InsertUserToken(links, u, l)
          BY <3>2 DEF Bootstrap
        <4> QED
          BY <4>1, <2>3, <1>2 DEF InsertUserToken, LinksOK, LinkRows, Someone
      <3> QED
        BY <2>1, <3>1, <3>2
    <2>5. sessions' = sessions /\ told' = told /\ call' = call /\ jar' = jar
      BY <2>1 DEF CreateUser, Bootstrap, browserVars
    <2>6. CallsOK'
      BY <2>5 DEF CallsOK
    <2> QED
      BY <1>1, <1>2, <1>3, <2>2, <2>4, <2>5, <2>6, AccountFrameTypes
  <1> QED
    BY <1>4, <1>5, <1>6, <1>7, <1>8, <1>9, <1>10, <1>11 DEF AccountWrite

-----------------------------------------------------------------------------
(* The browser *)

BrowserFrame == <<now, users, links, content, told, throttleVars, call, job, locks, chatVars, shareVars>>

BrowserWrite == \E t \in Tabs : BrowserStep(t) /\ UNCHANGED <<chatVars, shareVars>>

LEMMA BrowserWriteFrame ==
  ASSUME BrowserWrite
  PROVE  UNCHANGED BrowserFrame
  BY DEF BrowserWrite, BrowserStep, BrowserFrame, RefreshSession, Refresh, TabHears, TabHearsNothing, rowVars

LEMMA BrowserFrameTypes ==
  ASSUME TypeInv, UNCHANGED BrowserFrame, SessionsOK', BrowserOK'
  PROVE  TypeInv'
  <1>1. TablesOK'
    BY DEF TypeInv, BrowserFrame, throttleVars, chatVars, shareVars, TablesOK, ClockOK, CodesOK, UsersOK, LinksOK,
           LinkedOK, SharesOK, ContentOK, MeterOK, MessagesOK, ToldOK
  <1>2. CallsOK' /\ JobOK'
    BY DEF TypeInv, BrowserFrame, CallsOK, JobOK
  <1> QED
    BY <1>1, <1>2 DEF TypeInv

LEMMA RotatedType ==
  ASSUME ClockOK, NEW s \in SessionIds, sessions[s] \in SessionRows
  PROVE  Rotated(s) \in SessionRows
  <1>1. Absolute \in Nat /\ SessionOnly \in Nat /\ Idle \in Nat /\ Grace \in Nat /\ now \in Nat
    BY AccountsAssumption DEF ClockOK
  <1> DEFINE idle == now + IF sessions[s].short THEN SessionOnly ELSE Idle
  <1>2. idle \in Nat /\ now + Grace \in Nat
    BY <1>1
  <1> DEFINE expires == Lesser(idle, sessions[s].absolute)
  <1>3. expires \in Nat
    BY <1>2 DEF Lesser, SessionRows
  <1> DEFINE next == sessions[s].generation + 1
  <1> DEFINE until == now + Grace
  <1>4. Rotated(s) = [sessions[s] EXCEPT !.generation = next, !.previous = until, !.expires = expires]
    BY DEF Rotated
  <1>5. next \in Nat
    BY DEF SessionRows
  <1>6. until \in Nat
    BY <1>2
  <1> HIDE DEF expires, idle, next, until
  <1> DEFINE r == sessions[s]
  <1>7. r \in SessionRows
    OBVIOUS
  <1> HIDE DEF r
  <1>8. [r EXCEPT !.generation = next, !.previous = until, !.expires = expires] \in SessionRows
    BY <1>3, <1>5, <1>6, <1>7 DEF SessionRows
  <1> QED
    BY <1>4, <1>8 DEF r

LEMMA BrowserWriteTypes ==
  ASSUME TypeInv, BrowserWrite
  PROVE  TypeInv'
  <1> USE DEF TypeInv
  <1>1. UNCHANGED BrowserFrame
    BY BrowserWriteFrame
  <1>2. ClockOK /\ SessionsOK /\ BrowserOK
    BY DEF TablesOK
  <1>3. PICK t \in Tabs : BrowserStep(t)
    BY DEF BrowserWrite
  <1>4. sessions' = sessions => SessionsOK'
    BY <1>2 DEF SessionsOK
  <1>5. CASE RefreshSession(t)
    <2>1. sessions' = sessions
      BY <1>5 DEF RefreshSession, rowVars
    <2> DEFINE p == [session |-> jar.session, generation |-> jar.generation, at |-> now]
    <2>2. p \in Presented
      BY <1>2, <1>5 DEF RefreshSession, BrowserOK, Tokens, Presented, ClockOK
    <2>3. sent' = [sent EXCEPT ![t] = p] /\ UNCHANGED <<jar, answer, due, locks, hiccup>>
      BY <1>5 DEF RefreshSession
    <2> HIDE DEF p
    <2>4. BrowserOK'
      BY <1>2, <2>2, <2>3 DEF BrowserOK
    <2> QED
      BY <1>1, <1>4, <2>1, <2>4, BrowserFrameTypes
  <1>6. CASE Refresh(t)
    <2> DEFINE s == sent[t].session
    <2> DEFINE g == sent[t].generation
    <2>1. sent[t] \in Presented
      BY <1>2, <1>6 DEF Refresh, BrowserOK
    <2>2. s \in SessionIds /\ g \in Nat /\ sent[t].at \in Nat
      BY <2>1 DEF Presented
    <2>3. sessions[s] \in SessionRows /\ sessions[s].generation \in Nat
      BY <2>2, <1>2 DEF SessionsOK, SessionRows
    <2>4. SessionsOK'
      <3>1. sessions' = sessions \/ sessions' = [sessions EXCEPT ![s] = Rotated(s)] \/ sessions' = RevokeSessions({s}, sessions)
        BY <1>6 DEF Refresh
      <3>2. Rotated(s) \in SessionRows
        BY <1>2, <2>2, <2>3, RotatedType
      <3>3. RevokeSessions({s}, sessions) \in [SessionIds -> SessionRows]
        BY <1>2, RevokeTypes
      <3> QED
        BY <1>2, <3>1, <3>2, <3>3 DEF SessionsOK
    <2>5. PICK a \in Tokens \cup {None} : answer' = [answer EXCEPT ![t] = [at |-> sent[t].at, token |-> a]]
      <3>1. [session |-> s, generation |-> g + 1] \in Tokens /\ [session |-> s, generation |-> sessions[s].generation] \in Tokens
        BY <2>2, <2>3 DEF Tokens
      <3> QED
        BY <1>6, <3>1 DEF Refresh
    <2>6. [at |-> sent[t].at, token |-> a] \in Replies
      BY <2>2 DEF Replies
    <2>7. sent' = [sent EXCEPT ![t] = None] /\ UNCHANGED <<jar, due, locks, hiccup>>
      BY <1>6 DEF Refresh
    <2>8. BrowserOK'
      BY <1>2, <2>5, <2>6, <2>7 DEF BrowserOK
    <2> QED
      BY <1>1, <2>4, <2>8, BrowserFrameTypes
  <1>7. CASE TabHears(t)
    <2>1. sessions' = sessions /\ UNCHANGED <<sent, locks, hiccup>>
      BY <1>7 DEF TabHears, rowVars
    <2>2. answer[t] \in Replies
      BY <1>2, <1>7 DEF TabHears, BrowserOK
    <2>3. jar' \in Tokens \cup {None}
      BY <2>2, <1>7 DEF TabHears, Replies
    <2>4. answer' = [answer EXCEPT ![t] = None]
      BY <1>7 DEF TabHears
    <2>5. due' \in [Tabs -> Nat]
      <3>1. now + Early \in Nat
        BY <1>2, AccountsAssumption DEF ClockOK
      <3> QED
        BY <3>1, <1>2, <1>7 DEF TabHears, BrowserOK
    <2>6. BrowserOK'
      BY <1>2, <2>1, <2>3, <2>4, <2>5 DEF BrowserOK
    <2> QED
      BY <1>1, <1>4, <2>1, <2>6, BrowserFrameTypes
  <1>8. CASE TabHearsNothing(t)
    <2>1. sessions' = sessions /\ UNCHANGED <<jar, due, locks>> /\ hiccup' = TRUE
      BY <1>8 DEF TabHearsNothing, rowVars
    <2>2. sent' = [sent EXCEPT ![t] = None] /\ answer' = [answer EXCEPT ![t] = None]
      BY <1>8 DEF TabHearsNothing
    <2>3. BrowserOK'
      BY <1>2, <2>1, <2>2 DEF BrowserOK
    <2> QED
      BY <1>1, <1>4, <2>1, <2>3, BrowserFrameTypes
  <1> QED
    BY <1>3, <1>5, <1>6, <1>7, <1>8 DEF BrowserStep

-----------------------------------------------------------------------------
(* Linked chats *)

ChatWrite(c) == InsertPairingCode(c) \/ LinkChat(c) \/ Store(c) \/ Unlink \/ SetReminderTarget \/ \E x \in Chats : Write(x)

BotWrite == CreateInstance \/ SetInstanceStatus \/ (\E k \in Keys : CreateCredential(k) \/ DisableCredential(k))

ChatFrame == <<now, users, links, sessions, throttleVars, job, browserVars, behind, shareVars>>

LEMMA ChatWriteFrame ==
  ASSUME NEW c, ChatWrite(c), UNCHANGED shareVars
  PROVE  UNCHANGED ChatFrame
  BY DEF ChatWrite, ChatFrame, InsertPairingCode, LinkChat, Store, Unlink, SetReminderTarget, Write, rowVars

LEMMA BotWriteFrame ==
  ASSUME BotWrite, UNCHANGED shareVars
  PROVE  UNCHANGED <<ChatFrame, content, told, call, codes, linked, written, kept, ignored>>
  BY DEF BotWrite, ChatFrame, CreateInstance, SetInstanceStatus, CreateCredential, DisableCredential, BotChanges, rowVars

LEMMA ChatFrameTypes ==
  ASSUME TypeInv, UNCHANGED ChatFrame, CodesOK', LinkedOK', ContentOK', MessagesOK', ToldOK', CallsOK'
  PROVE  TypeInv'
  <1>1. TablesOK'
    BY DEF TypeInv, ChatFrame, throttleVars, shareVars, TablesOK, ClockOK, UsersOK, LinksOK, SessionsOK, SharesOK, MeterOK
  <1>2. BrowserOK' /\ JobOK'
    BY DEF TypeInv, ChatFrame, browserVars, BrowserOK, JobOK
  <1> QED
    BY <1>1, <1>2 DEF TypeInv

LEMMA GrowsTypes ==
  ASSUME ContentOK, NEW u, NEW K, Grows(u, K)
  PROVE  ContentOK'
  <1> DEFINE row == [k \in Kinds |-> content[u][k] + IF k \in K THEN 1 ELSE 0]
  <1>1. content' = [content EXCEPT ![u] = row]
    BY DEF Grows, ContentOK
  <1>2. ASSUME u \in Users PROVE row \in [Kinds -> Nat]
    BY <1>2 DEF ContentOK
  <1> HIDE DEF row
  <1> QED
    BY <1>1, <1>2 DEF ContentOK

LEMMA WrittenType ==
  ASSUME ClockOK, MessagesOK, NEW x \in Chats, Write(x)
  PROVE  MessagesOK'
  <1> DEFINE m == [chat |-> x, sent |-> ServerTime, n |-> Cardinality(written)]
  <1>1. Cardinality(written) \in Nat
    BY FS_CardinalityType DEF MessagesOK
  <1>2. ServerTime \in Nat
    BY DEF ServerTime, ClockOK
  <1>3. m \in Messages
    BY <1>1, <1>2 DEF Messages
  <1>4. written' = written \cup {m} /\ UNCHANGED <<kept, ignored>>
    BY DEF Write
  <1> HIDE DEF m
  <1>5. IsFiniteSet(written \cup {m})
    BY FS_AddElement DEF MessagesOK
  <1> QED
    BY <1>3, <1>4, <1>5 DEF MessagesOK

LEMMA ChatWriteTypes ==
  ASSUME TypeInv, NEW c \in Callers, ChatWrite(c), UNCHANGED shareVars
  PROVE  TypeInv'
  <1> USE DEF TypeInv
  <1>1. UNCHANGED ChatFrame
    BY ChatWriteFrame
  <1>2. ClockOK /\ CodesOK /\ LinkedOK /\ ContentOK /\ MessagesOK /\ ToldOK
    BY DEF TablesOK
  <1>3. (codes' = codes => CodesOK') /\ (linked' = linked => LinkedOK') /\ (content' = content => ContentOK')
        /\ (UNCHANGED <<written, kept, ignored>> => MessagesOK') /\ (told' = told => ToldOK') /\ (call' = call => CallsOK')
    BY <1>2 DEF CodesOK, LinkedOK, ContentOK, MessagesOK, ToldOK, CallsOK
  <1>4. CASE InsertPairingCode(c)
    <2>1. call[c] \in Asks
      BY <1>4, Phases DEF InsertPairingCode, At
    <2>2. call[c].user \in Users
      BY <2>1 DEF Asks
    <2>5. now + CodeTtl \in Nat
      BY <1>2, IdentitiesAssumption DEF ClockOK
    <2>3. CodesOK'
      <3>1. CASE Exists(call[c].user)
        <4>1. PICK k \in NextCode : codes' = [codes EXCEPT ![k] = [user |-> call[c].user, expires |-> now + CodeTtl, used |-> FALSE]]
          BY <1>4, <3>1 DEF InsertPairingCode
        <4>2. [user |-> call[c].user, expires |-> now + CodeTtl, used |-> FALSE] \in CodeRows
          BY <2>2, <2>5 DEF CodeRows, LinkRows, Someone
        <4> QED
          BY <4>1, <4>2, <1>2 DEF CodesOK
      <3>2. CASE ~ Exists(call[c].user)
        BY <1>3, <1>4, <3>2 DEF InsertPairingCode
      <3> QED
        BY <3>1, <3>2
    <2>4. linked' = linked /\ content' = content /\ UNCHANGED <<written, kept, ignored>> /\ told' = told /\ CallsOK'
      BY <1>4, CallEnds DEF InsertPairingCode, rowVars
    <2> QED
      BY <1>1, <1>3, <2>3, <2>4, ChatFrameTypes
  <1>5. CASE LinkChat(c)
    <2>1. call[c] \in Linkings
      BY <1>5, Phases DEF LinkChat, At
    <2>2. content' = content /\ UNCHANGED <<written, kept, ignored>>
      BY <1>5 DEF LinkChat
    <2>3. call[c].user \in Users /\ call[c].chat \in Chats /\ call[c].asked \in Nat /\ call[c].read \in Nat
      BY <2>1 DEF Linkings
    <2>4. [call[c] EXCEPT !.at = "count failure"] \in Calls /\ [call[c] EXCEPT !.at = "linked"] \in Calls
      BY <2>1 DEF Linkings, Calls
    <2>5. CallsOK'
      <3>1. Returns(c) \/ GoesTo(c, "count failure") \/ GoesTo(c, "linked")
        BY <1>5 DEF LinkChat
      <3> QED
        BY <3>1, <2>4, GoesOn, CallEnds
    <2>6. CASE UNCHANGED <<codes, linked, told>>
      BY <1>1, <1>3, <2>2, <2>5, <2>6, ChatFrameTypes
    <2>7. CASE ~ UNCHANGED <<codes, linked, told>>
      <3>1. ConsumePairingCode(call[c].code) /\ told' = told \ {call[c].chat}
        BY <1>5, <2>7 DEF LinkChat
      <3>2. PICK conversation \in BOOLEAN :
              InsertIdentity([user |-> call[c].user, chat |-> call[c].chat, linkedAt |-> LinkedAt(c),
                              target |-> CountUserIdentities(call[c].user) = 0, conversation |-> conversation, asked |-> call[c].asked])
        BY <1>5, <2>7 DEF LinkChat
      <3> DEFINE target == CountUserIdentities(call[c].user) = 0
      <3> DEFINE row == [user |-> call[c].user, chat |-> call[c].chat, linkedAt |-> LinkedAt(c),
                         target |-> target, conversation |-> conversation, asked |-> call[c].asked]
      <3>3. target \in BOOLEAN
        OBVIOUS
      <3>4. LinkedAt(c) \in Nat
        BY <2>3 DEF LinkedAt, Lesser
      <3>5. PICK i \in NextIdentity : linked' = [linked EXCEPT ![i] = row]
        BY <3>2 DEF InsertIdentity
      <3> HIDE DEF target
      <3>6. row \in IdentityRows /\ row.chat = call[c].chat
        BY <2>3, <3>3, <3>4 DEF IdentityRows, Someone
      <3> HIDE DEF row
      <3>7. call[c].chat # None
        BY <2>3, AccountsAssumption
      <3>8. LinkedOK'
        BY <1>2, <3>5, <3>6, <3>7 DEF LinkedOK
      <3>9. CodesOK' /\ ToldOK'
        BY <1>2, <3>1 DEF ConsumePairingCode, CodesOK, CodeRows, LinkRows, ToldOK
      <3> QED
        BY <1>1, <1>3, <2>2, <2>5, <3>8, <3>9, ChatFrameTypes
    <2> QED
      BY <2>6, <2>7
  <1>6. CASE Store(c)
    <2>1. call[c] \in Storings
      BY <1>6, Phases DEF Store, At
    <2> DEFINE u == call[c].user
    <2> DEFINE i == call[c].identity
    <2> DEFINE record == [message |-> call[c].message, identity |-> i, owner |-> linked[i].user]
    <2>2. u \in Users /\ i \in IdentityIds /\ call[c].message \in Messages
      BY <2>1 DEF Storings
    <2>3. linked[i].user \in Someone
      BY <1>2, <2>2 DEF LinkedOK, IdentityRows
    <2>4. record \in Records
      BY <2>2, <2>3 DEF Records
    <2>5. codes' = codes /\ told' = told /\ written' = written /\ CallsOK'
      BY <1>6, CallEnds DEF Store
    <2>6. LinkedOK'
      <3>1. linked' = linked \/ KnowConversation(i)
        BY <1>6 DEF Store
      <3>2. ASSUME KnowConversation(i) PROVE LinkedOK'
        <4>1. linked' = [linked EXCEPT ![i] = [linked[i] EXCEPT !.conversation = TRUE]]
          BY <3>2 DEF KnowConversation
        <4> DEFINE row == [linked[i] EXCEPT !.conversation = TRUE]
        <4>2. row \in IdentityRows /\ row.user = linked[i].user /\ row.chat = linked[i].chat
          BY <1>2, <2>2 DEF LinkedOK, IdentityRows
        <4> HIDE DEF row
        <4> QED
          BY <1>2, <4>1, <4>2 DEF LinkedOK, row
      <3> QED
        BY <1>3, <3>1, <3>2
    <2>7. ContentOK'
      <3>1. content' = content \/ (\E K : Grows(u, K))
        BY <1>6 DEF Store
      <3> QED
        BY <1>2, <1>3, <3>1, GrowsTypes
    <2>8. MessagesOK'
      <3>1. \/ kept' = [kept EXCEPT ![u] = @ \cup {record}] /\ ignored' = ignored
            \/ ignored' = [ignored EXCEPT ![u] = @ \cup {record}] /\ kept' = kept
            \/ ignored' = ignored /\ kept' = kept
        BY <1>6 DEF Store
      <3> HIDE DEF record
      <3> QED
        BY <3>1, <2>4, <2>5, <1>2 DEF MessagesOK
    <2> QED
      BY <1>1, <1>3, <2>5, <2>6, <2>7, <2>8, ChatFrameTypes
  <1>7. CASE Unlink
    <2>1. PICK i \in IdentityIds : linked[i].user # None /\ DeleteIdentity(i) /\ (told' = told \/ told' = told \cup {linked[i].chat})
      BY <1>7 DEF Unlink, InsertOutbox
    <2>2. linked[i].chat \in Chats
      BY <2>1, <1>2 DEF LinkedOK, IdentityRows
    <2>3. LinkedOK' /\ ToldOK'
      BY <2>1, <2>2, <1>2 DEF DeleteIdentity, LinkedOK, IdentityRows, Someone, ToldOK
    <2>4. codes' = codes /\ content' = content /\ UNCHANGED <<written, kept, ignored>> /\ call' = call
      BY <1>7 DEF Unlink
    <2> QED
      BY <1>1, <1>3, <2>3, <2>4, ChatFrameTypes
  <1>8. CASE SetReminderTarget
    <2>1. PICK i \in IdentityIds : MarkReminderTarget(i)
      BY <1>8 DEF SetReminderTarget
    <2>2. (~ linked[i].target) \in BOOLEAN
      OBVIOUS
    <2>3. LinkedOK'
      <3> DEFINE row == [linked[i] EXCEPT !.target = ~ @]
      <3>1. linked' = [linked EXCEPT ![i] = row]
        BY <2>1 DEF MarkReminderTarget
      <3>2. linked[i] \in IdentityRows /\ (linked[i].user # None => linked[i].chat # None)
        BY <1>2 DEF LinkedOK
      <3>3. row \in IdentityRows /\ row.user = linked[i].user /\ row.chat = linked[i].chat
        BY <2>2, <3>2 DEF IdentityRows
      <3> HIDE DEF row
      <3> QED
        BY <1>2, <3>1, <3>2, <3>3 DEF LinkedOK
    <2>4. codes' = codes /\ content' = content /\ UNCHANGED <<written, kept, ignored>> /\ call' = call /\ told' = told
      BY <1>8 DEF SetReminderTarget, rowVars
    <2> QED
      BY <1>1, <1>3, <2>3, <2>4, ChatFrameTypes
  <1>9. CASE \E x \in Chats : Write(x)
    <2>1. PICK x \in Chats : Write(x)
      BY <1>9
    <2>2. MessagesOK'
      BY <2>1, <1>2, WrittenType
    <2>3. codes' = codes /\ content' = content /\ linked' = linked /\ call' = call /\ told' = told
      BY <2>1 DEF Write, rowVars
    <2> QED
      BY <1>1, <1>3, <2>2, <2>3, ChatFrameTypes
  <1> QED
    BY <1>4, <1>5, <1>6, <1>7, <1>8, <1>9 DEF ChatWrite

LEMMA BotWriteTypes ==
  ASSUME TypeInv, BotWrite, UNCHANGED shareVars
  PROVE  TypeInv'
  <1>1. UNCHANGED <<ChatFrame, content, told, call, codes, linked, written, kept, ignored>>
    BY BotWriteFrame
  <1>2. CodesOK' /\ LinkedOK' /\ ContentOK' /\ MessagesOK' /\ ToldOK' /\ CallsOK'
    BY <1>1 DEF TypeInv, TablesOK, CodesOK, LinkedOK, ContentOK, MessagesOK, ToldOK, CallsOK
  <1> QED
    BY <1>1, <1>2, ChatFrameTypes

-----------------------------------------------------------------------------
(* Share links and notes *)

ShareWrite(c) == (Create(c) \/ Revoke(c) \/ RevokeAll(c) \/ MoveNote(c)) /\ UNCHANGED chatVars

ShareFrame == <<now, users, links, sessions, told, throttleVars, job, browserVars, chatVars>>

LEMMA ShareWriteFrame ==
  ASSUME NEW c, ShareWrite(c) \/ WriteNote(c)
  PROVE  UNCHANGED ShareFrame
  BY DEF ShareWrite, ShareFrame, Create, Revoke, RevokeAll, Ended, MoveNote, WriteNote

LEMMA ShareFrameTypes ==
  ASSUME TypeInv, UNCHANGED ShareFrame, SharesOK', ContentOK', CallsOK'
  PROVE  TypeInv'
  <1>1. TablesOK'
    BY DEF TypeInv, ShareFrame, throttleVars, chatVars, TablesOK, ClockOK, UsersOK, LinksOK, SessionsOK, MeterOK,
           CodesOK, LinkedOK, MessagesOK, ToldOK
  <1>2. BrowserOK' /\ JobOK'
    BY DEF TypeInv, ShareFrame, browserVars, BrowserOK, JobOK
  <1> QED
    BY <1>1, <1>2 DEF TypeInv

LEMMA ShareWriteTypes ==
  ASSUME TypeInv, NEW c \in Callers, ShareWrite(c) \/ WriteNote(c)
  PROVE  TypeInv'
  <1> USE DEF TypeInv
  <1>1. UNCHANGED ShareFrame
    BY ShareWriteFrame
  <1>2. ClockOK /\ SharesOK /\ ContentOK
    BY DEF TablesOK
  <1>3. (UNCHANGED shareVars => SharesOK') /\ (content' = content => ContentOK')
    BY <1>2 DEF SharesOK, ContentOK, shareVars
  <1>4. CASE Create(c)
    <2>1. call[c] \in Asks
      BY <1>4, Phases DEF Create, At
    <2>2. Owner(c) \in Users
      BY <2>1 DEF Asks, Owner
    <2>3. CallsOK' /\ note' = note
      BY <1>4, CallEnds DEF Create
    <2>4. CASE UNCHANGED <<shares, content>>
      BY <1>1, <1>3, <2>3, <2>4, ShareFrameTypes DEF shareVars
    <2>5. CASE ~ UNCHANGED <<shares, content>>
      <3>1. PICK life \in Lifetimes, h \in NextShare : InsertShareLink(h, Owner(c), life) /\ Grows(Owner(c), {"changes"})
        BY <1>4, <2>5 DEF Create
      <3> DEFINE row == [NoShare EXCEPT !.user = Owner(c), !.created = now, !.expires = now + life]
      <3>2. now + life \in Nat /\ now \in Nat
        BY <1>2, SharesAssumption DEF ClockOK
      <3>3. row \in ShareRows
        BY <2>2, <3>2 DEF NoShare, ShareRows, Someone
      <3>4. shares' = [shares EXCEPT ![h] = row]
        BY <3>1 DEF InsertShareLink
      <3> HIDE DEF row
      <3>5. SharesOK'
        BY <1>2, <2>3, <3>3, <3>4 DEF SharesOK
      <3>6. ContentOK'
        BY <1>2, <3>1, GrowsTypes
      <3> QED
        BY <1>1, <2>3, <3>5, <3>6, ShareFrameTypes
    <2> QED
      BY <2>4, <2>5
  <1>5. CASE Revoke(c) \/ RevokeAll(c)
    <2>1. PICK S : Ended(c, S)
      BY <1>5 DEF Revoke, RevokeAll
    <2>2. CallsOK' /\ note' = note
      BY <2>1, CallEnds DEF Ended
    <2>3. SharesOK'
      <3>1. shares' = shares \/ \E over : shares' = [h \in ShareIds |-> IF h \in over THEN [shares[h] EXCEPT !.revoked = TRUE, !.ended = now] ELSE shares[h]]
        BY <2>1 DEF Ended
      <3> QED
        BY <3>1, <2>2, <1>2 DEF SharesOK, ShareRows, ClockOK
    <2>4. ContentOK'
      <3>1. content' = content \/ Grows(Owner(c), {"changes"})
        BY <2>1 DEF Ended
      <3> QED
        BY <1>2, <1>3, <3>1, GrowsTypes
    <2> QED
      BY <1>1, <2>2, <2>3, <2>4, ShareFrameTypes
  <1>6. CASE MoveNote(c)
    <2>1. CallsOK' /\ shares' = shares
      BY <1>6, CallEnds DEF MoveNote
    <2>2. note' \in [Users -> {"none", "active", "trash"}]
      BY <1>6, <1>2 DEF MoveNote, SharesOK
    <2>3. ContentOK'
      <3>1. content' = content \/ Grows(Owner(c), {"changes"})
        BY <1>6 DEF MoveNote
      <3> QED
        BY <1>2, <1>3, <3>1, GrowsTypes
    <2> QED
      BY <1>1, <1>2, <2>1, <2>2, <2>3, ShareFrameTypes DEF SharesOK
  <1>7. CASE WriteNote(c)
    <2>1. CallsOK' /\ UNCHANGED shareVars
      BY <1>7, CallEnds DEF WriteNote
    <2>2. ContentOK'
      <3>1. content' = content \/ \E K : Grows(call[c].user, K)
        BY <1>7 DEF WriteNote
      <3> QED
        BY <1>2, <1>3, <3>1, GrowsTypes
    <2> QED
      BY <1>1, <1>3, <2>1, <2>2, ShareFrameTypes
  <1> QED
    BY <1>4, <1>5, <1>6, <1>7 DEF ShareWrite

-----------------------------------------------------------------------------
(* The jobs and the clock *)

JobWrite == \E w \in Workers : JobStep(w) \/ JobStops(w)

JobFrame == <<now, told, throttleVars, call, browserVars, botVars, behind, written, kept, ignored>>

LEMMA JobWriteFrame ==
  ASSUME JobWrite
  PROVE  UNCHANGED JobFrame
  <1>1. PICK w \in Workers : JobStep(w) \/ JobStops(w)
    BY DEF JobWrite
  <1>2. CASE DeleteUsers(w) \/ DeleteFiles(w) \/ JobStops(w)
    BY <1>2 DEF DeleteUsers, DeleteFiles, JobStops, JobFrame, rowVars, chatVars, botVars
  <1>3. CASE DeleteBatch(w)
    BY <1>3 DEF DeleteBatch, JobFrame, chatVars, botVars
  <1>4. CASE DeleteAccount(w)
    BY <1>4 DEF DeleteAccount, JobFrame, rowVars
  <1> QED
    BY <1>1, <1>2, <1>3, <1>4 DEF JobStep

LEMMA JobFrameTypes ==
  ASSUME TypeInv, UNCHANGED JobFrame, UsersOK', LinksOK', SessionsOK', CodesOK', LinkedOK', SharesOK', ContentOK', JobOK'
  PROVE  TypeInv'
  <1>1. TablesOK'
    BY DEF TypeInv, JobFrame, throttleVars, TablesOK, ClockOK, MeterOK, MessagesOK, ToldOK
  <1>2. BrowserOK' /\ CallsOK'
    BY DEF TypeInv, JobFrame, browserVars, BrowserOK, CallsOK
  <1> QED
    BY <1>1, <1>2 DEF TypeInv

LEMMA JobChanges ==
  ASSUME JobOK, NEW w, NEW j \in Jobs, JobGoes(w, j)
  PROVE  JobOK'
  BY DEF JobOK, JobGoes

LEMMA NextAccountTypes ==
  ASSUME JobOK, NEW w, job[w].accounts \in Seq(Users) \ {<<>>}, NextAccount(w)
  PROVE  JobOK'
  <1> DEFINE rest == Tail(job[w].accounts)
  <1>1. rest \in Seq(Users)
    OBVIOUS
  <1>2. CASE rest = <<>>
    BY <1>2, JobChanges DEF NextAccount, Jobs
  <1>3. CASE rest # <<>>
    <2>1. [at |-> "batch", step |-> 1, accounts |-> rest] \in Jobs
      BY <1>1, <1>3 DEF Jobs
    <2>2. JobGoes(w, [at |-> "batch", step |-> 1, accounts |-> rest])
      BY <1>3 DEF NextAccount
    <2> QED
      BY <2>1, <2>2, JobChanges
  <1> QED
    BY <1>2, <1>3

(* The accounts that are to be deleted, in some order.                     *)
LEMMA OrderTypes ==
  ASSUME Deleting # {}, NEW order \in SetToSeqs(Deleting)
  PROVE  order \in Seq(Users) \ {<<>>}
  <1>1. IsFiniteSet(Deleting)
    BY FS_Subset, AccountsAssumption DEF Deleting
  <1>2. Cardinality(Deleting) \in Nat /\ Cardinality(Deleting) # 0
    BY <1>1, FS_CardinalityType, FS_EmptySet
  <1>3. order \in [1 .. Cardinality(Deleting) -> Deleting]
    BY DEF SetToSeqs
  <1>4. order \in [1 .. Cardinality(Deleting) -> Users]
    BY <1>3 DEF Deleting
  <1>5. order \in Seq(Users) /\ Len(order) = Cardinality(Deleting)
    BY <1>2, <1>4
  <1>6. order # <<>>
    BY <1>2, <1>5
  <1> QED
    BY <1>5, <1>6

LEMMA JobPhases ==
  ASSUME JobOK, NEW w \in Workers
  PROVE  /\ job[w].at \in {"batch", "files"} =>
              job[w] \in [at : {"batch", "files"}, step : 1 .. 4, accounts : Seq(Users) \ {<<>>}]
         /\ job[w].at = "account" => job[w] \in [at : {"account"}, accounts : Seq(Users) \ {<<>>}, seen : Nat]
         /\ job[w].at \in {"batch", "files", "account"} =>
              job[w].accounts \in Seq(Users) \ {<<>>} /\ Head(job[w].accounts) \in Users
  <1>1. job[w] \in Jobs
    BY DEF JobOK
  <1>2. job[w].at \in {"batch", "files"} =>
              job[w] \in [at : {"batch", "files"}, step : 1 .. 4, accounts : Seq(Users) \ {<<>>}]
    BY <1>1 DEF Jobs, Asleep
  <1>3. job[w].at = "account" => job[w] \in [at : {"account"}, accounts : Seq(Users) \ {<<>>}, seen : Nat]
    BY <1>1 DEF Jobs, Asleep
  <1>4. job[w].at \in {"batch", "files", "account"} => job[w].accounts \in Seq(Users) \ {<<>>}
    BY <1>2, <1>3
  <1> QED
    BY <1>2, <1>3, <1>4

LEMMA DeleteBatchTypes ==
  ASSUME TypeInv, NEW w \in Workers, DeleteBatch(w)
  PROVE  TypeInv'
  <1> USE DEF TypeInv
  <1> DEFINE u == Head(job[w].accounts)
  <1> DEFINE step == job[w].step
  <1>1. UNCHANGED JobFrame
    BY JobWriteFrame DEF JobWrite, JobStep
  <1>2. job[w] \in [at : {"batch", "files"}, step : 1 .. 4, accounts : Seq(Users) \ {<<>>}]
    BY JobPhases DEF DeleteBatch
  <1>3. step \in 1 .. 4 /\ Batches[step] \in Kinds /\ Len(Batches) = 4
    BY <1>2 DEF Batches, Kinds
  <1>4. ContentOK'
    <2>1. content' = [content EXCEPT ![u][Batches[step]] = 0]
      BY DEF DeleteBatch, Removes
    <2> QED
      BY <1>3, <2>1 DEF TablesOK, ContentOK
  <1>5. JobOK'
    <2>1. \/ job' = job
          \/ job' = [job EXCEPT ![w].at = "files"]
          \/ step # 4 /\ job' = [job EXCEPT ![w].step = @ + 1]
      BY <1>3 DEF DeleteBatch
    <2>2. CASE job' = job
      BY <2>2 DEF JobOK
    <2>3. CASE job' = [job EXCEPT ![w].at = "files"]
      <3> DEFINE j == [job[w] EXCEPT !.at = "files"]
      <3>1. j \in Jobs
        BY <1>2 DEF Jobs
      <3>2. job' = [job EXCEPT ![w] = j]
        BY <2>3 DEF JobOK
      <3> HIDE DEF j
      <3> QED
        BY <3>1, <3>2 DEF JobOK
    <2>4. CASE step # 4 /\ job' = [job EXCEPT ![w].step = @ + 1]
      <3> DEFINE next == step + 1
      <3> DEFINE j == [job[w] EXCEPT !.step = next]
      <3>1. next \in 1 .. 4
        BY <1>3, <2>4
      <3>2. job' = [job EXCEPT ![w] = j]
        BY <2>4 DEF JobOK
      <3> HIDE DEF next
      <3>3. j \in Jobs
        BY <1>2, <3>1 DEF Jobs
      <3> HIDE DEF j
      <3> QED
        BY <3>2, <3>3 DEF JobOK
    <2> QED
      BY <2>1, <2>2, <2>3, <2>4
  <1>6. SharesOK'
    <2>1. (shares' = shares \/ shares' = Without(u, shares)) /\ (note' = note \/ NoteGoes(u))
      BY DEF DeleteBatch, shareVars
    <2>2. Without(u, shares) \in [ShareIds -> ShareRows]
      BY WithoutTypes
    <2> QED
      BY <2>1, <2>2 DEF TablesOK, SharesOK, NoteGoes
  <1>7. UsersOK' /\ LinksOK' /\ SessionsOK' /\ CodesOK' /\ LinkedOK'
    BY DEF DeleteBatch, chatVars, TablesOK, UsersOK, LinksOK, SessionsOK, CodesOK, LinkedOK
  <1> QED
    BY <1>1, <1>4, <1>5, <1>6, <1>7, JobFrameTypes

LEMMA DeleteAccountTypes ==
  ASSUME TypeInv, NEW w \in Workers, DeleteAccount(w)
  PROVE  TypeInv'
  <1> USE DEF TypeInv
  <1> DEFINE u == Head(job[w].accounts)
  <1>1. UNCHANGED JobFrame
    BY JobWriteFrame DEF JobWrite, JobStep
  <1>2. job[w].accounts \in Seq(Users) \ {<<>>} /\ u \in Users /\ job[w].seen \in Nat
    BY JobPhases DEF DeleteAccount
  <1>3. UsersOK /\ LinksOK /\ SessionsOK /\ CodesOK /\ LinkedOK /\ SharesOK /\ ContentOK
    BY DEF TablesOK
  <1>4. JobOK'
    <2>1. JobGoes(w, Asleep) \/ NextAccount(w)
      BY DEF DeleteAccount
    <2>2. Asleep \in Jobs
      BY DEF Jobs
    <2> QED
      BY <1>2, <2>1, <2>2, JobChanges, NextAccountTypes
  <1>5. CASE UNCHANGED <<rowVars, codes, linked, shareVars>>
    BY <1>1, <1>3, <1>4, <1>5, JobFrameTypes
       DEF rowVars, shareVars, UsersOK, LinksOK, SessionsOK, CodesOK, LinkedOK, SharesOK, ContentOK
  <1>6. CASE /\ users' = [users EXCEPT ![u] = [status |-> "gone", password |-> None]]
             /\ content' = [content EXCEPT ![u] = [k \in Kinds |-> 0]]
             /\ sessions' = Without(u, sessions) /\ links' = Without(u, links)
             /\ codes' = Without(u, codes) /\ linked' = Without(u, linked)
             /\ shares' = Without(u, shares) /\ NoteGoes(u)
    <2>1. UsersOK'
      BY <1>3, <1>6 DEF UsersOK, UserRows, Statuses
    <2>2. ContentOK'
      BY <1>3, <1>6 DEF ContentOK
    <2>3. SessionsOK' /\ LinksOK' /\ CodesOK'
      BY <1>6, WithoutTypes DEF SessionsOK, LinksOK, CodesOK
    <2>4. SharesOK'
      BY <1>3, <1>6, WithoutTypes DEF SharesOK, NoteGoes
    <2>5. LinkedOK'
      <3>1. linked' \in [IdentityIds -> IdentityRows]
        BY <1>6, WithoutTypes
      <3>2. \A i \in IdentityIds : linked'[i].user # None => linked[i].user # None /\ linked'[i].chat = linked[i].chat
        BY <1>3, <1>6 DEF LinkedOK, IdentityRows, Without
      <3> QED
        BY <1>3, <3>1, <3>2 DEF LinkedOK
    <2> QED
      BY <1>1, <1>4, <2>1, <2>2, <2>3, <2>4, <2>5, JobFrameTypes
  <1>7. CASE /\ content' = [content EXCEPT ![u]["files"] = IF @ > job[w].seen THEN @ - job[w].seen ELSE 0]
             /\ UNCHANGED <<users, links, sessions, told, codes, linked, shareVars>>
    <2>1. ContentOK'
      <3> DEFINE left2 == IF content[u]["files"] > job[w].seen THEN content[u]["files"] - job[w].seen ELSE 0
      <3>1. content[u]["files"] \in Nat
        BY <1>2, <1>3 DEF ContentOK, Kinds
      <3>2. left2 \in Nat
        BY <1>2, <3>1
      <3>3. content' = [content EXCEPT ![u]["files"] = left2]
        BY <1>7, <1>2, <1>3 DEF ContentOK, Kinds
      <3> HIDE DEF left2
      <3> QED
        BY <1>3, <3>2, <3>3 DEF ContentOK
    <2> QED
      BY <1>1, <1>3, <1>4, <1>7, <2>1, JobFrameTypes
         DEF shareVars, UsersOK, LinksOK, SessionsOK, CodesOK, LinkedOK, SharesOK
  <1> QED
    BY <1>5, <1>6, <1>7 DEF DeleteAccount

LEMMA JobWriteTypes ==
  ASSUME TypeInv, JobWrite
  PROVE  TypeInv'
  <1> USE DEF TypeInv
  <1>1. PICK w \in Workers : JobStep(w) \/ JobStops(w)
    BY DEF JobWrite
  <1>2. CASE DeleteUsers(w) \/ DeleteFiles(w) \/ JobStops(w)
    <2>1. UNCHANGED <<rowVars, chatVars, shareVars>> /\ UNCHANGED JobFrame
      BY <1>1, <1>2, JobWriteFrame DEF DeleteUsers, DeleteFiles, JobStops, JobWrite
    <2>2. UsersOK' /\ LinksOK' /\ SessionsOK' /\ CodesOK' /\ LinkedOK' /\ SharesOK' /\ ContentOK'
      BY <2>1 DEF TablesOK, rowVars, chatVars, shareVars, UsersOK, LinksOK, SessionsOK, CodesOK, LinkedOK, SharesOK, ContentOK
    <2>3. CASE DeleteUsers(w)
      <3>1. PICK order \in SetToSeqs(Deleting) : JobGoes(w, [at |-> "batch", step |-> 1, accounts |-> order])
        BY <2>3 DEF DeleteUsers
      <3>2. order \in Seq(Users) \ {<<>>}
        BY <2>3, <3>1, OrderTypes DEF DeleteUsers
      <3>3. [at |-> "batch", step |-> 1, accounts |-> order] \in Jobs
        BY <3>2 DEF Jobs
      <3> QED
        BY <2>1, <2>2, <3>1, <3>3, JobChanges, JobFrameTypes
    <2>4. CASE DeleteFiles(w)
      <3> DEFINE a == job[w].accounts
      <3>1. a \in Seq(Users) \ {<<>>} /\ Head(a) \in Users
        BY <2>4, JobPhases DEF DeleteFiles
      <3>2. FilesSeen(Head(a)) \in Nat
        BY <3>1 DEF FilesSeen, TablesOK, ContentOK, Kinds
      <3>3. [at |-> "account", accounts |-> a, seen |-> FilesSeen(Head(a))] \in Jobs
        BY <3>1, <3>2 DEF Jobs
      <3>4. JobGoes(w, [at |-> "account", accounts |-> a, seen |-> FilesSeen(Head(a))])
        BY <2>4 DEF DeleteFiles
      <3> QED
        BY <2>1, <2>2, <3>3, <3>4, JobChanges, JobFrameTypes
    <2>5. CASE JobStops(w)
      <3>1. JobGoes(w, Asleep) /\ Asleep \in Jobs
        BY <2>5 DEF JobStops, Jobs
      <3> QED
        BY <2>1, <2>2, <3>1, JobChanges, JobFrameTypes
    <2> QED
      BY <1>2, <2>3, <2>4, <2>5
  <1> QED
    BY <1>1, <1>2, DeleteBatchTypes, DeleteAccountTypes DEF JobStep

LEMMA PurgeTypes ==
  ASSUME TypeInv, Purge
  PROVE  TypeInv'
  <1> USE DEF TypeInv
  <1>1. SessionsOK'
    BY DEF Purge, DeleteOldSessions, TablesOK, SessionsOK, SessionRows, Someone
  <1>2. MeterOK'
    <2>1. Fresh \in Rows
      BY DEF Fresh, Rows
    <2> QED
      BY <2>1 DEF Purge, PurgeThrottle, TablesOK, MeterOK
  <1>3. SharesOK'
    <2>1. shares' = PurgeShares(shares) /\ note' = note
      BY DEF Purge
    <2> QED
      BY <2>1 DEF PurgeShares, TablesOK, SharesOK, ShareRows, Someone
  <1>4. UNCHANGED <<now, users, links, content, told, call, job, browserVars, chatVars>>
    BY DEF Purge
  <1>5. TablesOK'
    BY <1>1, <1>2, <1>3, <1>4 DEF TablesOK, chatVars, ClockOK, UsersOK, LinksOK, CodesOK, LinkedOK, ContentOK, MessagesOK, ToldOK
  <1> QED
    BY <1>4, <1>5 DEF browserVars, BrowserOK, JobOK, CallsOK

LEMMA TickTypes ==
  ASSUME TypeInv, Tick
  PROVE  TypeInv'
  <1> USE DEF TypeInv
  <1>1. UNCHANGED <<rowVars, throttleVars, call, job, jar, sent, answer, due, locks, chatVars, shareVars>> /\ now' = now + 1
    BY DEF Tick
  <1>2. ClockOK'
    BY <1>1 DEF TablesOK, ClockOK, chatVars
  <1>3. TablesOK'
    BY <1>1, <1>2 DEF TablesOK, rowVars, throttleVars, chatVars, shareVars, UsersOK, LinksOK, CodesOK, SessionsOK,
           LinkedOK, SharesOK, ContentOK, MeterOK, MessagesOK, ToldOK
  <1>4. hiccup' \in BOOLEAN
    BY DEF Tick
  <1>5. BrowserOK' /\ CallsOK' /\ JobOK'
    BY <1>1, <1>4 DEF BrowserOK, CallsOK, JobOK
  <1> QED
    BY <1>3, <1>5

-----------------------------------------------------------------------------
(* Every step is one of these.                                             *)
LEMMA Steps ==
  ASSUME Step
  PROVE  \/ \E c \in Callers : Looks(c) \/ ThrottleStep(c) \/ ShareWrite(c) \/ WriteNote(c)
         \/ \E c \in Callers : AccountWrite(c) /\ UNCHANGED <<chatVars, shareVars>>
         \/ \E c \in Callers : ChatWrite(c) /\ UNCHANGED shareVars
         \/ BotWrite /\ UNCHANGED shareVars
         \/ BrowserWrite \/ JobWrite \/ Purge \/ Tick
  <1>1. PICK d \in Callers : TRUE
    BY AccountsAssumption
  <1>2. CASE \E c \in Callers : AccountStep(c) /\ UNCHANGED <<chatVars, shareVars>>
    <2>1. PICK c \in Callers : AccountStep(c) /\ UNCHANGED <<chatVars, shareVars>>
      BY <1>2
    <2>2. LookStep(c) \/ AccountWrite(c) \/ Charge(c) \/ Refund(c) \/ Succeed(c) \/ ForgetAttempts(c)
      BY <2>1 DEF AccountStep, LookStep, AccountWrite
    <2> QED
      BY <2>1, <2>2 DEF Looks, ThrottleStep
  <1>3. CASE \E c \in Callers : ChatStep(c) /\ UNCHANGED shareVars
    <2>1. PICK c \in Callers : ChatStep(c) /\ UNCHANGED shareVars
      BY <1>3
    <2>2. LookAtChat(c) \/ ChatWrite(c) \/ CountFailure(c) \/ ForgetFailures(c)
      BY <2>1 DEF ChatStep, LookAtChat, ChatWrite
    <2> QED
      BY <2>1, <2>2 DEF Looks, ThrottleStep
  <1>4. CASE \E c \in Callers : ShareStep(c) /\ UNCHANGED chatVars
    <2>1. PICK c \in Callers : ShareStep(c) /\ UNCHANGED chatVars
      BY <1>4
    <2>2. LookAtShare(c) \/ Create(c) \/ Revoke(c) \/ RevokeAll(c) \/ MoveNote(c)
      BY <2>1 DEF ShareStep, LookAtShare
    <2> QED
      BY <2>1, <2>2 DEF Looks, ShareWrite
  <1>5. CASE \E u \in Users : (CreateUser(u) \/ Bootstrap(u)) /\ UNCHANGED <<chatVars, shareVars>>
    BY <1>1, <1>5 DEF AccountWrite
  <1>6. CASE BotStep /\ UNCHANGED shareVars
    <2>1. BotWrite \/ Unlink \/ SetReminderTarget \/ (\E x \in Chats : Write(x))
      BY <1>6 DEF BotStep, BotWrite
    <2> QED
      BY <1>1, <1>6, <2>1 DEF ChatWrite
  <1>7. CASE \E t \in Tabs : BrowserStep(t) /\ UNCHANGED <<chatVars, shareVars>>
    BY <1>7 DEF BrowserWrite
  <1>8. CASE \E w \in Workers : JobStep(w) \/ JobStops(w)
    BY <1>8 DEF JobWrite
  <1> QED
    BY <1>2, <1>3, <1>4, <1>5, <1>6, <1>7, <1>8 DEF Step

LEMMA StepTypes ==
  ASSUME TypeInv, Step
  PROVE  TypeInv'
  BY Steps, LooksTypes, ThrottleTypes, ShareWriteTypes, AccountWriteTypes, ChatWriteTypes, BotWriteTypes, BrowserWriteTypes,
     JobWriteTypes, PurgeTypes, TickTypes

LEMMA SameTypes ==
  ASSUME TypeInv, UNCHANGED vars
  PROVE  TypeInv'
  <1>1. UNCHANGED Frame /\ call' = call
    BY DEF vars, Frame
  <1> QED
    BY <1>1, FrameKeepsTypes DEF TypeInv, CallsOK

(* Where a behaviour starts.                                               *)
LEMMA InitBegins ==
  ASSUME Init
  PROVE  \E mix \in Mixes, u \in Users, p \in Passwords, x \in Chats : Begins(mix, u, p, x)
  <1>1. PICK mix \in Mixes, u \in Users \ Admins, p \in {CHOOSE p \in Passwords : TRUE}, x \in {CHOOSE x \in Chats : TRUE} :
          Begins(mix, u, p, x)
    BY DEF Init
  <1>2. p \in Passwords /\ x \in Chats /\ u \in Users
    BY AccountsAssumption
  <1> QED
    BY <1>1, <1>2

LEMMA InitTypes ==
  ASSUME Init
  PROVE  TypeInv
  <1>1. PICK mix \in Mixes, u \in Users, p \in Passwords, x \in Chats : Begins(mix, u, p, x)
    BY InitBegins
  <1>2. x # None
    BY AccountsAssumption
  <1>3. UsersOK
    BY <1>1, <1>2 DEF Begins, UsersOK, UserRows, Statuses
  <1>4. SessionsOK
    <2>1. NoSession \in SessionRows
      BY DEF NoSession, SessionRows, Someone
    <2>2. [NoSession EXCEPT !.user = u, !.expires = Idle, !.absolute = Absolute] \in SessionRows
      BY <1>2, AccountsAssumption DEF NoSession, SessionRows, Someone
    <2> QED
      BY <1>1, <2>1, <2>2 DEF Begins, SessionsOK
  <1>5. ClockOK
    <2> DEFINE some == mix.ops["write"] > 0
    <2>1. behind \in IF some THEN 0 .. MaxBehind ELSE {0}
      BY <1>1 DEF Begins
    <2> HIDE DEF some
    <2>2. behind \in Nat
      BY <2>1, IdentitiesAssumption
    <2> QED
      BY <2>2 DEF Init, ClockOK
  <1>6. LinksOK /\ CodesOK
    <2>1. NoLink \in LinkRows
      BY DEF NoLink, LinkRows, Someone
    <2>2. NoCode \in CodeRows
      BY DEF NoCode, CodeRows, LinkRows, Someone
    <2>3. LinksOK
      BY <2>1 DEF Init, LinksOK
    <2>4. CodesOK
      BY <2>2 DEF Init, CodesOK
    <2> QED
      BY <2>3, <2>4
  <1>7. LinkedOK
    <2> DEFINE row == [NoIdentity EXCEPT !.user = u, !.chat = x, !.target = TRUE, !.conversation = TRUE]
    <2>1. NoIdentity \in IdentityRows /\ NoIdentity.user = None
      BY DEF NoIdentity, IdentityRows, Someone
    <2>2. row \in IdentityRows /\ row.chat = x
      BY <1>2 DEF NoIdentity, IdentityRows, Someone
    <2>3. linked = [i \in IdentityIds |-> IF mix.chat /\ i = 1 THEN row ELSE NoIdentity]
      BY <1>1 DEF Begins
    <2> HIDE DEF row
    <2> QED
      BY <1>2, <2>1, <2>2, <2>3 DEF LinkedOK
  <1>8. SharesOK
    <2> DEFINE life == CHOOSE l \in Lifetimes : TRUE
               row == [NoShare EXCEPT !.user = u, !.expires = life]
    <2>1. life \in Nat
      BY SharesAssumption
    <2>2. shares = [h \in ShareIds |-> IF mix.share /\ h = 1 THEN row ELSE NoShare]
      BY <1>1 DEF Begins
    <2> HIDE DEF life
    <2>3. row \in ShareRows /\ NoShare \in ShareRows
      BY <1>2, <2>1 DEF NoShare, ShareRows, Someone
    <2> HIDE DEF row
    <2> QED
      BY <1>1, <2>2, <2>3 DEF Begins, SharesOK
  <1>9. ContentOK
    BY <1>1 DEF Begins, ContentOK
  <1>10. MeterOK
    BY DEF Init, MeterOK, Fresh, Rows
  <1>11. MessagesOK /\ ToldOK
    BY FS_EmptySet DEF Init, MessagesOK, ToldOK
  <1>12. BrowserOK
    <2>1. jar \in Tokens \cup {None}
      BY <1>1, AccountsAssumption DEF Begins, Tokens
    <2>2. locks \in BOOLEAN
      BY <1>1 DEF Begins
    <2> QED
      BY <2>1, <2>2 DEF Init, BrowserOK
  <1>13. CallsOK
    <2>1. Done \in Calls /\ KeysLeft(Done)
      BY DEF Calls, Done, KeysLeft
    <2> QED
      BY <2>1 DEF Init, CallsOK
  <1>14. JobOK
    BY DEF Init, JobOK, Jobs
  <1> QED
    BY <1>3, <1>4, <1>5, <1>6, <1>7, <1>8, <1>9, <1>10, <1>11, <1>12, <1>13, <1>14 DEF TypeInv, TablesOK

LEMMA TypesHold == Spec => []TypeInv
  <1>1. Init => TypeInv
    BY InitTypes
  <1>2. TypeInv /\ [Next]_vars => TypeInv'
    BY StepTypes, SameTypes DEF Next
  <1> QED
    BY <1>1, <1>2, PTL DEF Spec

(* The rows, the handlers' progress and what the browser holds are what    *)
(* they should be (TypeOK names the part of it that the module states).    *)
THEOREM TypesAreKept == Spec => []TypeOK
  <1>1. TypeInv => TypeOK
    BY DEF TypeInv, TablesOK, ClockOK, UsersOK, UserRows, SessionsOK, SessionRows, Someone, MeterOK, ToldOK, SharesOK, ContentOK, TypeOK
  <1> QED
    BY <1>1, TypesHold, PTL

-----------------------------------------------------------------------------
(* Guessing.  Most steps leave the counters alone.                         *)
LEMMA SameMeter ==
  ASSUME GuessInv, now' = now, meter' = meter, tries' = tries
  PROVE  GuessInv'
  BY DEF GuessInv, Counted, Spaced

(* A step that changes one counter only.                                   *)
LEMMA OneMeter ==
  ASSUME GuessInv, MeterOK, NEW k \in MeterKeys, NEW row, now' = now, meter' = [meter EXCEPT ![k] = row],
         tries' \in [GuardedKeys -> Seq(Nat)], \A j \in GuardedKeys \ {k} : tries'[j] = tries[j],
         k \in GuardedKeys => Counted(k)' /\ Spaced(k)'
  PROVE  GuessInv'
  <1>1. ASSUME NEW j \in GuardedKeys, j # k
        PROVE  Counted(j)' /\ Spaced(j)'
    <2>1. meter'[j] = meter[j] /\ tries'[j] = tries[j]
      BY <1>1, GuardedAreKeys DEF MeterOK
    <2>2. Counted(j) /\ Spaced(j)
      BY DEF GuessInv
    <2> QED
      BY <2>1, <2>2 DEF Counted, Spaced
  <1> QED
    BY <1>1 DEF GuessInv

LEMMA UnguardedMeter ==
  ASSUME GuessInv, MeterOK, NEW k \in MeterKeys \ GuardedKeys, NEW row, now' = now, meter' = [meter EXCEPT ![k] = row],
         tries' = tries
  PROVE  GuessInv'
  <1>1. tries' \in [GuardedKeys -> Seq(Nat)]
    BY DEF GuessInv
  <1> QED
    BY <1>1, OneMeter

LEMMA ResetCounts ==
  ASSUME GuessInv, MeterOK, NEW k \in MeterKeys, now' = now, Reset(k)
  PROVE  GuessInv'
  <1>1. meter' = [meter EXCEPT ![k] = Fresh]
    BY DEF Reset
  <1>2. CASE k \in GuardedKeys
    <2>1. tries' = [tries EXCEPT ![k] = <<>>]
      BY <1>2 DEF Reset
    <2>2. tries'[k] = <<>> /\ tries' \in [GuardedKeys -> Seq(Nat)] /\ \A j \in GuardedKeys \ {k} : tries'[j] = tries[j]
      BY <1>2, <2>1 DEF GuessInv
    <2>3. Len(<<>>) = 0 /\ 1 .. 0 = {} /\ 2 .. 0 = {}
      OBVIOUS
    <2>4. meter'[k] = Fresh
      BY <1>1 DEF MeterOK
    <2>5. Counted(k)'
      BY <2>2, <2>3, <2>4 DEF Counted
    <2>6. Spaced(k)'
      BY <2>2, <2>3 DEF Spaced
    <2> QED
      BY <1>1, <2>2, <2>5, <2>6, OneMeter
  <1>3. CASE k \notin GuardedKeys
    BY <1>1, <1>3, UnguardedMeter DEF Reset
  <1> QED
    BY <1>2, <1>3

(* An attempt that is let through is counted, and comes late enough.       *)
LEMMA LetThroughCounts ==
  ASSUME TypeInv, GuessInv, NEW k \in GuardedKeys, ~ Refuses(k), now' = now,
         meter' = [meter EXCEPT ![k] = Charged(meter[k], PolicyOf(k), now)],
         tries' = [tries EXCEPT ![k] = LetThrough(tries[k])]
  PROVE  GuessInv'
  <1> DEFINE times == tries[k]
             row == meter[k]
             p == PolicyOf(k)
             n == Failures(row, now)
  <1>1. k \in MeterKeys /\ now \in Nat /\ MeterOK
    BY GuardedAreKeys DEF TypeInv, TablesOK, ClockOK
  <1>2. row \in Rows /\ p \in Policies /\ times \in Seq(Nat) /\ Len(times) \in Nat
    BY <1>1, PolicyType DEF MeterOK, GuessInv
  <1>3. row.failures \in Nat /\ row.until \in Nat /\ row.at \in Nat /\ row.until <= now
    BY <1>1, <1>2 DEF Rows, Refuses, IsBlocked
  <1>4. meter'[k] = Charged(row, p, now) /\ tries'[k] = LetThrough(times)
    BY <1>1 DEF MeterOK, GuessInv
  <1>5. Counted(k) /\ Spaced(k)
    BY DEF GuessInv
  <1>6. DecayAfter \in Nat /\ RetainThrottle \in Nat /\ DecayAfter <= RetainThrottle
    BY ThrottleAssumption, AccountsAssumption
  <1>7. \/ tries'[k] = <<now>> /\ n = 1
        \/ /\ Len(times) > 0 /\ tries'[k] = Append(times, now) /\ n = Len(times) + 1
           /\ now - times[Len(times)] >= Delay(p, Len(times))
    <2>1. CASE Len(times) = 0 /\ row = Fresh
      <3>1. times = <<>>
        BY <1>2, <2>1
      <3>2. LetThrough(times) = <<now>>
        BY <1>1, <3>1 DEF LetThrough
      <3>3. n = 1
        BY <1>1, <1>6, <2>1 DEF Failures, Fresh
      <3> QED
        BY <1>4, <3>2, <3>3
    <2>2. CASE /\ Len(times) > 0 /\ row.failures = Len(times) /\ row.at = times[Len(times)]
               /\ Delay(p, Len(times)) > 0 => row.until >= times[Len(times)] + Delay(p, Len(times))
      <3> DEFINE last == times[Len(times)]
      <3>1. last \in Nat /\ last <= now /\ times # <<>>
        BY <1>2, <1>5, <2>2 DEF Spaced
      <3>2. Delay(p, Len(times)) \in Nat
        BY <1>2, DelayType
      <3>3. CASE last < now - DecayAfter
        <4>1. LetThrough(times) = <<now>> /\ n = 1
          BY <2>2, <3>1, <3>3 DEF LetThrough, Failures
        <4> QED
          BY <1>4, <4>1
      <3>4. CASE ~ (last < now - DecayAfter)
        <4>1. LetThrough(times) = Append(times, now) /\ n = Len(times) + 1
          BY <2>2, <3>1, <3>4 DEF LetThrough, Failures
        <4>2. now - last >= Delay(p, Len(times))
          BY <1>1, <1>3, <2>2, <3>1, <3>2
        <4> QED
          BY <1>4, <2>2, <4>1, <4>2
      <3> QED
        BY <3>3, <3>4
    <2>3. CASE Len(times) > 0 /\ row = Fresh /\ times[Len(times)] < now - RetainThrottle
      <3> DEFINE last == times[Len(times)]
      <3>1. last \in Nat /\ times # <<>>
        BY <1>2, <2>3
      <3>2. last < now - DecayAfter
        BY <1>1, <1>6, <2>3, <3>1
      <3>3. LetThrough(times) = <<now>>
        BY <3>1, <3>2 DEF LetThrough
      <3>4. n = 1
        BY <1>1, <1>6, <2>3 DEF Failures, Fresh
      <3> QED
        BY <1>4, <3>3, <3>4
    <2> QED
      BY <1>5, <2>1, <2>2, <2>3 DEF Counted
  <1>8. n \in Nat /\ Delay(p, n) \in Nat
    BY <1>1, <1>2, DelayType, RowTypes
  <1>9. meter'[k].failures = n /\ meter'[k].at = now /\ (Delay(p, n) > 0 => meter'[k].until = now + Delay(p, n))
    BY <1>4 DEF Charged, SetThrottle, Until
  <1> DEFINE later == tries'[k]
  <1>10. /\ \A i \in 1 .. Len(times) : times[i] <= now
         /\ \A i \in 2 .. Len(times) : times[i] - times[i - 1] >= Delay(p, i - 1)
    BY <1>5 DEF Spaced
  <1> HIDE DEF later, times, n, p, row
  <1>11. /\ later \in Seq(Nat) /\ Len(later) = n /\ n > 0 /\ later[n] = now
         /\ \A i \in 1 .. n : later[i] <= now
         /\ \A i \in 2 .. n : later[i] - later[i - 1] >= Delay(p, i - 1)
    <2>1. CASE later = <<now>> /\ n = 1
      <3>1. later \in Seq(Nat) /\ Len(later) = 1 /\ later[1] = now
        BY <1>1, <2>1
      <3> QED
        BY <1>1, <2>1, <3>1
    <2>2. CASE /\ Len(times) > 0 /\ later = Append(times, now) /\ n = Len(times) + 1
               /\ now - times[Len(times)] >= Delay(p, Len(times))
      <3>1. \A i \in 1 .. Len(times) : later[i] = times[i] /\ times[i] <= now
        BY <1>2, <1>10, <2>2
      <3>2. later \in Seq(Nat) /\ Len(later) = n /\ later[n] = now
        BY <1>1, <1>2, <2>2
      <3>3. \A i \in 2 .. Len(times) : times[i] - times[i - 1] >= Delay(p, i - 1)
        BY <1>10
      <3>4. ASSUME NEW i \in 2 .. n
            PROVE  later[i] - later[i - 1] >= Delay(p, i - 1)
        <4>1. CASE i = n
          <5>1. i - 1 = Len(times) /\ i - 1 \in 1 .. Len(times)
            BY <1>2, <2>2, <4>1
          <5> QED
            BY <2>2, <3>1, <3>2, <4>1, <5>1
        <4>2. CASE i # n
          <5>1. i \in 2 .. Len(times) /\ i \in 1 .. Len(times) /\ i - 1 \in 1 .. Len(times)
            BY <1>2, <2>2, <4>2
          <5> QED
            BY <3>1, <3>3, <5>1
        <4> QED
          BY <4>1, <4>2
      <3>5. \A i \in 1 .. n : later[i] <= now
        BY <1>1, <1>2, <2>2, <3>1, <3>2
      <3> QED
        BY <1>2, <2>2, <3>2, <3>4, <3>5
    <2> QED
      BY <1>7, <2>1, <2>2 DEF later
  <1>12. PolicyOf(k)' = PolicyOf(k)
    BY DEF PolicyOf
  <1>13. Counted(k)'
    <2>1. Delay(p, n) > 0 => meter'[k].until >= now + Delay(p, n)
      BY <1>1, <1>8, <1>9
    <2> QED
      BY <1>9, <1>11, <2>1 DEF Counted, later, p
  <1>14. Spaced(k)'
    BY <1>11 DEF Spaced, later, p
  <1>15. tries' \in [GuardedKeys -> Seq(Nat)] /\ \A j \in GuardedKeys \ {k} : tries'[j] = tries[j]
    BY <1>11 DEF GuessInv, later
  <1> QED
    BY <1>1, <1>13, <1>14, <1>15, OneMeter

LEMMA ThrottleGuess ==
  ASSUME TypeInv, GuessInv, NEW c \in Callers, ThrottleStep(c)
  PROVE  GuessInv'
  <1>1. MeterOK /\ CallsOK
    BY DEF TypeInv, TablesOK
  <1>2. now' = now
    BY ThrottleStepFrame DEF ThrottleFrame
  <1>3. CASE Charge(c)
    <2> DEFINE k == Head(call[c].keys)
    <2>1. call[c].keys \in Seq(MeterKeys) /\ call[c].keys # <<>>
      <3>1. call[c] \in Logins \cup Confirmations \cup Activations /\ KeysLeft(call[c]) /\ call[c].at = "charge"
        BY <1>1, <1>3, Phases DEF Charge, At
      <3> QED
        BY <3>1 DEF Logins, Confirmations, Activations, KeysLeft
    <2>2. k \in MeterKeys
      BY <2>1
    <2>3. CASE Refuses(k)
      BY <1>2, <1>3, <2>3, SameMeter DEF Charge, throttleVars
    <2>4. CASE ~ Refuses(k)
      <3>1. meter' = [meter EXCEPT ![k] = Charged(meter[k], PolicyOf(k), now)]
        BY <1>3, <2>4 DEF Charge
      <3>2. tries' = IF k \in GuardedKeys THEN [tries EXCEPT ![k] = LetThrough(tries[k])] ELSE tries
        BY <1>3, <2>4 DEF Charge
      <3> HIDE DEF k
      <3>3. CASE k \in GuardedKeys
        <4>1. tries' = [tries EXCEPT ![k] = LetThrough(tries[k])]
          BY <3>2, <3>3
        <4> QED
          BY <1>2, <2>4, <3>1, <3>3, <4>1, LetThroughCounts
      <3>4. CASE k \notin GuardedKeys
        BY <1>1, <1>2, <2>2, <3>1, <3>2, <3>4, UnguardedMeter
      <3> QED
        BY <3>3, <3>4
    <2> QED
      BY <2>3, <2>4
  <1>4. CASE Refund(c)
    <2> DEFINE k == Head(call[c].keys)
    <2>1. call[c].keys \in Seq(MeterKeys \ GuardedKeys) /\ call[c].keys # <<>>
      BY <1>1, <1>4, Phases DEF Refund, At, KeysLeft
    <2>2. k \in MeterKeys \ GuardedKeys
      BY <2>1
    <2>3. meter' = [meter EXCEPT ![k] = Refunded(meter[k], PolicyOf(k))] /\ tries' = tries
      BY <1>4 DEF Refund
    <2> HIDE DEF k
    <2> QED
      BY <1>1, <1>2, <2>2, <2>3, UnguardedMeter
  <1>5. CASE Succeed(c)
    <2>1. call[c] \in Logins \cup Confirmations
      BY <1>1, <1>5, Phases DEF Succeed, At
    <2>2. GuardedKey(c) \in MeterKeys
      <3>1. call[c].user \in Users /\ (call[c].op = "login" => call[c].address \in Addresses)
        BY <2>1 DEF Logins, Confirmations
      <3> QED
        BY <3>1 DEF GuardedKey, MeterKeys, GuardedKeys
    <2> QED
      BY <1>1, <1>2, <1>5, <2>2, ResetCounts DEF Succeed
  <1>6. CASE ForgetAttempts(c)
    <2>1. call[c] \in Activations
      BY <1>1, <1>6, Phases DEF ForgetAttempts, At
    <2>2. ActivationKey(call[c].address) \in MeterKeys
      BY <2>1 DEF Activations, MeterKeys
    <2> QED
      BY <1>1, <1>2, <1>6, <2>2, ResetCounts DEF ForgetAttempts
  <1>7. CASE CountFailure(c) \/ ForgetFailures(c)
    <2>1. call[c] \in Failed_ \cup Linkings
      BY <1>1, <1>7, Phases DEF CountFailure, ForgetFailures, At
    <2>2. call[c].chat \in Chats
      BY <2>1 DEF Failed_, Linkings
    <2> DEFINE k == PairingKey(call[c].chat)
    <2>3. k \in MeterKeys \ GuardedKeys
      BY <2>2 DEF MeterKeys, GuardedKeys, PairKey, PasswordKey, PairingKey
    <2>4. tries' = tries /\ \E row : meter' = [meter EXCEPT ![k] = row]
      BY <1>7 DEF CountFailure, ForgetFailures
    <2> HIDE DEF k
    <2> QED
      BY <1>1, <1>2, <2>3, <2>4, UnguardedMeter
  <1> QED
    BY <1>3, <1>4, <1>5, <1>6, <1>7 DEF ThrottleStep

(* A row that is purged is older than what would have been forgotten.      *)
LEMMA PurgeGuess ==
  ASSUME TypeInv, GuessInv, Purge
  PROVE  GuessInv'
  <1>1. MeterOK /\ now \in Nat
    BY DEF TypeInv, TablesOK, ClockOK
  <1>2. now' = now /\ tries' = tries
    BY DEF Purge
  <1>3. ASSUME NEW k \in GuardedKeys
        PROVE  Counted(k)' /\ Spaced(k)'
    <2>1. meter'[k] = IF meter[k].at < now - RetainThrottle THEN Fresh ELSE meter[k]
      BY GuardedAreKeys DEF Purge, PurgeThrottle
    <2>2. Counted(k) /\ Spaced(k)
      BY DEF GuessInv
    <2>3. Counted(k)'
      BY <1>2, <2>1, <2>2 DEF Counted
    <2>4. Spaced(k)'
      BY <1>2, <2>2 DEF Spaced
    <2> QED
      BY <2>3, <2>4
  <1> QED
    BY <1>2, <1>3 DEF GuessInv

LEMMA TickGuess ==
  ASSUME TypeInv, GuessInv, Tick
  PROVE  GuessInv'
  <1>1. now \in Nat /\ RetainThrottle \in Nat
    BY AccountsAssumption DEF TypeInv, TablesOK, ClockOK
  <1>2. now' = now + 1 /\ tries' = tries /\ meter' = meter
    BY DEF Tick, throttleVars
  <1>3. ASSUME NEW k \in GuardedKeys
        PROVE  Counted(k)' /\ Spaced(k)'
    <2>1. Counted(k) /\ Spaced(k) /\ tries[k] \in Seq(Nat)
      BY DEF GuessInv
    <2>2. \A n \in 1 .. Len(tries[k]) : tries[k][n] \in Nat
      BY <2>1
    <2>3. Counted(k)'
      <3> DEFINE n == Len(tries[k])
                 last == tries[k][n]
      <3>1. Len(tries'[k]) = n /\ tries'[k][n] = last /\ meter'[k] = meter[k]
        BY <1>2
      <3>2. CASE n > 0 /\ meter[k] = Fresh /\ last < now - RetainThrottle
        <4>1. last < now' - RetainThrottle
          <5>1. n \in 1 .. n /\ last \in Nat
            BY <2>1, <2>2, <3>2
          <5> HIDE DEF last
          <5> QED
            BY <1>1, <1>2, <3>2, <5>1
        <4> QED
          BY <3>1, <3>2, <4>1 DEF Counted
      <3>3. CASE ~ (n > 0 /\ meter[k] = Fresh /\ last < now - RetainThrottle)
        BY <1>2, <2>1, <3>3 DEF Counted
      <3> QED
        BY <3>2, <3>3
    <2>4. Spaced(k)'
      <3>1. \A n \in 1 .. Len(tries[k]) : tries[k][n] <= now + 1
        BY <1>1, <2>1, <2>2 DEF Spaced
      <3> QED
        BY <1>2, <2>1, <3>1 DEF Spaced
    <2> QED
      BY <2>3, <2>4
  <1> QED
    BY <1>2, <1>3 DEF GuessInv

LEMMA GuessStep ==
  ASSUME TypeInv, GuessInv, Step
  PROVE  GuessInv'
  <1>1. CASE \E c \in Callers : Looks(c) \/ ThrottleStep(c) \/ ShareWrite(c) \/ WriteNote(c)
    <2>1. PICK c \in Callers : Looks(c) \/ ThrottleStep(c) \/ ShareWrite(c) \/ WriteNote(c)
      BY <1>1
    <2>2. CASE Looks(c)
      BY <2>2, LooksFrame, SameMeter DEF Frame, throttleVars
    <2>3. CASE ThrottleStep(c)
      BY <2>3, ThrottleGuess
    <2>4. CASE ShareWrite(c)
      BY <2>4, ShareWriteFrame, SameMeter DEF ShareFrame, throttleVars
    <2>5. CASE WriteNote(c)
      BY <2>5, SameMeter DEF WriteNote, throttleVars
    <2> QED
      BY <2>1, <2>2, <2>3, <2>4, <2>5
  <1>2. CASE \E c \in Callers : AccountWrite(c) /\ UNCHANGED <<chatVars, shareVars>>
    BY <1>2, AccountWriteFrame, SameMeter DEF AccountFrame, throttleVars
  <1>3. CASE \E c \in Callers : ChatWrite(c) /\ UNCHANGED shareVars
    BY <1>3, ChatWriteFrame, SameMeter DEF ChatFrame, throttleVars
  <1>4. CASE BotWrite /\ UNCHANGED shareVars
    BY <1>4, BotWriteFrame, SameMeter DEF ChatFrame, throttleVars
  <1>5. CASE BrowserWrite
    BY <1>5, BrowserWriteFrame, SameMeter DEF BrowserFrame, throttleVars
  <1>6. CASE JobWrite
    BY <1>6, JobWriteFrame, SameMeter DEF JobFrame, throttleVars
  <1> QED
    BY <1>1, <1>2, <1>3, <1>4, <1>5, <1>6, PurgeGuess, TickGuess, Steps

LEMMA GuessInit ==
  ASSUME Init
  PROVE  GuessInv
  <1>1. tries = [k \in GuardedKeys |-> <<>>] /\ meter = [k \in MeterKeys |-> Fresh]
    BY DEF Init
  <1>2. ASSUME NEW k \in GuardedKeys
        PROVE  Counted(k) /\ Spaced(k)
    <2>1. tries[k] = <<>> /\ meter[k] = Fresh
      BY <1>1, GuardedAreKeys
    <2>2. Len(tries[k]) = 0 /\ 1 .. 0 = {} /\ 2 .. 0 = {}
      BY <2>1
    <2> QED
      BY <2>1, <2>2 DEF Counted, Spaced
  <1> QED
    BY <1>1, <1>2 DEF GuessInv

(* Guessing (throttle.Attempt): Attempts on one password from one place    *)
(* that are let through between two successes are as far apart as their    *)
(* number asks for, for any number of handlers and any policy, and across  *)
(* the purge of rows that are old.                                         *)
THEOREM GuessesAreSlowedDown == Spec => []GuessesTakeTime
  <1>1. Init => GuessInv
    BY GuessInit
  <1>2. TypeInv /\ GuessInv /\ [Next]_vars => GuessInv'
    <2>1. ASSUME UNCHANGED vars, GuessInv
          PROVE  GuessInv'
      BY <2>1, SameMeter DEF vars, throttleVars
    <2> QED
      BY <2>1, GuessStep DEF Next
  <1>3. GuessInv => GuessesTakeTime
    BY DEF GuessInv, Spaced, GuessesTakeTime
  <1> QED
    BY <1>1, <1>2, <1>3, TypesHold, PTL DEF Spec

-----------------------------------------------------------------------------
(* Which steps take a handler to where an invariant speaks of it.          *)
Watched == {"link", "look at note", "find file", "show"}
Elsewhere(c) == call'[c] = call[c] \/ call'[c].at \notin Watched

LEMMA DoneIsAt == Done.at = "done"
  BY DEF Done

LEMMA MovesElsewhere ==
  ASSUME CallsOK, NEW c \in Callers, NEW d \in Callers, NEW r, call' = [call EXCEPT ![d] = r], r.at \notin Watched
  PROVE  Elsewhere(c)
  BY DEF CallsOK, Elsewhere

LEMMA ReturnsElsewhere ==
  ASSUME CallsOK, NEW c \in Callers, NEW d \in Callers, Returns(d)
  PROVE  Elsewhere(c)
  <1>1. Done.at \notin Watched
    BY DEF Done, Watched
  <1> QED
    BY <1>1, MovesElsewhere DEF Returns

LEMMA GoesElsewhere ==
  ASSUME CallsOK, NEW c \in Callers, NEW d \in Callers, NEW step, step \notin Watched, GoesTo(d, step)
  PROVE  Elsewhere(c)
  <1> DEFINE r == [call[d] EXCEPT !.at = step]
  <1>1. call' = [call EXCEPT ![d] = r]
    BY DEF GoesTo
  <1>2. r.at = step
    BY Phases
  <1> HIDE DEF r
  <1> QED
    BY <1>1, <1>2, MovesElsewhere

LEMMA RequestElsewhere ==
  ASSUME CallsOK, NEW c \in Callers, NEW d \in Callers, NEW family, NEW step, step \notin Watched, Request(d, family, step)
  PROVE  Elsewhere(c)
  <1> DEFINE r == [at |-> step, user |-> sessions[jar.session].user, session |-> jar.session]
  <1>1. call' = [call EXCEPT ![d] = r] /\ r.at = step
    BY DEF Request
  <1> HIDE DEF r
  <1> QED
    BY <1>1, MovesElsewhere

LEMMA AttemptElsewhere ==
  ASSUME CallsOK, NEW c \in Callers, NEW d \in Callers, NEW request, request.at \notin Watched, Attempt(d, request)
  PROVE  Elsewhere(c)
  <1> DEFINE r == IF Blocked(request.keys) THEN Done ELSE request
  <1>1. call' = [call EXCEPT ![d] = r]
    BY DEF Attempt
  <1>2. r.at \notin Watched
    BY DEF Done, Watched
  <1> HIDE DEF r
  <1> QED
    BY <1>1, <1>2, MovesElsewhere

LEMMA LooksElsewhere ==
  ASSUME CallsOK, NEW c \in Callers, NEW d \in Callers, Looks(d)
  PROVE  Elsewhere(c) \/ (c = d /\ (Link(c) \/ LookUp(c) \/ LookAtNote(c) \/ FindFile(c)))
  <1>1. CASE ChangePassword(d) \/ DeleteMyAccount(d) \/ Logout(d) \/ RevokeSession(d) \/ RevokeAllSessions(d) \/ PostNote(d)
    BY <1>1, RequestElsewhere DEF ChangePassword, DeleteMyAccount, Logout, RevokeSession, RevokeAllSessions, PostNote, Watched
  <1>2. CASE CreateCode(d) \/ CreateShareLink(d) \/ RevokeShareLink(d) \/ RevokeAllShareLinks(d) \/ MoveOrRestore(d)
    BY <1>2, RequestElsewhere DEF CreateCode, CreateShareLink, RevokeShareLink, RevokeAllShareLinks, MoveOrRestore, Watched
  <1>3. CASE Login(d)
    <2>1. PICK u \in Users, p \in Passwords, a \in Addresses, remember \in BOOLEAN :
            Attempt(d, [at |-> "charge", keys |-> <<PairKey(u, a), AccountKey(u), AddressKey(a)>>,
                   op |-> "login", user |-> u, password |-> p, address |-> a, remember |-> remember])
      BY <1>3 DEF Login
    <2> QED
      BY <2>1, AttemptElsewhere DEF Watched
  <1>4. CASE \E op \in {"change", "leave"} : Confirm(d, op)
    <2>1. PICK op \in {"change", "leave"}, p \in Passwords :
            Attempt(d, [at |-> "charge", keys |-> <<PasswordKey(call[d].user)>>,
                   op |-> op, user |-> call[d].user, session |-> call[d].session, password |-> p])
      BY <1>4 DEF Confirm
    <2> QED
      BY <2>1, AttemptElsewhere DEF Watched
  <1>5. CASE Activate(d)
    <2>1. PICK l \in Links, a \in Addresses :
            Attempt(d, [at |-> "charge", keys |-> <<ActivationKey(a)>>, op |-> "activate", link |-> l, address |-> a])
      BY <1>5 DEF Activate
    <2> QED
      BY <2>1, AttemptElsewhere DEF Watched
  <1>6. CASE CheckPassword(d) \/ PeekLink(d) \/ RequestDeletion(d) \/ CreatePairingCode(d)
    BY <1>6, GoesElsewhere, ReturnsElsewhere DEF CheckPassword, PeekLink, RequestDeletion, CreatePairingCode, Watched
  <1>7. CASE IssueActivation(d)
    <2>1. PICK u \in Users : call' = [call EXCEPT ![d] = [at |-> "issue", user |-> u, old |-> ActivationLinksOf(u)]]
      BY <1>7 DEF IssueActivation
    <2> QED
      BY <2>1, MovesElsewhere DEF Watched
  <1>8. CASE SetDisabled(d)
    <2>1. PICK u \in Users, disabled \in BOOLEAN : call' = [call EXCEPT ![d] =
            [at |-> "set status", user |-> u,
             status |-> IF disabled THEN "disabled" ELSE IF users[u].password = None THEN "pending" ELSE "active"]]
      BY <1>8 DEF SetDisabled
    <2> DEFINE status == IF disabled THEN "disabled" ELSE IF users[u].password = None THEN "pending" ELSE "active"
               r == [at |-> "set status", user |-> u, status |-> status]
    <2>2. call' = [call EXCEPT ![d] = r]
      BY <2>1
    <2> HIDE DEF status
    <2>3. r.at \notin Watched
      BY DEF Watched
    <2> HIDE DEF r
    <2> QED
      BY <2>2, <2>3, MovesElsewhere
  <1>9. CASE AdminDeleteUser(d)
    <2>1. PICK u \in Users : call' = [call EXCEPT ![d] = [at |-> "delete", user |-> u]]
      BY <1>9 DEF AdminDeleteUser
    <2> QED
      BY <2>1, MovesElsewhere DEF Watched
  <1>10. CASE Link(d) \/ LookUp(d) \/ LookAtNote(d) \/ FindFile(d)
    <2>1. c # d => call'[c] = call[c]
      BY <1>10 DEF Link, LookUp, LookAtNote, FindFile, GoesTo, Returns, CallsOK
    <2> QED
      BY <1>10, <2>1 DEF Elsewhere
  <1>11. CASE Ingest(d)
    <2>1. PICK m \in written :
       call' = [call EXCEPT ![d] =
         IF IdentityOf(m.chat) = {} THEN Done
         ELSE LET i == CHOOSE i \in IdentityOf(m.chat) : TRUE
              IN  [at |-> "store", message |-> m, user |-> linked[i].user, identity |-> i]]
      BY <1>11 DEF Ingest
    <2> DEFINE i == CHOOSE i \in IdentityOf(m.chat) : TRUE
               r == [at |-> "store", message |-> m, user |-> linked[i].user, identity |-> i]
    <2>2. call' = [call EXCEPT ![d] = IF IdentityOf(m.chat) = {} THEN Done ELSE r]
      BY <2>1
    <2>3. r.at \notin Watched
      BY DEF Watched
    <2> HIDE DEF r
    <2> QED
      BY <2>2, <2>3, MovesElsewhere, ReturnsElsewhere DEF Returns
  <1>12. CASE OpenShare(d)
    <2>1. PICK h \in ShareIds, wants \in {"show", "find file"} :
            call' = [call EXCEPT ![d] = [at |-> "look up", share |-> h, wants |-> wants]]
      BY <1>12 DEF OpenShare
    <2> QED
      BY <2>1, MovesElsewhere DEF Watched
  <1>13. CASE Show(d)
    BY <1>13, ReturnsElsewhere DEF Show
  <1> QED
    BY <1>1, <1>2, <1>3, <1>4, <1>5, <1>6, <1>7, <1>8, <1>9, <1>10, <1>11, <1>12, <1>13
    DEF Looks, LookStep, LookAtChat, LookAtShare

LEMMA ThrottleElsewhere ==
  ASSUME CallsOK, NEW c \in Callers, NEW d \in Callers, ThrottleStep(d)
  PROVE  Elsewhere(c)
  <1>1. call[d] \in Calls /\ "at" \in DOMAIN call[d]
    BY Phases
  <1>2. CASE Charge(d)
    <2> DEFINE rest == Tail(call[d].keys)
               r == [call[d] EXCEPT !.keys = rest, !.at = IF rest = <<>> THEN "check" ELSE "charge"]
    <2>1. Returns(d) \/ call' = [call EXCEPT ![d] = r]
      BY <1>2 DEF Charge, CallsOK
    <2>2. r.at \notin Watched
      BY <1>1 DEF Watched
    <2> HIDE DEF r
    <2> QED
      BY <2>1, <2>2, MovesElsewhere, ReturnsElsewhere
  <1>3. CASE Refund(d)
    <2> DEFINE rest == Tail(call[d].keys)
               r == [call[d] EXCEPT !.keys = rest, !.at = IF rest = <<>> THEN "sign in" ELSE "refund"]
    <2>1. call' = [call EXCEPT ![d] = r]
      BY <1>3 DEF Refund, CallsOK
    <2>2. r.at \notin Watched
      BY <1>1 DEF Watched
    <2> HIDE DEF r
    <2> QED
      BY <2>1, <2>2, MovesElsewhere
  <1>4. CASE Succeed(d)
    <2>1. call[d] \in Logins \cup Confirmations
      BY <1>4, Phases DEF Succeed, At
    <2>2. call[d].op \in {"login", "change", "leave"}
      BY <2>1 DEF Logins, Confirmations
    <2>3. \E r : call' = [call EXCEPT ![d] = r] /\ r.at \in {"refund", "set password", "delete"}
      <3>1. CASE call[d].op = "login"
        <4> DEFINE r == [call[d] EXCEPT !.at = "refund", !.keys = <<AccountKey(call[d].user), AddressKey(call[d].address)>>]
        <4>1. call' = [call EXCEPT ![d] = r] /\ r.at = "refund"
          BY <1>1, <1>4, <3>1 DEF Succeed, CallsOK
        <4> QED
          BY <4>1
      <3>2. CASE call[d].op = "change"
        <4> DEFINE r == [call[d] EXCEPT !.at = "set password"]
        <4>1. call' = [call EXCEPT ![d] = r] /\ r.at = "set password"
          BY <1>1, <1>4, <3>2 DEF Succeed, CallsOK
        <4> QED
          BY <4>1
      <3>3. CASE call[d].op = "leave"
        <4> DEFINE r == [call[d] EXCEPT !.at = "delete"]
        <4>1. call' = [call EXCEPT ![d] = r] /\ r.at = "delete"
          BY <1>1, <1>4, <3>3 DEF Succeed, CallsOK
        <4> QED
          BY <4>1
      <3> QED
        BY <2>2, <3>1, <3>2, <3>3
    <2> QED
      BY <2>3, MovesElsewhere DEF Watched
  <1>5. CASE ForgetAttempts(d) \/ CountFailure(d) \/ ForgetFailures(d)
    BY <1>5, ReturnsElsewhere DEF ForgetAttempts, CountFailure, ForgetFailures
  <1> QED
    BY <1>2, <1>3, <1>4, <1>5 DEF ThrottleStep

LEMMA WritesElsewhere ==
  ASSUME CallsOK, NEW c \in Callers, NEW d \in Callers,
         AccountWrite(d) \/ ChatWrite(d) \/ ShareWrite(d) \/ WriteNote(d)
  PROVE  Elsewhere(c)
  <1>1. CASE AccountWrite(d)
    <2>1. Returns(d) \/ GoesTo(d, "forget attempts") \/ UNCHANGED call
      BY <1>1 DEF AccountWrite, SignIn, SetPassword, SignOut, SignOutElsewhere, SignOutEverywhere, Ends, FinishIssue,
         FinishActivate, FinishDisable, MarkDeleting, CreateUser, Bootstrap
    <2> QED
      BY <2>1, ReturnsElsewhere, GoesElsewhere DEF Watched, Elsewhere
  <1>2. CASE ChatWrite(d)
    <2>1. Returns(d) \/ GoesTo(d, "count failure") \/ GoesTo(d, "linked") \/ UNCHANGED call
      BY <1>2 DEF ChatWrite, InsertPairingCode, LinkChat, Store, Unlink, SetReminderTarget, Write
    <2> QED
      BY <2>1, ReturnsElsewhere, GoesElsewhere DEF Watched, Elsewhere
  <1>3. CASE ShareWrite(d)
    BY <1>3, ReturnsElsewhere DEF ShareWrite, Create, Revoke, RevokeAll, Ended, MoveNote
  <1>4. CASE WriteNote(d)
    BY <1>4, ReturnsElsewhere DEF WriteNote
  <1> QED
    BY <1>1, <1>2, <1>3, <1>4

LEMMA CallSteps ==
  ASSUME TypeInv, Step, NEW c \in Callers
  PROVE  Elsewhere(c) \/ Link(c) \/ LookUp(c) \/ LookAtNote(c) \/ FindFile(c)
  <1>1. CallsOK
    BY DEF TypeInv
  <1>2. CASE \E d \in Callers : Looks(d) \/ ThrottleStep(d) \/ ShareWrite(d) \/ WriteNote(d)
    BY <1>1, <1>2, LooksElsewhere, ThrottleElsewhere, WritesElsewhere
  <1>3. CASE \E d \in Callers : AccountWrite(d) /\ UNCHANGED <<chatVars, shareVars>>
    BY <1>1, <1>3, WritesElsewhere
  <1>4. CASE \E d \in Callers : ChatWrite(d) /\ UNCHANGED shareVars
    BY <1>1, <1>4, WritesElsewhere
  <1>5. CASE (BotWrite /\ UNCHANGED shareVars) \/ BrowserWrite \/ JobWrite \/ Purge \/ Tick
    <2>1. call' = call
      BY <1>5, BotWriteFrame, BrowserWriteFrame, JobWriteFrame DEF BrowserFrame, JobFrame, Purge, Tick
    <2> QED
      BY <2>1 DEF Elsewhere
  <1> QED
    BY <1>2, <1>3, <1>4, <1>5, Steps

-----------------------------------------------------------------------------
(* Showing.                                                                *)
LEMMA SeenIsInOrder ==
  ASSUME NEW c \in Callers, Sees
  PROVE  /\ call'[c] = Done => seen'[c] = {}
         /\ call'[c] # Done => seen'[c] = (IF call[c] = Done THEN {} ELSE seen[c]) \cup InOrder(c)'
         /\ InOrder(c)' \subseteq {"link", "note"}
  <1>1. InOrder(c)' \subseteq {"link", "note"}
    BY DEF InOrder
  <1> QED
    BY <1>1 DEF Sees

LEMMA ViewStep ==
  ASSUME TypeInv, ViewInv, Step, Sees
  PROVE  ViewInv'
  <1> SUFFICES ASSUME NEW c \in Callers
               PROVE  /\ seen'[c] \subseteq {"link", "note"}
                      /\ call'[c].at = "look at note" /\ call'[c].owner # None => "link" \in seen'[c]
                      /\ call'[c].at \in {"find file", "show"} => seen'[c] = {"link", "note"}
    BY DEF ViewInv, At
  <1>1. /\ seen[c] \subseteq {"link", "note"}
        /\ call[c].at = "look at note" /\ call[c].owner # None => "link" \in seen[c]
        /\ call[c].at \in {"find file", "show"} => seen[c] = {"link", "note"}
    BY DEF ViewInv, At
  <1>2. call[c].at \in Watched => call[c] # Done
    BY DoneIsAt DEF Watched
  <1>3. Done.at \notin Watched
    BY DoneIsAt DEF Watched
  <1>4. seen'[c] \subseteq {"link", "note"}
    BY <1>1, SeenIsInOrder
  <1>5. CASE Elsewhere(c)
    BY <1>1, <1>2, <1>4, <1>5, SeenIsInOrder DEF Elsewhere, Watched
  <1>6. CASE Link(c)
    <2>1. call'[c].at \notin {"look at note", "find file", "show"}
      <3>1. PICK x \in Chats, k \in Codes, asked \in 0 .. ServerTime : call' = [call EXCEPT ![c] =
            IF IsBlocked(meter[PairingKey(x)], now) THEN Done
            ELSE IF ~ CodeIsGood(k) THEN [at |-> "count failure", chat |-> x]
            ELSE IF IdentityOf(x) # {} THEN Done
            ELSE [at |-> "link", chat |-> x, code |-> k, user |-> codes[k].user, asked |-> asked, read |-> now]]
        BY <1>6 DEF Link
      <3> DEFINE failed == [at |-> "count failure", chat |-> x]
                 good == [at |-> "link", chat |-> x, code |-> k, user |-> codes[k].user, asked |-> asked, read |-> now]
      <3>2. call'[c] = Done \/ call'[c] = failed \/ call'[c] = good
        BY <3>1 DEF TypeInv, CallsOK
      <3>3. failed.at = "count failure" /\ good.at = "link"
        OBVIOUS
      <3> HIDE DEF failed, good
      <3> QED
        BY <3>2, <3>3, DoneIsAt
    <2> QED
      BY <1>4, <2>1
  <1>7. CASE LookUp(c)
    <2>1. PICK h \in ShareIds : h = call[c].share
      BY <1>7, Phases DEF TypeInv, LookUp, At, Visits
    <2> DEFINE r == [at |-> "look at note", share |-> h, wants |-> call[c].wants,
                     owner |-> IF LinkWorks(h) THEN shares[h].user ELSE None]
    <2>2. call'[c] = r
      BY <1>7, <2>1 DEF LookUp, TypeInv, CallsOK
    <2>3. r.at = "look at note" /\ r.share = h /\ (r.owner # None => LinkWorks(h)) /\ "share" \in DOMAIN r
      OBVIOUS
    <2>4. LinkWorks(h)' <=> LinkWorks(h)
      BY <1>7 DEF LookUp, LinkWorks, InForce, shareVars, rowVars
    <2> HIDE DEF r
    <2>5. call'[c].owner # None => "link" \in InOrder(c)'
      BY <2>2, <2>3, <2>4 DEF InOrder, LinkWorks
    <2>6. call'[c] # Done
      BY <2>2, <2>3, DoneIsAt
    <2> QED
      BY <1>4, <2>2, <2>3, <2>5, <2>6, SeenIsInOrder
  <1>8. CASE LookAtNote(c)
    <2>1. call[c] \in Views /\ call[c].at = "look at note"
      BY <1>8, Phases DEF TypeInv, LookAtNote, At
    <2> PICK u : u = call[c].owner
      OBVIOUS
    <2> DEFINE r == [call[c] EXCEPT !.at = call[c].wants]
    <2>2. call'[c] = IF u # None /\ NoteIsActive(u) THEN r ELSE Done
      BY <1>8 DEF LookAtNote, GoesTo, Returns, TypeInv, CallsOK
    <2>3. CASE u # None /\ NoteIsActive(u)
      <3>1. r \in Views /\ r.owner = u /\ r.share = call[c].share /\ {"share", "owner"} \subseteq DOMAIN r
            /\ r.at \in {"find file", "show"}
        BY <2>1 DEF Views
      <3>2. NoteIsActive(u)'
        BY <1>8, <2>3 DEF LookAtNote, NoteIsActive, shareVars
      <3> HIDE DEF r
      <3>3. "note" \in InOrder(c)'
        BY <2>2, <2>3, <3>1, <3>2 DEF InOrder, NoteOf, NoteIsActive
      <3>4. call[c] # Done /\ call'[c] # Done /\ "link" \in seen[c]
        BY <1>1, <2>1, <2>2, <2>3, <3>1, DoneIsAt
      <3>5. seen'[c] = {"link", "note"}
        BY <1>4, <3>3, <3>4, SeenIsInOrder
      <3> QED
        BY <2>2, <2>3, <3>1, <3>5
    <2>4. CASE ~ (u # None /\ NoteIsActive(u))
      BY <1>3, <1>4, <2>2, <2>4 DEF Watched
    <2> QED
      BY <2>3, <2>4
  <1>9. CASE FindFile(c)
    <2>1. call[c] \in Views /\ call[c].at = "find file"
      BY <1>9, Phases DEF TypeInv, FindFile, At
    <2> DEFINE r == [call[c] EXCEPT !.at = "show"]
    <2>2. call'[c] \in {r, Done}
      BY <1>9 DEF FindFile, GoesTo, Returns, TypeInv, CallsOK
    <2>3. r.at = "show"
      BY <2>1 DEF Views
    <2> HIDE DEF r
    <2>4. seen[c] = {"link", "note"} /\ call[c] # Done
      BY <1>1, <2>1, DoneIsAt
    <2>5. call'[c] # Done => seen'[c] = {"link", "note"}
      BY <1>4, <2>4, SeenIsInOrder
    <2> QED
      BY <1>3, <1>4, <2>2, <2>3, <2>5 DEF Watched
  <1> QED
    BY <1>5, <1>6, <1>7, <1>8, <1>9, CallSteps

(* What a link shows (Shares.Open): For any number of visitors, links and  *)
(* owners, whatever is shown was shared at some moment of the request,     *)
(* although the three reads that find this out are apart.                  *)
THEOREM SharesShowWhatIsShared == Spec => []ShowsWhatIsShared
  <1>1. Init => ViewInv
    BY DoneIsAt DEF Init, ViewInv, At
  <1>2. TypeInv /\ ViewInv /\ [Next]_vars => ViewInv'
    <2>1. ASSUME UNCHANGED vars, ViewInv
          PROVE  ViewInv'
      BY <2>1 DEF vars, ViewInv, At
    <2> QED
      BY <2>1, ViewStep DEF Next
  <1>3. ViewInv => ShowsWhatIsShared
    BY DEF ViewInv, ShowsWhatIsShared
  <1> QED
    BY <1>1, <1>2, <1>3, TypesHold, PTL DEF Spec

-----------------------------------------------------------------------------
(* Linking.                                                                *)
AskedBefore == \A c \in Callers : At(c, "link") => call[c].asked <= call[c].read

LEMMA AskedStep ==
  ASSUME TypeInv, LinkInv, Step
  PROVE  AskedBefore'
  <1> SUFFICES ASSUME NEW c \in Callers, call'[c].at = "link"
               PROVE  call'[c].asked <= call'[c].read
    BY DEF AskedBefore, At
  <1>1. CASE Elsewhere(c)
    BY <1>1 DEF Elsewhere, Watched, LinkInv, At
  <1>2. CASE Link(c)
    <2>1. PICK x \in Chats, k \in Codes, asked \in 0 .. ServerTime : call' = [call EXCEPT ![c] =
            IF IsBlocked(meter[PairingKey(x)], now) THEN Done
            ELSE IF ~ CodeIsGood(k) THEN [at |-> "count failure", chat |-> x]
            ELSE IF IdentityOf(x) # {} THEN Done
            ELSE [at |-> "link", chat |-> x, code |-> k, user |-> codes[k].user, asked |-> asked, read |-> now]]
      BY <1>2 DEF Link
    <2> DEFINE failed == [at |-> "count failure", chat |-> x]
               good == [at |-> "link", chat |-> x, code |-> k, user |-> codes[k].user, asked |-> asked, read |-> now]
    <2>2. call'[c] = Done \/ call'[c] = failed \/ call'[c] = good
      BY <2>1 DEF TypeInv, CallsOK
    <2>3. failed.at = "count failure" /\ good.asked = asked /\ good.read = now
      OBVIOUS
    <2>4. asked <= now
      BY DEF ServerTime, TypeInv, TablesOK, ClockOK
    <2> HIDE DEF failed, good
    <2> QED
      BY <2>2, <2>3, <2>4, DoneIsAt
  <1>3. CASE LookUp(c)
    <2>1. call'[c].at = "look at note"
      BY <1>3 DEF LookUp, TypeInv, CallsOK
    <2> QED
      BY <2>1
  <1>4. CASE LookAtNote(c) \/ FindFile(c)
    <2>1. call[c] \in Views
      BY <1>4, Phases DEF LookAtNote, FindFile, At, TypeInv
    <2>2. \E step \in {"show", "find file"} : Returns(c) \/ GoesTo(c, step)
      BY <1>4, <2>1 DEF LookAtNote, FindFile, Views
    <2>3. call'[c] = Done \/ call'[c].at \in {"show", "find file"}
      BY <2>1, <2>2 DEF Returns, GoesTo, TypeInv, CallsOK, Views
    <2> QED
      BY <2>3, DoneIsAt
  <1> QED
    BY <1>1, <1>2, <1>3, <1>4, CallSteps

(* Rows that were made keep what the history depends on.                   *)
LEMMA RowsKept ==
  ASSUME LinkInv, TypeInv, AskedBefore', kept' = kept, ignored' = ignored,
         \A i \in IdentityIds : \/ /\ linked'[i].linkedAt = linked[i].linkedAt
                                   /\ linked'[i].asked = linked[i].asked /\ linked'[i].chat = linked[i].chat
                                \/ ~ Made(i) /\ linked'[i].linkedAt = linked'[i].asked
  PROVE  LinkInv'
  <1>1. \A i \in IdentityIds : linked'[i].linkedAt = linked'[i].asked
    BY DEF LinkInv
  <1>2. ASSUME NEW u \in Users, NEW r \in kept[u] \cup ignored[u]
        PROVE  linked'[r.identity].asked = linked[r.identity].asked /\ linked'[r.identity].chat # None
    <2>1. r.identity \in IdentityIds
      BY DEF TypeInv, TablesOK, MessagesOK, Records
    <2>2. Made(r.identity)
      BY DEF LinkInv
    <2> QED
      BY <2>1, <2>2 DEF Made
  <1>3. \A u \in Users : \A r \in kept'[u] \cup ignored'[u] : Made(r.identity)'
    BY <1>2 DEF Made
  <1>4. ChatHistoryStaysOut'
    BY <1>2 DEF LinkInv, ChatHistoryStaysOut
  <1> QED
    BY <1>1, <1>3, <1>4 DEF LinkInv, AskedBefore

LEMMA LinkChatHistory ==
  ASSUME TypeInv, LinkInv, AskedBefore', NEW c \in Callers, LinkChat(c)
  PROVE  LinkInv'
  <1>1. kept' = kept /\ ignored' = ignored
    BY DEF LinkChat
  <1>2. CASE linked' = linked
    BY <1>1, <1>2, RowsKept
  <1>3. CASE linked' # linked
    <2>1. PICK i \in NextIdentity, conversation \in BOOLEAN : linked' = [linked EXCEPT ![i] =
             [user |-> call[c].user, chat |-> call[c].chat, linkedAt |-> LinkedAt(c), target |-> CountUserIdentities(call[c].user) = 0,
              conversation |-> conversation, asked |-> call[c].asked]]
      BY <1>3 DEF LinkChat, InsertIdentity
    <2>2. LinkedAt(c) = call[c].asked
      <3>1. call[c] \in Linkings
        BY Phases DEF LinkChat, At, TypeInv
      <3>2. call[c].asked \in Nat /\ call[c].read \in Nat
        BY <3>1 DEF Linkings
      <3>3. call[c].asked <= call[c].read
        BY DEF LinkInv, LinkChat, At
      <3> QED
        BY <3>2, <3>3 DEF LinkedAt, Lesser
    <2> DEFINE row == [user |-> call[c].user, chat |-> call[c].chat, linkedAt |-> LinkedAt(c),
                       target |-> CountUserIdentities(call[c].user) = 0, conversation |-> conversation, asked |-> call[c].asked]
    <2>3. linked' = [linked EXCEPT ![i] = row] /\ row.linkedAt = row.asked
      BY <2>1, <2>2
    <2>4. i \in IdentityIds /\ ~ Made(i)
      BY DEF NextIdentity, NoIdentity, Made
    <2> HIDE DEF row
    <2>5. ASSUME NEW j \in IdentityIds
          PROVE  \/ /\ linked'[j].linkedAt = linked[j].linkedAt
                    /\ linked'[j].asked = linked[j].asked /\ linked'[j].chat = linked[j].chat
                 \/ ~ Made(j) /\ linked'[j].linkedAt = linked'[j].asked
      BY <2>3, <2>4 DEF TypeInv, TablesOK, LinkedOK
    <2> QED
      BY <1>1, <2>5, RowsKept
  <1> QED
    BY <1>2, <1>3

LEMMA StoreHistory ==
  ASSUME TypeInv, LinkInv, AskedBefore', NEW c \in Callers, Store(c)
  PROVE  LinkInv'
  <1>1. call[c] \in Storings
    BY Phases DEF Store, At, TypeInv
  <1> PICK u, m, i : u = call[c].user /\ m = call[c].message /\ i = call[c].identity
    OBVIOUS
  <1>2. u \in Users /\ m \in Messages /\ i \in IdentityIds
    BY <1>1 DEF Storings
  <1>3. LinkedOK /\ MessagesOK
    BY DEF TypeInv, TablesOK
  <1> DEFINE record == [message |-> m, identity |-> i, owner |-> linked[i].user]
  <1>4. \/ /\ StillLinked(c) /\ m.sent >= linked[i].linkedAt
           /\ kept' = [kept EXCEPT ![u] = @ \cup {record}] /\ ignored' = ignored
           /\ linked' = [linked EXCEPT ![i].conversation = TRUE]
        \/ /\ StillLinked(c) /\ m.sent < linked[i].linkedAt
           /\ ignored' = [ignored EXCEPT ![u] = @ \cup {record}] /\ kept' = kept
           /\ linked' = [linked EXCEPT ![i].conversation = TRUE]
        \/ linked' = linked /\ ignored' = ignored /\ kept' = kept
    BY DEF Store, KnowConversation
  <1>5. CASE linked' = linked /\ ignored' = ignored /\ kept' = kept
    BY <1>5, RowsKept
  <1>6. ASSUME StillLinked(c), linked' = [linked EXCEPT ![i].conversation = TRUE],
               \/ /\ m.sent >= linked[i].linkedAt
                  /\ kept' = [kept EXCEPT ![u] = @ \cup {record}] /\ ignored' = ignored
               \/ /\ m.sent < linked[i].linkedAt
                  /\ ignored' = [ignored EXCEPT ![u] = @ \cup {record}] /\ kept' = kept
        PROVE  LinkInv'
    <2>1. \A j \in IdentityIds : /\ linked'[j].linkedAt = linked[j].linkedAt
                                 /\ linked'[j].asked = linked[j].asked /\ linked'[j].chat = linked[j].chat
      BY <1>2, <1>3, <1>6 DEF LinkedOK, IdentityRows
    <2>2. linked[i].user = u /\ linked[i].chat # None /\ linked[i].asked = linked[i].linkedAt
      BY <1>2, <1>3, <1>6, AccountsAssumption DEF StillLinked, LinkedOK, LinkInv
    <2>3. record.message = m /\ record.identity = i /\ record.owner = u
      BY <2>2
    <2> HIDE DEF record
    <2>4. ASSUME NEW v \in Users
          PROVE  /\ \A r \in kept'[v] : r.owner = v /\ r.message.sent >= linked'[r.identity].asked /\ linked'[r.identity].chat # None
                 /\ \A r \in ignored'[v] : r.owner = v /\ r.message.sent < linked'[r.identity].asked /\ linked'[r.identity].chat # None
      <3>1. \A r \in kept[v] \cup ignored[v] : r.identity \in IdentityIds /\ linked[r.identity].chat # None
        BY <1>3 DEF MessagesOK, Records, LinkInv, Made
      <3>2. /\ \A r \in kept[v] : r.owner = v /\ r.message.sent >= linked[r.identity].asked
            /\ \A r \in ignored[v] : r.owner = v /\ r.message.sent < linked[r.identity].asked
        BY DEF LinkInv, ChatHistoryStaysOut
      <3>3. CASE /\ m.sent >= linked[i].linkedAt
                 /\ kept' = [kept EXCEPT ![u] = @ \cup {record}] /\ ignored' = ignored
        <4>1. kept'[v] = (IF v = u THEN kept[v] \cup {record} ELSE kept[v]) /\ ignored'[v] = ignored[v]
          BY <1>2, <1>3, <3>3 DEF MessagesOK
        <4>2. record.message.sent >= linked'[record.identity].asked /\ linked'[record.identity].chat # None
          BY <1>2, <2>1, <2>2, <2>3, <3>3
        <4> QED
          BY <2>1, <2>3, <3>1, <3>2, <4>1, <4>2
      <3>4. CASE /\ m.sent < linked[i].linkedAt
                 /\ ignored' = [ignored EXCEPT ![u] = @ \cup {record}] /\ kept' = kept
        <4>1. ignored'[v] = (IF v = u THEN ignored[v] \cup {record} ELSE ignored[v]) /\ kept'[v] = kept[v]
          BY <1>2, <1>3, <3>4 DEF MessagesOK
        <4>2. record.message.sent < linked'[record.identity].asked /\ linked'[record.identity].chat # None
          BY <1>2, <2>1, <2>2, <2>3, <3>4
        <4> QED
          BY <2>1, <2>3, <3>1, <3>2, <4>1, <4>2
      <3> QED
        BY <1>6, <3>3, <3>4
    <2>5. \A j \in IdentityIds : linked'[j].linkedAt = linked'[j].asked
      BY <2>1 DEF LinkInv
    <2>6. ChatHistoryStaysOut'
      BY <2>4 DEF ChatHistoryStaysOut
    <2>7. \A v \in Users : \A r \in kept'[v] \cup ignored'[v] : Made(r.identity)'
      BY <2>4 DEF Made
    <2> QED
      BY <2>5, <2>6, <2>7 DEF LinkInv, AskedBefore
  <1> QED
    BY <1>4, <1>5, <1>6

LEMMA LinkStep ==
  ASSUME TypeInv, LinkInv, Step
  PROVE  LinkInv'
  <1>1. AskedBefore' /\ LinkedOK
    BY AskedStep DEF TypeInv, TablesOK
  <1>2. ASSUME linked' = linked, kept' = kept, ignored' = ignored
        PROVE  LinkInv'
    BY <1>1, <1>2, RowsKept
  <1>3. CASE \E c \in Callers : Looks(c) \/ ThrottleStep(c) \/ ShareWrite(c) \/ WriteNote(c)
    BY <1>2, <1>3, LooksFrame, ThrottleStepFrame, ShareWriteFrame DEF Frame, ThrottleFrame, ShareFrame, chatVars, WriteNote
  <1>4. CASE \E c \in Callers : AccountWrite(c) /\ UNCHANGED <<chatVars, shareVars>>
    BY <1>2, <1>4 DEF chatVars
  <1>5. CASE \E c \in Callers : ChatWrite(c) /\ UNCHANGED shareVars
    <2>1. CASE \E c \in Callers : LinkChat(c) \/ Store(c)
      BY <1>1, <2>1, LinkChatHistory, StoreHistory
    <2>2. CASE (\E c \in Callers : InsertPairingCode(c)) \/ \E x \in Chats : Write(x)
      BY <1>2, <2>2 DEF InsertPairingCode, Write
    <2>3. CASE Unlink \/ SetReminderTarget
      <3>1. PICK i \in IdentityIds : linked' = [linked EXCEPT ![i].user = None] \/ linked' = [linked EXCEPT ![i].target = ~ @]
        BY <2>3 DEF Unlink, SetReminderTarget, DeleteIdentity, MarkReminderTarget
      <3>2. kept' = kept /\ ignored' = ignored
        BY <2>3 DEF Unlink, SetReminderTarget
      <3>3. \A j \in IdentityIds : /\ linked'[j].linkedAt = linked[j].linkedAt
                                   /\ linked'[j].asked = linked[j].asked /\ linked'[j].chat = linked[j].chat
        BY <1>1, <3>1 DEF LinkedOK, IdentityRows
      <3> QED
        BY <1>1, <3>2, <3>3, RowsKept
    <2> QED
      BY <1>5, <2>1, <2>2, <2>3 DEF ChatWrite
  <1>6. CASE (BotWrite /\ UNCHANGED shareVars) \/ BrowserWrite
    BY <1>2, <1>6, BotWriteFrame, BrowserWriteFrame DEF BrowserFrame, chatVars
  <1>7. CASE JobWrite
    <2>1. PICK w \in Workers : JobStep(w) \/ JobStops(w)
      BY <1>7 DEF JobWrite
    <2>2. linked' = linked \/ \E u \in Users : linked' = Without(u, linked)
      <3>1. CASE DeleteAccount(w)
        <4>1. Head(job[w].accounts) \in Users
          <5>1. job[w] \in Jobs /\ job[w].at = "account"
            BY <3>1 DEF DeleteAccount, TypeInv, JobOK
          <5>2. job[w].accounts \in Seq(Users) /\ job[w].accounts # <<>>
            BY <5>1 DEF Jobs, Asleep
          <5> QED
            BY <5>2
        <4>2. linked' = linked \/ linked' = Without(Head(job[w].accounts), linked)
          BY <3>1 DEF DeleteAccount
        <4> QED
          BY <4>1, <4>2
      <3>2. CASE DeleteUsers(w) \/ DeleteBatch(w) \/ DeleteFiles(w) \/ JobStops(w)
        BY <3>2 DEF DeleteUsers, DeleteBatch, DeleteFiles, JobStops, chatVars
      <3> QED
        BY <2>1, <3>1, <3>2 DEF JobStep
    <2>3. kept' = kept /\ ignored' = ignored
      BY <1>7, JobWriteFrame DEF JobFrame
    <2>4. \A j \in IdentityIds : /\ linked'[j].linkedAt = linked[j].linkedAt
                                 /\ linked'[j].asked = linked[j].asked /\ linked'[j].chat = linked[j].chat
      BY <1>1, <2>2 DEF LinkedOK, IdentityRows, Without
    <2> QED
      BY <1>1, <2>3, <2>4, RowsKept
  <1>8. CASE Purge \/ Tick
    BY <1>2, <1>8 DEF Purge, Tick, chatVars
  <1> QED
    BY <1>3, <1>4, <1>5, <1>6, <1>7, <1>8, Steps

(* Linking (bots.Link, ingest.Handle): For any number of chats, accounts   *)
(* and bots' requests in any order, and however far the chat's server is   *)
(* behind: what is stored for a user came from a chat that was the user's, *)
(* and was written after the chat asked to be linked.                      *)
THEOREM HistoryStaysOut == Spec => []ChatHistoryStaysOut
  <1>1. Init => LinkInv
    <2> SUFFICES ASSUME Init
                 PROVE  LinkInv
      OBVIOUS
    <2>1. \A c \in Callers : ~ At(c, "link")
      BY DoneIsAt DEF Init, At
    <2>2. \A u \in Users : kept[u] = {} /\ ignored[u] = {}
      BY DEF Init
    <2>3. \A i \in IdentityIds : linked[i].linkedAt = linked[i].asked
      <3>1. PICK mix \in Mixes, u \in Users, p \in Passwords, x \in Chats : Begins(mix, u, p, x)
        BY InitBegins
      <3> QED
        BY <3>1 DEF Begins, NoIdentity
    <2> QED
      BY <2>1, <2>2, <2>3 DEF LinkInv, ChatHistoryStaysOut
  <1>2. TypeInv /\ LinkInv /\ [Next]_vars => LinkInv'
    <2>1. ASSUME UNCHANGED vars, LinkInv, TypeInv
          PROVE  LinkInv'
      <3>1. linked' = linked /\ kept' = kept /\ ignored' = ignored /\ call' = call
        BY <2>1 DEF vars, chatVars
      <3>2. AskedBefore'
        BY <2>1, <3>1 DEF LinkInv, AskedBefore, At
      <3> QED
        BY <2>1, <3>1, <3>2, RowsKept
    <2> QED
      BY <2>1, LinkStep DEF Next
  <1>3. LinkInv => ChatHistoryStaysOut
    BY DEF LinkInv
  <1> QED
    BY <1>1, <1>2, <1>3, TypesHold, PTL DEF Spec

-----------------------------------------------------------------------------
(* Deletion, table by table.                                               *)
Gone(u) == users[u].status = "gone"

ContentGone == \A u \in Users : Gone(u) => \A k \in Kinds : content[u][k] = 0
SessionsOwned == \A s \in SessionIds : sessions[s].user # None => ~ Gone(sessions[s].user)
LinksOwned == \A l \in Links : links[l].user # None => ~ Gone(links[l].user)
CodesOwned == \A k \in Codes : codes[k].user # None => ~ Gone(codes[k].user)
LinkedOwned == \A i \in IdentityIds : linked[i].user # None => ~ Gone(linked[i].user)
SharesOwned == \A h \in ShareIds : shares[h].user # None => ~ Gone(shares[h].user)

GoodbyesSaid ==
  \A i \in IdentityIds :
    linked[i].user # None /\ users[linked[i].user].status = "deleting" /\ linked[i].conversation => linked[i].chat \in told

GoneInv ==
  /\ ContentGone /\ SessionsOwned /\ LinksOwned /\ CodesOwned /\ LinkedOwned /\ SharesOwned
  /\ GoodbyesSaid

LEMMA GoneIsComplete ==
  ASSUME GoneInv
  PROVE  DeletionIsComplete
  <1> SUFFICES ASSUME NEW u \in Users
               PROVE  /\ users[u].status = "gone" => NothingLeft(u)
                      /\ users[u].status = "deleting" => \A i \in IdentitiesOf(u) : linked[i].conversation => linked[i].chat \in told
    BY DEF DeletionIsComplete
  <1>1. u # None
    BY AccountsAssumption
  <1>2. ASSUME users[u].status = "gone"
        PROVE  NothingLeft(u)
    <2>1. \A k \in Kinds : content[u][k] = 0
      BY <1>2 DEF GoneInv, ContentGone, Gone
    <2>2. SessionsOf(u) = {} /\ ActivationLinksOf(u) = {}
      BY <1>1, <1>2 DEF GoneInv, SessionsOwned, LinksOwned, Gone, SessionsOf, ActivationLinksOf
    <2>3. IdentitiesOf(u) = {} /\ SharesOf(u) = {}
      BY <1>1, <1>2 DEF GoneInv, LinkedOwned, SharesOwned, Gone, IdentitiesOf, SharesOf
    <2>4. \A k \in Codes : codes[k].user # u
      BY <1>1, <1>2 DEF GoneInv, CodesOwned, Gone
    <2> QED
      BY <2>1, <2>2, <2>3, <2>4 DEF NothingLeft
  <1>3. users[u].status = "deleting" => \A i \in IdentitiesOf(u) : linked[i].conversation => linked[i].chat \in told
    BY <1>1 DEF GoneInv, GoodbyesSaid, IdentitiesOf
  <1> QED
    BY <1>2, <1>3

(* Rows keep their owner, lose it, or get one that is not gone.            *)
NobodyGoes == \A u \in Users : Gone(u)' => Gone(u)
Owners(K, old, new) == \A k \in K : new[k].user \in {old[k].user, None} \/ users'[new[k].user].status # "gone"

LEMMA OwnersStay ==
  ASSUME TypeInv, GoneInv, NobodyGoes, ContentGone', GoodbyesSaid',
         Owners(SessionIds, sessions, sessions'), Owners(Links, links, links'), Owners(Codes, codes, codes'),
         Owners(IdentityIds, linked, linked'), Owners(ShareIds, shares, shares')
  PROVE  GoneInv'
  <1>1. SessionsOwned'
    BY DEF TypeInv, TablesOK, SessionsOK, SessionRows, Someone, GoneInv, SessionsOwned, Owners, NobodyGoes, Gone
  <1>2. LinksOwned'
    BY DEF TypeInv, TablesOK, LinksOK, LinkRows, Someone, GoneInv, LinksOwned, Owners, NobodyGoes, Gone
  <1>3. CodesOwned'
    BY DEF TypeInv, TablesOK, CodesOK, CodeRows, LinkRows, Someone, GoneInv, CodesOwned, Owners, NobodyGoes, Gone
  <1>4. LinkedOwned'
    BY DEF TypeInv, TablesOK, LinkedOK, IdentityRows, Someone, GoneInv, LinkedOwned, Owners, NobodyGoes, Gone
  <1>5. SharesOwned'
    BY DEF TypeInv, TablesOK, SharesOK, ShareRows, Someone, GoneInv, SharesOwned, Owners, NobodyGoes, Gone
  <1> QED
    BY <1>1, <1>2, <1>3, <1>4, <1>5 DEF GoneInv

LEMMA OwnersSame ==
  ASSUME NEW K, NEW table
  PROVE  Owners(K, table, table)
  BY DEF Owners

LEMMA SameUsers ==
  ASSUME users' = users
  PROVE  NobodyGoes
  BY DEF NobodyGoes, Gone

LEMMA ContentStays ==
  ASSUME TypeInv, ContentGone, NobodyGoes,
         content' = content \/ \E u \in Users : \E K : Grows(u, K) /\ ~ Gone(u)'
  PROVE  ContentGone'
  <1>1. CASE content' = content
    BY <1>1 DEF ContentGone, NobodyGoes
  <1>2. CASE \E u \in Users : \E K : Grows(u, K) /\ ~ Gone(u)'
    <2>0. PICK u \in Users : \E K : Grows(u, K) /\ ~ Gone(u)'
      BY <1>2
    <2>1. PICK K : Grows(u, K) /\ ~ Gone(u)'
      BY <2>0
    <2>2. \A v \in Users : v # u => content'[v] = content[v]
      BY <2>1 DEF Grows, TypeInv, TablesOK, ContentOK
    <2> QED
      BY <2>1, <2>2 DEF ContentGone, NobodyGoes
  <1> QED
    BY <1>1, <1>2

LEMMA GoodbyesStay ==
  ASSUME TypeInv, GoodbyesSaid, told \subseteq told',
         \A i \in IdentityIds :
           \/ linked'[i].user = None
           \/ users'[linked'[i].user].status # "deleting"
           \/ /\ linked'[i].user = linked[i].user /\ linked'[i].chat = linked[i].chat
              /\ linked'[i].conversation = linked[i].conversation
              /\ users[linked[i].user].status = "deleting"
  PROVE  GoodbyesSaid'
  BY DEF GoodbyesSaid

(* A step that changes none of these tables.                               *)
LEMMA SameTables ==
  ASSUME TypeInv, GoneInv, UNCHANGED <<rowVars, codes, linked, shares>>
  PROVE  GoneInv'
  <1>1. users' = users /\ content' = content /\ sessions' = sessions /\ links' = links /\ told' = told
        /\ codes' = codes /\ linked' = linked /\ shares' = shares
    BY DEF rowVars
  <1>2. GoodbyesSaid'
    BY <1>1 DEF GoneInv, GoodbyesSaid
  <1>3. ContentGone' /\ NobodyGoes
    BY <1>1, SameUsers, ContentStays DEF GoneInv
  <1> QED
    BY <1>1, <1>2, <1>3, OwnersSame, OwnersStay

LEMMA ShareGone ==
  ASSUME TypeInv, GoneInv, NEW c \in Callers, ShareWrite(c) \/ WriteNote(c)
  PROVE  GoneInv'
  <1>1. users' = users /\ sessions' = sessions /\ links' = links /\ told' = told /\ codes' = codes /\ linked' = linked
    BY ShareWriteFrame DEF ShareFrame, chatVars
  <1>2. NobodyGoes /\ GoodbyesSaid'
    BY <1>1, SameUsers DEF GoneInv, GoodbyesSaid
  <1>3. call[c] \in Asks
    BY Phases DEF ShareWrite, Create, Revoke, RevokeAll, MoveNote, WriteNote, At, TypeInv
  <1>4. call[c].user \in Users
    BY <1>3 DEF Asks
  <1>5. content' = content \/ \E K : Grows(call[c].user, K) /\ Exists(call[c].user)
    BY DEF ShareWrite, Create, Revoke, RevokeAll, Ended, MoveNote, WriteNote, Owner
  <1>6. ContentGone'
    BY <1>1, <1>2, <1>4, <1>5, ContentStays DEF Exists, Gone, GoneInv
  <1>7. Owners(ShareIds, shares, shares')
    <2>1. CASE shares' = shares
      BY <2>1, OwnersSame
    <2>2. CASE Create(c) /\ shares' # shares
      <3>1. PICK life \in Lifetimes, h \in NextShare : InsertShareLink(h, Owner(c), life) /\ Exists(Owner(c))
        BY <2>2 DEF Create
      <3> DEFINE row == [NoShare EXCEPT !.user = Owner(c), !.created = now, !.expires = now + life]
      <3>2. shares' = [shares EXCEPT ![h] = row] /\ row.user = Owner(c)
        BY <3>1 DEF InsertShareLink, NoShare
      <3> HIDE DEF row
      <3>3. users'[Owner(c)].status # "gone"
        BY <1>1, <3>1 DEF Exists
      <3> QED
        BY <3>2, <3>3 DEF Owners, TypeInv, TablesOK, SharesOK
    <2>3. CASE (Revoke(c) \/ RevokeAll(c)) /\ shares' # shares
      <3>1. PICK over : shares' = [h \in ShareIds |-> IF h \in over THEN [shares[h] EXCEPT !.revoked = TRUE, !.ended = now] ELSE shares[h]]
        BY <2>3 DEF Revoke, RevokeAll, Ended
      <3>2. \A h \in ShareIds : shares'[h].user = shares[h].user
        BY <3>1 DEF TypeInv, TablesOK, SharesOK, ShareRows
      <3> QED
        BY <3>2 DEF Owners
    <2> QED
      BY <2>1, <2>2, <2>3 DEF ShareWrite, MoveNote, WriteNote, shareVars
  <1> QED
    BY <1>1, <1>2, <1>6, <1>7, OwnersSame, OwnersStay

LEMMA RevokedAreOwned ==
  ASSUME SessionsOK, NEW S
  PROVE  \A s \in SessionIds : RevokeSessions(S, sessions)[s].user = sessions[s].user
  BY DEF SessionsOK, SessionRows, RevokeSessions

(* Nobody who is gone comes back, and only RequestDeletion dooms anybody.  *)
LEMMA StatusMoves ==
  ASSUME TypeInv, NEW c \in Callers, AccountWrite(c)
  PROVE  /\ NobodyGoes
         /\ \/ MarkDeleting(c, ChatsToTell(call[c].user))
            \/ \A u \in Users : users'[u].status = "deleting" => users[u].status = "deleting"
  <1>1. UsersOK
    BY DEF TypeInv, TablesOK
  <1>2. CASE users' = users
    BY <1>2, SameUsers
  <1>3. CASE \E u, p : users' = [users EXCEPT ![u].password = p]
    <2>1. \A v \in Users : users'[v].status = users[v].status
      BY <1>1, <1>3 DEF UsersOK, UserRows
    <2> QED
      BY <2>1 DEF NobodyGoes, Gone
  <1>4. CASE \E u : \E status \in {"pending", "disabled", "active"} : users' = [users EXCEPT ![u].status = status]
    <2>1. \A v \in Users : users'[v].status = users[v].status \/ users'[v].status \in {"pending", "disabled", "active"}
      BY <1>1, <1>4 DEF UsersOK, UserRows
    <2> QED
      BY <2>1 DEF NobodyGoes, Gone
  <1>5. CASE \E u, p : \E status \in {"pending", "active"} : users' = [users EXCEPT ![u] = [status |-> status, password |-> p]]
    <2>1. \A v \in Users : users'[v].status = users[v].status \/ users'[v].status \in {"pending", "active"}
      BY <1>1, <1>5 DEF UsersOK, UserRows
    <2> QED
      BY <2>1 DEF NobodyGoes, Gone
  <1>6. CASE MarkDeleting(c, ChatsToTell(call[c].user))
    <2>1. users' = users \/ users' = [users EXCEPT ![call[c].user].status = "deleting"]
      BY <1>6 DEF MarkDeleting, SetUserStatus
    <2>2. \A v \in Users : users'[v].status = users[v].status \/ users'[v].status = "deleting"
      BY <1>1, <2>1 DEF UsersOK, UserRows
    <2> QED
      BY <1>6, <2>2 DEF NobodyGoes, Gone
  <1>7. CASE SignIn(c) \/ SignOut(c) \/ SignOutElsewhere(c) \/ SignOutEverywhere(c)
    BY <1>2, <1>7 DEF SignIn, SignOut, SignOutElsewhere, SignOutEverywhere, Ends
  <1>8. CASE SetPassword(c)
    BY <1>2, <1>3, <1>8 DEF SetPassword, SetPasswordHash
  <1>9. CASE FinishIssue(c)
    BY <1>2, <1>5, <1>9 DEF FinishIssue, ClearUserPassword
  <1>10. CASE FinishActivate(c)
    BY <1>2, <1>5, <1>10 DEF FinishActivate, ActivateUser
  <1>11. CASE FinishDisable(c)
    <2>1. call[c] \in Settings
      BY <1>11, Phases DEF FinishDisable, At, TypeInv
    <2>2. call[c].status \in {"pending", "disabled", "active"}
      BY <2>1 DEF Settings
    <2> QED
      BY <1>2, <1>4, <1>11, <2>2 DEF FinishDisable, SetUserStatus
  <1>12. CASE \E u \in Users : CreateUser(u) \/ Bootstrap(u)
    BY <1>4, <1>12 DEF CreateUser, Bootstrap, NewUser, InsertUser
  <1> QED
    BY <1>6, <1>7, <1>8, <1>9, <1>10, <1>11, <1>12 DEF AccountWrite

LEMMA SessionsGone ==
  ASSUME TypeInv, NEW c \in Callers, AccountWrite(c), NobodyGoes
  PROVE  Owners(SessionIds, sessions, sessions')
  <1>1. SessionsOK
    BY DEF TypeInv, TablesOK
  <1>2. CASE sessions' = sessions
    BY <1>2, OwnersSame
  <1>3. CASE \E S : sessions' = RevokeSessions(S, sessions)
    BY <1>1, <1>3, RevokedAreOwned DEF Owners
  <1>4. CASE \E s, u, remember : sessions' = [sessions EXCEPT ![s] = NewSession(u, remember)] /\ users'[u].status # "gone"
    <2>1. PICK s, u, remember : sessions' = [sessions EXCEPT ![s] = NewSession(u, remember)] /\ users'[u].status # "gone"
      BY <1>4
    <2> DEFINE row == NewSession(u, remember)
    <2>2. row.user = u
      BY DEF NewSession, NoSession
    <2>3. sessions' = [sessions EXCEPT ![s] = row]
      BY <2>1
    <2> HIDE DEF row
    <2> QED
      BY <1>1, <2>1, <2>2, <2>3 DEF Owners, SessionsOK
  <1>5. CASE SignIn(c)
    <2>1. CASE sessions' = sessions
      BY <1>2, <2>1
    <2>2. CASE sessions' # sessions
      <3>1. PICK s \in NextSession : sessions' = [sessions EXCEPT ![s] = NewSession(call[c].user, call[c].remember)]
        BY <1>5, <2>2 DEF SignIn
      <3>2. users'[call[c].user].status # "gone"
        BY <1>5, <2>2 DEF SignIn, Exists
      <3> QED
        BY <1>4, <3>1, <3>2
    <2> QED
      BY <2>1, <2>2
  <1>6. CASE SetPassword(c)
    BY <1>3, <1>6 DEF SetPassword
  <1>7. CASE SignOut(c) \/ SignOutElsewhere(c) \/ SignOutEverywhere(c)
    BY <1>3, <1>7 DEF SignOut, SignOutElsewhere, SignOutEverywhere, Ends
  <1>8. CASE FinishIssue(c)
    BY <1>2, <1>3, <1>8 DEF FinishIssue
  <1>9. CASE FinishActivate(c)
    <2>1. CASE sessions' = sessions
      BY <1>2, <2>1
    <2>2. CASE sessions' # sessions
      <3>1. PICK l, p, s : /\ l \in Links /\ links[l].user # None
                           /\ ActivateUser(links[l].user, p) /\ sessions' = [sessions EXCEPT ![s] = NewSession(links[l].user, TRUE)]
        <4>1. call[c] \in Activations
          BY <1>9, Phases DEF FinishActivate, At, TypeInv
        <4>2. call[c].link \in Links
          BY <4>1 DEF Activations
        <4> QED
          BY <1>9, <2>2, <4>2 DEF FinishActivate, Usable
      <3>2. links[l].user \in Users
        BY <3>1 DEF TypeInv, TablesOK, LinksOK, LinkRows, Someone
      <3>3. users'[links[l].user].status # "gone"
        BY <3>1, <3>2 DEF ActivateUser, TypeInv, TablesOK, UsersOK
      <3> QED
        BY <1>4, <3>1, <3>3
    <2> QED
      BY <2>1, <2>2
  <1>10. CASE FinishDisable(c)
    BY <1>2, <1>3, <1>10 DEF FinishDisable
  <1>11. CASE MarkDeleting(c, ChatsToTell(call[c].user))
    BY <1>2, <1>3, <1>11 DEF MarkDeleting
  <1>12. CASE \E u \in Users : CreateUser(u) \/ Bootstrap(u)
    BY <1>2, <1>12 DEF CreateUser, Bootstrap
  <1> QED
    BY <1>5, <1>6, <1>7, <1>8, <1>9, <1>10, <1>11, <1>12 DEF AccountWrite

LEMMA LinksGone ==
  ASSUME TypeInv, NEW c \in Callers, AccountWrite(c), NobodyGoes
  PROVE  Owners(Links, links, links')
  <1>1. LinksOK /\ UsersOK
    BY DEF TypeInv, TablesOK
  <1>2. CASE links' = links
    BY <1>2, OwnersSame
  <1>3. CASE \E l : links' = [links EXCEPT ![l].used = TRUE]
    <2>1. \A l \in Links : links'[l].user = links[l].user
      BY <1>1, <1>3 DEF LinksOK, LinkRows
    <2> QED
      BY <2>1 DEF Owners
  <1>4. ASSUME NEW doomed, NEW u, NEW l, links' = InsertUserToken(DeleteUserTokens(doomed), u, l), users'[u].status # "gone"
        PROVE  Owners(Links, links, links')
    <2> DEFINE row == [user |-> u, expires |-> now + Ttl, used |-> FALSE]
               rest == DeleteUserTokens(doomed)
    <2>1. links' = [rest EXCEPT ![l] = row] /\ row.user = u
      BY <1>4 DEF InsertUserToken
    <2>2. \A k \in Links : rest[k].user \in {links[k].user, None}
      BY <1>1 DEF DeleteUserTokens, LinksOK, LinkRows
    <2>3. DOMAIN rest = Links
      BY DEF DeleteUserTokens
    <2> HIDE DEF row, rest
    <2>4. \A k \in Links : links'[k] = rest[k] \/ links'[k] = row
      BY <2>1, <2>3
    <2> QED
      BY <1>4, <2>1, <2>2, <2>4 DEF Owners
  <1>5. CASE FinishIssue(c)
    <2>1. CASE Exists(call[c].user)
      <3>1. PICK l \in NextLink : links' = InsertUserToken(DeleteUserTokens(call[c].old), call[c].user, l)
        BY <1>5, <2>1 DEF FinishIssue
      <3>2. call[c].user \in Users
        <4>1. call[c] \in Issues
          BY <1>5, Phases DEF FinishIssue, At, TypeInv
        <4> QED
          BY <4>1 DEF Issues
      <3>3. users'[call[c].user].status # "gone"
        BY <1>1, <1>5, <2>1, <3>2 DEF FinishIssue, ClearUserPassword, UsersOK
      <3> QED
        BY <1>4, <3>1, <3>3
    <2>2. CASE ~ Exists(call[c].user)
      BY <1>2, <1>5, <2>2 DEF FinishIssue
    <2> QED
      BY <2>1, <2>2
  <1>6. CASE FinishActivate(c)
    BY <1>2, <1>3, <1>6 DEF FinishActivate, ConsumeUserToken
  <1>7. CASE \E u \in Users : CreateUser(u)
    BY <1>2, <1>7 DEF CreateUser
  <1>8. CASE \E u \in Users : Bootstrap(u)
    <2>1. PICK u \in Users, l \in NextLink : NewUser(u) /\ links' = InsertUserToken(links, u, l)
      BY <1>8 DEF Bootstrap
    <2>2. users'[u].status # "gone"
      BY <1>1, <2>1 DEF NewUser, InsertUser, UsersOK, UserRows
    <2> DEFINE row == [user |-> u, expires |-> now + Ttl, used |-> FALSE]
    <2>3. links' = [links EXCEPT ![l] = row] /\ row.user = u
      BY <2>1 DEF InsertUserToken
    <2> HIDE DEF row
    <2> QED
      BY <1>1, <2>2, <2>3 DEF Owners, LinksOK
  <1>9. CASE SignIn(c) \/ SetPassword(c) \/ SignOut(c) \/ SignOutElsewhere(c) \/ SignOutEverywhere(c)
    BY <1>2, <1>9 DEF SignIn, SetPassword, SignOut, SignOutElsewhere, SignOutEverywhere, Ends
  <1>10. CASE FinishDisable(c) \/ MarkDeleting(c, ChatsToTell(call[c].user))
    BY <1>2, <1>10 DEF FinishDisable, MarkDeleting
  <1> QED
    BY <1>5, <1>6, <1>7, <1>8, <1>9, <1>10 DEF AccountWrite

(* The goodbyes are said with the status (RequestDeletion).                *)
LEMMA GoodbyesGone ==
  ASSUME TypeInv, GoneInv, NEW c \in Callers, AccountWrite(c), UNCHANGED <<chatVars, shareVars>>
  PROVE  GoodbyesSaid'
  <1>1. linked' = linked /\ LinkedOK /\ UsersOK
    BY DEF chatVars, TypeInv, TablesOK
  <1>2. CASE MarkDeleting(c, ChatsToTell(call[c].user)) /\ users' # users
    <2> PICK u : u = call[c].user
      OBVIOUS
    <2>1. users' = [users EXCEPT ![u].status = "deleting"] /\ told' = told \cup ChatsToTell(u)
      BY <1>2 DEF MarkDeleting, SetUserStatus
    <2>2. ASSUME NEW i \in IdentityIds, linked[i].user # None, users'[linked[i].user].status = "deleting", linked[i].conversation
          PROVE  linked[i].chat \in told'
      <3>1. linked[i].user \in Users
        BY <1>1, <2>2 DEF LinkedOK, IdentityRows, Someone
      <3>2. CASE linked[i].user = u
        <4>1. linked[i].chat \in ChatsToTell(u)
          BY <2>2, <3>2 DEF ChatsToTell, IdentitiesOf
        <4> QED
          BY <2>1, <4>1
      <3>3. CASE linked[i].user # u
        <4>1. users'[linked[i].user].status = users[linked[i].user].status
          BY <1>1, <2>1, <3>1, <3>3 DEF UsersOK
        <4> QED
          BY <2>1, <2>2, <4>1 DEF GoneInv, GoodbyesSaid
      <3> QED
        BY <3>2, <3>3
    <2> QED
      BY <1>1, <2>2 DEF GoodbyesSaid
  <1>3. CASE ~ MarkDeleting(c, ChatsToTell(call[c].user)) \/ users' = users
    <2>1. told \subseteq told'
      BY <1>3 DEF AccountWrite, SignIn, SetPassword, SignOut, SignOutElsewhere, SignOutEverywhere, Ends,
         FinishIssue, FinishActivate, FinishDisable, MarkDeleting, CreateUser, Bootstrap
    <2>2. \A u \in Users : users'[u].status = "deleting" => users[u].status = "deleting"
      BY <1>3, StatusMoves
    <2> QED
      BY <1>1, <2>1, <2>2, GoodbyesStay DEF GoneInv, LinkedOK, IdentityRows, Someone
  <1> QED
    BY <1>2, <1>3

LEMMA AccountGone ==
  ASSUME TypeInv, GoneInv, NEW c \in Callers, AccountWrite(c), UNCHANGED <<chatVars, shareVars>>
  PROVE  GoneInv'
  <1>1. content' = content /\ codes' = codes /\ linked' = linked /\ shares' = shares
    BY AccountWriteFrame DEF AccountFrame, chatVars, shareVars
  <1>2. NobodyGoes
    BY StatusMoves
  <1>3. ContentGone'
    BY <1>1, <1>2, ContentStays DEF GoneInv
  <1> QED
    BY <1>1, <1>2, <1>3, OwnersSame, SessionsGone, LinksGone, GoodbyesGone, OwnersStay

LEMMA ChatGone ==
  ASSUME TypeInv, GoneInv, NEW c \in Callers, ChatWrite(c), UNCHANGED shareVars
  PROVE  GoneInv'
  <1>1. users' = users /\ sessions' = sessions /\ links' = links /\ shares' = shares
    BY ChatWriteFrame DEF ChatFrame, shareVars
  <1>2. NobodyGoes
    BY <1>1, SameUsers
  <1>3. LinkedOK /\ CodesOK
    BY DEF TypeInv, TablesOK
  <1>4. CASE InsertPairingCode(c)
    <2>1. linked' = linked /\ content' = content /\ told' = told
      BY <1>4 DEF InsertPairingCode, rowVars
    <2>2. GoodbyesSaid' /\ ContentGone'
      BY <1>1, <1>2, <2>1, ContentStays DEF GoneInv, GoodbyesSaid
    <2>3. Owners(Codes, codes, codes')
      <3>1. CASE codes' = codes
        BY <3>1, OwnersSame
      <3>2. CASE codes' # codes
        <4>1. PICK k \in NextCode : codes' = [codes EXCEPT ![k] = [user |-> call[c].user, expires |-> now + CodeTtl, used |-> FALSE]]
          BY <1>4, <3>2 DEF InsertPairingCode
        <4>2. users'[call[c].user].status # "gone"
          BY <1>1, <1>4, <3>2 DEF InsertPairingCode, Exists
        <4> DEFINE row == [user |-> call[c].user, expires |-> now + CodeTtl, used |-> FALSE]
        <4>3. codes' = [codes EXCEPT ![k] = row] /\ row.user = call[c].user
          BY <4>1
        <4> HIDE DEF row
        <4> QED
          BY <1>3, <4>2, <4>3 DEF Owners, CodesOK
      <3> QED
        BY <3>1, <3>2
    <2> QED
      BY <1>1, <1>2, <2>1, <2>2, <2>3, OwnersSame, OwnersStay
  <1>5. CASE LinkChat(c) /\ UNCHANGED <<codes, linked, told>>
    <2>1. content' = content
      BY <1>5 DEF LinkChat
    <2> QED
      BY <1>1, <1>5, <2>1, SameTables DEF rowVars
  <1>6. CASE LinkChat(c) /\ ~ UNCHANGED <<codes, linked, told>>
    <2> PICK u, x, k : u = call[c].user /\ x = call[c].chat /\ k = call[c].code
      OBVIOUS
    <2>1. users[u].status = "active" /\ IdentityOf(x) = {} /\ ConsumePairingCode(k) /\ told' = told \ {x} /\ content' = content
      BY <1>6 DEF LinkChat
    <2>2. PICK i \in NextIdentity, conversation \in BOOLEAN : linked' = [linked EXCEPT ![i] =
             [user |-> u, chat |-> x, linkedAt |-> LinkedAt(c), target |-> CountUserIdentities(u) = 0,
              conversation |-> conversation, asked |-> call[c].asked]]
      BY <1>6 DEF LinkChat, InsertIdentity
    <2> DEFINE row == [user |-> u, chat |-> x, linkedAt |-> LinkedAt(c), target |-> CountUserIdentities(u) = 0,
                       conversation |-> conversation, asked |-> call[c].asked]
    <2>3. linked' = [linked EXCEPT ![i] = row] /\ row.user = u
      BY <2>2
    <2> HIDE DEF row
    <2>4. Owners(IdentityIds, linked, linked')
      BY <1>1, <1>3, <2>1, <2>3 DEF Owners, LinkedOK
    <2>5. Owners(Codes, codes, codes')
      <3>1. \A j \in Codes : codes'[j].user = codes[j].user
        BY <1>3, <2>1 DEF ConsumePairingCode, CodesOK, CodeRows, LinkRows
      <3> QED
        BY <3>1 DEF Owners
    <2>6. ContentGone'
      BY <1>2, <2>1, ContentStays DEF GoneInv
    <2>7. GoodbyesSaid'
      <3>1. ASSUME NEW j \in IdentityIds, linked'[j].user # None, users'[linked'[j].user].status = "deleting", linked'[j].conversation
            PROVE  linked'[j].chat \in told'
        <4>1. j # i \/ linked'[j] = row
          BY <1>3, <2>3 DEF LinkedOK
        <4>2. linked'[j] = linked[j]
          BY <1>1, <1>3, <2>1, <2>3, <3>1, <4>1 DEF LinkedOK
        <4>3. linked[j].chat \in told
          BY <1>1, <3>1, <4>2 DEF GoneInv, GoodbyesSaid
        <4>4. linked[j].chat # x
          BY <2>1, <3>1, <4>2 DEF IdentityOf
        <4> QED
          BY <2>1, <4>2, <4>3, <4>4
      <3> QED
        BY <3>1 DEF GoodbyesSaid
    <2> QED
      BY <1>1, <1>2, <2>4, <2>5, <2>6, <2>7, OwnersSame, OwnersStay
  <1>7. CASE Store(c)
    <2> PICK u, i : u = call[c].user /\ i = call[c].identity
      OBVIOUS
    <2>1. call[c] \in Storings
      BY <1>7, Phases DEF Store, At, TypeInv
    <2>2. u \in Users /\ i \in IdentityIds
      BY <2>1 DEF Storings
    <2>3. codes' = codes /\ told' = told
      BY <1>7 DEF Store
    <2>4. \/ linked' = linked /\ content' = content
          \/ /\ users[u].status = "active" /\ linked[i].user = u /\ linked' = [linked EXCEPT ![i].conversation = TRUE]
             /\ \E K : Grows(u, K)
      BY <1>7 DEF Store, StillLinked, KnowConversation
    <2>5. ContentGone'
      BY <1>1, <1>2, <2>2, <2>4, ContentStays DEF Gone, GoneInv
    <2>6. ASSUME NEW j \in IdentityIds
          PROVE  /\ linked'[j].user = linked[j].user /\ linked'[j].chat = linked[j].chat
                 /\ linked'[j].conversation = linked[j].conversation \/ users[linked[j].user].status = "active"
      BY <1>3, <2>2, <2>4 DEF LinkedOK, IdentityRows
    <2>7. Owners(IdentityIds, linked, linked')
      BY <2>6 DEF Owners
    <2>8. GoodbyesSaid'
      BY <1>1, <2>3, <2>6 DEF GoneInv, GoodbyesSaid
    <2> QED
      BY <1>1, <1>2, <2>3, <2>5, <2>7, <2>8, OwnersSame, OwnersStay
  <1>8. CASE Unlink
    <2>1. PICK i \in IdentityIds : linked' = [linked EXCEPT ![i].user = None]
      BY <1>8 DEF Unlink, DeleteIdentity
    <2>2. codes' = codes /\ content' = content /\ told \subseteq told'
      BY <1>8 DEF Unlink, InsertOutbox
    <2>3. \A j \in IdentityIds : \/ linked'[j] = linked[j]
                                 \/ linked'[j].user = None
      BY <1>3, <2>1 DEF LinkedOK, IdentityRows
    <2>4. Owners(IdentityIds, linked, linked')
      BY <2>3 DEF Owners
    <2>5. GoodbyesSaid'
      BY <1>1, <2>2, <2>3 DEF GoneInv, GoodbyesSaid
    <2>6. ContentGone'
      BY <1>2, <2>2, ContentStays DEF GoneInv
    <2> QED
      BY <1>1, <1>2, <2>2, <2>4, <2>5, <2>6, OwnersSame, OwnersStay
  <1>9. CASE SetReminderTarget
    <2>1. PICK i \in IdentityIds : linked' = [linked EXCEPT ![i].target = ~ @]
      BY <1>9 DEF SetReminderTarget, MarkReminderTarget
    <2>2. codes' = codes /\ content' = content /\ told' = told
      BY <1>9 DEF SetReminderTarget, rowVars
    <2>3. \A j \in IdentityIds : /\ linked'[j].user = linked[j].user /\ linked'[j].chat = linked[j].chat
                                 /\ linked'[j].conversation = linked[j].conversation
      BY <1>3, <2>1 DEF LinkedOK, IdentityRows
    <2>4. Owners(IdentityIds, linked, linked')
      BY <2>3 DEF Owners
    <2>5. GoodbyesSaid'
      BY <1>1, <2>2, <2>3 DEF GoneInv, GoodbyesSaid
    <2>6. ContentGone'
      BY <1>2, <2>2, ContentStays DEF GoneInv
    <2> QED
      BY <1>1, <1>2, <2>2, <2>4, <2>5, <2>6, OwnersSame, OwnersStay
  <1>10. CASE \E x \in Chats : Write(x)
    <2>1. UNCHANGED rowVars /\ codes' = codes /\ linked' = linked
      BY <1>10 DEF Write
    <2> QED
      BY <1>1, <2>1, SameTables
  <1> QED
    BY <1>4, <1>5, <1>6, <1>7, <1>8, <1>9, <1>10 DEF ChatWrite

LEMMA BrowserGone ==
  ASSUME TypeInv, GoneInv, BrowserWrite
  PROVE  GoneInv'
  <1>1. users' = users /\ links' = links /\ content' = content /\ told' = told /\ codes' = codes /\ linked' = linked /\ shares' = shares
    BY BrowserWriteFrame DEF BrowserFrame, chatVars, shareVars
  <1>2. NobodyGoes /\ ContentGone' /\ GoodbyesSaid'
    BY <1>1, SameUsers, ContentStays DEF GoneInv, GoodbyesSaid
  <1>3. SessionsOK
    BY DEF TypeInv, TablesOK
  <1>4. PICK t \in Tabs : BrowserStep(t)
    BY DEF BrowserWrite
  <1>5. \/ sessions' = sessions
        \/ sessions' = [sessions EXCEPT ![sent[t].session] = Rotated(sent[t].session)] /\ sent[t].session \in SessionIds
        \/ sessions' = RevokeSessions({sent[t].session}, sessions)
    <2>1. sent[t] # None => sent[t].session \in SessionIds
      BY DEF TypeInv, BrowserOK, Presented
    <2> QED
      BY <1>4, <2>1 DEF BrowserStep, RefreshSession, Refresh, TabHears, TabHearsNothing, rowVars
  <1>6. \A s \in SessionIds : sessions'[s].user = sessions[s].user
    <2>1. ASSUME NEW s \in SessionIds
          PROVE  Rotated(s).user = sessions[s].user
      BY <1>3 DEF Rotated, SessionsOK, SessionRows
    <2> QED
      BY <1>3, <1>5, <2>1, RevokedAreOwned DEF SessionsOK
  <1>7. Owners(SessionIds, sessions, sessions')
    BY <1>6 DEF Owners
  <1> QED
    BY <1>1, <1>2, <1>7, OwnersSame, OwnersStay

LEMMA PurgeGone ==
  ASSUME TypeInv, GoneInv, Purge
  PROVE  GoneInv'
  <1>1. users' = users /\ links' = links /\ content' = content /\ told' = told /\ codes' = codes /\ linked' = linked
    BY DEF Purge, chatVars
  <1>2. NobodyGoes /\ ContentGone' /\ GoodbyesSaid'
    BY <1>1, SameUsers, ContentStays DEF GoneInv, GoodbyesSaid
  <1>3. Owners(SessionIds, sessions, sessions')
    BY DEF Purge, DeleteOldSessions, TypeInv, TablesOK, SessionsOK, SessionRows, Owners
  <1>4. Owners(ShareIds, shares, shares')
    <2>1. shares' = PurgeShares(shares)
      BY DEF Purge
    <2> QED
      BY <2>1 DEF PurgeShares, TypeInv, TablesOK, SharesOK, ShareRows, Owners
  <1> QED
    BY <1>1, <1>2, <1>3, <1>4, OwnersSame, OwnersStay

LEMMA WithoutOwner ==
  ASSUME TablesOK, NEW u \in Users
  PROVE  /\ \A s \in SessionIds : Without(u, sessions)[s].user = IF sessions[s].user = u THEN None ELSE sessions[s].user
         /\ \A l \in Links : Without(u, links)[l].user = IF links[l].user = u THEN None ELSE links[l].user
         /\ \A k \in Codes : Without(u, codes)[k].user = IF codes[k].user = u THEN None ELSE codes[k].user
         /\ \A i \in IdentityIds : Without(u, linked)[i].user = IF linked[i].user = u THEN None ELSE linked[i].user
         /\ \A h \in ShareIds : Without(u, shares)[h].user = IF shares[h].user = u THEN None ELSE shares[h].user
         /\ \A i \in IdentityIds : /\ Without(u, linked)[i].chat = linked[i].chat
                                   /\ Without(u, linked)[i].conversation = linked[i].conversation
  <1>1. \A s \in SessionIds : Without(u, sessions)[s].user = IF sessions[s].user = u THEN None ELSE sessions[s].user
    BY DEF TablesOK, SessionsOK, SessionRows, Without
  <1>2. \A l \in Links : Without(u, links)[l].user = IF links[l].user = u THEN None ELSE links[l].user
    BY DEF TablesOK, LinksOK, LinkRows, Without
  <1>3. \A k \in Codes : Without(u, codes)[k].user = IF codes[k].user = u THEN None ELSE codes[k].user
    BY DEF TablesOK, CodesOK, CodeRows, LinkRows, Without
  <1>4. \A i \in IdentityIds : /\ Without(u, linked)[i].user = IF linked[i].user = u THEN None ELSE linked[i].user
                               /\ Without(u, linked)[i].chat = linked[i].chat
                               /\ Without(u, linked)[i].conversation = linked[i].conversation
    BY DEF TablesOK, LinkedOK, IdentityRows, Without
  <1>5. \A h \in ShareIds : Without(u, shares)[h].user = IF shares[h].user = u THEN None ELSE shares[h].user
    BY DEF TablesOK, SharesOK, ShareRows, Without
  <1> QED
    BY <1>1, <1>2, <1>3, <1>4, <1>5

LEMMA BatchGone ==
  ASSUME TypeInv, GoneInv, NEW w \in Workers, DeleteBatch(w)
  PROVE  GoneInv'
  <1> PICK u, kind : u = Head(job[w].accounts) /\ kind = Batches[job[w].step]
    OBVIOUS
  <1>1. users' = users /\ links' = links /\ sessions' = sessions /\ told' = told /\ codes' = codes /\ linked' = linked
    BY DEF DeleteBatch, chatVars
  <1>2. NobodyGoes /\ GoodbyesSaid'
    BY <1>1, SameUsers DEF GoneInv, GoodbyesSaid
  <1>3. u \in Users
    BY JobPhases DEF DeleteBatch, TypeInv
  <1>4. ContentGone'
    <2>1. content' = [content EXCEPT ![u][kind] = 0]
      BY DEF DeleteBatch, Removes
    <2>2. \A v \in Users, k \in Kinds : content'[v][k] = content[v][k] \/ content'[v][k] = 0
      BY <1>3, <2>1 DEF TypeInv, TablesOK, ContentOK
    <2> QED
      BY <1>1, <2>2 DEF GoneInv, ContentGone, Gone
  <1>5. Owners(ShareIds, shares, shares')
    <2>1. shares' = shares \/ shares' = Without(u, shares)
      BY DEF DeleteBatch, shareVars
    <2>2. \A h \in ShareIds : Without(u, shares)[h].user \in {shares[h].user, None}
      BY <1>3, WithoutOwner DEF TypeInv
    <2> QED
      BY <2>1, <2>2 DEF Owners
  <1> QED
    BY <1>1, <1>2, <1>4, <1>5, OwnersSame, OwnersStay

(* The account and what refers to it go together.                          *)
LEMMA AccountIsGone ==
  ASSUME TypeInv, GoneInv, NEW w \in Workers, DeleteAccount(w)
  PROVE  GoneInv'
  <1> PICK u : u = Head(job[w].accounts)
    OBVIOUS
  <1>1. u \in Users /\ u # None /\ job[w].seen \in Nat
    BY JobPhases, AccountsAssumption DEF DeleteAccount, TypeInv
  <1>2. TablesOK /\ UsersOK /\ ContentOK
    BY DEF TypeInv, TablesOK
  <1>3. CASE UNCHANGED <<rowVars, codes, linked, shareVars>>
    BY <1>3, SameTables DEF shareVars
  <1>4. CASE /\ users' = [users EXCEPT ![u] = [status |-> "gone", password |-> None]]
             /\ content' = [content EXCEPT ![u] = [k \in Kinds |-> 0]]
             /\ sessions' = Without(u, sessions) /\ links' = Without(u, links)
             /\ codes' = Without(u, codes) /\ linked' = Without(u, linked)
             /\ shares' = Without(u, shares) /\ told' = told
    <2>1. \A v \in Users : v # u => users'[v] = users[v] /\ content'[v] = content[v]
      BY <1>2, <1>4 DEF UsersOK, ContentOK
    <2>2. ContentGone'
      <3>1. \A k \in Kinds : content'[u][k] = 0
        BY <1>1, <1>2, <1>4 DEF ContentOK
      <3> QED
        BY <2>1, <3>1 DEF GoneInv, ContentGone, Gone
    <2>3. SessionsOwned' /\ LinksOwned'
      <3>1. \A s \in SessionIds : sessions'[s].user # None =>
              sessions[s].user \in Users \ {u} /\ sessions'[s].user = sessions[s].user
        BY <1>1, <1>2, <1>4, WithoutOwner DEF TablesOK, SessionsOK, SessionRows, Someone
      <3>2. \A l \in Links : links'[l].user # None =>
              links[l].user \in Users \ {u} /\ links'[l].user = links[l].user
        BY <1>1, <1>2, <1>4, WithoutOwner DEF TablesOK, LinksOK, LinkRows, Someone
      <3>3. SessionsOwned'
        BY <2>1, <3>1 DEF GoneInv, SessionsOwned, Gone
      <3>4. LinksOwned'
        BY <2>1, <3>2 DEF GoneInv, LinksOwned, Gone
      <3> QED
        BY <3>3, <3>4
    <2>4. CodesOwned' /\ SharesOwned'
      <3>1. \A k \in Codes : codes'[k].user # None =>
              codes[k].user \in Users \ {u} /\ codes'[k].user = codes[k].user
        BY <1>1, <1>2, <1>4, WithoutOwner DEF TablesOK, CodesOK, CodeRows, LinkRows, Someone
      <3>2. \A h \in ShareIds : shares'[h].user # None =>
              shares[h].user \in Users \ {u} /\ shares'[h].user = shares[h].user
        BY <1>1, <1>2, <1>4, WithoutOwner DEF TablesOK, SharesOK, ShareRows, Someone
      <3>3. CodesOwned'
        BY <2>1, <3>1 DEF GoneInv, CodesOwned, Gone
      <3>4. SharesOwned'
        BY <2>1, <3>2 DEF GoneInv, SharesOwned, Gone
      <3> QED
        BY <3>3, <3>4
    <2>5. \A i \in IdentityIds : linked'[i].user # None =>
            /\ linked[i].user \in Users \ {u} /\ linked'[i].user = linked[i].user
            /\ linked'[i].chat = linked[i].chat /\ linked'[i].conversation = linked[i].conversation
      BY <1>1, <1>2, <1>4, WithoutOwner DEF TablesOK, LinkedOK, IdentityRows, Someone
    <2>6. LinkedOwned'
      BY <2>1, <2>5 DEF GoneInv, LinkedOwned, Gone
    <2>7. GoodbyesSaid'
      <3>1. told' = told
        BY <1>4
      <3>2. \A i \in IdentityIds : linked'[i].user # None => users'[linked'[i].user].status = users[linked[i].user].status
        BY <2>1, <2>5
      <3> QED
        BY <2>5, <3>1, <3>2 DEF GoneInv, GoodbyesSaid
    <2> QED
      BY <2>2, <2>3, <2>4, <2>6, <2>7 DEF GoneInv
  <1>5. CASE /\ content' = [content EXCEPT ![u]["files"] = IF @ > job[w].seen THEN @ - job[w].seen ELSE 0]
             /\ UNCHANGED <<users, links, sessions, told, codes, linked, shareVars>>
    <2>1. ASSUME NEW v \in Users, NEW k \in Kinds, content[v][k] = 0
          PROVE  content'[v][k] = 0
      <3>1. CASE v = u /\ k = "files"
        <4>1. content'[u]["files"] = IF content[u]["files"] > job[w].seen THEN content[u]["files"] - job[w].seen ELSE 0
          BY <1>1, <1>2, <1>5 DEF ContentOK, Kinds
        <4>2. ~ (0 > job[w].seen)
          BY <1>1
        <4> QED
          BY <2>1, <3>1, <4>1, <4>2
      <3>2. CASE ~ (v = u /\ k = "files")
        <4>1. content'[v][k] = content[v][k]
          BY <1>2, <1>5, <3>2 DEF ContentOK
        <4> QED
          BY <2>1, <4>1
      <3> QED
        BY <3>1, <3>2
    <2>2. ContentGone'
      BY <1>5, <2>1 DEF GoneInv, ContentGone, Gone
    <2>3. NobodyGoes /\ GoodbyesSaid'
      BY <1>5, SameUsers DEF GoneInv, GoodbyesSaid
    <2>4. shares' = shares
      BY <1>5 DEF shareVars
    <2> QED
      BY <1>5, <2>2, <2>3, <2>4, OwnersSame, OwnersStay
  <1> QED
    BY <1>3, <1>4, <1>5 DEF DeleteAccount

LEMMA GoneStep ==
  ASSUME TypeInv, GoneInv, Step
  PROVE  GoneInv'
  <1>1. CASE \E c \in Callers : Looks(c) \/ ThrottleStep(c) \/ ShareWrite(c) \/ WriteNote(c)
    <2>1. PICK c \in Callers : Looks(c) \/ ThrottleStep(c) \/ ShareWrite(c) \/ WriteNote(c)
      BY <1>1
    <2>2. CASE Looks(c)
      BY <2>2, LooksFrame, SameTables DEF Frame, chatVars, shareVars
    <2>3. CASE ThrottleStep(c)
      BY <2>3, ThrottleStepFrame, SameTables DEF ThrottleFrame, chatVars, shareVars
    <2>4. CASE ShareWrite(c) \/ WriteNote(c)
      BY <2>4, ShareGone
    <2> QED
      BY <2>1, <2>2, <2>3, <2>4
  <1>2. CASE \E c \in Callers : AccountWrite(c) /\ UNCHANGED <<chatVars, shareVars>>
    BY <1>2, AccountGone
  <1>3. CASE \E c \in Callers : ChatWrite(c) /\ UNCHANGED shareVars
    BY <1>3, ChatGone
  <1>4. CASE BotWrite /\ UNCHANGED shareVars
    BY <1>4, BotWriteFrame, SameTables DEF ChatFrame, rowVars, shareVars
  <1>5. CASE JobWrite
    <2>1. PICK w \in Workers : JobStep(w) \/ JobStops(w)
      BY <1>5 DEF JobWrite
    <2>2. CASE DeleteUsers(w) \/ DeleteFiles(w) \/ JobStops(w)
      BY <2>2, SameTables DEF DeleteUsers, DeleteFiles, JobStops, chatVars, shareVars
    <2> QED
      BY <2>1, <2>2, BatchGone, AccountIsGone DEF JobStep
  <1>6. CASE Tick
    BY <1>6, SameTables DEF Tick, chatVars, shareVars
  <1> QED
    BY <1>1, <1>2, <1>3, <1>4, <1>5, <1>6, BrowserGone, PurgeGone, Steps

(* Deletion (ProcessDeletions): For any number of accounts, handlers and   *)
(* runs of the job, wherever they are interrupted: Nothing of an account   *)
(* that is gone is left or comes back, and the bots have been told to      *)
(* forget each of the chats of an account that is on its way out.          *)
THEOREM DeletionLeavesNothing == Spec => []DeletionIsComplete
  <1>1. Init => GoneInv
    <2> SUFFICES ASSUME Init
                 PROVE  GoneInv
      OBVIOUS
    <2>1. PICK mix \in Mixes, u \in Users, p \in Passwords, x \in Chats : Begins(mix, u, p, x)
      BY InitBegins
    <2>2. \A v \in Users : users[v].status \in {"absent", "active"}
      BY <2>1 DEF Begins
    <2>3. TablesOK
      BY InitTypes DEF TypeInv
    <2>4. ContentGone
      BY <2>2 DEF ContentGone, Gone
    <2>5. SessionsOwned /\ LinksOwned
      BY <2>2, <2>3 DEF TablesOK, SessionsOK, SessionRows, LinksOK, LinkRows, Someone, SessionsOwned, LinksOwned, Gone
    <2>6. CodesOwned /\ SharesOwned
      BY <2>2, <2>3 DEF TablesOK, CodesOK, CodeRows, LinkRows, SharesOK, ShareRows, Someone, CodesOwned, SharesOwned, Gone
    <2>7. LinkedOwned /\ GoodbyesSaid
      BY <2>2, <2>3 DEF TablesOK, LinkedOK, IdentityRows, Someone, LinkedOwned, GoodbyesSaid, Gone
    <2> QED
      BY <2>4, <2>5, <2>6, <2>7 DEF GoneInv
  <1>2. TypeInv /\ GoneInv /\ [Next]_vars => GoneInv'
    <2>1. ASSUME UNCHANGED vars, GoneInv, TypeInv
          PROVE  GoneInv'
      BY <2>1, SameTables DEF vars, chatVars, shareVars
    <2> QED
      BY <2>1, GoneStep DEF Next
  <1>3. GoneInv => DeletionIsComplete
    BY GoneIsComplete
  <1> QED
    BY <1>1, <1>2, <1>3, TypesHold, PTL DEF Spec

-----------------------------------------------------------------------------
(* Renewing.  No step but a renewal changes a generation.                  *)
SessionsKeep ==
  \A s \in SessionIds : sessions'[s].generation = sessions[s].generation /\ (Begun(s) => Begun(s)')

LEMMA RevokedKeep ==
  ASSUME SessionsOK, NEW S, sessions' = RevokeSessions(S, sessions)
  PROVE  SessionsKeep
  BY DEF SessionsOK, SessionRows, RevokeSessions, SessionsKeep, Begun

LEMMA RenewStays ==
  ASSUME TypeInv, RenewInv, SessionsKeep, sent' = sent, answer' = answer, locks' = locks, hiccup => hiccup',
         \/ jar' = jar
         \/ jar' = None
         \/ jar'.session \in SessionIds /\ sessions'[jar'.session].absolute > 0
            /\ jar'.generation = sessions'[jar'.session].generation
  PROVE  RenewInv'
  <1>1. /\ jar # None => jar.session \in SessionIds
        /\ \A t \in Tabs : sent[t] # None => sent[t].session \in SessionIds
        /\ \A t \in Tabs : Answered(t) => answer[t].token.session \in SessionIds
    BY DEF TypeInv, BrowserOK, Tokens, Presented, Replies, Answered
  <1>2. TokensBegun'
    BY <1>1 DEF RenewInv, TokensBegun, SessionsKeep, Begun, Answered
  <1>3. locks' => OneAtATime'
    BY DEF RenewInv, OneAtATime, Busy
  <1>4. ASSUME locks', ~ hiccup'
        PROVE  TokensCurrent'
    <2>1. TokensCurrent
      BY <1>4 DEF RenewInv
    <2>2. \A t \in Tabs : sent'[t] # None => sent'[t].generation = sessions'[sent'[t].session].generation
      BY <1>1, <2>1 DEF TokensCurrent, Current, SessionsKeep
    <2>3. \A t \in Tabs : Answered(t)' => answer'[t].token.generation = sessions'[answer'[t].token.session].generation
      BY <1>1, <2>1 DEF TokensCurrent, Current, SessionsKeep, Answered
    <2>4. jar' # None /\ (\A t \in Tabs : Answered(t)' => answer'[t].token.session # jar'.session)
            => jar'.generation = sessions'[jar'.session].generation
      BY <1>1, <2>1 DEF TokensCurrent, Current, SessionsKeep, Answered
    <2> QED
      BY <2>2, <2>3, <2>4 DEF TokensCurrent, Current
  <1> QED
    BY <1>2, <1>3, <1>4 DEF RenewInv

LEMMA RenewSame ==
  ASSUME TypeInv, RenewInv, sessions' = sessions, jar' = jar, sent' = sent, answer' = answer, locks' = locks, hiccup => hiccup'
  PROVE  RenewInv'
  <1>1. SessionsKeep
    BY DEF SessionsKeep, Begun
  <1> QED
    BY <1>1, RenewStays

LEMMA AccountRenew ==
  ASSUME TypeInv, RenewInv, NEW c \in Callers, AccountWrite(c)
  PROVE  RenewInv'
  <1>1. sent' = sent /\ answer' = answer /\ locks' = locks /\ hiccup' = hiccup
    BY AccountWriteFrame DEF AccountFrame
  <1>2. SessionsOK /\ ClockOK
    BY DEF TypeInv, TablesOK
  <1>3. CASE sessions' = sessions /\ jar' = jar
    BY <1>1, <1>3, RenewSame
  <1>4. CASE (\E S : sessions' = RevokeSessions(S, sessions)) /\ jar' \in {jar, None}
    BY <1>1, <1>2, <1>4, RevokedKeep, RenewStays
  <1>5. CASE \E s \in NextSession, u \in Someone, remember \in BOOLEAN :
               sessions' = [sessions EXCEPT ![s] = NewSession(u, remember)] /\ jar' \in {jar, [session |-> s, generation |-> 0]}
    <2>1. PICK s \in NextSession, u \in Someone, remember \in BOOLEAN :
               sessions' = [sessions EXCEPT ![s] = NewSession(u, remember)] /\ jar' \in {jar, [session |-> s, generation |-> 0]}
      BY <1>5
    <2> DEFINE row == NewSession(u, remember)
    <2>2. row.generation = 0 /\ row.absolute > 0
      <3>1. row.generation = 0 /\ row.absolute = now + IF remember THEN Absolute ELSE SessionOnly
        BY DEF NewSession, NoSession
      <3>2. now \in Nat /\ Absolute \in Nat /\ SessionOnly \in Nat /\ 0 < Absolute /\ 0 < SessionOnly
        BY <1>2, AccountsAssumption DEF ClockOK
      <3> QED
        BY <3>1, <3>2
    <2>3. s \in SessionIds /\ sessions[s].generation = 0
      BY DEF NextSession, NoSession
    <2>4. sessions' = [sessions EXCEPT ![s] = row]
      BY <2>1
    <2> HIDE DEF row
    <2>5. SessionsKeep
      BY <1>2, <2>2, <2>3, <2>4 DEF SessionsKeep, SessionsOK, Begun
    <2>6. jar' = jar \/ (jar'.session \in SessionIds /\ sessions'[jar'.session].absolute > 0
                         /\ jar'.generation = sessions'[jar'.session].generation)
      BY <1>2, <2>1, <2>2, <2>3, <2>4 DEF SessionsOK
    <2> QED
      BY <1>1, <2>5, <2>6, RenewStays
  <1>6. CASE SignIn(c)
    <2>1. CASE ~ Exists(call[c].user)
      BY <1>3, <1>6, <2>1 DEF SignIn, browserVars
    <2>2. CASE Exists(call[c].user)
      <3>1. call[c] \in Logins
        BY <1>6, Phases DEF SignIn, At, TypeInv
      <3>2. call[c].user \in Someone /\ call[c].remember \in BOOLEAN
        BY <3>1 DEF Logins, Someone
      <3> QED
        BY <1>5, <1>6, <2>2, <3>2 DEF SignIn, Receives
    <2> QED
      BY <2>1, <2>2
  <1>7. CASE FinishActivate(c)
    <2>1. call[c] \in Activations
      BY <1>7, Phases DEF FinishActivate, At, TypeInv
    <2> PICK l : l = call[c].link
      OBVIOUS
    <2>2. links[l].user \in Someone
      BY <2>1 DEF Activations, TypeInv, TablesOK, LinksOK, LinkRows
    <2>3. CASE Usable(l) /\ users[links[l].user].status = "pending"
      <3>1. PICK s \in NextSession : sessions' = [sessions EXCEPT ![s] = NewSession(links[l].user, TRUE)] /\ Receives(s)
        BY <1>7, <2>3 DEF FinishActivate
      <3> QED
        BY <1>5, <2>2, <3>1 DEF Receives
    <2>4. CASE ~ (Usable(l) /\ users[links[l].user].status = "pending")
      BY <1>3, <1>7, <2>4 DEF FinishActivate, browserVars
    <2> QED
      BY <2>3, <2>4
  <1>8. CASE SetPassword(c)
    BY <1>4, <1>8 DEF SetPassword, browserVars
  <1>9. CASE SignOut(c) \/ SignOutElsewhere(c) \/ SignOutEverywhere(c)
    <2>1. PICK S : Ends(c, S)
      BY <1>9 DEF SignOut, SignOutElsewhere, SignOutEverywhere
    <2> QED
      BY <1>4, <2>1 DEF Ends
  <1>10. CASE FinishIssue(c) \/ FinishDisable(c) \/ MarkDeleting(c, ChatsToTell(call[c].user))
    <2>1. jar' = jar /\ (sessions' = sessions \/ \E S : sessions' = RevokeSessions(S, sessions))
      BY <1>10 DEF FinishIssue, FinishDisable, MarkDeleting, browserVars
    <2> QED
      BY <1>3, <1>4, <2>1
  <1>11. CASE \E u \in Users : CreateUser(u) \/ Bootstrap(u)
    BY <1>3, <1>11 DEF CreateUser, Bootstrap, browserVars
  <1> QED
    BY <1>6, <1>7, <1>8, <1>9, <1>10, <1>11 DEF AccountWrite

LEMMA RotatedKeeps ==
  ASSUME SessionsOK, NEW s \in SessionIds
  PROVE  /\ Rotated(s).generation = sessions[s].generation + 1 /\ Rotated(s).absolute = sessions[s].absolute
         /\ Rotated(s).revoked = sessions[s].revoked
  <1> DEFINE expires == Lesser(now + IF sessions[s].short THEN SessionOnly ELSE Idle, sessions[s].absolute)
             until == now + Grace
  <1>1. Rotated(s) = [sessions[s] EXCEPT !.generation = @ + 1, !.previous = until, !.expires = expires]
    BY DEF Rotated
  <1>2. sessions[s] \in SessionRows
    BY DEF SessionsOK
  <1> HIDE DEF expires, until
  <1> QED
    BY <1>1, <1>2 DEF SessionRows

(* With locks a tab asks while nothing else is under way.                  *)
LEMMA AskRenew ==
  ASSUME TypeInv, RenewInv, NEW t \in Tabs, RefreshSession(t)
  PROVE  RenewInv'
  <1>1. sessions' = sessions /\ jar' = jar /\ answer' = answer /\ locks' = locks /\ hiccup' = hiccup
    BY DEF RefreshSession, rowVars
  <1>2. jar \in Tokens /\ sent \in [Tabs -> Presented \cup {None}]
    BY DEF RefreshSession, TypeInv, BrowserOK
  <1> DEFINE p == [session |-> jar.session, generation |-> jar.generation, at |-> now]
  <1>3. sent' = [sent EXCEPT ![t] = p] /\ p.session = jar.session /\ p.generation = jar.generation
    BY DEF RefreshSession
  <1> HIDE DEF p
  <1>4. sent'[t] = p /\ \A r \in Tabs : r # t => sent'[r] = sent[r]
    BY <1>2, <1>3
  <1>5. jar # None /\ answer[t] = None
    BY DEF RefreshSession, Busy
  <1>6. TokensBegun'
    BY <1>1, <1>3, <1>4, <1>5 DEF RenewInv, TokensBegun, Begun, Answered
  <1>7. ASSUME locks
        PROVE  OneAtATime' /\ \A r \in Tabs : sent[r] = None /\ answer[r] = None
    <2>1. \A r \in Tabs : sent[r] = None /\ answer[r] = None
      BY <1>7 DEF RefreshSession, Busy
    <2> QED
      BY <1>1, <1>4, <2>1 DEF OneAtATime, Busy
  <1>8. ASSUME locks, ~ hiccup
        PROVE  TokensCurrent'
    <2>1. TokensCurrent /\ \A r \in Tabs : sent[r] = None /\ answer[r] = None
      BY <1>7, <1>8 DEF RenewInv
    <2>2. jar.generation = sessions[jar.session].generation
      BY <1>5, <2>1 DEF TokensCurrent, Current, Answered
    <2>3. \A r \in Tabs : sent'[r] # None => sent'[r].generation = sessions'[sent'[r].session].generation
      BY <1>1, <1>3, <1>4, <2>1, <2>2
    <2>4. \A r \in Tabs : ~ Answered(r)'
      BY <1>1, <2>1 DEF Answered
    <2>5. jar'.generation = sessions'[jar'.session].generation
      BY <1>1, <2>2
    <2> QED
      BY <2>3, <2>4, <2>5 DEF TokensCurrent, Current
  <1> QED
    BY <1>1, <1>6, <1>7, <1>8 DEF RenewInv

(* Core's answer bears the generation that the session has now.            *)
LEMMA AnswerRenew ==
  ASSUME TypeInv, RenewInv, NEW t \in Tabs, Refresh(t)
  PROVE  /\ RenewInv'
         /\ locks /\ ~ hiccup => sessions'[sent[t].session].revoked = sessions[sent[t].session].revoked
  <1> PICK s, g : s = sent[t].session /\ g = sent[t].generation
    OBVIOUS
  <1>1. jar' = jar /\ locks' = locks /\ hiccup' = hiccup /\ sent[t] # None
    BY DEF Refresh
  <1>2. SessionsOK /\ sent \in [Tabs -> Presented \cup {None}] /\ answer \in [Tabs -> Replies \cup {None}]
    BY DEF TypeInv, TablesOK, BrowserOK
  <1>3. s \in SessionIds /\ g \in Nat /\ sessions[s].generation \in Nat
    BY <1>1, <1>2 DEF Presented, SessionsOK, SessionRows
  <1>4. sent' = [sent EXCEPT ![t] = None]
    BY DEF Refresh
  <1>5. PICK a : answer' = [answer EXCEPT ![t] = [at |-> sent[t].at, token |-> a]]
              /\ \/ a = None /\ ~ Authenticated(s) /\ sessions' = sessions
                 \/ a = [session |-> s, generation |-> g + 1] /\ g = sessions[s].generation /\ sessions' = [sessions EXCEPT ![s] = Rotated(s)]
                 \/ a = [session |-> s, generation |-> sessions[s].generation] /\ g < sessions[s].generation /\ sessions' = sessions
                 \/ a = None /\ g < sessions[s].generation /\ sessions' = RevokeSessions({s}, sessions)
    BY DEF Refresh
  <1> DEFINE reply == [at |-> sent[t].at, token |-> a]
  <1>6. answer' = [answer EXCEPT ![t] = reply] /\ reply.token = a
    BY <1>5
  <1> HIDE DEF reply
  <1>7. answer'[t] = reply /\ sent'[t] = None /\ \A r \in Tabs : r # t => answer'[r] = answer[r] /\ sent'[r] = sent[r]
    BY <1>2, <1>4, <1>6
  <1>8. a = None \/ a.session = s
    BY <1>5
  <1>9. \A r \in SessionIds : sessions'[r].absolute = sessions[r].absolute
    <2>1. CASE sessions' = RevokeSessions({s}, sessions)
      BY <1>2, <2>1 DEF SessionsOK, SessionRows, RevokeSessions
    <2>2. CASE sessions' = [sessions EXCEPT ![s] = Rotated(s)]
      BY <1>2, <1>3, <2>2, RotatedKeeps DEF SessionsOK
    <2> QED
      BY <1>5, <2>1, <2>2
  <1>10. TokensBegun'
    <2>1. /\ jar # None => jar.session \in SessionIds
          /\ \A r \in Tabs : sent[r] # None => sent[r].session \in SessionIds
          /\ \A r \in Tabs : Answered(r) => answer[r].token.session \in SessionIds
      BY DEF TypeInv, BrowserOK, Tokens, Presented, Replies, Answered
    <2>2. sessions'[s].absolute > 0
      BY <1>1, <1>3, <1>9 DEF RenewInv, TokensBegun, Begun
    <2>3. jar' # None => sessions'[jar'.session].absolute > 0
      BY <1>1, <1>9, <2>1 DEF RenewInv, TokensBegun, Begun
    <2>4. \A r \in Tabs : sent'[r] # None => sessions'[sent'[r].session].absolute > 0
      BY <1>7, <1>9, <2>1 DEF RenewInv, TokensBegun, Begun
    <2>5. \A r \in Tabs : Answered(r)' => sessions'[answer'[r].token.session].absolute > 0
      BY <1>6, <1>7, <1>8, <1>9, <2>1, <2>2 DEF RenewInv, TokensBegun, Begun, Answered
    <2> QED
      BY <2>3, <2>4, <2>5 DEF TokensBegun, Begun
  <1>11. ASSUME locks
         PROVE  OneAtATime' /\ answer[t] = None /\ \A r \in Tabs : r # t => sent[r] = None /\ answer[r] = None
    BY <1>1, <1>7, <1>11 DEF RenewInv, OneAtATime, Busy
  <1>12. ASSUME locks, ~ hiccup
         PROVE  TokensCurrent' /\ sessions'[s].revoked = sessions[s].revoked
    <2>1. g = sessions[s].generation
      BY <1>1, <1>12 DEF RenewInv, TokensCurrent, Current
    <2>2. \A r \in Tabs : ~ Answered(r)
      BY <1>11, <1>12 DEF Answered
    <2>3. jar # None => jar.session \in SessionIds /\ jar.generation = sessions[jar.session].generation
      BY <1>12, <2>2 DEF RenewInv, TokensCurrent, Current, TypeInv, BrowserOK, Tokens
    <2>4. \A r \in Tabs : sent'[r] = None
      BY <1>7, <1>11, <1>12
    <2>5. CASE a = None /\ sessions' = sessions
      <3>1. \A r \in Tabs : ~ Answered(r)'
        BY <1>6, <1>7, <2>2, <2>5 DEF Answered
      <3>2. jar' # None => jar'.generation = sessions'[jar'.session].generation
        BY <1>1, <2>3, <2>5
      <3> QED
        BY <2>4, <2>5, <3>1, <3>2 DEF TokensCurrent, Current
    <2>6. CASE a = [session |-> s, generation |-> g + 1] /\ sessions' = [sessions EXCEPT ![s] = Rotated(s)]
      <3>1. a.session = s /\ a.generation = g + 1
        BY <2>6
      <3>2. sessions'[s].generation = g + 1 /\ sessions'[s].revoked = sessions[s].revoked
            /\ \A r \in SessionIds : r # s => sessions'[r] = sessions[r]
        BY <1>2, <1>3, <2>1, <2>6, RotatedKeeps DEF SessionsOK
      <3>3. \A r \in Tabs : Answered(r)' => answer'[r].token = a
        BY <1>6, <1>7, <2>2 DEF Answered
      <3>4. Answered(t)'
        <4>1. a \in Tokens /\ sent[t].at \in Nat
          BY <1>1, <1>2, <1>3, <2>6 DEF Tokens, Presented
        <4>2. reply \in Replies
          BY <4>1 DEF Replies, reply
        <4> QED
          BY <1>6, <1>7, <4>1, <4>2, AccountsAssumption DEF Answered
      <3>5. jar' # None /\ (\A r \in Tabs : Answered(r)' => answer'[r].token.session # jar'.session)
              => jar'.generation = sessions'[jar'.session].generation
        BY <1>1, <2>3, <3>1, <3>2, <3>3, <3>4
      <3>6. \A r \in Tabs : Answered(r)' => answer'[r].token.generation = sessions'[answer'[r].token.session].generation
        BY <3>1, <3>2, <3>3
      <3> QED
        BY <2>4, <3>2, <3>5, <3>6 DEF TokensCurrent, Current
    <2> QED
      BY <1>3, <1>5, <2>1, <2>5, <2>6
  <1> QED
    BY <1>1, <1>10, <1>11, <1>12 DEF RenewInv

(* The browser has what Core answered, or has lost it.                     *)
LEMMA HearRenew ==
  ASSUME TypeInv, RenewInv, NEW t \in Tabs, TabHears(t) \/ TabHearsNothing(t)
  PROVE  RenewInv'
  <1>1. sent \in [Tabs -> Presented \cup {None}] /\ answer \in [Tabs -> Replies \cup {None}]
    BY DEF TypeInv, BrowserOK
  <1>2. sessions' = sessions /\ locks' = locks /\ answer' = [answer EXCEPT ![t] = None]
    BY DEF TabHears, TabHearsNothing, rowVars
  <1>3. answer'[t] = None /\ \A r \in Tabs : r # t => answer'[r] = answer[r]
    BY <1>1, <1>2
  <1>4. \A r \in Tabs : sent'[r] = sent[r] \/ sent'[r] = None
    BY <1>1 DEF TabHears, TabHearsNothing
  <1>5. locks' => OneAtATime'
    BY <1>2, <1>3, <1>4 DEF RenewInv, OneAtATime, Busy
  <1>6. jar' = jar \/ (answer[t] # None /\ jar' = answer[t].token)
    BY DEF TabHears, TabHearsNothing
  <1>7. TokensBegun'
    <2>1. jar' # None => sessions[jar'.session].absolute > 0
      BY <1>6 DEF RenewInv, TokensBegun, Begun, Answered
    <2>2. \A r \in Tabs : sent'[r] # None => sessions[sent'[r].session].absolute > 0
      BY <1>4 DEF RenewInv, TokensBegun, Begun
    <2>3. \A r \in Tabs : Answered(r)' => sessions[answer'[r].token.session].absolute > 0
      BY <1>3 DEF RenewInv, TokensBegun, Begun, Answered
    <2> QED
      BY <1>2, <2>1, <2>2, <2>3 DEF TokensBegun, Begun
  <1>8. ASSUME locks, ~ hiccup'
        PROVE  TokensCurrent'
    <2>1. TabHears(t)
      BY <1>8 DEF TabHearsNothing
    <2>2. answer[t] # None /\ jar' = answer[t].token /\ sent' = sent /\ hiccup' = hiccup
      BY <2>1 DEF TabHears
    <2>3. TokensCurrent /\ OneAtATime
      BY <1>8, <2>2 DEF RenewInv
    <2>4. \A r \in Tabs : sent'[r] = None /\ ~ Answered(r)'
      BY <1>3, <2>2, <2>3 DEF OneAtATime, Busy, Answered
    <2>5. jar' # None => jar'.generation = sessions[jar'.session].generation
      BY <2>2, <2>3 DEF TokensCurrent, Current, Answered
    <2> QED
      BY <1>2, <2>4, <2>5 DEF TokensCurrent, Current
  <1> QED
    BY <1>2, <1>5, <1>7, <1>8 DEF RenewInv

LEMMA PurgeRenew ==
  ASSUME TypeInv, RenewInv, Purge
  PROVE  RenewInv'
  <1>1. SessionsOK
    BY DEF TypeInv, TablesOK
  <1>2. \A s \in SessionIds : sessions'[s].generation = sessions[s].generation /\ sessions'[s].absolute = sessions[s].absolute
    <2> TAKE s \in SessionIds
    <2>1. sessions'[s] = sessions[s] \/ sessions'[s] = [sessions[s] EXCEPT !.user = None]
      BY DEF Purge, DeleteOldSessions
    <2>2. sessions[s] \in SessionRows
      BY <1>1 DEF SessionsOK
    <2> QED
      BY <2>1, <2>2 DEF SessionRows
  <1>3. SessionsKeep
    BY <1>2 DEF SessionsKeep, Begun
  <1>4. UNCHANGED browserVars
    BY DEF Purge
  <1> QED
    BY <1>3, <1>4, RenewStays DEF browserVars

LEMMA JobRenew ==
  ASSUME TypeInv, RenewInv, JobWrite
  PROVE  RenewInv'
  <1>1. SessionsOK
    BY DEF TypeInv, TablesOK
  <1>2. UNCHANGED browserVars
    BY JobWriteFrame DEF JobFrame
  <1>3. sessions' = sessions \/ \E u : sessions' = Without(u, sessions)
    BY DEF JobWrite, JobStep, JobStops, DeleteUsers, DeleteBatch, DeleteFiles, DeleteAccount, rowVars
  <1>4. SessionsKeep
    <2>1. CASE sessions' = sessions
      BY <2>1 DEF SessionsKeep, Begun
    <2>2. CASE \E u : sessions' = Without(u, sessions)
      <3>1. PICK u : sessions' = Without(u, sessions)
        BY <2>2
      <3>2. \A s \in SessionIds : sessions'[s].generation = sessions[s].generation /\ sessions'[s].absolute = sessions[s].absolute
        <4> TAKE s \in SessionIds
        <4>1. s \in DOMAIN sessions /\ sessions[s] \in SessionRows
          BY <1>1 DEF SessionsOK
        <4>2. sessions'[s] = sessions[s] \/ sessions'[s] = [sessions[s] EXCEPT !.user = None]
          BY <3>1, <4>1 DEF Without
        <4> QED
          BY <4>1, <4>2 DEF SessionRows
      <3> QED
        BY <3>2 DEF SessionsKeep, Begun
    <2> QED
      BY <1>3, <2>1, <2>2
  <1> QED
    BY <1>2, <1>4, RenewStays DEF browserVars

(* Only what is done to accounts, by the browser or by a job has to do     *)
(* with sessions.                                                          *)
SessionStep ==
  \/ \E c \in Callers : AccountWrite(c)
  \/ BrowserWrite \/ JobWrite \/ Purge \/ Tick

LEMMA SessionsElsewhere ==
  ASSUME Step
  PROVE  SessionStep \/ UNCHANGED <<sessions, jar, sent, answer, locks, hiccup>>
  <1>1. CASE \E c \in Callers : Looks(c) \/ ThrottleStep(c) \/ ShareWrite(c) \/ WriteNote(c)
    <2>1. PICK c \in Callers : Looks(c) \/ ThrottleStep(c) \/ ShareWrite(c) \/ WriteNote(c)
      BY <1>1
    <2>2. CASE Looks(c)
      BY <2>2, LooksFrame DEF Frame, rowVars, browserVars
    <2>3. CASE ThrottleStep(c)
      BY <2>3, ThrottleStepFrame DEF ThrottleFrame, rowVars, browserVars
    <2>4. CASE ShareWrite(c) \/ WriteNote(c)
      BY <2>4, ShareWriteFrame DEF ShareFrame, browserVars
    <2> QED
      BY <2>1, <2>2, <2>3, <2>4
  <1>2. CASE \E c \in Callers : ChatWrite(c) /\ UNCHANGED shareVars
    BY <1>2, ChatWriteFrame DEF ChatFrame, browserVars
  <1>3. CASE BotWrite /\ UNCHANGED shareVars
    BY <1>3, BotWriteFrame DEF ChatFrame, browserVars
  <1> QED
    BY <1>1, <1>2, <1>3, Steps DEF SessionStep

LEMMA LocksStay ==
  ASSUME Step
  PROVE  locks' = locks
  <1>1. CASE \E c \in Callers : AccountWrite(c)
    BY <1>1, AccountWriteFrame DEF AccountFrame
  <1>2. CASE BrowserWrite \/ JobWrite \/ Purge \/ Tick
    BY <1>2, BrowserWriteFrame, JobWriteFrame DEF BrowserFrame, JobFrame, Purge, Tick, browserVars
  <1> QED
    BY <1>1, <1>2, SessionsElsewhere DEF SessionStep

LEMMA RenewStep ==
  ASSUME TypeInv, RenewInv, Step
  PROVE  RenewInv'
  <1>1. CASE \E c \in Callers : AccountWrite(c)
    BY <1>1, AccountRenew
  <1>2. CASE BrowserWrite
    BY <1>2, AskRenew, AnswerRenew, HearRenew DEF BrowserWrite, BrowserStep
  <1>3. CASE JobWrite \/ Purge
    BY <1>3, JobRenew, PurgeRenew
  <1>4. CASE Tick
    <2>1. hiccup => hiccup'
      BY <1>4 DEF Tick
    <2> QED
      BY <1>4, <2>1, RenewSame DEF Tick, rowVars
  <1>5. CASE UNCHANGED <<sessions, jar, sent, answer, locks, hiccup>>
    BY <1>5, RenewSame
  <1> QED
    BY <1>1, <1>2, <1>3, <1>4, <1>5, SessionsElsewhere DEF SessionStep

LEMMA NobodySignedOut ==
  ASSUME TypeInv, RenewInv, locks, Step, NEW t \in Tabs, EndsForReuse(t)
  PROVE  hiccup
  <1>1. sent[t] # None /\ sent'[t] = None
    BY DEF EndsForReuse
  <1>2. ~ sessions[sent[t].session].revoked /\ sessions'[sent[t].session].revoked
    BY DEF EndsForReuse
  <1>3. sent \in [Tabs -> Presented \cup {None}]
    BY DEF TypeInv, BrowserOK
  <1>4. PICK r \in Tabs : BrowserStep(r)
    <2>1. ASSUME NEW c \in Callers, AccountWrite(c)
          PROVE  sent' = sent
      BY <2>1, AccountWriteFrame DEF AccountFrame
    <2>2. JobWrite \/ Purge \/ Tick => sent' = sent
      BY JobWriteFrame DEF JobFrame, Purge, Tick, browserVars
    <2> QED
      BY <1>1, <2>1, <2>2, SessionsElsewhere DEF SessionStep, BrowserWrite
  <1>5. ~ RefreshSession(r)
    <2> SUFFICES ASSUME RefreshSession(r)
                 PROVE  FALSE
      OBVIOUS
    <2>1. \A q \in Tabs : q # r => sent'[q] = sent[q]
      BY <1>3 DEF RefreshSession
    <2>2. sent[r] = None
      BY DEF RefreshSession, Busy
    <2> QED
      BY <1>1, <2>1, <2>2
  <1>6. ~ TabHears(r) /\ ~ TabHearsNothing(r)
    BY <1>1, <1>2 DEF TabHears, TabHearsNothing, rowVars
  <1>7. Refresh(r)
    BY <1>4, <1>5, <1>6 DEF BrowserStep
  <1>8. r = t
    BY <1>1, <1>3, <1>7 DEF Refresh
  <1>9. locks /\ ~ hiccup => sessions'[sent[t].session].revoked = sessions[sent[t].session].revoked
    BY <1>7, <1>8, AnswerRenew
  <1> QED
    BY <1>2, <1>9

(* Renewal (session.ts, Refresh): However many tabs a browser with the Web *)
(* Locks API has, and whatever else is going on with their account: They   *)
(* never end their own session as if its token had been stolen, unless an  *)
(* answer was lost or late.                                                *)
THEOREM LocksSignNobodyOut == Spec /\ locks => RaceSignsNobodyOut
  <1>1. Init => RenewInv
    <2> SUFFICES ASSUME Init
                 PROVE  RenewInv
      OBVIOUS
    <2>1. PICK mix \in Mixes, u \in Users, p \in Passwords, x \in Chats : Begins(mix, u, p, x)
      BY InitBegins
    <2>2. \A t \in Tabs : sent[t] = None /\ answer[t] = None
      BY DEF Init
    <2>3. CASE mix.new
      <3>1. jar = None
        BY <2>1, <2>3 DEF Begins
      <3> QED
        BY <2>2, <3>1 DEF RenewInv, TokensBegun, OneAtATime, TokensCurrent, Busy, Answered
    <2>4. CASE ~ mix.new
      <3> DEFINE row == [NoSession EXCEPT !.user = u, !.expires = Idle, !.absolute = Absolute]
      <3>1. jar = [session |-> 1, generation |-> 0]
        BY <2>1, <2>4 DEF Begins
      <3>2. sessions[1] = row
        BY <2>1, <2>4, AccountsAssumption DEF Begins
      <3>3. row.generation = 0 /\ row.absolute > 0
        BY AccountsAssumption DEF NoSession
      <3> HIDE DEF row
      <3>4. jar.session = 1 /\ jar.generation = 0
        BY <3>1
      <3>5. TokensBegun /\ TokensCurrent
        BY <2>2, <3>2, <3>3, <3>4 DEF TokensBegun, TokensCurrent, Begun, Current, Answered
      <3> QED
        BY <2>2, <3>5 DEF RenewInv, OneAtATime, Busy
    <2> QED
      BY <2>3, <2>4
  <1>2. TypeInv /\ RenewInv /\ [Next]_vars => RenewInv'
    <2>1. ASSUME UNCHANGED vars, RenewInv, TypeInv
          PROVE  RenewInv'
      BY <2>1, RenewSame DEF vars, rowVars, browserVars
    <2> QED
      BY <2>1, RenewStep DEF Next
  <1>3. locks /\ [Next]_vars => locks'
    BY LocksStay DEF Next, vars, browserVars
  <1> DEFINE Kept == \A t \in Tabs : EndsForReuse(t) => hiccup
  <1>4. TypeInv /\ RenewInv /\ locks /\ [Next]_vars => [Kept]_vars
    BY NobodySignedOut DEF Next
  <1>5. RaceSignsNobodyOut <=> [][Kept]_vars
    BY DEF RaceSignsNobodyOut
  <1> HIDE DEF Kept
  <1> QED
    BY <1>1, <1>2, <1>3, <1>4, <1>5, TypesHold, PTL DEF Spec
=============================================================================
