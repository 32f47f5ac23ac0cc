------------------------------ MODULE Accounts ------------------------------
(***************************************************************************)
(* Accounts and sessions (core/internal/accounts): activation, signing in, *)
(* the silent renewal of a session by the tabs of a browser, what an       *)
(* administrator does to an account, and its complete deletion.            *)
(*                                                                         *)
(* Core's handlers take several steps, of which each is a statement or a   *)
(* transaction of its own; a caller is such a handler at work.  Passwords, *)
(* tokens and secrets are names: who knows one gives it, and a guess is a  *)
(* name, too.  Wording, labels and the audit log are left out.             *)
(***************************************************************************)
EXTENDS Throttle, Sequences, FiniteSets, TLC

CONSTANTS
  Users, Admins,       \* Admins: at most one, who can neither be disabled nor deleted
  Passwords, Addresses,
  SessionIds, Links,   \* sessions and activation links, in the order they are issued: numbers
  Callers,             \* handlers that run at the same time
  Tabs,                \* tabs of one browser
  Chats,               \* what people of a chat service are called there
  None,
  PairPolicy, AccountPolicy, AddressPolicy, ActivationPolicy, SecretPolicy, PairingPolicy,
  Idle, Absolute, SessionOnly, Grace, Ttl,  \* lifetimes: of sessions, of superseded tokens, of links
  Early,               \* how soon after one renewal a tab asks for the next
  Prompt,              \* an answer that takes no longer than this is prompt
  RetainSessions, RetainThrottle            \* how long what is over is kept

(* The refresh tokens, and Core's answers to tabs.                         *)
Tokens == [session : SessionIds, generation : Nat]
Replies == [at : Nat, token : Tokens \cup {None}]

ASSUME AccountsAssumption ==
  /\ IsFiniteSet(Users) /\ Admins \subseteq Users
  /\ Passwords # {} /\ Chats # {} /\ Callers # {}
  /\ 1 \in SessionIds /\ SessionIds \subseteq Nat /\ Links \subseteq Nat
  /\ None \notin Users \cup Passwords \cup SessionIds \cup Links \cup Chats
  /\ None \notin Tokens /\ None \notin Replies
  /\ {PairPolicy, AccountPolicy, AddressPolicy, ActivationPolicy, SecretPolicy, PairingPolicy} \subseteq Policies
  /\ {Idle, Absolute, SessionOnly, Grace, Ttl, Early, Prompt, RetainSessions, RetainThrottle} \subseteq Nat
  /\ 0 < Absolute /\ 0 < SessionOnly
  /\ Prompt <= Grace /\ Grace <= Early
  /\ DecayAfter <= RetainThrottle

VARIABLES
  now,       \* the clock
  users,     \* status and password of every account
  links,     \* user_tokens: activation links
  sessions,  \* the rows of sessions
  meter,     \* auth_throttle
  content,   \* how many rows of each kind there are of every user
  told,      \* the chats whose bot was told to forget them since they were linked (lifecycle items)
  call,      \* what the callers are about to do
  job,       \* what the deletion job is about to do
  jar,       \* the refresh token in the browser's cookies
  sent,      \* the refresh tokens that tabs have presented, until Core has answered
  answer,    \* Core's answers to tabs that are under way
  due,       \* when the tabs will renew the session
  locks,     \* whether the browser has the Web Locks API
  hiccup,    \* history: some answer was lost or took long
  tries,     \* history: when attempts were let through since the last success
  left       \* bound: the operations there may still be

rowVars == <<users, links, sessions, content, told>>
browserVars == <<jar, sent, answer, due, locks, hiccup>>
throttleVars == <<meter, tries>>

Kinds == {"chunks", "notes", "changes", "ingest", "files"}

Statuses == {"absent", "pending", "active", "disabled", "deleting", "gone"}

NoSession == [user |-> None, generation |-> 0, previous |-> 0, expires |-> 0, absolute |-> 0,
              short |-> FALSE, revoked |-> FALSE, ended |-> 0]
NoLink == [user |-> None, expires |-> 0, used |-> FALSE]
Done == [at |-> "done"]

Exists(u) == users[u].status \notin {"absent", "gone"}
Live(s) == sessions[s].user # None /\ ~ sessions[s].revoked
           /\ sessions[s].expires > now /\ sessions[s].absolute > now
SessionsOf(u) == {s \in SessionIds : sessions[s].user = u}

(* Rows of the kinds K are added to what the user has.                     *)
Grows(u, K) == content' = [content EXCEPT ![u] = [k \in Kinds |-> @[k] + IF k \in K THEN 1 ELSE 0]]

-----------------------------------------------------------------------------
(* Callers *)

Starts(c, family) ==
  /\ call[c] = Done
  /\ left[family] > 0
  /\ left' = [left EXCEPT ![family] = @ - 1]

At(c, step) == call[c].at = step
GoesTo(c, step) == call' = [call EXCEPT ![c].at = step]
Returns(c) == call' = [call EXCEPT ![c] = Done]

(* The session a request is made in is looked at when it begins, and not   *)
(* again (Authenticate); what is asked for is done by a later step.        *)
Authenticated(s) == Live(s) /\ users[sessions[s].user].status = "active"

Request(c, family, step) ==
  /\ Starts(c, family)
  /\ jar # None /\ Authenticated(jar.session)
  /\ call' = [call EXCEPT ![c] = [at |-> step, user |-> sessions[jar.session].user, session |-> jar.session]]
  /\ UNCHANGED <<now, rowVars, throttleVars, job, browserVars>>

ChangePassword(c)    == Request(c, "request", "change")
DeleteMyAccount(c)   == Request(c, "request", "leave")
Logout(c)            == Request(c, "request", "log out")
RevokeSession(c)     == Request(c, "request", "revoke session")
RevokeAllSessions(c) == Request(c, "request", "revoke all")

-----------------------------------------------------------------------------
(* The throttle *)

PairKey(u, a) == <<"acct", u, a>>
AccountKey(u) == <<"acct", u>>
AddressKey(a) == <<"ip", a>>
ActivationKey(a) == <<"act", a>>
PasswordKey(u) == <<"pw", u>>
PairingKey(x) == <<"pair", x>>

GuardedKeys == {PairKey(u, a) : u \in Users, a \in Addresses} \cup {PasswordKey(u) : u \in Users}
MeterKeys == GuardedKeys \cup {AccountKey(u) : u \in Users} \cup {PairingKey(x) : x \in Chats}
             \cup {AddressKey(a) : a \in Addresses} \cup {ActivationKey(a) : a \in Addresses}

PolicyOf(k) ==
  CASE k[1] = "acct" /\ Len(k) = 3 -> PairPolicy
    [] k[1] = "acct" /\ Len(k) = 2 -> AccountPolicy
    [] k[1] = "ip" -> AddressPolicy
    [] k[1] = "act" -> ActivationPolicy
    [] k[1] = "pw" -> SecretPolicy
    [] k[1] = "pair" -> PairingPolicy

Blocked(keys) == \E i \in DOMAIN keys : IsBlocked(meter[keys[i]], now)

(* Attempt: a look at all the keys, and one locked step for each.          *)
Attempt(c, request) ==
  call' = [call EXCEPT ![c] = IF Blocked(request.keys) THEN Done ELSE request]

(* History: attempts so long ago that the counter was reset are forgotten. *)
LetThrough(times) ==
  IF times # <<>> /\ times[Len(times)] < now - DecayAfter THEN <<now>> ELSE Append(times, now)

(* Mutant: what was read before the row was locked is relied upon.         *)
Refuses_before(k) == FALSE

Refuses(k) == IsBlocked(meter[k], now)

Charge(c) ==
  /\ At(c, "charge")
  /\ LET k == Head(call[c].keys)
         rest == Tail(call[c].keys)
     IN  IF Refuses(k)
         THEN Returns(c) /\ UNCHANGED throttleVars
         ELSE /\ meter' = [meter EXCEPT ![k] = Charged(@, PolicyOf(k), now)]
              /\ call' = [call EXCEPT ![c].keys = rest, ![c].at = IF rest = <<>> THEN "check" ELSE "charge"]
              /\ tries' = IF k \in GuardedKeys THEN [tries EXCEPT ![k] = LetThrough(@)] ELSE tries
  /\ UNCHANGED <<now, rowVars, job, browserVars, left>>

(* Success: a row is forgotten, the others lose one failure.               *)
Reset(k) ==
  /\ meter' = [meter EXCEPT ![k] = Fresh]
  /\ tries' = IF k \in GuardedKeys THEN [tries EXCEPT ![k] = <<>>] ELSE tries

Refund(c) ==
  /\ At(c, "refund")
  /\ LET k == Head(call[c].keys)
         rest == Tail(call[c].keys)
     IN  /\ meter' = [meter EXCEPT ![k] = Refunded(@, PolicyOf(k))]
         /\ call' = [call EXCEPT ![c] = [@ EXCEPT !.keys = rest, !.at = IF rest = <<>> THEN "sign in" ELSE "refund"]]
  /\ UNCHANGED <<now, rowVars, tries, job, browserVars, left>>

-----------------------------------------------------------------------------
(* Sessions *)

Lesser(a, b) == IF a < b THEN a ELSE b

NewSession(u, remember) ==
  LET absolute == now + IF remember THEN Absolute ELSE SessionOnly
      idle == now + IF remember THEN Idle ELSE SessionOnly
  IN  [NoSession EXCEPT !.user = u, !.expires = Lesser(idle, absolute), !.absolute = absolute, !.short = ~ remember]

NextSession == {s \in SessionIds : sessions[s] = NoSession /\ \A r \in SessionIds : r < s => sessions[r] # NoSession}

(* The browser gets the tokens of a new session, or the answer is lost.    *)
Receives(s) == jar' \in {jar, [session |-> s, generation |-> 0]} /\ UNCHANGED <<sent, answer, due, locks, hiccup>>

RevokeSessions(S, table) ==
  [s \in SessionIds |-> IF s \in S /\ ~ table[s].revoked /\ table[s].user # None
                        THEN [table[s] EXCEPT !.revoked = TRUE, !.ended = now] ELSE table[s]]

Login(c) ==
  /\ Starts(c, "login")
  /\ \E u \in Users, p \in Passwords, a \in Addresses, remember \in BOOLEAN :
       Attempt(c, [at |-> "charge", keys |-> <<PairKey(u, a), AccountKey(u), AddressKey(a)>>,
                   op |-> "login", user |-> u, password |-> p, address |-> a, remember |-> remember])
  /\ UNCHANGED <<now, rowVars, throttleVars, job, browserVars>>

(* ConfirmPassword: a signed-in user shows that it is them.                *)
Confirm(c, op) ==
  /\ At(c, op)
  /\ \E p \in Passwords :
       Attempt(c, [at |-> "charge", keys |-> <<PasswordKey(call[c].user)>>,
                   op |-> op, user |-> call[c].user, session |-> call[c].session, password |-> p])
  /\ UNCHANGED <<now, rowVars, throttleVars, job, browserVars, left>>

(* The account is read and the password is checked, in no transaction.     *)
AccountOf(c) == users[call[c].user]
PasswordIsRight(c) ==
  AccountOf(c).password = call[c].password /\ (call[c].op = "login" => AccountOf(c).status = "active")

GuardedKey(c) == IF call[c].op = "login" THEN PairKey(call[c].user, call[c].address) ELSE PasswordKey(call[c].user)

CheckPassword(c) ==
  /\ At(c, "check") /\ call[c].op # "activate"
  /\ IF PasswordIsRight(c)
     THEN GoesTo(c, "reset") ELSE Returns(c)
  /\ UNCHANGED <<now, rowVars, throttleVars, job, browserVars, left>>

Succeed(c) ==
  /\ At(c, "reset")
  /\ Reset(GuardedKey(c))
  /\ call' = [call EXCEPT ![c] =
       CASE call[c].op = "login"  -> [@ EXCEPT !.at = "refund", !.keys = <<AccountKey(call[c].user), AddressKey(call[c].address)>>]
         [] call[c].op = "change" -> [@ EXCEPT !.at = "set password"]
         [] call[c].op = "leave"  -> [@ EXCEPT !.at = "delete"]]
  /\ UNCHANGED <<now, rowVars, job, browserVars, left>>

(* The session's row is inserted in a transaction that does not look at    *)
(* the account again; without an account it fails.                         *)
SignIn(c) ==
  /\ At(c, "sign in")
  /\ IF Exists(call[c].user)
     THEN \E s \in NextSession :
            /\ sessions' = [sessions EXCEPT ![s] = NewSession(call[c].user, call[c].remember)]
            /\ Receives(s)
     ELSE UNCHANGED <<sessions, browserVars>>
  /\ Returns(c)
  /\ UNCHANGED <<now, users, links, content, told, throttleVars, job, left>>

SetPasswordHash(u, p) == users' = IF Exists(u) THEN [users EXCEPT ![u].password = p] ELSE users

SetPassword(c) ==
  /\ At(c, "set password")
  /\ \E p \in Passwords : SetPasswordHash(call[c].user, p)
  /\ sessions' = RevokeSessions(SessionsOf(call[c].user) \ {call[c].session}, sessions)
  /\ Returns(c)
  /\ UNCHANGED <<now, links, content, told, throttleVars, job, browserVars, left>>

(* The sessions S end; the answer clears the cookies of a browser that     *)
(* signed itself out.                                                      *)
Ends(c, S) ==
  /\ sessions' = RevokeSessions(S, sessions)
  /\ jar' = IF call[c].session \in S THEN None ELSE jar
  /\ Returns(c)
  /\ UNCHANGED <<now, users, links, content, told, throttleVars, job, sent, answer, due, locks, hiccup, left>>

SignOut(c) == At(c, "log out") /\ Ends(c, {call[c].session})

SignOutElsewhere(c) ==
  /\ At(c, "revoke session")
  /\ \E s \in SessionsOf(call[c].user) : Ends(c, {s})

SignOutEverywhere(c) ==
  /\ At(c, "revoke all")
  /\ \E kept \in {{}, {call[c].session}} : Ends(c, SessionsOf(call[c].user) \ kept)

-----------------------------------------------------------------------------
(* Renewal.  The browser adds the cookie when a tab sends the request; with *)
(* Web Locks one tab at a time does so.                                    *)

Busy(t) == sent[t] # None \/ answer[t] # None

RefreshSession(t) ==
  /\ left["refresh"] > 0 /\ left' = [left EXCEPT !["refresh"] = @ - 1]
  /\ jar # None /\ ~ Busy(t) /\ due[t] <= now
  /\ locks => \A r \in Tabs : ~ Busy(r)
  /\ sent' = [sent EXCEPT ![t] = [session |-> jar.session, generation |-> jar.generation, at |-> now]]
  /\ UNCHANGED <<now, rowVars, throttleVars, call, job, jar, answer, due, locks, hiccup>>

Rotated(s) ==
  LET row == sessions[s]
      idle == now + IF row.short THEN SessionOnly ELSE Idle
  IN  [row EXCEPT !.generation = @ + 1, !.previous = now + Grace, !.expires = Lesser(idle, row.absolute)]

(* Mutant: the token before the current one is old like any other.         *)
InGrace_never(s, g) == FALSE

InGrace(s, g) == g = sessions[s].generation - 1 /\ now <= sessions[s].previous

(* Refresh, under the lock of the session's row.                           *)
Refresh(t) ==
  /\ sent[t] # None
  /\ LET s == sent[t].session
         g == sent[t].generation
         Answers(a) == answer' = [answer EXCEPT ![t] = [at |-> sent[t].at, token |-> a]]
     IN  \/ /\ ~ Authenticated(s)
            /\ Answers(None) /\ UNCHANGED sessions
         \/ /\ Authenticated(s) /\ g = sessions[s].generation
            /\ sessions' = [sessions EXCEPT ![s] = Rotated(s)]
            /\ Answers([session |-> s, generation |-> g + 1])
         \/ /\ Authenticated(s) /\ g < sessions[s].generation /\ InGrace(s, g)
            /\ Answers([session |-> s, generation |-> sessions[s].generation]) /\ UNCHANGED sessions
         \/ /\ Authenticated(s) /\ g < sessions[s].generation /\ ~ InGrace(s, g)
            /\ sessions' = RevokeSessions({s}, sessions)
            /\ Answers(None)
  /\ sent' = [sent EXCEPT ![t] = None]
  /\ UNCHANGED <<now, users, links, content, told, throttleVars, call, job, jar, due, locks, hiccup, left>>

(* The answer sets or clears the browser's cookies, and the tab sets a     *)
(* timer for the next renewal.                                             *)
TabHears(t) ==
  /\ answer[t] # None
  /\ jar' = answer[t].token
  /\ due' = IF answer[t].token = None THEN due ELSE [due EXCEPT ![t] = now + Early]
  /\ answer' = [answer EXCEPT ![t] = None]
  /\ UNCHANGED <<now, rowVars, throttleVars, call, job, sent, locks, hiccup, left>>

(* The request or its answer is lost, or the tab is closed: offline for the *)
(* browser, which keeps what it has.                                       *)
TabHearsNothing(t) ==
  /\ Busy(t) /\ left["lost"] > 0
  /\ left' = [left EXCEPT !["lost"] = @ - 1]
  /\ sent' = [sent EXCEPT ![t] = None] /\ answer' = [answer EXCEPT ![t] = None]
  /\ hiccup' = TRUE
  /\ UNCHANGED <<now, rowVars, throttleVars, call, job, jar, due, locks>>

-----------------------------------------------------------------------------
(* Accounts: the statements on their rows, and what they are part of.      *)

InsertUser(u)            == users' = [users EXCEPT ![u].status = "pending"]
SetUserStatus(u, status) == users' = IF Exists(u) THEN [users EXCEPT ![u].status = status] ELSE users
ClearUserPassword(u)     == users' = [users EXCEPT ![u] = [status |-> "pending", password |-> None]]
ActivateUser(u, p)       == users' = [users EXCEPT ![u] = [status |-> "active", password |-> p]]

InsertUserToken(table, u, l) == [table EXCEPT ![l] = [user |-> u, expires |-> now + Ttl, used |-> FALSE]]
DeleteUserTokens(doomed) == [l \in Links |-> IF l \in doomed THEN [links[l] EXCEPT !.user = None] ELSE links[l]]
ConsumeUserToken(l) == links' = [links EXCEPT ![l].used = TRUE]

ActivationLinksOf(u) == {l \in Links : links[l].user = u}
NextLink == {l \in Links : links[l] = NoLink /\ \A k \in Links : k < l => links[k] # NoLink}

(* A name that is in use is refused. *)
NewUser(u) == users[u].status = "absent" /\ InsertUser(u)

CreateUser(u) ==
  /\ left["admin"] > 0 /\ left' = [left EXCEPT !["admin"] = @ - 1]
  /\ u \notin Admins /\ NewUser(u)
  /\ UNCHANGED <<now, links, sessions, content, told, throttleVars, call, job, browserVars>>

(* Bootstrap: the operator creates the one administrator with a link.      *)
Bootstrap(u) ==
  /\ left["admin"] > 0 /\ left' = [left EXCEPT !["admin"] = @ - 1]
  /\ u \in Admins /\ NewUser(u)
  /\ \E l \in NextLink : links' = InsertUserToken(links, u, l)
  /\ UNCHANGED <<now, sessions, content, told, throttleVars, call, job, browserVars>>

(* The account and its old links are read in the transaction that writes   *)
(* later, without a lock.                                                  *)
IssueActivation(c) ==
  /\ Starts(c, "admin")
  /\ \E u \in Users :
       /\ users[u].status \in {"pending", "active"}
       /\ call' = [call EXCEPT ![c] = [at |-> "issue", user |-> u, old |-> ActivationLinksOf(u)]]
  /\ UNCHANGED <<now, rowVars, throttleVars, job, browserVars>>

FinishIssue(c) ==
  /\ At(c, "issue")
  /\ LET u == call[c].user
     IN  IF Exists(u)
         THEN /\ ClearUserPassword(u)
              /\ sessions' = RevokeSessions(SessionsOf(u), sessions)
              /\ \E l \in NextLink : links' = InsertUserToken(DeleteUserTokens(call[c].old), u, l)
         ELSE UNCHANGED <<users, sessions, links>>
  /\ Returns(c)
  /\ UNCHANGED <<now, content, told, throttleVars, job, browserVars, left>>

Activate(c) ==
  /\ Starts(c, "activate")
  /\ \E l \in Links, a \in Addresses :
       /\ links[l] # NoLink
       /\ Attempt(c, [at |-> "charge", keys |-> <<ActivationKey(a)>>, op |-> "activate", link |-> l, address |-> a])
  /\ UNCHANGED <<now, rowVars, throttleVars, job, browserVars>>

Usable(l) == links[l].user # None /\ ~ links[l].used /\ links[l].expires > now

PeekLink(c) ==
  /\ At(c, "check") /\ call[c].op = "activate"
  /\ IF Usable(call[c].link) THEN GoesTo(c, "activate") ELSE Returns(c)
  /\ UNCHANGED <<now, rowVars, throttleVars, job, browserVars, left>>

(* The link is consumed, the account activated and a session begun in one  *)
(* transaction, or none of it.                                             *)
FinishActivate(c) ==
  /\ At(c, "activate")
  /\ LET l == call[c].link
         u == links[l].user
     IN  IF Usable(l) /\ users[u].status = "pending"
         THEN \E p \in Passwords, s \in NextSession :
                /\ ActivateUser(u, p) /\ ConsumeUserToken(l)
                /\ sessions' = [sessions EXCEPT ![s] = NewSession(u, TRUE)]
                /\ Receives(s)
                /\ GoesTo(c, "forget attempts")
         ELSE Returns(c) /\ UNCHANGED <<users, links, sessions, browserVars>>
  /\ UNCHANGED <<now, content, told, throttleVars, job, left>>

ForgetAttempts(c) ==
  /\ At(c, "forget attempts")
  /\ Reset(ActivationKey(call[c].address))
  /\ Returns(c)
  /\ UNCHANGED <<now, rowVars, job, browserVars, left>>

(* SetDisabled reads the account and writes its status later.              *)
SetDisabled(c) ==
  /\ Starts(c, "admin")
  /\ \E u \in Users, disabled \in BOOLEAN :
       /\ Exists(u) /\ users[u].status # "deleting"
       /\ ~ (disabled /\ u \in Admins)
       /\ call' = [call EXCEPT ![c] =
            [at |-> "set status", user |-> u,
             status |-> IF disabled THEN "disabled" ELSE IF users[u].password = None THEN "pending" ELSE "active"]]
  /\ UNCHANGED <<now, rowVars, throttleVars, job, browserVars>>

FinishDisable(c) ==
  /\ At(c, "set status")
  /\ LET u == call[c].user
     IN  /\ SetUserStatus(u, call[c].status)
         /\ sessions' = IF call[c].status = "disabled" THEN RevokeSessions(SessionsOf(u), sessions) ELSE sessions
  /\ Returns(c)
  /\ UNCHANGED <<now, links, content, told, throttleVars, job, browserVars, left>>

AdminDeleteUser(c) ==
  /\ Starts(c, "admin")
  /\ \E u \in Users :
       Exists(u) /\ call' = [call EXCEPT ![c] = [at |-> "delete", user |-> u]]
  /\ UNCHANGED <<now, rowVars, throttleVars, job, browserVars>>

RequestDeletion(c) ==
  /\ At(c, "delete")
  /\ LET u == call[c].user
     IN  IF Exists(u) /\ u \notin Admins /\ users[u].status # "deleting" THEN GoesTo(c, "mark deleting") ELSE Returns(c)
  /\ UNCHANGED <<now, rowVars, throttleVars, job, browserVars, left>>

(* The status, the sessions, and a goodbye for each of the chats.          *)
MarkDeleting(c, chats) ==
  /\ At(c, "mark deleting")
  /\ LET u == call[c].user
     IN  IF Exists(u)
         THEN /\ SetUserStatus(u, "deleting")
              /\ sessions' = RevokeSessions(SessionsOf(u), sessions)
              /\ told' = told \cup chats
         ELSE UNCHANGED <<users, sessions, told>>
  /\ Returns(c)
  /\ UNCHANGED <<now, links, content, throttleVars, job, browserVars, left>>
=============================================================================
