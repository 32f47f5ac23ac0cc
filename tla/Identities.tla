----------------------------- MODULE Identities -----------------------------
(***************************************************************************)
(* Chats that are linked to accounts (core/internal/bots, the "link" and   *)
(* "unlink" commands and the beginning of every event of ingest): pairing  *)
(* codes, what a bot is allowed to store and for whom, and from when on.   *)
(*                                                                         *)
(* A message is what somebody writes in a chat: it has the time of the     *)
(* chat's server, which may be behind Core's clock.  Bots report messages  *)
(* late, again, and in any order.  There is one bot.                       *)
(***************************************************************************)
EXTENDS Accounts

CONSTANTS
  Codes,           \* pairing codes, in the order they are issued: numbers
  IdentityIds,     \* rows of external_identities, in the order they are made: numbers
  CodeTtl,         \* how long a pairing code is good for
  MaxActiveCodes,
  Keys,            \* credentials of the bot
  MaxBehind        \* how far the chat's server may be behind

ASSUME IdentitiesAssumption == CodeTtl \in Nat /\ MaxBehind \in Nat

VARIABLES
  bot,        \* the status of the bot's instance
  keys,       \* the bot's credentials that are good
  codes,      \* pairing_codes
  linked,     \* external_identities
  behind,     \* how far the chat's server is behind
  written,    \* the messages people wrote, except commands
  kept,       \* history: the messages that were stored for every user, and whose chat it was
  ignored     \* history: the messages that were taken for older than the link

botVars == <<bot, keys>>
chatVars == <<bot, keys, codes, linked, behind, written, kept, ignored>>

NoCode == [user |-> None, expires |-> 0, used |-> FALSE]
NoIdentity == [user |-> None, chat |-> None, linkedAt |-> 0, target |-> FALSE, conversation |-> FALSE, asked |-> 0]

ServerTime == IF now > behind THEN now - behind ELSE 0

NextCode == {k \in Codes : codes[k] = NoCode /\ \A j \in Codes : j < k => codes[j] # NoCode}
NextIdentity == {i \in IdentityIds : linked[i] = NoIdentity /\ \A j \in IdentityIds : j < i => linked[j] # NoIdentity}

CodeIsGood(k) == codes[k].user # None /\ ~ codes[k].used /\ codes[k].expires > now
IdentityOf(x) == {i \in IdentityIds : linked[i].chat = x /\ linked[i].user # None}
IdentitiesOf(u) == {i \in IdentityIds : linked[i].user = u}
CountUserIdentities(u) == Cardinality(IdentitiesOf(u))
CountActivePairingCodes(u) == Cardinality({k \in Codes : codes[k].user = u /\ CodeIsGood(k)})

-----------------------------------------------------------------------------
(* The statements that change rows *)

InsertBotInstance       == bot = "absent" /\ bot' = "active"
SetBotInstanceStatus(s) == bot # "absent" /\ bot' = s
CreateBotCredential(k)  == keys' = keys \cup {k}
DisableBotCredential(k) == k \in keys /\ keys' = keys \ {k}

ConsumePairingCode(k)   == codes' = [codes EXCEPT ![k].used = TRUE]
InsertIdentity(row)     == \E i \in NextIdentity : linked' = [linked EXCEPT ![i] = row]
DeleteIdentity(i)       == linked' = [linked EXCEPT ![i].user = None]
MarkReminderTarget(i)   == linked' = [linked EXCEPT ![i].target = ~ @]
KnowConversation(i)     == linked' = [linked EXCEPT ![i].conversation = TRUE]

(* The goodbye, a lifecycle item of bot_outbox: it outlives the account.   *)
InsertOutbox(chats) == told' = told \cup chats

-----------------------------------------------------------------------------
(* The bot, as the administrator has registered it.  Its credential is     *)
(* looked at when a request begins.                                        *)
BotKnown == bot = "active" /\ keys # {}

BotChanges ==
  /\ left["bot"] > 0 /\ left' = [left EXCEPT !["bot"] = @ - 1]
  /\ UNCHANGED <<now, rowVars, throttleVars, call, job, browserVars, codes, linked, behind, written, kept, ignored>>

CreateInstance       == BotChanges /\ InsertBotInstance /\ UNCHANGED keys
SetInstanceStatus    == BotChanges /\ UNCHANGED keys /\ \E s \in {"active", "disabled"} : SetBotInstanceStatus(s)
CreateCredential(k)  == BotChanges /\ bot # "absent" /\ CreateBotCredential(k) /\ UNCHANGED bot
DisableCredential(k) == BotChanges /\ DisableBotCredential(k) /\ UNCHANGED bot

-----------------------------------------------------------------------------
CreateCode(c) == Request(c, "link", "count codes") /\ UNCHANGED chatVars

(* The codes of a user are counted and another one is inserted by one      *)
(* transaction that locks nothing.                                         *)
CreatePairingCode(c) ==
  /\ At(c, "count codes")
  /\ IF CountActivePairingCodes(call[c].user) >= MaxActiveCodes
     THEN Returns(c) ELSE GoesTo(c, "insert code")
  /\ UNCHANGED <<now, rowVars, throttleVars, job, browserVars, chatVars, left>>

InsertPairingCode(c) ==
  /\ At(c, "insert code")
  /\ IF Exists(call[c].user)
     THEN \E k \in NextCode : codes' = [codes EXCEPT ![k] = [user |-> call[c].user, expires |-> now + CodeTtl, used |-> FALSE]]
     ELSE UNCHANGED codes
  /\ Returns(c)
  /\ UNCHANGED <<now, rowVars, throttleVars, job, browserVars, botVars, linked, behind, written, kept, ignored, left>>

(* The bot reports "!link CODE": the throttle, the code and the chat are   *)
(* looked up.  A command is reported while it is new or later.             *)
Link(c) ==
  /\ Starts(c, "link") /\ BotKnown
  /\ \E x \in Chats, k \in Codes, asked \in 0 .. ServerTime :
       /\ codes[k] # NoCode /\ codes[k].expires - CodeTtl - behind <= asked
       /\ call' = [call EXCEPT ![c] =
            IF IsBlocked(meter[PairingKey(x)], now) THEN Done
            ELSE IF ~ CodeIsGood(k) THEN [at |-> "count failure", chat |-> x]
            ELSE IF IdentityOf(x) # {} THEN Done
            ELSE [at |-> "link", chat |-> x, code |-> k, user |-> codes[k].user, asked |-> asked, read |-> now]]
  /\ UNCHANGED <<now, rowVars, throttleVars, job, browserVars, chatVars>>

CountFailure(c) ==
  /\ At(c, "count failure")
  /\ meter' = [meter EXCEPT ![PairingKey(call[c].chat)] = Failed(@, PairingPolicy, now)]
  /\ Returns(c)
  /\ UNCHANGED <<now, rowVars, tries, job, browserVars, chatVars, left>>

(* Mutant: the time of Core's clock decides what is history.               *)
LinkedAt_coreClock(c) == call[c].read

(* The earlier of the two clocks.                                          *)
LinkedAt(c) == Lesser(call[c].asked, call[c].read)

(* The transaction that holds the user's row.  A chat that somebody else   *)
(* has linked in the meantime undoes it and leaves the code good.          *)
LinkChat(c) ==
  /\ At(c, "link")
  /\ LET u == call[c].user
         k == call[c].code
         x == call[c].chat
     IN  IF ~ Exists(u) THEN Returns(c) /\ UNCHANGED <<codes, linked, told>>
         ELSE IF users[u].status # "active" \/ ~ CodeIsGood(k)
         THEN GoesTo(c, "count failure") /\ UNCHANGED <<codes, linked, told>>
         ELSE IF IdentityOf(x) # {} THEN Returns(c) /\ UNCHANGED <<codes, linked, told>>
         ELSE /\ ConsumePairingCode(k)
              /\ \E conversation \in BOOLEAN :
                   InsertIdentity([user |-> u, chat |-> x, linkedAt |-> LinkedAt(c), target |-> CountUserIdentities(u) = 0,
                                   conversation |-> conversation, asked |-> call[c].asked])
              /\ told' = told \ {x}
              /\ GoesTo(c, "linked")
  /\ UNCHANGED <<now, users, links, sessions, content, throttleVars, job, browserVars, botVars, behind, written, kept, ignored, left>>

ForgetFailures(c) ==
  /\ At(c, "linked")
  /\ meter' = [meter EXCEPT ![PairingKey(call[c].chat)] = Fresh]
  /\ Returns(c)
  /\ UNCHANGED <<now, rowVars, tries, job, browserVars, chatVars, left>>

(* By the user in the app or by the chat itself.                           *)
Unlink ==
  /\ left["unlink"] > 0 /\ left' = [left EXCEPT !["unlink"] = @ - 1]
  /\ \E i \in IdentityIds :
       /\ linked[i].user # None
       /\ DeleteIdentity(i)
       /\ IF linked[i].conversation THEN InsertOutbox({linked[i].chat}) ELSE UNCHANGED told
  /\ UNCHANGED <<now, users, links, sessions, content, throttleVars, call, job, browserVars, botVars, codes, behind, written, kept, ignored>>

SetReminderTarget ==
  /\ left["unlink"] > 0 /\ left' = [left EXCEPT !["unlink"] = @ - 1]
  /\ \E i \in IdentityIds :
       linked[i].user # None /\ MarkReminderTarget(i)
  /\ UNCHANGED <<now, rowVars, throttleVars, call, job, browserVars, botVars, codes, behind, written, kept, ignored>>

-----------------------------------------------------------------------------
Write(x) ==
  /\ left["write"] > 0 /\ left' = [left EXCEPT !["write"] = @ - 1]
  /\ written' = written \cup {[chat |-> x, sent |-> ServerTime, n |-> Cardinality(written)]}
  /\ UNCHANGED <<now, rowVars, throttleVars, call, job, browserVars, botVars, codes, linked, behind, kept, ignored>>

(* PostEvent: whose chat it is is looked up without a lock.                *)
Ingest(c) ==
  /\ Starts(c, "ingest") /\ BotKnown
  /\ \E m \in written :
       call' = [call EXCEPT ![c] =
         IF IdentityOf(m.chat) = {} THEN Done
         ELSE LET i == CHOOSE i \in IdentityOf(m.chat) : TRUE
              IN  [at |-> "store", message |-> m, user |-> linked[i].user, identity |-> i]]
  /\ UNCHANGED <<now, rowVars, throttleVars, job, browserVars, chatVars>>

StillLinked(c) == linked[call[c].identity].user = call[c].user

(* Handle: the transaction that holds the user's row.                      *)
Store(c) ==
  /\ At(c, "store")
  /\ LET u == call[c].user
         m == call[c].message
         i == call[c].identity
         record == [message |-> m, identity |-> i, owner |-> linked[i].user]
         accepted == users[u].status = "active" /\ StillLinked(c)
                     /\ \A r \in kept[u] \cup ignored[u] : r.message # m
     IN  \/ /\ accepted /\ m.sent >= linked[i].linkedAt
            /\ kept' = [kept EXCEPT ![u] = @ \cup {record}]
            /\ \E K \in {Kinds, Kinds \ {"files", "chunks"}} : Grows(u, K)
            /\ KnowConversation(i)
            /\ UNCHANGED ignored
         \/ /\ accepted /\ m.sent < linked[i].linkedAt
            /\ ignored' = [ignored EXCEPT ![u] = @ \cup {record}]
            /\ Grows(u, {"ingest"})
            /\ KnowConversation(i)
            /\ UNCHANGED kept
         \/ /\ ~ accepted
            /\ UNCHANGED <<linked, ignored, kept, content>>
  /\ Returns(c)
  /\ UNCHANGED <<now, users, links, sessions, told, throttleVars, job, browserVars, botVars, codes, behind, written, left>>
=============================================================================
