------------------------------ MODULE Normalise ------------------------------
(***************************************************************************)
(* What the Matrix bot makes of an event (bots/matrix/internal/normalise): *)
(* an event for Core with its parts, a command, or nothing.  Bodies are    *)
(* looked at only for whether there is something in them.                  *)
(***************************************************************************)
EXTENDS Naturals, Sequences, FiniteSets

Types == {"text", "location", "media", "notice", "redaction", "other"}

Contents == {c \in [
  type    : Types,
  text    : BOOLEAN,  \* there is a text, a caption or a position
  file    : BOOLEAN,  \* there is a place to fetch the file from
  command : BOOLEAN,  \* the text begins with the name of a command
  edits   : BOOLEAN,  \* it replaces an earlier message
  target  : BOOLEAN,  \* it holds what it is edited into, or names what it redacts
  known   : BOOLEAN]  \* the sender's homeserver is one that the bot serves
  : (c.command => c.type = "text" /\ c.text) /\ (c.file => c.type = "media") /\ (c.type = "redaction" => ~ c.edits /\ ~ c.text)}

Nothing == [kind |-> "ignore", parts |-> <<>>]
Command == [kind |-> "command", parts |-> <<>>]
Event(parts) == IF parts = <<>> THEN Nothing ELSE [kind |-> "event", parts |-> parts]

Texts(c) == IF c.text THEN <<"text">> ELSE <<>>

(* partsOf: a file comes before its caption.                               *)
PartsOf(c) ==
  CASE c.type \in {"text", "location"} -> Texts(c)
    [] c.type = "media" /\ c.file      -> <<"file">> \o Texts(c)
    [] OTHER                           -> <<"unsupported">>

Edit(c) == IF c.type = "media" THEN Event(Texts(c)) ELSE Event(PartsOf(c))

Redaction(c) == IF c.target THEN [kind |-> "event", parts |-> <<>>] ELSE Nothing

Message(c) ==
  CASE c.type = "notice"                            -> Nothing
    [] c.type # "notice" /\ c.edits                 -> IF c.target THEN Edit(c) ELSE Nothing
    [] c.type = "text" /\ ~ c.edits /\ c.command    -> Command
    [] OTHER                                        -> Event(PartsOf(c))

Normalised(c) == IF c.type = "redaction" THEN Redaction(c) ELSE Message(c)

-----------------------------------------------------------------------------
(* What a reader of the chat would expect to find again: what they said,   *)
(* and the file or at least that there was one.                            *)
Said(c) ==
  IF c.type \in {"notice", "redaction"} \/ c.command \/ (c.edits /\ ~ c.target) THEN {}
  ELSE (IF c.text /\ (c.type \in {"text", "location"} \/ c.file) THEN {"text"} ELSE {})
       \cup (IF c.file /\ ~ c.edits THEN {"file"} ELSE {})
       \cup (IF c.type = "other" \/ (c.type = "media" /\ ~ c.file /\ ~ c.edits) THEN {"unsupported"} ELSE {})
=============================================================================
