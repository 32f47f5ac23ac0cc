------------------------------ MODULE MCMatrix ------------------------------
(* An instance of MatrixSync: two processes, up to two rooms, and          *)
(* behaviours that each dwell on one kind of trouble.                      *)
EXTENDS MatrixSync, TLC

Plain == [type |-> "text", text |-> TRUE, file |-> FALSE, command |-> FALSE, edits |-> FALSE, target |-> FALSE, known |-> TRUE]
Photo == [Plain EXCEPT !.type = "media", !.file = TRUE]
ContentsByName == "plain" :> {Plain} @@ "photo" :> {Photo} @@ "any" :> Contents
Families == {"message", "member", "crash", "lock", "term", "trouble", "refuse", "outbox"}
Mix(bots, rooms, contents, ahead, ops) ==
  [bots |-> bots, rooms |-> rooms, contents |-> contents, ahead |-> ahead] @@ ops @@ [f \in Families |-> 0]
One == CHOOSE b \in Syncers : TRUE
Home == CHOOSE r \in Rooms : TRUE

Recovering == Mix({One}, {Home}, "plain", Skew, "message" :> 4 @@ "crash" :> 1)
Several    == Mix({One}, Rooms, "plain", 0, "message" :> 4 @@ "crash" :> 1)
Standby    == Mix(Syncers, {Home}, "plain", 0, "message" :> 3 @@ "lock" :> 1)
Stopping   == Mix(Syncers, {Home}, "plain", 0, "message" :> 3 @@ "term" :> 1 @@ "crash" :> 1)
Crowd      == Mix({One}, {Home}, "plain", 0, "message" :> 2 @@ "member" :> 2 @@ "crash" :> 1)
Trouble    == Mix({One}, {Home}, "plain", 0, "message" :> 3 @@ "trouble" :> 2 @@ "term" :> 1)
Failing    == Mix({One}, {Home}, "photo", 0, "message" :> 1 @@ "trouble" :> 2 @@ "refuse" :> 1 @@ "member" :> 1)
Telling    == Mix({One}, {Home}, "plain", 0, "message" :> 2 @@ "member" :> 1 @@ "outbox" :> 1)
AnyKind    == Mix({One}, {Home}, "any", 0, "message" :> 1)
Revisited  == Mix({One}, {Home}, "plain", 0, "message" :> 3 @@ "member" :> 2)

AllMixes == {Recovering, Several, Standby, Stopping, Crowd, Trouble, Failing, Telling, AnyKind}
GapMixes == {Revisited}
=============================================================================
