------------------------------ MODULE MCAccess ------------------------------
(* An instance of Access: an administrator and another user, two handlers, *)
(* two tabs, and behaviours of a few kinds that each exhaust one subject.   *)
EXTENDS Access

Nothing == [f \in {"login", "refresh", "lost", "admin", "activate", "link", "unlink", "write", "ingest",
                   "request", "app", "share", "open", "purge", "stop", "bot", "tick"} |-> 0]
Mix(new, chat, share, ops) == [new |-> new, chat |-> chat, share |-> share, ops |-> ops @@ Nothing]

Guessing == Mix(FALSE, FALSE, FALSE, "login" :> 2 @@ "tick" :> 2 @@ "purge" :> 1)
Confirming == Mix(FALSE, FALSE, FALSE, "request" :> 2 @@ "refresh" :> 1)
Renewing == Mix(FALSE, FALSE, FALSE, "refresh" :> 4 @@ "lost" :> 1 @@ "tick" :> 4)
Beginning == Mix(TRUE, FALSE, FALSE, "admin" :> 3 @@ "activate" :> 1 @@ "tick" :> 1)
Linking == Mix(FALSE, FALSE, FALSE, "link" :> 3 @@ "write" :> 1 @@ "ingest" :> 1 @@ "tick" :> 2)
Relinking == Mix(FALSE, TRUE, FALSE, "link" :> 2 @@ "write" :> 1 @@ "ingest" :> 1 @@ "unlink" :> 1 @@ "tick" :> 1)
Serving == Mix(TRUE, FALSE, FALSE, "bot" :> 4 @@ "write" :> 1 @@ "ingest" :> 1 @@ "admin" :> 2)
Racing == Mix(FALSE, FALSE, FALSE, "link" :> 4)
Vanishing == Mix(FALSE, FALSE, FALSE, "admin" :> 1 @@ "login" :> 1 @@ "link" :> 2)
Leaving == Mix(FALSE, TRUE, TRUE, "unlink" :> 1 @@ "admin" :> 2 @@ "app" :> 1 @@ "write" :> 1 @@ "ingest" :> 1 @@ "stop" :> 1)
Sharing == Mix(FALSE, FALSE, TRUE, "share" :> 3 @@ "tick" :> 2 @@ "purge" :> 1)
Showing == Mix(FALSE, FALSE, TRUE, "share" :> 1 @@ "open" :> 1 @@ "admin" :> 1 @@ "tick" :> 2)
Fading == Mix(FALSE, FALSE, TRUE, "share" :> 1 @@ "open" :> 1 @@ "purge" :> 1 @@ "tick" :> 5)

MCMixes == {Guessing, Confirming, Renewing, Beginning, Linking, Relinking, Serving, Racing, Vanishing, Leaving, Sharing, Showing, Fading}
PairP == [free |-> 0, max |-> 2]
WideP == [free |-> 3, max |-> 2]
=============================================================================
