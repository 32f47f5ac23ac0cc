----------------------------- MODULE MCReading ------------------------------
(* An instance of Reading: three notes at most, two of them there from the *)
(* start, one with a file; results one by one, notes exported one by one.  *)
EXTENDS Reading, TLC

MCNotes      == {1, 2, 3}
MCCategories == {11}
MCPages      == {21}
CONSTANTS p1, p2, p3, f1, t1, t2
MCCount  == t1 :> 1 @@ t2 :> 0 @@ f1 :> 1
MCInside == {t2}
MCAsked  == {q \in Searches : \/ q.category = None /\ q.page = None /\ q.files = "any"
                              \/ q.scope = "active" /\ q.category # None /\ q.page = None /\ q.files = "any"
                              \/ q.scope = "active" /\ q.category = None /\ q.page # None /\ q.files = "any"
                              \/ q.scope = "all" /\ q.category = None /\ q.page = None}

TextOf(t) == <<[text |-> t, origin |-> "app", edited |-> 0, recorded |-> 0,
                applied |-> TRUE, session |-> None]>>

MCInit ==
  /\ now = 0
  /\ \E c \in {None, 11} :
       note = [n \in Notes |->
         CASE n = 1 -> [NoNote EXCEPT !.state = "active", !.category = 11, !.position = <<1>>]
           [] n = 2 -> [NoNote EXCEPT !.state = IF c = None THEN "deleted" ELSE "active", !.category = c,
                                      !.position = IF c = None THEN <<>> ELSE <<2>>]
           [] OTHER -> NoNote]
  /\ \E t, u \in Texts :
       /\ part = [p \in Parts |->
            CASE p = p1 -> [NoPart EXCEPT !.note = 1, !.text = t]
              [] p = p2 -> IF u = t2
                           THEN [NoPart EXCEPT !.note = 2, !.kind = "attachment", !.file = f1]
                           ELSE [NoPart EXCEPT !.note = 2, !.text = u]
              [] OTHER  -> NoPart]
       /\ history = [p \in Parts |-> CASE p = p1 -> TextOf(t)
                                       [] p = p2 /\ u # t2 -> TextOf(u)
                                       [] OTHER -> <<>>]
       /\ file = (f1 :> IF u = t2 THEN "ready" ELSE "new")
  /\ category = (11 :> [page |-> 21, position |-> <<2>>])
  /\ page = (21 :> <<2>>)
  /\ view = [e \in Entities |-> Shown(e)]
  /\ list = None /\ reading = "no" /\ cursor = None /\ shown = <<>> /\ stay = {}
  /\ moves = 0
  /\ NoRequest

MCSpec == MCInit /\ [][ReadingNext]_readingVars
=============================================================================
