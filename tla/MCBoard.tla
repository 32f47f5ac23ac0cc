------------------------------- MODULE MCBoard -------------------------------
(* An instance of Board: two pages, two categories, three notes, and keys *)
(* of three digits that are rewritten when they would be longer than two. *)
EXTENDS Board, TLC

MCNotes      == {1, 2, 3}
MCCategories == {11, 12}
MCPages      == {21, 22}

(* Note 2 was created in category 11, and then note 1 above it. *)
MCInit ==
  /\ now = 0
  /\ note = [n \in Notes |->
       CASE n = 1 -> [NoNote EXCEPT !.state = "active", !.category = 11, !.position = <<1>>]
         [] n = 2 -> [NoNote EXCEPT !.state = "active", !.category = 11, !.position = <<2>>]
         [] OTHER -> NoNote]
  /\ \E ids \in [1 .. 2 -> Parts], t \in Texts :
       /\ ids[1] # ids[2]
       /\ part = [p \in Parts |->
            CASE p = ids[1] -> [NoPart EXCEPT !.note = 1, !.text = t]
              [] p = ids[2] -> [NoPart EXCEPT !.note = 2, !.text = t]
              [] OTHER      -> NoPart]
       /\ history = [p \in Parts |->
            IF p \in {ids[1], ids[2]}
            THEN <<[text |-> t, origin |-> "app", edited |-> 0, recorded |-> 0,
                    applied |-> TRUE, session |-> None]>>
            ELSE <<>>]
  /\ category = [c \in Categories |->
       IF c = 11 THEN [page |-> 21, position |-> <<2>>] ELSE [page |-> None, position |-> <<>>]]
  /\ page = [g \in Pages |-> IF g = 21 THEN <<2>> ELSE <<>>]
  /\ file = <<>>
  /\ view = [e \in Entities |-> Shown(e)]
  /\ list = None /\ reading = "no" /\ cursor = None /\ shown = <<>> /\ stay = {}
  /\ moves = 0

MCSpec == MCInit /\ [][BoardNext]_boardSpecVars

PartSymmetry == Permutations(Parts)
=============================================================================
