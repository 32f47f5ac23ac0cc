------------------------------ MODULE Position ------------------------------
(***************************************************************************)
(* Placing an item in an ordered list (core/internal/position/position.go).*)
(* A list is a function from the identifiers of its members to their keys, *)
(* without the item that is being placed; identifiers are numbers, because *)
(* the queries break ties by identifier.                                   *)
(***************************************************************************)
EXTENDS FracIndex, FiniteSets

Hints(Ids, none) == [after : Ids \cup {none}, before : Ids \cup {none}, top : BOOLEAN]

(* "order by position, id" *)
Precedes(keys, i, j) == \/ KeyLess(keys[i], keys[j])
                        \/ keys[i] = keys[j] /\ i < j

(* The smallest key above k, the greatest below it, the first and the last *)
(* of all; an open end where there is none.                                *)
KeyAfter(keys, k) ==
  LET above == {x \in {keys[i] : i \in DOMAIN keys} : KeyLess(k, x)}
  IN  IF above = {} THEN Open ELSE CHOOSE x \in above : \A y \in above : ~ KeyLess(y, x)

KeyBefore(keys, k) ==
  LET below == {x \in {keys[i] : i \in DOMAIN keys} : KeyLess(x, k)}
  IN  IF below = {} THEN Open ELSE CHOOSE x \in below : \A y \in below : ~ KeyLess(x, y)

KeyFirst(keys) == KeyAfter(keys, Open)

KeyLast(keys) ==
  LET all == {keys[i] : i \in DOMAIN keys}
  IN  IF all = {} THEN Open ELSE CHOOSE x \in all : \A y \in all : ~ KeyLess(x, y)

(* Mutant: of two neighbours, the second one is not looked at. *)
Gap_first(keys, h, none) ==
  LET a == h.after
      b == h.before
  IN  IF ~ {a, b} \subseteq DOMAIN keys \cup {none} THEN {}
      ELSE CASE a # none /\ b # none /\ KeyLess(keys[a], keys[b]) -> {<<keys[a], Open>>}
             [] a # none /\ ~ (b # none /\ KeyLess(keys[a], keys[b])) -> {<<keys[a], KeyAfter(keys, keys[a])>>}
             [] a = none /\ b # none -> {<<KeyBefore(keys, keys[b]), keys[b]>>}
             [] a = none /\ b = none /\ h.top -> {<<Open, KeyFirst(keys)>>}
             [] OTHER -> {<<KeyLast(keys), Open>>}

(* The gap the hints name, as its lower and its upper bound; nothing when  *)
(* a neighbour is not in the list.  Of two neighbours that are no longer   *)
(* in the order the client saw, the one that comes before counts.          *)
Gap(keys, h, none) ==
  LET a == h.after
      b == h.before
  IN  IF ~ {a, b} \subseteq DOMAIN keys \cup {none} THEN {}
      ELSE CASE a # none /\ b # none /\ KeyLess(keys[a], keys[b]) -> {<<keys[a], keys[b]>>}
             [] a # none /\ ~ (b # none /\ KeyLess(keys[a], keys[b])) -> {<<keys[a], KeyAfter(keys, keys[a])>>}
             [] a = none /\ b # none -> {<<KeyBefore(keys, keys[b]), keys[b]>>}
             [] a = none /\ b = none /\ h.top -> {<<Open, KeyFirst(keys)>>}
             [] OTHER -> {<<KeyLast(keys), Open>>}

KeysFor(keys, h, none) == UNION {Between(g[1], g[2]) : g \in Gap(keys, h, none)}

(* Mutant: the keys are given out in the order of the identifiers. *)
Rebalanced_byId(keys) ==
  LET even == Even(Cardinality(DOMAIN keys))
      rank(i) == Cardinality({j \in DOMAIN keys : j <= i})
  IN  [i \in DOMAIN keys |-> even[rank(i)]]

(* Every member gets a short key; their order stays. *)
Rebalanced(keys) ==
  LET even == Even(Cardinality(DOMAIN keys))
      rank(i) == Cardinality({j \in DOMAIN keys : j = i \/ Precedes(keys, j, i)})
  IN  [i \in DOMAIN keys |-> even[rank(i)]]

(* What Place answers: the key of the item, the keys the other members     *)
(* have then, and which of them were rewritten.  Nothing is answered, and  *)
(* the transaction fails, when a neighbour is not in the list.             *)
Place(keys, h, none) ==
  {[key |-> k, keys |-> keys, rekeyed |-> {}] :
     k \in {x \in KeysFor(keys, h, none) : Len(x) <= MaxLength}}
  \cup
  {[key |-> k, keys |-> Rebalanced(keys), rekeyed |-> DOMAIN keys] :
     k \in IF \E x \in KeysFor(keys, h, none) : Len(x) > MaxLength
           THEN KeysFor(Rebalanced(keys), h, none) ELSE {}}
=============================================================================
