----------------------------- MODULE FracIndex -----------------------------
(***************************************************************************)
(* Fractional position keys (core/internal/fracindex/fracindex.go).  A key *)
(* is a non-empty string of digits that does not end in the smallest one;  *)
(* keys are compared byte by byte, which is the collation "C" of the       *)
(* position columns.  The code has 62 digits and lets keys grow to 48      *)
(* characters; both are parameters here, so that the limit is met after a  *)
(* few operations.  The empty sequence is "no key" of a note in the Inbox. *)
(***************************************************************************)
EXTENDS Naturals, Sequences

CONSTANTS
  Base,       \* the number of digits; the code uses 62
  MaxLength   \* the length above which a list is rebalanced; the code uses 48

ASSUME KeysAssumption == Base \in Nat /\ Base >= 2 /\ MaxLength \in Nat

Digits == 0 .. (Base - 1)
Middle == Base \div 2                  \* 'V' among the 62 digits of the code

(* An open end of a gap, for which the code has the empty string.          *)
Open == <<>>

Valid(k) == /\ k \in Seq(Digits) /\ k # Open
            /\ k[Len(k)] # 0

(* The order of the keys: plain byte comparison, a prefix before what it begins. *)
KeyLess(a, b) ==
  \E n \in 0 .. Len(b) - 1 :
    /\ n <= Len(a)
    /\ \A i \in 1 .. n : a[i] = b[i]
    /\ n = Len(a) \/ a[n + 1] < b[n + 1]

Digit(k, i) == IF i > Len(k) THEN 0 ELSE k[i]
From(k, n)  == SubSeq(k, n + 1, Len(k))
UpTo(k, n)  == SubSeq(k, 1, n)

(* How many leading digits of b are those of a, padded with the smallest digit. *)
CommonPrefix(a, b) ==
  CHOOSE n \in 0 .. Len(b) :
    /\ \A i \in 1 .. n : Digit(a, i) = b[i]
    /\ n < Len(b) => Digit(a, n + 1) # b[n + 1]

(* A key between a and b, of which either may be open; further has the     *)
(* keys of smaller gaps.                                                   *)
Halve(a, b, further) ==
  LET n    == CommonPrefix(a, b)
      low  == Digit(a, 1)
      high == IF b = Open THEN Base ELSE b[1]
  IN  CASE b = Open /\ a # Open ->
             IF low < Base - 1 THEN <<low + 1>> ELSE <<low>> \o further[<<Tail(a), Open>>]
        [] a = Open /\ b # Open ->
             IF high >= 2 THEN <<high - 1>>
             ELSE IF Len(b) > 1 /\ high = 0 THEN <<0>> \o further[<<Open, Tail(b)>>]
             ELSE <<0, Middle>>
        [] a # Open /\ b # Open /\ n > 0 ->
             UpTo(b, n) \o further[<<From(a, n), From(b, n)>>]
        [] (a = Open) = (b = Open) /\ n = 0 /\ high - low > 1 ->
             <<(low + high + 1) \div 2>>
        [] OTHER ->
             IF Len(b) > 1 THEN <<b[1]>> ELSE <<low>> \o further[<<Tail(a), Open>>]

Midpoint[gap \in Seq(Digits) \X Seq(Digits)] == Halve(gap[1], gap[2], Midpoint)

(* The keys Between answers with: none when it reports ErrInvalid or ErrOrder. *)
Between(a, b) ==
  IF /\ a = Open \/ Valid(a)
     /\ b = Open \/ Valid(b)
     /\ a = Open \/ b = Open \/ KeyLess(a, b)
  THEN {Midpoint[<<a, b>>]}
  ELSE {}

Pow[e \in Nat] == IF e = 0 THEN 1 ELSE Base * Pow[e - 1]

(* n increasing keys spread evenly, one digit longer than the count needs. *)
Encode(v, width) == [i \in 1 .. width |-> (v \div Pow[width - i]) % Base]

Even(n) ==
  LET width == 1 + CHOOSE w \in 1 .. n + 1 : Pow[w] >= n + 1 /\ (w = 1 \/ Pow[w - 1] < n + 1)
      step  == Pow[width] \div (n + 1)
      key(i) == Encode(i * step, width)
  IN  [i \in 1 .. n |-> IF key(i)[width] = 0 THEN Append(key(i), Middle) ELSE key(i)]
=============================================================================
