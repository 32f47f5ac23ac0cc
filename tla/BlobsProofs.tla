---------------------------- MODULE BlobsProofs ----------------------------
(***************************************************************************)
(* Proofs about Blobs: the counters of a user's storage are exact, blobs   *)
(* and attachments agree and storage grows only within the quota, for any  *)
(* number of uploads, any sizes and quotas, and any deadline, age and      *)
(* clock skew with Deadline + Skew <= StaleAge.                            *)
(*                                                                         *)
(* The step from a running upload to the counters is Running: while an     *)
(* upload is within its deadline its blob is there and incomplete, because *)
(* the janitor only takes blobs that are older.  Publish relies on it, for *)
(* it does not look at its own row.  That no note loses a file rests on    *)
(* Used: a part names an attachment that is there, and no two parts name   *)
(* the same one.                                                           *)
(***************************************************************************)
EXTENDS Blobs, FiniteSetTheorems, TLAPS

-----------------------------------------------------------------------------
(* Sums of sizes, for any table b of blobs.                                *)
St(b, s) == {u \in Uploads : b[u].state = s}
BytesIn(b, S) == {x \in Uploads \X (1 .. MaxSize) : x[1] \in S /\ x[2] <= Size[b[x[1]].content]}
TotalIn(b, S) == Cardinality(BytesIn(b, S))

LEMMA BytesFinite ==
  ASSUME NEW b, NEW S
  PROVE  IsFiniteSet(BytesIn(b, S)) /\ TotalIn(b, S) \in Nat
  <1>1. IsFiniteSet(1 .. MaxSize)
    BY FS_Interval, SizesAssumption
  <1>2. IsFiniteSet(Uploads \X (1 .. MaxSize))
    BY <1>1, FS_Product, SizesAssumption
  <1>3. BytesIn(b, S) \in SUBSET (Uploads \X (1 .. MaxSize))
    BY DEF BytesIn
  <1>4. IsFiniteSet(BytesIn(b, S))
    BY <1>2, <1>3, FS_Subset
  <1> QED
    BY <1>4, FS_CardinalityType DEF TotalIn

LEMMA TotalOfDisjoint ==
  ASSUME NEW b, NEW S, NEW T, S \cap T = {}
  PROVE  TotalIn(b, S \cup T) = TotalIn(b, S) + TotalIn(b, T)
  <1>1. BytesIn(b, S \cup T) = BytesIn(b, S) \cup BytesIn(b, T)
    BY DEF BytesIn
  <1>2. BytesIn(b, S) \cap BytesIn(b, T) = {}
    BY DEF BytesIn
  <1>3. Cardinality({}) = 0
    BY FS_EmptySet
  <1>4. IsFiniteSet(BytesIn(b, S)) /\ IsFiniteSet(BytesIn(b, T))
    BY BytesFinite
  <1>5. Cardinality(BytesIn(b, S) \cup BytesIn(b, T))
          = Cardinality(BytesIn(b, S)) + Cardinality(BytesIn(b, T)) - Cardinality(BytesIn(b, S) \cap BytesIn(b, T))
    BY <1>4, FS_Union
  <1>6. Cardinality(BytesIn(b, S)) \in Nat /\ Cardinality(BytesIn(b, T)) \in Nat
    BY BytesFinite DEF TotalIn
  <1>7. Cardinality(BytesIn(b, S) \cap BytesIn(b, T)) = 0
    BY <1>2, <1>3
  <1>8. Cardinality(BytesIn(b, S \cup T)) = Cardinality(BytesIn(b, S) \cup BytesIn(b, T))
    BY <1>1
  <1>9. Cardinality(BytesIn(b, S \cup T)) = Cardinality(BytesIn(b, S)) + Cardinality(BytesIn(b, T))
    BY <1>5, <1>6, <1>7, <1>8
  <1> QED
    BY <1>9 DEF TotalIn

LEMMA TotalOfRest ==
  ASSUME NEW b, NEW S, NEW T, T \subseteq S
  PROVE  TotalIn(b, S \ T) = TotalIn(b, S) - TotalIn(b, T) /\ TotalIn(b, T) <= TotalIn(b, S)
  <1>1. S = (S \ T) \cup T /\ (S \ T) \cap T = {}
    OBVIOUS
  <1>2. TotalIn(b, (S \ T) \cup T) = TotalIn(b, S \ T) + TotalIn(b, T)
    BY <1>1, TotalOfDisjoint
  <1>3. TotalIn(b, S \ T) \in Nat /\ TotalIn(b, T) \in Nat /\ TotalIn(b, S) \in Nat
    BY BytesFinite
  <1> QED
    BY <1>1, <1>2, <1>3

LEMMA TotalOfOne ==
  ASSUME NEW b, NEW u \in Uploads, b[u].content \in Contents
  PROVE  TotalIn(b, {u}) = Size[b[u].content]
  <1> DEFINE n == Size[b[u].content]
  <1>1. n \in 1 .. MaxSize /\ MaxSize \in Nat
    BY SizesAssumption
  <1>2. BytesIn(b, {u}) = {u} \X (1 .. n)
    BY <1>1 DEF BytesIn
  <1> HIDE DEF n
  <1>3. IsFiniteSet(1 .. n) /\ Cardinality(1 .. n) = n
    BY <1>1, FS_Interval
  <1>4. IsFiniteSet({u}) /\ Cardinality({u}) = 1
    BY FS_Singleton
  <1>5. Cardinality({u} \X (1 .. n)) = Cardinality({u}) * Cardinality(1 .. n)
    BY <1>3, <1>4, FS_Product
  <1>6. Cardinality({u} \X (1 .. n)) = n
    BY <1>1, <1>3, <1>4, <1>5
  <1>7. TotalIn(b, {u}) = Cardinality({u} \X (1 .. n))
    BY <1>2 DEF TotalIn
  <1> QED
    BY <1>6, <1>7 DEF n

LEMMA TotalOfSame ==
  ASSUME NEW b, NEW c, NEW S, \A u \in S : b[u].content = c[u].content
  PROVE  TotalIn(b, S) = TotalIn(c, S)
  <1>1. BytesIn(b, S) = BytesIn(c, S)
    BY DEF BytesIn
  <1> QED
    BY <1>1 DEF TotalIn

-----------------------------------------------------------------------------
(* The invariant. *)
Shape ==
  /\ now \in Nat /\ quota \in Nat /\ used \in Nat /\ reserved \in Nat
  /\ blob \in [Uploads -> BlobRows]
  /\ att \in [Ids -> AttRows]
  /\ pc \in [Uploads -> {"idle", "streaming", "publishing", "aborting", "over"}]

(* An attempt that has begun has a row, which keeps its content.           *)
Begun ==
  \A u \in Uploads :
    /\ pc[u] = "idle" <=> blob[u].state = "none"
    /\ blob[u].state # "none" => blob[u].content \in Contents /\ blob[u].id \in Ids

Running ==
  \A u \in Uploads : pc[u] \in {"streaming", "publishing"} /\ InTime(u) => blob[u].state = "incomplete"

PointsToBlob == \A i \in Ids : Present(i) => blob[att[i].blob].state = "complete"

Inv == Shape /\ Begun /\ Running /\ PointsToBlob /\ NoOrphans /\ AccountsExact

(* What parts name is there and is named once.                             *)
Used ==
  /\ file \in [Parts -> Ids \cup {None}]
  /\ \A p \in Parts : file[p] # None => Present(file[p])
  /\ \A p, q \in Parts : file[p] # None /\ file[p] = file[q] => p = q

LEMMA InvType == Inv /\ Used => TypeOK
  BY DEF Inv, TypeOK, Shape, PointsToBlob, Used

LEMMA Accounts ==
  /\ AccountsExact <=> /\ reserved = TotalIn(blob, St(blob, "incomplete"))
                       /\ used = TotalIn(blob, St(blob, "complete"))
  /\ AccountsExact' <=> /\ reserved' = TotalIn(blob', St(blob', "incomplete"))
                        /\ used' = TotalIn(blob', St(blob', "complete"))
  BY DEF AccountsExact, Total, Bytes, SizeOf, InState, St, BytesIn, TotalIn

LEMMA TotalsAgree ==
  ASSUME NEW S
  PROVE  Total(S) = TotalIn(blob, S)
  BY DEF Total, Bytes, SizeOf, BytesIn, TotalIn

LEMMA LessIsMinus ==
  ASSUME NEW n \in Nat, NEW m \in Nat, m <= n
  PROVE  Less(n, m) = n - m /\ Less(n, m) \in Nat
  BY DEF Less

(* Rows that are removed leave the sums.                                   *)
LEMMA RemoveLeaves ==
  ASSUME Shape, NEW S \in SUBSET Uploads, NEW s \in {"incomplete", "complete"}
  PROVE  /\ Remove(S) \in [Uploads -> BlobRows]
         /\ St(Remove(S), s) = St(blob, s) \ S
         /\ TotalIn(Remove(S), St(Remove(S), s)) = TotalIn(blob, St(blob, s) \ S)
  <1>1. ASSUME NEW u \in Uploads
        PROVE  /\ Remove(S)[u] \in BlobRows
               /\ Remove(S)[u].content = blob[u].content /\ Remove(S)[u].id = blob[u].id
               /\ Remove(S)[u].since = blob[u].since
               /\ Remove(S)[u].state = IF u \in S THEN "removed" ELSE blob[u].state
    <2>1. blob[u] \in BlobRows /\ Remove(S)[u] = IF u \in S THEN [blob[u] EXCEPT !.state = "removed"] ELSE blob[u]
      BY DEF Shape, Remove
    <2> QED
      BY <2>1 DEF BlobRows
  <1>2. DOMAIN Remove(S) = Uploads /\ Remove(S) = [u \in Uploads |-> Remove(S)[u]]
    BY DEF Remove
  <1>3. Remove(S) \in [Uploads -> BlobRows]
    BY <1>1, <1>2
  <1>4. St(Remove(S), s) = St(blob, s) \ S
    BY <1>1 DEF St
  <1>5. \A u \in St(blob, s) \ S : Remove(S)[u].content = blob[u].content
    BY <1>1 DEF St
  <1>6. TotalIn(Remove(S), St(blob, s) \ S) = TotalIn(blob, St(blob, s) \ S)
    BY <1>5, TotalOfSame
  <1> QED
    BY <1>3, <1>4, <1>6

LEMMA RemovedRows ==
  ASSUME Shape, NEW S \in SUBSET Uploads, NEW u \in Uploads
  PROVE  /\ Remove(S)[u].content = blob[u].content /\ Remove(S)[u].id = blob[u].id
         /\ Remove(S)[u].since = blob[u].since
         /\ Remove(S)[u].state = IF u \in S THEN "removed" ELSE blob[u].state
  <1>1. blob[u] \in BlobRows /\ Remove(S)[u] = IF u \in S THEN [blob[u] EXCEPT !.state = "removed"] ELSE blob[u]
    BY DEF Shape, Remove
  <1> QED
    BY <1>1 DEF BlobRows

LEMMA InitInv == Init => Inv
  <1> SUFFICES ASSUME Init PROVE Inv
    OBVIOUS
  <1>1. Shape /\ Begun /\ Running /\ PointsToBlob
    BY SizesAssumption
    DEF Init, Shape, Begun, Running, PointsToBlob, Present, NoAtt, BlobRows, AttRows
  <1>2. InState("complete") = {} /\ St(blob, "complete") = {} /\ St(blob, "incomplete") = {}
    BY DEF Init, InState, St
  <1>3. NoOrphans
    BY <1>2 DEF NoOrphans
  <1>4. BytesIn(blob, {}) = {} /\ Cardinality({}) = 0
    BY FS_EmptySet DEF BytesIn
  <1>5. TotalIn(blob, {}) = 0
    BY <1>4 DEF TotalIn
  <1>6. AccountsExact
    BY <1>2, <1>5, Accounts DEF Init
  <1> QED
    BY <1>1, <1>3, <1>6 DEF Inv

-----------------------------------------------------------------------------
LEMMA BeginKeeps ==
  ASSUME Inv, NEW u \in Uploads, NEW i \in Ids, NEW c \in Contents, NEW answered \in BOOLEAN,
         Begin(u, i, c, answered)
  PROVE  Inv'
  <1> DEFINE y == [state |-> "incomplete", id |-> i, content |-> c, since |-> now]
  <1>1. /\ blob' = [blob EXCEPT ![u] = y] /\ reserved' = reserved + Size[c]
        /\ pc' = [pc EXCEPT ![u] = IF answered THEN "streaming" ELSE "over"]
        /\ pc[u] = "idle" /\ UNCHANGED <<now, quota, used, att>>
    BY DEF Begin
  <1>2. Shape /\ Begun /\ blob[u].state = "none" /\ Size[c] \in Nat
    BY <1>1, SizesAssumption DEF Inv, Begun
  <1>3. y \in BlobRows /\ y.state = "incomplete" /\ y.content = c /\ y.id = i
    BY <1>2 DEF BlobRows, Shape
  <1> HIDE DEF y
  <1>4. blob'[u] = y /\ \A v \in Uploads : v # u => blob'[v] = blob[v] /\ pc'[v] = pc[v]
    BY <1>1, <1>2 DEF Shape
  <1>5. Shape'
    BY <1>1, <1>2, <1>3 DEF Shape
  <1>6. Begun'
    BY <1>1, <1>2, <1>3, <1>4 DEF Begun, Shape
  <1>7. Running'
    BY <1>1, <1>3, <1>4 DEF Inv, Running, InTime
  <1>8. PointsToBlob'
    <2>1. ASSUME NEW a \in Ids, Present(a) PROVE blob'[att[a].blob].state = "complete"
      <3>1. att[a].blob \in Uploads /\ blob[att[a].blob].state = "complete"
        BY <2>1 DEF Inv, PointsToBlob, Shape, AttRows, Present
      <3> QED
        BY <3>1, <1>2, <1>4
    <2> QED
      BY <1>1, <2>1 DEF PointsToBlob, Present
  <1>9. InState("complete")' = InState("complete") /\ St(blob', "complete") = St(blob, "complete")
        /\ St(blob', "incomplete") = St(blob, "incomplete") \cup {u}
    BY <1>2, <1>3, <1>4 DEF InState, St
  <1>10. NoOrphans'
    <2>1. \A v \in InState("complete") : blob'[v] = blob[v]
      BY <1>2, <1>4 DEF InState
    <2> QED
      BY <1>1, <1>9, <2>1 DEF Inv, NoOrphans
  <1>11. AccountsExact'
    <2>1. /\ TotalIn(blob', St(blob, "incomplete")) = TotalIn(blob, St(blob, "incomplete"))
          /\ TotalIn(blob', St(blob, "complete")) = TotalIn(blob, St(blob, "complete"))
      BY <1>2, <1>4, TotalOfSame DEF St
    <2>2. St(blob, "incomplete") \cap {u} = {}
      BY <1>2 DEF St
    <2>3. TotalIn(blob', St(blob, "incomplete") \cup {u})
            = TotalIn(blob', St(blob, "incomplete")) + TotalIn(blob', {u})
      BY <2>2, TotalOfDisjoint
    <2>4. TotalIn(blob', {u}) = Size[c]
      BY <1>3, <1>4, TotalOfOne
    <2> QED
      BY <1>1, <1>9, <2>1, <2>3, <2>4, Accounts DEF Inv
  <1> QED
    BY <1>5, <1>6, <1>7, <1>8, <1>10, <1>11 DEF Inv

(* An upload gives up what it reserved. *)
LEMMA AbortKeeps ==
  ASSUME Inv, NEW u \in Uploads, Abort(u)
  PROVE  Inv'
  <1>1. /\ pc[u] = "aborting" /\ pc' = [pc EXCEPT ![u] = "over"]
        /\ UNCHANGED <<now, quota, used, att>>
    BY DEF Abort
  <1>2. Shape /\ Begun /\ blob[u].state # "none" /\ blob[u].content \in Contents
    BY <1>1 DEF Inv, Begun
  <1>3. \A v \in Uploads : v # u => pc'[v] = pc[v]
    BY <1>1, <1>2 DEF Shape
  <1>4. CASE blob[u].state = "incomplete"
    <2>1. blob' = Remove({u}) /\ reserved' = Less(reserved, SizeOf(u))
      BY <1>4 DEF Abort
    <2>2. \A v \in Uploads :
             /\ blob'[v].content = blob[v].content /\ blob'[v].id = blob[v].id /\ blob'[v].since = blob[v].since
             /\ blob'[v].state = IF v \in {u} THEN "removed" ELSE blob[v].state
      BY <1>2, <2>1, RemovedRows
    <2>3. u \in St(blob, "incomplete") /\ u \notin St(blob, "complete")
      BY <1>4 DEF St
    <2>4. /\ blob' \in [Uploads -> BlobRows]
          /\ St(blob', "complete") = St(blob, "complete") \ {u}
          /\ TotalIn(blob', St(blob', "complete")) = TotalIn(blob, St(blob, "complete") \ {u})
          /\ TotalIn(blob', St(blob', "incomplete")) = TotalIn(blob, St(blob, "incomplete") \ {u})
      BY <1>2, <2>1, RemoveLeaves
    <2>5. TotalIn(blob, {u}) = SizeOf(u)
      BY <1>2, TotalOfOne DEF SizeOf
    <2>6. {u} \subseteq St(blob, "incomplete")
      BY <2>3
    <2>7. /\ TotalIn(blob, St(blob, "incomplete") \ {u}) = TotalIn(blob, St(blob, "incomplete")) - SizeOf(u)
          /\ SizeOf(u) <= TotalIn(blob, St(blob, "incomplete"))
      <3>1. /\ TotalIn(blob, St(blob, "incomplete") \ {u}) = TotalIn(blob, St(blob, "incomplete")) - TotalIn(blob, {u})
            /\ TotalIn(blob, {u}) <= TotalIn(blob, St(blob, "incomplete"))
        BY <2>6, TotalOfRest
      <3> QED
        BY <2>5, <3>1
    <2>8. SizeOf(u) \in Nat /\ reserved \in Nat /\ reserved = TotalIn(blob, St(blob, "incomplete"))
      BY <1>2, SizesAssumption, Accounts DEF Inv, SizeOf, Shape
    <2>9. reserved' = reserved - SizeOf(u) /\ reserved' \in Nat
      BY <2>1, <2>7, <2>8, LessIsMinus
    <2>10. St(blob, "complete") \ {u} = St(blob, "complete")
      BY <2>3
    <2>11. AccountsExact'
      <3>1. reserved' = TotalIn(blob', St(blob', "incomplete"))
        BY <2>4, <2>7, <2>8, <2>9
      <3>2. used' = TotalIn(blob', St(blob', "complete"))
        BY <1>1, <2>4, <2>10, Accounts DEF Inv
      <3> QED
        BY <3>1, <3>2, Accounts
    <2>12. Shape'
      BY <1>1, <1>2, <2>4, <2>9 DEF Shape
    <2>13. Begun' /\ Running'
      BY <1>1, <1>2, <1>3, <2>2 DEF Inv, Begun, Running, InTime, Shape
    <2>14. PointsToBlob'
      <3>1. ASSUME NEW a \in Ids, Present(a) PROVE blob'[att[a].blob].state = "complete"
        <4>1. att[a].blob \in Uploads /\ blob[att[a].blob].state = "complete"
          BY <3>1 DEF Inv, PointsToBlob, Shape, AttRows, Present
        <4> QED
          BY <4>1, <1>4, <2>2
      <3> QED
        BY <1>1, <3>1 DEF PointsToBlob, Present
    <2>15. NoOrphans'
      <3>1. InState("complete")' = InState("complete")
        BY <1>4, <2>2 DEF InState
      <3>2. \A v \in InState("complete") : blob'[v].content = blob[v].content
        BY <2>2 DEF InState
      <3> QED
        BY <1>1, <3>1, <3>2 DEF Inv, NoOrphans
    <2> QED
      BY <2>11, <2>12, <2>13, <2>14, <2>15 DEF Inv
  <1>5. CASE blob[u].state # "incomplete"
    <2>1. UNCHANGED <<blob, reserved>>
      BY <1>5 DEF Abort
    <2>2. Shape' /\ Begun' /\ Running' /\ PointsToBlob' /\ NoOrphans'
      BY <1>1, <1>2, <1>3, <2>1
      DEF Inv, Shape, Begun, Running, InTime, PointsToBlob, Present, NoOrphans, InState
    <2>3. AccountsExact'
      BY <1>1, <2>1, Accounts DEF Inv
    <2> QED
      BY <2>2, <2>3 DEF Inv
  <1> QED
    BY <1>4, <1>5

(* Publishing takes the blob out of what is reserved.                      *)
LEMMA PublishKeeps ==
  ASSUME Inv, NEW u \in Uploads, NEW answered \in BOOLEAN, Publish(u, answered)
  PROVE  Inv'
  <1> DEFINE i == blob[u].id
  <1>1. /\ pc[u] = "publishing" /\ InTime(u) /\ ~ Present(i)
        /\ reserved' = Less(reserved, SizeOf(u))
        /\ pc' = [pc EXCEPT ![u] = IF answered THEN "over" ELSE "aborting"]
        /\ UNCHANGED <<now, quota>>
    BY DEF Publish
  <1>2. Shape /\ Begun /\ blob[u].state = "incomplete" /\ blob[u].content \in Contents /\ i \in Ids
    BY <1>1 DEF Inv, Begun, Running
  <1> HIDE DEF i
  <1>3. \A v \in Uploads : v # u => pc'[v] = pc[v]
    BY <1>1, <1>2 DEF Shape
  <1>4. /\ TotalIn(blob, St(blob, "incomplete") \ {u}) = TotalIn(blob, St(blob, "incomplete")) - SizeOf(u)
        /\ SizeOf(u) <= TotalIn(blob, St(blob, "incomplete"))
        /\ SizeOf(u) \in Nat
    <2>1. TotalIn(blob, {u}) = SizeOf(u)
      BY <1>2, TotalOfOne DEF SizeOf
    <2>2. {u} \subseteq St(blob, "incomplete")
      BY <1>2 DEF St
    <2>3. SizeOf(u) \in Nat
      BY <1>2, SizesAssumption DEF SizeOf
    <2> QED
      BY <2>1, <2>2, <2>3, TotalOfRest
  <1>5. reserved' = TotalIn(blob, St(blob, "incomplete") \ {u}) /\ reserved' \in Nat
    <2>1. reserved \in Nat /\ reserved = TotalIn(blob, St(blob, "incomplete"))
      BY <1>2, Accounts DEF Inv, Shape
    <2> QED
      BY <1>1, <1>4, <2>1, LessIsMinus
  <1>6. ASSUME NEW v \in Duplicates(u), blob' = Remove({u}), used' = used,
               att' = [att EXCEPT ![i] = [blob |-> v, since |-> now]]
        PROVE  Inv'
    <2>1. v \in Uploads /\ blob[v].state = "complete" /\ v # u
      BY <1>2 DEF Duplicates, InState
    <2>2. \A w \in Uploads :
             /\ blob'[w].content = blob[w].content /\ blob'[w].id = blob[w].id /\ blob'[w].since = blob[w].since
             /\ blob'[w].state = IF w \in {u} THEN "removed" ELSE blob[w].state
      BY <1>2, <1>6, RemovedRows
    <2>3. /\ blob' \in [Uploads -> BlobRows]
          /\ TotalIn(blob', St(blob', "complete")) = TotalIn(blob, St(blob, "complete") \ {u})
          /\ TotalIn(blob', St(blob', "incomplete")) = TotalIn(blob, St(blob, "incomplete") \ {u})
      BY <1>2, <1>6, RemoveLeaves
    <2>4. St(blob, "complete") \ {u} = St(blob, "complete")
      BY <1>2 DEF St
    <2>5. AccountsExact'
      BY <1>5, <1>6, <2>3, <2>4, Accounts DEF Inv
    <2>6. att' \in [Ids -> AttRows] /\ \A a \in Ids : att'[a].blob = IF a = i THEN v ELSE att[a].blob
      BY <1>2, <1>6, <2>1 DEF Shape, AttRows
    <2>7. Shape'
      BY <1>1, <1>2, <1>5, <1>6, <2>3, <2>6 DEF Shape
    <2>8. Begun' /\ Running'
      BY <1>1, <1>2, <1>3, <2>2 DEF Inv, Begun, Running, InTime, Shape
    <2>9. PointsToBlob'
      <3>1. ASSUME NEW a \in Ids, att'[a].blob # None PROVE blob'[att'[a].blob].state = "complete"
        <4>1. CASE a = i
          BY <4>1, <2>1, <2>2, <2>6
        <4>2. CASE a # i
          <5>1. att[a].blob \in Uploads /\ blob[att[a].blob].state = "complete" /\ att'[a].blob = att[a].blob
            BY <3>1, <4>2, <2>6 DEF Inv, PointsToBlob, Shape, AttRows, Present
          <5> QED
            BY <5>1, <1>2, <2>2
        <4> QED
          BY <4>1, <4>2
      <3> QED
        BY <3>1 DEF PointsToBlob, Present
    <2>10. NoOrphans'
      <3>1. InState("complete")' = InState("complete")
        BY <1>2, <2>2 DEF InState
      <3>2. ASSUME NEW w \in InState("complete") PROVE \E a \in Ids : att'[a].blob = w
        <4>1. PICK a \in Ids : att[a].blob = w
          BY <3>2 DEF Inv, NoOrphans
        <4>2. a # i
          BY <1>1, <3>2, <4>1, SizesAssumption DEF Present, InState
        <4> QED
          BY <2>6, <4>1, <4>2
      <3>3. \A w \in InState("complete") : blob'[w].content = blob[w].content
        BY <2>2 DEF InState
      <3> QED
        BY <3>1, <3>2, <3>3 DEF Inv, NoOrphans
    <2> QED
      BY <2>5, <2>7, <2>8, <2>9, <2>10 DEF Inv
  <1>7. ASSUME Duplicates(u) = {}, blob' = [blob EXCEPT ![u].state = "complete"], used' = used + SizeOf(u),
               att' = [att EXCEPT ![i] = [blob |-> u, since |-> now]]
        PROVE  Inv'
    <2>1. \A w \in Uploads :
             /\ blob'[w] \in BlobRows
             /\ blob'[w].content = blob[w].content /\ blob'[w].id = blob[w].id /\ blob'[w].since = blob[w].since
             /\ blob'[w].state = IF w = u THEN "complete" ELSE blob[w].state
      BY <1>2, <1>7 DEF Shape, BlobRows
    <2>2. blob' \in [Uploads -> BlobRows]
      BY <1>2, <1>7, <2>1 DEF Shape
    <2>3. St(blob', "complete") = St(blob, "complete") \cup {u} /\ St(blob', "incomplete") = St(blob, "incomplete") \ {u}
      BY <1>2, <2>1 DEF St
    <2>4. St(blob, "complete") \cap {u} = {}
      BY <1>2 DEF St
    <2>5. /\ TotalIn(blob', St(blob', "complete")) = TotalIn(blob, St(blob, "complete") \cup {u})
          /\ TotalIn(blob', St(blob', "incomplete")) = TotalIn(blob, St(blob, "incomplete") \ {u})
      <3>1. /\ \A w \in St(blob, "complete") \cup {u} : blob'[w].content = blob[w].content
            /\ \A w \in St(blob, "incomplete") \ {u} : blob'[w].content = blob[w].content
        BY <2>1 DEF St
      <3>2. /\ TotalIn(blob', St(blob, "complete") \cup {u}) = TotalIn(blob, St(blob, "complete") \cup {u})
            /\ TotalIn(blob', St(blob, "incomplete") \ {u}) = TotalIn(blob, St(blob, "incomplete") \ {u})
        BY <3>1, TotalOfSame
      <3> QED
        BY <2>3, <3>2
    <2>6. TotalIn(blob, St(blob, "complete") \cup {u}) = TotalIn(blob, St(blob, "complete")) + SizeOf(u)
      <3>1. TotalIn(blob, {u}) = SizeOf(u)
        BY <1>2, TotalOfOne DEF SizeOf
      <3>2. TotalIn(blob, St(blob, "complete") \cup {u}) = TotalIn(blob, St(blob, "complete")) + TotalIn(blob, {u})
        BY <2>4, TotalOfDisjoint
      <3> QED
        BY <3>1, <3>2
    <2>7. AccountsExact'
      BY <1>5, <1>7, <2>5, <2>6, Accounts DEF Inv
    <2>8. att' \in [Ids -> AttRows] /\ \A a \in Ids : att'[a].blob = IF a = i THEN u ELSE att[a].blob
      BY <1>2, <1>7 DEF Shape, AttRows
    <2>9. Shape'
      BY <1>1, <1>2, <1>4, <1>5, <1>7, <2>2, <2>8 DEF Shape
    <2>10. Begun' /\ Running'
      BY <1>1, <1>2, <1>3, <2>1 DEF Inv, Begun, Running, InTime, Shape
    <2>11. PointsToBlob'
      <3>1. ASSUME NEW a \in Ids, att'[a].blob # None PROVE blob'[att'[a].blob].state = "complete"
        <4>1. CASE a = i
          BY <4>1, <2>1, <2>8
        <4>2. CASE a # i
          <5>1. att[a].blob \in Uploads /\ blob[att[a].blob].state = "complete" /\ att'[a].blob = att[a].blob
            BY <3>1, <4>2, <2>8 DEF Inv, PointsToBlob, Shape, AttRows, Present
          <5> QED
            BY <5>1, <2>1
        <4> QED
          BY <4>1, <4>2
      <3> QED
        BY <3>1 DEF PointsToBlob, Present
    <2>12. NoOrphans'
      <3>1. InState("complete")' = InState("complete") \cup {u}
        BY <2>1 DEF InState
      <3>2. ASSUME NEW w \in InState("complete")' PROVE \E a \in Ids : att'[a].blob = w
        <4>1. CASE w = u
          BY <1>2, <2>8, <4>1
        <4>2. CASE w # u
          <5>1. w \in InState("complete")
            BY <3>1, <3>2, <4>2
          <5>2. PICK a \in Ids : att[a].blob = w
            BY <5>1 DEF Inv, NoOrphans
          <5>3. a # i
            BY <1>1, <5>1, <5>2, SizesAssumption DEF Present, InState
          <5> QED
            BY <2>8, <5>2, <5>3
        <4> QED
          BY <4>1, <4>2
      <3>3. \A w \in InState("complete") : blob[w].content # blob[u].content
        BY <1>7 DEF Duplicates
      <3>4. \A w \in Uploads : blob'[w].content = blob[w].content
        BY <2>1
      <3>5. InState("complete") \subseteq Uploads
        BY DEF InState
      <3> QED
        BY <3>1, <3>2, <3>3, <3>4, <3>5 DEF Inv, NoOrphans
    <2> QED
      BY <2>7, <2>9, <2>10, <2>11, <2>12 DEF Inv
  <1> QED
    BY <1>6, <1>7 DEF Publish, i

-----------------------------------------------------------------------------
(* Attachments S go, with the blobs nobody shares, and the blobs R of      *)
(* uploads that are past their deadline.                                   *)
LEMMA DiscardKeeps ==
  ASSUME Inv, NEW S \in SUBSET Ids, NEW R \in SUBSET Uploads,
         \A i \in S : Present(i),
         \A u \in R : blob[u].state = "incomplete" /\ ~ InTime(u),
         Discard(S, R)
  PROVE  Inv'
  <1> DEFINE G == Unshared(S)
  <1>1. /\ att' = [i \in Ids |-> IF i \in S THEN NoAtt ELSE att[i]]
        /\ blob' = Remove(G \cup R)
        /\ used' = Less(used, Total(G)) /\ reserved' = Less(reserved, Total(R))
        /\ UNCHANGED <<now, quota, pc>>
    BY DEF Discard
  <1>2. Shape /\ Begun
    BY DEF Inv
  <1>3. G \subseteq St(blob, "complete") /\ G \subseteq Uploads
    <2>1. ASSUME NEW i \in S PROVE att[i].blob \in Uploads /\ blob[att[i].blob].state = "complete"
      BY <2>1 DEF Inv, PointsToBlob, Shape, AttRows, Present
    <2> QED
      BY <2>1 DEF Unshared, St
  <1>4. R \subseteq St(blob, "incomplete")
    BY DEF St
  <1>5. \A i \in Ids \ S : att[i].blob \notin G
    BY DEF Unshared
  <1>6. \A u \in Uploads : u \in St(blob, "complete") \ G =>
           (\A i \in S : att[i].blob = u => \E j \in Ids \ S : att[j].blob = u)
    BY DEF Unshared
  <1> HIDE DEF G
  <1>7. \A w \in Uploads :
           /\ blob'[w].content = blob[w].content /\ blob'[w].id = blob[w].id /\ blob'[w].since = blob[w].since
           /\ blob'[w].state = IF w \in G \cup R THEN "removed" ELSE blob[w].state
    BY <1>1, <1>2, <1>3, RemovedRows
  <1>8. /\ blob' \in [Uploads -> BlobRows]
        /\ TotalIn(blob', St(blob', "complete")) = TotalIn(blob, St(blob, "complete") \ (G \cup R))
        /\ TotalIn(blob', St(blob', "incomplete")) = TotalIn(blob, St(blob, "incomplete") \ (G \cup R))
    <2>1. G \cup R \in SUBSET Uploads
      BY <1>3
    <2> QED
      BY <1>1, <1>2, <2>1, RemoveLeaves
  <1>9. St(blob, "complete") \ (G \cup R) = St(blob, "complete") \ G
        /\ St(blob, "incomplete") \ (G \cup R) = St(blob, "incomplete") \ R
    BY <1>3, <1>4 DEF St
  <1>10. used' = TotalIn(blob, St(blob, "complete") \ G) /\ used' \in Nat
    <2>1. /\ TotalIn(blob, St(blob, "complete") \ G) = TotalIn(blob, St(blob, "complete")) - TotalIn(blob, G)
          /\ TotalIn(blob, G) <= TotalIn(blob, St(blob, "complete"))
      BY <1>3, TotalOfRest
    <2>2. TotalIn(blob, G) \in Nat /\ TotalIn(blob, St(blob, "complete")) \in Nat
      BY BytesFinite
    <2>3. used = TotalIn(blob, St(blob, "complete")) /\ used' = Less(used, TotalIn(blob, G))
      BY <1>1, TotalsAgree, Accounts DEF Inv
    <2> QED
      BY <2>1, <2>2, <2>3, LessIsMinus
  <1>11. reserved' = TotalIn(blob, St(blob, "incomplete") \ R) /\ reserved' \in Nat
    <2>1. /\ TotalIn(blob, St(blob, "incomplete") \ R) = TotalIn(blob, St(blob, "incomplete")) - TotalIn(blob, R)
          /\ TotalIn(blob, R) <= TotalIn(blob, St(blob, "incomplete"))
      BY <1>4, TotalOfRest
    <2>2. TotalIn(blob, R) \in Nat /\ TotalIn(blob, St(blob, "incomplete")) \in Nat
      BY BytesFinite
    <2>3. reserved = TotalIn(blob, St(blob, "incomplete")) /\ reserved' = Less(reserved, TotalIn(blob, R))
      BY <1>1, TotalsAgree, Accounts DEF Inv
    <2> QED
      BY <2>1, <2>2, <2>3, LessIsMinus
  <1>12. AccountsExact'
    BY <1>8, <1>9, <1>10, <1>11, Accounts
  <1>13. att' \in [Ids -> AttRows] /\ \A a \in Ids : att'[a] = IF a \in S THEN NoAtt ELSE att[a]
    BY <1>1, <1>2 DEF Shape, AttRows, NoAtt
  <1>14. Shape'
    BY <1>1, <1>2, <1>8, <1>10, <1>11, <1>13 DEF Shape
  <1>15. Begun'
    <2>1. \A w \in Uploads : w \in G \cup R => blob[w].state # "none"
      BY <1>3, <1>4 DEF St
    <2> QED
      BY <1>1, <1>2, <1>7, <2>1 DEF Begun
  <1>16. Running'
    <2>1. ASSUME NEW w \in Uploads, pc[w] \in {"streaming", "publishing"}, now <= blob'[w].since + Deadline
          PROVE  blob'[w].state = "incomplete"
      <3>1. InTime(w) /\ blob[w].state = "incomplete"
        BY <1>7, <2>1 DEF Inv, Running, InTime
      <3>2. w \notin G \cup R
        BY <1>3, <3>1 DEF St
      <3> QED
        BY <1>7, <3>1, <3>2
    <2> QED
      BY <1>1, <2>1 DEF Running, InTime
  <1>17. PointsToBlob'
    <2>1. ASSUME NEW a \in Ids, att'[a].blob # None PROVE blob'[att'[a].blob].state = "complete"
      <3>1. a \notin S /\ att'[a] = att[a]
        BY <1>13, <2>1 DEF NoAtt
      <3>2. att[a].blob \in Uploads /\ blob[att[a].blob].state = "complete"
        BY <2>1, <3>1 DEF Inv, PointsToBlob, Shape, AttRows, Present
      <3>3. att[a].blob \notin G \cup R
        BY <1>4, <1>5, <3>1, <3>2 DEF St
      <3> QED
        BY <1>7, <3>1, <3>2, <3>3
    <2> QED
      BY <2>1 DEF PointsToBlob, Present
  <1>18. NoOrphans'
    <2>1. InState("complete")' = InState("complete") \ G
      BY <1>4, <1>7 DEF InState, St
    <2>2. ASSUME NEW w \in InState("complete")' PROVE \E a \in Ids : att'[a].blob = w
      <3>1. w \in St(blob, "complete") \ G /\ w \in Uploads
        BY <2>1, <2>2 DEF InState, St
      <3>2. PICK a \in Ids : att[a].blob = w
        BY <2>1, <2>2 DEF Inv, NoOrphans
      <3>3. \E b \in Ids \ S : att[b].blob = w
        BY <1>6, <3>1, <3>2
      <3> QED
        BY <1>13, <3>3
    <2>3. \A w \in Uploads : blob'[w].content = blob[w].content
      BY <1>7
    <2>4. InState("complete") \subseteq Uploads
      BY DEF InState
    <2> QED
      BY <2>1, <2>2, <2>3, <2>4 DEF Inv, NoOrphans
  <1> QED
    BY <1>12, <1>14, <1>15, <1>16, <1>17, <1>18 DEF Inv

(* What parts name is there, so removing parts discards attachments.       *)
LEMMA RemovePartsKeeps ==
  ASSUME Inv, Used, NEW S \in SUBSET Parts, RemoveParts(S)
  PROVE  Inv'
  <1> DEFINE D == {file[p] : p \in S}
  <1>1. D \in SUBSET Ids /\ \A i \in D : Present(i)
    BY DEF RemoveParts, Used
  <1>2. Discard(D, {})
    BY DEF RemoveParts
  <1>3. {} \in SUBSET Uploads
    OBVIOUS
  <1> HIDE DEF D
  <1> QED
    BY <1>1, <1>2, <1>3, DiscardKeeps

(* The janitor takes no blob of an upload that is within its deadline.     *)
LEMMA JanitorKeeps ==
  ASSUME Inv, Janitor
  PROVE  Inv'
  <1>1. PICK ahead \in 0 .. Skew : ReleaseStale(now + ahead)
    BY DEF Janitor
  <1> DEFINE t == now + ahead
  <1>2. ASSUME NEW u \in StaleBlobs(t) PROVE blob[u].state = "incomplete" /\ ~ InTime(u)
    <2>1. u \in Uploads /\ blob[u].state = "incomplete" /\ blob[u].since < t - StaleAge
      BY DEF StaleBlobs, InState, OlderThan
    <2>2. blob[u].since \in Nat /\ now \in Nat
      BY <2>1 DEF Inv, Shape, BlobRows
    <2> QED
      BY <2>1, <2>2, TimesAssumption DEF InTime
  <1>3. StaleBlobs(t) \in SUBSET Uploads /\ Unlinked(t) \in SUBSET Ids /\ \A i \in Unlinked(t) : Present(i)
    BY DEF StaleBlobs, InState, Unlinked
  <1>4. Discard(Unlinked(t), StaleBlobs(t))
    BY <1>1 DEF ReleaseStale
  <1> HIDE DEF t
  <1> QED
    BY <1>2, <1>3, <1>4, DiscardKeeps

(* Steps that leave the blobs and the counters alone.                      *)
LEMMA QuietStepKeeps ==
  ASSUME Inv,
         \/ \E u \in Uploads : Stream(u) \/ Breaks(u) \/ GiveUp(u)
         \/ \E p \in Parts, i \in Ids : AddPart(p, i)
         \/ \E q \in Quotas : SetQuota(q)
         \/ Tick
         \/ UNCHANGED vars
  PROVE  Inv'
  <1>1. blob' = blob /\ used' = used /\ reserved' = reserved
    BY DEF Stream, Breaks, GiveUp, AddPart, SetQuota, Tick, vars
  <1>2. AccountsExact'
    BY <1>1, Accounts DEF Inv
  <1>3. Shape
    BY DEF Inv
  <1>4. ASSUME att' = att PROVE PointsToBlob' /\ NoOrphans'
    BY <1>1, <1>4 DEF Inv, PointsToBlob, Present, NoOrphans, InState
  <1>5. ASSUME NEW u \in Uploads, Stream(u) \/ Breaks(u) \/ GiveUp(u) PROVE Inv'
    <2>1. UNCHANGED <<now, quota, att>>
      BY <1>5 DEF Stream, Breaks, GiveUp
    <2>2. Shape'
      BY <1>1, <1>3, <1>5, <2>1 DEF Shape, Stream, Breaks, GiveUp
    <2>3. Begun' /\ Running'
      BY <1>1, <1>3, <1>5, <2>1 DEF Inv, Begun, Running, InTime, Shape, Stream, Breaks, GiveUp
    <2> QED
      BY <1>2, <1>4, <2>1, <2>2, <2>3 DEF Inv
  <1>6. ASSUME NEW p \in Parts, NEW i \in Ids, AddPart(p, i) PROVE Inv'
    <2>1. UNCHANGED <<now, quota, att, pc>>
      BY <1>6 DEF AddPart
    <2>2. Shape' /\ Begun' /\ Running'
      BY <1>1, <1>3, <2>1 DEF Inv, Shape, Begun, Running, InTime
    <2> QED
      BY <1>2, <1>4, <2>1, <2>2 DEF Inv
  <1>7. ASSUME NEW q \in Quotas, SetQuota(q) PROVE Inv'
    <2>1. UNCHANGED <<now, att, pc>> /\ quota' \in Nat
      BY <1>7, SizesAssumption DEF SetQuota
    <2>2. Shape' /\ Begun' /\ Running'
      BY <1>1, <1>3, <2>1 DEF Inv, Shape, Begun, Running, InTime
    <2> QED
      BY <1>2, <1>4, <2>1, <2>2 DEF Inv
  <1>8. CASE Tick
    <2>1. UNCHANGED <<quota, att, pc>> /\ now' = now + 1 /\ now \in Nat
      BY <1>3, <1>8 DEF Tick, Shape
    <2>2. Shape' /\ Begun'
      BY <1>1, <1>3, <2>1 DEF Inv, Shape, Begun
    <2>3. Running'
      <3>1. \A u \in Uploads : blob[u].since \in Nat
        BY <1>3 DEF Shape, BlobRows
      <3> QED
        BY <1>1, <2>1, <3>1, TimesAssumption DEF Inv, Running, InTime
    <2> QED
      BY <1>2, <1>4, <2>1, <2>2, <2>3 DEF Inv
  <1>9. CASE UNCHANGED vars
    <2>1. UNCHANGED <<now, quota, att, pc>>
      BY <1>9 DEF vars
    <2>2. Shape' /\ Begun' /\ Running'
      BY <1>1, <1>3, <2>1 DEF Inv, Shape, Begun, Running, InTime
    <2> QED
      BY <1>2, <1>4, <2>1, <2>2 DEF Inv
  <1> QED
    BY <1>5, <1>6, <1>7, <1>8, <1>9

LEMMA NextKeeps == Inv /\ Used /\ [Next]_vars => Inv'
  <1> SUFFICES ASSUME Inv, Used, [Next]_vars PROVE Inv'
    OBVIOUS
  <1>1. ASSUME NEW u \in Uploads, NEW answered \in BOOLEAN,
               (\E i \in Ids, c \in Contents : Begin(u, i, c, answered)) \/ Publish(u, answered)
        PROVE  Inv'
    BY <1>1, BeginKeeps, PublishKeeps
  <1>2. ASSUME NEW u \in Uploads, Abort(u) PROVE Inv'
    BY <1>2, AbortKeeps
  <1>3. ASSUME NEW S \in SUBSET Parts, RemoveParts(S) PROVE Inv'
    BY <1>3, RemovePartsKeeps
  <1> QED
    BY <1>1, <1>2, <1>3, JanitorKeeps, QuietStepKeeps DEF Next

-----------------------------------------------------------------------------
(* What a step does to files.  A content is lost only when its attachment  *)
(* is discarded.                                                           *)
LEMMA DiscardHolds ==
  ASSUME Inv, NEW S \in SUBSET Ids, NEW R \in SUBSET InState("incomplete"), Discard(S, R),
         NEW i \in Ids \ S, NEW c \in Contents, Holds(i, c)
  PROVE  Holds(i, c)' /\ att'[i] = att[i]
  <1>1. att'[i] = att[i] /\ blob' = Remove(Unshared(S) \cup R)
    BY DEF Discard
  <1> DEFINE v == att[i].blob
  <1>2. v \in Uploads /\ v # None /\ blob[v].state = "complete" /\ blob[v].content = c
    BY DEF Inv, Shape, AttRows, Holds, Present
  <1>3. v \notin Unshared(S) \cup R
    BY <1>2 DEF Unshared, InState
  <1>4. blob'[v] = blob[v]
    BY <1>1, <1>2, <1>3 DEF Remove
  <1> QED
    BY <1>1, <1>2, <1>4 DEF Holds, Present

(* Uploads discard nothing: they replace no attachment, and the blobs they *)
(* change are not complete.                                                *)
LEMMA UploadHolds ==
  ASSUME Inv, NEW u \in Uploads,
         \/ \E i \in Ids, c \in Contents, answered \in BOOLEAN : Begin(u, i, c, answered)
         \/ \E answered \in BOOLEAN : Publish(u, answered)
         \/ Stream(u) \/ Breaks(u) \/ Abort(u) \/ GiveUp(u)
  PROVE  /\ file' = file
         /\ \A i \in Ids : Present(i) => att'[i] = att[i]
         /\ \A i \in Ids, c \in Contents : Holds(i, c) => Holds(i, c)'
  <1>1. Shape /\ Begun /\ Running
    BY DEF Inv
  <1>2. file' = file
    BY DEF Begin, Publish, Stream, Breaks, Abort, GiveUp
  <1>3. \A i \in Ids : Present(i) => att'[i] = att[i]
    <2>1. CASE \E answered \in BOOLEAN : Publish(u, answered)
      <3>1. PICK v : ~ Present(blob[u].id) /\ att' = [att EXCEPT ![blob[u].id] = [blob |-> v, since |-> now]]
        BY <2>1 DEF Publish
      <3> QED
        BY <1>1, <3>1 DEF Shape
    <2>2. CASE att' = att
      BY <2>2
    <2> QED
      BY <2>1, <2>2 DEF Begin, Stream, Breaks, Abort, GiveUp
  <1>4. \A v \in Uploads : blob[v].state = "complete" => blob'[v] = blob[v]
    <2>1. CASE \E answered \in BOOLEAN : Publish(u, answered)
      <3>1. blob[u].state = "incomplete"
        BY <1>1, <2>1 DEF Publish, Running
      <3>2. blob' = Remove({u}) \/ blob' = [blob EXCEPT ![u].state = "complete"]
        BY <2>1 DEF Publish
      <3> QED
        BY <1>1, <3>1, <3>2 DEF Remove, Shape
    <2>2. CASE \E i \in Ids, c \in Contents, answered \in BOOLEAN : Begin(u, i, c, answered)
      BY <1>1, <2>2 DEF Begin, Begun, Shape
    <2>3. CASE Abort(u)
      BY <1>1, <2>3 DEF Abort, Remove, Shape
    <2>4. CASE blob' = blob
      BY <2>4
    <2> QED
      BY <2>1, <2>2, <2>3, <2>4 DEF Stream, Breaks, GiveUp
  <1>5. \A i \in Ids, c \in Contents : Holds(i, c) => Holds(i, c)'
    <2>1. ASSUME NEW i \in Ids, NEW c \in Contents, Holds(i, c) PROVE Holds(i, c)'
      <3>1. att'[i] = att[i] /\ att[i].blob \in Uploads /\ blob[att[i].blob].state = "complete"
        BY <1>1, <1>3, <2>1 DEF Holds, Present, Shape, AttRows
      <3> QED
        BY <1>4, <2>1, <3>1 DEF Holds, Present
    <2> QED
      BY <2>1
  <1> QED
    BY <1>2, <1>3, <1>5

(* Files go with their parts, and no other part names them.                *)
LEMMA RemovePartsUses ==
  ASSUME Inv, Used, NEW S \in SUBSET Parts, RemoveParts(S)
  PROVE  /\ Used'
         /\ \A i \in Ids, c \in Contents : Holds(i, c) /\ ~ Holds(i, c)' => InUse(i) /\ ~ InUse(i)'
  <1> DEFINE D == {file[p] : p \in S}
  <1>1. D \in SUBSET Ids /\ Discard(D, {}) /\ file' = [p \in Parts |-> IF p \in S THEN None ELSE file[p]]
    BY DEF RemoveParts, Used
  <1>2. {} \in SUBSET InState("incomplete") /\ None \notin Ids
    BY SizesAssumption
  <1>3. \A p \in Parts : file'[p] # None => p \notin S /\ file'[p] = file[p] /\ file[p] \in Ids \ D
    BY <1>1 DEF Used
  <1>4. \A i \in Ids : att'[i] = IF i \in D THEN NoAtt ELSE att[i]
    BY <1>1 DEF Discard
  <1>5. \A i \in D : InUse(i) /\ ~ InUse(i)'
    <2>1. ASSUME NEW p \in S PROVE InUse(file[p]) /\ ~ \E q \in Parts : file'[q] = file[p]
      <3>1. file[p] # None
        BY DEF RemoveParts
      <3>2. ASSUME NEW q \in Parts, file'[q] = file[p] PROVE FALSE
        BY <1>3, <3>1, <3>2 DEF D
      <3> QED
        BY <3>2 DEF InUse
    <2> QED
      BY <2>1 DEF InUse
  <1> HIDE DEF D
  <1>6. Used'
    <2>1. file' \in [Parts -> Ids \cup {None}]
      BY <1>1 DEF Used
    <2>2. ASSUME NEW p \in Parts, file'[p] # None PROVE att'[file'[p]].blob # None
      BY <1>3, <1>4, <2>2 DEF Used, Present
    <2>3. ASSUME NEW p \in Parts, NEW q \in Parts, file'[p] # None, file'[p] = file'[q] PROVE p = q
      BY <1>3, <2>3 DEF Used
    <2> QED
      BY <2>1, <2>2, <2>3 DEF Used, Present
  <1>7. ASSUME NEW i \in Ids, NEW c \in Contents, Holds(i, c), ~ Holds(i, c)' PROVE i \in D
    BY <1>1, <1>2, <1>7, DiscardHolds
  <1> QED
    BY <1>5, <1>6, <1>7

(* The janitor takes what no part names and is old.                        *)
LEMMA JanitorUses ==
  ASSUME Inv, Used, Janitor
  PROVE  /\ Used'
         /\ \A i \in Ids, c \in Contents : Holds(i, c) /\ ~ Holds(i, c)' =>
               ~ InUse(i)' /\ now + Skew > att[i].since + StaleAge
  <1>1. PICK ahead \in 0 .. Skew : ReleaseStale(now + ahead)
    BY DEF Janitor
  <1> DEFINE t == now + ahead
             D == Unlinked(t)
             R == StaleBlobs(t)
  <1>2. /\ D \in SUBSET Ids /\ R \in SUBSET InState("incomplete")
        /\ Discard(D, R) /\ file' = file
    BY <1>1 DEF ReleaseStale, Unlinked, StaleBlobs
  <1>3. \A i \in D : ~ InUse(i) /\ OlderThan(att[i].since, now + ahead)
    BY DEF Unlinked
  <1>4. \A i \in Ids : att'[i] = IF i \in D THEN NoAtt ELSE att[i]
    BY <1>2 DEF Discard
  <1>5. \A i \in D : now + Skew > att[i].since + StaleAge
    <2>1. ASSUME NEW i \in D PROVE now + Skew > att[i].since + StaleAge
      <3>1. att[i].since \in Nat /\ now \in Nat
        BY <1>2 DEF Inv, Shape, AttRows
      <3>2. OlderThan(att[i].since, now + ahead)
        BY <1>3
      <3>3. att[i].since < now + ahead - StaleAge
        BY <3>1, <3>2, TimesAssumption DEF OlderThan
      <3> QED
        BY <3>1, <3>3, TimesAssumption
    <2> QED
      BY <2>1
  <1> HIDE DEF D, R
  <1>6. Used'
    <2>1. ASSUME NEW p \in Parts, file'[p] # None PROVE att'[file'[p]].blob # None
      BY <1>2, <1>3, <1>4, <2>1 DEF Used, Present, InUse
    <2> QED
      BY <1>2, <2>1 DEF Used, Present
  <1>7. ASSUME NEW i \in Ids, NEW c \in Contents, Holds(i, c), ~ Holds(i, c)' PROVE i \in D
    BY <1>2, <1>7, DiscardHolds
  <1>8. \A i \in D : ~ InUse(i)'
    BY <1>2, <1>3 DEF InUse
  <1> QED
    BY <1>5, <1>6, <1>7, <1>8

(* What a step must do about the files it takes away.                      *)
Kept ==
  \A i \in Ids, c \in Contents : Holds(i, c) /\ ~ Holds(i, c)' =>
    /\ ~ InUse(i)'
    /\ InUse(i) \/ now + Skew > att[i].since + StaleAge

LEMMA StepUses ==
  ASSUME Inv, Used, [Next]_vars
  PROVE  Used' /\ Kept
  <1>1. ASSUME NEW u \in Uploads,
               \/ \E i \in Ids, c \in Contents, answered \in BOOLEAN : Begin(u, i, c, answered)
               \/ \E answered \in BOOLEAN : Publish(u, answered)
               \/ Stream(u) \/ Breaks(u) \/ Abort(u) \/ GiveUp(u)
        PROVE  Used' /\ Kept
    <2>1. /\ file' = file
          /\ \A i \in Ids : Present(i) => att'[i] = att[i]
          /\ \A i \in Ids, c \in Contents : Holds(i, c) => Holds(i, c)'
      BY <1>1, UploadHolds
    <2>2. Kept
      BY <2>1 DEF Kept
    <2>3. ASSUME NEW p \in Parts, file[p] # None PROVE att'[file[p]].blob # None
      BY <2>1, <2>3 DEF Used, Present
    <2>4. Used'
      BY <2>1, <2>3 DEF Used, Present
    <2> QED
      BY <2>2, <2>4
  <1>2. ASSUME UNCHANGED <<blob, att>> PROVE Kept
    BY <1>2 DEF Kept, Holds, Present
  <1>3. ASSUME NEW p \in Parts, NEW i \in Ids, AddPart(p, i) PROVE Used' /\ Kept
    <2>1. /\ file' = [file EXCEPT ![p] = i] /\ Present(i) /\ UNCHANGED <<blob, att>>
          /\ \A q \in Parts : file[q] # i
      BY <1>3 DEF AddPart, InUse
    <2>2. Used'
      BY <2>1 DEF Used, Present
    <2> QED
      BY <1>2, <2>1, <2>2
  <1>4. ASSUME NEW S \in SUBSET Parts, RemoveParts(S) PROVE Used' /\ Kept
    BY <1>4, RemovePartsUses DEF Kept
  <1>5. CASE Janitor
    BY <1>5, JanitorUses DEF Kept
  <1>6. ASSUME UNCHANGED <<blob, att, file>> PROVE Used' /\ Kept
    <2>1. Used'
      BY <1>6 DEF Used, Present
    <2> QED
      BY <1>2, <1>6, <2>1
  <1>7. ASSUME NEW q \in Quotas, SetQuota(q) PROVE Used' /\ Kept
    BY <1>6, <1>7 DEF SetQuota
  <1>8. CASE Tick \/ UNCHANGED vars
    BY <1>6, <1>8 DEF Tick, vars
  <1> QED
    BY <1>1, <1>3, <1>4, <1>5, <1>7, <1>8 DEF Next

LEMMA InitUsed == Init => Used
  BY DEF Init, Used

THEOREM AlwaysInv == Spec => [](Inv /\ Used)
  <1>1. Inv /\ Used /\ [Next]_vars => Inv' /\ Used'
    BY NextKeeps, StepUses
  <1> QED
    BY <1>1, InitInv, InitUsed, PTL DEF Spec

-----------------------------------------------------------------------------
(* Rows have the shape of their tables and an attachment always points to  *)
(* a complete blob, though blobs are shared, aborted and cleaned up.       *)
THEOREM TypeCorrect == Spec => []TypeOK
  <1> QED
    BY AlwaysInv, InvType, PTL

(* The counters of user_storage are the bytes of the blobs there are.      *)
THEOREM AccountsStayExact == Spec => []AccountsExact
  <1>1. Inv => AccountsExact
    BY DEF Inv
  <1> QED
    BY <1>1, AlwaysInv, PTL

(* Content is stored once, and never without an attachment.                *)
THEOREM NothingIsOrphaned == Spec => []NoOrphans
  <1>1. Inv => NoOrphans
    BY DEF Inv
  <1> QED
    BY <1>1, AlwaysInv, PTL

(* Only a step that begins an upload takes up more space, and it has read  *)
(* the quota under the user's lock: what publishing adds to used it takes  *)
(* from reserved, because the upload is still among the incomplete ones.   *)
LEMMA PublishMovesBytes ==
  ASSUME Inv, NEW u \in Uploads, NEW answered \in BOOLEAN, Publish(u, answered)
  PROVE  used' + reserved' <= used + reserved
  <1>1. /\ pc[u] = "publishing" /\ InTime(u)
        /\ reserved' = Less(reserved, SizeOf(u))
        /\ used' = used \/ used' = used + SizeOf(u)
    BY DEF Publish
  <1>2. Shape /\ blob[u].state = "incomplete" /\ blob[u].content \in Contents
    BY <1>1 DEF Inv, Begun, Running
  <1>3. SizeOf(u) \in Nat /\ TotalIn(blob, {u}) = SizeOf(u)
    <2>1. TotalIn(blob, {u}) = SizeOf(u)
      BY <1>2, TotalOfOne DEF SizeOf
    <2>2. SizeOf(u) \in Nat
      BY <1>2, SizesAssumption DEF SizeOf
    <2> QED
      BY <2>1, <2>2
  <1>4. {u} \subseteq St(blob, "incomplete") /\ reserved = TotalIn(blob, St(blob, "incomplete"))
    BY <1>2, Accounts DEF Inv, St
  <1>5. SizeOf(u) <= reserved
    <2>1. TotalIn(blob, {u}) <= TotalIn(blob, St(blob, "incomplete"))
      BY <1>4, TotalOfRest
    <2> QED
      BY <1>3, <1>4, <2>1
  <1>6. used \in Nat /\ reserved \in Nat
    BY <1>2 DEF Shape
  <1>7. reserved' = reserved - SizeOf(u)
    BY <1>1, <1>3, <1>5, <1>6, LessIsMinus
  <1> QED
    BY <1>1, <1>3, <1>6, <1>7

LEMMA SmallerSum ==
  ASSUME NEW a \in Nat, NEW b \in Nat, NEW c \in Nat, NEW d \in Nat, c <= a, d <= b
  PROVE  c + d <= a + b
  OBVIOUS

LEMMA NotMore ==
  ASSUME NEW a \in Nat, NEW b \in Nat, NEW c \in Nat, NEW d \in Nat, c + d <= a + b
  PROVE  ~ (c + d > a + b)
  OBVIOUS

LEMMA LessIsLess ==
  ASSUME NEW n \in Nat, NEW m \in Nat
  PROVE  Less(n, m) \in Nat /\ Less(n, m) <= n
  BY DEF Less

LEMMA DiscardFrees ==
  ASSUME Inv, NEW S, NEW R, Discard(S, R)
  PROVE  used' + reserved' <= used + reserved
  <1>1. used' = Less(used, Total(Unshared(S))) /\ reserved' = Less(reserved, Total(R))
    BY DEF Discard
  <1>2. Total(Unshared(S)) \in Nat /\ Total(R) \in Nat
    BY BytesFinite, TotalsAgree
  <1>3. used \in Nat /\ reserved \in Nat
    BY DEF Inv, Shape
  <1>4. used' \in Nat /\ used' <= used /\ reserved' \in Nat /\ reserved' <= reserved
    BY <1>1, <1>2, <1>3, LessIsLess
  <1> QED
    BY <1>3, <1>4, SmallerSum

LEMMA AbortFrees ==
  ASSUME Inv, NEW u \in Uploads, Abort(u)
  PROVE  used' + reserved' <= used + reserved
  <1>1. used' = used /\ used \in Nat /\ reserved \in Nat
    BY DEF Abort, Inv, Shape
  <1>2. reserved' = reserved \/ (blob[u].state = "incomplete" /\ reserved' = Less(reserved, SizeOf(u)))
    BY DEF Abort
  <1>3. CASE reserved' = reserved
    BY <1>1, <1>3
  <1>4. CASE blob[u].state = "incomplete" /\ reserved' = Less(reserved, SizeOf(u))
    <2>1. SizeOf(u) \in Nat
      BY <1>4, SizesAssumption DEF Inv, Begun, SizeOf
    <2>2. reserved' \in Nat /\ reserved' <= reserved
      BY <1>1, <1>4, <2>1, LessIsLess
    <2>3. used' \in Nat /\ used' <= used
      BY <1>1
    <2> QED
      BY <1>1, <2>2, <2>3, SmallerSum
  <1> QED
    BY <1>2, <1>3, <1>4

(* However many uploads run at once, what a user stores and has reserved   *)
(* grows only within the quota (ReserveQuota, CommitReservation).          *)
THEOREM StorageGrowsWithinQuota == Spec => GrowsWithinQuota
  <1> DEFINE Grows == used' + reserved' > used + reserved => used' + reserved' <= quota
  <1>1. ASSUME Inv, Used, Next PROVE Grows
    <2>1. used \in Nat /\ reserved \in Nat /\ quota \in Nat
      BY <1>1 DEF Inv, Shape
    <2>2. ASSUME NEW u \in Uploads, NEW i \in Ids, NEW c \in Contents, NEW answered \in BOOLEAN,
                 Begin(u, i, c, answered)
          PROVE  Grows
      <3>1. Size[c] \in Nat
        BY SizesAssumption
      <3>2. used + reserved + Size[c] <= quota /\ used' = used /\ reserved' = reserved + Size[c]
        BY <2>2 DEF Begin, WithinQuota
      <3>3. used' + reserved' = used + reserved + Size[c]
        BY <2>1, <3>1, <3>2
      <3>4. used' + reserved' <= quota
        BY <2>1, <3>1, <3>2, <3>3
      <3> QED
        BY <3>4
    <2>3. used' \in Nat /\ reserved' \in Nat
      BY <1>1, NextKeeps DEF Inv, Shape
    <2>4. ASSUME used' + reserved' <= used + reserved PROVE Grows
      <3>1. ~ (used' + reserved' > used + reserved)
        BY <2>1, <2>3, <2>4, NotMore
      <3> QED
        BY <3>1
    <2> HIDE DEF Grows
    <2>5. ASSUME NEW u \in Uploads, NEW answered \in BOOLEAN, Publish(u, answered) PROVE Grows
      BY <1>1, <2>4, <2>5, PublishMovesBytes
    <2>6. ASSUME NEW u \in Uploads, Abort(u) PROVE Grows
      BY <1>1, <2>4, <2>6, AbortFrees
    <2>7. ASSUME UNCHANGED <<used, reserved>> PROVE Grows
      BY <2>1, <2>7 DEF Grows
    <2>8. ASSUME NEW S, NEW R, Discard(S, R) PROVE Grows
      BY <1>1, <2>4, <2>8, DiscardFrees
    <2>9. ASSUME NEW u \in Uploads, Stream(u) \/ Breaks(u) \/ GiveUp(u) PROVE Grows
      BY <2>7, <2>9 DEF Stream, Breaks, GiveUp
    <2>10. ASSUME NEW p \in Parts, NEW i \in Ids, AddPart(p, i) PROVE Grows
      BY <2>7, <2>10 DEF AddPart
    <2>11. ASSUME NEW q \in Quotas, SetQuota(q) PROVE Grows
      BY <2>7, <2>11 DEF SetQuota
    <2>12. CASE Tick
      BY <2>7, <2>12 DEF Tick
    <2>13. ASSUME NEW S \in SUBSET Parts, RemoveParts(S) PROVE Grows
      BY <2>8, <2>13 DEF RemoveParts
    <2>14. CASE Janitor
      BY <2>8, <2>14 DEF Janitor, ReleaseStale
    <2> QED
      BY <1>1, <2>2, <2>5, <2>6, <2>9, <2>10, <2>11, <2>12, <2>13, <2>14 DEF Next
  <1>2. Inv /\ Used /\ [Next]_vars => [Grows]_vars
    BY <1>1
  <1>3. GrowsWithinQuota <=> [][Grows]_vars
    BY DEF GrowsWithinQuota
  <1> HIDE DEF Grows
  <1> QED
    BY <1>2, <1>3, AlwaysInv, PTL DEF Spec

(* No step takes a file, or what is in it, from a note that goes on using  *)
(* it: a file goes with the part that used it, or when no part has used it *)
(* for StaleAge; what happens to files of the same content does not matter *)
(* (Delete, BlobIsShared, UnlinkedAttachments).                            *)
THEOREM FilesAreKept == Spec => KeptWhileNeeded
  <1>1. Inv /\ Used /\ [Next]_vars => [Kept]_vars
    BY StepUses
  <1>2. KeptWhileNeeded <=> [][Kept]_vars
    BY DEF KeptWhileNeeded, Kept
  <1> QED
    BY <1>1, <1>2, AlwaysInv, PTL DEF Spec
=============================================================================
