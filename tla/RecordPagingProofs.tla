---------------------------- MODULE RecordPagingProofs ----------------------------
(***************************************************************************)
(* Proofs about RecordPaging, for any rows, queries, page sizes and        *)
(* bounds: the pages of a scan belong together, go no deeper than allowed  *)
(* and tile the result; relations lead back to where they came from; what  *)
(* the policy hides shows in no answer; and aggregates can be followed to  *)
(* their rows.                                                             *)
(*                                                                         *)
(* That they tile it rests on the order being total: the primary key is    *)
(* part of every order and unique in the table, so that ORDER BY leaves    *)
(* one arrangement of the rows and each page is cut from the same one.     *)
(* That nothing hidden shows rests on a bijection: rows that differ only   *)
(* in hidden fields meet the same filters, join the same rows and come in  *)
(* the same order, so that each arrangement of a table is, row by row, one *)
(* of any table that looks like it.                                        *)
(* That aggregates can be followed rests on their order being total too: as *)
(* many groups as there are come before the last, and one more each time,  *)
(* so that each group has a place in the answer and none has two.          *)
(***************************************************************************)
EXTENDS RecordPaging, FiniteSetTheorems, SequenceTheorems, WellFoundedInduction, TLAPS

-----------------------------------------------------------------------------
(* One arrangement.                                                         *)

\* A set of indices that is not empty has a least.
LEMMA LeastIndex ==
    ASSUME NEW T \in SUBSET Nat, T # {}
    PROVE  \E i \in T : \A j \in T : i <= j
<1> DEFINE R == {ss \in Nat \X Nat : ss[1] < ss[2]}
<1>1. IsWellFoundedOn(R, Nat)
  BY NatLessThanWellFounded, Zenon DEF OpToRel
<1>2. PICK i \in T : \A j \in T : ~(<<j, i>> \in R)
  <2> HIDE DEF R
  <2> QED BY <1>1, WFMin
<1>3. \A j \in T : ~(j < i)
  BY <1>2
<1> QED BY <1>3

\* An arrangement is a sequence of the rows that has each of them once.
LEMMA ArrangementIsOfRows ==
    ASSUME NEW rows, IsFiniteSet(rows), NEW order, NEW s \in Arrangements(rows, order)
    PROVE  /\ s \in Seq(rows)
           /\ \A i, j \in 1..Len(s) : s[i] = s[j] => i = j
           /\ \A r \in rows : \E i \in 1..Len(s) : s[i] = r
           /\ \A i, j \in 1..Len(s) : i < j => ~Precedes(order, s[j], s[i])
           /\ Len(s) = Cardinality(rows)
<1> DEFINE n == Cardinality(rows)
<1>1. n \in Nat
  BY FS_CardinalityType
<1>2. /\ s \in [1..n -> rows]
      /\ \A i, j \in 1..n : i # j => s[i] # s[j]
      /\ \A i, j \in DOMAIN s : i < j => ~Precedes(order, s[j], s[i])
  BY DEF Arrangements, SetToSeqs
<1> HIDE DEF n
<1>3. s \in Seq(rows) /\ Len(s) = n /\ DOMAIN s = 1..n
  BY <1>1, <1>2
<1>4. IsFiniteSet(1..n) /\ Cardinality(1..n) = n
  BY <1>1, FS_Interval
<1>5. s \in Surjection(1..n, rows)
  <2>1. s \in Injection(1..n, rows)
    BY <1>2, <1>3 DEF Injection, IsInjective
  <2> QED BY <2>1, <1>4, FS_Injection DEF n
<1>6. \A r \in rows : \E i \in 1..n : s[i] = r
  BY <1>5 DEF Surjection
<1> QED BY <1>2, <1>3, <1>6 DEF n

\* Rows that an order tells apart: of two, one comes first.
Total(rows, order) ==
    \A r, t \in rows : r # t => Precedes(order, r, t) \/ Precedes(order, t, r)

\* A total order leaves one arrangement: at the first place where two differ
\* each would have a row behind one that it precedes.
LEMMA OneArrangement ==
    ASSUME NEW rows, IsFiniteSet(rows), NEW order, Total(rows, order),
           NEW s \in Arrangements(rows, order), NEW t \in Arrangements(rows, order)
    PROVE  s = t
<1>1. /\ s \in Seq(rows) /\ t \in Seq(rows) /\ Len(s) = Len(t)
      /\ \A i, j \in 1..Len(s) : s[i] = s[j] => i = j
      /\ \A i, j \in 1..Len(t) : t[i] = t[j] => i = j
      /\ \A r \in rows : \E i \in 1..Len(s) : s[i] = r
      /\ \A r \in rows : \E i \in 1..Len(t) : t[i] = r
      /\ \A i, j \in 1..Len(s) : i < j => ~Precedes(order, s[j], s[i])
      /\ \A i, j \in 1..Len(t) : i < j => ~Precedes(order, t[j], t[i])
  BY ArrangementIsOfRows
<1>2. Len(s) \in Nat /\ \A i \in 1..Len(s) : s[i] \in rows /\ t[i] \in rows
  BY <1>1, ElementOfSeq, LenProperties
<1> DEFINE D == {i \in 1..Len(s) : s[i] # t[i]}
<1>3. D = {}
  <2> SUFFICES ASSUME D # {} PROVE FALSE
    OBVIOUS
  <2>1. PICK i \in D : \A j \in D : i <= j
    <3>1. D \in SUBSET Nat
      OBVIOUS
    <3> HIDE DEF D
    <3> QED BY <3>1, LeastIndex
  <2>2. i \in 1..Len(s) /\ s[i] # t[i] /\ \A k \in 1..Len(s) : k < i => s[k] = t[k]
    BY <2>1, <1>2
  <2>3. PICK j \in 1..Len(s) : t[j] = s[i]
    BY <1>1, <1>2, <2>2
  <2>4. PICK k \in 1..Len(s) : s[k] = t[i]
    BY <1>1, <1>2, <2>2
  <2>5. ~(j < i) /\ ~(k < i) /\ j # i /\ k # i
    <3>1. j < i => s[j] = s[i]
      BY <2>2, <2>3
    <3>2. k < i => t[k] = t[i]
      BY <2>2, <2>4
    <3>3. ~(j < i)
      BY <1>1, <1>2, <2>2, <3>1
    <3>4. ~(k < i)
      BY <1>1, <1>2, <2>2, <3>2
    <3> QED BY <2>2, <2>3, <2>4, <3>3, <3>4
  <2>6. i < j /\ i < k
    BY <1>2, <2>2, <2>5
  <2>7. ~Precedes(order, t[j], t[i]) /\ ~Precedes(order, s[k], s[i])
    BY <1>1, <2>2, <2>6
  <2> QED BY <1>2, <2>2, <2>3, <2>4, <2>7 DEF Total
<1> QED BY <1>1, <1>3, SeqEqual

\* The order of a request ends with the primary key.
LEMMA OrderEndsWithKey ==
    ASSUME NEW order \in Seq(Sort), PrimaryKey # <<>>
    PROVE  /\ EffectiveOrder(order) \in Seq(Sort)
           /\ \A f \in ToSet(PrimaryKey) :
                 \E i \in 1..Len(EffectiveOrder(order)) : EffectiveOrder(order)[i].field = f
<1>1. /\ PrimaryKey \in Seq(Field) /\ Len(PrimaryKey) \in Nat
      /\ DOMAIN PrimaryKey = 1..Len(PrimaryKey)
      /\ \A i \in 1..Len(PrimaryKey) : PrimaryKey[i] \in Field
  BY Schema, LenProperties, ElementOfSeq
<1>2. DefaultOrder = [i \in 1..Len(PrimaryKey) |-> [field |-> PrimaryKey[i], direction |-> "asc"]]
  BY <1>1 DEF DefaultOrder, AscendingBy
<1>3. \A i \in 1..Len(PrimaryKey) : [field |-> PrimaryKey[i], direction |-> "asc"] \in Sort
  BY <1>1 DEF Sort
<1>4. DefaultOrder \in Seq(Sort) /\ Len(DefaultOrder) = Len(PrimaryKey)
  <2>1. DefaultOrder \in [1..Len(PrimaryKey) -> Sort]
    BY <1>2, <1>3
  <2>2. Len(PrimaryKey) \in Nat
    BY <1>1
  <2> QED BY <2>1, <2>2
<1>5. /\ EffectiveOrder(order) \in Seq(Sort)
      /\ Len(EffectiveOrder(order)) = Len(order) + Len(PrimaryKey)
      /\ \A i \in 1..Len(order) + Len(PrimaryKey) : EffectiveOrder(order)[i] =
            IF i <= Len(order) THEN order[i] ELSE DefaultOrder[i - Len(order)]
  <2>1. order \in Seq(Sort) /\ DefaultOrder \in Seq(Sort)
    BY <1>4
  <2>2. /\ order \o DefaultOrder \in Seq(Sort)
        /\ Len(order \o DefaultOrder) = Len(order) + Len(DefaultOrder)
        /\ \A i \in 1..Len(order) + Len(DefaultOrder) : (order \o DefaultOrder)[i] =
              IF i <= Len(order) THEN order[i] ELSE DefaultOrder[i - Len(order)]
    BY ONLY <2>1, ConcatProperties
  <2> QED BY <1>4, <2>2 DEF EffectiveOrder
<1>6. ASSUME NEW f \in ToSet(PrimaryKey)
      PROVE  \E i \in 1..Len(EffectiveOrder(order)) : EffectiveOrder(order)[i].field = f
  <2>1. PICK k \in 1..Len(PrimaryKey) : PrimaryKey[k] = f
    BY <1>1 DEF ToSet
  <2>2. Len(order) \in Nat
    BY LenProperties
  <2>3. /\ Len(order) + k \in 1..Len(order) + Len(PrimaryKey)
        /\ ~(Len(order) + k <= Len(order)) /\ (Len(order) + k) - Len(order) = k
    BY <1>1, <2>1, <2>2
  <2>4. EffectiveOrder(order)[Len(order) + k] = DefaultOrder[k]
    BY <1>5, <2>3
  <2>5. DefaultOrder[k].field = f
    BY <1>2, <2>1
  <2> QED BY <1>5, <2>3, <2>4, <2>5
<1> QED BY <1>5, <1>6

\* So it tells the rows of a table apart: at the first field in which two of
\* them differ, one is less.
LEMMA KeyMakesTotal ==
    ASSUME NEW rows \in SUBSET Row, Consistent(rows), PrimaryKey # <<>>,
           NEW order \in Seq(Sort)
    PROVE  Total(rows, EffectiveOrder(order))
<1> DEFINE o == EffectiveOrder(order)
<1>1. /\ o \in Seq(Sort) /\ Len(o) \in Nat /\ DOMAIN o = 1..Len(o)
      /\ \A i \in 1..Len(o) : o[i] \in Sort
      /\ \A f \in ToSet(PrimaryKey) : \E i \in 1..Len(o) : o[i].field = f
  BY OrderEndsWithKey, LenProperties, ElementOfSeq
<1> HIDE DEF o
<1>2. ASSUME NEW r \in rows, NEW t \in rows, r # t
      PROVE  Precedes(o, r, t) \/ Precedes(o, t, r)
  <2>1. PICK f \in ToSet(PrimaryKey) : r[f] # t[f]
    <3>1. Project(r, PrimaryKey) # Project(t, PrimaryKey)
      BY <1>2 DEF Consistent
    <3> QED BY <3>1 DEF Project
  <2> DEFINE D == {i \in 1..Len(o) : r[o[i].field] # t[o[i].field]}
  <2>2. D \in SUBSET Nat /\ D # {}
    BY <1>1, <2>1
  <2>3. PICK i \in D : \A j \in D : i <= j
    <3> HIDE DEF D
    <3> QED BY <2>2, LeastIndex
  <2>4. /\ i \in 1..Len(o) /\ r[o[i].field] # t[o[i].field]
        /\ \A j \in 1..(i - 1) : r[o[j].field] = t[o[j].field]
    <3>1. ASSUME NEW j \in 1..(i - 1) PROVE j \in 1..Len(o) /\ ~(i <= j)
      BY <1>1, <2>3
    <3> QED BY <2>3, <3>1
  <2>5. /\ o[i].field \in Field /\ o[i].direction \in {"asc", "desc"}
    BY <1>1, <2>4 DEF Sort
  <2>6. /\ r[o[i].field] \in Int \cup {Null} /\ t[o[i].field] \in Int \cup {Null}
    BY <2>5, Typed
  <2>7. Less(o[i], r, t) \/ Less(o[i], t, r)
    BY <2>4, <2>6, Schema DEF Less
  <2> QED BY <1>1, <2>4, <2>7 DEF Precedes
<1> QED BY <1>2 DEF Total, o

-----------------------------------------------------------------------------
(* Pages.                                                                   *)

\* t has the n elements of s behind the offset, or those there are.
IsSlice(t, s, offset, n) ==
    /\ Len(t) = IF Len(s) <= offset THEN 0
                ELSE IF Len(s) < offset + n THEN Len(s) - offset ELSE n
    /\ \A i \in 1..Len(t) : t[i] = s[offset + i]

\* What a slice of a sequence is.
LEMMA SliceProperties ==
    ASSUME NEW R, NEW s \in Seq(R), NEW offset \in Nat, NEW n \in Nat
    PROVE  Slice(s, offset, n) \in Seq(R) /\ IsSlice(Slice(s, offset, n), s, offset, n)
<1> DEFINE last == IF Len(s) < offset + n THEN Len(s) ELSE offset + n
<1>1. Len(s) \in Nat /\ \A i \in 1..Len(s) : s[i] \in R
  BY LenProperties, ElementOfSeq
<1>2. offset + 1 \in Int /\ last \in Int /\ \A i \in (offset + 1)..last : s[i] \in R
  BY <1>1
<1>3. /\ SubSeq(s, offset + 1, last) \in Seq(R)
      /\ Len(SubSeq(s, offset + 1, last)) =
            IF offset + 1 <= last THEN last - (offset + 1) + 1 ELSE 0
      /\ \A i \in 1..(last - (offset + 1) + 1) :
            SubSeq(s, offset + 1, last)[i] = s[(offset + 1) + i - 1]
  <2> HIDE DEF last
  <2> QED BY <1>2, SubSeqProperties
<1>4. Slice(s, offset, n) = SubSeq(s, offset + 1, last)
  BY DEF Slice
<1>5. Len(Slice(s, offset, n)) = IF Len(s) <= offset THEN 0
                                ELSE IF Len(s) < offset + n THEN Len(s) - offset ELSE n
  BY <1>1, <1>3, <1>4
<1>6. ASSUME NEW i \in 1..Len(Slice(s, offset, n))
      PROVE  Slice(s, offset, n)[i] = s[offset + i]
  <2>1. i \in 1..(last - (offset + 1) + 1) /\ (offset + 1) + i - 1 = offset + i
    BY <1>1, <1>5
  <2> QED BY <1>3, <1>4, <2>1
<1> QED BY <1>3, <1>4, <1>5, <1>6 DEF IsSlice

\* The rows that a page hands over, of those it has read.
PageOf(s, offset, limit) == Slice(Slice(s, offset, limit + 1), 0, limit)

\* A page is cut from where the scan is: it has at most limit rows, that many
\* if there are more, and all the rest if there are none.
IsPage(page, s, offset, limit) ==
    LET more == Len(Slice(s, offset, limit + 1)) > limit
    IN  /\ Len(page) = IF more THEN limit ELSE Len(Slice(s, offset, limit + 1))
        /\ more <=> Len(s) > offset + limit
        /\ \A i \in 1..Len(page) : page[i] = s[offset + i]
        /\ offset <= Len(s) /\ ~more => offset + Len(page) = Len(s)

LEMMA PageProperties ==
    ASSUME NEW R, NEW s \in Seq(R), NEW offset \in Nat, NEW limit \in Nat \ {0}
    PROVE  /\ PageOf(s, offset, limit) \in Seq(R)
           /\ IsPage(PageOf(s, offset, limit), s, offset, limit)
<1> DEFINE rows == Slice(s, offset, limit + 1)
           page == PageOf(s, offset, limit)
<1>1. /\ rows \in Seq(R)
      /\ Len(rows) = IF Len(s) <= offset THEN 0
                     ELSE IF Len(s) < offset + (limit + 1) THEN Len(s) - offset ELSE limit + 1
      /\ \A i \in 1..Len(rows) : rows[i] = s[offset + i]
  <2>1. limit + 1 \in Nat
    OBVIOUS
  <2>2. rows \in Seq(R) /\ IsSlice(rows, s, offset, limit + 1)
    BY <2>1, SliceProperties
  <2> QED BY <2>2 DEF IsSlice
<1> HIDE DEF rows
<1>2. Len(s) \in Nat /\ Len(rows) \in Nat
  BY <1>1, LenProperties
<1>3. /\ page \in Seq(R)
      /\ Len(page) = IF Len(rows) <= 0 THEN 0
                     ELSE IF Len(rows) < 0 + limit THEN Len(rows) - 0 ELSE limit
      /\ \A i \in 1..Len(page) : page[i] = rows[0 + i]
  <2>1. page \in Seq(R) /\ IsSlice(page, rows, 0, limit)
    BY <1>1, SliceProperties DEF PageOf, rows
  <2> HIDE DEF page
  <2> QED BY <2>1 DEF IsSlice
<1> HIDE DEF page
<1>4. Len(page) = IF Len(rows) > limit THEN limit ELSE Len(rows)
  BY <1>1, <1>2, <1>3
<1>5. Len(rows) > limit <=> Len(s) > offset + limit
  BY <1>1, <1>2
<1>6. offset <= Len(s) /\ ~(Len(rows) > limit) => offset + Len(page) = Len(s)
  BY <1>1, <1>2, <1>4
<1>7. ASSUME NEW i \in 1..Len(page) PROVE page[i] = s[offset + i]
  <2>1. i \in 1..Len(rows) /\ 0 + i = i
    BY <1>2, <1>4
  <2> QED BY <1>1, <1>3, <2>1
<1> QED BY <1>3, <1>4, <1>5, <1>6, <1>7 DEF rows, page, IsPage

-----------------------------------------------------------------------------
(* The scan.                                                                *)

\* Where a scan is, and where its cursor says it is.
ScanInv ==
    /\ table \subseteq Row /\ Consistent(table)
    /\ version \in Nat
    /\ got \in Seq(Row) /\ trail \in Seq(Query \X Nat)
    /\ state = "new" => got = <<>> /\ trail = <<>>
    /\ state = "more" =>
          /\ cursor[1].query \in Query /\ cursor[1].fingerprint \in Nat
          /\ cursor[1].offset = Len(got)
          /\ \A i \in 1..Len(trail) : trail[i] = <<cursor[1].query, cursor[1].fingerprint>>
          /\ trail # <<>>

\* The arrangement that the pages are cut from.
TheRows == LET q == trail[1][1]
           IN  CHOOSE s \in Arrangements(Matching(table, q), OrderOf(q)) : TRUE

\* If the scan may be compared with it: what it has so far, and what is left.
Tiled ==
    (quiet /\ PrimaryKey # <<>> /\ trail # <<>>) =>
        /\ trail[1][1] \in Query
        /\ TheRows \in Seq(Row)
        /\ Len(got) <= Len(TheRows)
        /\ \A i \in 1..Len(got) : got[i] = TheRows[i]
        /\ state = "end" => Len(got) = Len(TheRows)

IInv == ScanInv /\ OneQueryPerScan /\ DepthBounded /\ Tiled

\* The rows a query matches are rows of the table.
LEMMA MatchingRows ==
    ASSUME table \subseteq Row, NEW q \in Query
    PROVE  /\ Matching(table, q) \subseteq table
           /\ IsFiniteSet(Matching(table, q))
<1>1. Matching(table, q) \subseteq table
  BY DEF Matching, Where, Related
<1>2. IsFiniteSet(Row)
  BY Typed
<1> QED BY <1>1, <1>2, FS_Subset

\* Two queries for the same rows, while nothing is written, are arranged alike.
LEMMA TheArrangement ==
    ASSUME table \subseteq Row, Consistent(table), PrimaryKey # <<>>, NEW q \in Query,
           NEW s \in Arrangements(Matching(table, q), OrderOf(q))
    PROVE  s = CHOOSE t \in Arrangements(Matching(table, q), OrderOf(q)) : TRUE
<1> DEFINE rows == Matching(table, q)
           t == CHOOSE t \in Arrangements(rows, OrderOf(q)) : TRUE
<1>1. t \in Arrangements(rows, OrderOf(q))
  OBVIOUS
<1>2. PICK order \in Seq(Sort) : OrderOf(q) = EffectiveOrder(order)
  BY Typed, EmptySeq DEF OrderOf
<1>3. Total(table, EffectiveOrder(order))
  BY KeyMakesTotal
<1>4. Total(rows, OrderOf(q)) /\ IsFiniteSet(rows)
  BY <1>2, <1>3, MatchingRows DEF Total
<1> HIDE DEF rows, t
<1>5. s \in Arrangements(rows, OrderOf(q))
  BY DEF rows
<1>6. s = t
  BY <1>1, <1>4, <1>5, OneArrangement
<1> QED BY <1>6 DEF t, rows

-----------------------------------------------------------------------------
(* Steps.                                                                   *)

\* A page that goes on where the scan is keeps what it has been.
LEMMA FetchStep ==
    ASSUME ScanInv, Tiled, NEW q \in Query, NEW limit \in Limits,
           Fetch(q, Len(got), limit), UNCHANGED <<table, version>>,
           \A i \in 1..Len(trail) : trail[i] = <<q, version>>,
           trail = <<>> => got = <<>>,
           quiet' => quiet \/ trail = <<>>
    PROVE  /\ ScanInv' /\ OneQueryPerScan' /\ Tiled'
           /\ Len(got') <= Len(got) + limit
<1>1. limit \in Nat \ {0}
  BY Bounds
<1>2. /\ got \in Seq(Row) /\ Len(got) \in Nat /\ version \in Nat
      /\ trail \in Seq(Query \X Nat) /\ Len(trail) \in Nat
  BY LenProperties DEF ScanInv
<1>3. PICK s \in Arrangements(Matching(table, q), OrderOf(q)) :
         LET rows == Slice(s, Len(got), limit + 1)
             more == Len(rows) > limit
             c == [query |-> q, fingerprint |-> version, offset |-> Len(got) + limit]
         IN  /\ got' = got \o Slice(rows, 0, limit)
             /\ trail' = Append(trail, <<q, version>>)
             /\ cursor' = IF more THEN <<c>> ELSE <<>>
             /\ state' = IF more THEN "more" ELSE "end"
  BY DEF Fetch
<1> DEFINE page == PageOf(s, Len(got), limit)
           more == Len(Slice(s, Len(got), limit + 1)) > limit
<1>4. /\ got' = got \o page
      /\ trail' = Append(trail, <<q, version>>)
      /\ more => state' = "more" /\ cursor'[1].query = q
                 /\ cursor'[1].fingerprint = version /\ cursor'[1].offset = Len(got) + limit
      /\ ~more => state' = "end"
  BY <1>3 DEF PageOf
<1>5. s \in Seq(Row) /\ Len(s) \in Nat
  <2>1. Matching(table, q) \subseteq Row /\ IsFiniteSet(Matching(table, q))
    BY MatchingRows DEF ScanInv
  <2>2. s \in Seq(Matching(table, q))
    BY <2>1, ArrangementIsOfRows
  <2> QED BY <2>1, <2>2, LenProperties
<1>6. /\ page \in Seq(Row)
      /\ Len(page) = IF more THEN limit ELSE Len(Slice(s, Len(got), limit + 1))
      /\ \A i \in 1..Len(page) : page[i] = s[Len(got) + i]
      /\ more => Len(s) > Len(got) + limit
      /\ Len(got) <= Len(s) /\ ~more => Len(got) + Len(page) = Len(s)
  <2>1. page \in Seq(Row) /\ IsPage(page, s, Len(got), limit)
    BY <1>1, <1>2, <1>5, PageProperties
  <2>2. Len(Slice(s, Len(got), limit + 1)) > limit <=> Len(s) > Len(got) + limit
    BY <2>1 DEF IsPage
  <2> HIDE DEF page
  <2> QED BY <2>1, <2>2 DEF IsPage
<1> HIDE DEF page
<1>7. Len(page) \in Nat /\ Len(page) <= limit
  <2>1. Len(Slice(s, Len(got), limit + 1)) \in Nat
    <3>1. limit + 1 \in Nat
      BY <1>1
    <3>2. Slice(s, Len(got), limit + 1) \in Seq(Row)
      BY <1>2, <1>5, <3>1, SliceProperties
    <3> QED BY <3>2, LenProperties
  <2> QED BY <1>1, <1>6, <2>1
<1> HIDE DEF more
<1>8. /\ got' \in Seq(Row) /\ Len(got') = Len(got) + Len(page)
      /\ \A i \in 1..Len(got') :
            got'[i] = IF i <= Len(got) THEN got[i] ELSE page[i - Len(got)]
  <2>1. /\ got \o page \in Seq(Row) /\ Len(got \o page) = Len(got) + Len(page)
        /\ \A i \in 1..Len(got) + Len(page) :
              (got \o page)[i] = IF i <= Len(got) THEN got[i] ELSE page[i - Len(got)]
    <3>1. got \in Seq(Row) /\ page \in Seq(Row)
      BY <1>2, <1>6
    <3> QED BY ONLY <3>1, ConcatProperties
  <2> QED BY <1>4, <2>1
<1>9. /\ trail' \in Seq(Query \X Nat) /\ Len(trail') = Len(trail) + 1 /\ trail' # <<>>
      /\ \A i \in 1..Len(trail') : trail'[i] = <<q, version>>
  <2>1. <<q, version>> \in Query \X Nat
    BY <1>2
  <2>2. /\ trail' \in Seq(Query \X Nat) /\ Len(trail') = Len(trail) + 1
        /\ \A i \in 1..Len(trail) : trail'[i] = trail[i]
        /\ trail'[Len(trail) + 1] = <<q, version>>
    BY <1>2, <1>4, <2>1, AppendProperties
  <2>3. \A i \in 1..Len(trail') : i \in 1..Len(trail) \/ i = Len(trail) + 1
    BY <1>2, <2>2
  <2>4. trail' # <<>>
    BY <1>2, <2>2
  <2> QED BY <2>2, <2>3, <2>4
<1>10. ScanInv'
  <2>1. table' = table /\ version' = version
    OBVIOUS
  <2>2. (state = "more")' => more
    BY <1>4
  <2>3. more => Len(got') = Len(got) + limit
    BY <1>6, <1>8
  <2>4. (state = "more")' =>
           /\ cursor'[1].query \in Query /\ cursor'[1].fingerprint \in Nat
           /\ cursor'[1].offset = Len(got')
           /\ \A i \in 1..Len(trail') : trail'[i] = <<cursor'[1].query, cursor'[1].fingerprint>>
    BY <1>2, <1>4, <1>9, <2>2, <2>3
  <2>5. state' # "new"
    BY <1>4
  <2>6. (table \subseteq Row /\ Consistent(table) /\ version \in Nat)'
    BY <2>1 DEF ScanInv, Consistent
  <2> QED BY <1>8, <1>9, <2>4, <2>5, <2>6 DEF ScanInv
<1>11. OneQueryPerScan'
  BY <1>9 DEF OneQueryPerScan
<1>12. ASSUME quiet', PrimaryKey # <<>>
       PROVE  /\ trail'[1][1] \in Query
              /\ TheRows' \in Seq(Row)
              /\ Len(got') <= Len(TheRows')
              /\ \A i \in 1..Len(got') : got'[i] = TheRows'[i]
              /\ (state = "end")' => Len(got') = Len(TheRows')
  <2>1. trail'[1] = <<q, version>>
    BY <1>2, <1>9
  <2> DEFINE all == CHOOSE t \in Arrangements(Matching(table, q), OrderOf(q)) : TRUE
  <2>2. TheRows' = all
    BY <2>1 DEF TheRows
  <2>3. s = all
    BY <1>12, TheArrangement DEF ScanInv
  <2>4. trail # <<>> => TheRows = all
    <3>1. ASSUME trail # <<>> PROVE trail[1][1] = q
      <4>1. Len(trail) # 0
        BY <1>2, <3>1, EmptySeq
      <4>2. 1 \in 1..Len(trail)
        BY <1>2, <4>1
      <4>3. trail[1] = <<q, version>>
        BY <4>2
      <4> QED BY <4>3
    <3> QED BY <3>1 DEF TheRows
  <2> HIDE DEF all
  <2>5. Len(got) <= Len(s) /\ \A i \in 1..Len(got) : got[i] = s[i]
    <3>1. CASE trail = <<>>
      BY <1>5, <3>1
    <3>2. CASE trail # <<>>
      BY <1>12, <2>3, <2>4, <3>2 DEF Tiled
    <3> QED BY <3>1, <3>2
  <2>6. Len(got') <= Len(s)
    BY <1>1, <1>2, <1>5, <1>6, <1>7, <1>8, <2>5
  <2>7. ASSUME NEW i \in 1..Len(got') PROVE got'[i] = s[i]
    <3>0. got'[i] = IF i <= Len(got) THEN got[i] ELSE page[i - Len(got)]
      BY <1>8
    <3>1. CASE i <= Len(got)
      <4>1. i \in 1..Len(got)
        BY <1>2, <1>7, <1>8, <3>1
      <4> QED BY <2>5, <3>0, <3>1, <4>1
    <3>2. CASE ~(i <= Len(got))
      <4>1. i - Len(got) \in 1..Len(page) /\ Len(got) + (i - Len(got)) = i
        BY <1>2, <1>7, <1>8, <3>2
      <4>2. page[i - Len(got)] = s[Len(got) + (i - Len(got))]
        BY <1>6, <4>1
      <4> QED BY <3>0, <3>2, <4>1, <4>2
    <3> QED BY <3>1, <3>2
  <2>8. (state = "end")' => Len(got') = Len(s)
    BY <1>4, <1>6, <1>8, <2>5
  <2> QED BY <1>5, <2>1, <2>2, <2>3, <2>6, <2>7, <2>8
<1>13. Tiled'
  BY <1>12 DEF Tiled, TheRows
<1>14. Len(got') <= Len(got) + limit
  BY <1>1, <1>2, <1>7, <1>8
<1> QED BY <1>10, <1>11, <1>13, <1>14

\* Before the first page there is nothing to compare.
LEMMA InitStep == Init => IInv
<1> SUFFICES ASSUME Init PROVE IInv
  OBVIOUS
<1>1. table \subseteq Row /\ Consistent(table)
  BY DEF Init
<1>2. got = <<>> /\ trail = <<>> /\ state = "new" /\ version = 0 /\ Len(got) = 0 /\ Len(trail) = 0
  BY DEF Init
<1>3. ScanInv
  BY <1>1, <1>2 DEF ScanInv
<1>4. OneQueryPerScan /\ Tiled
  BY <1>2 DEF OneQueryPerScan, Tiled
<1>5. DepthBounded
  BY <1>2, Bounds DEF DepthBounded
<1> QED BY <1>3, <1>4, <1>5 DEF IInv

\* A first page starts from an empty scan.
LEMMA FirstPageStep ==
    ASSUME IInv, NEW q \in Query, NEW limit \in Limits, FirstPage(q, limit)
    PROVE  IInv'
<1>1. got = <<>> /\ trail = <<>> /\ Len(got) = 0 /\ Len(trail) = 0
  BY DEF IInv, ScanInv, FirstPage
<1>2. Fetch(q, Len(got), limit) /\ UNCHANGED <<table, version>>
  BY <1>1 DEF FirstPage
<1>3. ScanInv' /\ OneQueryPerScan' /\ Tiled' /\ Len(got') <= Len(got) + limit
  <2>1. ScanInv /\ Tiled
    BY DEF IInv
  <2>2. \A i \in 1..Len(trail) : trail[i] = <<q, version>>
    BY <1>1
  <2> QED BY <1>1, <1>2, <2>1, <2>2, FetchStep
<1>4. DepthBounded'
  <2>1. Len(got') \in Nat
    BY <1>3, LenProperties DEF ScanInv
  <2> QED BY <1>1, <1>3, <2>1, Bounds DEF DepthBounded
<1> QED BY <1>3, <1>4 DEF IInv

\* What Accepts says ties the page to the ones before it.
LEMMA NextPageStep ==
    ASSUME IInv, NEW q \in Query, NEW limit \in Limits, NextPage(q, limit)
    PROVE  IInv'
<1>1. /\ cursor[1].query = q /\ cursor[1].fingerprint = version
      /\ cursor[1].offset <= MaxOffset /\ cursor[1].offset = Len(got)
      /\ \A i \in 1..Len(trail) : trail[i] = <<q, version>>
      /\ trail # <<>>
  BY DEF IInv, ScanInv, NextPage, Accepts
<1>2. Fetch(q, Len(got), limit) /\ UNCHANGED <<table, version, quiet>>
  BY <1>1 DEF NextPage
<1>3. ScanInv' /\ OneQueryPerScan' /\ Tiled' /\ Len(got') <= Len(got) + limit
  <2>1. ScanInv /\ Tiled
    BY DEF IInv
  <2>2. quiet' => quiet \/ trail = <<>>
    BY <1>2
  <2> QED BY <1>1, <1>2, <2>1, <2>2, FetchStep
<1>4. DepthBounded'
  <2>1. Len(got') \in Nat /\ Len(got) \in Nat
    BY <1>3, LenProperties DEF IInv, ScanInv
  <2>2. Len(got) <= MaxOffset
    BY <1>1
  <2> QED BY <1>3, <2>1, <2>2, Bounds DEF DepthBounded
<1> QED BY <1>3, <1>4 DEF IInv

\* Steps that leave the scan as it is, up to the client's giving up.
LEMMA OtherSteps ==
    ASSUME IInv,
           \/ \E q \in Query : CursorRefused(q)
           \/ Write \/ ChangeSchema \/ UNCHANGED vars
    PROVE  IInv'
<1>1. UNCHANGED <<got, trail, cursor>>
  BY DEF CursorRefused, Write, ChangeSchema, vars
<1>2. (table \subseteq Row /\ Consistent(table))'
  <2>1. CASE UNCHANGED table
    BY <2>1 DEF IInv, ScanInv, Consistent
  <2>2. CASE Write
    BY <2>2 DEF IInv, ScanInv, Write
  <2> QED BY <2>1, <2>2 DEF CursorRefused, ChangeSchema, vars
<1>3. version' \in Nat
  <2>1. version \in Nat
    BY DEF IInv, ScanInv
  <2>2. version' = version \/ version' = version + 1
    BY DEF CursorRefused, Write, ChangeSchema, vars
  <2> QED BY <2>1, <2>2
<1>4. (state' = "new" => state = "new") /\ (state' = "more" => state = "more")
      /\ (state' = "end" => state = "end")
  BY DEF CursorRefused, Write, ChangeSchema, vars
<1>5. ScanInv'
  BY <1>1, <1>2, <1>3, <1>4 DEF IInv, ScanInv
<1>6. OneQueryPerScan' /\ DepthBounded'
  BY <1>1 DEF IInv, OneQueryPerScan, DepthBounded
<1>7. Tiled'
  <2>1. CASE Write
    BY <2>1 DEF Write, Tiled
  <2>2. CASE UNCHANGED <<table, quiet>>
    BY <1>1, <1>4, <2>2 DEF IInv, Tiled, TheRows
  <2> QED BY <2>1, <2>2 DEF CursorRefused, ChangeSchema, vars
<1> QED BY <1>5, <1>6, <1>7 DEF IInv

\* Another scan has no pages yet.
LEMMA RestartStep ==
    ASSUME IInv, Restart
    PROVE  IInv'
<1>1. /\ got' = <<>> /\ trail' = <<>> /\ state' = "new" /\ UNCHANGED <<table, version>>
      /\ Len(got') = 0 /\ Len(trail') = 0
  BY DEF Restart
<1>2. ScanInv'
  BY <1>1 DEF IInv, ScanInv, Consistent
<1>3. OneQueryPerScan' /\ Tiled'
  BY <1>1 DEF OneQueryPerScan, Tiled
<1>4. DepthBounded'
  BY <1>1, Bounds DEF DepthBounded
<1> QED BY <1>2, <1>3, <1>4 DEF IInv

-----------------------------------------------------------------------------
(* Types.                                                                   *)

\* A scan that may go on has a cursor to go on with.
CursorKept == state = "more" => cursor # <<>>

LEMMA FetchTypes ==
    ASSUME TypeOK, NEW q \in Query, NEW offset \in Nat, NEW limit \in Limits,
           Fetch(q, offset, limit)
    PROVE  /\ got' \in Seq(Row) /\ trail' \in Seq(Query \X (0..MaxVersion))
           /\ cursor' = <<>> \/ (Len(cursor') = 1 /\ cursor'[1] \in Cursor)
           /\ state' \in {"new", "more", "end", "refused"}
           /\ CursorKept'
<1>1. PICK s \in Arrangements(Matching(table, q), OrderOf(q)) :
         LET rows == Slice(s, offset, limit + 1)
             more == Len(rows) > limit
             c == [query |-> q, fingerprint |-> version, offset |-> offset + limit]
         IN  /\ got' = got \o Slice(rows, 0, limit)
             /\ trail' = Append(trail, <<q, version>>)
             /\ cursor' = IF more THEN <<c>> ELSE <<>>
             /\ state' = IF more THEN "more" ELSE "end"
  BY DEF Fetch
<1> DEFINE page == PageOf(s, offset, limit)
           c == [query |-> q, fingerprint |-> version, offset |-> offset + limit]
           more == Len(Slice(s, offset, limit + 1)) > limit
<1>2. limit \in Nat \ {0}
  BY Bounds
<1>3. s \in Seq(Row)
  <2>1. Matching(table, q) \subseteq Row /\ IsFiniteSet(Matching(table, q))
    BY MatchingRows DEF TypeOK
  <2>2. s \in Seq(Matching(table, q))
    BY <2>1, ArrangementIsOfRows
  <2> QED BY <2>1, <2>2
<1>4. page \in Seq(Row)
  BY <1>2, <1>3, PageProperties
<1>5. c \in Cursor
  BY <1>2 DEF TypeOK, Cursor
<1>6. /\ got' = got \o page /\ trail' = Append(trail, <<q, version>>)
      /\ (more /\ cursor' = <<c>> /\ state' = "more") \/ (cursor' = <<>> /\ state' = "end")
  BY <1>1 DEF PageOf
<1> HIDE DEF page, c, more
<1>7. got' \in Seq(Row)
  <2>1. got \in Seq(Row)
    BY DEF TypeOK
  <2>2. got \o page \in Seq(Row)
    BY ONLY <1>4, <2>1, ConcatProperties
  <2> QED BY <1>6, <2>2
<1>8. trail' \in Seq(Query \X (0..MaxVersion))
  <2>1. <<q, version>> \in Query \X (0..MaxVersion)
    BY DEF TypeOK
  <2> QED BY <1>6, <2>1, AppendProperties DEF TypeOK
<1>9. CASE more /\ cursor' = <<c>> /\ state' = "more"
  <2>1. Len(cursor') = 1 /\ cursor'[1] = c /\ cursor' # <<>>
    BY <1>9
  <2> QED BY <1>5, <1>7, <1>8, <1>9, <2>1 DEF CursorKept
<1>10. CASE cursor' = <<>> /\ state' = "end"
  BY <1>7, <1>8, <1>10 DEF CursorKept
<1> QED BY <1>6, <1>9, <1>10

LEMMA TypeStep ==
    ASSUME TypeOK, CursorKept, [Next]_vars
    PROVE  TypeOK' /\ CursorKept'
<1>1. ASSUME NEW q \in Query, NEW limit \in Limits, FirstPage(q, limit)
      PROVE  TypeOK' /\ CursorKept'
  <2>1. Fetch(q, 0, limit) /\ quiet' \in BOOLEAN /\ UNCHANGED <<table, version, writes>>
    BY <1>1 DEF FirstPage
  <2>2. 0 \in Nat
    OBVIOUS
  <2> QED BY <2>1, <2>2, FetchTypes DEF TypeOK
<1>2. ASSUME NEW q \in Query, NEW limit \in Limits, NextPage(q, limit)
      PROVE  TypeOK' /\ CursorKept'
  <2>1. Fetch(q, cursor[1].offset, limit) /\ UNCHANGED <<table, version, quiet, writes>>
    BY <1>2 DEF NextPage
  <2>2. cursor[1].offset \in Nat
    <3>1. cursor # <<>>
      BY <1>2 DEF NextPage, CursorKept
    <3> QED BY <3>1 DEF TypeOK, Cursor
  <2>3. (quiet \in BOOLEAN)'
    BY <2>1 DEF TypeOK
  <2> QED BY <2>1, <2>2, <2>3, FetchTypes DEF TypeOK
<1>3. ASSUME NEW q \in Query, CursorRefused(q) PROVE TypeOK' /\ CursorKept'
  <2>1. /\ state = "more" /\ state' \in {"more", "refused"}
        /\ UNCHANGED <<table, version, cursor, got, trail, quiet, writes>>
    BY <1>3 DEF CursorRefused
  <2> QED BY <2>1 DEF TypeOK, CursorKept
<1>4. ASSUME Restart PROVE TypeOK' /\ CursorKept'
  <2>1. <<>> \in Seq(Row) /\ <<>> \in Seq(Query \X (0..MaxVersion))
    BY EmptySeq
  <2> QED BY <1>4, <2>1 DEF Restart, TypeOK, CursorKept
<1>5. ASSUME Write PROVE TypeOK' /\ CursorKept'
  <2>1. table' \subseteq Row
    <3>1. PICK r \in Row, s \in Row \cup {Null} : table' = (table \ {r}) \cup ({s} \ {Null})
      BY <1>5 DEF Write
    <3> QED BY <3>1 DEF TypeOK
  <2>2. writes' \in 0..MaxWrites
    BY <1>5, Bounds DEF Write, TypeOK
  <2> QED BY <1>5, <2>1, <2>2 DEF Write, TypeOK, CursorKept
<1>6. ASSUME ChangeSchema PROVE TypeOK' /\ CursorKept'
  <2>1. version' \in 0..MaxVersion
    BY <1>6, Bounds DEF ChangeSchema, TypeOK
  <2> QED BY <1>6, <2>1 DEF ChangeSchema, TypeOK, CursorKept
<1>7. ASSUME UNCHANGED vars PROVE TypeOK' /\ CursorKept'
  BY <1>7 DEF vars, TypeOK, CursorKept
<1> QED BY <1>1, <1>2, <1>3, <1>4, <1>5, <1>6, <1>7 DEF Next

-----------------------------------------------------------------------------
(* Keys and relations.                                                      *)

\* A finite set, made a sequence, has the same elements.
LEMMA SetToSeqElements ==
    ASSUME NEW S, IsFiniteSet(S)
    PROVE  /\ ToSet(SetToSeq(S)) = S
           /\ SetToSeq(S) \in [1..Cardinality(S) -> S]
<1> DEFINE n == Cardinality(S)
           s == SetToSeq(S)
<1>1. n \in Nat /\ ExistsBijection(1..n, S)
  BY FS_CardinalityType
<1>2. \E f \in [1..n -> S] : IsInjective(f)
  BY <1>1 DEF ExistsBijection, Bijection, Injection, IsInjective
<1>3. s \in [1..n -> S] /\ IsInjective(s)
  BY <1>2 DEF SetToSeq
<1> HIDE DEF s
<1>4. s \in Injection(1..n, S)
  BY <1>3 DEF Injection
<1>5. Cardinality(1..n) = n /\ IsFiniteSet(1..n)
  BY <1>1, FS_Interval
<1>6. s \in Surjection(1..n, S)
  BY <1>4, <1>5, FS_Injection
<1>7. ToSet(s) = S
  BY <1>3, <1>6 DEF Surjection, ToSet
<1> QED BY <1>3, <1>7 DEF s

\* The filters a key is looked up with.
LEMMA KeyFiltersAre ==
    ASSUME NEW key, DOMAIN key = ToSet(PrimaryKey)
    PROVE  ToSet(KeyFilters(key)) =
              {[field |-> f, operator |-> "eq", value |-> key[f]] : f \in ToSet(PrimaryKey)}
<1> DEFINE S == {[field |-> f, operator |-> "eq", value |-> key[f]] : f \in ToSet(PrimaryKey)}
           n == Len(PrimaryKey)
           g == [i \in 1..n |-> [field |-> PrimaryKey[i], operator |-> "eq",
                                 value |-> key[PrimaryKey[i]]]]
<1>1. n \in Nat /\ DOMAIN PrimaryKey = 1..n
  BY Schema, LenProperties
<1>2. g \in Surjection(1..n, S)
  <2>1. \A i \in 1..n : PrimaryKey[i] \in ToSet(PrimaryKey)
    BY <1>1 DEF ToSet
  <2>2. g \in [1..n -> S]
    BY <2>1
  <2>3. \A x \in S : \E i \in 1..n : g[i] = x
    BY <1>1 DEF ToSet
  <2> HIDE DEF S, g
  <2> QED BY <2>2, <2>3 DEF Surjection
<1>3. IsFiniteSet(1..n)
  BY <1>1, FS_Interval
<1>4. KeyFilters(key) = SetToSeq(S)
  BY DEF KeyFilters
<1> HIDE DEF S, g
<1>5. IsFiniteSet(S)
  BY <1>2, <1>3, FS_Surjection
<1> QED BY <1>4, <1>5, SetToSeqElements DEF S

\* A row is found by its key, and no other.
LEMMA FoundByKey ==
    ASSUME NEW rows, Consistent(rows), PrimaryKey # <<>>, NEW r \in rows
    PROVE  Where(rows, KeyFilters(Project(r, PrimaryKey))) = {r}
<1> DEFINE key == Project(r, PrimaryKey)
<1>1. DOMAIN key = ToSet(PrimaryKey) /\ \A f \in ToSet(PrimaryKey) : key[f] = r[f]
  BY DEF Project
<1>2. ToSet(KeyFilters(key)) =
         {[field |-> f, operator |-> "eq", value |-> key[f]] : f \in ToSet(PrimaryKey)}
  <2> HIDE DEF key
  <2> QED BY <1>1, KeyFiltersAre
<1>3. ASSUME NEW t \in rows
      PROVE  (\A f \in ToSet(KeyFilters(key)) : Holds(f, t)) <=>
                \A f \in ToSet(PrimaryKey) : t[f] # Null /\ t[f] = r[f]
  <2>1. ASSUME NEW f \in ToSet(PrimaryKey)
        PROVE  Holds([field |-> f, operator |-> "eq", value |-> key[f]], t)
                  <=> t[f] # Null /\ t[f] = r[f]
    BY <1>1 DEF Holds, Compare
  <2> HIDE DEF key
  <2> QED BY <1>2, <2>1
<1>4. \A f \in ToSet(PrimaryKey) : r[f] # Null
  BY DEF Consistent
<1>5. ASSUME NEW t \in rows, \A f \in ToSet(PrimaryKey) : t[f] = r[f] PROVE t = r
  <2>1. Project(t, PrimaryKey) = Project(r, PrimaryKey)
    BY <1>5 DEF Project
  <2> QED BY <2>1 DEF Consistent
<1> HIDE DEF key
<1>6. \A t \in rows : (\A f \in ToSet(KeyFilters(key)) : Holds(f, t)) <=> t = r
  BY <1>3, <1>4, <1>5
<1> QED BY <1>6 DEF Where, key

\* The two directions of a relation are each other's inverse.
LEMMA JoinsBackwards ==
    ASSUME NEW r, NEW s
    PROVE  Joins(r, s, "outbound") <=> Joins(s, r, "inbound")
<1>1. DOMAIN SourceFields = DOMAIN TargetFields
  BY Exposed, LenProperties
<1> QED BY <1>1 DEF Joins

LEMMA RelationsReverse ==
    ASSUME Consistent(table)
    PROVE  RelationsGoBothWays
<1> SUFFICES ASSUME PrimaryKey # <<>>, NEW r \in table
             PROVE  /\ GetOne(table, Project(r, PrimaryKey)) = <<r>>
                    /\ \A s \in table :
                          s \in Related(table, Project(r, PrimaryKey), "outbound")
                             <=> r \in Related(table, Project(s, PrimaryKey), "inbound")
  BY DEF RelationsGoBothWays
<1>1. \A s \in table : Where(table, KeyFilters(Project(s, PrimaryKey))) = {s}
  BY FoundByKey
<1>2. GetOne(table, Project(r, PrimaryKey)) = <<r>>
  <2>1. IsFiniteSet({r}) /\ Cardinality({r}) = 1
    BY FS_Singleton
  <2>2. SetToSeq({r}) \in [1..1 -> {r}]
    BY <2>1, SetToSeqElements
  <2>3. SetToSeq({r}) = <<r>>
    <3> DEFINE s == SetToSeq({r})
    <3> HIDE DEF s
    <3>1. s \in [1..1 -> {r}]
      BY <2>2 DEF s
    <3>2. s = [i \in 1..1 |-> r]
      BY <3>1
    <3>3. s = <<r>>
      BY <3>2
    <3> QED BY <3>3 DEF s
  <2> QED BY <1>1, <2>1, <2>3 DEF GetOne, Found
<1>3. ASSUME NEW s \in table
      PROVE  s \in Related(table, Project(r, PrimaryKey), "outbound")
                <=> r \in Related(table, Project(s, PrimaryKey), "inbound")
  <2>1. s \in Related(table, Project(r, PrimaryKey), "outbound") <=> Joins(r, s, "outbound")
    BY <1>1 DEF Related
  <2>2. r \in Related(table, Project(s, PrimaryKey), "inbound") <=> Joins(s, r, "inbound")
    BY <1>1 DEF Related
  <2> QED BY <2>1, <2>2, JoinsBackwards
<1> QED BY <1>2, <1>3

-----------------------------------------------------------------------------
(* Aggregates.                                                              *)

\* Of any two groups one comes before the other.
Ranks(groups, order) ==
    /\ \A a \in groups : ~Before(order, a, a)
    /\ \A a, b \in groups : a # b => Before(order, a, b) \/ Before(order, b, a)
    /\ \A a, b, c \in groups : Before(order, a, b) /\ Before(order, b, c) => Before(order, a, c)

\* InOrder lists each group, and none twice.
LEMMA InOrderLists ==
    ASSUME NEW groups, IsFiniteSet(groups), NEW order, Ranks(groups, order)
    PROVE  /\ Cardinality(groups) \in Nat
           /\ InOrder(groups, order) \in [1..Cardinality(groups) -> groups]
           /\ \A a \in groups : \E k \in 1..Cardinality(groups) : InOrder(groups, order)[k] = a
           /\ \A i, j \in 1..Cardinality(groups) :
                 InOrder(groups, order)[i] = InOrder(groups, order)[j] => i = j
<1> DEFINE n == Cardinality(groups)
           below(a) == {b \in groups : Before(order, b, a)}
           rank == [a \in groups |-> Cardinality(below(a))]
           s == InOrder(groups, order)
<1>1. n \in Nat
  BY FS_CardinalityType
<1>2. ASSUME NEW a \in groups
      PROVE  /\ IsFiniteSet(below(a)) /\ Cardinality(below(a)) \in Nat
             /\ Cardinality(below(a)) < n
  <2>1. below(a) \in SUBSET groups
    OBVIOUS
  <2>2. below(a) # groups
    BY DEF Ranks
  <2> HIDE DEF below
  <2>3. IsFiniteSet(below(a)) /\ Cardinality(below(a)) <= n /\ Cardinality(below(a)) # n
    BY <2>1, <2>2, FS_Subset
  <2>4. Cardinality(below(a)) \in Nat
    BY <2>3, FS_CardinalityType
  <2> QED BY <1>1, <2>3, <2>4
<1>3. ASSUME NEW a \in groups, NEW b \in groups, Before(order, a, b)
      PROVE  Cardinality(below(a)) < Cardinality(below(b))
  <2>1. below(a) \in SUBSET below(b)
    BY <1>3 DEF Ranks
  <2>2. below(a) # below(b)
    BY <1>3 DEF Ranks
  <2> HIDE DEF below
  <2>3. Cardinality(below(a)) <= Cardinality(below(b)) /\ Cardinality(below(a)) # Cardinality(below(b))
    BY <1>2, <2>1, <2>2, FS_Subset
  <2>4. Cardinality(below(a)) \in Nat /\ Cardinality(below(b)) \in Nat
    BY <1>2
  <2> QED BY <2>3, <2>4
<1>4. ASSUME NEW a \in groups, NEW b \in groups, Cardinality(below(a)) = Cardinality(below(b))
      PROVE  a = b
  <2> HIDE DEF below
  <2>1. Cardinality(below(a)) \in Nat
    BY <1>2
  <2>2. ~Before(order, a, b) /\ ~Before(order, b, a)
    BY <1>3, <1>4, <2>1
  <2> QED BY <2>2 DEF Ranks
<1>5. rank \in Injection(groups, 0..(n - 1))
  <2>1. rank \in [groups -> 0..(n - 1)]
    <3>1. ASSUME NEW a \in groups PROVE Cardinality(below(a)) \in 0..(n - 1)
      <4> HIDE DEF below, n
      <4> QED BY <1>1, <1>2
    <3> HIDE DEF below, n
    <3> QED BY <3>1
  <2>2. \A a, b \in groups : rank[a] = rank[b] => a = b
    <3> HIDE DEF below
    <3> QED BY <1>4
  <2> HIDE DEF rank
  <2> QED BY <2>1, <2>2 DEF Injection, IsInjective
<1>6. rank \in Surjection(groups, 0..(n - 1))
  <2>1. IsFiniteSet(0..(n - 1)) /\ Cardinality(0..(n - 1)) = n
    <3> HIDE DEF n
    <3>1. 0 \in Int /\ n - 1 \in Int /\ (IF 0 > n - 1 THEN 0 ELSE (n - 1) - 0 + 1) = n
      BY <1>1
    <3> QED BY <3>1, FS_Interval
  <2> HIDE DEF rank
  <2> QED BY <1>5, <2>1, FS_Injection
<1>7. ASSUME NEW k \in 1..n PROVE s[k] \in groups /\ Cardinality(below(s[k])) = k - 1
  <2>1. k - 1 \in 0..(n - 1)
    BY <1>1
  <2>2. PICK a \in groups : rank[a] = k - 1
    <3> HIDE DEF rank
    <3> QED BY <1>6, <2>1 DEF Surjection
  <2>3. \E b \in groups : Cardinality({c \in groups : Before(order, c, b)}) = k - 1
    BY <2>2
  <2>4. s[k] = CHOOSE b \in groups : Cardinality({c \in groups : Before(order, c, b)}) = k - 1
    BY DEF InOrder
  <2> HIDE DEF s
  <2> QED BY <2>3, <2>4
<1>8. s \in [1..n -> groups]
  <2> DEFINE pick(k) == CHOOSE b \in groups : Cardinality({c \in groups : Before(order, c, b)}) = k - 1
  <2>1. s = [k \in 1..n |-> pick(k)]
    BY DEF InOrder
  <2> HIDE DEF s, pick
  <2> QED BY <1>7, <2>1
<1>9. ASSUME NEW a \in groups PROVE \E k \in 1..n : s[k] = a
  <2> HIDE DEF below, s
  <2>1. Cardinality(below(a)) + 1 \in 1..n
    BY <1>1, <1>2
  <2>2. s[Cardinality(below(a)) + 1] = a
    <3>1. (Cardinality(below(a)) + 1) - 1 = Cardinality(below(a))
      BY <1>2
    <3> QED BY <1>4, <1>7, <2>1, <3>1
  <2> QED BY <2>1, <2>2
<1>10. ASSUME NEW i \in 1..n, NEW j \in 1..n, s[i] = s[j] PROVE i = j
  <2>1. i - 1 = j - 1
    <3> HIDE DEF s, below
    <3> QED BY <1>7, <1>10
  <2> QED BY <1>1, <2>1
<1> QED BY <1>1, <1>8, <1>9, <1>10

LEMMA ToSetConcat ==
    ASSUME NEW A, NEW B, NEW s \in Seq(A), NEW t \in Seq(B)
    PROVE  ToSet(s \o t) = ToSet(s) \cup ToSet(t)
<1>1. s \in Seq(A \cup B) /\ t \in Seq(A \cup B)
  BY SeqMonotonic
<1>2. /\ Len(s) \in Nat /\ DOMAIN s = 1..Len(s)
      /\ Len(t) \in Nat /\ DOMAIN t = 1..Len(t)
  BY LenProperties
<1>3. /\ DOMAIN (s \o t) = 1..(Len(s) + Len(t))
      /\ \A i \in 1..(Len(s) + Len(t)) :
            (s \o t)[i] = IF i <= Len(s) THEN s[i] ELSE t[i - Len(s)]
  BY <1>1, ConcatProperties, LenProperties
<1>4. ASSUME NEW i \in 1..(Len(s) + Len(t)) PROVE (s \o t)[i] \in ToSet(s) \cup ToSet(t)
  <2>1. CASE i <= Len(s)
    BY <1>2, <1>3, <2>1 DEF ToSet
  <2>2. CASE ~(i <= Len(s))
    <3>1. i - Len(s) \in 1..Len(t)
      BY <1>2, <2>2
    <3>2. t[i - Len(s)] \in ToSet(t)
      BY <1>2, <3>1 DEF ToSet
    <3> QED BY <1>3, <2>2, <3>2
  <2> QED BY <2>1, <2>2
<1>5. ASSUME NEW i \in 1..Len(s) PROVE s[i] \in ToSet(s \o t)
  <2>1. i \in 1..(Len(s) + Len(t)) /\ i <= Len(s)
    BY <1>2
  <2>2. (s \o t)[i] = s[i]
    BY <1>3, <2>1
  <2> QED BY <1>3, <2>1, <2>2 DEF ToSet
<1>6. ASSUME NEW i \in 1..Len(t) PROVE t[i] \in ToSet(s \o t)
  <2>1. Len(s) + i \in 1..(Len(s) + Len(t)) /\ ~(Len(s) + i <= Len(s)) /\ (Len(s) + i) - Len(s) = i
    BY <1>2
  <2>2. (s \o t)[Len(s) + i] = t[i]
    BY <1>3, <2>1
  <2> QED BY <1>3, <2>1, <2>2 DEF ToSet
<1> QED BY <1>2, <1>3, <1>4, <1>5, <1>6 DEF ToSet

\* all lists each of the n parts once.
Lists(all, n, parts) ==
    /\ n \in Nat /\ n = Cardinality(parts)
    /\ all \in [1..n -> parts]
    /\ \A a \in parts : \E k \in 1..n : all[k] = a
    /\ \A i, j \in 1..n : all[i] = all[j] => i = j

GroupOf(groups, part) == IF groups = <<>> THEN <<>> ELSE Project(CHOOSE r \in part : TRUE, groups)

MetricsFor(metrics, part) == [k \in DOMAIN metrics |-> Compute(metrics[k], part)]

\* The answer shows the first m of these groups.
Shows(answer, groups, metrics, all, m) ==
    /\ DOMAIN answer.rows = 1..m
    /\ \A i \in 1..m : /\ answer.rows[i].group = GroupOf(groups, all[i])
                       /\ answer.rows[i].metrics = MetricsFor(metrics, all[i])

\* What an aggregate answers, if its groups can be put in order.
LEMMA AggregateLists ==
    ASSUME NEW rows, NEW metrics, NEW groups, NEW filters, NEW limit \in Nat,
           IsFiniteSet(Groups(Where(rows, filters), groups)),
           Ranks(Groups(Where(rows, filters), groups), AscendingBy(groups))
    PROVE  \E n, all, m :
              /\ Lists(all, n, Groups(Where(rows, filters), groups))
              /\ m \in 0..n /\ m = IF n <= limit THEN n ELSE limit
              /\ Shows(Aggregate(rows, metrics, groups, filters, limit), groups, metrics, all, m)
              /\ Aggregate(rows, metrics, groups, filters, limit).truncated = (n > limit)
<1> DEFINE parts == Groups(Where(rows, filters), groups)
           by == AscendingBy(groups)
           n == Cardinality(parts)
           all == InOrder(parts, by)
           m == IF n <= limit THEN n ELSE limit
           shown == SubSeq(all, 1, m)
           answer == Aggregate(rows, metrics, groups, filters, limit)
           cell(i) == [group |-> IF groups = <<>> THEN <<>>
                                 ELSE Project(CHOOSE r \in shown[i] : TRUE, groups),
                       metrics |-> [k \in DOMAIN metrics |-> Compute(metrics[k], shown[i])]]
<1>1. /\ n \in Nat /\ all \in [1..n -> parts]
      /\ \A a \in parts : \E k \in 1..n : all[k] = a
      /\ \A i, j \in 1..n : all[i] = all[j] => i = j
  <2> HIDE DEF by
  <2> QED BY InOrderLists DEF by
<1> HIDE DEF by, n
<1>2. Len(all) = n
  <2> HIDE DEF all
  <2>1. all \in Seq(parts)
    BY <1>1, SeqDef
  <2> QED BY <1>1, <2>1, LenProperties
<1>3. answer = [rows |-> [i \in DOMAIN shown |-> cell(i)], truncated |-> n > limit]
  BY <1>2 DEF Aggregate, by
<1> HIDE DEF all, answer
<1>4. m \in 0..n
  BY <1>1
<1>5. DOMAIN shown = 1..m /\ \A i \in 1..m : shown[i] = all[i]
  <2>1. m \in Int /\ 1 \in Int
    BY <1>1
  <2>2. \A i \in 1..m : all[i] \in parts
    BY <1>1, <1>4
  <2> HIDE DEF m
  <2>3. /\ shown \in Seq(parts) /\ Len(shown) = IF 1 <= m THEN m - 1 + 1 ELSE 0
        /\ \A i \in 1..(m - 1 + 1) : shown[i] = all[1 + i - 1]
    BY <2>1, <2>2, SubSeqProperties
  <2>4. Len(shown) = m
    BY <1>1, <1>4, <2>3
  <2>5. \A i \in 1..m : i \in 1..(m - 1 + 1) /\ 1 + i - 1 = i
    BY <2>1
  <2> HIDE DEF shown
  <2> QED BY <2>3, <2>4, <2>5, LenProperties
<1> HIDE DEF shown, m
<1>6. DOMAIN answer.rows = 1..m /\ \A i \in 1..m : answer.rows[i] = cell(i)
  <2> HIDE DEF cell
  <2> QED BY <1>3, <1>5
<1>7. answer.truncated = (n > limit)
  <2> HIDE DEF cell
  <2> QED BY <1>3
<1>8. Shows(answer, groups, metrics, all, m)
  <2>1. ASSUME NEW i \in 1..m
        PROVE  /\ answer.rows[i].group = GroupOf(groups, all[i])
               /\ answer.rows[i].metrics = MetricsFor(metrics, all[i])
    <3>1. cell(i).group = GroupOf(groups, shown[i]) /\ cell(i).metrics = MetricsFor(metrics, shown[i])
      BY DEF GroupOf, MetricsFor
    <3> HIDE DEF cell
    <3> QED BY <1>5, <1>6, <3>1
  <2> HIDE DEF cell
  <2> QED BY <1>6, <2>1 DEF Shows
<1>9. m = IF n <= limit THEN n ELSE limit
  BY DEF m
<1>10. Lists(all, n, parts)
  BY <1>1 DEF Lists, n
<1> HIDE DEF n
<1> QED BY <1>4, <1>7, <1>8, <1>9, <1>10 DEF answer

\* The groups of one field are in order: by its values, with those that have
\* none at the end.
LEMMA GroupsRank ==
    ASSUME NEW rows \in SUBSET Row, NEW g \in Field,
           NEW by, by = AscendingBy(<<g>>), NEW groups, groups = Groups(rows, <<g>>)
    PROVE  /\ groups = {{r \in rows : r[g] = one[g]} : one \in rows}
           /\ Ranks(groups, by)
<1> DEFINE alike(one) == {r \in rows : r[g] = one[g]}
           less(v, w) == v # Null /\ (w = Null \/ v < w)
<1>1. \A r \in rows : r[g] \in Int \cup {Null}
  BY Typed
<1>2. \A r, s \in rows : Project(r, <<g>>) = Project(s, <<g>>) <=> r[g] = s[g]
  <2>1. ToSet(<<g>>) = {g}
    BY DEF ToSet
  <2> QED BY <2>1 DEF Project
<1>3. groups = {alike(one) : one \in rows}
  <2>1. <<g>> # <<>>
    OBVIOUS
  <2>2. groups = {{r \in rows : Project(r, <<g>>) = Project(one, <<g>>)} : one \in rows}
    BY <2>1 DEF Groups
  <2> QED BY <1>2, <2>2
<1>4. \A r, s : Precedes(by, r, s) <=> less(r[g], s[g])
  <2> TAKE r, s
  <2>1. DOMAIN by = {1} /\ by[1] = [field |-> g, direction |-> "asc"]
    BY DEF AscendingBy
  <2>2. Less(by[1], r, s) <=> less(r[g], s[g])
    BY <2>1 DEF Less
  <2>3. 1..(1 - 1) = {}
    OBVIOUS
  <2> HIDE DEF less
  <2> QED BY <2>1, <2>2, <2>3 DEF Precedes
<1>5. \A one, other \in rows : Before(by, alike(one), alike(other)) <=> less(one[g], other[g])
  <2> TAKE one, other \in rows
  <2>1. one \in alike(one) /\ other \in alike(other)
    OBVIOUS
  <2>2. \A r \in alike(one) : r[g] = one[g]
    OBVIOUS
  <2>3. \A s \in alike(other) : s[g] = other[g]
    OBVIOUS
  <2> HIDE DEF alike, less
  <2> QED BY <1>4, <2>1, <2>2, <2>3 DEF Before
<1>6. \A one \in rows : ~less(one[g], one[g])
  BY <1>1
<1>7. \A one, other \in rows :
         alike(one) # alike(other) => less(one[g], other[g]) \/ less(other[g], one[g])
  <2> TAKE one, other \in rows
  <2>1. SUFFICES ASSUME one[g] # other[g] PROVE less(one[g], other[g]) \/ less(other[g], one[g])
    OBVIOUS
  <2> QED BY <1>1, <2>1, Schema
<1>8. \A r, s, t \in rows : less(r[g], s[g]) /\ less(s[g], t[g]) => less(r[g], t[g])
  BY <1>1, Schema
<1>9. Ranks(groups, by)
  <2> HIDE DEF alike, less
  <2> QED BY <1>3, <1>5, <1>6, <1>7, <1>8 DEF Ranks
<1> QED BY <1>3, <1>9

\* Narrowing a search to a group leaves the rows of the group.
LEMMA NarrowedToGroup ==
    ASSUME NEW rows, NEW A, NEW filters \in Seq(A), NEW g,
           NEW group, g \in DOMAIN group, \A h \in DOMAIN group : h = g
    PROVE  \A r : r \in Where(rows, filters \o GroupFilters(group))
                     <=> r \in Where(rows, filters) /\ r[g] = group[g]
<1> DEFINE filter == IF group[g] = Null
                     THEN [field |-> g, operator |-> "is_null", value |-> TRUE]
                     ELSE [field |-> g, operator |-> "eq", value |-> group[g]]
           longer == filters \o GroupFilters(group)
<1>1. ToSet(GroupFilters(group)) = {filter} /\ GroupFilters(group) \in Seq({filter})
  <2>1. GroupFilters(group) = SetToSeq({filter})
    <3>1. {IF group[h] = Null
           THEN [field |-> h, operator |-> "is_null", value |-> TRUE]
           ELSE [field |-> h, operator |-> "eq", value |-> group[h]] : h \in DOMAIN group} = {filter}
      OBVIOUS
    <3> HIDE DEF filter
    <3> QED BY <3>1 DEF GroupFilters
  <2> HIDE DEF filter
  <2>2. IsFiniteSet({filter}) /\ Cardinality({filter}) \in Nat
    BY FS_Singleton, FS_CardinalityType
  <2>3. SetToSeq({filter}) \in Seq({filter})
    BY <2>2, SetToSeqElements, SeqDef
  <2> QED BY <2>1, <2>2, <2>3, SetToSeqElements
<1> HIDE DEF filter
<1>2. ToSet(longer) = ToSet(filters) \cup {filter}
  <2>1. ToSet(filters \o GroupFilters(group)) = ToSet(filters) \cup ToSet(GroupFilters(group))
    BY <1>1, ToSetConcat
  <2> QED BY <1>1, <2>1
<1>3. ASSUME NEW r PROVE Holds(filter, r) <=> r[g] = group[g]
  <2>1. CASE group[g] = Null
    BY <2>1 DEF Holds, filter
  <2>2. CASE group[g] # Null
    BY <2>2 DEF Holds, Compare, filter
  <2> QED BY <2>1, <2>2
<1>4. \A r \in rows : (\A f \in ToSet(longer) : Holds(f, r))
                        <=> (\A f \in ToSet(filters) : Holds(f, r)) /\ r[g] = group[g]
  <2> HIDE DEF longer
  <2> QED BY <1>2, <1>3
<1> QED BY <1>4 DEF Where

\* Without GROUP BY the metrics are those of all rows.
LEMMA WholeAnswer ==
    ASSUME NEW rows, NEW metrics, NEW filters
    PROVE  Aggregate(rows, metrics, <<>>, filters, 1).rows[1].metrics
              = MetricsFor(metrics, Where(rows, filters))
<1> DEFINE parts == Groups(Where(rows, filters), <<>>)
           by == AscendingBy(<<>>)
           answer == Aggregate(rows, metrics, <<>>, filters, 1)
<1>1. parts = {Where(rows, filters)}
  BY DEF Groups
<1>2. IsFiniteSet(parts) /\ Cardinality(parts) = 1
  BY <1>1, FS_Singleton
<1>3. Ranks(parts, by)
  <2>1. DOMAIN by = {}
    BY DEF AscendingBy
  <2> HIDE DEF by, parts
  <2>2. \A r, s : ~Precedes(by, r, s)
    BY <2>1 DEF Precedes
  <2>3. \A a, b : ~Before(by, a, b)
    BY <2>2 DEF Before
  <2> QED BY <1>1, <2>3 DEF Ranks
<1>4. \E n, all, m : /\ Lists(all, n, parts)
                     /\ m \in 0..n /\ m = IF n <= 1 THEN n ELSE 1
                     /\ Shows(answer, <<>>, metrics, all, m)
                     /\ answer.truncated = (n > 1)
  <2>1. 1 \in Nat
    OBVIOUS
  <2> QED BY <1>2, <1>3, <2>1, AggregateLists
<1> HIDE DEF parts, answer
<1>5. PICK n, all, m : /\ Lists(all, n, parts)
                       /\ m = IF n <= 1 THEN n ELSE 1
                       /\ Shows(answer, <<>>, metrics, all, m)
  BY <1>4
<1>6. n = 1 /\ m = 1
  BY <1>2, <1>5 DEF Lists
<1>7. 1 \in 1..m /\ all[1] \in parts
  BY <1>5, <1>6 DEF Lists
<1>8. answer.rows[1].metrics = MetricsFor(metrics, all[1])
  BY <1>5, <1>7 DEF Shows
<1>9. all[1] = Where(rows, filters)
  BY <1>1, <1>7
<1> QED BY <1>8, <1>9 DEF answer

\* The first metric counts rows.
LEMMA CountsRows ==
    ASSUME NEW f, NEW rows
    PROVE  MetricsFor(MetricsOf(f), rows)[1] = Cardinality(rows)
<1> DEFINE first == <<Metric("count", Null), Metric("count", f), Metric("min", f), Metric("max", f)>>
           rest == IF f \in Numeric THEN <<Metric("avg", f)>> ELSE <<>>
           S == {Metric("count", Null), Metric("count", f), Metric("min", f), Metric("max", f),
                 Metric("avg", f)}
<1>1. MetricsOf(f) = first \o rest
  BY DEF MetricsOf
<1>2. first \in Seq(S) /\ Len(first) = 4 /\ first[1] = Metric("count", Null)
  OBVIOUS
<1>3. rest \in Seq(S) /\ Len(rest) \in Nat
  OBVIOUS
<1> HIDE DEF first, rest, S
<1>4. /\ first \o rest \in Seq(S) /\ Len(first \o rest) = Len(first) + Len(rest)
      /\ \A i \in 1..(Len(first) + Len(rest)) :
            (first \o rest)[i] = IF i <= Len(first) THEN first[i] ELSE rest[i - Len(first)]
  BY <1>2, <1>3, ConcatProperties
<1>5. 1 \in DOMAIN (first \o rest) /\ (first \o rest)[1] = Metric("count", Null)
  <2>1. 1 \in 1..(Len(first) + Len(rest)) /\ 1 <= Len(first)
    BY <1>2, <1>3
  <2> QED BY <1>2, <1>4, <2>1, LenProperties
<1>6. Compute(Metric("count", Null), rows) = Cardinality(rows)
  BY DEF Compute, Metric
<1> QED BY <1>1, <1>5, <1>6 DEF MetricsFor

\* The search that a group is followed by.
Narrowed(filters, answer, i) == filters \o GroupFilters(answer.rows[i].group)

LEMMA GroupsFollowed ==
    ASSUME table \in SUBSET Row, NEW A, NEW filters \in Seq(A), NEW f,
           NEW g \in Available, NEW limit \in Nat,
           NEW fields, fields = <<g>>,
           NEW answer, answer = Aggregate(table, MetricsOf(f), fields, filters, limit)
    PROVE  /\ \A i \in DOMAIN answer.rows :
                /\ answer.rows[i].metrics = MetricsFor(MetricsOf(f), Where(table, Narrowed(filters, answer, i)))
                /\ \A j \in DOMAIN answer.rows : i # j =>
                      Where(table, Narrowed(filters, answer, i)) \cap Where(table, Narrowed(filters, answer, j)) = {}
           /\ answer.truncated <=>
                Where(table, filters)
                  # UNION {Where(table, Narrowed(filters, answer, i)) : i \in DOMAIN answer.rows}
<1> DEFINE rows == Where(table, filters)
           groups == Groups(rows, fields)
           alike(one) == {r \in rows : r[g] = one[g]}
           by == AscendingBy(fields)
           found(i) == Where(table, Narrowed(filters, answer, i))
<1>1. rows \in SUBSET Row /\ IsFiniteSet(rows)
  <2>1. rows \in SUBSET table
    BY DEF Where
  <2> HIDE DEF rows
  <2>2. rows \in SUBSET Row
    BY <2>1
  <2> QED BY <2>2, FS_Subset, Typed
<1>2. g \in Field
  <2>1. \A i \in DOMAIN Visible : Visible[i] \in Field
    BY Schema, LenProperties, ElementOfSeq
  <2> QED BY <2>1 DEF Available, ToSet
<1> HIDE DEF rows
<1>3. groups = {alike(one) : one \in rows} /\ Ranks(groups, by)
  <2> HIDE DEF by, groups
  <2> QED BY <1>1, <1>2, GroupsRank DEF by, groups
<1>4. IsFiniteSet(groups)
  <2> DEFINE h == [one \in rows |-> alike(one)]
  <2>1. h \in Surjection(rows, groups)
    <3> HIDE DEF alike, groups
    <3> QED BY <1>3 DEF Surjection
  <2> HIDE DEF h, groups
  <2> QED BY <1>1, <2>1, FS_Surjection
<1>5. PICK n, all, m : /\ Lists(all, n, groups)
                       /\ m \in 0..n /\ m = IF n <= limit THEN n ELSE limit
                       /\ Shows(answer, fields, MetricsOf(f), all, m)
                       /\ answer.truncated = (n > limit)
  <2>1. groups = Groups(Where(table, filters), fields)
    BY DEF rows
  <2> HIDE DEF groups, by
  <2>2. /\ IsFiniteSet(Groups(Where(table, filters), fields))
        /\ Ranks(Groups(Where(table, filters), fields), AscendingBy(fields))
    BY <1>3, <1>4, <2>1 DEF by
  <2>3. \E n, all, m : /\ Lists(all, n, Groups(Where(table, filters), fields))
                       /\ m \in 0..n /\ m = IF n <= limit THEN n ELSE limit
                       /\ Shows(answer, fields, MetricsOf(f), all, m)
                       /\ answer.truncated = (n > limit)
    BY <2>2, AggregateLists
  <2> QED BY <2>1, <2>3
<1> HIDE DEF groups, by
<1>6. /\ n \in Nat /\ m \in Nat /\ \A i \in 1..m : i \in 1..n
      /\ n <= limit => m = n /\ ~answer.truncated
      /\ ~(n <= limit) => m = limit /\ limit + 1 \in 1..n /\ answer.truncated
  <2>1. n \in Nat
    BY <1>5 DEF Lists
  <2>2. m \in 0..n /\ m = IF n <= limit THEN n ELSE limit
    BY <1>5
  <2>3. answer.truncated = (n > limit)
    BY <1>5
  <2>4. n > limit <=> ~(n <= limit)
    BY <1>2, <2>1
  <2>5. ~(n <= limit) => limit + 1 \in 1..n
    BY <1>2, <2>1
  <2>6. m \in Nat /\ \A i \in 1..m : i \in 1..n
    BY <2>1, <2>2
  <2> QED BY <2>1, <2>2, <2>3, <2>4, <2>5, <2>6
<1>7. ASSUME NEW k \in 1..n
      PROVE  \E one \in rows : one \in all[k] /\ all[k] = alike(one)
  <2>1. all[k] \in groups
    BY <1>5 DEF Lists
  <2>2. PICK one \in rows : all[k] = alike(one)
    BY <1>3, <2>1
  <2> QED BY <2>2
<1>8. ASSUME NEW i \in 1..m
      PROVE  found(i) = all[i] /\ answer.rows[i].metrics = MetricsFor(MetricsOf(f), all[i])
  <2> DEFINE one == CHOOSE r \in all[i] : TRUE
  <2>1. one \in all[i]
    BY <1>6, <1>7
  <2>2. answer.rows[i].group = GroupOf(fields, all[i])
    BY <1>5 DEF Shows
  <2>3. GroupOf(fields, all[i]) = Project(one, fields)
    <3>1. fields # <<>>
      OBVIOUS
    <3> QED BY <3>1 DEF GroupOf
  <2> HIDE DEF one
  <2>4. Project(one, fields) = [h \in {g} |-> one[h]]
    <3>1. ToSet(fields) = {g}
      BY DEF ToSet
    <3> QED BY <3>1 DEF Project
  <2>5. all[i] = alike(one)
    <3>1. PICK r \in rows : all[i] = alike(r)
      BY <1>6, <1>7
    <3>2. one[g] = r[g]
      BY <2>1, <3>1
    <3> QED BY <3>1, <3>2
  <2>6. Where(table, filters \o GroupFilters(answer.rows[i].group))
          = {r \in Where(table, filters) : r[g] = one[g]}
    <3>1. PICK group : group = answer.rows[i].group
      OBVIOUS
    <3>2. g \in DOMAIN group /\ (\A h \in DOMAIN group : h = g) /\ group[g] = one[g]
      BY <2>2, <2>3, <2>4, <3>1
    <3> HIDE DEF alike, found
    <3>3. \A r : r \in Where(table, filters \o GroupFilters(group))
                    <=> r \in Where(table, filters) /\ r[g] = group[g]
      BY <3>2, NarrowedToGroup
    <3> QED BY <3>1, <3>2, <3>3
  <2>7. found(i) = all[i]
    BY <2>5, <2>6 DEF rows, Narrowed
  <2>8. answer.rows[i].metrics = MetricsFor(MetricsOf(f), all[i])
    BY <1>5 DEF Shows
  <2> QED BY <2>7, <2>8
<1> HIDE DEF found
<1>9. ASSUME NEW i \in 1..n, NEW j \in 1..n, i # j PROVE all[i] \cap all[j] = {}
  <2>1. PICK one \in rows, other \in rows : all[i] = alike(one) /\ all[j] = alike(other)
    BY <1>7
  <2>2. ASSUME NEW r \in all[i] \cap all[j] PROVE FALSE
    <3>1. one[g] = other[g]
      BY <2>1, <2>2
    <3>2. all[i] = all[j]
      BY <2>1, <3>1
    <3> QED BY <1>5, <1>9, <3>2 DEF Lists
  <2> QED BY <2>2
<1>10. answer.truncated <=> rows # UNION {found(i) : i \in 1..m}
  <2>1. UNION {found(i) : i \in 1..m} = UNION {all[i] : i \in 1..m}
    BY <1>8
  <2>2. ASSUME NEW i \in 1..m PROVE all[i] \in SUBSET rows
    BY <1>6, <1>7
  <2>3. CASE n <= limit
    <3>1. ASSUME NEW r \in rows PROVE \E i \in 1..n : r \in all[i]
      <4>1. alike(r) \in groups /\ r \in alike(r)
        BY <1>3
      <4>2. \E k \in 1..n : all[k] = alike(r)
        BY <1>5, <4>1 DEF Lists
      <4> QED BY <4>1, <4>2
    <3>2. UNION {all[i] : i \in 1..m} = rows
      <4>1. m = n
        BY <1>6, <2>3
      <4> HIDE DEF alike
      <4> QED BY <2>2, <3>1, <4>1
    <3> QED BY <1>6, <2>1, <2>3, <3>2
  <2>4. CASE ~(n <= limit)
    <3>1. m = limit /\ limit + 1 \in 1..n /\ answer.truncated
      BY <1>6, <2>4
    <3>2. PICK one \in rows : one \in all[limit + 1]
      BY <1>7, <3>1
    <3>3. ASSUME NEW i \in 1..m PROVE one \notin all[i]
      <4>1. i \in 1..n /\ i # limit + 1
        BY <1>2, <1>6, <3>1
      <4>2. all[i] \cap all[limit + 1] = {}
        BY <1>9, <3>1, <4>1
      <4> QED BY <3>2, <4>2
    <3>4. one \notin UNION {all[i] : i \in 1..m}
      BY <3>3
    <3> QED BY <2>1, <3>1, <3>2, <3>4
  <2> QED BY <2>3, <2>4
<1>11. ASSUME NEW i \in 1..m, NEW j \in 1..m, i # j PROVE found(i) \cap found(j) = {}
  BY <1>6, <1>8, <1>9, <1>11
<1>12. DOMAIN answer.rows = 1..m
  BY <1>5 DEF Shows
<1> QED BY <1>8, <1>10, <1>11, <1>12 DEF rows, found

LEMMA CountsFollowed ==
    ASSUME table \in SUBSET Row
    PROVE  CountsCanBeFollowed
<1>1. ASSUME NEW A, NEW filters \in Seq(A), NEW f, NEW g \in Available, NEW limit \in Nat
      PROVE  GroupsAddUp(filters, f, g, limit)
  <2> DEFINE answer == Aggregate(table, MetricsOf(f), <<g>>, filters, limit)
             rows(i) == Where(table, Narrowed(filters, answer, i))
  <2>1. /\ \A i \in DOMAIN answer.rows :
             /\ answer.rows[i].metrics = MetricsFor(MetricsOf(f), rows(i))
             /\ \A j \in DOMAIN answer.rows : i # j => rows(i) \cap rows(j) = {}
        /\ answer.truncated <=>
             Where(table, filters) # UNION {rows(i) : i \in DOMAIN answer.rows}
    BY <1>1, GroupsFollowed
  <2>2. \A i : Aggregate(table, MetricsOf(f), <<>>, Narrowed(filters, answer, i), 1).rows[1].metrics
                  = MetricsFor(MetricsOf(f), rows(i))
    <3> HIDE DEF answer
    <3> QED BY WholeAnswer
  <2>3. \A i \in DOMAIN answer.rows : answer.rows[i].metrics[1] = Cardinality(rows(i))
    <3> HIDE DEF answer, rows
    <3> QED BY <2>1, CountsRows
  <2>4. GroupsAddUp(filters, f, g, limit) <=>
          /\ \A i \in DOMAIN answer.rows :
                /\ answer.rows[i].metrics[1] = Cardinality(rows(i))
                /\ Aggregate(table, MetricsOf(f), <<>>, Narrowed(filters, answer, i), 1).rows[1].metrics
                     = answer.rows[i].metrics
                /\ \A j \in DOMAIN answer.rows : i # j => rows(i) \cap rows(j) = {}
          /\ answer.truncated <=>
                Where(table, filters) # UNION {rows(i) : i \in DOMAIN answer.rows}
    BY DEF GroupsAddUp, Narrowed
  <2> HIDE DEF answer, rows
  <2> QED BY <2>1, <2>2, <2>3, <2>4
<1>2. \A q \in Query : q.tool = "search" => q.filters \in Seq(ToSet(q.filters))
  BY Typed
<1>3. \A limit \in Limits : limit \in Nat
  BY Bounds
<1> QED BY <1>1, <1>2, <1>3 DEF CountsCanBeFollowed

-----------------------------------------------------------------------------
(* What is hidden.                                                          *)

\* phi takes each row of A to one of B that shows the same.
LooksLike(phi, A, B) ==
    phi \in Bijection(A, B) /\ \A r \in A : \A f \in Available : phi[r][f] = r[f]

\* Filters on fields that are shown hold for both rows or for neither.
LEMMA HoldsAlike ==
    ASSUME NEW r, NEW t, \A f \in Available : t[f] = r[f],
           NEW filters, \A f \in ToSet(filters) : f.field \in Available
    PROVE  (\A f \in ToSet(filters) : Holds(f, t)) <=> (\A f \in ToSet(filters) : Holds(f, r))
<1>1. ASSUME NEW f \in ToSet(filters) PROVE Holds(f, t) <=> Holds(f, r)
  <2>1. t[f.field] = r[f.field]
    OBVIOUS
  <2> QED BY <2>1 DEF Holds
<1> QED BY <1>1

\* So does a foreign key.
LEMMA JoinsAlike ==
    ASSUME NEW r, NEW t, \A f \in Available : t[f] = r[f],
           NEW c, NEW d, \A f \in Available : d[f] = c[f], NEW direction
    PROVE  Joins(d, t, direction) <=> Joins(c, r, direction)
<1>1. /\ DOMAIN SourceFields = DOMAIN TargetFields
      /\ \A i \in DOMAIN SourceFields : SourceFields[i] \in Available /\ TargetFields[i] \in Available
  <2>1. Available = ToSet(Visible)
    BY DEF Available
  <2>2. /\ DOMAIN SourceFields = 1..Len(SourceFields) /\ DOMAIN TargetFields = 1..Len(TargetFields)
        /\ \A i \in 1..Len(SourceFields) : SourceFields[i] \in Available
        /\ \A i \in 1..Len(TargetFields) : TargetFields[i] \in Available
    BY <2>1, Exposed, LenProperties, ElementOfSeq
  <2> QED BY <2>2, Exposed
<1> QED BY <1>1 DEF Joins

LEMMA MatchingAlike ==
    ASSUME NEW A, NEW B, NEW phi, LooksLike(phi, A, B),
           NEW q \in Query, Valid(q), NEW r \in A
    PROVE  r \in Matching(A, q) <=> phi[r] \in Matching(B, q)
<1>1. /\ \A a \in A : phi[a] \in B /\ \A f \in Available : phi[a][f] = a[f]
      /\ \A b \in B : \E a \in A : phi[a] = b
  BY DEF LooksLike, Bijection, Injection, Surjection
<1>2. ASSUME NEW filters, \A f \in ToSet(filters) : f.field \in Available, NEW a \in A
      PROVE  a \in Where(A, filters) <=> phi[a] \in Where(B, filters)
  <2>1. phi[a] \in B /\ \A f \in Available : phi[a][f] = a[f]
    BY <1>1
  <2>2. (\A f \in ToSet(filters) : Holds(f, phi[a])) <=> (\A f \in ToSet(filters) : Holds(f, a))
    BY <1>2, <2>1, HoldsAlike
  <2> QED BY <2>1, <2>2 DEF Where
<1>3. CASE q.tool = "search"
  <2>1. \A f \in ToSet(q.filters) : f.field \in Available
    BY <1>3 DEF Valid, ValidFilters
  <2> QED BY <1>2, <1>3, <2>1 DEF Matching
<1>4. CASE q.tool = "related"
  <2> DEFINE filters == KeyFilters(q.key)
  <2>1. \A f \in ToSet(filters) : f.field \in Available
    <3>1. DOMAIN q.key = ToSet(PrimaryKey)
      BY <1>4 DEF Valid, ValidKey
    <3>2. ToSet(filters) =
             {[field |-> f, operator |-> "eq", value |-> q.key[f]] : f \in ToSet(PrimaryKey)}
      BY <3>1, KeyFiltersAre
    <3> HIDE DEF filters
    <3> QED BY <3>2, Exposed DEF Available
  <2> HIDE DEF filters
  <2>2. ASSUME NEW a \in A
        PROVE  a \in Where(A, filters) /\ Joins(a, r, q.direction)
                  <=> phi[a] \in Where(B, filters) /\ Joins(phi[a], phi[r], q.direction)
    BY <1>1, <1>2, <2>1, JoinsAlike
  <2>3. /\ \A a \in Where(A, filters) : a \in A
        /\ \A b \in Where(B, filters) : \E a \in A : phi[a] = b
    BY <1>1 DEF Where
  <2>4. (\E a \in Where(A, filters) : Joins(a, r, q.direction))
           <=> \E b \in Where(B, filters) : Joins(b, phi[r], q.direction)
    BY <2>2, <2>3
  <2> QED BY <1>1, <1>4, <2>4 DEF Matching, Related, filters
<1> QED BY <1>3, <1>4, Typed

\* A page request is ordered by fields that are shown.
LEMMA OrderIsShown ==
    ASSUME NEW q \in Query, Valid(q)
    PROVE  /\ DOMAIN OrderOf(q) = 1..Len(OrderOf(q)) /\ Len(OrderOf(q)) \in Nat
           /\ \A i \in DOMAIN OrderOf(q) : OrderOf(q)[i].field \in Available
<1> DEFINE By == [field : Available, direction : {"asc", "desc"}]
           order == IF q.tool = "search" THEN q.order ELSE <<>>
           fields == IF PrimaryKey # <<>> THEN PrimaryKey
                     ELSE SubSeq(Visible, 1, IF Visible = <<>> THEN 0 ELSE 1)
<1>1. order \in Seq(By)
  <2>1. CASE q.tool = "search"
    <3>1. /\ q.order \in Seq(Sort) /\ Len(q.order) \in Nat /\ DOMAIN q.order = 1..Len(q.order)
          /\ \A i \in 1..Len(q.order) : q.order[i] \in Sort
      BY <2>1, Typed, LenProperties, ElementOfSeq
    <3>2. ASSUME NEW i \in 1..Len(q.order) PROVE q.order[i] \in By
      <4>1. q.order[i] \in ToSet(q.order)
        BY <3>1 DEF ToSet
      <4>2. q.order[i].field \in Available
        BY <2>1, <4>1 DEF Valid, ValidSort
      <4>3. q.order[i] \in Sort
        BY <3>1
      <4> QED BY <4>2, <4>3 DEF Sort
    <3>3. q.order \in [1..Len(q.order) -> By]
      <4>1. q.order = [i \in 1..Len(q.order) |-> q.order[i]]
        BY <3>1
      <4> HIDE DEF By
      <4> QED BY <3>2, <4>1
    <3>4. q.order \in Seq(By)
      <4> HIDE DEF By
      <4> QED BY <3>1, <3>3
    <3> QED BY <2>1, <3>4
  <2>2. CASE q.tool # "search"
    <3>1. <<>> \in Seq(By)
      BY EmptySeq
    <3> QED BY <2>2, <3>1
  <2> QED BY <2>1, <2>2
<1>2. fields \in Seq(Available)
  <2>1. Visible \in Seq(Available) /\ PrimaryKey \in Seq(Available)
    <3>1. /\ Len(Visible) \in Nat /\ DOMAIN Visible = 1..Len(Visible)
          /\ Visible = [i \in 1..Len(Visible) |-> Visible[i]]
      BY Schema, LenProperties
    <3>2. /\ Len(PrimaryKey) \in Nat /\ DOMAIN PrimaryKey = 1..Len(PrimaryKey)
          /\ PrimaryKey = [i \in 1..Len(PrimaryKey) |-> PrimaryKey[i]]
      BY Schema, LenProperties
    <3>3. /\ \A i \in 1..Len(Visible) : Visible[i] \in Available
          /\ \A i \in 1..Len(PrimaryKey) : PrimaryKey[i] \in Available
      BY <3>1, <3>2, Exposed DEF Available, ToSet
    <3>4. Visible \in [1..Len(Visible) -> Available] /\ PrimaryKey \in [1..Len(PrimaryKey) -> Available]
      BY <3>1, <3>2, <3>3
    <3> QED BY <3>1, <3>2, <3>4
  <2>2. SubSeq(Visible, 1, IF Visible = <<>> THEN 0 ELSE 1) \in Seq(Available)
    <3> DEFINE n == IF Visible = <<>> THEN 0 ELSE 1
    <3>1. Visible # <<>> => Len(Visible) \in Nat \ {0}
      BY <2>1, EmptySeq
    <3>2. 1 \in Int /\ n \in Int /\ \A i \in 1..n : Visible[i] \in Available
      BY <2>1, <3>1, ElementOfSeq
    <3> HIDE DEF n
    <3>3. SubSeq(Visible, 1, n) \in Seq(Available)
      BY <3>2, SubSeqProperties
    <3> QED BY <3>3 DEF n
  <2> QED BY <2>1, <2>2
<1>3. DefaultOrder \in Seq(By)
  <2>1. DefaultOrder = [i \in DOMAIN fields |-> [field |-> fields[i], direction |-> "asc"]]
    BY DEF DefaultOrder, AscendingBy
  <2> HIDE DEF fields
  <2>2. DOMAIN fields = 1..Len(fields) /\ Len(fields) \in Nat
        /\ \A i \in 1..Len(fields) : fields[i] \in Available
    BY <1>2, LenProperties, ElementOfSeq
  <2>3. DefaultOrder \in [1..Len(fields) -> By]
    BY <2>1, <2>2
  <2> HIDE DEF By
  <2> QED BY <2>2, <2>3
<1>4. OrderOf(q) = order \o DefaultOrder
  BY DEF OrderOf, EffectiveOrder
<1> HIDE DEF order, By
<1>5. order \o DefaultOrder \in Seq(By)
  BY ONLY <1>1, <1>3, ConcatProperties
<1>6. /\ DOMAIN OrderOf(q) = 1..Len(OrderOf(q)) /\ Len(OrderOf(q)) \in Nat
      /\ \A i \in 1..Len(OrderOf(q)) : OrderOf(q)[i] \in By
  BY <1>4, <1>5, LenProperties, ElementOfSeq
<1> QED BY <1>6 DEF By

\* And it puts two rows as it puts those that look like them.
LEMMA PrecedesAlike ==
    ASSUME NEW r, NEW t, \A f \in Available : t[f] = r[f],
           NEW c, NEW d, \A f \in Available : d[f] = c[f],
           NEW order, NEW n \in Nat, DOMAIN order = 1..n,
           \A i \in DOMAIN order : order[i].field \in Available
    PROVE  Precedes(order, d, t) <=> Precedes(order, c, r)
<1>1. ASSUME NEW i \in 1..n
      PROVE  /\ Less(order[i], d, t) <=> Less(order[i], c, r)
             /\ \A j \in 1..(i - 1) :
                   d[order[j].field] = t[order[j].field] <=> c[order[j].field] = r[order[j].field]
  <2>1. Less(order[i], d, t) <=> Less(order[i], c, r)
    BY DEF Less
  <2>2. \A j \in 1..(i - 1) : j \in 1..n
    OBVIOUS
  <2> QED BY <2>1, <2>2
<1> QED BY <1>1 DEF Precedes

\* What a table shows, one that looks like it shows.
LEMMA ShownAlike ==
    ASSUME NEW A, IsFiniteSet(A), NEW B, NEW phi, LooksLike(phi, A, B),
           NEW q \in Query, Valid(q)
    PROVE  Shown(A, q) \subseteq Shown(B, q)
<1> DEFINE MA == Matching(A, q)
           MB == Matching(B, q)
           n == Cardinality(MA)
           order == OrderOf(q)
           psi == [r \in MA |-> phi[r]]
<1>1. MA \subseteq A /\ MB \subseteq B
  BY DEF Matching, Where, Related
<1>2. /\ \A a \in A : phi[a] \in B /\ \A f \in Available : phi[a][f] = a[f]
      /\ \A b \in B : \E a \in A : phi[a] = b
      /\ \A a, c \in A : phi[a] = phi[c] => a = c
  BY DEF LooksLike, Bijection, Injection, Surjection, IsInjective
<1>3. \A r \in A : r \in MA <=> phi[r] \in MB
  BY MatchingAlike
<1> HIDE DEF MA, MB
<1>4. psi \in Bijection(MA, MB)
  <2>1. psi \in [MA -> MB]
    BY <1>1, <1>3
  <2>2. \A a, c \in MA : psi[a] = psi[c] => a = c
    BY <1>1, <1>2
  <2>3. \A b \in MB : \E a \in MA : psi[a] = b
    BY <1>1, <1>2, <1>3
  <2> HIDE DEF psi
  <2> QED BY <2>1, <2>2, <2>3 DEF Bijection, Injection, Surjection, IsInjective
<1>5. IsFiniteSet(MA) /\ n \in Nat /\ Cardinality(MB) = n
  <2>1. IsFiniteSet(MA)
    BY <1>1, FS_Subset
  <2>2. ExistsBijection(MA, MB)
    BY <1>4 DEF ExistsBijection
  <2> QED BY <2>1, <2>2, FS_Bijection, FS_CardinalityType
<1>6. /\ Len(order) \in Nat /\ DOMAIN order = 1..Len(order)
      /\ \A i \in DOMAIN order : order[i].field \in Available
  BY OrderIsShown
<1> HIDE DEF order, n
<1>7. SUFFICES ASSUME NEW s \in Arrangements(MA, order)
               PROVE  \E t \in Arrangements(MB, order) :
                         [i \in DOMAIN t |-> Project(t[i], q.fields)]
                            = [i \in DOMAIN s |-> Project(s[i], q.fields)]
  BY DEF Shown, MA, MB, order
<1> DEFINE t == [i \in 1..n |-> phi[s[i]]]
<1>8. /\ s \in [1..n -> MA] /\ DOMAIN s = 1..n
      /\ \A i, j \in 1..n : i # j => s[i] # s[j]
      /\ \A i, j \in 1..n : i < j => ~Precedes(order, s[j], s[i])
  BY DEF Arrangements, SetToSeqs, n
<1>9. ASSUME NEW i \in 1..n
      PROVE  /\ s[i] \in A /\ t[i] = phi[s[i]] /\ t[i] \in MB
             /\ \A f \in Available : t[i][f] = s[i][f]
  <2>1. s[i] \in MA /\ s[i] \in A
    BY <1>1, <1>8
  <2> QED BY <1>2, <1>3, <2>1
<1>10. t \in Arrangements(MB, order)
  <2>1. t \in [1..n -> MB]
    BY <1>9
  <2>2. \A i, j \in 1..n : i # j => t[i] # t[j]
    BY <1>2, <1>8, <1>9
  <2>3. ASSUME NEW i \in 1..n, NEW j \in 1..n, i < j PROVE ~Precedes(order, t[j], t[i])
    <3>1. (\A f \in Available : t[i][f] = s[i][f]) /\ (\A f \in Available : t[j][f] = s[j][f])
      BY <1>9
    <3> HIDE DEF t
    <3>2. Precedes(order, t[j], t[i]) <=> Precedes(order, s[j], s[i])
      BY <1>6, <3>1, PrecedesAlike
    <3> QED BY <1>8, <2>3, <3>2
  <2>4. DOMAIN t = 1..n
    OBVIOUS
  <2> HIDE DEF t
  <2> QED BY <1>5, <2>1, <2>2, <2>3, <2>4 DEF Arrangements, SetToSeqs
<1>11. ASSUME NEW i \in 1..n PROVE Project(t[i], q.fields) = Project(s[i], q.fields)
  <2>1. ToSet(q.fields) \subseteq Available
    BY DEF Valid, ValidFields
  <2>2. \A f \in ToSet(q.fields) : t[i][f] = s[i][f]
    BY <1>9, <2>1
  <2> HIDE DEF t
  <2> QED BY <2>2 DEF Project
<1>12. DOMAIN t = 1..n
  OBVIOUS
<1> HIDE DEF t
<1>13. [i \in DOMAIN t |-> Project(t[i], q.fields)] = [i \in DOMAIN s |-> Project(s[i], q.fields)]
  BY <1>8, <1>11, <1>12
<1> QED BY <1>10, <1>13

\* To look alike is mutual.
LEMMA AlikeBack ==
    ASSUME NEW A, NEW B, NEW phi, LooksLike(phi, A, B)
    PROVE  \E psi : LooksLike(psi, B, A)
<1>1. /\ \A a \in A : phi[a] \in B /\ \A f \in Available : phi[a][f] = a[f]
      /\ \A b \in B : \E a \in A : phi[a] = b
      /\ \A a, c \in A : phi[a] = phi[c] => a = c
  BY DEF LooksLike, Bijection, Injection, Surjection, IsInjective
<1> DEFINE psi == [b \in B |-> CHOOSE a \in A : phi[a] = b]
<1>2. \A b \in B : psi[b] \in A /\ phi[psi[b]] = b
  BY <1>1
<1>3. psi \in [B -> A]
  BY <1>2
<1> HIDE DEF psi
<1>4. \A a \in A : psi[phi[a]] = a
  BY <1>1, <1>2
<1>5. psi \in Bijection(B, A)
  <2>1. \A b, d \in B : psi[b] = psi[d] => b = d
    BY <1>2
  <2>2. \A a \in A : \E b \in B : psi[b] = a
    BY <1>1, <1>4
  <2> QED BY <1>3, <2>1, <2>2 DEF Bijection, Injection, Surjection, IsInjective
<1>6. \A b \in B : \A f \in Available : psi[b][f] = b[f]
  BY <1>1, <1>2
<1> QED BY <1>5, <1>6 DEF LooksLike

LEMMA HiddenIsUnseen ==
    ASSUME table \subseteq Row
    PROVE  HiddenHasNoInfluence
<1> SUFFICES ASSUME NEW q \in Query, Valid(q), NEW other \in Lookalikes
             PROVE  Shown(other, q) = Shown(table, q)
  BY DEF HiddenHasNoInfluence
<1>1. PICK changed \in SUBSET table :
         /\ other = {IF r \in changed THEN Disguised(r) ELSE r : r \in table}
         /\ Cardinality(other) = Cardinality(table)
  BY DEF Lookalikes
<1> DEFINE phi == [r \in table |-> IF r \in changed THEN Disguised(r) ELSE r]
<1>2. IsFiniteSet(table)
  <2>1. IsFiniteSet(Row)
    BY Typed
  <2> QED BY <2>1, FS_Subset
<1>3. phi \in Surjection(table, other)
  <2>1. phi \in [table -> other]
    BY <1>1
  <2>2. \A b \in other : \E r \in table : phi[r] = b
    BY <1>1
  <2> HIDE DEF phi
  <2> QED BY <2>1, <2>2 DEF Surjection
<1>4. \A r \in table : \A f \in Available : phi[r][f] = r[f]
  <2> SUFFICES ASSUME NEW r \in table, NEW f \in Available PROVE phi[r][f] = r[f]
    OBVIOUS
  <2>1. f \in Field
    <3>1. \A i \in DOMAIN Visible : Visible[i] \in Field
      BY Schema, LenProperties, ElementOfSeq
    <3> QED BY <3>1 DEF Available, ToSet
  <2>2. DOMAIN r = Field
    BY Typed
  <2>3. Disguised(r)[f] = r[f]
    BY <2>1, <2>2 DEF Disguised
  <2> QED BY <2>3
<1> HIDE DEF phi
<1>5. phi \in Injection(table, other)
  BY <1>1, <1>2, <1>3, FS_Surjection
<1>6. LooksLike(phi, table, other)
  BY <1>3, <1>4, <1>5 DEF LooksLike, Bijection
<1>7. PICK psi : LooksLike(psi, other, table)
  BY <1>6, AlikeBack
<1>8. IsFiniteSet(other)
  BY <1>2, <1>3, FS_Surjection
<1>9. Shown(table, q) \subseteq Shown(other, q)
  BY <1>2, <1>6, ShownAlike
<1>10. Shown(other, q) \subseteq Shown(table, q)
  BY <1>7, <1>8, ShownAlike
<1> QED BY <1>9, <1>10

-----------------------------------------------------------------------------
(* Theorems.                                                                *)

\* The invariant holds in every state.
THEOREM Invariance == Spec => []IInv
<1>1. ASSUME IInv, [Next]_vars PROVE IInv'
  <2>1. CASE \E q \in Query : \E limit \in Limits : FirstPage(q, limit)
    BY <1>1, <2>1, FirstPageStep
  <2>2. CASE \E q \in Query : \E limit \in Limits : NextPage(q, limit)
    BY <1>1, <2>2, NextPageStep
  <2>3. CASE Restart
    BY <1>1, <2>3, RestartStep
  <2>4. CASE (\E q \in Query : CursorRefused(q)) \/ Write \/ ChangeSchema \/ UNCHANGED vars
    BY <1>1, <2>4, OtherSteps
  <2> QED BY <1>1, <2>1, <2>2, <2>3, <2>4 DEF Next
<1> QED BY InitStep, <1>1, PTL DEF Spec

\* The pages of a scan are pages of one query under one schema
\* (CursorCodec.decode).
THEOREM PagesBelongTogether == Spec => []OneQueryPerScan
<1>1. IInv => OneQueryPerScan
  BY DEF IInv
<1> QED BY <1>1, Invariance, PTL

\* A scan reads no deeper than one page past the bound on offsets
\* (CursorCodec._max_offset).
THEOREM ScansAreBounded == Spec => []DepthBounded
<1>1. IInv => DepthBounded
  BY DEF IInv
<1> QED BY <1>1, Invariance, PTL

\* While nothing is written, the pages of an entity with a primary key tile
\* the result, whatever the sort, the page sizes and the rows.
THEOREM PagesTileTheResult == Spec => []PagesTile
<1>1. IInv => PagesTile
  <2> SUFFICES ASSUME IInv, quiet, PrimaryKey # <<>>, trail # <<>>
               PROVE  /\ got = SubSeq(TheRows, 1, Len(got))
                      /\ state = "end" => Len(got) = Len(TheRows)
    BY DEF PagesTile, TheRows
  <2>1. /\ got \in Seq(Row) /\ TheRows \in Seq(Row) /\ Len(got) <= Len(TheRows)
        /\ \A i \in 1..Len(got) : got[i] = TheRows[i]
        /\ state = "end" => Len(got) = Len(TheRows)
    BY DEF IInv, ScanInv, Tiled
  <2> HIDE DEF TheRows
  <2> DEFINE prefix == SubSeq(TheRows, 1, Len(got))
  <2>2. Len(got) \in Nat /\ Len(TheRows) \in Nat /\ \A i \in 1..Len(TheRows) : TheRows[i] \in Row
    BY <2>1, LenProperties, ElementOfSeq
  <2>3. \A i \in 1..Len(got) : TheRows[i] \in Row
    BY <2>1, <2>2
  <2>4. prefix \in Seq(Row) /\ Len(prefix) = Len(got) /\ \A i \in 1..Len(got) : prefix[i] = TheRows[i]
    BY <2>2, <2>3, SubSeqProperties
  <2> HIDE DEF prefix
  <2>5. got = prefix
    BY <2>1, <2>4, SeqEqual
  <2> QED BY <2>1, <2>5 DEF prefix
<1> QED BY <1>1, Invariance, PTL

\* The scan, its cursor and the table keep their types.
THEOREM TypeCorrect == Spec => []TypeOK
<1>1. Init => TypeOK /\ CursorKept
  <2> SUFFICES ASSUME Init PROVE TypeOK /\ CursorKept
    OBVIOUS
  <2>1. <<>> \in Seq(Row) /\ <<>> \in Seq(Query \X (0..MaxVersion))
    BY EmptySeq
  <2> QED BY <2>1, Bounds DEF Init, TypeOK, CursorKept
<1>2. (TypeOK /\ CursorKept) /\ [Next]_vars => (TypeOK /\ CursorKept)'
  BY TypeStep
<1> QED BY <1>1, <1>2, PTL DEF Spec

\* In a table that PostgreSQL keeps consistent, a record is found by its key, and
\* a relation leads back to where it came from, for keys of any fields.
THEOREM RelationsCanBeReversed == Spec => []RelationsGoBothWays
<1>1. IInv => RelationsGoBothWays
  BY RelationsReverse DEF IInv, ScanInv
<1> QED BY <1>1, Invariance, PTL

\* For any schema, policy, rows and valid request: tables that differ only in
\* fields the policy hides have the same answers.
THEOREM HiddenFieldsShowNowhere == Spec => []HiddenHasNoInfluence
<1>1. IInv => HiddenHasNoInfluence
  BY HiddenIsUnseen DEF IInv, ScanInv
<1> QED BY <1>1, Invariance, PTL

\* For any rows, filters, fields and limits: the groups of an aggregate count the
\* rows that searches narrowed to them find, none twice, and it is said to be
\* truncated if and only if it leaves a row out.
THEOREM AggregatesCanBeFollowed == Spec => []CountsCanBeFollowed
<1>1. IInv => CountsCanBeFollowed
  BY CountsFollowed DEF IInv, ScanInv
<1> QED BY <1>1, Invariance, PTL
=============================================================================
