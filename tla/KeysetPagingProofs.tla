--------------------------- MODULE KeysetPagingProofs ---------------------------
(***************************************************************************)
(* Theorems about KeysetPaging, for any ids, page sizes and writes: a scan *)
(* hands out ids in ascending order, none twice, and one that came to its  *)
(* end has every row that matched all along.  And about CustomerLookup, for *)
(* any tables and any catalog: a lookup answers nothing by a field that the *)
(* catalog hides, and finds an identifier in every form of it.             *)
(*                                                                         *)
(* The scan: after_id separates what it has from what is to come.  All it  *)
(* has is at most after_id, and of the rows that match all along none up to *)
(* after_id is missing.  A page keeps that because LIMIT leaves out only   *)
(* rows behind those it returns, and writes keep it because they can only  *)
(* take rows out of those that match all along.                            *)
(*                                                                         *)
(* The lookups: what a SELECT reads of a row is required of the catalog, so *)
(* a table in which only a hidden field was changed gives the same rows of *)
(* every field that is read, to each join and each condition.  Forms of an *)
(* identifier: taking characters out in two rounds is taking them out in   *)
(* one, and what is shaped like a number has nothing around it that one of *)
(* SQL's btrim and Python's strip takes for a blank and the other does not. *)
(***************************************************************************)
EXTENDS CustomerLookup, SequenceTheorems, WellFoundedInduction, TLAPS

\* after_id separates what the scan has from what is to come.
Separates ==
    /\ state = "new" => after = 0 /\ got = <<>>
    /\ state = "more" => \A i \in 1..Len(got) : got[i] <= after
    /\ state # "end" => \A i \in steady : i > after \/ i \in ToSet(got)

Typed ==
    /\ matching \subseteq Ids /\ steady \subseteq matching
    /\ after \in Ids \cup {0}
    /\ got \in Seq(Ids)
    /\ state \in {"new", "more", "end"}
    /\ writes \in 0..MaxWrites

IInv == Typed /\ Separates /\ Ascending /\ NothingMissed

USE Bounds

-----------------------------------------------------------------------------
(* Sequences.                                                               *)

LEMMA ToSetIsRange ==
    ASSUME NEW R, NEW s \in Seq(R)
    PROVE  /\ Len(s) \in Nat
           /\ \A i \in 1..Len(s) : s[i] \in R /\ s[i] \in ToSet(s)
           /\ \A x \in ToSet(s) : \E i \in 1..Len(s) : s[i] = x
<1>1. Len(s) \in Nat /\ DOMAIN s = 1..Len(s) /\ \A i \in 1..Len(s) : s[i] \in R
  BY LenProperties, ElementOfSeq
<1> QED BY <1>1 DEF ToSet

\* What a page hands out is a prefix of what it has read.
LEMMA VisibleIsPrefix ==
    ASSUME NEW R, NEW rows \in Seq(R), NEW limit \in Nat
    PROVE  /\ Visible(rows, limit) \in Seq(R)
           /\ Len(Visible(rows, limit)) = IF Len(rows) < limit THEN Len(rows) ELSE limit
           /\ \A i \in 1..Len(Visible(rows, limit)) : Visible(rows, limit)[i] = rows[i]
<1> DEFINE n == IF Len(rows) < limit THEN Len(rows) ELSE limit
           v == SubSeq(rows, 1, n)
<1>1. Len(rows) \in Nat /\ \A i \in 1..Len(rows) : rows[i] \in R
  BY ToSetIsRange
<1>2. n \in Nat /\ n <= Len(rows) /\ n <= limit
  BY <1>1
<1>3. 1 \in Int /\ n \in Int /\ \A i \in 1..n : rows[i] \in R
  BY <1>1, <1>2
<1> HIDE DEF n
<1>4. /\ v \in Seq(R) /\ Len(v) = IF 1 <= n THEN n - 1 + 1 ELSE 0
      /\ \A i \in 1..(n - 1 + 1) : v[i] = rows[1 + i - 1]
  BY <1>3, SubSeqProperties
<1>5. Len(v) = n
  BY <1>2, <1>4
<1>6. ASSUME NEW i \in 1..n PROVE v[i] = rows[i]
  <2>1. i \in 1..(n - 1 + 1) /\ 1 + i - 1 = i
    BY <1>2
  <2> QED BY <1>4, <2>1
<1>7. Visible(rows, limit) = v
  BY DEF Visible, n
<1> QED BY <1>4, <1>5, <1>6, <1>7 DEF n

-----------------------------------------------------------------------------
(* A page.                                                                  *)

\* What the SELECT returns, and what it may leave out.
LEMMA SelectReturns ==
    ASSUME Typed, NEW n \in Nat, NEW rows \in Select(n)
    PROVE  /\ rows \in Seq(Ids) /\ Len(rows) \in Nat /\ Len(rows) <= n
           /\ \A i \in 1..Len(rows) : rows[i] \in matching /\ rows[i] > after
           /\ Ascends(rows)
           /\ \A i \in matching : i > after =>
                 \/ i \in ToSet(rows)
                 \/ Len(rows) = n /\ \A j \in 1..n : rows[j] < i
<1> DEFINE s == {i \in matching : i > after}
<1>1. PICK k \in 0..n : rows \in [1..k -> s]
  BY DEF Select, Ordered
<1>2. k \in Nat /\ rows \in Seq(s) /\ Len(rows) = k
  BY <1>1
<1>3. \A i \in 1..Len(rows) : rows[i] \in s
  BY <1>1, <1>2
<1>4. rows \in Seq(Ids)
  <2>1. s \subseteq Ids
    BY DEF Typed
  <2>2. rows \in [1..k -> Ids]
    <3> HIDE DEF s
    <3> QED BY <1>1, <2>1
  <2> QED BY <1>2, <2>2
<1>5. Ascends(rows) /\ \A i \in s \ ToSet(rows) : Len(rows) = n /\ \A j \in 1..n : rows[j] < i
  BY DEF Select, Ordered
<1> QED BY <1>2, <1>3, <1>4, <1>5

LEMMA PageStep ==
    ASSUME IInv, NEW limit \in Limits, Page(limit)
    PROVE  IInv'
<1>1. state # "end" /\ limit \in Nat /\ limit >= 1 /\ limit + 1 \in Nat
      /\ UNCHANGED <<matching, steady, writes>>
  BY DEF Page, ValidPage
<1>2. PICK rows \in Select(limit + 1) :
         /\ got' = got \o Visible(rows, limit)
         /\ after' = IF Len(rows) > limit THEN Last(Visible(rows, limit)) ELSE after
         /\ state' = IF Len(rows) > limit THEN "more" ELSE "end"
  BY DEF Page
<1>3. /\ rows \in Seq(Ids) /\ Len(rows) \in Nat /\ Len(rows) <= limit + 1
      /\ \A i \in 1..Len(rows) : rows[i] \in matching /\ rows[i] > after
      /\ Ascends(rows)
      /\ \A i \in matching : i > after =>
            \/ i \in ToSet(rows)
            \/ Len(rows) = limit + 1 /\ \A j \in 1..(limit + 1) : rows[j] < i
  BY <1>1, <1>2, SelectReturns DEF IInv
<1> DEFINE v == Visible(rows, limit)
<1>4. /\ v \in Seq(Ids)
      /\ Len(v) = IF Len(rows) < limit THEN Len(rows) ELSE limit
      /\ \A i \in 1..Len(v) : v[i] = rows[i]
  BY <1>1, <1>3, VisibleIsPrefix
<1> HIDE DEF v
<1>5. /\ got' = got \o v /\ state' = (IF Len(rows) > limit THEN "more" ELSE "end")
      /\ after' = IF Len(rows) > limit THEN v[Len(v)] ELSE after
  BY <1>2 DEF v, Last
<1>6. /\ Len(v) \in Nat /\ Len(v) <= limit /\ Len(v) <= Len(rows)
      /\ Len(rows) > limit => Len(rows) = limit + 1 /\ Len(v) = limit /\ Len(v) >= 1
      /\ ~(Len(rows) > limit) => Len(v) = Len(rows)
  BY <1>1, <1>3, <1>4
<1>7. got \in Seq(Ids) /\ Len(got) \in Nat /\ after \in Nat
      /\ \A i \in 1..Len(got) : got[i] \in Nat /\ got[i] <= after
  <2>1. got \in Seq(Ids) /\ after \in Nat
    BY DEF IInv, Typed
  <2>2. Len(got) \in Nat /\ \A i \in 1..Len(got) : got[i] \in Ids
    BY <2>1, ToSetIsRange
  <2>3. \A i \in 1..Len(got) : got[i] <= after
    <3>1. CASE state = "new"
      BY <3>1, <2>2 DEF IInv, Separates
    <3>2. CASE state = "more"
      BY <3>2 DEF IInv, Separates
    <3> QED BY <1>1, <3>1, <3>2 DEF IInv, Typed
  <2> QED BY <2>1, <2>2, <2>3
<1>8. \A i \in 1..Len(v) : v[i] \in Nat /\ v[i] > after
  <2> SUFFICES ASSUME NEW i \in 1..Len(v) PROVE v[i] \in Nat /\ v[i] > after
    OBVIOUS
  <2>1. i \in 1..Len(rows)
    BY <1>3, <1>6
  <2>2. v[i] = rows[i] /\ rows[i] \in matching /\ rows[i] > after
    BY <1>3, <1>4, <2>1
  <2>3. matching \subseteq Ids
    BY DEF IInv, Typed
  <2>4. rows[i] \in Nat
    BY <2>2, <2>3
  <2> QED BY <2>2, <2>4
<1>9. /\ got' \in Seq(Ids) /\ Len(got') = Len(got) + Len(v)
      /\ \A i \in 1..Len(got') :
            got'[i] = IF i <= Len(got) THEN got[i] ELSE v[i - Len(got)]
  <2>1. got \in Seq(Ids) /\ v \in Seq(Ids)
    BY <1>4, <1>7
  <2>2. /\ got \o v \in Seq(Ids) /\ Len(got \o v) = Len(got) + Len(v)
        /\ \A i \in 1..(Len(got) + Len(v)) :
              (got \o v)[i] = IF i <= Len(got) THEN got[i] ELSE v[i - Len(got)]
    BY ONLY <2>1, ConcatProperties
  <2> QED BY <1>5, <2>2
<1>10. \A i \in 1..Len(got') :
          \/ i \in 1..Len(got) /\ got'[i] = got[i]
          \/ i > Len(got) /\ i - Len(got) \in 1..Len(v) /\ got'[i] = v[i - Len(got)]
  BY <1>6, <1>7, <1>9
<1>11. Ascending'
  <2>1. \A i, j \in 1..Len(v) : i < j => v[i] < v[j]
    BY <1>3, <1>4, <1>6 DEF Ascends
  <2>2. ASSUME NEW i \in 1..Len(got'), NEW j \in 1..Len(got'), i < j
        PROVE  got'[i] < got'[j]
    <3>1. CASE j <= Len(got)
      <4>1. /\ i \in 1..Len(got) /\ j \in 1..Len(got)
            /\ got'[i] = got[i] /\ got'[j] = got[j]
        BY <1>6, <1>7, <1>10, <2>2, <3>1
      <4> QED BY <2>2, <4>1 DEF IInv, Ascending, Ascends
    <3>2. CASE i <= Len(got) /\ ~(j <= Len(got))
      <4>1. i \in 1..Len(got) /\ got'[i] = got[i]
        BY <1>6, <1>7, <1>10, <3>2
      <4>2. PICK k \in 1..Len(v) : got'[j] = v[k]
        BY <1>7, <1>10, <3>2
      <4>3. got[i] \in Nat /\ got[i] <= after /\ v[k] \in Nat /\ v[k] > after
        BY <1>7, <1>8, <4>1
      <4> QED BY <1>7, <4>1, <4>2, <4>3
    <3>3. CASE ~(i <= Len(got))
      <4>1. /\ i - Len(got) \in 1..Len(v) /\ got'[i] = v[i - Len(got)]
            /\ j - Len(got) \in 1..Len(v) /\ got'[j] = v[j - Len(got)]
            /\ i - Len(got) < j - Len(got)
        BY <1>6, <1>7, <1>9, <1>10, <2>2, <3>3
      <4> QED BY <2>1, <4>1
    <3> QED BY <1>7, <1>9, <3>1, <3>2, <3>3
  <2> QED BY <2>2 DEF Ascending, Ascends
<1>12. Typed'
  <2>1. Len(rows) > limit => Len(v) \in 1..Len(v)
    BY <1>6
  <2>2. \A i \in 1..Len(v) : v[i] \in Ids
    BY <1>4, ToSetIsRange
  <2>3. after' \in Ids \cup {0}
    BY <1>5, <2>1, <2>2 DEF IInv, Typed
  <2> QED BY <1>1, <1>5, <1>9, <2>3 DEF IInv, Typed
<1>13. ToSet(got) \subseteq ToSet(got') /\ \A i \in 1..Len(v) : v[i] \in ToSet(got')
  <2>1. \A i \in 1..Len(got') : got'[i] \in ToSet(got')
    BY <1>9, ToSetIsRange
  <2>2. \A x \in ToSet(got) : \E i \in 1..Len(got) : got[i] = x
    BY <1>7, ToSetIsRange
  <2>3. \A i \in 1..Len(got) : i \in 1..Len(got') /\ got'[i] = got[i]
    BY <1>6, <1>7, <1>9
  <2>4. \A i \in 1..Len(v) : Len(got) + i \in 1..Len(got') /\ got'[Len(got) + i] = v[i]
    <3> SUFFICES ASSUME NEW i \in 1..Len(v)
                 PROVE  Len(got) + i \in 1..Len(got') /\ got'[Len(got) + i] = v[i]
      OBVIOUS
    <3>1. Len(got) + i \in 1..Len(got') /\ ~(Len(got) + i <= Len(got))
          /\ (Len(got) + i) - Len(got) = i
      BY <1>6, <1>7, <1>9
    <3> QED BY <1>9, <3>1
  <2> QED BY <2>1, <2>2, <2>3, <2>4
\* A row that matches all along has been handed out, or comes behind the page.
<1>14. ASSUME NEW i \in steady
       PROVE  \/ i \in ToSet(got')
              \/ Len(rows) > limit /\ i > v[Len(v)]
  <2>1. i \in matching /\ i \in Nat
    BY DEF IInv, Typed
  <2>2. CASE i \in ToSet(got)
    BY <1>13, <2>2
  <2>3. CASE i > after /\ i \in ToSet(rows)
    <3>1. PICK k \in 1..Len(rows) : rows[k] = i
      BY <1>3, <2>3, ToSetIsRange
    <3>2. CASE k <= Len(v)
      <4>1. k \in 1..Len(v) /\ v[k] = i
        BY <1>4, <1>6, <3>1, <3>2
      <4> QED BY <1>13, <4>1
    <3>3. CASE ~(k <= Len(v))
      <4>1. Len(rows) > limit /\ Len(v) \in 1..Len(rows) /\ Len(v) < k /\ Len(v) \in 1..Len(v)
        BY <1>3, <1>6, <3>1, <3>3
      <4>2. rows[Len(v)] < rows[k]
        BY <1>3, <3>1, <4>1 DEF Ascends
      <4>3. v[Len(v)] = rows[Len(v)] /\ v[Len(v)] \in Nat
        BY <1>4, <1>8, <4>1
      <4> QED BY <2>1, <3>1, <4>1, <4>2, <4>3
    <3> QED BY <3>2, <3>3
  <2>4. CASE i > after /\ i \notin ToSet(rows)
    <3>1. Len(rows) = limit + 1 /\ \A j \in 1..(limit + 1) : rows[j] < i
      BY <1>3, <2>1, <2>4
    <3>2. Len(rows) > limit /\ Len(v) = limit /\ limit \in 1..(limit + 1) /\ limit \in 1..limit
      BY <1>1, <1>6, <3>1
    <3>3. v[limit] = rows[limit] /\ rows[limit] < i /\ v[limit] \in Nat
      BY <1>4, <1>8, <3>1, <3>2
    <3> QED BY <2>1, <3>2, <3>3
  <2> QED BY <1>1, <2>2, <2>3, <2>4 DEF IInv, Separates
<1>15. Separates'
  <2>1. state' # "new"
    BY <1>5
  <2>2. ASSUME state' = "more" PROVE \A i \in 1..Len(got') : got'[i] <= after'
    <3>1. Len(rows) > limit /\ after' = v[Len(v)] /\ Len(v) \in 1..Len(v)
      BY <1>5, <1>6, <2>2
    <3>2. after' \in Nat /\ after' > after
      BY <1>8, <3>1
    <3>3. \A i \in 1..Len(v) : v[i] <= after'
      <4>1. \A i \in 1..Len(v) : i < Len(v) => v[i] < v[Len(v)]
        BY <1>3, <1>4, <1>6, <3>1 DEF Ascends
      <4>2. \A i \in 1..Len(v) : i < Len(v) \/ i = Len(v)
        BY <1>6
      <4> QED BY <1>8, <3>1, <4>1, <4>2
    <3>4. SUFFICES ASSUME NEW i \in 1..Len(got') PROVE got'[i] <= after'
      OBVIOUS
    <3>5. CASE i \in 1..Len(got)
      <4>1. got'[i] = got[i] /\ got[i] \in Nat /\ got[i] <= after
        BY <1>7, <1>9, <3>5
      <4> QED BY <1>7, <3>2, <4>1
    <3>6. CASE i \notin 1..Len(got)
      <4>1. i - Len(got) \in 1..Len(v) /\ ~(i <= Len(got))
        BY <1>6, <1>7, <1>9, <3>6
      <4>2. got'[i] = v[i - Len(got)]
        BY <1>9, <4>1
      <4> QED BY <3>3, <4>1, <4>2
    <3> QED BY <3>5, <3>6
  <2>3. ASSUME state' # "end", NEW i \in steady' PROVE i > after' \/ i \in ToSet(got')
    BY <1>1, <1>5, <1>14, <2>3
  <2> QED BY <2>1, <2>2, <2>3 DEF Separates
<1>16. NothingMissed'
  <2> SUFFICES ASSUME state' = "end", NEW i \in steady' PROVE i \in ToSet(got')
    BY DEF NothingMissed
  <2> QED BY <1>1, <1>5, <1>14
<1> QED BY <1>11, <1>12, <1>15, <1>16 DEF IInv

-----------------------------------------------------------------------------
(* The other steps.                                                         *)

LEMMA InitHolds == Init => IInv
<1> SUFFICES ASSUME Init PROVE IInv
  OBVIOUS
<1>1. Typed
  BY DEF Init, Typed
<1>2. Separates /\ Ascending /\ NothingMissed
  BY DEF Init, Separates, Ascending, Ascends, NothingMissed
<1> QED BY <1>1, <1>2 DEF IInv

\* What is written may stop rows from matching all along, and no more.
LEMMA WriteStep ==
    ASSUME IInv, Write
    PROVE  IInv'
<1>1. /\ matching' \subseteq Ids /\ UNCHANGED <<after, got, state>>
      /\ writes < MaxWrites /\ writes' = writes + 1
      /\ steady' = IF state = "new" THEN matching' ELSE steady \cap matching'
  BY DEF Write
<1>2. Typed'
  BY <1>1 DEF IInv, Typed
<1>3. Separates'
  <2>1. CASE state = "new"
    <3>1. after = 0 /\ \A i \in matching' : i > 0
      BY <1>1, <2>1 DEF IInv, Separates
    <3> QED BY <1>1, <2>1, <3>1 DEF IInv, Separates
  <2>2. CASE state # "new"
    BY <1>1, <2>2 DEF IInv, Separates
  <2> QED BY <2>1, <2>2
<1>4. Ascending' /\ NothingMissed'
  BY <1>1 DEF IInv, Ascending, Ascends, NothingMissed
<1> QED BY <1>2, <1>3, <1>4 DEF IInv

LEMMA RestartStep ==
    ASSUME IInv, Restart
    PROVE  IInv'
<1>1. /\ after' = 0 /\ got' = <<>> /\ state' = "new" /\ steady' = matching
      /\ matching' = matching /\ writes' = writes
  BY DEF Restart
<1>2. Typed'
  BY <1>1 DEF IInv, Typed
<1>3. Separates'
  BY <1>1 DEF IInv, Typed, Separates
<1>4. Ascending' /\ NothingMissed'
  BY <1>1 DEF Ascending, Ascends, NothingMissed
<1> QED BY <1>2, <1>3, <1>4 DEF IInv

LEMMA StutterStep ==
    ASSUME IInv, UNCHANGED vars
    PROVE  IInv'
BY DEF vars, IInv, Typed, Separates, Ascending, Ascends, NothingMissed

LEMMA Invariance == Spec => []IInv
<1>1. IInv /\ [Next]_vars => IInv'
  BY PageStep, WriteStep, RestartStep, StutterStep DEF Next, PageRefused
<1> QED BY <1>1, InitHolds, PTL DEF Spec

\* What a page that promises another does to after_id.
LEMMA PageAdvances ==
    ASSUME Typed, NEW limit \in Limits, Page(limit), state' = "more"
    PROVE  /\ after' > after /\ after' \in matching
           /\ Len(got') > Len(got) /\ Last(got') = after'
<1>1. limit \in Nat /\ limit >= 1 /\ limit + 1 \in Nat
  BY DEF Page, ValidPage
<1>2. PICK rows \in Select(limit + 1) :
         /\ got' = got \o Visible(rows, limit)
         /\ after' = IF Len(rows) > limit THEN Last(Visible(rows, limit)) ELSE after
         /\ Len(rows) > limit
  BY DEF Page
<1>3. /\ rows \in Seq(Ids) /\ Len(rows) \in Nat
      /\ \A i \in 1..Len(rows) : rows[i] \in matching /\ rows[i] > after
  BY <1>1, <1>2, SelectReturns
<1> DEFINE v == Visible(rows, limit)
<1>4. /\ v \in Seq(Ids) /\ Len(v) = limit
      /\ \A i \in 1..Len(v) : v[i] = rows[i]
  <2>1. /\ v \in Seq(Ids) /\ Len(v) = IF Len(rows) < limit THEN Len(rows) ELSE limit
        /\ \A i \in 1..Len(v) : v[i] = rows[i]
    BY <1>1, <1>3, VisibleIsPrefix
  <2> QED BY <1>1, <1>2, <1>3, <2>1
<1>5. got' = got \o v /\ after' = v[Len(v)]
  BY <1>2 DEF Last
<1> HIDE DEF v
<1>6. limit \in 1..Len(rows) /\ v[limit] = rows[limit]
  BY <1>1, <1>2, <1>3, <1>4
<1>7. got \in Seq(Ids) /\ Len(got) \in Nat
  BY LenProperties DEF Typed
<1>8. /\ Len(got \o v) = Len(got) + Len(v)
      /\ \A i \in 1..(Len(got) + Len(v)) :
            (got \o v)[i] = IF i <= Len(got) THEN got[i] ELSE v[i - Len(got)]
  BY ONLY <1>4, <1>7, ConcatProperties
<1>9. /\ Len(got) + limit \in 1..(Len(got) + Len(v)) /\ ~(Len(got) + limit <= Len(got))
      /\ (Len(got) + limit) - Len(got) = limit
  BY <1>1, <1>4, <1>7
<1>10. Last(got') = v[limit] /\ Len(got') > Len(got)
  BY <1>1, <1>4, <1>5, <1>7, <1>8, <1>9 DEF Last
<1> QED BY <1>3, <1>4, <1>5, <1>6, <1>10

\* Every page that has a next one takes the scan further: of any ids and page
\* sizes, and whatever is written between the pages (next_after_id).
THEOREM ScansAdvance == Spec => PagesAdvance
<1>1. IInv /\ [Next]_vars =>
        [state' = "more" /\ UNCHANGED writes
           => /\ after' > after /\ after' \in matching
              /\ Len(got') > Len(got) /\ Last(got') = after']_vars
  <2> SUFFICES ASSUME IInv, [Next]_vars, ~UNCHANGED vars, state' = "more", UNCHANGED writes
               PROVE  /\ after' > after /\ after' \in matching
                      /\ Len(got') > Len(got) /\ Last(got') = after'
    OBVIOUS
  <2>1. ~Write
    BY DEF Write, IInv, Typed
  <2>2. ~Restart
    BY DEF Restart
  <2>3. PICK limit \in Limits : Page(limit)
    BY <2>1, <2>2 DEF Next, PageRefused
  <2> QED BY <2>3, PageAdvances DEF IInv
<1> QED BY <1>1, Invariance, PTL DEF Spec, PagesAdvance

-----------------------------------------------------------------------------
(* The SELECTs of CustomerLookup, and what they do not look at.             *)

\* Row r with another value in field f, and the tables with it throughout t.
Overwritten(r, f) == [g \in DOMAIN r |-> IF g = f THEN Other[f] ELSE r[g]]

Changed(t, f) == [Tables EXCEPT ![t] = {Overwritten(r, f) : r \in @}]

\* Each row of one table has one in the other that is the same in these fields.
SameIn(fields, X, Y) ==
    /\ \A x \in X : \E y \in Y : \A g \in fields : y[g] = x[g]
    /\ \A y \in Y : \E x \in X : \A g \in fields : x[g] = y[g]

LEMMA OverwrittenElsewhere ==
    ASSUME NEW X, NEW f, NEW fields, f \notin fields, \A r \in X : fields \subseteq DOMAIN r
    PROVE  SameIn(fields, X, {Overwritten(r, f) : r \in X})
<1>1. \A r \in X : \A g \in fields : Overwritten(r, f)[g] = r[g]
  BY DEF Overwritten
<1> HIDE DEF Overwritten
<1> QED BY <1>1 DEF SameIn

LEMMA SameInBack ==
    ASSUME NEW fields, NEW X, NEW Y, SameIn(fields, X, Y)
    PROVE  SameIn(fields, Y, X)
BY DEF SameIn

\* Nothing of a customer but these fields is looked at, and nothing of an
\* additional phone unless a phone is asked for.
LEMMA CustomersAlike ==
    ASSUME NEW a, NEW b, NEW query, SameIn(UserFields, a.users, b.users),
           query.phone # Null => SameIn(PhoneFields, a.phones, b.phones)
    PROVE  Customers(a, query) \subseteq Customers(b, query)
<1> DEFINE primary(u) == query.phone # Null /\ StoredPhone(u.username) = query.phone
           additional(c, u) == query.phone # Null /\ \E p \in c.phones :
               p.user_id = u.id /\ StoredPhone(p.number) = query.phone
           row(c, u) ==
               [customer_id |-> u.id, phone |-> u.username, full_name |-> u.full_name,
                matched_primary_phone |-> primary(u), matched_additional_phone |-> additional(c, u)]
           meets(c, u) == /\ query.customer_id \in {Null, u.id}
                          /\ query.phone # Null => primary(u) \/ additional(c, u)
<1>1. Customers(a, query) = {row(a, u) : u \in {v \in a.users : meets(a, v)}}
  BY DEF Customers
<1>2. Customers(b, query) = {row(b, u) : u \in {v \in b.users : meets(b, v)}}
  BY DEF Customers
<1>3. ASSUME NEW u \in a.users, meets(a, u)
      PROVE  \E w \in b.users : meets(b, w) /\ row(b, w) = row(a, u)
  <2>1. PICK w \in b.users : w.id = u.id /\ w.username = u.username /\ w.full_name = u.full_name
    BY DEF SameIn, UserFields
  <2>2. primary(w) <=> primary(u)
    BY <2>1
  <2>3. additional(b, w) <=> additional(a, u)
    <3>1. CASE query.phone = Null
      BY <3>1
    <3>2. CASE query.phone # Null
      <4>1. SameIn(PhoneFields, a.phones, b.phones)
        BY <3>2
      <4>2. /\ \A p \in a.phones : \E o \in b.phones : o.user_id = p.user_id /\ o.number = p.number
            /\ \A p \in b.phones : \E o \in a.phones : o.user_id = p.user_id /\ o.number = p.number
        BY <4>1 DEF SameIn, PhoneFields
      <4>3. (\E p \in b.phones : p.user_id = w.id /\ StoredPhone(p.number) = query.phone)
               <=> \E p \in a.phones : p.user_id = u.id /\ StoredPhone(p.number) = query.phone
        BY <2>1, <4>2
      <4> QED BY <4>3
    <3> QED BY <3>1, <3>2
  <2>4. primary(w) \in BOOLEAN /\ primary(u) \in BOOLEAN
        /\ additional(b, w) \in BOOLEAN /\ additional(a, u) \in BOOLEAN
    OBVIOUS
  <2>5. primary(w) = primary(u) /\ additional(b, w) = additional(a, u)
    <3> HIDE DEF primary, additional
    <3> QED BY <2>2, <2>3, <2>4
  <2> HIDE DEF primary, additional
  <2> QED BY <1>3, <2>1, <2>5
<1> HIDE DEF row, meets
<1> QED BY <1>1, <1>2, <1>3

\* Nor of a vehicle and its owner.
LEMMA VehiclesAlike ==
    ASSUME NEW a, NEW b, NEW query, SameIn(UserFields, a.users, b.users),
           SameIn(CarFields, a.cars, b.cars)
    PROVE  Vehicles(a, query) \subseteq Vehicles(b, query)
<1> DEFINE is(text, value) == value # Null => text # Null /\ StoredVehicle(text) = value
           owner(c, g) ==
               {<<u.username, u.full_name>> : u \in {v \in c.users : v.id = g.owner_id}}
           row(c, g) == <<[f \in CarFields |-> g[f]], owner(c, g)>>
           meets(g) == /\ is(g.plate_number, query.plate)
                       /\ is(g.win_number, query.vin)
                       /\ query.customer_id \in {Null, g.owner_id}
<1>1. Vehicles(a, query) = {row(a, g) : g \in {v \in a.cars : meets(v)}}
  BY DEF Vehicles
<1>2. Vehicles(b, query) = {row(b, g) : g \in {v \in b.cars : meets(v)}}
  BY DEF Vehicles
<1>3. ASSUME NEW g \in a.cars, meets(g)
      PROVE  \E h \in b.cars : meets(h) /\ row(b, h) = row(a, g)
  <2>1. PICK h \in b.cars : \A f \in CarFields : h[f] = g[f]
    BY DEF SameIn
  <2>2. /\ h.plate_number = g.plate_number /\ h.win_number = g.win_number
        /\ h.owner_id = g.owner_id
    BY <2>1 DEF CarFields
  <2>3. meets(h)
    BY <1>3, <2>2
  <2>4. owner(b, h) = owner(a, g)
    <3>1. /\ \A u \in a.users : \E w \in b.users :
                w.id = u.id /\ w.username = u.username /\ w.full_name = u.full_name
          /\ \A u \in b.users : \E w \in a.users :
                w.id = u.id /\ w.username = u.username /\ w.full_name = u.full_name
      BY DEF SameIn, UserFields
    <3> QED BY <2>2, <3>1
  <2>5. [f \in CarFields |-> h[f]] = [f \in CarFields |-> g[f]]
    BY <2>1
  <2> HIDE DEF owner, meets
  <2> QED BY <2>3, <2>4, <2>5
<1> HIDE DEF row, meets
<1> QED BY <1>1, <1>2, <1>3

LEMMA AnswersAlike ==
    ASSUME NEW query \in Lookups, NEW t \in DOMAIN Tables, NEW f,
           LET fields(u) == UNION {DOMAIN r : r \in Tables[u]}
           IN  Required(query, [u \in DOMAIN Tables |-> fields(u) \ IF u = t THEN {f} ELSE {}])
    PROVE  Answer(Changed(t, f), query) = Answer(Tables, query)
<1> DEFINE fields(u) == UNION {DOMAIN r : r \in Tables[u]}
           visible == [u \in DOMAIN Tables |-> fields(u) \ IF u = t THEN {f} ELSE {}]
           new == Changed(t, f)
<1>1. \A u \in DOMAIN Tables : visible[u] = fields(u) \ IF u = t THEN {f} ELSE {}
  OBVIOUS
<1>2. \A u \in DOMAIN Tables :
         new[u] = IF u = t THEN {Overwritten(r, f) : r \in Tables[u]} ELSE Tables[u]
  BY DEF Changed
<1>3. ASSUME NEW u \in DOMAIN Tables, NEW needed, needed \subseteq visible[u]
      PROVE  SameIn(needed, Tables[u], new[u])
  <2>1. CASE u = t
    <3>1. f \notin needed
      BY <1>1, <1>3, <2>1
    <3>2. \A r \in Tables[u] : needed \subseteq DOMAIN r
      BY <1>1, <1>3, LookupTables
    <3>3. new[u] = {Overwritten(r, f) : r \in Tables[u]}
      BY <1>2, <2>1
    <3> HIDE DEF new
    <3> QED BY <3>1, <3>2, <3>3, OverwrittenElsewhere
  <2>2. CASE u # t
    <3>1. new[u] = Tables[u]
      BY <1>2, <2>2
    <3> QED BY <3>1 DEF SameIn
  <2> QED BY <2>1, <2>2
<1>4. Required(query, visible)
  OBVIOUS
<1> HIDE DEF fields, visible, new
<1>5. SameIn(UserFields, Tables.users, new.users)
  <2>1. UserFields \subseteq visible["users"]
    BY <1>4 DEF Required
  <2> QED BY <1>3, <2>1, LookupTables
<1>6. CASE query.tool = "customers"
  <2>1. query.phone # Null => SameIn(PhoneFields, Tables.phones, new.phones)
    <3>1. query.phone # Null => PhoneFields \subseteq visible["phones"]
      BY <1>4, <1>6 DEF Required
    <3> QED BY <1>3, <3>1, LookupTables
  <2>2. Customers(Tables, query) \subseteq Customers(new, query)
    BY <1>5, <2>1, CustomersAlike
  <2>3. Customers(new, query) \subseteq Customers(Tables, query)
    BY <1>5, <2>1, SameInBack, CustomersAlike
  <2>4. Customers(new, query) = Customers(Tables, query)
    BY <2>2, <2>3
  <2>5. Answer(new, query) = Answer(Tables, query)
    BY <1>6, <2>4 DEF Answer
  <2> QED BY <2>5 DEF new
<1>7. CASE query.tool = "vehicles"
  <2>1. SameIn(CarFields, Tables.cars, new.cars)
    <3>1. CarFields \subseteq visible["cars"]
      BY <1>4, <1>7 DEF Required
    <3> QED BY <1>3, <3>1, LookupTables
  <2>2. Vehicles(Tables, query) \subseteq Vehicles(new, query)
    BY <1>5, <2>1, VehiclesAlike
  <2>3. Vehicles(new, query) \subseteq Vehicles(Tables, query)
    BY <1>5, <2>1, SameInBack, VehiclesAlike
  <2>4. Vehicles(new, query) = Vehicles(Tables, query)
    BY <2>2, <2>3
  <2>5. Answer(new, query) = Answer(Tables, query)
    BY <1>7, <2>4 DEF Answer
  <2> QED BY <2>5 DEF new
<1> QED BY <1>6, <1>7, LookupTables

-----------------------------------------------------------------------------
(* Texts without some of their characters.                                  *)

\* A nonempty set of natural numbers has a least one.
LEMMA LeastIndex ==
    ASSUME NEW T \in SUBSET Nat, T # {}
    PROVE  \E i \in T : \A j \in T : i <= j
<1> DEFINE R == {ss \in Nat \X Nat : ss[1] < ss[2]}
<1>1. IsWellFoundedOn(R, Nat)
  BY NatLessThanWellFounded, Zenon DEF OpToRel
<1>2. PICK i \in T : \A j \in T : ~(<<j, i>> \in R)
  <2> HIDE DEF R
  <2> QED BY <1>1, WFMin
<1>3. \A j \in T : ~(j < i)
  BY <1>2
<1> QED BY <1>3

\* Induction over an interval, on the set of the numbers for which a fact holds.
LEMMA IndexInduction ==
    ASSUME NEW n \in Nat, NEW T \in SUBSET (0..n), 0 \in T,
           \A i \in T : i < n => i + 1 \in T
    PROVE  \A i \in 0..n : i \in T
<1> DEFINE C == (0..n) \ T
<1>1. SUFFICES ASSUME C # {} PROVE FALSE
  BY <1>1
<1>2. PICK k \in C : \A j \in C : k <= j
  <2>1. C \in SUBSET Nat
    OBVIOUS
  <2> HIDE DEF C
  <2> QED BY <1>1, <2>1, LeastIndex
<1>3. k - 1 \in 0..n /\ k - 1 < n /\ ~(k <= k - 1) /\ (k - 1) + 1 = k
  BY <1>2
<1>4. k - 1 \in T
  BY <1>2, <1>3
<1> QED BY <1>2, <1>3, <1>4

Text == Seq(Character)

\* One character more of a text of which s is left.
Next1(s, c, chars) == IF c \in chars THEN s ELSE Append(s, c)

\* g tells what is left of the first characters of a text, up to n of them.
Leaves(g, text, chars, n) ==
    /\ g[0] = <<>>
    /\ \A i \in 1..n : g[i] = Next1(g[i - 1], text[i], chars)

LEMMA OneMore ==
    ASSUME NEW s \in Text, NEW c \in Character, NEW chars
    PROVE  /\ Next1(s, c, chars) \in Text
           /\ Len(Next1(s, c, chars)) \in {Len(s), Len(s) + 1}
<1>1. Append(s, c) \in Text /\ Len(Append(s, c)) = Len(s) + 1
  BY AppendProperties DEF Text
<1> QED BY <1>1 DEF Next1

LEMMA RemainsExist ==
    ASSUME NEW text \in Text, NEW chars
    PROVE  \E g : g \in [0..Len(text) -> Text] /\ Leaves(g, text, chars, Len(text))
<1> DEFINE n == Len(text)
           Fits(g, k) == g \in [0..k -> Text] /\ Leaves(g, text, chars, k)
           T == {k \in 0..n : \E g : Fits(g, k)}
<1>0. n \in Nat /\ \A i \in 1..n : text[i] \in Character
  BY LenProperties, ElementOfSeq DEF Text
<1>1. 0 \in T
  <2>1. <<>> \in Text
    BY EmptySeq DEF Text
  <2>2. Fits([i \in 0..0 |-> <<>>], 0)
    BY <2>1 DEF Leaves
  <2> QED BY <1>0, <2>2
<1>2. ASSUME NEW k \in T, k < n PROVE k + 1 \in T
  <2>1. PICK g : Fits(g, k)
    OBVIOUS
  <2>2. k \in Nat /\ k + 1 \in 1..n /\ k + 1 \in 0..n /\ (k + 1) - 1 = k /\ k \in 0..k
    BY <1>0, <1>2
  <2>3. g[k] \in Text /\ Next1(g[k], text[k + 1], chars) \in Text
    BY <1>0, <2>1, <2>2, OneMore
  <2> DEFINE last == Next1(g[k], text[k + 1], chars)
             h == [i \in 0..(k + 1) |-> IF i = k + 1 THEN last ELSE g[i]]
  <2> HIDE DEF last
  <2>4. h \in [0..(k + 1) -> Text] /\ h[0] = <<>>
    BY <2>1, <2>2, <2>3 DEF Leaves, last
  <2>5. ASSUME NEW i \in 1..(k + 1) PROVE h[i] = Next1(h[i - 1], text[i], chars)
    <3>1. i \in 0..(k + 1) /\ i - 1 \in 0..(k + 1) /\ i - 1 # k + 1
      BY <2>2
    <3>2. h[i - 1] = g[i - 1]
      BY <3>1
    <3>3. CASE i = k + 1
      BY <2>2, <3>1, <3>2, <3>3 DEF last
    <3>4. CASE i # k + 1
      <4>1. i \in 1..k /\ h[i] = g[i]
        BY <2>2, <3>1, <3>4
      <4> QED BY <2>1, <3>2, <4>1 DEF Leaves
    <3> QED BY <3>3, <3>4
  <2> HIDE DEF h
  <2>6. Fits(h, k + 1)
    BY <2>4, <2>5 DEF Leaves
  <2> QED BY <2>2, <2>6
<1>3. \A k \in 0..n : k \in T
  <2>1. T \in SUBSET (0..n)
    OBVIOUS
  <2> HIDE DEF T, n
  <2> QED BY <1>0, <1>1, <1>2, <2>1, IndexInduction
<1>4. n \in 0..n
  BY <1>0
<1> QED BY <1>3, <1>4

\* What is left of the same characters is the same.
LEMMA LeavesAgree ==
    ASSUME NEW n \in Nat, NEW g, NEW h, NEW text, NEW other, NEW chars,
           Leaves(g, text, chars, n), Leaves(h, other, chars, n),
           \A i \in 1..n : text[i] = other[i]
    PROVE  \A i \in 0..n : g[i] = h[i]
<1> DEFINE T == {i \in 0..n : g[i] = h[i]}
<1>1. 0 \in T /\ T \in SUBSET (0..n)
  BY DEF Leaves
<1>2. ASSUME NEW i \in T, i < n PROVE i + 1 \in T
  <2>1. i + 1 \in 1..n /\ i + 1 \in 0..n /\ (i + 1) - 1 = i /\ g[i] = h[i]
    BY <1>2
  <2>2. g[i + 1] = Next1(g[i], text[i + 1], chars) /\ h[i + 1] = Next1(h[i], other[i + 1], chars)
    BY <2>1 DEF Leaves
  <2> QED BY <2>1, <2>2
<1>3. \A i \in 0..n : i \in T
  <2> HIDE DEF T
  <2> QED BY <1>1, <1>2, IndexInduction
<1> QED BY <1>3

\* Remains is what its recursive definition says.
LEMMA RemainsIs ==
    ASSUME NEW text \in Text, NEW chars
    PROVE  /\ Remains(text, chars) \in [0..Len(text) -> Text]
           /\ Leaves(Remains(text, chars), text, chars, Len(text))
<1> DEFINE D == 0..Len(text)
           b == Remains(text, chars)
           Rec(h) == h = [i \in D |-> IF i = 0 THEN <<>>
                                      ELSE IF text[i] \in chars THEN h[i - 1]
                                      ELSE Append(h[i - 1], text[i])]
<1>0. Len(text) \in Nat
  BY LenProperties DEF Text
<1>1. PICK g : g \in [D -> Text] /\ Leaves(g, text, chars, Len(text))
  BY RemainsExist
<1>2. \E h : Rec(h)
  <2>1. \A i \in D : g[i] = IF i = 0 THEN <<>>
                            ELSE IF text[i] \in chars THEN g[i - 1]
                            ELSE Append(g[i - 1], text[i])
    <3>1. g[0] = <<>> /\ \A i \in 1..Len(text) : g[i] = Next1(g[i - 1], text[i], chars)
      BY <1>1 DEF Leaves
    <3>2. \A i \in D : i # 0 => i \in 1..Len(text)
      BY <1>0
    <3> QED BY <3>1, <3>2 DEF Next1
  <2>2. Rec(g)
    BY <1>1, <2>1
  <2> QED BY <2>2
<1>3. b = CHOOSE h : Rec(h)
  BY DEF Remains
<1>4. Rec(b)
  <2> HIDE DEF Rec, b
  <2> QED BY <1>2, <1>3
<1> HIDE DEF b
<1>5. 0 \in D /\ \A i \in 1..Len(text) : i \in D /\ i # 0
  BY <1>0
<1>6. b = [i \in D |-> b[i]]
  BY <1>4
<1>7. Leaves(b, text, chars, Len(text))
  BY <1>4, <1>5, <1>6 DEF Leaves, Next1
<1>8. \A i \in D : b[i] = g[i]
  <2>1. \A i \in 1..Len(text) : text[i] = text[i]
    OBVIOUS
  <2> QED BY <1>0, <1>1, <1>7, <2>1, LeavesAgree
<1>9. b \in [D -> Text]
  BY <1>1, <1>6, <1>8
<1> QED BY <1>7, <1>9 DEF b

LEMMA WithoutEmpty == ASSUME NEW chars PROVE Without(<<>>, chars) = <<>>
<1>1. <<>> \in Text /\ Len(<<>>) = 0
  BY EmptySeq DEF Text
<1>2. ASSUME NEW text \in Text, Len(text) = 0 PROVE Without(text, chars) = <<>>
  BY <1>2, RemainsIs DEF Without, Leaves
<1> QED BY <1>1, <1>2, Zenon

LEMMA WithoutAppend ==
    ASSUME NEW text \in Text, NEW c \in Character, NEW chars
    PROVE  Without(Append(text, c), chars) = Next1(Without(text, chars), c, chars)
<1> DEFINE longer == Append(text, c)
           n == Len(text)
           b == Remains(text, chars)
           l == Remains(longer, chars)
<1>1. /\ n \in Nat /\ longer \in Text /\ Len(longer) = n + 1 /\ longer[n + 1] = c
      /\ \A i \in 1..n : longer[i] = text[i]
  <2>1. text \in Seq(Character) /\ n \in Nat
    BY LenProperties DEF Text
  <2>2. longer \in Seq(Character) /\ Len(longer) = n + 1 /\ longer[n + 1] = c
    BY <2>1, AppendProperties
  <2>3. \A i \in 1..n : longer[i] = text[i]
    BY <2>1, AppendProperties
  <2> QED BY <2>1, <2>2, <2>3 DEF Text
<1>2. Leaves(b, text, chars, n)
  BY RemainsIs
<1>3. Leaves(l, longer, chars, n + 1)
  <2> HIDE DEF longer
  <2> QED BY <1>1, RemainsIs
<1>4. Without(longer, chars) = l[n + 1] /\ Without(text, chars) = b[n]
  <2>1. Without(longer, chars) = l[Len(longer)]
    BY DEF Without
  <2> QED BY <1>1, <2>1 DEF Without
<1> HIDE DEF longer, n, b, l
<1>5. l[n + 1] = Next1(l[n], c, chars)
  <2>1. n + 1 \in 1..(n + 1) /\ (n + 1) - 1 = n
    BY <1>1
  <2> QED BY <1>1, <1>3, <2>1 DEF Leaves
<1>6. \A i \in 0..n : l[i] = b[i]
  <2>1. Leaves(l, longer, chars, n)
    BY <1>1, <1>3 DEF Leaves
  <2> QED BY <1>1, <1>2, <2>1, LeavesAgree
<1>7. l[n] = b[n]
  BY <1>1, <1>6
<1> QED BY <1>4, <1>5, <1>7 DEF longer

\* A text gets no longer, and removing characters in two rounds is removing
\* them all in one.
LEMMA WithoutTwice ==
    ASSUME NEW text \in Text, NEW first, NEW second
    PROVE  /\ Without(text, first) \in Text
           /\ Len(Without(text, first)) <= Len(text)
           /\ Without(Without(text, first), second) = Without(text, first \cup second)
<1> DEFINE n == Len(text)
           a == Remains(text, first)
           b == Remains(text, first \cup second)
           T == {i \in 0..n : Len(a[i]) <= i /\ Without(a[i], second) = b[i]}
<1>1. n \in Nat /\ \A i \in 1..n : text[i] \in Character
  BY LenProperties, ElementOfSeq DEF Text
<1>2. a \in [0..n -> Text] /\ Leaves(a, text, first, n)
  BY RemainsIs
<1>3. Leaves(b, text, first \cup second, n)
  BY RemainsIs
<1>4. Without(text, first) = a[n] /\ Without(text, first \cup second) = b[n]
  BY DEF Without
<1> HIDE DEF a, b, n
<1>5. 0 \in T /\ T \in SUBSET (0..n)
  <2>1. a[0] = <<>> /\ b[0] = <<>>
    BY <1>2, <1>3 DEF Leaves
  <2>2. Without(a[0], second) = <<>> /\ Len(a[0]) = 0
    BY <2>1, WithoutEmpty, EmptySeq
  <2> QED BY <1>1, <2>1, <2>2
<1>6. ASSUME NEW i \in T, i < n PROVE i + 1 \in T
  <2>1. i + 1 \in 1..n /\ i + 1 \in 0..n /\ (i + 1) - 1 = i /\ i \in 0..n
    BY <1>1, <1>6
  <2>2. a[i] \in Text /\ text[i + 1] \in Character
    BY <1>1, <1>2, <2>1
  <2>3. a[i + 1] = Next1(a[i], text[i + 1], first)
    BY <1>2, <2>1 DEF Leaves
  <2>4. b[i + 1] = Next1(b[i], text[i + 1], first \cup second)
    BY <1>3, <2>1 DEF Leaves
  <2>5. Len(a[i]) \in Nat /\ Len(a[i + 1]) <= i + 1
    <3>1. Len(a[i]) \in Nat
      BY <2>2, LenProperties DEF Text
    <3>2. Len(a[i + 1]) \in {Len(a[i]), Len(a[i]) + 1}
      BY <2>2, <2>3, OneMore
    <3>3. Len(a[i]) <= i /\ i \in Nat
      BY <1>1
    <3> QED BY <3>1, <3>2, <3>3
  <2>6. Without(a[i], second) = b[i]
    OBVIOUS
  <2>7. Without(a[i + 1], second) = b[i + 1]
    <3>1. CASE text[i + 1] \in first
      BY <2>3, <2>4, <2>6, <3>1 DEF Next1
    <3>2. CASE text[i + 1] \notin first
      <4>1. a[i + 1] = Append(a[i], text[i + 1])
        BY <2>3, <3>2 DEF Next1
      <4>2. Without(a[i + 1], second) = Next1(b[i], text[i + 1], second)
        BY <2>2, <2>6, <4>1, WithoutAppend
      <4> QED BY <2>4, <3>2, <4>2 DEF Next1
    <3> QED BY <3>1, <3>2
  <2> QED BY <2>1, <2>5, <2>7
<1>7. \A i \in 0..n : i \in T
  <2> HIDE DEF T
  <2> QED BY <1>1, <1>5, <1>6, IndexInduction
<1>8. n \in 0..n
  BY <1>1
<1> QED BY <1>2, <1>4, <1>7, <1>8 DEF n

-----------------------------------------------------------------------------
(* Identifiers, as they are typed and as they are stored.                   *)

\* The part of a text between its first and its last character that is kept.
LEMMA StripIs ==
    ASSUME NEW text \in Text, NEW blanks,
           NEW kept, kept = {i \in DOMAIN text : text[i] \notin blanks}
    PROVE  /\ kept = {} => Strip(text, blanks) = <<>>
           /\ kept # {} =>
                /\ Min(kept) \in kept /\ Max(kept) \in kept
                /\ \A i \in kept : Min(kept) <= i /\ i <= Max(kept)
                /\ Strip(text, blanks) = SubSeq(text, Min(kept), Max(kept))
<1>1. Strip(text, blanks) = IF kept = {} THEN <<>> ELSE SubSeq(text, Min(kept), Max(kept))
  BY DEF Strip
<1>2. Len(text) \in Nat /\ DOMAIN text = 1..Len(text)
  BY LenProperties DEF Text
<1>3. kept \in SUBSET Nat /\ \A i \in kept : i <= Len(text)
  BY <1>2
<1>4. ASSUME kept # {} PROVE Min(kept) \in kept /\ \A i \in kept : Min(kept) <= i
  <2>1. \E m \in kept : \A i \in kept : m <= i
    BY <1>3, <1>4, LeastIndex
  <2> HIDE <1>1
  <2> QED BY <2>1 DEF Min
<1>5. ASSUME kept # {} PROVE Max(kept) \in kept /\ \A i \in kept : i <= Max(kept)
  <2> DEFINE room == {Len(text) - i : i \in kept}
  <2>1. room \in SUBSET Nat /\ room # {}
    BY <1>2, <1>3, <1>5
  <2>2. PICK r \in room : \A s \in room : r <= s
    <3> HIDE DEF room
    <3> QED BY <2>1, LeastIndex
  <2>3. PICK m \in kept : r = Len(text) - m
    OBVIOUS
  <2>4. \A i \in kept : Len(text) - m <= Len(text) - i
    BY <2>2, <2>3
  <2>5. \A i \in kept : i <= m
    BY <1>2, <1>3, <2>4
  <2>6. \E n \in kept : \A i \in kept : n >= i
    BY <1>3, <2>5
  <2> HIDE DEF room
  <2>7. Max(kept) \in kept /\ \A i \in kept : Max(kept) >= i
    BY <2>6 DEF Max
  <2> QED BY <1>3, <2>7
<1> QED BY <1>1, <1>4, <1>5

\* No number is empty.
LEMMA EmptyUnshaped == ~PhoneShaped(<<>>)
<1>1. ASSUME IsPrefix(<<"+">>, <<>>) PROVE FALSE
  <2>1. Len(<<"+">>) <= Len(<<>>)
    BY <1>1 DEF IsPrefix
  <2>2. Len(<<"+">>) = 1 /\ Len(<<>>) = 0
    OBVIOUS
  <2> QED BY <2>1, <2>2
<1> QED BY <1>1 DEF PhoneShaped

\* The characters of a part of a text.
LEMMA PartOf ==
    ASSUME NEW text \in Text, NEW lo \in 1..Len(text), NEW hi \in 1..Len(text), lo <= hi
    PROVE  /\ SubSeq(text, lo, hi) \in Text
           /\ \A i \in lo..hi : \E j \in 1..Len(SubSeq(text, lo, hi)) :
                  SubSeq(text, lo, hi)[j] = text[i]
<1>1. Len(text) \in Nat
  BY LenProperties DEF Text
<1>2. lo \in Int /\ hi \in Int
  BY <1>1
<1>3. \A i \in lo..hi : text[i] \in Character
  <2>1. \A i \in 1..Len(text) : text[i] \in Character
    BY ElementOfSeq DEF Text
  <2>2. \A i \in lo..hi : i \in 1..Len(text)
    BY <1>1, <1>2
  <2> QED BY <2>1, <2>2
<1>4. /\ SubSeq(text, lo, hi) \in Seq(Character)
      /\ Len(SubSeq(text, lo, hi)) = IF lo <= hi THEN hi - lo + 1 ELSE 0
      /\ \A j \in 1..(hi - lo + 1) : SubSeq(text, lo, hi)[j] = text[lo + j - 1]
  BY <1>2, <1>3, SubSeqProperties
<1>5. ASSUME NEW i \in lo..hi
      PROVE  \E j \in 1..(hi - lo + 1) : SubSeq(text, lo, hi)[j] = text[i]
  <2>1. i - lo + 1 \in 1..(hi - lo + 1) /\ lo + (i - lo + 1) - 1 = i
    BY <1>2
  <2>2. SubSeq(text, lo, hi)[i - lo + 1] = text[lo + (i - lo + 1) - 1]
    BY <1>4, <2>1
  <2> QED BY <2>1, <2>2
<1> QED BY <1>4, <1>5 DEF Text

\* The characters of a number.
LEMMA ShapedCharacters ==
    ASSUME NEW s \in Text, PhoneShaped(s), NEW j \in 1..Len(s)
    PROVE  s[j] \in Digit \cup {"sp", "(", ")", ".", "-", "+"}
<1> DEFINE shown == Digit \cup {"sp", "(", ")", ".", "-"}
<1>1. Len(s) \in Nat /\ DOMAIN s = 1..Len(s)
  BY LenProperties DEF Text
<1>2. CASE IsPrefix(<<"+">>, s)
  <2>1. ToSet(Tail(s)) \subseteq shown
    BY <1>2 DEF PhoneShaped
  <2>2. s[1] = "+"
    <3>1. Len(<<"+">>) = 1
      OBVIOUS
    <3>2. SubSeq(<<"+">>, 1, 1) = SubSeq(s, 1, 1)
      BY <1>2, <3>1 DEF IsPrefix
    <3>3. \A i \in 1..1 : <<"+">>[i] \in Character /\ s[i] \in Character
      <4>1. \A i \in 1..1 : <<"+">>[i] = "+"
        OBVIOUS
      <4>2. \A i \in 1..1 : i \in 1..Len(s)
        BY <1>1
      <4>3. "+" \in Character
        BY DEF Character
      <4> QED BY <4>1, <4>2, <4>3, ElementOfSeq DEF Text
    <3>4. SubSeq(<<"+">>, 1, 1)[1] = <<"+">>[1]
      <4>1. \A i \in 1..(1 - 1 + 1) : SubSeq(<<"+">>, 1, 1)[i] = <<"+">>[1 + i - 1]
        BY <3>3, SubSeqProperties
      <4> QED BY <4>1
    <3>5. SubSeq(s, 1, 1)[1] = s[1]
      <4>1. \A i \in 1..(1 - 1 + 1) : SubSeq(s, 1, 1)[i] = s[1 + i - 1]
        BY <3>3, SubSeqProperties
      <4> QED BY <4>1
    <3> QED BY <3>2, <3>4, <3>5
  <2>3. CASE j = 1
    BY <2>2, <2>3
  <2>4. CASE j # 1
    <3>1. j - 1 \in 1..(Len(s) - 1) /\ (j - 1) + 1 = j
      BY <1>1, <2>4
    <3>2. s # <<>>
      <4>1. Len(s) # 0
        BY <1>1
      <4> QED BY <4>1, EmptySeq
    <3>3. /\ Tail(s) \in Seq(Character) /\ Len(Tail(s)) = Len(s) - 1
          /\ \A i \in 1..Len(Tail(s)) : Tail(s)[i] = s[i + 1]
      BY <3>2, HeadTailProperties DEF Text
    <3>4. Tail(s)[j - 1] = s[j]
      BY <3>1, <3>3
    <3>5. j - 1 \in DOMAIN Tail(s)
      BY <3>1, <3>3, LenProperties
    <3>6. Tail(s)[j - 1] \in ToSet(Tail(s))
      BY <3>5 DEF ToSet
    <3> QED BY <2>1, <3>4, <3>6
  <2> QED BY <2>3, <2>4
<1>3. CASE ~IsPrefix(<<"+">>, s)
  <2>1. ToSet(s) \subseteq shown
    BY <1>3 DEF PhoneShaped
  <2>2. s[j] \in ToSet(s)
    BY <1>1 DEF ToSet
  <2> QED BY <2>1, <2>2
<1> QED BY <1>2, <1>3

\* What is shaped like a number without the blanks around it has no others.
LEMMA ShapedIsBare ==
    ASSUME NEW text \in Text, PhoneShaped(Strip(text, {"sp"}))
    PROVE  Bare(text)
<1> DEFINE kept == {i \in DOMAIN text : text[i] \notin {"sp"}}
           most == {i \in DOMAIN text : text[i] \notin Space}
<1>1. Len(text) \in Nat /\ DOMAIN text = 1..Len(text)
  BY LenProperties DEF Text
<1>2. kept # {}
  <2>1. kept = {} => Strip(text, {"sp"}) = <<>>
    BY StripIs
  <2> QED BY <2>1, EmptyUnshaped
<1>3. PICK lo, hi : /\ lo \in kept /\ hi \in kept
                    /\ \A i \in kept : lo <= i /\ i <= hi
                    /\ Strip(text, {"sp"}) = SubSeq(text, lo, hi)
  <2>1. /\ Min(kept) \in kept /\ Max(kept) \in kept
        /\ \A i \in kept : Min(kept) <= i /\ i <= Max(kept)
        /\ Strip(text, {"sp"}) = SubSeq(text, Min(kept), Max(kept))
    BY <1>2, StripIs
  <2> HIDE DEF kept
  <2> QED BY <2>1
<1>4. lo \in 1..Len(text) /\ hi \in 1..Len(text) /\ lo <= hi
  BY <1>1, <1>3
<1>5. ASSUME NEW i \in kept PROVE i \in most
  <2>1. i \in lo..hi
    <3>1. i \in 1..Len(text) /\ lo <= i /\ i <= hi
      BY <1>1, <1>3
    <3>2. Len(text) \in Nat
      BY <1>1
    <3> QED BY <1>4, <3>1, <3>2
  <2>2. SubSeq(text, lo, hi) \in Text
    BY <1>4, PartOf
  <2>3. PICK j \in 1..Len(SubSeq(text, lo, hi)) : SubSeq(text, lo, hi)[j] = text[i]
    BY <1>4, <2>1, PartOf
  <2>4. text[i] \in Digit \cup {"sp", "(", ")", ".", "-", "+"}
    BY <1>3, <2>2, <2>3, ShapedCharacters
  <2>5. text[i] \notin {"sp", "tab", "vt"}
    BY <2>4 DEF Digit
  <2> QED BY <2>5 DEF Space, Blank
<1>6. most = kept
  <2>1. most \subseteq kept
    BY DEF Space, Blank
  <2> QED BY <1>5, <2>1
<1>7. \A same : same = kept => Strip(text, Space) = Strip(text, {"sp"})
  <2> SUFFICES ASSUME NEW same, same = kept PROVE Strip(text, Space) = Strip(text, {"sp"})
    OBVIOUS
  <2>1. same = {i \in DOMAIN text : text[i] \notin Space}
    BY <1>6
  <2>2. Strip(text, Space) = IF same = {} THEN <<>> ELSE SubSeq(text, Min(same), Max(same))
    BY <2>1 DEF Strip
  <2>3. Strip(text, {"sp"}) = IF same = {} THEN <<>> ELSE SubSeq(text, Min(same), Max(same))
    BY DEF Strip
  <2> HIDE DEF kept
  <2> QED BY <2>2, <2>3
<1> QED BY <1>7 DEF Bare

LEMMA InternationalIsText ==
    ASSUME NEW text \in Text
    PROVE  International(text) \in Text
<1> DEFINE digits == Without(text, ToSet(text) \ Digit)
           number == IF IsPrefix(<<"0", "0">>, digits) THEN SubSeq(digits, 3, Len(digits)) ELSE digits
<1>1. digits \in Text /\ Len(digits) \in Nat
  <2>1. digits \in Text
    BY WithoutTwice
  <2> HIDE DEF digits
  <2> QED BY <2>1, LenProperties DEF Text
<1> HIDE DEF digits
<1>2. SubSeq(digits, 3, Len(digits)) \in Text
  <2>1. \A i \in 3..Len(digits) : digits[i] \in Character
    <3>1. \A i \in 1..Len(digits) : digits[i] \in Character
      BY <1>1, ElementOfSeq DEF Text
    <3> QED BY <1>1, <3>1
  <2> QED BY <1>1, <2>1, SubSeqProperties DEF Text
<1>3. number \in Text
  BY <1>1, <1>2
<1>4. International(text) = IF Len(number) = 9 THEN <<"9", "9", "8">> \o number ELSE number
  BY DEF International, digits
<1> HIDE DEF number
<1>5. <<"9", "9", "8">> \o number \in Text
  <2>1. <<"9", "9", "8">> \in [1..3 -> Character]
    <3>1. "9" \in Character /\ "8" \in Character
      BY DEF Character, Digit
    <3> QED BY <3>1
  <2>2. <<"9", "9", "8">> \in Seq(Character)
    BY <2>1, SeqDef
  <2> QED BY <1>3, <2>2, ConcatProperties DEF Text
<1> QED BY <1>3, <1>4, <1>5

\* A number is found by the SELECT if and only if it could have been typed so.
LEMMA PhoneFound ==
    ASSUME NEW typed \in Text, NEW stored \in Text, Len(stored) <= 64,
           normalize_phone(typed) # Refused
    PROVE  /\ normalize_phone(typed) # Null
           /\ StoredPhone(<<>>) # normalize_phone(typed)
           /\ StoredPhone(stored) = normalize_phone(typed)
                <=> Bare(stored) /\ normalize_phone(stored) = normalize_phone(typed)
<1> DEFINE q == normalize_phone(typed)
<1>1. /\ q = International(typed) /\ Len(International(typed)) \in 10..15
      /\ International(typed)[1] # "0"
  BY DEF normalize_phone
<1>2. q # Null
  BY <1>1, InternationalIsText, LookupTexts DEF Text
<1>3. StoredPhone(<<>>) = Null
  <2>1. Strip(<<>>, {"sp"}) = <<>>
    <3>1. DOMAIN <<>> = {}
      OBVIOUS
    <3> QED BY <3>1 DEF Strip
  <2> QED BY <2>1, EmptyUnshaped DEF StoredPhone
<1>4. ASSUME StoredPhone(stored) = q PROVE Bare(stored) /\ normalize_phone(stored) = q
  <2>1. PhoneShaped(Strip(stored, {"sp"})) /\ International(stored) = q
    BY <1>2, <1>4 DEF StoredPhone
  <2>2. Bare(stored)
    BY <2>1, ShapedIsBare
  <2>3. PhoneShaped(Strip(stored, Space))
    BY <2>1, <2>2 DEF Bare
  <2> HIDE DEF q
  <2>4. Len(International(stored)) \in 10..15 /\ International(stored)[1] # "0"
    BY <1>1, <2>1
  <2> QED BY <2>1, <2>2, <2>3, <2>4 DEF normalize_phone
<1>5. ASSUME Bare(stored), normalize_phone(stored) = q PROVE StoredPhone(stored) = q
  <2>1. PhoneShaped(Strip(stored, Space)) /\ International(stored) = q
    BY <1>5 DEF normalize_phone
  <2> QED BY <1>5, <2>1 DEF Bare, StoredPhone
<1> QED BY <1>2, <1>3, <1>4, <1>5

LEMMA CompactIsText ==
    ASSUME NEW text \in Text, NEW blanks
    PROVE  Compact(text, blanks) \in Text
<1> DEFINE kept == Without(text, blanks \cup {"-"})
<1>1. kept \in Text
  BY WithoutTwice
<1>2. Compact(text, blanks) = [i \in DOMAIN kept |-> Upper(kept[i])]
  BY DEF Compact
<1> HIDE DEF kept
<1>3. /\ Len(kept) \in Nat /\ DOMAIN kept = 1..Len(kept)
      /\ \A i \in 1..Len(kept) : Upper(kept[i]) \in Character
  <2>1. \A i \in 1..Len(kept) : kept[i] \in Character
    BY <1>1, ElementOfSeq DEF Text
  <2>2. ASSUME NEW c \in Character PROVE Upper(c) \in Character
    <3>1. Upper(c) = "A" \/ Upper(c) = "B" \/ Upper(c) = "I" \/ Upper(c) = c
      BY Zenon DEF Upper
    <3> QED BY <3>1 DEF Character, Letter
  <2>3. Len(kept) \in Nat /\ DOMAIN kept = 1..Len(kept)
    BY <1>1, LenProperties DEF Text
  <2> QED BY <2>1, <2>2, <2>3
<1> QED BY <1>2, <1>3 DEF Text

LEMMA EmptyVehicle == StoredVehicle(<<>>) = <<>>
<1>1. Without(<<>>, Space \cup {"-"}) = <<>>
  BY WithoutEmpty
<1>2. Compact(<<>>, Space) = [i \in DOMAIN <<>> |-> Upper(<<>>[i])]
  BY <1>1 DEF Compact
<1> QED BY <1>2 DEF StoredVehicle

\* Of a stored plate or VIN a vertical tab is removed like the other blanks.
LEMMA StoredCompact ==
    ASSUME NEW stored \in Text, Len(stored) <= 64
    PROVE  /\ Compact(Without(stored, {"vt"}), Blank) = StoredVehicle(stored)
           /\ Len(Without(stored, {"vt"})) <= 64
<1>1. {"vt"} \cup (Blank \cup {"-"}) = Space \cup {"-"}
  BY DEF Space
<1>2. Without(Without(stored, {"vt"}), Blank \cup {"-"}) = Without(stored, Space \cup {"-"})
  BY <1>1, WithoutTwice
<1>3. Compact(Without(stored, {"vt"}), Blank) = Compact(stored, Space)
  BY <1>2 DEF Compact
<1>4. Len(Without(stored, {"vt"})) <= 64
  <2>1. Without(stored, {"vt"}) \in Seq(Character) /\ stored \in Seq(Character)
    BY WithoutTwice DEF Text
  <2>2. Len(Without(stored, {"vt"})) \in Nat /\ Len(stored) \in Nat
    BY <2>1, LenProperties
  <2>3. Len(Without(stored, {"vt"})) <= Len(stored)
    BY WithoutTwice
  <2> QED BY <2>2, <2>3
<1> QED BY <1>3, <1>4 DEF StoredVehicle

LEMMA PlateFound ==
    ASSUME NEW typed \in Text, NEW stored \in Text, Len(stored) <= 64,
           normalize_plate(typed) # Refused
    PROVE  /\ normalize_plate(typed) \in Text
           /\ StoredVehicle(<<>>) # normalize_plate(typed)
           /\ StoredVehicle(stored) = normalize_plate(typed)
                <=> normalize_plate(Without(stored, {"vt"})) = normalize_plate(typed)
<1> DEFINE q == normalize_plate(typed)
           kept == Without(stored, {"vt"})
<1>1. /\ q = Compact(typed, Blank) /\ Len(Compact(typed, Blank)) \in 4..16
      /\ ToSet(Compact(typed, Blank)) \subseteq Letter \cup Digit
  BY DEF normalize_plate
<1>2. q \in Text
  BY <1>1, CompactIsText
<1>3. StoredVehicle(<<>>) # q
  <2>1. Len(q) # 0
    <3>1. Len(Compact(typed, Blank)) # 0
      <4>1. \A n \in 4..16 : n # 0
        OBVIOUS
      <4>2. Len(Compact(typed, Blank)) \in 4..16
        BY <1>1
      <4> QED BY <4>1, <4>2
    <3>2. q = Compact(typed, Blank)
      BY <1>1
    <3> HIDE DEF q
    <3> QED BY <3>1, <3>2
  <2>2. Len(<<>>) = 0
    OBVIOUS
  <2> QED BY <2>1, <2>2, EmptyVehicle
<1>4. Compact(kept, Blank) = StoredVehicle(stored) /\ Len(kept) <= 64
  BY StoredCompact
<1> HIDE DEF q, kept
<1>5. ASSUME StoredVehicle(stored) = q PROVE normalize_plate(kept) = q
  <2>1. Compact(kept, Blank) = Compact(typed, Blank) /\ Compact(kept, Blank) = q
    BY <1>1, <1>4, <1>5
  <2> QED BY <1>1, <1>4, <2>1 DEF normalize_plate
<1>6. ASSUME normalize_plate(kept) = q PROVE StoredVehicle(stored) = q
  <2>1. q # Refused
    BY DEF q
  <2> QED BY <1>4, <1>6, <2>1 DEF normalize_plate
<1> QED BY <1>2, <1>3, <1>5, <1>6 DEF q, kept

LEMMA VinFound ==
    ASSUME NEW typed \in Text, NEW stored \in Text, Len(stored) <= 64,
           normalize_vin(typed) # Refused
    PROVE  /\ normalize_vin(typed) \in Text
           /\ StoredVehicle(<<>>) # normalize_vin(typed)
           /\ StoredVehicle(stored) = normalize_vin(typed)
                <=> normalize_vin(Without(stored, {"vt"})) = normalize_vin(typed)
<1> DEFINE q == normalize_vin(typed)
           kept == Without(stored, {"vt"})
<1>1. /\ q = Compact(typed, Blank) /\ Len(Compact(typed, Blank)) = 17
      /\ ToSet(Compact(typed, Blank)) \subseteq (Letter \ {"I"}) \cup Digit
  BY DEF normalize_vin
<1>2. q \in Text
  BY <1>1, CompactIsText
<1>3. StoredVehicle(<<>>) # q
  <2>1. Len(q) # 0
    <3> HIDE DEF q
    <3> QED BY <1>1
  <2>2. Len(<<>>) = 0
    OBVIOUS
  <2> QED BY <2>1, <2>2, EmptyVehicle
<1>4. Compact(kept, Blank) = StoredVehicle(stored) /\ Len(kept) <= 64
  BY StoredCompact
<1> HIDE DEF q, kept
<1>5. ASSUME StoredVehicle(stored) = q PROVE normalize_vin(kept) = q
  <2>1. Compact(kept, Blank) = Compact(typed, Blank) /\ Compact(kept, Blank) = q
    BY <1>1, <1>4, <1>5
  <2> QED BY <1>1, <1>4, <2>1 DEF normalize_vin
<1>6. ASSUME normalize_vin(kept) = q PROVE StoredVehicle(stored) = q
  <2>1. q # Refused
    BY DEF q
  <2> QED BY <1>4, <1>6, <2>1 DEF normalize_vin
<1> QED BY <1>2, <1>3, <1>5, <1>6 DEF q, kept

\* Who is found by a number: everyone, and each in one place, or nobody.
LEMMA CustomersFound ==
    ASSUME NEW text, NEW first, NEW q, q # Null, StoredPhone(<<>>) # q
    PROVE  {<<c.customer_id, c.matched_primary_phone, c.matched_additional_phone>> :
                c \in Customers(Written(text, first), Customer(q))}
             = IF StoredPhone(text) = q THEN {<<i, i \in first, i \notin first>> : i \in Ids} ELSE {}
<1> DEFINE tables == Written(text, first)
           query == Customer(q)
           user(i) == [id |-> i, full_name |-> Null,
                       username |-> IF i \in first THEN text ELSE <<>>]
           hit == StoredPhone(text) = q
           primary(u) == query.phone # Null /\ StoredPhone(u.username) = query.phone
           additional(u) == query.phone # Null /\ \E p \in tables.phones :
               p.user_id = u.id /\ StoredPhone(p.number) = query.phone
           row(u) ==
               [customer_id |-> u.id, phone |-> u.username, full_name |-> u.full_name,
                matched_primary_phone |-> primary(u), matched_additional_phone |-> additional(u)]
           meets(u) == /\ query.customer_id \in {Null, u.id}
                       /\ query.phone # Null => primary(u) \/ additional(u)
           answer == {row(u) : u \in {v \in tables.users : meets(v)}}
<1>1. Customers(tables, query) = answer
  BY DEF Customers
<1>2. query.phone = q /\ query.customer_id = Null
  BY DEF Customer
<1>3. /\ tables.users = {user(i) : i \in Ids}
      /\ tables.phones = {[user_id |-> i, number |-> text] : i \in Ids \ first}
  BY DEF Written
<1>4. ASSUME NEW i \in Ids
      PROVE  /\ user(i).id = i
             /\ primary(user(i)) = (hit /\ i \in first)
             /\ additional(user(i)) = (hit /\ i \notin first)
  <2>1. user(i).id = i /\ user(i).username = IF i \in first THEN text ELSE <<>>
    OBVIOUS
  <2>2. primary(user(i)) <=> hit /\ i \in first
    BY <1>2, <2>1
  <2>3. additional(user(i)) <=> hit /\ i \notin first
    <3> DEFINE entry(n) == [user_id |-> n, number |-> text]
    <3>1. \A n : entry(n).user_id = n /\ entry(n).number = text
      OBVIOUS
    <3>2. tables.phones = {entry(n) : n \in Ids \ first}
      BY <1>3
    <3>3. additional(user(i)) <=>
              \E p \in tables.phones : p.user_id = i /\ StoredPhone(p.number) = q
      <4> HIDE DEF tables, query, user
      <4> QED BY <1>2, <2>1
    <3> HIDE DEF entry, tables, additional, user
    <3>4. (\E p \in tables.phones : p.user_id = i /\ StoredPhone(p.number) = q)
            <=> \E n \in Ids \ first : n = i /\ StoredPhone(text) = q
      BY <3>1, <3>2
    <3> QED BY <3>3, <3>4
  <2> QED BY <2>1, <2>2, <2>3
<1>5. \A i \in Ids : meets(user(i)) <=> hit
  <2>1. ASSUME NEW i \in Ids PROVE meets(user(i)) <=> primary(user(i)) \/ additional(user(i))
    <3> HIDE DEF query, primary, additional, user
    <3> QED BY <1>2
  <2> HIDE DEF meets, primary, additional, user
  <2> QED BY <1>4, <2>1
<1>6. \A i \in Ids : hit =>
         /\ row(user(i)).customer_id = i
         /\ row(user(i)).matched_primary_phone = (i \in first)
         /\ row(user(i)).matched_additional_phone = (i \notin first)
  <2>1. \A u : /\ row(u).customer_id = u.id /\ row(u).matched_primary_phone = primary(u)
               /\ row(u).matched_additional_phone = additional(u)
    <3> HIDE DEF primary, additional
    <3> QED OBVIOUS
  <2> HIDE DEF row, primary, additional, user
  <2> QED BY <1>4, <2>1
<1>7. answer = IF hit THEN {row(user(i)) : i \in Ids} ELSE {}
  <2> HIDE DEF row, meets, user
  <2> QED BY <1>3, <1>5
<1>8. {<<c.customer_id, c.matched_primary_phone, c.matched_additional_phone>> : c \in answer}
        = IF hit THEN {<<i, i \in first, i \notin first>> : i \in Ids} ELSE {}
  <2> DEFINE place(c) == <<c.customer_id, c.matched_primary_phone, c.matched_additional_phone>>
             shown(i) == <<i, i \in first, i \notin first>>
  <2>1. ASSUME hit, NEW i \in Ids PROVE place(row(user(i))) = shown(i)
    <3> HIDE DEF row, user
    <3> QED BY <1>6, <2>1
  <2>2. {place(c) : c \in answer} = IF hit THEN {shown(i) : i \in Ids} ELSE {}
    <3> HIDE DEF answer, row, user, hit, place, shown
    <3>1. CASE hit
      <4>1. answer = {row(user(i)) : i \in Ids}
        BY <1>7, <3>1
      <4> QED BY <2>1, <3>1, <4>1
    <3>2. CASE ~hit
      BY <1>7, <3>2
    <3> QED BY <3>1, <3>2
  <2> QED BY <2>2
<1> HIDE DEF row, user, hit
<1> HIDE DEF answer, tables, query
<1>9. {<<c.customer_id, c.matched_primary_phone, c.matched_additional_phone>> : c \in Customers(tables, query)}
        = IF hit THEN {<<i, i \in first, i \notin first>> : i \in Ids} ELSE {}
  BY <1>1, <1>8
<1> QED BY <1>9 DEF hit, tables, query

\* Which cars are found by a plate, and which by a VIN.
LEMMA VehiclesFound ==
    ASSUME NEW text, text # Null, <<>> # Null, NEW first \in SUBSET Ids, NEW q, q # Null,
           StoredVehicle(<<>>) # q
    PROVE  /\ {g[1].id : g \in Vehicles(Written(text, first), Vehicle(q, Null))}
                = IF StoredVehicle(text) = q THEN first ELSE {}
           /\ {g[1].id : g \in Vehicles(Written(text, first), Vehicle(Null, q))}
                = IF StoredVehicle(text) = q THEN Ids \ first ELSE {}
<1> DEFINE tables == Written(text, first)
           car(i) == [f \in CarFields |->
                         CASE f = "plate_number" -> IF i \in first THEN text ELSE <<>>
                           [] f = "win_number" -> IF i \in first THEN <<>> ELSE text
                           [] OTHER -> i]
           hit == StoredVehicle(text) = q
           is(value, asked) == asked # Null => value # Null /\ StoredVehicle(value) = asked
           owner(g) == {<<u.username, u.full_name>> : u \in {v \in tables.users : v.id = g.owner_id}}
           row(g) == <<[f \in CarFields |-> g[f]], owner(g)>>
           meets(g, query) == /\ is(g.plate_number, query.plate)
                              /\ is(g.win_number, query.vin)
                              /\ query.customer_id \in {Null, g.owner_id}
           answer(query) == {row(g) : g \in {v \in tables.cars : meets(v, query)}}
           found(query) == {g[1].id : g \in answer(query)}
<1>1. \A query : Vehicles(tables, query) = answer(query)
  BY DEF Vehicles
<1>2. tables.cars = {car(i) : i \in Ids}
  BY DEF Written
<1>3. ASSUME NEW i \in Ids
      PROVE  /\ car(i).plate_number = IF i \in first THEN text ELSE <<>>
             /\ car(i).win_number = IF i \in first THEN <<>> ELSE text
             /\ row(car(i))[1].id = i
  <2>1. "plate_number" \in CarFields /\ "win_number" \in CarFields /\ "id" \in CarFields
    BY DEF CarFields
  <2>2. /\ car(i)["plate_number"] = IF i \in first THEN text ELSE <<>>
        /\ car(i)["win_number"] = IF i \in first THEN <<>> ELSE text
        /\ car(i)["id"] = i
    BY <2>1
  <2>3. row(car(i))[1] = [f \in CarFields |-> car(i)[f]]
    OBVIOUS
  <2> HIDE DEF car
  <2> QED BY <2>1, <2>2, <2>3
<1>4. ASSUME NEW i \in Ids
      PROVE  /\ meets(car(i), Vehicle(q, Null)) <=> hit /\ i \in first
             /\ meets(car(i), Vehicle(Null, q)) <=> hit /\ i \notin first
  <2>1. /\ Vehicle(q, Null).plate = q /\ Vehicle(q, Null).vin = Null
        /\ Vehicle(Null, q).plate = Null /\ Vehicle(Null, q).vin = q
        /\ Vehicle(q, Null).customer_id = Null /\ Vehicle(Null, q).customer_id = Null
    BY DEF Vehicle
  <2> HIDE DEF car
  <2> QED BY <1>3, <2>1
<1>5. ASSUME NEW query
      PROVE  found(query) = {i \in Ids : meets(car(i), query)}
  <2> DEFINE number(g) == g[1].id
  <2>1. \A i \in Ids : number(row(car(i))) = i
    <3> HIDE DEF row, car
    <3> QED BY <1>3
  <2>2. {number(g) : g \in answer(query)} = {i \in Ids : meets(car(i), query)}
    <3> HIDE DEF row, meets, car, number, tables
    <3>1. answer(query) = {row(car(i)) : i \in {j \in Ids : meets(car(j), query)}}
      BY <1>2
    <3> HIDE DEF answer
    <3> QED BY <2>1, <3>1
  <2> QED BY <2>2
<1>6. /\ found(Vehicle(q, Null)) = IF hit THEN first ELSE {}
      /\ found(Vehicle(Null, q)) = IF hit THEN Ids \ first ELSE {}
  <2> HIDE DEF found, meets, car, hit
  <2> QED BY <1>4, <1>5
<1>7. \A query : found(query) = {g[1].id : g \in Vehicles(tables, query)}
  <2> HIDE DEF answer
  <2> QED BY <1>1
<1> HIDE DEF found, tables
<1> QED BY <1>6, <1>7 DEF tables

-----------------------------------------------------------------------------
(* The theorems.                                                            *)

\* The scan and the table keep their types.
THEOREM TypeCorrect == Spec => []TypeOK
<1>1. IInv => TypeOK
  BY DEF IInv, Typed, TypeOK
<1> QED BY <1>1, Invariance, PTL

\* A scan hands out ids in ascending order, hence none twice, whatever is
\* written between its pages and whatever their sizes.
THEOREM ScansAscend == Spec => []Ascending
<1>1. IInv => Ascending
  BY DEF IInv
<1> QED BY <1>1, Invariance, PTL

\* A scan that was followed to its end has every row that matched all along.
THEOREM ScansAreComplete == Spec => []NothingMissed
<1>1. IInv => NothingMissed
  BY DEF IInv
<1> QED BY <1>1, Invariance, PTL

\* For any tables, normalized queries and policy: a field that the catalog does
\* not show has no influence on an answer of get_customer or get_vehicle.
THEOREM LookupsAreBlindToHidden == Spec => []LookupsKeepToPolicy
<1>1. LookupsKeepToPolicy
  <2> SUFFICES ASSUME NEW query \in Lookups, NEW t \in DOMAIN Tables, NEW f \in DOMAIN Other,
                      LET fields(u) == UNION {DOMAIN r : r \in Tables[u]}
                      IN  Required(query, [u \in DOMAIN Tables |->
                                              fields(u) \ IF u = t THEN {f} ELSE {}])
               PROVE  Answer(Changed(t, f), query) = Answer(Tables, query)
    BY DEF LookupsKeepToPolicy, Changed, Overwritten
  <2> QED BY AnswersAlike
<1> QED BY <1>1, PTL

\* Whatever forms an identifier is typed and stored in: the lookups find it if
\* and only if it is the same one, and tell where.
THEOREM LookupsFindEveryForm == Spec => []FoundAsWritten
<1>1. IInv => FoundAsWritten
  <2>1. SUFFICES ASSUME matching \subseteq Ids PROVE FoundAsWritten
    BY DEF IInv, Typed
  <2>2. Phones \subseteq Text /\ Texts \subseteq Text /\ Null \notin Text /\ <<>> \in Text
    BY LookupTexts, EmptySeq DEF Text
  <2>3. ASSUME NEW typed \in Phones, normalize_phone(typed) # Refused,
               NEW stored \in Phones, Len(stored) <= 64
        PROVE  {<<c.customer_id, c.matched_primary_phone, c.matched_additional_phone>> :
                    c \in Customers(Written(stored, matching), Customer(normalize_phone(typed)))}
                 = IF Bare(stored) /\ normalize_phone(stored) = normalize_phone(typed)
                   THEN {<<i, i \in matching, i \notin matching>> : i \in Ids} ELSE {}
    <3>1. /\ normalize_phone(typed) # Null
          /\ StoredPhone(<<>>) # normalize_phone(typed)
          /\ StoredPhone(stored) = normalize_phone(typed)
               <=> Bare(stored) /\ normalize_phone(stored) = normalize_phone(typed)
      BY <2>2, <2>3, PhoneFound
    <3>2. {<<c.customer_id, c.matched_primary_phone, c.matched_additional_phone>> :
               c \in Customers(Written(stored, matching), Customer(normalize_phone(typed)))}
            = IF StoredPhone(stored) = normalize_phone(typed)
              THEN {<<i, i \in matching, i \notin matching>> : i \in Ids} ELSE {}
      BY <3>1, CustomersFound
    <3> QED BY <3>1, <3>2
  <2>4. ASSUME NEW typed \in Texts, NEW stored \in Texts, Len(stored) <= 64,
               normalize_plate(typed) # Refused
        PROVE  {g[1].id : g \in Vehicles(Written(stored, matching), Vehicle(normalize_plate(typed), Null))}
                 = IF normalize_plate(Without(stored, {"vt"})) = normalize_plate(typed)
                   THEN matching ELSE {}
    <3>1. /\ normalize_plate(typed) # Null
          /\ StoredVehicle(<<>>) # normalize_plate(typed)
          /\ StoredVehicle(stored) = normalize_plate(typed)
               <=> normalize_plate(Without(stored, {"vt"})) = normalize_plate(typed)
      BY <2>2, <2>4, PlateFound
    <3>2. {g[1].id : g \in Vehicles(Written(stored, matching), Vehicle(normalize_plate(typed), Null))}
            = IF StoredVehicle(stored) = normalize_plate(typed) THEN matching ELSE {}
      BY <2>1, <2>2, <3>1, VehiclesFound
    <3> QED BY <3>1, <3>2
  <2>5. ASSUME NEW typed \in Texts, NEW stored \in Texts, Len(stored) <= 64,
               normalize_vin(typed) # Refused
        PROVE  {g[1].id : g \in Vehicles(Written(stored, matching), Vehicle(Null, normalize_vin(typed)))}
                 = IF normalize_vin(Without(stored, {"vt"})) = normalize_vin(typed)
                   THEN Ids \ matching ELSE {}
    <3>1. /\ normalize_vin(typed) # Null
          /\ StoredVehicle(<<>>) # normalize_vin(typed)
          /\ StoredVehicle(stored) = normalize_vin(typed)
               <=> normalize_vin(Without(stored, {"vt"})) = normalize_vin(typed)
      BY <2>2, <2>5, VinFound
    <3>2. {g[1].id : g \in Vehicles(Written(stored, matching), Vehicle(Null, normalize_vin(typed)))}
            = IF StoredVehicle(stored) = normalize_vin(typed) THEN Ids \ matching ELSE {}
      BY <2>1, <2>2, <3>1, VehiclesFound
    <3> QED BY <3>1, <3>2
  <2> QED BY <2>3, <2>4, <2>5 DEF FoundAsWritten
<1> QED BY <1>1, Invariance, PTL
=============================================================================
