--------------------------- MODULE CatalogCacheProofs ---------------------------
(***************************************************************************)
(* Theorems about CatalogCache, for any number of calls and any schema     *)
(* changes: when a load begins, how old a snapshot can be, and that a      *)
(* query over two entities has one schema.                                 *)
(*                                                                         *)
(* Argument: whoever loads holds the lock, so a load that begins with the  *)
(* lock free begins alone.  A snapshot's transaction began at most MaxLoad *)
(* before it was stored, since the clock does not pass a load by more.     *)
(* related compares its two snapshots when the second arrives, whatever    *)
(* the lock, the reload and the other calls did between the two.  The      *)
(* queue holds every call that waits, so none of them leaves an empty one, *)
(* and taking one out of the middle loses none of the others.              *)
(***************************************************************************)
EXTENDS CatalogCache, SequenceTheorems, TLAPS

PCs == {"idle", "get", "wait", "load", "loadRest", "query"}

\* TypeOK, but for the lock and the queue.
Types ==
    /\ now \in Time /\ version \in Version
    /\ cache = <<>> \/ \E s \in Snapshot : cache = <<s>>
    /\ pc \in [Call -> PCs]
    /\ want \in [Call -> 1..2]
    /\ got \in [Call -> Seq(Snapshot)]
    /\ seen \in [Call -> [first : Version, since : Time]]

\* A call that still resolves an entity has one to go.
Resolving ==
    \A c \in Call :
        /\ pc[c] = "idle" => Len(got[c]) = 0
        /\ pc[c] \in {"get", "wait", "load", "loadRest"} => Len(got[c]) < want[c]

LockHeld == \A c \in Call : Loading(c) => lock = c

\* Snapshots and loads are not older than a load can take.
Aged ==
    /\ cache # <<>> => cache[1].at <= now /\ cache[1].at - cache[1].from <= MaxLoad
    /\ \A c \in Call :
          Loading(c) => seen[c].since <= now /\ now - seen[c].since <= MaxLoad

\* The lock and its queue: a call that waits has its place there.
Queued ==
    /\ lock \in Call \cup {NoCall}
    /\ queue \in Seq(Call)
    /\ \A c \in Call : pc[c] = "wait" => \E i \in DOMAIN queue : queue[i] = c

IInv == Types /\ Resolving /\ OneSchemaPerQuery /\ LockHeld /\ Aged

USE Bounds

-----------------------------------------------------------------------------
(* What the parts of the actions do.                                        *)

\* The other calls are where they were.
Others(c) ==
    \A d \in Call : d # c => /\ pc'[d] = pc[d] /\ want'[d] = want[d]
                             /\ got'[d] = got[d] /\ seen'[d] = seen[d]

CallsTyped ==
    /\ pc \in [Call -> PCs]
    /\ want \in [Call -> 1..2]
    /\ got \in [Call -> Seq(Snapshot)]
    /\ seen \in [Call -> [first : Version, since : Time]]

LEMMA EndKeeps ==
    ASSUME Types, NEW c \in Call, End(c)
    PROVE  /\ CallsTyped' /\ Others(c)
           /\ pc'[c] = "idle" /\ Len(got'[c]) = 0
<1>1. /\ pc' = [pc EXCEPT ![c] = "idle"] /\ want' = [want EXCEPT ![c] = 1]
      /\ got' = [got EXCEPT ![c] = <<>>] /\ seen' = [seen EXCEPT ![c] = NothingSeen]
  BY DEF End
<1>2. NothingSeen \in [first : Version, since : Time]
  BY DEF NothingSeen, Version, Time
<1>3. CallsTyped'
  BY <1>1, <1>2 DEF Types, CallsTyped, PCs
<1> QED BY <1>1, <1>3 DEF Types, Others

\* A call gets a snapshot: it goes on to its next entity, or to its query,
\* which then has snapshots of one schema, or it gives up.
LEMMA ReturnKeeps ==
    ASSUME Types, NEW c \in Call, NEW s \in Snapshot, Return(c, s), Len(got[c]) < want[c]
    PROVE  /\ CallsTyped' /\ Others(c)
           /\ pc'[c] \in {"idle", "get", "query"}
           /\ pc'[c] = "idle" => Len(got'[c]) = 0
           /\ pc'[c] # "idle" => got'[c] = Append(got[c], s)
           /\ pc'[c] = "get" => Len(got'[c]) < want'[c]
           /\ pc'[c] = "query" => \A i, j \in DOMAIN got'[c] :
                                     got'[c][i].read = got'[c][j].read
<1> DEFINE all == Append(got[c], s)
<1>1. /\ got[c] \in Seq(Snapshot) /\ want[c] \in 1..2 /\ all \in Seq(Snapshot)
      /\ Len(all) = Len(got[c]) + 1 /\ Len(got[c]) \in Nat
      /\ Len(all) <= want[c] /\ DOMAIN all = 1..Len(all)
  BY DEF Types
<1>2. CASE Len(all) = 2 /\ all[1].read # all[2].read
  <2>1. End(c)
    BY <1>2 DEF Return
  <2> QED BY <2>1, EndKeeps
<1>3. CASE ~(Len(all) = 2 /\ all[1].read # all[2].read)
  <2>1. /\ pc' = [pc EXCEPT ![c] = IF Len(all) = want[c] THEN "query" ELSE "get"]
        /\ got' = [got EXCEPT ![c] = all]
        /\ seen' = [seen EXCEPT ![c] = NothingSeen]
        /\ want' = want
    BY <1>3 DEF Return
  <2> HIDE DEF all
  <2>2. NothingSeen \in [first : Version, since : Time]
    BY DEF NothingSeen, Version, Time
  <2>3. CallsTyped'
    BY <1>1, <2>1, <2>2 DEF Types, CallsTyped, PCs
  <2>4. Others(c) /\ got'[c] = all /\ want'[c] = want[c]
        /\ pc'[c] = IF Len(all) = want[c] THEN "query" ELSE "get"
    BY <2>1 DEF Types, Others
  <2>5. \A i, j \in DOMAIN all : all[i].read = all[j].read
    <3>1. CASE Len(all) = 1
      <4>1. \A i \in DOMAIN all : i = 1
        BY <1>1, <3>1
      <4> QED BY <4>1
    <3>2. CASE Len(all) = 2
      <4>1. \A i \in DOMAIN all : i = 1 \/ i = 2
        BY <1>1, <3>2
      <4> QED BY <1>3, <3>2, <4>1
    <3> QED BY <1>1, <3>1, <3>2
  <2>6. pc'[c] = "get" => Len(all) < want[c]
    BY <1>1, <2>4
  <2> QED BY <2>3, <2>4, <2>5, <2>6 DEF all
<1> QED BY <1>2, <1>3

-----------------------------------------------------------------------------

LEMMA InitHolds == Init => IInv
<1> SUFFICES ASSUME Init PROVE IInv
  OBVIOUS
<1>1. Types
  BY DEF Init, Types, Time, Version, PCs, NothingSeen
<1>2. Resolving /\ OneSchemaPerQuery /\ LockHeld /\ Aged
  BY DEF Init, Resolving, OneSchemaPerQuery, LockHeld, Aged, Loading
<1> QED BY <1>1, <1>2 DEF IInv

\* A fresh snapshot is returned, from before the lock or behind it.
LEMMA CachedStep ==
    ASSUME IInv, NEW c \in Call, GetCached(c) \/ ResumeCached(c)
    PROVE  IInv'
<1>1. /\ Fresh /\ Return(c, cache[1]) /\ pc[c] \in {"get", "wait"}
      /\ UNCHANGED <<now, version, cache, lock>>
  BY DEF GetCached, ResumeCached, AtHead
<1>2. cache[1] \in Snapshot
  BY <1>1 DEF IInv, Types, Fresh
<1>3. Len(got[c]) < want[c]
  BY <1>1 DEF IInv, Resolving
<1>4. Types
  BY DEF IInv
<1>5. /\ CallsTyped' /\ Others(c) /\ pc'[c] \in {"idle", "get", "query"}
      /\ pc'[c] = "idle" => Len(got'[c]) = 0
      /\ pc'[c] = "get" => Len(got'[c]) < want'[c]
      /\ pc'[c] = "query" => \A i, j \in DOMAIN got'[c] :
                                got'[c][i].read = got'[c][j].read
  BY <1>1, <1>2, <1>3, <1>4, ReturnKeeps
<1>6. Types'
  BY <1>1, <1>5 DEF IInv, Types, CallsTyped
<1>7. Resolving' /\ OneSchemaPerQuery'
  BY <1>5 DEF IInv, Resolving, OneSchemaPerQuery, Others
<1>8. LockHeld' /\ Aged'
  BY <1>1, <1>5 DEF IInv, LockHeld, Aged, Loading, Others
<1> QED BY <1>6, <1>7, <1>8 DEF IInv

\* A load begins, with the lock free.
LEMMA StartLoadStep ==
    ASSUME IInv, NEW c \in Call, GetLoad(c) \/ ResumeLoad(c)
    PROVE  IInv' /\ ~Fresh /\ \A d \in Call : ~Loading(d)
<1>1. /\ ~Fresh /\ lock = NoCall /\ pc[c] \in {"get", "wait"} /\ StartLoad(c)
      /\ UNCHANGED <<now, version, cache, want, got>>
  BY DEF GetLoad, ResumeLoad, AtHead
<1>2. \A d \in Call : ~Loading(d)
  BY <1>1 DEF IInv, LockHeld
<1>3. /\ lock' = c /\ pc' = [pc EXCEPT ![c] = "load"]
      /\ seen' = [seen EXCEPT ![c] = [first |-> 0, since |-> now]]
  BY <1>1 DEF StartLoad
<1>4. [first |-> 0, since |-> now] \in [first : Version, since : Time]
  BY DEF IInv, Types, Version
<1>5. Types'
  BY <1>1, <1>3, <1>4 DEF IInv, Types, PCs
<1>6. /\ pc'[c] = "load" /\ seen'[c].since = now
      /\ \A d \in Call : d # c => pc'[d] = pc[d] /\ seen'[d] = seen[d]
  BY <1>3 DEF IInv, Types
<1>7. Resolving' /\ OneSchemaPerQuery'
  BY <1>1, <1>6 DEF IInv, Resolving, OneSchemaPerQuery
<1>8. LockHeld'
  BY <1>2, <1>3, <1>6 DEF LockHeld, Loading
<1>9. now \in Nat /\ MaxLoad \in Nat
  BY DEF IInv, Types, Time
<1>10. Aged'
  <2>1. \A d \in Call : Loading(d)' => seen'[d].since = now
    BY <1>2, <1>6 DEF Loading
  <2> QED BY <1>1, <1>9, <2>1 DEF IInv, Aged
<1> QED BY <1>1, <1>2, <1>5, <1>7, <1>8, <1>10 DEF IInv

LEMMA MoveStep ==
    ASSUME IInv, NEW c \in Call,
           GetWait(c) \/ ReadObjects(c) \/ \E n \in 1..2 : Begin(c, n)
    PROVE  IInv'
<1>1. UNCHANGED <<now, version, cache, lock, got>>
  BY DEF GetWait, ReadObjects, Begin
<1>2. CASE GetWait(c)
  <2>1. pc[c] = "get" /\ pc' = [pc EXCEPT ![c] = "wait"] /\ UNCHANGED <<want, seen>>
    BY <1>2 DEF GetWait
  <2>2. Types'
    BY <1>1, <2>1 DEF IInv, Types, PCs
  <2>3. pc'[c] = "wait" /\ \A d \in Call : d # c => pc'[d] = pc[d]
    BY <2>1 DEF IInv, Types
  <2>4. Resolving' /\ OneSchemaPerQuery'
    BY <1>1, <2>1, <2>3 DEF IInv, Resolving, OneSchemaPerQuery
  <2>5. LockHeld' /\ Aged'
    BY <1>1, <2>1, <2>3 DEF IInv, LockHeld, Aged, Loading
  <2> QED BY <2>2, <2>4, <2>5 DEF IInv
<1>3. CASE ReadObjects(c)
  <2>1. /\ pc[c] = "load" /\ pc' = [pc EXCEPT ![c] = "loadRest"]
        /\ seen' = [seen EXCEPT ![c].first = version] /\ UNCHANGED want
    BY <1>3 DEF ReadObjects
  <2>2. Types'
    BY <1>1, <2>1 DEF IInv, Types, PCs
  <2>3. /\ pc'[c] = "loadRest" /\ \A d \in Call : d # c => pc'[d] = pc[d]
        /\ \A d \in Call : seen'[d].since = seen[d].since
    BY <2>1 DEF IInv, Types
  <2>4. Resolving' /\ OneSchemaPerQuery'
    BY <1>1, <2>1, <2>3 DEF IInv, Resolving, OneSchemaPerQuery
  <2>5. LockHeld' /\ Aged'
    BY <1>1, <2>1, <2>3 DEF IInv, LockHeld, Aged, Loading
  <2> QED BY <2>2, <2>4, <2>5 DEF IInv
<1>4. CASE \E n \in 1..2 : Begin(c, n)
  <2>1. PICK n \in 1..2 : Begin(c, n)
    BY <1>4
  <2>2. /\ pc[c] = "idle" /\ pc' = [pc EXCEPT ![c] = "get"]
        /\ want' = [want EXCEPT ![c] = n] /\ UNCHANGED seen
    BY <2>1 DEF Begin
  <2>3. Types'
    BY <1>1, <2>2 DEF IInv, Types, PCs
  <2>4. /\ pc'[c] = "get" /\ want'[c] = n
        /\ \A d \in Call : d # c => pc'[d] = pc[d] /\ want'[d] = want[d]
    BY <2>2 DEF IInv, Types
  <2>5. Resolving' /\ OneSchemaPerQuery'
    BY <1>1, <2>2, <2>4 DEF IInv, Resolving, OneSchemaPerQuery
  <2>6. LockHeld' /\ Aged'
    BY <1>1, <2>2, <2>4 DEF IInv, LockHeld, Aged, Loading
  <2> QED BY <2>3, <2>5, <2>6 DEF IInv
<1> QED BY <1>2, <1>3, <1>4

\* The snapshot is stored: its age is that of the load, and no other call
\* loads, for the lock is this one's.
LEMMA StoreStep ==
    ASSUME IInv, NEW c \in Call, Store(c)
    PROVE  IInv'
<1> DEFINE s == [read |-> <<seen[c].first, version>>, at |-> now, from |-> seen[c].since]
<1>1. /\ pc[c] = "loadRest" /\ cache' = <<s>> /\ Return(c, s) /\ lock' = NoCall
      /\ UNCHANGED <<now, version>>
  BY DEF Store
<1>2. s \in Snapshot
  BY DEF IInv, Types, Snapshot
<1>3. Loading(c) /\ Len(got[c]) < want[c] /\ Types
  BY <1>1 DEF IInv, Resolving, Loading
<1>4. s.at = now /\ s.from = seen[c].since
  OBVIOUS
<1>5. s.at <= now /\ s.at - s.from <= MaxLoad
  BY <1>3, <1>4 DEF IInv, Aged, Types, Time
<1> HIDE DEF s
<1>6. /\ CallsTyped' /\ Others(c) /\ pc'[c] \in {"idle", "get", "query"}
      /\ pc'[c] = "idle" => Len(got'[c]) = 0
      /\ pc'[c] = "get" => Len(got'[c]) < want'[c]
      /\ pc'[c] = "query" => \A i, j \in DOMAIN got'[c] :
                                got'[c][i].read = got'[c][j].read
  BY <1>1, <1>2, <1>3, ReturnKeeps
<1>7. Types'
  BY <1>1, <1>2, <1>6 DEF IInv, Types, CallsTyped, Snapshot, Time, Version
<1>8. Resolving' /\ OneSchemaPerQuery'
  BY <1>6 DEF IInv, Resolving, OneSchemaPerQuery, Others
<1>9. \A d \in Call : ~Loading(d)'
  BY <1>3, <1>6 DEF IInv, LockHeld, Loading, Others
<1>10. LockHeld' /\ Aged'
  BY <1>1, <1>5, <1>9 DEF LockHeld, Aged
<1> QED BY <1>7, <1>8, <1>10 DEF IInv

\* A call ends: its load fails, it is cancelled, or it has its answer.
LEMMA EndStep ==
    ASSUME IInv, NEW c \in Call, LoadFails(c) \/ Query(c) \/ Cancel(c)
    PROVE  IInv'
<1>1. /\ End(c) /\ UNCHANGED <<now, version, cache>>
  BY DEF LoadFails, Query, Cancel
<1>2. /\ CallsTyped' /\ Others(c) /\ pc'[c] = "idle" /\ Len(got'[c]) = 0
  BY <1>1, EndKeeps DEF IInv
<1>3. Types'
  BY <1>1, <1>2 DEF IInv, Types, CallsTyped
<1>4. Resolving' /\ OneSchemaPerQuery'
  BY <1>2 DEF IInv, Resolving, OneSchemaPerQuery, Others
<1>5. lock' = lock \/ Loading(c) \/ lock = c
  BY DEF LoadFails, Query, Cancel
<1>6. LockHeld'
  BY <1>2, <1>5 DEF IInv, LockHeld, Loading, Others
<1>7. Aged'
  BY <1>1, <1>2 DEF IInv, Aged, Loading, Others
<1> QED BY <1>3, <1>4, <1>6, <1>7 DEF IInv

\* Time passes, but no load by more than it may take; or the schema changes.
LEMMA WorldStep ==
    ASSUME IInv, Tick \/ ChangeSchema
    PROVE  IInv'
<1>1. UNCHANGED <<cache, lock, pc, want, got, seen>>
  BY DEF Tick, ChangeSchema
<1>2. now \in Nat /\ now' \in Time /\ version' \in Version /\ now <= now'
  BY DEF IInv, Types, Tick, ChangeSchema, Time, Version
<1>3. Types'
  BY <1>1, <1>2 DEF IInv, Types, Snapshot, Time, Version
<1>4. Resolving' /\ OneSchemaPerQuery' /\ LockHeld'
  BY <1>1 DEF IInv, Resolving, OneSchemaPerQuery, LockHeld, Loading
<1>5. Aged'
  <2>1. \A c \in Call : Loading(c) =>
            seen[c].since \in Nat /\ seen[c].since <= now' /\ now' - seen[c].since <= MaxLoad
    BY <1>2 DEF IInv, Types, Aged, Tick, ChangeSchema, Time
  <2>2. cache # <<>> => cache[1].at \in Nat /\ cache[1].at <= now'
    BY <1>2 DEF IInv, Types, Aged, Snapshot, Time
  <2> QED BY <1>1, <2>1, <2>2 DEF IInv, Aged, Loading
<1> QED BY <1>3, <1>4, <1>5 DEF IInv

-----------------------------------------------------------------------------
(* The queue.                                                               *)

\* A step that leaves the queue alone and makes nobody wait.
LEMMA QueueUntouched ==
    ASSUME Queued, UNCHANGED queue, lock' \in Call \cup {NoCall},
           \A c \in Call : pc'[c] = "wait" => pc[c] = "wait"
    PROVE  Queued'
BY DEF Queued

\* The one at the head leaves.
LEMMA QueueShifts ==
    ASSUME Queued, NEW c \in Call, pc[c] = "wait", Head(queue) = c, queue' = Tail(queue),
           lock' \in Call \cup {NoCall},
           \A d \in Call : pc'[d] = "wait" => d # c /\ pc[d] = "wait"
    PROVE  Queued'
<1>1. PICK i \in DOMAIN queue : queue[i] = c
  BY DEF Queued
<1>2. queue \in Seq(Call) /\ queue # <<>>
  BY <1>1 DEF Queued
<1>3. /\ queue' \in Seq(Call) /\ Len(queue) \in Nat /\ DOMAIN queue = 1..Len(queue)
      /\ Len(queue') = Len(queue) - 1 /\ DOMAIN queue' = 1..Len(queue')
      /\ \A j \in 1..Len(queue') : queue'[j] = queue[j + 1]
      /\ queue[1] = c
  BY <1>2, HeadTailProperties, LenProperties
<1>4. ASSUME NEW d \in Call, pc'[d] = "wait" PROVE \E j \in DOMAIN queue' : queue'[j] = d
  <2>1. PICK j \in DOMAIN queue : queue[j] = d
    BY <1>4 DEF Queued
  <2>2. j # 1
    BY <1>3, <1>4, <2>1
  <2>3. j - 1 \in 1..Len(queue') /\ (j - 1) + 1 = j
    BY <1>3, <2>1, <2>2
  <2> QED BY <1>3, <2>1, <2>3
<1> QED BY <1>3, <1>4 DEF Queued

\* A sequence without the element at one place has all the others.
LEMMA RemoveAtKeeps ==
    ASSUME NEW S, NEW s \in Seq(S), NEW i \in DOMAIN s
    PROVE  /\ RemoveAt(s, i) \in Seq(S)
           /\ \A j \in DOMAIN s : j # i =>
                 \E k \in DOMAIN RemoveAt(s, i) : RemoveAt(s, i)[k] = s[j]
           /\ \A k \in DOMAIN RemoveAt(s, i) :
                 /\ k \in DOMAIN s /\ (k >= i => k + 1 \in DOMAIN s)
                 /\ RemoveAt(s, i)[k] = IF k < i THEN s[k] ELSE s[k + 1]
<1> DEFINE a == SubSeq(s, 1, i - 1)
           b == SubSeq(s, i + 1, Len(s))
<1>1. Len(s) \in Nat /\ DOMAIN s = 1..Len(s) /\ i \in 1..Len(s)
  BY LenProperties
<1>2. /\ a \in Seq(S) /\ Len(a) = i - 1
      /\ \A k \in 1..(i - 1) : a[k] = s[k]
  BY <1>1
<1>3. /\ b \in Seq(S) /\ Len(b) = Len(s) - i
      /\ \A k \in 1..(Len(s) - i) : b[k] = s[i + k]
  BY <1>1
<1> HIDE DEF a, b
<1>4. /\ a \o b \in Seq(S) /\ Len(a \o b) = Len(s) - 1
      /\ \A k \in 1..(Len(s) - 1) :
            (a \o b)[k] = IF k <= i - 1 THEN a[k] ELSE b[k - (i - 1)]
  <2>1. /\ a \o b \in Seq(S) /\ Len(a \o b) = Len(a) + Len(b)
        /\ \A k \in 1 .. Len(a) + Len(b) :
              (a \o b)[k] = IF k <= Len(a) THEN a[k] ELSE b[k - Len(a)]
    BY ONLY <1>2, <1>3, ConcatProperties
  <2>2. Len(a) + Len(b) = Len(s) - 1
    BY <1>1, <1>2, <1>3
  <2> QED BY <1>2, <2>1, <2>2
<1>5. RemoveAt(s, i) = a \o b
  BY DEF RemoveAt, a, b
<1>6. DOMAIN (a \o b) = 1..(Len(s) - 1)
  BY <1>4, LenProperties
<1>7. ASSUME NEW j \in DOMAIN s, j # i PROVE \E k \in 1..(Len(s) - 1) : (a \o b)[k] = s[j]
  <2>1. CASE j < i
    <3>1. j \in 1..(i - 1) /\ j \in 1..(Len(s) - 1) /\ j <= i - 1
      BY <1>1, <2>1
    <3> QED BY <1>2, <1>4, <3>1
  <2>2. CASE j > i
    <3>1. /\ j - 1 \in 1..(Len(s) - 1) /\ ~(j - 1 <= i - 1)
          /\ (j - 1) - (i - 1) = j - i /\ j - i \in 1..(Len(s) - i) /\ i + (j - i) = j
      BY <1>1, <2>2
    <3>2. (a \o b)[j - 1] = b[j - i]
      BY <1>4, <3>1
    <3>3. b[j - i] = s[j]
      BY <1>3, <3>1
    <3> QED BY <3>1, <3>2, <3>3
  <2>3. j < i \/ j > i
    BY <1>1, <1>7
  <2> QED BY ONLY <2>1, <2>2, <2>3
<1> HIDE DEF RemoveAt
<1>8. DOMAIN RemoveAt(s, i) = 1..(Len(s) - 1)
  BY <1>5, <1>6
<1>9. ASSUME NEW j \in DOMAIN s, j # i
      PROVE  \E k \in DOMAIN RemoveAt(s, i) : RemoveAt(s, i)[k] = s[j]
  BY <1>5, <1>7, <1>8, <1>9
<1>10. ASSUME NEW k \in 1..(Len(s) - 1)
       PROVE  /\ k \in 1..Len(s) /\ (k >= i => k + 1 \in 1..Len(s))
              /\ (a \o b)[k] = IF k < i THEN s[k] ELSE s[k + 1]
  <2>1. CASE k < i
    <3>1. k \in 1..(i - 1) /\ k <= i - 1
      BY <1>1, <2>1
    <3> QED BY <1>1, <1>2, <1>4, <2>1, <3>1
  <2>2. CASE ~(k < i)
    <3>1. /\ ~(k <= i - 1) /\ k - (i - 1) \in 1..(Len(s) - i)
          /\ i + (k - (i - 1)) = k + 1
      BY <1>1, <2>2
    <3>2. b[k - (i - 1)] = s[k + 1]
      BY <1>3, <3>1
    <3> QED BY <1>1, <1>4, <2>2, <3>1, <3>2
  <2> QED BY <2>1, <2>2
<1> QED BY <1>1, <1>4, <1>5, <1>8, <1>9, <1>10

\* One that waits is cancelled, wherever it stands.
LEMMA QueueLeft ==
    ASSUME Queued, NEW c \in Call, pc[c] = "wait", queue' = RemoveAt(queue, PlaceOf(c)),
           lock' \in Call \cup {NoCall},
           \A d \in Call : pc'[d] = "wait" => d # c /\ pc[d] = "wait"
    PROVE  Queued'
<1> DEFINE i == PlaceOf(c)
<1>1. i \in DOMAIN queue /\ queue[i] = c /\ queue \in Seq(Call)
  BY DEF Queued, PlaceOf
<1> HIDE DEF i
<1>2. /\ RemoveAt(queue, i) \in Seq(Call)
      /\ \A j \in DOMAIN queue : j # i =>
            \E k \in DOMAIN RemoveAt(queue, i) : RemoveAt(queue, i)[k] = queue[j]
  BY <1>1, RemoveAtKeeps
<1>3. queue' = RemoveAt(queue, i)
  BY DEF i
<1>4. ASSUME NEW d \in Call, pc'[d] = "wait" PROVE \E k \in DOMAIN queue' : queue'[k] = d
  <2>1. PICK j \in DOMAIN queue : queue[j] = d
    BY <1>4 DEF Queued
  <2> QED BY <1>1, <1>2, <1>3, <1>4, <2>1
<1> QED BY <1>2, <1>3, <1>4 DEF Queued

\* A call takes its place at the end.
LEMMA QueueGrows ==
    ASSUME Queued, NEW c \in Call, queue' = Append(queue, c), UNCHANGED lock,
           \A d \in Call : d # c /\ pc'[d] = "wait" => pc[d] = "wait"
    PROVE  Queued'
<1>1. /\ queue \in Seq(Call) /\ queue' \in Seq(Call) /\ Len(queue) \in Nat
      /\ Len(queue') = Len(queue) + 1 /\ queue'[Len(queue')] = c
      /\ \A i \in 1..Len(queue) : queue'[i] = queue[i]
      /\ DOMAIN queue = 1..Len(queue) /\ DOMAIN queue' = 1..Len(queue')
  BY AppendProperties, LenProperties DEF Queued
<1>2. \A i \in DOMAIN queue : i \in DOMAIN queue'
  BY <1>1
<1>3. Len(queue') \in DOMAIN queue'
  BY <1>1
<1> QED BY <1>1, <1>2, <1>3 DEF Queued

\* Which calls wait after a call got a snapshot or ended.
LEMMA NobodyElseWaits ==
    ASSUME Types, NEW c \in Call, End(c) \/ \E s : Return(c, s)
    PROVE  \A d \in Call : pc'[d] = "wait" => d # c /\ pc[d] = "wait"
BY DEF End, Return, Types

LEMMA QueuedInit == Init => Queued
<1>1. <<>> \in Seq(Call)
  BY EmptySeq
<1> QED BY <1>1 DEF Init, Queued

LEMMA QueuedStep == IInv /\ Queued /\ [Next]_vars => Queued'
<1> SUFFICES ASSUME IInv, Queued, [Next]_vars PROVE Queued'
  OBVIOUS
<1>t. Types
  BY DEF IInv
<1>l. lock \in Call \cup {NoCall}
  BY DEF Queued
<1>1. ASSUME NEW c \in Call, GetCached(c) PROVE Queued'
  <2>1. UNCHANGED <<queue, lock>> /\ \E s : Return(c, s)
    BY <1>1 DEF GetCached
  <2> QED BY <2>1, <1>t, <1>l, NobodyElseWaits, QueueUntouched
<1>2. ASSUME NEW c \in Call, GetLoad(c) PROVE Queued'
  <2>1. queue' = queue /\ lock' = c /\ pc' = [pc EXCEPT ![c] = "load"]
    BY <1>2 DEF GetLoad, StartLoad
  <2>2. \A d \in Call : pc'[d] = "wait" => pc[d] = "wait"
    BY <2>1, <1>t DEF Types
  <2> QED BY <2>1, <2>2, QueueUntouched
<1>3. ASSUME NEW c \in Call, GetWait(c) PROVE Queued'
  <2>1. queue' = Append(queue, c) /\ UNCHANGED lock /\ pc' = [pc EXCEPT ![c] = "wait"]
    BY <1>3 DEF GetWait
  <2>2. \A d \in Call : d # c /\ pc'[d] = "wait" => pc[d] = "wait"
    BY <2>1, <1>t DEF Types
  <2> QED BY <2>1, <2>2, QueueGrows
<1>4. ASSUME NEW c \in Call, ResumeCached(c) PROVE Queued'
  <2>1. /\ pc[c] = "wait" /\ Head(queue) = c /\ queue' = Tail(queue)
        /\ UNCHANGED lock /\ \E s : Return(c, s)
    BY <1>4 DEF ResumeCached, AtHead
  <2> QED BY <2>1, <1>t, <1>l, NobodyElseWaits, QueueShifts
<1>5. ASSUME NEW c \in Call, ResumeLoad(c) PROVE Queued'
  <2>1. /\ pc[c] = "wait" /\ Head(queue) = c /\ queue' = Tail(queue)
        /\ lock' = c /\ pc' = [pc EXCEPT ![c] = "load"]
    BY <1>5 DEF ResumeLoad, AtHead, StartLoad
  <2>2. \A d \in Call : pc'[d] = "wait" => d # c /\ pc[d] = "wait"
    BY <2>1, <1>t DEF Types
  <2> QED BY <2>1, <2>2, QueueShifts
<1>6. ASSUME NEW c \in Call, ReadObjects(c) \/ \E n \in 1..2 : Begin(c, n) PROVE Queued'
  <2>1. UNCHANGED <<queue, lock>>
    BY <1>6 DEF ReadObjects, Begin
  <2>2. pc' = [pc EXCEPT ![c] = "loadRest"] \/ pc' = [pc EXCEPT ![c] = "get"]
    BY <1>6 DEF ReadObjects, Begin
  <2>3. \A d \in Call : pc'[d] = "wait" => pc[d] = "wait"
    BY <2>2, <1>t DEF Types
  <2> QED BY <2>1, <2>3, <1>l, QueueUntouched
<1>7. ASSUME NEW c \in Call, Store(c) PROVE Queued'
  <2>1. queue' = queue /\ lock' = NoCall /\ \E s : Return(c, s)
    BY <1>7 DEF Store
  <2> QED BY <2>1, <1>t, NobodyElseWaits, QueueUntouched
<1>8. ASSUME NEW c \in Call, LoadFails(c) \/ Query(c) PROVE Queued'
  <2>1. queue' = queue /\ lock' \in {lock, NoCall} /\ End(c)
    BY <1>8 DEF LoadFails, Query
  <2> QED BY <2>1, <1>t, <1>l, NobodyElseWaits, QueueUntouched
<1>9. ASSUME NEW c \in Call, Cancel(c) PROVE Queued'
  <2>1. /\ queue' = IF pc[c] = "wait" THEN RemoveAt(queue, PlaceOf(c)) ELSE queue
        /\ lock' \in {lock, NoCall} /\ End(c)
    BY <1>9 DEF Cancel
  <2>2. lock' \in Call \cup {NoCall}
    BY <2>1, <1>l
  <2>3. CASE pc[c] = "wait"
    BY <2>1, <2>2, <2>3, <1>t, NobodyElseWaits, QueueLeft
  <2>4. CASE pc[c] # "wait"
    BY <2>1, <2>2, <2>4, <1>t, NobodyElseWaits, QueueUntouched
  <2> QED BY <2>3, <2>4
<1>10. CASE Tick \/ ChangeSchema \/ UNCHANGED vars
  BY <1>10 DEF Tick, ChangeSchema, vars, Queued
<1> QED BY <1>1, <1>2, <1>3, <1>4, <1>5, <1>6, <1>7, <1>8, <1>9, <1>10 DEF Next, Step

-----------------------------------------------------------------------------
(* The theorems.                                                            *)

LEMMA StepKeeps == IInv /\ [Next]_vars => IInv'
<1> SUFFICES ASSUME IInv, [Next]_vars PROVE IInv'
  OBVIOUS
<1>1. CASE UNCHANGED vars
  BY <1>1 DEF vars, IInv, Types, Resolving, OneSchemaPerQuery, LockHeld, Loading, Aged
<1>2. ASSUME NEW c \in Call, Step(c) PROVE IInv'
  BY <1>2, CachedStep, StartLoadStep, MoveStep, StoreStep, EndStep DEF Step
<1>3. ASSUME NEW c \in Call, Cancel(c) \/ \E n \in 1..2 : Begin(c, n) PROVE IInv'
  BY <1>3, EndStep, MoveStep
<1> QED BY <1>1, <1>2, <1>3, WorldStep DEF Next

LEMMA Invariance == Spec => []IInv
BY InitHolds, StepKeeps, PTL DEF Spec

\* Types, and with them that no call waits outside the queue.
THEOREM TypeCorrect == Spec => []TypeOK
<1>1. IInv /\ Queued => TypeOK
  BY DEF IInv, Types, Queued, TypeOK, PCs
<1> QED BY <1>1, Invariance, InitHolds, StepKeeps, QueuedInit, QueuedStep, PTL DEF Spec

\* A query over two entities is built from one schema.
THEOREM QueriesAreOfOneSchema == Spec => []OneSchemaPerQuery
<1>1. IInv => OneSchemaPerQuery
  BY DEF IInv
<1> QED BY <1>1, Invariance, PTL

\* What a call does in one step, as far as the two action properties see it.
LEMMA LoadBegins ==
    ASSUME IInv, [Next]_vars
    PROVE  \A c \in Call : pc[c] # "load" /\ pc'[c] = "load"
               => ~Fresh /\ \A d \in Call : ~Loading(d)
<1> SUFFICES ASSUME NEW c \in Call, pc[c] # "load", pc'[c] = "load"
             PROVE  ~Fresh /\ \A d \in Call : ~Loading(d)
  OBVIOUS
<1>1. ASSUME NEW d \in Call, GetCached(d) \/ ResumeCached(d) \/ Store(d) PROVE FALSE
  <2>1. \E s : Return(d, s)
    BY <1>1 DEF GetCached, ResumeCached, Store
  <2>2. \A e \in Call : pc'[e] = pc[e] \/ pc'[e] \in {"idle", "get", "query"}
    BY <2>1 DEF Return, End, IInv, Types
  <2> QED BY <2>2
<1>2. ASSUME NEW d \in Call, GetLoad(d) \/ ResumeLoad(d)
      PROVE  ~Fresh /\ \A e \in Call : ~Loading(e)
  BY <1>2, StartLoadStep
<1>3. ASSUME NEW d \in Call,
             \/ GetWait(d) \/ ReadObjects(d) \/ LoadFails(d) \/ Query(d) \/ Cancel(d)
             \/ \E n \in 1..2 : Begin(d, n)
      PROVE  FALSE
  BY <1>3 DEF GetWait, ReadObjects, LoadFails, Query, Cancel, Begin, End, IInv, Types
<1>4. ~(Tick \/ ChangeSchema \/ UNCHANGED vars)
  BY DEF Tick, ChangeSchema, vars
<1> QED BY <1>1, <1>2, <1>3, <1>4 DEF Next, Step

\* A load begins only when there is no fresh snapshot and nobody loads.
THEOREM LoadsAreNeeded == Spec => LoadOnlyWhenStale
<1>1. IInv /\ [Next]_vars =>
        [\A c \in Call : pc[c] # "load" /\ pc'[c] = "load"
             => ~Fresh /\ \A d \in Call : ~Loading(d)]_vars
  BY LoadBegins
<1> QED BY <1>1, Invariance, PTL DEF Spec, LoadOnlyWhenStale

\* The snapshot a call is handed is young enough.
LEMMA HandedOutYoung ==
    ASSUME IInv, [Next]_vars
    PROVE  \A c \in Call : Len(got'[c]) > Len(got[c])
               => LET s == got'[c][Len(got'[c])] IN now - s.from <= TTL + MaxLoad
<1> SUFFICES ASSUME NEW c \in Call, Len(got'[c]) > Len(got[c])
             PROVE  now - got'[c][Len(got'[c])].from <= TTL + MaxLoad
  OBVIOUS
<1>1. /\ Types /\ Aged /\ now \in Nat /\ TTL \in Nat /\ MaxLoad \in Nat
      /\ got[c] \in Seq(Snapshot) /\ Len(got[c]) \in Nat
  BY DEF IInv, Types, Time
<1>2. ASSUME NEW d \in Call, NEW s \in Snapshot, Return(d, s), pc[d] # "idle",
             pc[d] # "query", now - s.from <= TTL + MaxLoad
      PROVE  now - got'[c][Len(got'[c])].from <= TTL + MaxLoad
  <2>1. Len(got[d]) < want[d]
    BY <1>2 DEF IInv, Resolving, Types, PCs
  <2>2. /\ Others(d)
        /\ pc'[d] = "idle" => Len(got'[d]) = 0
        /\ pc'[d] # "idle" => got'[d] = Append(got[d], s)
    BY <1>1, <1>2, <2>1, ReturnKeeps
  <2>3. c = d
    BY <1>1, <2>2 DEF Others
  <2>4. got'[c] = Append(got[c], s)
    BY <1>1, <2>2, <2>3
  <2>5. got'[c][Len(got'[c])] = s
    BY <1>1, <2>4
  <2> QED BY <1>2, <2>5
<1>3. ASSUME NEW d \in Call, GetCached(d) \/ ResumeCached(d)
      PROVE  now - got'[c][Len(got'[c])].from <= TTL + MaxLoad
  <2>1. Fresh /\ Return(d, cache[1]) /\ pc[d] \in {"get", "wait"}
    BY <1>3 DEF GetCached, ResumeCached, AtHead
  <2>2. cache[1] \in Snapshot /\ now - cache[1].at < TTL
        /\ cache[1].at - cache[1].from <= MaxLoad
    BY <1>1, <2>1 DEF Fresh, Types, Aged
  <2>3. now - cache[1].from <= TTL + MaxLoad
    BY <1>1, <2>2 DEF Snapshot, Time
  <2> QED BY <1>2, <2>1, <2>2, <2>3
<1>4. ASSUME NEW d \in Call, Store(d)
      PROVE  now - got'[c][Len(got'[c])].from <= TTL + MaxLoad
  <2> DEFINE s == [read |-> <<seen[d].first, version>>, at |-> now,
                   from |-> seen[d].since]
  <2>1. pc[d] = "loadRest" /\ Return(d, s)
    BY <1>4 DEF Store
  <2>2. s \in Snapshot
    BY <1>1 DEF Types, Snapshot
  <2>3. now - s.from <= TTL + MaxLoad
    <3>1. now - seen[d].since <= MaxLoad /\ seen[d].since \in Nat
      BY <1>1, <2>1 DEF Aged, Loading, Types, Time
    <3> QED BY <1>1, <3>1
  <2> HIDE DEF s
  <2> QED BY <1>2, <2>1, <2>2, <2>3
<1>5. ASSUME NEW d \in Call, LoadFails(d) \/ Query(d) \/ Cancel(d) PROVE FALSE
  <2>1. End(d)
    BY <1>5 DEF LoadFails, Query, Cancel
  <2>2. Others(d) /\ Len(got'[d]) = 0
    BY <1>1, <2>1, EndKeeps
  <2>3. c = d
    BY <1>1, <2>2 DEF Others
  <2> QED BY <1>1, <2>2, <2>3
<1>6. ASSUME UNCHANGED got PROVE FALSE
  BY <1>1, <1>6
<1>7. ASSUME NEW d \in Call,
             \/ GetLoad(d) \/ GetWait(d) \/ ResumeLoad(d) \/ ReadObjects(d)
             \/ \E n \in 1..2 : Begin(d, n)
      PROVE  UNCHANGED got
  BY <1>7 DEF GetLoad, GetWait, ResumeLoad, ReadObjects, Begin
<1>8. Tick \/ ChangeSchema \/ UNCHANGED vars => UNCHANGED got
  BY DEF Tick, ChangeSchema, vars
<1> QED BY <1>3, <1>4, <1>5, <1>6, <1>7, <1>8 DEF Next, Step

\* No schema older than TTL + MaxLoad is handed to a call.
THEOREM AgesAreBounded == Spec => AgeBounded
<1>1. IInv /\ [Next]_vars =>
        [\A c \in Call : Len(got'[c]) > Len(got[c])
             => LET s == got'[c][Len(got'[c])] IN now - s.from <= TTL + MaxLoad]_vars
  BY HandedOutYoung
<1> QED BY <1>1, Invariance, PTL DEF Spec, AgeBounded

-----------------------------------------------------------------------------
(* Nobody waits in vain.                                                    *)

\* Who is in the queue waits, and has one place.
PlacesWait ==
    /\ \A i \in DOMAIN queue : pc[queue[i]] = "wait"
    /\ \A i, j \in DOMAIN queue : queue[i] = queue[j] => i = j

\* A lock that is held is held by a load.
HolderLoads == lock # NoCall => Loading(lock)

\* A step of a call that does not wait leaves the queue alone.
LEMMA PlacesUntouched ==
    ASSUME Queued, PlacesWait, UNCHANGED queue, NEW c \in Call, pc[c] # "wait",
           \A d \in Call : d # c => pc'[d] = pc[d]
    PROVE  PlacesWait'
<1>1. \A i \in DOMAIN queue : queue[i] \in Call
  BY ElementOfSeq, LenProperties DEF Queued
<1> QED BY <1>1 DEF PlacesWait

\* The head has no second place behind it.
LEMMA PlacesShift ==
    ASSUME Queued, PlacesWait, NEW c \in Call, pc[c] = "wait", Head(queue) = c,
           queue' = Tail(queue), \A d \in Call : d # c => pc'[d] = pc[d]
    PROVE  PlacesWait'
<1>1. queue \in Seq(Call) /\ queue # <<>>
  BY DEF Queued
<1>2. /\ Len(queue) \in Nat /\ DOMAIN queue = 1..Len(queue)
      /\ Len(queue') = Len(queue) - 1 /\ DOMAIN queue' = 1..Len(queue')
      /\ \A j \in 1..Len(queue') : queue'[j] = queue[j + 1]
      /\ queue[1] = c /\ \A i \in DOMAIN queue : queue[i] \in Call
  BY <1>1, HeadTailProperties, LenProperties, ElementOfSeq
<1>3. \A j \in DOMAIN queue' : j \in Nat /\ j + 1 \in DOMAIN queue /\ j + 1 # 1
  BY <1>2
<1>4. \A j \in DOMAIN queue' : queue'[j] = queue[j + 1] /\ queue[j + 1] # c
  BY <1>2, <1>3 DEF PlacesWait
<1>5. \A j \in DOMAIN queue' : pc'[queue'[j]] = "wait"
  BY <1>2, <1>3, <1>4 DEF PlacesWait
<1>6. ASSUME NEW i \in DOMAIN queue', NEW j \in DOMAIN queue', queue'[i] = queue'[j]
      PROVE  i = j
  <2>1. i + 1 = j + 1
    BY <1>3, <1>4, <1>6 DEF PlacesWait
  <2> QED BY <1>3, <2>1
<1> QED BY <1>5, <1>6 DEF PlacesWait

\* Nor has one that is cancelled in the middle.
LEMMA PlacesLeft ==
    ASSUME Queued, PlacesWait, NEW c \in Call, pc[c] = "wait",
           queue' = RemoveAt(queue, PlaceOf(c)),
           \A d \in Call : d # c => pc'[d] = pc[d]
    PROVE  PlacesWait'
<1> DEFINE i == PlaceOf(c)
<1>1. i \in DOMAIN queue /\ queue[i] = c /\ queue \in Seq(Call)
  BY DEF Queued, PlaceOf
<1>2. queue' = RemoveAt(queue, i)
  OBVIOUS
<1> HIDE DEF i
<1>3. \A k \in DOMAIN queue' :
         /\ k \in DOMAIN queue /\ (k >= i => k + 1 \in DOMAIN queue)
         /\ queue'[k] = IF k < i THEN queue[k] ELSE queue[k + 1]
  BY <1>1, <1>2, RemoveAtKeeps
<1>4. /\ DOMAIN queue = 1..Len(queue) /\ Len(queue) \in Nat /\ i \in Nat
      /\ \A j \in DOMAIN queue : queue[j] \in Call
  BY <1>1, LenProperties, ElementOfSeq
<1>5. ASSUME NEW k \in DOMAIN queue'
      PROVE  queue'[k] \in Call /\ queue'[k] # c /\ pc[queue'[k]] = "wait"
  <2>1. CASE k < i
    BY <1>1, <1>3, <1>4, <2>1 DEF PlacesWait
  <2>2. CASE ~(k < i)
    <3>1. k \in Nat /\ k >= i /\ k + 1 # i
      BY <1>3, <1>4, <2>2
    <3> QED BY <1>1, <1>3, <1>4, <2>2, <3>1 DEF PlacesWait
  <2> QED BY <2>1, <2>2
<1>6. ASSUME NEW k \in DOMAIN queue', NEW l \in DOMAIN queue', queue'[k] = queue'[l]
      PROVE  k = l
  <2>1. k \in Nat /\ l \in Nat
    BY <1>3, <1>4
  <2>2. CASE k < i /\ l < i
    BY <1>3, <1>6, <2>2 DEF PlacesWait
  <2>3. CASE k >= i /\ l >= i
    <3>1. k + 1 = l + 1
      BY <1>3, <1>4, <1>6, <2>1, <2>3 DEF PlacesWait
    <3> QED BY <2>1, <3>1
  <2>4. CASE k < i /\ l >= i
    <3>1. k = l + 1
      BY <1>3, <1>4, <1>6, <2>1, <2>4 DEF PlacesWait
    <3> QED BY <1>4, <2>1, <2>4, <3>1
  <2>5. CASE k >= i /\ l < i
    <3>1. k + 1 = l
      BY <1>3, <1>4, <1>6, <2>1, <2>5 DEF PlacesWait
    <3> QED BY <1>4, <2>1, <2>5, <3>1
  <2> QED BY <1>4, <2>1, <2>2, <2>3, <2>4, <2>5
<1> QED BY <1>5, <1>6 DEF PlacesWait

\* A call takes its place at the end, where it had none.
LEMMA PlacesGrow ==
    ASSUME Queued, PlacesWait, NEW c \in Call, pc[c] # "wait", pc'[c] = "wait",
           queue' = Append(queue, c), \A d \in Call : d # c => pc'[d] = pc[d]
    PROVE  PlacesWait'
<1>1. /\ queue \in Seq(Call) /\ queue' \in Seq(Call) /\ Len(queue) \in Nat
      /\ Len(queue') = Len(queue) + 1 /\ queue'[Len(queue')] = c
      /\ \A i \in 1..Len(queue) : queue'[i] = queue[i]
      /\ DOMAIN queue = 1..Len(queue) /\ DOMAIN queue' = 1..Len(queue')
      /\ \A i \in DOMAIN queue : queue[i] \in Call
  BY AppendProperties, LenProperties, ElementOfSeq DEF Queued
<1>2. \A i \in DOMAIN queue' : i \in DOMAIN queue \/ i = Len(queue')
  BY <1>1
<1>3. \A i \in DOMAIN queue : queue'[i] = queue[i] /\ queue[i] # c
  BY <1>1 DEF PlacesWait
<1> QED BY <1>1, <1>2, <1>3 DEF PlacesWait

LEMMA PlacesInit == Init => PlacesWait /\ HolderLoads
BY DEF Init, PlacesWait, HolderLoads

LEMMA PlacesStep ==
    ASSUME IInv, Queued, PlacesWait, [Next]_vars
    PROVE  PlacesWait'
<1>t. Types
  BY DEF IInv
<1>1. ASSUME NEW c \in Call, End(c) \/ \E s : Return(c, s)
      PROVE  \A d \in Call : d # c => pc'[d] = pc[d]
  BY <1>1, <1>t DEF End, Return, Types
<1>2. ASSUME NEW c \in Call,
             \/ GetCached(c) \/ GetLoad(c) \/ ReadObjects(c) \/ Store(c)
             \/ LoadFails(c) \/ Query(c) \/ \E n \in 1..2 : Begin(c, n)
      PROVE  PlacesWait'
  <2>1. UNCHANGED queue /\ pc[c] # "wait"
    BY <1>2 DEF GetCached, GetLoad, ReadObjects, Store, LoadFails, Query, Begin, Loading
  <2>2. \/ End(c) \/ \E s : Return(c, s)
        \/ \E to : pc' = [pc EXCEPT ![c] = to]
    BY <1>2 DEF GetCached, GetLoad, StartLoad, ReadObjects, Store, LoadFails, Query, Begin
  <2>3. \A d \in Call : d # c => pc'[d] = pc[d]
    BY <2>2, <1>1, <1>t DEF Types
  <2> QED BY <2>1, <2>3, PlacesUntouched
<1>3. ASSUME NEW c \in Call, GetWait(c) PROVE PlacesWait'
  <2>1. /\ pc[c] = "get" /\ queue' = Append(queue, c)
        /\ pc' = [pc EXCEPT ![c] = "wait"]
    BY <1>3 DEF GetWait
  <2>2. pc[c] # "wait" /\ pc'[c] = "wait" /\ \A d \in Call : d # c => pc'[d] = pc[d]
    BY <2>1, <1>t DEF Types
  <2> QED BY <2>1, <2>2, PlacesGrow
<1>4. ASSUME NEW c \in Call, ResumeCached(c) \/ ResumeLoad(c) PROVE PlacesWait'
  <2>1. pc[c] = "wait" /\ Head(queue) = c /\ queue' = Tail(queue)
    BY <1>4 DEF ResumeCached, ResumeLoad, AtHead
  <2>2. (\E s : Return(c, s)) \/ pc' = [pc EXCEPT ![c] = "load"]
    BY <1>4 DEF ResumeCached, ResumeLoad, StartLoad
  <2>3. \A d \in Call : d # c => pc'[d] = pc[d]
    BY <2>2, <1>1, <1>t DEF Types
  <2> QED BY <2>1, <2>3, PlacesShift
<1>5. ASSUME NEW c \in Call, Cancel(c) PROVE PlacesWait'
  <2>1. /\ queue' = IF pc[c] = "wait" THEN RemoveAt(queue, PlaceOf(c)) ELSE queue
        /\ \A d \in Call : d # c => pc'[d] = pc[d]
    BY <1>1, <1>5 DEF Cancel
  <2> QED BY <2>1, PlacesLeft, PlacesUntouched
<1>6. CASE Tick \/ ChangeSchema \/ UNCHANGED vars
  BY <1>6 DEF Tick, ChangeSchema, vars, PlacesWait
<1> QED BY <1>2, <1>3, <1>4, <1>5, <1>6 DEF Next, Step

\* Who ends a load, in whatever way, gives the lock up, and nobody else has it.
LEMMA HolderStep ==
    ASSUME IInv, Queued, HolderLoads, [Next]_vars
    PROVE  HolderLoads'
<1>t. /\ pc \in [Call -> PCs] /\ lock \in Call \cup {NoCall}
      /\ \A c \in Call : Loading(c) => lock = c
  BY DEF IInv, Types, LockHeld, Queued
<1>1. ASSUME NEW c \in Call, End(c) \/ \E s : Return(c, s)
      PROVE  \A d \in Call : d # c => pc'[d] = pc[d]
  BY <1>1, <1>t DEF End, Return
<1>2. ASSUME NEW c \in Call, Store(c) \/ LoadFails(c) PROVE HolderLoads'
  BY <1>2 DEF Store, LoadFails, HolderLoads
<1>3. ASSUME NEW c \in Call, GetLoad(c) \/ ResumeLoad(c) PROVE HolderLoads'
  BY <1>3, <1>t DEF GetLoad, ResumeLoad, StartLoad, HolderLoads, Loading
<1>4. ASSUME NEW c \in Call, GetCached(c) \/ ResumeCached(c) \/ Query(c) PROVE HolderLoads'
  <2>1. ~Loading(c) /\ UNCHANGED lock /\ (End(c) \/ \E s : Return(c, s))
    BY <1>4 DEF GetCached, ResumeCached, AtHead, Query, Loading
  <2>2. lock # c
    BY <2>1 DEF HolderLoads
  <2> QED BY <2>1, <2>2, <1>1, <1>t DEF HolderLoads, Loading
<1>5. ASSUME NEW c \in Call, GetWait(c) \/ ReadObjects(c) \/ \E n \in 1..2 : Begin(c, n)
      PROVE  HolderLoads'
  BY <1>5, <1>t DEF GetWait, ReadObjects, Begin, HolderLoads, Loading
<1>6. ASSUME NEW c \in Call, Cancel(c) PROVE HolderLoads'
  <2>1. lock' = (IF lock = c THEN NoCall ELSE lock) /\ End(c)
    BY <1>6 DEF Cancel
  <2> QED BY <2>1, <1>1, <1>t DEF HolderLoads, Loading
<1>7. CASE Tick \/ ChangeSchema \/ UNCHANGED vars
  BY <1>7 DEF Tick, ChangeSchema, vars, HolderLoads, Loading
<1> QED BY <1>2, <1>3, <1>4, <1>5, <1>6, <1>7 DEF Next, Step

\* However loads fail and calls are cancelled, with any number of calls: a held
\* lock is held by a load, and the queue is the calls that wait (get_snapshot).
THEOREM TheLockIsHandedOn == Spec => []NobodyWaitsInVain
<1>1. Queued /\ PlacesWait /\ HolderLoads => NobodyWaitsInVain
  BY DEF Queued, PlacesWait, HolderLoads, NobodyWaitsInVain
<1>2. IInv /\ Queued /\ PlacesWait /\ [Next]_vars => PlacesWait'
  BY PlacesStep
<1>3. IInv /\ Queued /\ HolderLoads /\ [Next]_vars => HolderLoads'
  BY HolderStep
<1> QED BY <1>1, <1>2, <1>3, Invariance, InitHolds, StepKeeps, QueuedInit, QueuedStep,
           PlacesInit, PTL DEF Spec
=============================================================================
