----------------------------- MODULE CatalogCache -----------------------------
(***************************************************************************)
(* The catalog of one source database, cached by its server process, and   *)
(* the tool calls that resolve entities in it while it is reloaded and     *)
(* while the schema changes underneath.                                    *)
(*                                                                         *)
(* Sources: CatalogService.get_snapshot (app/services/catalog_service.py), *)
(* PostgresCatalogRepository.load_catalog (app/infrastructure/postgres/    *)
(* catalog_repository.py), RelationService.related and                     *)
(* RecordSearchService.search (app/services/read_services.py), the tools   *)
(* and _run (app/presentation/mcp/server.py).                              *)
(*                                                                         *)
(* Tool calls are asyncio tasks: what a call does between two awaits is    *)
(* one action.  A snapshot is what it was read from: load_catalog runs     *)
(* five SELECTs in one READ COMMITTED transaction, so a change of schema   *)
(* may fall between them; a first and a second group stand for the five.   *)
(***************************************************************************)
EXTENDS Naturals, Sequences, SequencesExt

CONSTANTS
    Call,       \* concurrent tool calls
    TTL,        \* catalog_ttl_seconds, in ticks
    MaxLoad,    \* the ticks a load can take: pool and statement timeouts
    MaxTime,    \* bound on the clock
    MaxVersion, \* bound on changes of the schema
    NoCall

ASSUME Bounds == /\ TTL \in Nat \ {0} /\ MaxLoad \in Nat
                 /\ MaxTime \in Nat /\ MaxVersion \in Nat
                 /\ NoCall \notin Call

VARIABLES
    now,        \* time.monotonic()
    version,    \* of the schema in the database
    cache,      \* _snapshot with _loaded_monotonic: <<>> or <<[read, at, from]>>
    lock,       \* holder of _lock
    queue,      \* its waiters, first come first served
    pc,
    want,       \* how many entities the call resolves: 1 search, 2 related
    got,        \* the snapshots its resolve_entity calls returned
    seen        \* what the load it runs has read: [first, since]

vars == <<now, version, cache, lock, queue, pc, want, got, seen>>

Version == 0..MaxVersion
Time == 0..MaxTime
Snapshot == [read : Version \X Version,   \* what the fingerprint is computed of
             at : Time,                   \* _loaded_monotonic
             from : Time]                 \* when its transaction began
NothingSeen == [first |-> 0, since |-> 0]

TypeOK ==
    /\ now \in Time /\ version \in Version
    /\ cache \in {<<>>} \cup {<<s>> : s \in Snapshot}
    /\ lock \in Call \cup {NoCall}
    /\ queue \in Seq(Call)
    /\ pc \in [Call -> {"idle", "get", "wait", "load", "loadRest", "query"}]
    /\ want \in [Call -> 1..2]
    /\ got \in [Call -> Seq(Snapshot)]
    /\ seen \in [Call -> [first : Version, since : Time]]

Init ==
    /\ now = 0 /\ version = 0
    /\ cache = <<>>
    /\ lock = NoCall /\ queue = <<>>
    /\ pc = [c \in Call |-> "idle"]
    /\ want = [c \in Call |-> 1]
    /\ got = [c \in Call |-> <<>>]
    /\ seen = [c \in Call |-> NothingSeen]

-----------------------------------------------------------------------------

\* Fault: a snapshot never gets too old.
FreshForEver == cache # <<>>

\* The test get_snapshot makes before and again inside the lock.
Fresh == cache # <<>> /\ now - cache[1].at < TTL

Loading(c) == pc[c] \in {"load", "loadRest"}

\* The call ends, with a result or an exception that _run turns into an error.
End(c) ==
    /\ pc' = [pc EXCEPT ![c] = "idle"]
    /\ want' = [want EXCEPT ![c] = 1]
    /\ got' = [got EXCEPT ![c] = <<>>]
    /\ seen' = [seen EXCEPT ![c] = NothingSeen]

\* Fault: related does not compare the fingerprints.
ReturnUncompared(c, s) ==
    LET all == Append(got[c], s)
    IN  /\ pc' = [pc EXCEPT ![c] = IF Len(all) = want[c] THEN "query" ELSE "get"]
        /\ got' = [got EXCEPT ![c] = all]
        /\ seen' = [seen EXCEPT ![c] = NothingSeen]
        /\ UNCHANGED want

\* get_snapshot returns s to resolve_entity.  related compares the
\* fingerprints of the two it needs and gives up if they differ.
Return(c, s) ==
    LET all == Append(got[c], s)
    IN  IF Len(all) = 2 /\ all[1].read # all[2].read
        THEN End(c)
        ELSE /\ pc' = [pc EXCEPT ![c] = IF Len(all) = want[c] THEN "query" ELSE "get"]
             /\ got' = [got EXCEPT ![c] = all]
             /\ seen' = [seen EXCEPT ![c] = NothingSeen]
             /\ UNCHANGED want

StartLoad(c) ==
    /\ lock' = c
    /\ pc' = [pc EXCEPT ![c] = "load"]
    /\ seen' = [seen EXCEPT ![c] = [first |-> 0, since |-> now]]

\* A tool call begins: get_related_records resolves two entities one after the
\* other, search_records, get_record and the others that name one resolve one.
Begin(c, n) ==
    /\ pc[c] = "idle"
    /\ pc' = [pc EXCEPT ![c] = "get"]
    /\ want' = [want EXCEPT ![c] = n]
    /\ UNCHANGED <<now, version, cache, lock, queue, got, seen>>

\* The first test, outside the lock.
GetCached(c) ==
    /\ pc[c] = "get"
    /\ Fresh
    /\ Return(c, cache[1])
    /\ UNCHANGED <<now, version, cache, lock, queue>>

\* The lock is free and nobody queues: no await between the tests and the load.
GetLoad(c) ==
    /\ pc[c] = "get"
    /\ ~Fresh
    /\ lock = NoCall /\ queue = <<>>
    /\ StartLoad(c)
    /\ UNCHANGED <<now, version, cache, queue, want, got>>

GetWait(c) ==
    /\ pc[c] = "get"
    /\ ~Fresh
    /\ lock # NoCall \/ queue # <<>>
    /\ queue' = Append(queue, c)
    /\ pc' = [pc EXCEPT ![c] = "wait"]
    /\ UNCHANGED <<now, version, cache, lock, want, got, seen>>

AtHead(c) == pc[c] = "wait" /\ lock = NoCall /\ Head(queue) = c

\* The lock comes to c and somebody has loaded meanwhile: the second test.
ResumeCached(c) ==
    /\ AtHead(c)
    /\ Fresh
    /\ queue' = Tail(queue)
    /\ Return(c, cache[1])
    /\ UNCHANGED <<now, version, cache, lock>>

\* Fault: the cache is not tested again inside the lock.
ResumeLoadAgain(c) ==
    /\ AtHead(c)
    /\ queue' = Tail(queue)
    /\ StartLoad(c)
    /\ UNCHANGED <<now, version, cache, want, got>>

ResumeLoad(c) ==
    /\ AtHead(c)
    /\ ~Fresh
    /\ queue' = Tail(queue)
    /\ StartLoad(c)
    /\ UNCHANGED <<now, version, cache, want, got>>

\* The objects and columns of the schema are read ...
ReadObjects(c) ==
    /\ pc[c] = "load"
    /\ seen' = [seen EXCEPT ![c].first = version]
    /\ pc' = [pc EXCEPT ![c] = "loadRest"]
    /\ UNCHANGED <<now, version, cache, lock, queue, want, got>>

\* ... and then its keys; the snapshot is stored and the lock released.
Store(c) ==
    /\ pc[c] = "loadRest"
    /\ LET s == [read |-> <<seen[c].first, version>>, at |-> now, from |-> seen[c].since]
       IN  cache' = <<s>> /\ Return(c, s)
    /\ lock' = NoCall
    /\ UNCHANGED <<now, version, queue>>

\* Fault: a load that fails keeps the lock.
LoadFailsLocked(c) ==
    /\ Loading(c)
    /\ End(c)
    /\ UNCHANGED <<now, version, cache, queue, lock>>

\* load_catalog raises, or found no entity: the old snapshot stays.
LoadFails(c) ==
    /\ Loading(c)
    /\ lock' = NoCall
    /\ End(c)
    /\ UNCHANGED <<now, version, cache, queue>>

\* The statements of the tool itself, and its answer.
Query(c) ==
    /\ pc[c] = "query"
    /\ End(c)
    /\ UNCHANGED <<now, version, cache, lock, queue>>

\* The place of c among the waiters.
PlaceOf(c) == CHOOSE i \in DOMAIN queue : queue[i] = c

\* Fault: a waiter that is cancelled stays in the queue.
CancelInPlace(c) ==
    /\ pc[c] \in {"wait", "load", "loadRest", "query"}
    /\ End(c)
    /\ lock' = IF lock = c THEN NoCall ELSE lock
    /\ UNCHANGED <<now, version, cache, queue>>

\* The client goes away and the task is cancelled at an await; a waiter leaves
\* the queue from wherever it stands.
Cancel(c) ==
    /\ pc[c] \in {"wait", "load", "loadRest", "query"}
    /\ End(c)
    /\ queue' = IF pc[c] = "wait" THEN RemoveAt(queue, PlaceOf(c)) ELSE queue
    /\ lock' = IF lock = c THEN NoCall ELSE lock
    /\ UNCHANGED <<now, version, cache>>

Tick ==
    /\ now < MaxTime
    /\ \A c \in Call : Loading(c) => now - seen[c].since < MaxLoad
    /\ now' = now + 1
    /\ UNCHANGED <<version, cache, lock, queue, pc, want, got, seen>>

ChangeSchema ==
    /\ version < MaxVersion
    /\ version' = version + 1
    /\ UNCHANGED <<now, cache, lock, queue, pc, want, got, seen>>

\* related goes from its first resolve_entity to its second without an await:
\* time passes, but no other task runs.
Turn(c) == \A d \in Call \ {c} : ~(pc[d] = "get" /\ got[d] # <<>>)

Step(c) ==
    /\ Turn(c)
    /\ \/ GetCached(c) \/ GetLoad(c) \/ GetWait(c) \/ ResumeCached(c) \/ ResumeLoad(c)
       \/ ReadObjects(c) \/ Store(c) \/ LoadFails(c) \/ Query(c)

Next ==
    \/ \E c \in Call : Step(c) \/ (Turn(c) /\ (Cancel(c) \/ \E n \in 1..2 : Begin(c, n)))
    \/ Tick
    \/ ChangeSchema

Spec == Init /\ [][Next]_vars

\* The event loop queues the tasks that can run, so one that can run again and
\* again does run; a load ends or times out.
FairSpec == Spec /\ \A c \in Call : SF_vars(Step(c))

-----------------------------------------------------------------------------
(* Properties.                                                              *)

\* The database is asked only when it has to be: a load begins when there is
\* no fresh snapshot and no other load, whoever queued for the lock meanwhile.
LoadOnlyWhenStale ==
    [][\A c \in Call :
          pc[c] # "load" /\ pc'[c] = "load"
              => ~Fresh /\ \A d \in Call : ~Loading(d)]_vars

\* A query over two entities is built from one schema, although the catalog
\* may be reloaded between their resolution.
OneSchemaPerQuery ==
    \A c \in Call : pc[c] = "query" =>
        \A i, j \in DOMAIN got[c] : got[c][i].read = got[c][j].read

\* A snapshot is handed out at most TTL after it was stored, hence at most
\* TTL + MaxLoad after its transaction began: no older schema is used.
AgeBounded ==
    [][\A c \in Call :
          Len(got'[c]) > Len(got[c])
              => LET s == got'[c][Len(got'[c])] IN now - s.from <= TTL + MaxLoad]_vars

\* Whoever waits for the lock will get it: a held lock is held by a load, which
\* ends, and a free one can be taken by the head of the queue, since the queue
\* holds exactly the calls that wait, each once - although loads fail with the
\* lock held, and waiters are cancelled wherever they stand.
NobodyWaitsInVain ==
    /\ lock # NoCall => Loading(lock)
    /\ \A c \in Call : pc[c] = "wait" <=> \E i \in DOMAIN queue : queue[i] = c
    /\ \A i, j \in DOMAIN queue : queue[i] = queue[j] => i = j

\* Every call is answered: a load that fails, or whose caller goes away, lets
\* the next waiter have the lock.
CallsEnd == \A c \in Call : pc[c] # "idle" ~> pc[c] = "idle"
=============================================================================
