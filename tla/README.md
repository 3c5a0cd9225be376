# TLA+ models of Orient MCP

Orient MCP is an authenticated, read-only MCP server over PostgreSQL: an OAuth
2.1 authorization server with rotating refresh tokens kept in a control
database, and tools that look up, page through and aggregate records of up to
eight source databases under a field policy. This directory models the parts of
it in which the order of events matters, checks them with TLC and proves what
matters most with TLAPS. Paths below are relative to the repository.

    tlc -workers 2 -config TokenFamilies_race.cfg MCTokenFamilies.tla   # a run
    tlapm TokenFamiliesProofs.tla                                      # the proofs

Every definition is translated from the code; `PROJECT.json` gives the lines
each one stands for. Definitions under a comment that begins with "Fault:" are
variants of the definition that follows them, with a plausible mistake in it.
No specification uses them: put in place of the original, each makes a
property fail, which shows that the property depends on that line of the code.

## 1. The system

| Part | State | Operations | Interacts with | Hard behaviour | Correct if |
|---|---|---|---|---|---|
| Token families (`services/auth_service.py`, `control_repository.py`) | `oauth_tokens`, `token_families` | issue a family, refresh (read, rotate, mint), revoke, revoke family | HTTP handlers, verifier, cleanup; all through row locks | handlers overlap between any two transactions; locks in opposite order; crash after a commit; lost responses | rotation is linear, reuse and revocation kill the family for good, handlers end |
| Authorization requests and codes | `authorization_requests`, `authorization_codes`, the principal's status | begin, log in, consume request, create code, consume code | browser, client, cleanup | check, then act on several rows; crash between steps | one login gives at most one family; a failure uses the request up |
| Abuse throttle (`services/security_service.py`) | `auth_attempts` | assert_allowed, record | `/authorize`, `/register`, cleanup | count and record are apart; fails open | the excess over the limit is bounded |
| Token retention (`services/maintenance_service.py`) | expiry and `replaced_by_token_id` of token rows | run_once, every interval | the OAuth tables | foreign key within the table being purged | no run fails on it |
| Catalog cache (`services/catalog_service.py`, `read_services.py`) | snapshot, its time, an `asyncio.Lock` | get_snapshot, resolve, related | every tool call, the schema | stale test outside and inside the lock; reload between two resolves; cancellation | one load at a time; one schema per query; bounded age; no lost lock |
| Catalog loading (`catalog_repository.py`, `policy.py`) | the snapshot under construction | four fetches, attach relations | the source's system catalogs, policy | READ COMMITTED: each statement sees its own schema | nothing hidden shows; names are closed; keys are whole |
| Customer and vehicle lookup (`customer_lookup_service.py`, `customer_lookup_repository.py`) | none; `after_id` is with the client | normalize, require fields, a page | the catalog, the source | rows come and go between pages; identifiers are normalized in Python and in SQL; the SQL is fixed | ascending, complete, terminating; found in every form; policy holds |
| Record search and relations (`cursor_service.py`, `record_repository.py`) | none; the cursor is with the client | a page, a refused cursor, a record, an aggregate | the catalog, the source | reuse of cursors; schema change; depth bound; ties in the order; NULLs | one query per scan; pages tile; bounded depth; tools agree with each other |
| Query validation, SQL building (`validation_service.py`, `query_builder.py`) | none | checks, WHERE, ORDER BY | the catalog | a check that is missing for one tool | a hidden field influences no answer |
| Process lifecycle (`main.py`, `bootstrap/dependencies.py`, `runtime.py`) | pools, session manager, maintenance task | start, serve, stop | all of the above | failure at any step of start; a cleanup that hangs at stop | all or nothing; nothing leaks; shutdown ends |
| Request body limit (`body_limit.py`) | the messages of a body | collect, refuse, replay | the MCP application | bodies in parts; a client that leaves | the limit is on the sum; the body arrives unchanged and ends |
| MCP tools, verifier (`server.py`, `token_verifier.py`) | none | verify, run a tool, answer | token store, catalog, source | token and principal are read apart; cancellation at every await | a tool runs for somebody who was entitled; calls are answered |
| Audit trail (`audit_service.py`) | rows of `audit_log` | a row for each call | every tool | a failure after the tool returned; a failing insert; cancellation | log and client are told the same |
| Connection pools (`pool.py`) | idle connections | take, give back, time out | every transaction | calls wait for each other's connections | none is lost, nobody waits for ever |
| Views, secrets, settings, scripts, access roles | none | | | | not modelled, see section 7 |

Handlers and tool calls are asyncio tasks of one process, so they interleave at
their awaits; everything durable lives in PostgreSQL and is shared by whatever
processes there are. A call of a repository method is one READ COMMITTED
transaction with a `lock_timeout`, a `statement_timeout` and an idle timeout
(`infrastructure/postgres/pool.py`).

## 2. Modules

| Module | Models | State and actions |
|---|---|---|
| `TokenFamilies` | the token store under concurrent handlers | variables are the columns (`rows`, `kind`, `owner`, `succ` = replaced_by_token_id with consumed_at, `revoked`, `expired`, `families`, `dead`), row locks (`tokLock`, `famLock`), handlers (`pc` and locals) and what clients hold (`delivered`). One action per transaction; the two that lock several rows, `rotate_refresh_token` and `revoke_family`, have one per lock they wait for and one that commits |
| `RefreshGrant` | the promise: a family is a chain whose last token at most is good, and an ended family stays ended | `Grant`, `Exchange`, `End` |
| `AuthorizationCodes` | from `/authorize` to the exchange at `/token` | each repository call is one statement, hence one action |
| `CodeGrant` | the promise: a request is approved once, and turned into one family or none | `Approve`, `Issue`, `Lose` |
| `AttemptThrottle` | one address, one kind of attempt, on a clock | `Begin` takes the time, `Count` the rows, `TryFails` the answer, `RecordFailure` the row |
| `TokenRetention` | one chain of tokens on a clock, its foreign key, and restarts with another lifetime | `Insert`, `Cleanup`, `Reconfigure`, `Tick` |
| `CatalogCache` | get_snapshot under concurrent calls | what a task does between two awaits is one action; `queue` is the lock's FIFO; a snapshot is the pair of schema versions it was read from |
| `CatalogLoad` | load_catalog while the schema is altered | one action per SELECT; the last also builds the snapshot, as the code does without an await |
| `KeysetPaging` | a client that follows next_after_id | `Page` is one SELECT of limit + 1 rows; `Write` replaces the rows that match |
| `CustomerLookup` | what such a client looks for | operators: the normalizers of the service beside those of the SELECT, `Customers` and `Vehicles` over tables, `Required` for the policy |
| `RecordQueries` | what the record tools accept and answer | operators: `ValidFilters`, `ValidSort`, `ValidKey`, `ValidAggregation`; `Where`, `Arrangements`, `Aggregate`, `Related`, `GetOne` over rows with NULL |
| `RecordPaging` | a client that follows next_cursor through queries of `RecordQueries` | `FirstPage`, `NextPage`, `CursorRefused`; `Arrangements` lets the database choose among rows that tie |
| `ServerLifecycle` | lifespan and the maintenance task | one action per await of start and stop; the task runs beside them |
| `Maintenance` | `ServerLifecycle` and `TokenRetention` together | a run of the task is a `Cleanup` of the rows, a relaunch may read other settings, a cancellation may find the transaction committed |
| `BodyLimit` | the steps of a request body | `size` is the running sum of `__call__`; `Send`, `Keep`, `Replay` are used as parts of actions |
| `ToolCalls` | a tool call from its first byte to its answer | `Receive`, `GetToken`, `GetPrincipal`, `CallTool`, `Resolved`, `ToolReturns`, `Cancel`, `AppendAudit` ... A transaction is two steps: a connection is taken from the pool, then the statements run and give it back |
| `...Proofs` | theorems about the module of that name; `AuthorizationProofs` about `AuthorizationCodes` and `AttemptThrottle`, `KeysetPagingProofs` also about `CustomerLookup` | section 5 |
| `MC...` | the constants TLC needs: symmetry sets, sequences, tables and queries | |

How they fit together. `TokenFamilies` starts where `AuthorizationCodes` ends
(`IssueNewFamily` there is `IssueFamily`, `IssueAccess`, `IssueRefresh` here).
`CatalogLoad` is what happens inside the `load` steps of `CatalogCache`, and
`CatalogCache` is the first of the two transactions of a tool in `ToolCalls`.
`KeysetPaging` and `RecordPaging` are what clients do with many such calls.
`Maintenance` extends and composes `ServerLifecycle` and `TokenRetention`;
`ToolCalls` extends `BodyLimit`, `RecordPaging` `RecordQueries`, `CustomerLookup`
`KeysetPaging`. `Cleanup` (`DeleteAttempts` in `AttemptThrottle`) is in each of the
modules with tables, with the DELETEs that concern it.

Abstractions worth knowing. Ids, hashes and secrets are values that are equal or
not; nobody guesses one. In `TokenFamilies` writes of a transaction appear at its
commit and its locks before that, which is what READ COMMITTED shows to others;
an UPDATE that waits goes on with the row's last version, as PostgreSQL does. The
locks that foreign keys take are left out because no UPDATE of these modules
conflicts with them. The control pool has two connections, which only
`ToolCalls` counts; the other models allow more overlap than the program has.
In `KeysetPaging` phones, plates, VINs and ids decide only which rows match;
`CustomerLookup` says which do. Texts there are sequences over the characters
that the patterns tell apart, one or two for each class. A row in `RecordQueries`
maps fields to numbers or NULL; a pattern of ILIKE is the set of texts it covers
and its length. What SQL may return in more than one way (ties in ORDER BY) is a
set, and the action chooses. A page of `KeysetPaging` is given by what ORDER BY
and LIMIT promise of it. `AuditAgrees` allows what the code does with a cancelled
call: `CancelledError` is no `Exception`, so it is recorded as a success, or, when
the cancellation hits the insert, not at all. The lookup tools
resolve two entities without comparing fingerprints (their SQL is fixed), so the
two-entity call of `CatalogCache` is `related`.

## 3. Runs

| Run | Question | Bounds, and why they are enough |
|---|---|---|
| `TokenFamilies_race` | Is rotation linear and revocation complete, do the handlers implement `RefreshGrant`, and does each end? | 2 handlers: any two of rotation, replay and revocation at any step of each other, enough for the opposite lock order to deadlock (the theorems have any number); 4 tokens: an access token, a refresh token and two successors; 1 family: families share no row |
| `TokenFamilies_escape` | Is a token of a revoked family refused? Violated, section 6 | 5 tokens, as the access token of a refresh is the last |
| `AuthorizationCodes_once` | Does one login give one family at most, is what is used up so for good, and do the handlers implement `CodeGrant`? | 3 handlers, 2 requests, 2 codes: two logins of one request and an exchange, or two exchanges and a login |
| `AttemptThrottle_window` | How far past the limit can overlap carry an address? | 3 handlers, limit 2, window 1 of 3 ticks, 1 store failure: the bound is reached, as the variant `CountOneMore` shows |
| `CatalogCache_reload` | One load at a time, one schema per query, bounded age, is the lock always handed on, and is every call answered? | 2 calls, each of which may be a loader, a waiter, a reader, fail or be cancelled, and begin again; 3 schemas, TTL 1 and loads of at most 1 tick in 4 ticks: a snapshot goes stale and is replaced twice |
| `CatalogLoad_torn` | What can a torn catalog show? | 3 tables (one denied), 2 columns (one hidden), 4 foreign keys: of two columns, to a denied table, of a table to itself; 2 changes of the schema, anywhere in the load |
| `CatalogLoad_names` | Can every listed relation be followed? Violated, section 6 | no change of the schema |
| `KeysetPaging_scan` | No duplicate, nothing missed, each page further than the one before, an end? Is an identifier found in all its forms, and does the policy hold for the fixed SQL? | 5 ids, pages of 1 to 3 and a refused size, 2 writes that replace any of the matching set; numbers of 8 to 17 digits with and without prefixes, each in 5 or 6 forms, each typed against each stored; plates and VINs alike; every field hidden in turn |
| `RecordPaging_scan` | One query per scan, tiling, depth? Do hidden fields show? Do aggregates, searches and relations agree? | rows with three values and NULL in 4 fields, one hidden; tables of them, 4 accepted and 3 refused queries, pages of 1 and 2, depth 2, 1 change of schema, 1 write: full scans and scans that hit the bound |
| `Maintenance_runs` | All or nothing, no leak, an end; can a cleanup fail, and do expired rows go? | a primary and an additional source (the theorems have any number), lifetimes 1 to 3, 5 ticks, a chain of 3: it outlives its first tokens, and a lifetime can be shortened twice |
| `TokenRetention_changed` | Can a cleanup fail when the lifetime changes? Violated, section 6 | lifetimes 1 and 4 |
| `ToolCalls_pipeline` | Are tools authorized, log and client told the same, connections returned, bodies intact, calls answered? | 2 calls, 1 token, 1 connection in each pool, so that each call waits for the other at every transaction; bodies of at most 3 messages of at most 2 bytes, limit 2: single messages that fit and sums that do not (sizes, pools and number of calls are arbitrary in the theorems) |

Type invariants are proved (section 5), so no run spends a property on one.
`FoundAsWritten`, `LookupsKeepToPolicy`, `HiddenHasNoInfluence`,
`CountsCanBeFollowed` and `RelationsGoBothWays` are about
what one SELECT answers; they are tested in each state in which a scan begins,
for the table of that state and all inputs of the instance.

Deadlock is checked in every run; where a bound stops one action others stay
enabled. Symmetry is used for handlers and requests where no definition tells
them apart and no liveness property is checked.

## 4. Fairness

- `TokenFamilies`: weak fairness of each handler's own steps. asyncio runs every
  ready task, and a statement that waits for a row gets the row or, after
  `lock_timeout`, an error. Nothing is assumed about clients, expiry or cleanup.
- `CatalogCache`: strong fairness of each call's steps. The event loop's queue is
  FIFO, so a call that is ready again and again is run; a step can be disabled
  for a while only because another call is between its two resolves.
- `KeysetPaging`: the client goes on asking for pages of a valid size.
- `Maintenance`: start and stop proceed, or fail; time passes; the task wakes
  after its interval. Strong fairness of a run that reaches the store while the
  server serves: a run may fail any number of times, not for ever. A run that
  a shutdown finds gets no fairness: stop has to end without it, by its
  ten-second timeout.
- `ToolCalls`: weak fairness of each call's own steps. A step that waits for a
  connection is enabled all the time, as it may time out (`pool.timeout`).
  `CallsAreAnswered` begins when the body is in: a client that stops sending may
  keep a request open.

## 5. Proofs

Eight modules hold theorems, each for all values of the constants under the
named assumptions of its module: that "no such" values are not members, that
bounds are numbers, that what the code validates at start-up is so. Four say more
about data. `Exposed` (`RecordQueries`): the policy shows every field of a
known primary key and of both sides of a known foreign key, which is how
`load_catalog` filters them (`KeysAreWhole` and `Closed` are proved of it), and
the two sides are as long. `LookupTables` (`CustomerLookup`): the rows of a table
have the same fields. `LookupTexts` (`CustomerLookup`): texts are sequences over the
characters told apart, and NULL is none. `Typed` (`RecordPaging`): rows have numbers
or NULL in their fields, there are finitely many, and a query names its order and
its filters as sequences. Tables are
`Consistent`: a field of the primary key is not NULL and the key is unique, a
foreign key refers to a row, which is PostgreSQL's part.

| Module | Theorems | Argument |
|---|---|---|
| `TokenFamiliesProofs` | `TypeCorrect`, `RevocationHolds`, `RotationIsLinear`, `ExchangeHappensOnce`, `StoreImplementsGrants` | below |
| `AuthorizationProofs` | `TypeCorrect`, `OneLoginOneFamily`, `UsedUpStaysSo`, `CodesImplementGrant`; `ThrottleTypeCorrect`, `GuessesAreBounded` | the right to a family is handed on, from the open request to the one handler that consumed it, to its one code, to the one handler that consumed that, to the family: `OriginInv` and `IssueInv` say that neither half of the chain forks. The refinement and the throttle: below |
| `CatalogCacheProofs` | `TypeCorrect`, `QueriesAreOfOneSchema`, `LoadsAreNeeded`, `AgesAreBounded`, `TheLockIsHandedOn` | whoever loads holds the lock; a stored snapshot is at most one load older than its time says. Types: the queue holds each call that waits, and no other, once (`Queued`), so that a cancelled call can be taken out of the middle; with `HolderLoads` that gives `NobodyWaitsInVain`, whichever call loads, fails or goes away |
| `CatalogLoadProofs` | `TypeCorrect`, `PolicyHolds`, `CatalogIsClosed`, `WholeKeys` | nothing is assumed of how the four results fit together: the step that builds the catalog makes it closed by itself. Whole keys need the history of schemas |
| `KeysetPagingProofs` | `TypeCorrect`, `ScansAscend`, `ScansAreComplete`, `ScansAdvance`, `LookupsAreBlindToHidden`, `LookupsFindEveryForm` | after_id separates what the scan has from what is to come; LIMIT leaves out only rows behind those it returns. The lookups: below |
| `RecordPagingProofs` | `TypeCorrect`, `PagesBelongTogether`, `ScansAreBounded`, `PagesTileTheResult`, `RelationsCanBeReversed`, `HiddenFieldsShowNowhere`, `AggregatesCanBeFollowed` | the cursor stands where the rows end (`ScanInv`). Every order ends in the primary key, which is unique, hence is total, hence leaves one arrangement (shown by the least index at which two would differ), so that all pages are cut from the same sequence (`Tiled`). What is hidden, and aggregates: below |
| `MaintenanceProofs` | `LifecycleHolds`, `ServerIsWhole`, `MaintenanceAlwaysHasPool`, `ServerLeavesNothing`, `OnlyShorteningBlocksCleanup`, `MaintenanceImplementsBoth`, `MaintenanceIsNotBlocked` | what the loops over the sources have done is in `open`, what is left in `next`; as long as no lifetime was shortened, expiries ascend along the chain. The composition implements both of its parts and inherits their invariants |
| `ToolCallsProofs` | `TypeCorrect`, `NoConnectionIsLost`, `ToolsAreAuthorized`, `LogAgrees`, `BodyArrivesIntact` | idle connections and calls in a transaction add up to the size of the pool (by cardinality, for any finite set of calls); what the verifier has seen is remembered at each later step (`Verified`). The body: `BodyInv` says that what was kept is a prefix of what was sent and `size` the sum of its messages, and that replaying starts only when the last message is in; the application has a prefix of what was kept |

Of `TokenFamilies` none of the invariants is inductive. `RevokedFamilyIsDead`
would be lost when a revocation commits whose UPDATE has not seen a successor, so
`RevocationCovers` says that from its scan on a revocation has every refresh row
of its family ahead of it or locked. That is kept by a rotation that commits only
because the rotation holds the family's row, which `LockHolders` says the
revocation holds as well: the UPDATE of `last_rotated_at`, which looks like
bookkeeping, is what makes revocation complete. `OneLiveRefresh` needs that the
row a rotation replaces is still what it was when it was locked
(`RotationHolds`), and that the first refresh token of a family comes from its
only issuer (`IssuingAlone`). `Inserted` keeps ids that were never used free of
attributes, and `HandlerArgs` ties a handler's family to its token. There is a
lemma for each action, with one step for each part of the invariant that it can
disturb.

`StoreImplementsGrants` is the refinement: the rows of a family, its dead bit and
`Holder`, the one row that is good, make a state of `RefreshGrant`. A rotation's
commit is an exchange, the insertion of a first token a grant, and expiry,
revocation and cleanup end families or change nothing that can be seen; every
other step stutters.

`CodesImplementGrant` maps a request to its stage: granted when a code of it has
given a family, approved while an approval is under way (`UnderWay`: its handler
has yet to create the code, or a code is good, or its handler has yet to create
the family), open while the row can be consumed, and lost otherwise. `IInv` makes
these exclude each other (`StageKnown`). `ConsumeRequest` approves and
`IssueNewFamily` issues; of every other step - errors, time, crashes, cleanup - the
proof says that it loses some requests or changes no stage (`LoseOrNothing`),
because what is used up stays so and nothing is under way that was not before.

`GuessesAreBounded` needs to say where guesses went, as far back as cleanup
leaves rows: each was recorded, or its request is about to record it, or a call
of the store failed (`GuessesKnown`). A request that is let through counted back
at least one window, however long ago it took the bound (`CountsFarEnough`), and
found less than the limit; so what makes the bound inductive is that it holds
even if every request that was let through guesses wrong now (`RoomForTries`).
Cleanup keeps all this because it keeps attempts for at least a window
(`Limits`, which the settings see to), and a window that is over gets no more
guesses. `Total` is a difference of prefix sums (`Below`), a recursive function,
so that what one more failure does to a sum can be proved: no induction theorem
can be cited, so the argument is by the least index at which two sums would
differ from what they should be. `BodyArrivesIntact` adds up bodies the same way.

`HiddenFieldsShowNowhere` compares two tables in which some rows differ in hidden
fields. `Disguised` maps the rows of one to those of the other one by one, since
a lookalike has as many rows; a row and its disguise agree on every field that
an accepted query may name, so both meet the same filters, stand in the same
order and join the same rows, and an arrangement of one table is one of the
other. With `Exposed` this covers the primary key that ends every order and the
columns of a join. `RelationsCanBeReversed` needs `Consistent` to say that
primary keys are not NULL, which it did not until the proof failed there:
`GetOne` compares with `=`, which finds no row by a NULL. `LookupsAreBlindToHidden`
is the same for the fixed SELECTs: `Required` asks the catalog for the fields that
they read, row by row the two tables agree on these, and what
`Customers` and `Vehicles` return is put together from them alone.

`LookupsFindEveryForm` says of the normalizers that what is stored in one form and
typed in another meets: taking characters out of a text in two rounds is taking
them out in one, whichever round comes first, and a text that is shaped like a
number has nothing around it that `btrim` and `strip` treat differently.
`Without`, which takes characters out, is a recursive function, and what it
returns is again argued by a least index. The conditions `FoundAsWritten` puts on
what is stored are in section 6.

`AggregatesCanBeFollowed` needs the groups of an answer to be all there, in one
order and none twice. The order of `ORDER BY` on the group's fields is total, NULLs
last, so that the number of groups before a group is its place (`InOrder`); each
row belongs to one group, the one that its values as filters find (`is_null` for
NULL), so that counts, metrics and `truncated` come to what those searches say
(`GroupsAddUp`), whatever the limit.

Only model-checked is liveness: `HandlersEnd`, `CallsEnd`, `ScanEnds`,
`SettlesDown`, `ExpiredRowsGo` and `CallsAreAnswered`, since fairness and ENABLED
are out of the prover's reach. Two of them have their safety half proved:
`TheLockIsHandedOn` leaves of `CallsEnd` only that a load ends and the head of the
queue is run; `ScansAdvance` leaves of `ScanEnds` only that the client asks again, as
each page that is not the last uses up one of the ids ahead of `after_id`.
Every invariant and action property that a run expects to hold is a theorem.

## 6. What the runs found

- **A refresh can outlive a revocation** (`TokenFamilies_escape`). `refresh`
  commits the rotation and creates the access token in a later transaction,
  without looking at the family again. If `revoke_family` commits in between, the
  new access token is not marked, and `AccessTokenVerifier` looks at the token's
  row only: it is accepted until it expires.
- **Cleanup can fail on its own foreign key** (`TokenRetention_changed`). After a
  restart with a shorter refresh lifetime a successor can expire before its
  predecessor; the DELETE then violates `replaced_by_token_id` and the whole
  transaction rolls back, until the predecessor has expired as well.
- **Relations of the same name cannot be followed** (`CatalogLoad_names`).
  Constraint names are unique for a table only; two foreign keys of one name that
  refer to the same table give it two inbound relations of one name, and
  `resolve_relation` refuses both.

What the models say of the code although nothing in the repository denies it: a
phone number that is *stored* with a tab or newline around it is not found by any
query, since `btrim` removes blanks only where Python's `strip` removes both
(`CustomerLookup`, `StoredPhone`, `Bare`); a vertical tab inside a stored plate or VIN
is overlooked by the SELECT, while one that is typed is refused; a cancelled tool call is recorded as a success
(`ToolCalls`, `Status`).

Known and documented in the repository's README: offset scans shift under
concurrent writes and end at the depth bound in a refused cursor.

## 7. Limits, and what is not modelled

- The principal in `TokenFamilies`: refresh does not look at it, the verifier
  does, in `ToolCalls`. Client, resource and scope tests are part of "a token
  the store finds"; client registration adds rows that nothing deletes.
- The read-only paging of `list_entities`: an offset without a cursor, so that a
  client has to compare `schema_fingerprint` itself when the catalog is reloaded
  between its pages. The overrides file, descriptions, types and row estimates of
  the catalog.
- The DELETE of old audit rows, which touches no other row; the readiness
  endpoint; the wording of answers.
- The 63 bytes that PostgreSQL keeps of an identifier, while an alias may have
  64 characters: names are atoms in `RecordQueries`. Listed as a hazard.
- What a client learns from a revocation that rolled back: /revoke answers 200
  either way. `TokenFamilies` has the rollback.
- Stored plates, VINs and phone numbers of more than 64 characters, the most that
  may be typed: `FoundAsWritten` does not look at them.
- Letters whose upper case differs between Python and the database's locale, in
  `CustomerLookup`; characters outside the classes of its patterns are one.
- Cryptography, HTML, logging, settings, scripts and the access roles of the
  source databases.
- An exception from `runtime.stop` would skip `deps.stop` (`app/main.py:40`);
  what the MCP session manager can raise is not in this code.

## 8. What is left to do

1. `AuthorizationCodes` and `TokenFamilies` composed, so that one login gives
   one chain of tokens in one specification.
2. `CatalogCache` as the first transaction of `ToolCalls`, with the load inside a
   pool of two connections.
3. Aliases as texts of bounded length in `RecordQueries`.
4. Refinements of more parts by abstract specifications, as `RefreshGrant` is of
   `TokenFamilies` and `CodeGrant` of `AuthorizationCodes`: a scan as a sequence
   read in parts for `RecordPaging`.
