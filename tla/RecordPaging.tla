------------------------------ MODULE RecordPaging ------------------------------
(***************************************************************************)
(* Offset pagination of search_records and get_related_records with signed *)
(* cursors: a client follows next_cursor while the source is written to,   *)
(* its schema changes and the client mixes up its queries; and what the    *)
(* record tools answer on the tables this goes through.                    *)
(*                                                                         *)
(* Sources: RecordSearchService.search and RelationService.related         *)
(* (app/services/read_services.py), CursorCodec (app/services/             *)
(* cursor_service.py), PostgresRecordRepository.search and related         *)
(* (app/infrastructure/postgres/record_repository.py).  Module             *)
(* RecordQueries says which rows a query matches, and in which order.      *)
(*                                                                         *)
(* A cursor is the payload that encode signs: the signature is not forged, *)
(* so what gets past it is a cursor this source handed out.                *)
(***************************************************************************)
EXTENDS RecordQueries

CONSTANTS
    Row,        \* rows the table can have
    Query,      \* page requests, but for their limit and cursor
    Limits,     \* page sizes
    MaxOffset,  \* CursorCodec._max_offset
    MaxVersion, \* bound on changes of the schema
    MaxWrites   \* bound on writes to the source

\* What PostgreSQL and the parsing of a request see to.
ASSUME Typed == /\ IsFiniteSet(Row) /\ Row \subseteq [Field -> Int \cup {Null}]
                /\ \A q \in Query : q.tool \in {"search", "related"}
                /\ \A q \in Query : q.tool = "search" =>
                      q.order \in Seq(Sort) /\ q.filters \in Seq(ToSet(q.filters))

ASSUME Bounds == /\ Limits \subseteq Nat \ {0} /\ MaxOffset \in Nat
                 /\ MaxVersion \in Nat /\ MaxWrites \in Nat

VARIABLES
    table,      \* rows of the entity
    version,    \* schema fingerprint of the catalog
    cursor,     \* the one the client goes on with: <<>> or <<cursor>>
    got,        \* rows of the scan so far
    trail,      \* query and fingerprint of each page of the scan
    state,      \* of the scan
    quiet,      \* nothing was written since the scan began
    writes

vars == <<table, version, cursor, got, trail, state, quiet, writes>>

Cursor == [query : Query, fingerprint : 0..MaxVersion, offset : Nat]

TypeOK ==
    /\ table \subseteq Row
    /\ version \in 0..MaxVersion
    /\ cursor = <<>> \/ (Len(cursor) = 1 /\ cursor[1] \in Cursor)
    /\ got \in Seq(Row)
    /\ trail \in Seq(Query \X (0..MaxVersion))
    /\ state \in {"new", "more", "end", "refused"}
    /\ quiet \in BOOLEAN
    /\ writes \in 0..MaxWrites

\* PostgreSQL keeps the primary key not null and unique, and the foreign key
\* satisfied.
Consistent(rows) ==
    /\ \A r \in rows : \A f \in ToSet(PrimaryKey) : r[f] # Null
    /\ \A r, s \in rows : PrimaryKey # <<>> /\ Project(r, PrimaryKey) = Project(s, PrimaryKey) => r = s
    /\ \A r \in rows :
          (\A i \in DOMAIN SourceFields : r[SourceFields[i]] # Null)
              => \E s \in rows : Joins(r, s, "outbound")

Init ==
    /\ table \in {rows \in SUBSET Row : Consistent(rows)}
    /\ version = 0
    /\ cursor = <<>> /\ got = <<>> /\ trail = <<>> /\ state = "new"
    /\ quiet = TRUE /\ writes = 0

-----------------------------------------------------------------------------

\* Up to n elements of s behind the offset: LIMIT and OFFSET, and rows[:limit].
Slice(s, offset, n) ==
    SubSeq(s, offset + 1, IF Len(s) < offset + n THEN Len(s) ELSE offset + n)

\* Fault: the binding of the query is not compared.
AcceptsAnyQuery(c, q) == c.fingerprint = version /\ c.offset <= MaxOffset

\* Fault: the offset is not bounded.
AcceptsAnyOffset(c, q) == c.query = q /\ c.fingerprint = version

\* decode: what the payload says must be what is asked for.
Accepts(c, q) ==
    /\ c.query = q
    /\ c.fingerprint = version
    /\ c.offset <= MaxOffset

\* A page at an offset of the rows that match q, in an order that ORDER BY
\* leaves open where rows tie; more rows than the limit yield a cursor.
Fetch(q, offset, limit) ==
    \E s \in Arrangements(Matching(table, q), OrderOf(q)) :
        LET rows == Slice(s, offset, limit + 1)
            more == Len(rows) > limit
            c == [query |-> q, fingerprint |-> version, offset |-> offset + limit]
        IN  /\ got' = got \o Slice(rows, 0, limit)
            /\ trail' = Append(trail, <<q, version>>)
            /\ cursor' = IF more THEN <<c>> ELSE <<>>
            /\ state' = IF more THEN "more" ELSE "end"

\* The first page of a scan.
FirstPage(q, limit) ==
    /\ state = "new"
    /\ Valid(q) /\ ValidLimit(limit)
    /\ Fetch(q, 0, limit)
    /\ quiet' = TRUE
    /\ UNCHANGED <<table, version, writes>>

\* A page with the cursor of the scan, for what may be another query by
\* mistake, and a limit that may differ: it is not in the binding.
NextPage(q, limit) ==
    /\ state = "more"
    /\ Valid(q) /\ ValidLimit(limit)
    /\ Accepts(cursor[1], q)
    /\ Fetch(q, cursor[1].offset, limit)
    /\ UNCHANGED <<table, version, quiet, writes>>

\* invalid_cursor.  A client that mixed up its queries may try again.
CursorRefused(q) ==
    /\ state = "more"
    /\ ~Accepts(cursor[1], q)
    /\ state' = IF Accepts(cursor[1], cursor[1].query) THEN "more" ELSE "refused"
    /\ UNCHANGED <<table, version, cursor, got, trail, quiet, writes>>

\* The client begins another scan.
Restart ==
    /\ state \in {"end", "refused"}
    /\ state' = "new" /\ got' = <<>> /\ trail' = <<>> /\ cursor' = <<>>
    /\ UNCHANGED <<table, version, quiet, writes>>

\* The source is written to: a row is inserted, deleted or replaced.
Write ==
    /\ writes < MaxWrites
    /\ \E r \in Row : \E s \in Row \cup {Null} :
          /\ table' = (table \ {r}) \cup ({s} \ {Null})
          /\ Consistent(table')
    /\ quiet' = FALSE
    /\ writes' = writes + 1
    /\ UNCHANGED <<version, cursor, got, trail, state>>

\* A reload of the catalog finds a changed schema.
ChangeSchema ==
    /\ version < MaxVersion
    /\ version' = version + 1
    /\ UNCHANGED <<table, cursor, got, trail, state, quiet, writes>>

Next ==
    \/ \E q \in Query : \E limit \in Limits : FirstPage(q, limit) \/ NextPage(q, limit)
    \/ \E q \in Query : CursorRefused(q)
    \/ Restart \/ Write \/ ChangeSchema

Spec == Init /\ [][Next]_vars

-----------------------------------------------------------------------------
(* Properties.                                                              *)

\* The pages of a scan are pages of one query under one schema: a cursor that
\* comes back with another query, or after the schema changed, is refused.
OneQueryPerScan == \A i, j \in 1..Len(trail) : trail[i] = trail[j]

\* If nothing is written meanwhile and the entity has a primary key, the pages
\* tile the result, whatever the client sorts by and whatever limits it asks
\* with: no row is repeated or left out before the last one handed over, and
\* the end is the end of the result.
PagesTile ==
    (quiet /\ PrimaryKey # <<>> /\ trail # <<>>) =>
        LET q == trail[1][1]
            all == CHOOSE s \in Arrangements(Matching(table, q), OrderOf(q)) : TRUE
        IN  /\ got = SubSeq(all, 1, Len(got))
            /\ state = "end" => Len(got) = Len(all)

\* However long the result, a scan reads no deeper than one page past the
\* bound on offsets ("so clients cannot forge arbitrary deep scans").
DepthBounded ==
    \A m \in Limits : (\A l \in Limits : l <= m) => Len(got) <= MaxOffset + m

-----------------------------------------------------------------------------
(* Properties of the answers on a table, for each table of the initial      *)
(* states.                                                                  *)

\* What a page request can show, as bags of rows are to each other: the
\* arrangements of what its fields show.
Shown(rows, q) ==
    {[i \in DOMAIN s |-> Project(s[i], q.fields)] :
        s \in Arrangements(Matching(rows, q), OrderOf(q))}

\* Row r with other values in the fields the policy hides.
Disguised(r) == [f \in DOMAIN r |-> IF f \in Available THEN r[f] ELSE 1 - r[f]]

\* Tables of as many rows that differ from this one in such fields.
Lookalikes ==
    {other \in {{IF r \in changed THEN Disguised(r) ELSE r : r \in table} :
                    changed \in SUBSET table} :
        Cardinality(other) = Cardinality(table)}

\* A hidden field shows in no answer: not as a value, and not through a filter
\* or a sort that would let a client ask after it.
HiddenHasNoInfluence ==
    (state = "new" /\ writes = 0) =>
        \A q \in {p \in Query : Valid(p)} : \A other \in Lookalikes :
            Shown(other, q) = Shown(table, q)

\* The filters that narrow a search to a group: is_null for NULL.
GroupFilters(group) ==
    SetToSeq({IF group[g] = Null
              THEN [field |-> g, operator |-> "is_null", value |-> TRUE]
              ELSE [field |-> g, operator |-> "eq", value |-> group[g]] : g \in DOMAIN group})

Metric(function, f) == [function |-> function, field |-> f, alias |-> Null]

MetricsOf(f) ==
    <<Metric("count", Null), Metric("count", f), Metric("min", f), Metric("max", f)>>
        \o IF f \in Numeric THEN <<Metric("avg", f)>> ELSE <<>>

\* The groups of the rows with these filters by g, with metrics of f.
GroupsAddUp(filters, f, g, limit) ==
    LET answer == Aggregate(table, MetricsOf(f), <<g>>, filters, limit)
        narrowed(i) == filters \o GroupFilters(answer.rows[i].group)
        rows(i) == Where(table, narrowed(i))
    IN  /\ \A i \in DOMAIN answer.rows :
              /\ answer.rows[i].metrics[1] = Cardinality(rows(i))
              /\ Aggregate(table, MetricsOf(f), <<>>, narrowed(i), 1).rows[1].metrics
                   = answer.rows[i].metrics
              /\ \A j \in DOMAIN answer.rows : i # j => rows(i) \cap rows(j) = {}
        /\ answer.truncated <=>
              Where(table, filters) # UNION {rows(i) : i \in DOMAIN answer.rows}

\* An aggregate can be followed to its rows: a search with its filters, narrowed
\* to the values of a group that is shown, finds as many rows as the group
\* counts; the same metrics without groups then come to what the group says; no
\* row is counted twice; and the answer is said to be truncated if and only if
\* it leaves a row out.
CountsCanBeFollowed ==
    (state = "new" /\ writes = 0) =>
        \A q \in {p \in Query : Valid(p) /\ p.tool = "search"} :
        \A f, g \in Available : \A limit \in Limits :
            ValidAggregation(MetricsOf(f), <<g>>) /\ ValidLimit(limit)
                => GroupsAddUp(q.filters, f, g, limit)

\* A relation can be followed there and back: the row a record refers to lists
\* the record among those that refer to it, and get_record finds both by their
\* keys.
RelationsGoBothWays ==
    (state = "new" /\ writes = 0 /\ PrimaryKey # <<>>) =>
        \A r \in table :
            LET key(row) == Project(row, PrimaryKey)
            IN  /\ GetOne(table, key(r)) = <<r>>
                /\ \A s \in table :
                      s \in Related(table, key(r), "outbound")
                          <=> r \in Related(table, key(s), "inbound")
=============================================================================
