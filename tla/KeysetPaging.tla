------------------------------ MODULE KeysetPaging ------------------------------
(***************************************************************************)
(* The lookup tools search_customers and search_vehicles: a client follows *)
(* next_after_id from page to page while the source table is written to.   *)
(*                                                                         *)
(* Sources: CustomerLookupService.customers, vehicles and _validate_page   *)
(* (app/services/customer_lookup_service.py),                              *)
(* PostgresCustomerLookupRepository.customers and vehicles                 *)
(* (app/infrastructure/postgres/customer_lookup_repository.py).            *)
(*                                                                         *)
(* The identifiers of the query (phone, plate, VIN, customer id, joined by *)
(* AND) only decide which rows match; each page is one SELECT.             *)
(***************************************************************************)
EXTENDS Integers, FiniteSets, Sequences, SequencesExt

CONSTANTS
    Ids,        \* ids a row can have
    Limits,     \* page sizes the client asks for, 0 one that is refused
    MaxWrites   \* bound on writes to the source table

ASSUME Bounds == Ids \subseteq Nat \ {0} /\ Limits \subseteq Nat /\ MaxWrites \in Nat

VARIABLES
    matching,   \* ids of the rows that match the query now
    after,      \* after_id of the client's next request
    got,        \* ids it was handed, page after page
    state,      \* of the client's scan
    steady,     \* ids that have matched ever since its first page
    writes

vars == <<matching, after, got, state, steady, writes>>

TypeOK ==
    /\ matching \subseteq Ids
    /\ after \in Ids \cup {0}
    /\ got \in Seq(Ids)
    /\ state \in {"new", "more", "end"}
    /\ steady \subseteq Ids
    /\ writes \in 0..MaxWrites

Init ==
    /\ matching \in SUBSET Ids
    /\ after = 0 /\ got = <<>> /\ state = "new"
    /\ steady = matching
    /\ writes = 0

-----------------------------------------------------------------------------

\* _validate_page; the identifiers are checked alike.
ValidPage(limit) == limit >= 1 /\ limit <= 100

\* What a SELECT of the rows in s, ORDER BY id LIMIT n, may return: they ascend,
\* and a row is left out only if there are n before it.  (There is one such.)
Ascends(rows) == \A i, j \in 1..Len(rows) : i < j => rows[i] < rows[j]

Ordered(s, n) ==
    {rows \in UNION {[1..k -> s] : k \in 0..n} :
        /\ Ascends(rows)
        /\ \A i \in s \ ToSet(rows) :
              Len(rows) = n /\ \A j \in 1..n : rows[j] < i}

\* Fault: >= instead of >.
SelectInclusive(n) == Ordered({i \in matching : i >= after}, n)

\* WHERE id > after AND ... ORDER BY id LIMIT n.
Select(n) == Ordered({i \in matching : i > after}, n)

\* What of the rows is handed out: all but the one that tells there is more.
Visible(rows, limit) == SubSeq(rows, 1, IF Len(rows) < limit THEN Len(rows) ELSE limit)

\* Fault: after_id is taken from the row that tells there is more.
PageSkipping(limit) ==
    /\ state # "end"
    /\ ValidPage(limit)
    /\ \E rows \in Select(limit + 1) :
          LET more == Len(rows) > limit
          IN  /\ got' = got \o Visible(rows, limit)
              /\ after' = IF more THEN Last(rows) ELSE after
              /\ state' = IF more THEN "more" ELSE "end"
    /\ UNCHANGED <<matching, steady, writes>>

\* Fault: next_after_id repeats the request's after_id.
PageStuck(limit) ==
    /\ state # "end"
    /\ ValidPage(limit)
    /\ \E rows \in Select(limit + 1) :
          state' = IF Len(rows) > limit THEN "more" ELSE "end"
    /\ UNCHANGED <<matching, after, got, steady, writes>>

\* A page: one row more than the limit is asked for, to know if there is more.
Page(limit) ==
    /\ state # "end"
    /\ ValidPage(limit)
    /\ \E rows \in Select(limit + 1) :
          LET more == Len(rows) > limit
          IN  /\ got' = got \o Visible(rows, limit)
              /\ after' = IF more THEN Last(Visible(rows, limit)) ELSE after
              /\ state' = IF more THEN "more" ELSE "end"
    /\ UNCHANGED <<matching, steady, writes>>

\* invalid_lookup_pagination: the client keeps its place and may ask again.
PageRefused(limit) ==
    /\ state # "end"
    /\ ~ValidPage(limit)
    /\ UNCHANGED vars

\* Another program inserts, deletes or updates rows of the source.
Write ==
    /\ writes < MaxWrites
    /\ matching' \in SUBSET Ids
    /\ steady' = IF state = "new" THEN matching' ELSE steady \cap matching'
    /\ writes' = writes + 1
    /\ UNCHANGED <<after, got, state>>

\* The client starts a scan over.
Restart ==
    /\ state = "end"
    /\ after' = 0 /\ got' = <<>> /\ state' = "new"
    /\ steady' = matching
    /\ UNCHANGED <<matching, writes>>

Next ==
    \/ \E limit \in Limits : Page(limit) \/ PageRefused(limit)
    \/ Write
    \/ Restart

Spec == Init /\ [][Next]_vars

\* The client goes on asking for pages of a size that is valid.
FairSpec == Spec /\ WF_vars(\E limit \in Limits : Page(limit))

-----------------------------------------------------------------------------
(* Properties.                                                              *)

\* No row is handed out twice and the order is that of the ids, although the
\* pages are read at different times and may differ in size.
Ascending == Ascends(got)

\* A scan that was followed to its end missed no row that matched from its
\* first page to its last, whatever was inserted or deleted around it.
NothingMissed == state = "end" => steady \subseteq ToSet(got)

\* A page that promises another has handed out rows, and next_after_id is the
\* last of them, further on than the request's: with n ids ahead of after_id, at
\* most n such pages come before the last one, whatever is written meanwhile.
PagesAdvance ==
    [][state' = "more" /\ UNCHANGED writes
         => /\ after' > after /\ after' \in matching
            /\ Len(got') > Len(got) /\ Last(got') = after']_vars

\* Nor does it go on for ever: each page that has a next one moves after_id.
ScanEnds == state = "more" ~> state = "end"
=============================================================================
