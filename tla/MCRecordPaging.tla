----------------------------- MODULE MCRecordPaging -----------------------------
(* Instances of RecordPaging for TLC: rows of an entity with a primary key, *)
(* a reference to another row, a text, and a field that is hidden.          *)
EXTENDS RecordPaging

R(id, ref, name, pin) == [id |-> id, ref |-> ref, name |-> name, pin |-> pin]

MCRow == UNION {{R(i, Null, 0, 0), R(i, Null, 1, 1), R(i, 1, 0, 1)} : i \in 1..3}
             \cup {R(4, 1, 0, 0), R(5, Null, 0, 0)}

MCVisible == <<"id", "ref", "name">>
MCKey == <<"id">>
MCSource == <<"ref">>
MCTarget == <<"id">>

Search(filters, order) ==
    [tool |-> "search", fields |-> <<"id", "name">>, filters |-> filters, order |-> order]
Filter(f, op, v) == [field |-> f, operator |-> op, value |-> v]
By(f, d) == [field |-> f, direction |-> d]

\* All records, by text; those that refer to one, the last first; those that
\* refer to record 1.  The others are refused: a hidden field to filter or to
\* sort by, and a text too short to search for.
MCQuery ==
    {Search(<<>>, <<By("name", "asc")>>),
     Search(<<Filter("ref", "is_null", FALSE), Filter("id", "gt", 1)>>, <<By("ref", "desc"), By("id", "desc")>>),
     Search(<<Filter("name", "ilike", [chars |-> 3, covers |-> {1}])>>, <<>>),
     [tool |-> "related", key |-> [id |-> 1], direction |-> "inbound", fields |-> <<"ref">>],
     Search(<<Filter("pin", "eq", 1)>>, <<>>),
     Search(<<>>, <<By("pin", "asc")>>),
     Search(<<Filter("name", "ilike", [chars |-> 2, covers |-> {0, 1}])>>, <<>>)}
=============================================================================
