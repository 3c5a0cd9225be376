----------------------------- MODULE RecordQueries -----------------------------
(***************************************************************************)
(* What the record tools may ask of an entity and what they are answered:  *)
(* the validation of fields, filters, sorts, keys and aggregates, and the  *)
(* meaning of the SELECT that each request is compiled to.                 *)
(*                                                                         *)
(* Sources: QueryValidationService (app/services/validation_service.py),   *)
(* compile_filters and compile_order (app/infrastructure/postgres/         *)
(* query_builder.py), PostgresRecordRepository (app/infrastructure/        *)
(* postgres/record_repository.py), app/domain/models.py.                   *)
(*                                                                         *)
(* One entity, whose foreign key refers to itself, so that a relation and  *)
(* its inverse are both there.  A row is a function from fields, the       *)
(* hidden ones included, to numbers or Null; the SQL of a request gives a  *)
(* set of rows and the arrangements its ORDER BY allows.                   *)
(***************************************************************************)
EXTENDS Integers, FiniteSets, Sequences, SequencesExt, FiniteSetsExt

CONSTANTS
    Field,          \* the columns of the entity
    Visible,        \* EntityInfo.fields: the names the policy shows, in order
    PrimaryKey,     \* EntityInfo.primary_key
    Numeric, Text,  \* fields with is_numeric, is_text
    SourceFields,   \* of the foreign key ...
    TargetFields,   \* ... and the fields it refers to
    Null

ASSUME Schema == /\ Visible \in Seq(Field) /\ PrimaryKey \in Seq(Field)
                 /\ Null \notin Int

\* A primary key or a foreign key is known if the policy shows all its fields;
\* a foreign key has as many as it refers to.
ASSUME Exposed == /\ ToSet(PrimaryKey) \subseteq ToSet(Visible)
                  /\ SourceFields \in Seq(ToSet(Visible))
                  /\ TargetFields \in Seq(ToSet(Visible))
                  /\ Len(SourceFields) = Len(TargetFields)

Sort == [field : Field, direction : {"asc", "desc"}]

\* Names in a request may be any; these are the ones it may use.
Available == ToSet(Visible)

-----------------------------------------------------------------------------
(* Validation.                                                              *)

ValidFields(fields) ==
    /\ Len(fields) \in 1..30
    /\ IsInjective(fields)
    /\ ToSet(fields) \subseteq Available

\* An ilike value is a text of "chars" characters once stripped that occurs in
\* the values "covers"; an in value is a set, an is_null value a Boolean.
ValidValue(f) ==
    CASE f.operator = "ilike"   -> f.field \in Text /\ f.value.chars >= 3
      [] f.operator = "in"      -> Cardinality(f.value) \in 1..100
      [] f.operator = "is_null" -> f.value \in BOOLEAN
      [] OTHER                  -> f.value # Null

\* Fault: the name of the field is not looked up.
ValidFiltersAnywhere(filters) ==
    Len(filters) <= 5 /\ \A f \in ToSet(filters) : ValidValue(f)

ValidFilters(filters) ==
    /\ Len(filters) <= 5
    /\ \A f \in ToSet(filters) : f.field \in Available /\ ValidValue(f)

ValidSort(order) ==
    Len(order) <= 3 /\ \A s \in ToSet(order) : s.field \in Available

\* A key gives each field of the primary key a value, and no other.
ValidKey(key) ==
    /\ PrimaryKey # <<>>
    /\ DOMAIN key = ToSet(PrimaryKey)
    /\ \A f \in DOMAIN key : key[f] # Null

\* The name of a metric's column: its alias, or one made up of what it is.
\* Names are tuples, so that those of two kinds can be compared.
Alias(metrics, i) ==
    LET m == metrics[i]
    IN  IF m.alias # Null THEN <<m.alias>> ELSE <<m.function, m.field, i>>

ValidMetric(m) ==
    /\ m.field = Null => m.function = "count"
    /\ m.field # Null => m.field \in Available
    /\ m.function \in {"sum", "avg"} => m.field \in Numeric

ValidAggregation(metrics, groups) ==
    /\ Len(metrics) \in 1..5 /\ Len(groups) <= 3
    /\ IsInjective(groups) /\ ToSet(groups) \subseteq Available
    /\ \A i \in DOMAIN metrics :
          /\ ValidMetric(metrics[i])
          /\ Alias(metrics, i) \notin {<<g>> : g \in ToSet(groups)}
          /\ \A j \in 1..(i - 1) : Alias(metrics, j) # Alias(metrics, i)

ValidLimit(limit) == limit \in 1..100

-----------------------------------------------------------------------------
(* WHERE: compile_filters, with the comparisons of SQL.                     *)

Compare(operator, v, w) ==
    CASE operator = "eq"    -> v = w
      [] operator = "neq"   -> v # w
      [] operator = "gt"    -> v > w
      [] operator = "gte"   -> v >= w
      [] operator = "lt"    -> v < w
      [] operator = "lte"   -> v <= w
      [] operator = "in"    -> v \in w
      [] operator = "ilike" -> v \in w.covers

\* A comparison with NULL is not true.
Holds(f, row) ==
    IF f.operator = "is_null" THEN (row[f.field] = Null) = f.value
    ELSE row[f.field] # Null /\ Compare(f.operator, row[f.field], f.value)

\* The filters are joined by AND.
Where(table, filters) == {row \in table : \A f \in ToSet(filters) : Holds(f, row)}

KeyFilters(key) ==
    SetToSeq({[field |-> f, operator |-> "eq", value |-> key[f]] : f \in DOMAIN key})

-----------------------------------------------------------------------------
(* ORDER BY: compile_order and _default_order.                              *)

AscendingBy(fields) == [i \in DOMAIN fields |-> [field |-> fields[i], direction |-> "asc"]]

\* The primary key, or else the first field, or else nothing.
DefaultOrder ==
    LET fields == IF PrimaryKey # <<>> THEN PrimaryKey
                  ELSE SubSeq(Visible, 1, IF Visible = <<>> THEN 0 ELSE 1)
    IN  AscendingBy(fields)

\* Fault: the client's order is taken as it is.
EffectiveOrderPlain(order) == IF order = <<>> THEN DefaultOrder ELSE order

\* What the client asked for, and then the default.  Of that the code leaves
\* out the fields the client has named: they decide nothing a second time.
EffectiveOrder(order) == order \o DefaultOrder

\* ASC or DESC, NULLS LAST.
Less(s, row, other) ==
    LET v == row[s.field]
        w == other[s.field]
    IN  /\ v # Null
        /\ w = Null \/ IF s.direction = "asc" THEN v < w ELSE v > w

Precedes(order, row, other) ==
    \E i \in DOMAIN order :
        /\ Less(order[i], row, other)
        /\ \A j \in 1..(i - 1) : row[order[j].field] = other[order[j].field]

\* Where rows tie, each execution may choose anew.
Arrangements(rows, order) ==
    {s \in SetToSeqs(rows) :
        \A i, j \in DOMAIN s : i < j => ~Precedes(order, s[j], s[i])}

-----------------------------------------------------------------------------
(* The four tools.  A request is valid as the services test it; what it is  *)
(* answered is cut to pages by module RecordPaging.                         *)

Found(rows) == IF Cardinality(rows) = 1 THEN SetToSeq(rows) ELSE <<>>

\* get_one: LIMIT 2, and a row only if it is the only one.
GetOne(table, key) == Found(Where(table, KeyFilters(key)))

\* Fault: the sides of the join are the same in both directions.
JoinsSame(current, row, direction) ==
    \A i \in DOMAIN SourceFields :
        current[SourceFields[i]] # Null /\ current[SourceFields[i]] = row[TargetFields[i]]

\* The ON clause of related: an outbound relation goes from the referring
\* fields to those referred to, an inbound one the other way.
Joins(current, row, direction) ==
    LET here  == IF direction = "outbound" THEN SourceFields ELSE TargetFields
        there == IF direction = "outbound" THEN TargetFields ELSE SourceFields
    IN  \A i \in DOMAIN here : current[here[i]] # Null /\ current[here[i]] = row[there[i]]

Related(table, key, direction) ==
    {row \in table : \E current \in Where(table, KeyFilters(key)) :
                        Joins(current, row, direction)}

\* A page request: of search_records, or of get_related_records.
Valid(q) ==
    /\ ValidFields(q.fields)
    /\ CASE q.tool = "search"  -> ValidFilters(q.filters) /\ ValidSort(q.order)
         [] q.tool = "related" -> ValidKey(q.key)

Matching(table, q) ==
    IF q.tool = "search" THEN Where(table, q.filters) ELSE Related(table, q.key, q.direction)

OrderOf(q) == EffectiveOrder(IF q.tool = "search" THEN q.order ELSE <<>>)

Project(row, fields) == [f \in ToSet(fields) |-> row[f]]

Sum(f, rows) == MapThenSumSet(LAMBDA row : row[f], rows)

\* COUNT(*), COUNT(f), SUM, AVG (as sum and number), MIN and MAX.
Compute(m, rows) ==
    LET known == {row \in rows : m.field # Null /\ row[m.field] # Null}
        values == {row[m.field] : row \in known}
    IN  IF m.function = "count" THEN Cardinality(IF m.field = Null THEN rows ELSE known)
        ELSE IF values = {} THEN Null
        ELSE CASE m.function = "sum" -> Sum(m.field, known)
               [] m.function = "avg" -> <<Sum(m.field, known), Cardinality(known)>>
               [] m.function = "min" -> Min(values)
               [] m.function = "max" -> Max(values)

\* Fault: rows whose group field is NULL are left out.
GroupsKnown(rows, groups) ==
    LET keyed == {row \in rows : \A g \in ToSet(groups) : row[g] # Null}
    IN  IF groups = <<>> THEN {rows}
        ELSE {{row \in keyed : Project(row, groups) = Project(one, groups)} : one \in keyed}

\* GROUP BY, for which NULL is a value; without it there is one group, even of
\* no rows.
Groups(rows, groups) ==
    IF groups = <<>> THEN {rows}
    ELSE {{row \in rows : Project(row, groups) = Project(one, groups)} : one \in rows}

\* A group comes before another if its rows do; InOrder lists groups by how many
\* come before them.
Before(order, group, other) == \E row \in group : \E r \in other : Precedes(order, row, r)

InOrder(groups, order) ==
    [k \in 1..Cardinality(groups) |->
        CHOOSE group \in groups :
            Cardinality({other \in groups : Before(order, other, group)}) = k - 1]

\* aggregate: the groups in the order of their fields, limit + 1 of them at
\* most, of which the last only tells that there are more.
Aggregate(table, metrics, groups, filters, limit) ==
    LET all == InOrder(Groups(Where(table, filters), groups), AscendingBy(groups))
        shown == SubSeq(all, 1, IF Len(all) <= limit THEN Len(all) ELSE limit)
    IN  [rows |-> [i \in DOMAIN shown |->
                      [group |-> IF groups = <<>> THEN <<>>
                                 ELSE Project(CHOOSE r \in shown[i] : TRUE, groups),
                       metrics |-> [k \in DOMAIN metrics |-> Compute(metrics[k], shown[i])]]],
         truncated |-> Len(all) > limit]
=============================================================================
