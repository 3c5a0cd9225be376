------------------------------ MODULE CatalogLoad ------------------------------
(***************************************************************************)
(* What the catalog of a source says after it was read while its schema    *)
(* changed: load_catalog asks for objects, columns, primary keys and       *)
(* foreign keys one after another, each statement sees its own moment, and *)
(* the policy is applied to what they returned.                            *)
(*                                                                         *)
(* Sources: PostgresCatalogRepository.load_catalog, its _fetch methods and *)
(* _attach_relations (app/infrastructure/postgres/catalog_repository.py),  *)
(* CatalogPolicy.allows_entity and allows_field                            *)
(* (app/infrastructure/policy.py), QueryValidationService.resolve_relation *)
(* (app/services/validation_service.py).                                   *)
(***************************************************************************)
EXTENDS Naturals, FiniteSets

CONSTANTS
    Table,      \* tables and views of the configured schemas
    Column,
    Links,      \* foreign keys that may be declared: [name, src, dst, pairs]
    Denied,     \* tables the policy does not allow
    Hidden,     \* <<table, column>> the policy denies, or of a type left out
    Start,      \* schemas the source may have at first
    MaxAlter    \* bound on changes of the schema

ASSUME Declared ==
    /\ \A l \in Links : /\ l.src \in Table /\ l.dst \in Table
                        /\ l.pairs \subseteq Column \X Column /\ l.pairs # {}
    /\ Denied \subseteq Table /\ Hidden \subseteq Table \X Column
    /\ Start \subseteq [columns : [Table -> SUBSET Column],
                       keys : [Table -> SUBSET Column], links : SUBSET Links]
    /\ MaxAlter \in Nat

VARIABLES
    columns, keys, links,       \* the schema: columns, primary keys, foreign keys
    step,                       \* of the load
    objects, rows, primary,     \* what its statements returned
    snapshot,                   \* the catalog: <<>> before the load
    past,                       \* the schemas there were while it ran
    alters

schema == <<columns, keys, links>>
fetched == <<objects, rows, primary>>
vars == <<schema, step, fetched, snapshot, past, alters>>

SourceFields(l) == {p[1] : p \in l.pairs}
TargetFields(l) == {p[2] : p \in l.pairs}
Uses(l, t, c) ==
    (l.src = t /\ c \in SourceFields(l)) \/ (l.dst = t /\ c \in TargetFields(l))

\* A table with no column stands for one that does not exist.
Consistent(cols, pks, fks) ==
    /\ \A t \in Table : pks[t] \subseteq cols[t]
    /\ \A l \in fks : /\ SourceFields(l) \subseteq cols[l.src]
                      /\ TargetFields(l) \subseteq cols[l.dst]

ASSUME StartsConsistent == \A s \in Start : Consistent(s.columns, s.keys, s.links)

Relations == [name : {l.name : l \in Links}, inbound : BOOLEAN, link : Links]
Snapshots == [fields : [Table -> SUBSET Column],
              key : [Table -> SUBSET Column],
              relations : [Table -> SUBSET Relations]]

TypeOK ==
    /\ columns \in [Table -> SUBSET Column]
    /\ keys \in [Table -> SUBSET Column]
    /\ links \subseteq Links
    /\ Consistent(columns, keys, links)
    /\ step \in {"objects", "columns", "keys", "links", "loaded"}
    /\ objects \subseteq Table
    /\ rows \in [Table -> SUBSET Column]
    /\ primary \in [Table -> SUBSET Column]
    /\ snapshot = <<>> \/ snapshot[1] \in Snapshots
    /\ alters \in 0..MaxAlter

Nothing == [t \in Table |-> {}]

Init ==
    /\ \E s \in Start : columns = s.columns /\ keys = s.keys /\ links = s.links
    /\ step = "objects"
    /\ objects = {} /\ rows = Nothing /\ primary = Nothing
    /\ snapshot = <<>>
    /\ past = {schema}
    /\ alters = 0

-----------------------------------------------------------------------------
(* The load.                                                                *)

FetchObjects ==
    /\ step = "objects"
    /\ objects' = {t \in Table : columns[t] # {}}
    /\ step' = "columns"
    /\ UNCHANGED <<schema, rows, primary, snapshot, past, alters>>

FetchColumns ==
    /\ step = "columns"
    /\ rows' = columns
    /\ step' = "keys"
    /\ UNCHANGED <<schema, objects, primary, snapshot, past, alters>>

FetchPrimaryKeys ==
    /\ step = "keys"
    /\ primary' = keys
    /\ step' = "links"
    /\ UNCHANGED <<schema, objects, rows, snapshot, past, alters>>

\* CatalogPolicy.allows_entity: schema, allowed patterns and denied patterns.
AllowsEntity(t) == t \notin Denied

\* CatalogPolicy.allows_field, and the types that load_catalog leaves out.
AllowsField(t, c) == <<t, c>> \notin Hidden

\* Fault: the policy is not asked about the entity.
FieldsOfDenied(t) == {c \in rows[t] : t \in objects /\ AllowsField(t, c)}

\* The columns of an object that policy and type let through; an object that
\* is denied or left with none is no entity.
Fields(t) == {c \in rows[t] : t \in objects /\ AllowsEntity(t) /\ AllowsField(t, c)}

\* Fault: the visible part of a primary key is taken for a key.
AllowedKeyPart(t) == primary[t] \cap Fields(t)

\* A primary key of which a column is hidden is no key.
AllowedKey(t) == IF primary[t] \subseteq Fields(t) THEN primary[t] ELSE {}

\* Fault: the fields at the target are not compared.
AttachedHalf(l) ==
    /\ Fields(l.src) # {} /\ Fields(l.dst) # {}
    /\ SourceFields(l) \subseteq Fields(l.src)

\* _attach_relations: both ends are entities and show all fields of the key.
Attached(l) ==
    /\ Fields(l.src) # {} /\ Fields(l.dst) # {}
    /\ SourceFields(l) \subseteq Fields(l.src)
    /\ TargetFields(l) \subseteq Fields(l.dst)

Relation(l, in) == [name |-> l.name, inbound |-> in, link |-> l]

\* The foreign keys arrive, and the catalog is put together.
FetchForeignKeysAndBuild ==
    /\ step = "links"
    /\ LET attached == {l \in links : Attached(l)}
       IN  snapshot' =
             <<[fields |-> [t \in Table |-> Fields(t)],
                key |-> [t \in Table |-> AllowedKey(t)],
                relations |-> [t \in Table |->
                    {Relation(l, FALSE) : l \in {k \in attached : k.src = t}}
                    \cup {Relation(l, TRUE) : l \in {k \in attached : k.dst = t}}]]>>
    /\ step' = "loaded"
    /\ UNCHANGED <<schema, fetched, past, alters>>

\* The next load; the old snapshot stays until it is replaced.
Reload ==
    /\ step = "loaded"
    /\ step' = "objects"
    /\ past' = {schema}
    /\ UNCHANGED <<schema, fetched, snapshot, alters>>

-----------------------------------------------------------------------------
(* The owner of the source database alters it.                              *)

Altered ==
    /\ alters < MaxAlter
    /\ alters' = alters + 1
    /\ past' = IF step = "loaded" THEN past ELSE past \cup {<<columns', keys', links'>>}
    /\ UNCHANGED <<step, fetched, snapshot>>

AddColumn(t, c) ==
    /\ c \notin columns[t]
    /\ columns' = [columns EXCEPT ![t] = @ \cup {c}]
    /\ UNCHANGED <<keys, links>>
    /\ Altered

\* DROP COLUMN ... CASCADE: the constraints that use it go with it.
DropColumn(t, c) ==
    /\ c \in columns[t]
    /\ columns' = [columns EXCEPT ![t] = @ \ {c}]
    /\ keys' = IF c \in keys[t] THEN [keys EXCEPT ![t] = {}] ELSE keys
    /\ links' = {l \in links : ~Uses(l, t, c)}
    /\ Altered

SetPrimaryKey(t, k) ==
    /\ k \subseteq columns[t] /\ k # keys[t]
    /\ keys' = [keys EXCEPT ![t] = k]
    /\ UNCHANGED <<columns, links>>
    /\ Altered

AddForeignKey(l) ==
    /\ l \notin links
    /\ SourceFields(l) \subseteq columns[l.src]
    /\ TargetFields(l) \subseteq columns[l.dst]
    /\ links' = links \cup {l}
    /\ UNCHANGED <<columns, keys>>
    /\ Altered

Alter ==
    \/ \E t \in Table, c \in Column : AddColumn(t, c) \/ DropColumn(t, c)
    \/ \E t \in Table, k \in SUBSET Column : SetPrimaryKey(t, k)
    \/ \E l \in Links : AddForeignKey(l)

Next ==
    \/ FetchObjects \/ FetchColumns \/ FetchPrimaryKeys \/ FetchForeignKeysAndBuild
    \/ Reload
    \/ Alter

Spec == Init /\ [][Next]_vars

-----------------------------------------------------------------------------
(* What the tools do with the catalog.                                      *)

Loaded == snapshot # <<>>

Listed(t) == snapshot[1].relations[t]

\* resolve_relation takes the name only if one relation of the entity has it.
Resolves(t, name, inbound) ==
    Cardinality({r \in Listed(t) : r.name = name /\ r.inbound = inbound}) = 1

\* Every column a tool may select, filter, sort, group or join by.
Reachable ==
    {tc \in Table \X Column :
        \/ tc[2] \in snapshot[1].fields[tc[1]] \cup snapshot[1].key[tc[1]]
        \/ \E u \in Table : \E r \in Listed(u) : Uses(r.link, tc[1], tc[2])}

-----------------------------------------------------------------------------
(* Properties.                                                              *)

\* Nothing of a denied table and no hidden column gets into a query, neither
\* as a field nor through a key or a foreign key, whenever the schema changed.
NothingHidden ==
    Loaded => \A tc \in Reachable : tc[1] \notin Denied /\ tc \notin Hidden

\* Keys and relations are in terms of fields the catalog shows, even if they
\* were read after the columns were altered: no query built from the catalog
\* names a column the catalog does not have.
Closed ==
    Loaded => \A tc \in Reachable : tc[2] \in snapshot[1].fields[tc[1]]

\* A primary key is taken as a whole: what get_record treats as "the complete
\* primary key" was that, never the visible part of one, which would not be
\* unique.
KeysAreWhole ==
    (Loaded /\ step = "loaded") =>
        \A t \in Table :
            snapshot[1].key[t] # {} => \E s \in past : s[2][t] = snapshot[1].key[t]

\* "Follow an exact foreign-key relation returned by get_entity_fields": every
\* relation an entity lists can be followed under the name it is listed with.
RelationsCanBeFollowed ==
    Loaded =>
        \A t \in Table : \A r \in Listed(t) : Resolves(t, r.name, r.inbound)
=============================================================================
