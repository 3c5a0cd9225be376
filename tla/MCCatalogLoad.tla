----------------------------- MODULE MCCatalogLoad -----------------------------
(* Instances of CatalogLoad for TLC.                                        *)
EXTENDS CatalogLoad

CONSTANTS cars, users, logs, id, ref

Fk(n, s, d, ps) == [name |-> n, src |-> s, dst |-> d, pairs |-> ps]

\* A foreign key, one of two columns, one to a table that is denied, and one
\* of a table to itself that has the name of the first: such names are unique
\* for a table only.
MCLinks == {Fk("owner", cars, users, {<<ref, id>>}),
            Fk("both", cars, users, {<<id, id>>, <<ref, ref>>}),
            Fk("log", users, logs, {<<id, id>>}),
            Fk("owner", users, users, {<<ref, id>>})}

MCHidden == {<<users, ref>>}

\* The tables are there; keys and foreign keys of any kind.
MCStart ==
    {s \in [columns : [Table -> {{id, ref}}],
            keys : [Table -> {{}, {id}, {id, ref}}], links : SUBSET MCLinks] :
        s.keys[logs] = {} /\ s.keys[cars] # {}}
=============================================================================
