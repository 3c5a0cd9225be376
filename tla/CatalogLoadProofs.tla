--------------------------- MODULE CatalogLoadProofs ---------------------------
(***************************************************************************)
(* Theorems about CatalogLoad: for every schema, policy and foreign keys,  *)
(* and however often the schema is altered, between whichever statements   *)
(* of the load, the catalog shows nothing hidden, and names no column it   *)
(* does not show.                                                          *)
(*                                                                         *)
(* Argument: what the statements returned need not fit together, so no     *)
(* invariant relates rows, primary and links.  The catalog is put together *)
(* in one step, and that step alone makes it closed, whatever was read;    *)
(* no other step touches it.  That a key is whole needs the history: the   *)
(* keys that were read are those of one of the schemas there were.         *)
(***************************************************************************)
EXTENDS CatalogLoad, TLAPS

\* What the build makes of a catalog.
Visible(t, c) == t \notin Denied /\ <<t, c>> \notin Hidden

Built(s) ==
    /\ \A t \in Table : s.key[t] \subseteq s.fields[t]
    /\ \A t \in Table : \A c \in s.fields[t] : Visible(t, c)
    /\ \A t \in Table : \A r \in s.relations[t] :
          /\ SourceFields(r.link) \subseteq s.fields[r.link.src]
          /\ TargetFields(r.link) \subseteq s.fields[r.link.dst]

BuiltInv == Loaded => Built(snapshot[1])

\* The keys of the load are of its past, and so are those of its catalog.
PastInv ==
    /\ step # "loaded" => schema \in past
    /\ step = "links" => \E s \in past : s[2] = primary

IInv == TypeOK /\ BuiltInv /\ PastInv /\ KeysAreWhole

USE Declared

-----------------------------------------------------------------------------

LEMMA LinkFields ==
    ASSUME NEW l \in Links
    PROVE  SourceFields(l) \subseteq Column /\ TargetFields(l) \subseteq Column
BY DEF SourceFields, TargetFields

LEMMA InitHolds == Init => IInv
<1> SUFFICES ASSUME Init PROVE IInv
  OBVIOUS
<1>1. PICK s \in Start : columns = s.columns /\ keys = s.keys /\ links = s.links
  BY DEF Init
<1>2. /\ columns \in [Table -> SUBSET Column] /\ keys \in [Table -> SUBSET Column]
      /\ links \subseteq Links
  BY <1>1
<1>3. Consistent(columns, keys, links)
  BY <1>1, StartsConsistent
<1>4. TypeOK
  BY <1>2, <1>3 DEF Init, TypeOK, Nothing
<1>5. BuiltInv /\ PastInv /\ KeysAreWhole
  BY DEF Init, BuiltInv, Loaded, PastInv, KeysAreWhole
<1> QED BY <1>4, <1>5 DEF IInv

-----------------------------------------------------------------------------
(* The load.                                                                *)

\* The three statements that only fetch.
LEMMA FetchStep ==
    ASSUME IInv, FetchObjects \/ FetchColumns \/ FetchPrimaryKeys
    PROVE  IInv'
<1>1. UNCHANGED <<columns, keys, links, snapshot, past, alters>>
      /\ step \in {"objects", "columns", "keys"} /\ step' \in {"columns", "keys", "links"}
  BY DEF FetchObjects, FetchColumns, FetchPrimaryKeys, schema
<1>2. TypeOK'
  <2>1. /\ objects' \subseteq Table /\ rows' \in [Table -> SUBSET Column]
        /\ primary' \in [Table -> SUBSET Column]
    BY DEF IInv, TypeOK, FetchObjects, FetchColumns, FetchPrimaryKeys
  <2>2. Consistent(columns, keys, links)'
    BY <1>1 DEF IInv, TypeOK, Consistent, SourceFields, TargetFields
  <2> QED BY <1>1, <2>1, <2>2 DEF IInv, TypeOK, Snapshots, Relations
<1>3. BuiltInv'
  BY <1>1 DEF IInv, BuiltInv, Loaded, Built, Visible
<1>4. PastInv'
  <2>1. (step' # "loaded" => schema' \in past')
    BY <1>1 DEF IInv, PastInv, schema
  <2>2. step' = "links" => step = "keys" /\ primary' = keys
    BY <1>1 DEF FetchObjects, FetchColumns, FetchPrimaryKeys
  <2>3. schema \in past /\ schema[2] = keys
    BY <1>1 DEF IInv, PastInv, schema
  <2>4. step' = "links" => \E s \in past' : s[2] = primary'
    BY <1>1, <2>2, <2>3
  <2> QED BY <2>1, <2>4 DEF PastInv
<1>5. KeysAreWhole'
  BY <1>1 DEF KeysAreWhole
<1> QED BY <1>2, <1>3, <1>4, <1>5 DEF IInv

\* The step that makes the catalog; what it uses of the fetched data is only
\* that it has the right type.
LEMMA BuildStep ==
    ASSUME IInv, FetchForeignKeysAndBuild
    PROVE  IInv'
<1> DEFINE attached == {l \in links : Attached(l)}
           listed(t) == {Relation(l, FALSE) : l \in {k \in attached : k.src = t}}
                        \cup {Relation(l, TRUE) : l \in {k \in attached : k.dst = t}}
           S == [fields |-> [t \in Table |-> Fields(t)],
                 key |-> [t \in Table |-> AllowedKey(t)],
                 relations |-> [t \in Table |-> listed(t)]]
<1>1. /\ step = "links" /\ snapshot' = <<S>> /\ step' = "loaded"
      /\ UNCHANGED <<columns, keys, links, objects, rows, primary, past, alters>>
  BY DEF FetchForeignKeysAndBuild, schema, fetched
<1>2. \A t \in Table : Fields(t) \subseteq Column /\ AllowedKey(t) \subseteq Column
  BY DEF IInv, TypeOK, Fields, AllowedKey
<1>3. \A t \in Table : \A r \in listed(t) : r \in Relations /\ r.link \in attached
  <2>1. \A l \in attached : /\ l \in Links /\ l.name \in {k.name : k \in Links}
    BY DEF IInv, TypeOK
  <2>2. \A l \in attached, b \in BOOLEAN :
           Relation(l, b) \in Relations /\ Relation(l, b).link = l
    BY <2>1 DEF Relation, Relations
  <2>3. ASSUME NEW t \in Table, NEW r \in listed(t)
        PROVE  \E l \in attached, b \in BOOLEAN : r = Relation(l, b)
    OBVIOUS
  <2> HIDE DEF attached, listed
  <2> QED BY <2>2, <2>3
<1>4. S \in Snapshots
  <2>1. \A t \in Table : listed(t) \subseteq Relations
    BY <1>3
  <2> QED BY <1>2, <2>1 DEF Snapshots
<1>5. Built(S)
  <2>1. \A t \in Table : S.fields[t] = Fields(t) /\ S.key[t] = AllowedKey(t)
                         /\ S.relations[t] = listed(t)
    OBVIOUS
  <2>2. \A t \in Table : AllowedKey(t) \subseteq Fields(t)
    BY DEF AllowedKey
  <2>3. \A t \in Table : \A c \in Fields(t) : Visible(t, c)
    BY DEF Fields, AllowsEntity, AllowsField, Visible
  <2>4. \A l \in attached : /\ l.src \in Table /\ l.dst \in Table
                            /\ SourceFields(l) \subseteq Fields(l.src)
                            /\ TargetFields(l) \subseteq Fields(l.dst)
    BY DEF Attached, IInv, TypeOK
  <2> HIDE DEF S, listed
  <2>5. \A t \in Table : \A r \in S.relations[t] :
          /\ SourceFields(r.link) \subseteq S.fields[r.link.src]
          /\ TargetFields(r.link) \subseteq S.fields[r.link.dst]
    BY <1>3, <2>1, <2>4
  <2> QED BY <2>1, <2>2, <2>3, <2>5 DEF Built
<1>6. \A t \in Table : S.key[t] # {} => S.key[t] = primary[t]
  BY DEF AllowedKey
<1> HIDE DEF S
<1>7. snapshot'[1] = S
  BY <1>1
<1>8. TypeOK'
  <2>1. snapshot'[1] \in Snapshots'
    BY <1>4, <1>7 DEF Snapshots, Relations
  <2>2. Consistent(columns, keys, links)'
    BY <1>1 DEF IInv, TypeOK, Consistent, SourceFields, TargetFields
  <2> QED BY <1>1, <2>1, <2>2 DEF IInv, TypeOK
<1>9. BuiltInv'
  BY <1>5, <1>7 DEF BuiltInv, Built, Visible
<1>10. PastInv'
  BY <1>1 DEF PastInv
<1>11. KeysAreWhole'
  <2>1. PICK s \in past : s[2] = primary
    BY <1>1 DEF IInv, PastInv
  <2>2. \A t \in Table : S.key[t] # {} => s[2][t] = S.key[t]
    BY <1>6, <2>1
  <2> QED BY <1>1, <1>7, <2>2 DEF KeysAreWhole
<1> QED BY <1>8, <1>9, <1>10, <1>11 DEF IInv

LEMMA ReloadStep ==
    ASSUME IInv, Reload
    PROVE  IInv'
<1>1. /\ step' = "objects" /\ past' = {schema}
      /\ UNCHANGED <<columns, keys, links, objects, rows, primary, snapshot, alters>>
  BY DEF Reload, schema, fetched
<1>2. TypeOK'
  BY <1>1 DEF IInv, TypeOK, Consistent, SourceFields, TargetFields, Snapshots, Relations
<1>3. BuiltInv'
  BY <1>1 DEF IInv, BuiltInv, Loaded, Built, Visible
<1>4. PastInv' /\ KeysAreWhole'
  BY <1>1 DEF PastInv, KeysAreWhole, schema
<1> QED BY <1>2, <1>3, <1>4 DEF IInv

-----------------------------------------------------------------------------
(* The owner of the database.                                               *)

\* PostgreSQL keeps a schema consistent, whatever is added or dropped.
LEMMA AlterKeepsSchema ==
    ASSUME IInv, Alter
    PROVE  /\ columns' \in [Table -> SUBSET Column] /\ keys' \in [Table -> SUBSET Column]
           /\ links' \subseteq Links
           /\ Consistent(columns', keys', links')
<1>0. /\ columns \in [Table -> SUBSET Column] /\ keys \in [Table -> SUBSET Column]
      /\ links \subseteq Links
      /\ \A t \in Table : keys[t] \subseteq columns[t]
      /\ \A l \in links : /\ l.src \in Table /\ l.dst \in Table
                          /\ SourceFields(l) \subseteq columns[l.src]
                          /\ TargetFields(l) \subseteq columns[l.dst]
  BY DEF IInv, TypeOK, Consistent
<1>1. ASSUME NEW t \in Table, NEW c \in Column, AddColumn(t, c)
      PROVE  /\ columns' \in [Table -> SUBSET Column] /\ keys' \in [Table -> SUBSET Column]
             /\ links' \subseteq Links /\ Consistent(columns', keys', links')
  <2>1. keys' = keys /\ links' = links /\ columns' \in [Table -> SUBSET Column]
    BY <1>0, <1>1 DEF AddColumn
  <2>2. \A u \in Table : columns[u] \subseteq columns'[u]
    BY <1>0, <1>1 DEF AddColumn
  <2> QED BY <1>0, <2>1, <2>2 DEF Consistent
<1>2. ASSUME NEW t \in Table, NEW c \in Column, DropColumn(t, c)
      PROVE  /\ columns' \in [Table -> SUBSET Column] /\ keys' \in [Table -> SUBSET Column]
             /\ links' \subseteq Links /\ Consistent(columns', keys', links')
  <2>1. /\ columns' \in [Table -> SUBSET Column] /\ keys' \in [Table -> SUBSET Column]
        /\ links' \subseteq Links
    BY <1>0, <1>2 DEF DropColumn
  <2>2. \A u \in Table : \A d \in columns[u] : (u = t /\ d = c) \/ d \in columns'[u]
    BY <1>0, <1>2 DEF DropColumn
  <2>3. \A u \in Table : keys'[u] \subseteq keys[u] /\ ~(u = t /\ c \in keys'[u])
    BY <1>0, <1>2 DEF DropColumn
  <2>4. \A l \in links' : l \in links /\ ~Uses(l, t, c)
    BY <1>2 DEF DropColumn
  <2>5. \A u \in Table : keys'[u] \subseteq columns'[u]
    BY <1>0, <2>2, <2>3
  <2>6. \A l \in links' : /\ SourceFields(l) \subseteq columns'[l.src]
                          /\ TargetFields(l) \subseteq columns'[l.dst]
    BY <1>0, <2>2, <2>4 DEF Uses
  <2> QED BY <2>1, <2>5, <2>6 DEF Consistent
<1>3. ASSUME NEW t \in Table, NEW k \in SUBSET Column, SetPrimaryKey(t, k)
      PROVE  /\ columns' \in [Table -> SUBSET Column] /\ keys' \in [Table -> SUBSET Column]
             /\ links' \subseteq Links /\ Consistent(columns', keys', links')
  BY <1>0, <1>3 DEF SetPrimaryKey, Consistent
<1>4. ASSUME NEW l \in Links, AddForeignKey(l)
      PROVE  /\ columns' \in [Table -> SUBSET Column] /\ keys' \in [Table -> SUBSET Column]
             /\ links' \subseteq Links /\ Consistent(columns', keys', links')
  BY <1>0, <1>4 DEF AddForeignKey, Consistent
<1> QED BY <1>1, <1>2, <1>3, <1>4 DEF Alter

LEMMA AlterStep ==
    ASSUME IInv, Alter
    PROVE  IInv'
<1>1. Altered
  BY DEF Alter, AddColumn, DropColumn, SetPrimaryKey, AddForeignKey
<1>2. /\ UNCHANGED <<step, objects, rows, primary, snapshot>>
      /\ past \subseteq past' /\ alters' \in 0..MaxAlter
      /\ step # "loaded" => schema' \in past'
      /\ step = "loaded" => past' = past
  <2>1. alters' \in 0..MaxAlter
    BY <1>1 DEF Altered, IInv, TypeOK
  <2> QED BY <1>1, <2>1 DEF Altered, fetched, schema
<1>3. TypeOK'
  BY <1>2, AlterKeepsSchema DEF IInv, TypeOK, Snapshots, Relations
<1>4. BuiltInv'
  BY <1>2 DEF IInv, BuiltInv, Loaded, Built, Visible
<1>5. PastInv'
  BY <1>2 DEF IInv, PastInv
<1>6. KeysAreWhole'
  BY <1>2 DEF IInv, KeysAreWhole, Loaded
<1> QED BY <1>3, <1>4, <1>5, <1>6 DEF IInv

-----------------------------------------------------------------------------
(* The theorems.                                                            *)

LEMMA StepKeeps == IInv /\ [Next]_vars => IInv'
<1> SUFFICES ASSUME IInv, [Next]_vars PROVE IInv'
  OBVIOUS
<1>1. CASE UNCHANGED vars
  <2>1. UNCHANGED <<columns, keys, links, step, objects, rows, primary, snapshot,
                    past, alters>>
    BY <1>1 DEF vars, schema, fetched
  <2>2. TypeOK'
    BY <2>1 DEF IInv, TypeOK, Consistent, SourceFields, TargetFields, Snapshots, Relations
  <2>3. BuiltInv' /\ PastInv' /\ KeysAreWhole'
    BY <2>1 DEF IInv, BuiltInv, Loaded, Built, Visible, PastInv, KeysAreWhole, schema
  <2> QED BY <2>2, <2>3 DEF IInv
<1> QED BY <1>1, FetchStep, BuildStep, ReloadStep, AlterStep DEF Next

LEMMA Invariance == Spec => []IInv
BY InitHolds, StepKeeps, PTL DEF Spec

\* Type correctness, with the consistency of the schema that PostgreSQL keeps.
THEOREM TypeCorrect == Spec => []TypeOK
<1>1. IInv => TypeOK
  BY DEF IInv
<1> QED BY <1>1, Invariance, PTL

LEMMA BuiltIsClosed ==
    ASSUME TypeOK, Loaded, Built(snapshot[1])
    PROVE  \A t \in Table, c \in Column : <<t, c>> \in Reachable =>
              Visible(t, c) /\ c \in snapshot[1].fields[t]
<1> SUFFICES ASSUME NEW t \in Table, NEW c \in Column, <<t, c>> \in Reachable
             PROVE  c \in snapshot[1].fields[t]
  BY DEF Built
<1>1. \/ c \in snapshot[1].fields[t] \cup snapshot[1].key[t]
      \/ \E u \in Table : \E r \in Listed(u) : Uses(r.link, t, c)
  BY DEF Reachable
<1>2. CASE c \in snapshot[1].fields[t] \cup snapshot[1].key[t]
  BY <1>2 DEF Built
<1>3. CASE \E u \in Table : \E r \in Listed(u) : Uses(r.link, t, c)
  BY <1>3 DEF Built, Listed, Uses
<1> QED BY <1>1, <1>2, <1>3

LEMMA ReachableIsPairs ==
    \A tc \in Reachable : /\ tc[1] \in Table /\ tc[2] \in Column
                          /\ tc = <<tc[1], tc[2]>>
BY DEF Reachable

\* Nothing of a denied table and no hidden column can be selected, filtered,
\* sorted, grouped or joined by, however the schema changed during the load.
THEOREM PolicyHolds == Spec => []NothingHidden
<1>1. IInv => NothingHidden
  BY BuiltIsClosed, ReachableIsPairs DEF IInv, BuiltInv, NothingHidden, Visible
<1> QED BY <1>1, Invariance, PTL

\* Keys and relations name columns the catalog shows, and no others.
THEOREM CatalogIsClosed == Spec => []Closed
<1>1. IInv => Closed
  BY BuiltIsClosed, ReachableIsPairs DEF IInv, BuiltInv, Closed
<1> QED BY <1>1, Invariance, PTL

\* A key of the catalog was the whole key of its table in one of the schemas
\* there were while it was loaded.
THEOREM WholeKeys == Spec => []KeysAreWhole
<1>1. IInv => KeysAreWhole
  BY DEF IInv
<1> QED BY <1>1, Invariance, PTL
=============================================================================
