----------------------------- MODULE CustomerLookup -----------------------------
(***************************************************************************)
(* What the scans of KeysetPaging look for: customers by phone and         *)
(* vehicles by plate and VIN.  What a client types is normalized by the    *)
(* service, in Python; what the table holds is normalized by the SELECT,   *)
(* in SQL.  The two must come to the same.                                 *)
(*                                                                         *)
(* Sources: normalize_phone, normalize_plate, normalize_vin,               *)
(* CustomerLookupService (app/services/customer_lookup_service.py),        *)
(* _phone, _vehicle_identifier and the WHERE of customers and vehicles     *)
(* (app/infrastructure/postgres/customer_lookup_repository.py).            *)
(*                                                                         *)
(* A text is a sequence of characters.  Of the characters there are the    *)
(* digits, some letters, and what the patterns treat specially.            *)
(***************************************************************************)
EXTENDS KeysetPaging

CONSTANTS
    Null,           \* SQL's NULL, Python's None
    Refused,        \* an identifier that does not pass
    Phones,         \* texts for numbers, of clients and of the table
    Texts,          \* and for plates and VINs
    Lookups,        \* normalized queries
    Tables,         \* users, user_additional_phone, business_account_garagecar
    Other           \* for each field a value that no row has

\* The rows of a table have the same fields.
ASSUME LookupTables ==
    /\ DOMAIN Tables = {"users", "phones", "cars"}
    /\ \A t \in DOMAIN Tables : \A r, s \in Tables[t] : DOMAIN r = DOMAIN s
    /\ \A query \in Lookups : query.tool \in {"customers", "vehicles"}

UserFields == {"id", "username", "full_name"}
PhoneFields == {"user_id", "number"}
CarFields == {"id", "owner_id", "business_owner_id", "plate_number", "win_number",
              "brand_id", "model_id", "year"}

Digit == {"0", "1", "5", "8", "9"}
Letter == {"A", "B", "I"}
Blank == {"sp", "tab"}           \* of " \t\r\n"
Space == Blank \cup {"vt"}      \* [:space:], and what Python's strip removes
Character == Digit \cup Letter \cup {"a", "b", "i"} \cup Space \cup {"+", "-", "(", ")", ".", "cyrillic A"}

\* NULL is no text.
ASSUME LookupTexts ==
    Phones \cup Texts \subseteq Seq(Character) /\ Null \notin Seq(Character)

\* Removes from both ends.
Strip(text, blanks) ==
    LET kept == {i \in DOMAIN text : text[i] \notin blanks}
    IN  IF kept = {} THEN <<>> ELSE SubSeq(text, Min(kept), Max(kept))

\* Remains(text, chars)[i] is what is left of the first i characters ...
Remains(text, chars) ==
    LET rest[i \in 0..Len(text)] ==
            IF i = 0 THEN <<>>
            ELSE IF text[i] \in chars THEN rest[i - 1] ELSE Append(rest[i - 1], text[i])
    IN  rest

\* ... and this of the text, when the characters are removed.
Without(text, chars) == Remains(text, chars)[Len(text)]

\* Both patterns: \+?[0-9 ()\.\-]+
PhoneShaped(text) ==
    LET number == IF IsPrefix(<<"+">>, text) THEN Tail(text) ELSE text
    IN  number # <<>> /\ ToSet(number) \subseteq Digit \cup {"sp", "(", ")", ".", "-"}

\* Digits only, 00 removed, a local number made international.
International(text) ==
    LET digits == Without(text, ToSet(text) \ Digit)
        number == IF IsPrefix(<<"0", "0">>, digits) THEN SubSeq(digits, 3, Len(digits)) ELSE digits
    IN  IF Len(number) = 9 THEN <<"9", "9", "8">> \o number ELSE number

normalize_phone(text) ==
    LET number == International(text)
    IN  IF /\ Len(text) <= 64 /\ PhoneShaped(Strip(text, Space))
           /\ Len(number) \in 10..15 /\ number[1] # "0"
        THEN number ELSE Refused

\* Fault: the prefix 00 stays.
PhoneKeeping00(text) ==
    LET digits == Without(text, ToSet(text) \ Digit)
    IN  IF PhoneShaped(Strip(text, {"sp"}))
        THEN IF Len(digits) = 9 THEN <<"9", "9", "8">> \o digits ELSE digits
        ELSE Null

\* _phone: btrim removes blanks, not tabs.
StoredPhone(text) ==
    IF PhoneShaped(Strip(text, {"sp"})) THEN International(text) ELSE Null

Upper(c) == CASE c = "a" -> "A" [] c = "b" -> "B" [] c = "i" -> "I" [] OTHER -> c

Compact(text, blanks) ==
    LET kept == Without(text, blanks \cup {"-"})
    IN  [i \in DOMAIN kept |-> Upper(kept[i])]

\* _vehicle_identifier.
StoredVehicle(text) == Compact(text, Space)

normalize_plate(text) ==
    LET plate == Compact(text, Blank)
    IN  IF Len(text) <= 64 /\ Len(plate) \in 4..16 /\ ToSet(plate) \subseteq Letter \cup Digit
        THEN plate ELSE Refused

normalize_vin(text) ==
    LET vin == Compact(text, Blank)
    IN  IF Len(text) <= 64 /\ Len(vin) = 17 /\ ToSet(vin) \subseteq (Letter \ {"I"}) \cup Digit
        THEN vin ELSE Refused

-----------------------------------------------------------------------------
(* The SELECTs, of tables that are a record of sets of rows.                *)

\* u.username, or a row of user_additional_phone, and u.id; coalesce makes
\* FALSE of NULL.
Customers(tables, query) ==
    LET asked == query.phone # Null
        primary(u) == asked /\ StoredPhone(u.username) = query.phone
        additional(u) == asked /\ \E p \in tables.phones :
            p.user_id = u.id /\ StoredPhone(p.number) = query.phone
    IN  {[customer_id |-> u.id, phone |-> u.username, full_name |-> u.full_name,
          matched_primary_phone |-> primary(u), matched_additional_phone |-> additional(u)] :
            u \in {v \in tables.users : /\ query.customer_id \in {Null, v.id}
                                        /\ asked => primary(v) \/ additional(v)}}

\* What is not asked for is no condition, and NULL meets none; each vehicle comes
\* with its owner.
Vehicles(tables, query) ==
    LET is(text, value) ==
            value # Null => text # Null /\ StoredVehicle(text) = value
        owner(g) == {<<u.username, u.full_name>> : u \in {v \in tables.users : v.id = g.owner_id}}
    IN  {<<[f \in CarFields |-> g[f]], owner(g)>> :
            g \in {v \in tables.cars : /\ is(v.plate_number, query.plate)
                                       /\ is(v.win_number, query.vin)
                                       /\ query.customer_id \in {Null, v.owner_id}}}

Answer(tables, query) ==
    IF query.tool = "customers" THEN Customers(tables, query) ELSE Vehicles(tables, query)

\* Otherwise lookup_identifier_required, invalid_customer_id.
Identified(query) ==
    /\ query.customer_id # Null => query.customer_id >= 1
    /\ \/ query.customer_id # Null
       \/ query.tool = "customers" /\ query.phone # Null
       \/ query.tool = "vehicles" /\ {query.plate, query.vin} # {Null}

\* Fault: the table of additional phones is not looked at.
RequiredPrimary(query, visible) ==
    /\ UserFields \subseteq visible.users
    /\ query.tool = "vehicles" => CarFields \subseteq visible.cars

\* _require for each table, given the fields of each that the catalog shows:
\* otherwise lookup_fields_not_available.
Required(query, visible) ==
    /\ UserFields \subseteq visible.users
    /\ query.tool = "customers" /\ query.phone # Null => PhoneFields \subseteq visible.phones
    /\ query.tool = "vehicles" => CarFields \subseteq visible.cars

-----------------------------------------------------------------------------
(* Properties, of scans that begin.                                         *)

Begins == state = "new" /\ writes = 0

Customer(phone) == [tool |-> "customers", phone |-> phone, customer_id |-> Null]
Vehicle(plate, vin) ==
    [tool |-> "vehicles", plate |-> plate, vin |-> vin, customer_id |-> Null]

\* Users of whom some have the number as the primary phone, the others as an
\* additional one, and cars with the plate or the VIN.
Written(text, first) ==
    [users  |-> {[id |-> i, full_name |-> Null,
                  username |-> IF i \in first THEN text ELSE <<>>] : i \in Ids},
     phones |-> {[user_id |-> i, number |-> text] : i \in Ids \ first},
     cars   |-> {[f \in CarFields |->
                    CASE f = "plate_number" -> IF i \in first THEN text ELSE <<>>
                      [] f = "win_number" -> IF i \in first THEN <<>> ELSE text
                      [] OTHER -> i] : i \in Ids}]

\* No tab, newline or vertical tab is around it, which btrim leaves.
Bare(text) == Strip(text, Space) = Strip(text, {"sp"})

\* Every form of an identifier is one identity, whichever of two programs read
\* it: a number, a plate or a VIN that is typed in one form is found if and only
\* if it is stored in a form that could have been typed for it, and an answer
\* tells in which place.  (A number stored with a tab or a newline around it is
\* not found, although one may be typed so: see StoredPhone.  A vertical tab in a
\* stored plate or VIN is overlooked.  What is stored may be longer than what may
\* be typed; that is not looked at.)
FoundAsWritten ==
    Begins =>
        /\ \A typed \in Phones : normalize_phone(typed) # Refused =>
              \A stored \in {text \in Phones : Len(text) <= 64} :
                  LET answer == Customers(Written(stored, matching), Customer(normalize_phone(typed)))
                      places == {<<c.customer_id, c.matched_primary_phone,
                                   c.matched_additional_phone>> : c \in answer}
                  IN  places = IF Bare(stored) /\ normalize_phone(stored) = normalize_phone(typed)
                               THEN {<<i, i \in matching, i \notin matching>> : i \in Ids}
                               ELSE {}
        /\ \A typed \in Texts : \A stored \in {text \in Texts : Len(text) <= 64} :
              LET plate == normalize_plate(typed)
                  vin == normalize_vin(typed)
                  kept == Without(stored, {"vt"})
                  found(query) == {g[1].id : g \in Vehicles(Written(stored, matching), query)}
              IN  /\ plate # Refused => found(Vehicle(plate, Null)) =
                         IF normalize_plate(kept) = plate THEN matching ELSE {}
                  /\ vin # Refused => found(Vehicle(Null, vin)) =
                         IF normalize_vin(kept) = vin THEN Ids \ matching ELSE {}

\* The SELECTs are fixed, and yet the policy holds for them: a field that the
\* catalog does not show has no influence on any answer.
LookupsKeepToPolicy ==
    Begins =>
        \A query \in {q \in Lookups : Identified(q)} : \A t \in DOMAIN Tables : \A f \in DOMAIN Other :
            LET fields(u) == UNION {DOMAIN r : r \in Tables[u]}
                visible == [u \in DOMAIN Tables |-> fields(u) \ IF u = t THEN {f} ELSE {}]
                changed == [Tables EXCEPT ![t] =
                    {[g \in DOMAIN r |-> IF g = f THEN Other[f] ELSE r[g]] : r \in @}]
            IN  Required(query, visible) => Answer(changed, query) = Answer(Tables, query)
=============================================================================
