----------------------------- MODULE MCKeysetPaging -----------------------------
(* Instances of KeysetPaging and CustomerLookup for TLC.                    *)
EXTENDS CustomerLookup

MCIds == 1..5

-----------------------------------------------------------------------------
(* Numbers at the bounds of what is local, international and too long, as   *)
(* they may be written.                                                     *)

Fives(n) == [i \in 1..n |-> "5"]

Numbers ==
    {prefix \o Fives(n) : prefix \in {<<>>, <<"0", "0">>}, n \in {8, 9, 10, 15, 16}}
        \cup {<<"9", "9", "8">> \o Fives(9), <<"0", "0", "9", "9", "8">> \o Fives(9),
              <<"0">> \o Fives(8), <<"0">> \o Fives(11), <<"0", "0", "0">> \o Fives(8)}

\* A plus, brackets, a blank before it, a letter behind it, a plus inside it.
Forms(number) ==
    {number, <<"+">> \o number, <<"sp", "(", "5", ")", "sp">> \o Tail(number),
     number \o <<"A">>, <<"5", "+">> \o number}

\* In all forms, also with a tab before the number, or too long to be typed.
MCPhones ==
    UNION {Forms(number) \cup {<<"tab">> \o number} : number \in Numbers}
        \cup {[i \in 1..70 |-> IF i <= 9 THEN "5" ELSE "sp"]}

\* Plates at their bounds and VINs, in small letters and with blanks; an I is
\* in no VIN, another alphabet nowhere.
Plates ==
    {<<c>> \o Fives(n) : c \in {"A", "a", "i", "cyrillic A"}, n \in {2, 3, 15, 16}}

MCTexts ==
    UNION {{p, <<"tab">> \o p, p \o <<"vt">>, <<"b", "-">> \o Tail(p), <<"B", "sp">> \o Tail(p)} : p \in Plates}

-----------------------------------------------------------------------------
(* A customer with two phones and two vehicles.                             *)

Phone == <<"9", "9", "8">> \o Fives(9)
Plate == <<"A">> \o Fives(3)

MCLookups ==
    {[tool |-> "customers", phone |-> p, customer_id |-> i] :
        p \in {Null, Phone, <<"1">> \o Fives(11)}, i \in {Null, 0, 1}}
    \cup {[tool |-> "vehicles", plate |-> p, vin |-> v, customer_id |-> i] :
        p \in {Null, Plate}, v \in {Null, <<"A">> \o Fives(16)}, i \in {Null, 1}}

Car(i, p, v) ==
    [id |-> i, owner_id |-> 1, business_owner_id |-> 2, plate_number |-> p, win_number |-> v,
     brand_id |-> 1, model_id |-> 1, year |-> 1, engine |-> 1]

MCTables ==
    [users  |-> {[id |-> 1, username |-> Fives(9), full_name |-> 1, pin |-> 1],
                 [id |-> 2, username |-> <<"1">> \o Fives(11), full_name |-> 2, pin |-> 2]},
     phones |-> {[user_id |-> 1, number |-> <<"1">> \o Fives(11), label |-> 1]},
     cars   |-> {Car(1, Plate, Null), Car(2, <<"a">> \o Fives(2), <<"a">> \o Fives(16))}]

MCOther ==
    [f \in {"username", "number", "plate_number", "win_number"} |-> <<"0">>]
    @@ [f \in {"id", "owner_id", "business_owner_id", "brand_id", "model_id", "year",
               "engine", "full_name", "pin", "label", "user_id"} |-> 9]
=============================================================================
