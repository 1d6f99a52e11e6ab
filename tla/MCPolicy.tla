------------------------------ MODULE MCPolicy ------------------------------
(***************************************************************************)
(* Every condition of at most two levels over three facts of different     *)
(* types, each fact also with a value of the wrong type.                   *)
(***************************************************************************)
EXTENDS PolicyReference

MCFactNames == {"service_category", "is_first_colour_visit", "customer_age"}

MCValues ==
    [service_category      |-> {Str("colour"), Str("cut")},
     is_first_colour_visit |-> {Bool(TRUE), Bool(FALSE), Str("yes")},
     customer_age          |-> {Num(15), Num(16), Str("sixteen")}]

Atoms ==
    {Comparison("service_category", "eq", Str("colour")),
     Comparison("service_category", "in", List({Str("colour"), Str("treatment")})),
     Comparison("is_first_colour_visit", "is_true", Missing),
     Comparison("is_first_colour_visit", "is_false", Missing),
     Comparison("customer_age", "lt", Num(16)),
     Comparison("customer_age", "gte", Num(16)),
     Comparison("customer_age", "ne", Num(15))}

Groups(parts) ==
    {All(S) : S \in {{a, b} : a, b \in parts}}
        \cup {Any(S) : S \in {{a, b} : a, b \in parts}}
        \cup {Not(a) : a \in parts}

TwoLevels ==
    {Not(c) : c \in Groups(Atoms)}
        \cup {All({a, c}) : a \in Atoms, c \in Groups(Atoms)}
        \cup {Any({a, c}) : a \in Atoms, c \in Groups(Atoms)}

MCLevels == <<Atoms, Groups(Atoms), TwoLevels>>
=============================================================================
