------------------------------ MODULE Sampling ------------------------------
(***************************************************************************)
(* sampling/_sampler.py and the decisions taken from its profile, the      *)
(* narrowing in ddl/_columns.py and use_low_cardinality of                 *)
(* ddl/_optimizer.py: a scan of sample documents gathers evidence about    *)
(* each field; an integer field gets the narrowest type that fits, and a   *)
(* field with few distinct values becomes LowCardinality.                  *)
(*                                                                         *)
(* _flatten hands the scalars of a document one by one to the accumulators *)
(* of their fields: a step is one observe.  The fields of a document come  *)
(* in any order and any number, as arrays are descended too.               *)
(***************************************************************************)
EXTENDS NarrowInt, FiniteSets

CONSTANTS
    Fields,         \* the dotted paths the documents hold
    Values,         \* the JSON scalars they hold: [type, n], n being the number
                    \* a numeric value or text stands for
    None,           \* Python's None, for a field without an integer
    DistinctCap,    \* _DISTINCT_CAP
    LowCardMax,     \* _LOW_CARD_MAX_DISTINCT, which is below the cap
    MaxValues,      \* bound: how many scalars the sample has
    MaxSkipped      \* bound: how many lines are no JSON object

ScalarTypes == {"int", "bool", "float", "text", "null"}

ASSUME ValuesAssumption == Values \subseteq [type : ScalarTypes, n : Int]
ASSUME NoneAssumption == None \notin Int
ASSUME BoundsAssumption ==
    /\ DistinctCap \in Nat /\ MaxValues \in Nat /\ MaxSkipped \in Nat
    /\ LowCardMax \in 0 .. DistinctCap

VARIABLES
    stage,      \* "scanning" or "profiled"
    total,      \* _FieldAccumulator.total of each field, 0 when it has none
    distinct,   \* .distinct
    capped,     \* .capped
    low,        \* .min_value
    high,       \* .max_value
    skipped,    \* the lines skipped
    profile,    \* the SampleProfile's fields, once there is one
    seen        \* history: the values of each field

vars == <<stage, total, distinct, capped, low, high, skipped, profile, seen>>

(* Python's equality, by which a set tells values apart: 1 == 1.0 == True.  *)
Key(v) == IF v.type \in {"int", "bool", "float"} THEN <<"number", v.n>>
          ELSE <<v.type, v.n>>

Keys == {Key(v) : v \in Values}

Init ==
    /\ stage = "scanning"
    /\ total = [f \in Fields |-> 0]
    /\ distinct = [f \in Fields |-> {}]
    /\ capped = [f \in Fields |-> FALSE]
    /\ low = [f \in Fields |-> None]
    /\ high = [f \in Fields |-> None]
    /\ skipped = 0
    /\ profile = <<>>
    /\ seen = [f \in Fields |-> {}]

-----------------------------------------------------------------------------
(* Mutant: the set is never capped. *)
TrackDistinctUncapped(f, v) ==
    /\ distinct' = [distinct EXCEPT ![f] = @ \cup {Key(v)}]
    /\ UNCHANGED capped

(* Mutant: the set is capped when it is full, not when it overflows. *)
TrackDistinctEarly(f, v) ==
    IF capped[f]
    THEN UNCHANGED <<distinct, capped>>
    ELSE /\ distinct' = [distinct EXCEPT ![f] = @ \cup {Key(v)}]
         /\ capped' = [capped EXCEPT ![f] = Cardinality(distinct'[f]) >= DistinctCap]

(* _track_distinct: nothing is added any more once the cap is exceeded. *)
TrackDistinct(f, v) ==
    IF capped[f]
    THEN UNCHANGED <<distinct, capped>>
    ELSE /\ distinct' = [distinct EXCEPT ![f] = @ \cup {Key(v)}]
         /\ capped' = [capped EXCEPT ![f] = Cardinality(distinct'[f]) > DistinctCap]

(* Mutant: a value that moves one bound is not compared with the other. *)
TrackRangeElse(f, v) ==
    IF v.type # "int"
    THEN UNCHANGED <<low, high>>
    ELSE IF low[f] = None \/ v.n < low[f]
         THEN low' = [low EXCEPT ![f] = v.n] /\ UNCHANGED high
         ELSE /\ high' = [high EXCEPT ![f] = IF @ = None \/ v.n > @ THEN v.n ELSE @]
              /\ UNCHANGED low

(* _track_range: integers only, and a bool is none. *)
TrackRange(f, v) ==
    IF v.type # "int"
    THEN UNCHANGED <<low, high>>
    ELSE /\ low' = [low EXCEPT ![f] = IF @ = None \/ v.n < @ THEN v.n ELSE @]
         /\ high' = [high EXCEPT ![f] = IF @ = None \/ v.n > @ THEN v.n ELSE @]

(* A scalar of a document reaches the accumulator of its field. *)
Observe(f, v) ==
    /\ stage = "scanning"
    /\ total[f] < MaxValues
    /\ total' = [total EXCEPT ![f] = @ + 1]
    /\ TrackDistinct(f, v)
    /\ TrackRange(f, v)
    /\ seen' = [seen EXCEPT ![f] = @ \cup {v}]
    /\ UNCHANGED <<stage, skipped, profile>>

(* A line that is not JSON, or not an object.  A blank line changes nothing. *)
Skip ==
    /\ stage = "scanning"
    /\ skipped < MaxSkipped
    /\ skipped' = skipped + 1
    /\ UNCHANGED <<stage, total, distinct, capped, low, high, profile, seen>>

(* to_profile, for every field that has an accumulator. *)
Profile ==
    /\ stage = "scanning"
    /\ stage' = "profiled"
    /\ profile' = [f \in {g \in Fields : total[g] > 0} |->
                      [total |-> total[f], distinct |-> Cardinality(distinct[f]),
                       min |-> low[f], max |-> high[f], capped |-> capped[f]]]
    /\ UNCHANGED <<total, distinct, capped, low, high, skipped, seen>>

(* The conversion goes on with the profile. *)
Profiled == stage = "profiled" /\ UNCHANGED vars

Next ==
    \/ \E f \in Fields, v \in Values : Observe(f, v)
    \/ Skip
    \/ Profile
    \/ Profiled

Spec == Init /\ [][Next]_vars

(* _narrow_integer: the type of an integer field whose mapping says base. *)
NarrowInteger(base, f) ==
    IF f \notin DOMAIN profile \/ profile[f].min = None \/ profile[f].max = None
    THEN base
    ELSE NarrowestInt(profile[f].min, profile[f].max)

(* Mutant: half of the values distinct is few enough. *)
UseLowCardinalityHalf(confirmed, f) ==
    \/ confirmed
    \/ /\ f \in DOMAIN profile
       /\ ~profile[f].capped
       /\ profile[f].distinct <= LowCardMax
       /\ 2 * profile[f].distinct <= profile[f].total

(* use_low_cardinality: confirmed in config, or on the evidence of the sample. *)
UseLowCardinality(confirmed, f) ==
    \/ confirmed
    \/ /\ f \in DOMAIN profile
       /\ ~profile[f].capped
       /\ profile[f].distinct <= LowCardMax
       /\ 2 * profile[f].distinct < profile[f].total

-----------------------------------------------------------------------------
Counts == 0 .. MaxValues
Bounds == {v.n : v \in Values} \cup {None}
FieldProfiles ==
    [total : Counts, distinct : 0 .. DistinctCap + 1, min : Bounds, max : Bounds,
     capped : BOOLEAN]

(* The distinct set is at most one over its cap. *)
TypeOK ==
    /\ stage \in {"scanning", "profiled"}
    /\ total \in [Fields -> Counts]
    /\ distinct \in [Fields -> SUBSET Keys]
    /\ \A f \in Fields : Cardinality(distinct[f]) \in 0 .. DistinctCap + 1
    /\ capped \in [Fields -> BOOLEAN]
    /\ low \in [Fields -> Bounds]
    /\ high \in [Fields -> Bounds]
    /\ skipped \in 0 .. MaxSkipped
    /\ DOMAIN profile \subseteq Fields
    /\ \A f \in DOMAIN profile : profile[f] \in FieldProfiles
    /\ seen \in [Fields -> SUBSET Values]

Ints(f) == {v.n : v \in {x \in seen[f] : x.type = "int"}}
KeysSeen(f) == {Key(v) : v \in seen[f]}

RangeTight(f) ==
    IF Ints(f) = {} THEN low[f] = None /\ high[f] = None
    ELSE /\ low[f] \in Ints(f) /\ high[f] \in Ints(f)
         /\ \A n \in Ints(f) : low[f] <= n /\ n <= high[f]

(* The range of a field is that of its integers in any order of the         *)
(* documents: both ends were seen, and no integer lies outside.  A field    *)
(* without integers has none.                                               *)
RangeIsTight == \A f \in Fields : RangeTight(f)

(* The distinct values are exact until the cap is exceeded, and the flag is *)
(* up exactly when there were more: no count the optimizer relies on is the *)
(* count of an incomplete set.                                              *)
DistinctIsExact ==
    \A f \in Fields :
        /\ ~capped[f] => distinct[f] = KeysSeen(f)
        /\ capped[f] <=> Cardinality(KeysSeen(f)) > DistinctCap

Fits(t, n) == Holds(t, n, n)

(* A narrowed column holds every integer of the sample, unless no type of   *)
(* ClickHouse holds them all.                                               *)
NarrowedHoldsInts ==
    stage = "profiled" =>
        \A f \in Fields : \A base \in IntTypes :
            (\E t \in IntTypes : \A n \in Ints(f) : Fits(t, n)) /\ Ints(f) # {}
                => \A n \in Ints(f) : Fits(NarrowInteger(base, f), n)

(* No narrower type would have held them. *)
NarrowedIsNarrowest ==
    stage = "profiled" =>
        \A f \in Fields : \A base, t \in IntTypes :
            Ints(f) # {} /\ (\A n \in Ints(f) : Fits(t, n))
                => NarrowInteger(base, f).width <= t.width

(* The decision is the one the whole sample justifies, however much of it   *)
(* the capped set forgot: few distinct values, and fewer than half as many  *)
(* as there are values.                                                     *)
LowCardinalityIsEarned ==
    stage = "profiled" =>
        \A f \in Fields :
            UseLowCardinality(FALSE, f) <=>
                /\ Cardinality(KeysSeen(f)) <= LowCardMax
                /\ 2 * Cardinality(KeysSeen(f)) < total[f]

=============================================================================
