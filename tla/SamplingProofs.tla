--------------------------- MODULE SamplingProofs ---------------------------
(***************************************************************************)
(* Safety of Sampling, proved for any fields, any values, any cap on the   *)
(* distinct ones and any four widths that each at least double: those of   *)
(* ClickHouse too, which TLC's integers cannot hold.                       *)
(***************************************************************************)
EXTENDS Sampling, NarrowIntProofs, FiniteSetTheorems, TLAPS

-----------------------------------------------------------------------------
(* The inductive invariant *)

(* A scan has finitely many values, and a field without an accumulator has  *)
(* none.                                                                    *)
SeenOK(f) ==
    /\ IsFiniteSet(KeysSeen(f))
    /\ total[f] = 0 => seen[f] = {}

(* The set is complete until it is capped, and then keeps the size at which *)
(* the cap was found exceeded: DistinctIsExact only speaks of the flag.     *)
DistinctOK(f) ==
    /\ distinct[f] \subseteq KeysSeen(f)
    /\ ~capped[f] => /\ distinct[f] = KeysSeen(f)
                     /\ Cardinality(distinct[f]) <= DistinctCap
    /\ capped[f] => Cardinality(distinct[f]) = DistinctCap + 1

(* The profile is that of the accumulators as they are. *)
ProfileOK ==
    stage = "profiled" =>
        profile = [f \in {g \in Fields : total[g] > 0} |->
                      [total |-> total[f], distinct |-> Cardinality(distinct[f]),
                       min |-> low[f], max |-> high[f], capped |-> capped[f]]]

Inductive ==
    /\ TypeOK
    /\ RangeIsTight
    /\ \A f \in Fields : SeenOK(f) /\ DistinctOK(f)
    /\ ProfileOK

LEMMA InitInductive == Init => Inductive
<1> SUFFICES ASSUME Init PROVE Inductive
  OBVIOUS
<1> USE DEF Init
<1>1. Cardinality({}) = 0 /\ IsFiniteSet({})
  BY FS_EmptySet
<1>2. TypeOK
  <2>1. DistinctCap \in Nat /\ MaxValues \in Nat /\ MaxSkipped \in Nat
    BY BoundsAssumption
  <2>2. total \in [Fields -> Counts] /\ skipped \in 0 .. MaxSkipped
    BY <2>1 DEF Counts
  <2>3. low \in [Fields -> Bounds] /\ high \in [Fields -> Bounds]
    BY DEF Bounds
  <2>4. \A f \in Fields : Cardinality(distinct[f]) \in 0 .. DistinctCap + 1
    BY <1>1, <2>1
  <2>5. DOMAIN profile = {}
    OBVIOUS
  <2> QED  BY <2>2, <2>3, <2>4, <2>5 DEF TypeOK
<1>3. \A f \in Fields : Ints(f) = {} /\ KeysSeen(f) = {}
  BY DEF Ints, KeysSeen
<1>4. RangeIsTight
  BY <1>3 DEF RangeIsTight, RangeTight
<1>5. ASSUME NEW f \in Fields PROVE SeenOK(f) /\ DistinctOK(f)
  <2>1. KeysSeen(f) = {} /\ seen[f] = {} /\ distinct[f] = {} /\ capped[f] = FALSE
    BY <1>3
  <2>2. SeenOK(f)
    BY <2>1, <1>1 DEF SeenOK
  <2>3. 0 <= DistinctCap
    BY BoundsAssumption
  <2> QED  BY <2>1, <2>2, <2>3, <1>1 DEF DistinctOK
<1>6. ProfileOK
  BY DEF ProfileOK
<1> QED  BY <1>2, <1>4, <1>5, <1>6 DEF Inductive

(* What a scalar does to the field it belongs to, and to the others. *)
LEMMA ObserveDistinct ==
  ASSUME Inductive, NEW f \in Fields, NEW v \in Values, Observe(f, v),
         NEW g \in Fields
  PROVE  /\ distinct'[g] \in SUBSET Keys
         /\ capped'[g] \in BOOLEAN
         /\ SeenOK(g)' /\ DistinctOK(g)'
<1>1. /\ distinct \in [Fields -> SUBSET Keys] /\ capped \in [Fields -> BOOLEAN]
      /\ seen \in [Fields -> SUBSET Values] /\ total \in [Fields -> Counts]
  BY DEF Inductive, TypeOK
<1>2. seen' = [seen EXCEPT ![f] = @ \cup {v}] /\ total' = [total EXCEPT ![f] = @ + 1]
  BY DEF Observe
<1>3. SeenOK(g) /\ DistinctOK(g)
  BY DEF Inductive
<1>4. CASE g # f
  <2>1. seen'[g] = seen[g] /\ total'[g] = total[g]
    BY <1>1, <1>2, <1>4
  <2>2. distinct'[g] = distinct[g] /\ capped'[g] = capped[g]
    BY <1>1, <1>4 DEF Observe, TrackDistinct
  <2>3. KeysSeen(g)' = KeysSeen(g)
    BY <2>1 DEF KeysSeen
  <2>4. SeenOK(g)'
    BY <2>1, <2>3, <1>3 DEF SeenOK
  <2>5. DistinctOK(g)'
    BY <2>2, <2>3, <1>3 DEF DistinctOK
  <2> QED  BY <1>1, <2>2, <2>4, <2>5
<1>5. CASE g = f
  <2>1. seen'[g] = seen[g] \cup {v} /\ total'[g] = total[g] + 1
    BY <1>1, <1>2, <1>5
  <2>2. KeysSeen(g)' = KeysSeen(g) \cup {Key(v)}
    BY <2>1 DEF KeysSeen
  <2>3. IsFiniteSet(KeysSeen(g)) /\ IsFiniteSet(KeysSeen(g)')
    BY <1>3, <2>2, FS_AddElement DEF SeenOK
  <2>4. total'[g] # 0
    BY <1>1, <2>1 DEF Counts
  <2>5. SeenOK(g)'
    BY <2>3, <2>4 DEF SeenOK
  <2>6. Key(v) \in Keys
    BY DEF Keys
  <2>7. CASE capped[g] = TRUE
    <3>1. distinct'[g] = distinct[g] /\ capped'[g] = capped[g]
      BY <1>5, <2>7 DEF Observe, TrackDistinct
    <3>2. DistinctOK(g)'
      BY <3>1, <2>2, <2>7, <1>3 DEF DistinctOK
    <3> QED  BY <3>1, <3>2, <2>5, <1>1
  <2>8. CASE capped[g] = FALSE
    <3>1. distinct' = [distinct EXCEPT ![g] = @ \cup {Key(v)}]
          /\ capped' = [capped EXCEPT ![g] = Cardinality(distinct'[g]) > DistinctCap]
      BY <1>5, <2>8 DEF Observe, TrackDistinct
    <3>2. /\ distinct'[g] = distinct[g] \cup {Key(v)}
          /\ capped'[g] = (Cardinality(distinct'[g]) > DistinctCap)
      BY <1>1, <3>1
    <3>3. distinct[g] = KeysSeen(g) /\ Cardinality(distinct[g]) <= DistinctCap
      BY <1>3, <2>8 DEF DistinctOK
    <3>4. distinct'[g] = KeysSeen(g)'
      BY <3>2, <3>3, <2>2
    (* The set grows by one at most: it cannot jump past one above the cap. *)
    <3>5. Cardinality(distinct'[g]) \in Nat /\ Cardinality(distinct'[g]) <= DistinctCap + 1
      <4>1. IsFiniteSet(distinct[g])
        BY <2>3, <3>3
      <4>2. Cardinality(distinct[g]) \in Nat
        BY <4>1, FS_CardinalityType
      <4>3. \/ Cardinality(distinct'[g]) = Cardinality(distinct[g])
            \/ Cardinality(distinct'[g]) = Cardinality(distinct[g]) + 1
        BY <4>1, <3>2, FS_AddElement
      <4> QED  BY <4>2, <4>3, <3>3, BoundsAssumption
    <3>6. DistinctOK(g)'
      <4>1. CASE Cardinality(distinct'[g]) > DistinctCap
        <5>1. capped'[g]
          BY <3>2, <4>1
        <5>2. Cardinality(distinct'[g]) = DistinctCap + 1
          BY <4>1, <3>5, BoundsAssumption
        <5> QED  BY <5>1, <5>2, <3>4 DEF DistinctOK
      <4>2. CASE ~(Cardinality(distinct'[g]) > DistinctCap)
        <5>1. ~capped'[g]
          BY <3>2, <4>2
        <5>2. Cardinality(distinct'[g]) <= DistinctCap
          BY <4>2, <3>5, BoundsAssumption
        <5> QED  BY <5>1, <5>2, <3>4 DEF DistinctOK
      <4> QED  BY <4>1, <4>2
    <3>7. distinct'[g] \in SUBSET Keys /\ capped'[g] \in BOOLEAN
      BY <1>1, <3>2, <2>6
    <3> QED  BY <3>6, <3>7, <2>5
  <2> QED  BY <1>1, <2>7, <2>8
<1> QED  BY <1>4, <1>5

LEMMA ObserveRange ==
  ASSUME Inductive, NEW f \in Fields, NEW v \in Values, Observe(f, v),
         NEW g \in Fields
  PROVE  /\ low'[g] \in Bounds /\ high'[g] \in Bounds
         /\ RangeTight(g)'
<1>1. /\ low \in [Fields -> Bounds] /\ high \in [Fields -> Bounds]
      /\ seen \in [Fields -> SUBSET Values]
  BY DEF Inductive, TypeOK
<1>2. seen' = [seen EXCEPT ![f] = @ \cup {v}] /\ TrackRange(f, v)
  BY DEF Observe
<1>3. RangeTight(g)
  BY DEF Inductive, RangeIsTight
<1>4. CASE g # f
  <2>1. seen'[g] = seen[g] /\ low'[g] = low[g] /\ high'[g] = high[g]
    BY <1>1, <1>2, <1>4 DEF TrackRange
  <2>2. Ints(g)' = Ints(g)
    BY <2>1 DEF Ints
  <2> QED  BY <1>1, <1>3, <2>1, <2>2 DEF RangeTight
<1>5. CASE g = f
  <2>1. seen'[g] = seen[g] \cup {v}
    BY <1>1, <1>2, <1>5
  <2>2. CASE v.type # "int"
    <3>1. Ints(g)' = Ints(g)
      BY <2>1, <2>2 DEF Ints
    <3>2. low'[g] = low[g] /\ high'[g] = high[g]
      BY <1>2, <2>2 DEF TrackRange
    <3> QED  BY <1>1, <1>3, <3>1, <3>2 DEF RangeTight
  <2>3. CASE v.type = "int"
    <3>1. Ints(g)' = Ints(g) \cup {v.n}
      BY <2>1, <2>3 DEF Ints
    <3>2. /\ low'[g] = IF low[g] = None \/ v.n < low[g] THEN v.n ELSE low[g]
          /\ high'[g] = IF high[g] = None \/ v.n > high[g] THEN v.n ELSE high[g]
      BY <1>1, <1>2, <1>5, <2>3 DEF TrackRange
    <3>3. v.n \in Int /\ v.n \in Bounds
      BY ValuesAssumption DEF Bounds
    <3>4. Ints(g) \subseteq Int
      BY <1>1, ValuesAssumption DEF Ints
    <3>5. CASE Ints(g) = {}
      <4>1. low'[g] = v.n /\ high'[g] = v.n
        BY <1>3, <3>2, <3>5 DEF RangeTight
      <4> QED  BY <4>1, <3>1, <3>3, <3>5 DEF RangeTight
    <3>6. CASE Ints(g) # {}
      <4>1. /\ low[g] \in Ints(g) /\ high[g] \in Ints(g)
            /\ \A n \in Ints(g) : low[g] <= n /\ n <= high[g]
        BY <1>3, <3>6 DEF RangeTight
      <4>2. low[g] \in Int /\ high[g] \in Int /\ low[g] # None /\ high[g] # None
        BY <4>1, <3>4, NoneAssumption
      <4>3. /\ low'[g] = IF v.n < low[g] THEN v.n ELSE low[g]
            /\ high'[g] = IF v.n > high[g] THEN v.n ELSE high[g]
        BY <3>2, <4>2
      <4>4. low'[g] \in Ints(g)' /\ high'[g] \in Ints(g)'
        BY <4>1, <4>3, <3>1
      <4>5. /\ low'[g] <= v.n /\ low'[g] <= low[g]
            /\ v.n <= high'[g] /\ high[g] <= high'[g]
        BY <4>2, <4>3, <3>3
      <4>6. low'[g] \in Int /\ high'[g] \in Int
        BY <4>2, <4>3, <3>3
      <4>7. ASSUME NEW n \in Ints(g) PROVE low'[g] <= n /\ n <= high'[g]
        <5>1. n \in Int /\ low[g] <= n /\ n <= high[g]
          BY <3>4, <4>1
        <5> QED  BY <5>1, <4>2, <4>5, <4>6
      <4>8. RangeTight(g)'
        BY <3>1, <4>4, <4>5, <4>7 DEF RangeTight
      <4> QED  BY <4>3, <4>8, <1>1, <3>3
    <3> QED  BY <3>5, <3>6
  <2> QED  BY <2>2, <2>3
<1> QED  BY <1>4, <1>5

LEMMA ObserveInductive ==
  ASSUME Inductive, NEW f \in Fields, NEW v \in Values, Observe(f, v)
  PROVE  Inductive'
<1>1. /\ total \in [Fields -> Counts] /\ seen \in [Fields -> SUBSET Values]
      /\ distinct \in [Fields -> SUBSET Keys] /\ capped \in [Fields -> BOOLEAN]
      /\ low \in [Fields -> Bounds] /\ high \in [Fields -> Bounds]
  BY DEF Inductive, TypeOK
<1>2. \A g \in Fields : /\ distinct'[g] \in SUBSET Keys /\ capped'[g] \in BOOLEAN
                        /\ SeenOK(g)' /\ DistinctOK(g)'
  BY ObserveDistinct
<1>3. \A g \in Fields : low'[g] \in Bounds /\ high'[g] \in Bounds /\ RangeTight(g)'
  BY ObserveRange
<1>4. TypeOK'
  <2>1. total' \in [Fields -> Counts]
    <3>1. total[f] \in Counts /\ total[f] < MaxValues /\ MaxValues \in Nat
      BY <1>1, BoundsAssumption DEF Observe
    <3>2. total[f] + 1 \in Counts
      BY <3>1 DEF Counts
    <3> QED  BY <3>2, <1>1 DEF Observe
  <2>2. seen' \in [Fields -> SUBSET Values]
    BY <1>1 DEF Observe
  <2>3. DOMAIN distinct' = Fields /\ distinct' = [g \in Fields |-> distinct'[g]]
    BY <1>1 DEF Observe, TrackDistinct
  <2>4. DOMAIN capped' = Fields /\ capped' = [g \in Fields |-> capped'[g]]
    BY <1>1 DEF Observe, TrackDistinct
  <2>5. low' = [g \in Fields |-> low'[g]] /\ high' = [g \in Fields |-> high'[g]]
    BY <1>1 DEF Observe, TrackRange
  <2>6. distinct' \in [Fields -> SUBSET Keys] /\ capped' \in [Fields -> BOOLEAN]
    BY <1>2, <2>3, <2>4
  <2>7. low' \in [Fields -> Bounds] /\ high' \in [Fields -> Bounds]
    BY <1>3, <2>5
  <2>8. ASSUME NEW g \in Fields PROVE Cardinality(distinct'[g]) \in 0 .. DistinctCap + 1
    <3>1. SeenOK(g)' /\ DistinctOK(g)'
      BY <1>2
    <3>2. IsFiniteSet(distinct'[g])
      BY <3>1, FS_Subset DEF SeenOK, DistinctOK
    <3>3. Cardinality(distinct'[g]) \in Nat
      BY <3>2, FS_CardinalityType
    <3> QED  BY <3>1, <3>3, BoundsAssumption DEF DistinctOK
  <2>9. /\ stage' \in {"scanning", "profiled"} /\ skipped' \in 0 .. MaxSkipped
        /\ DOMAIN profile' \subseteq Fields
        /\ \A g \in DOMAIN profile' : profile'[g] \in FieldProfiles
    BY DEF Observe, Inductive, TypeOK
  <2>10. FieldProfiles' = FieldProfiles /\ Keys' = Keys /\ Bounds' = Bounds /\ Counts' = Counts
    BY DEF FieldProfiles, Keys, Bounds, Counts
  <2> QED  BY <2>1, <2>2, <2>6, <2>7, <2>8, <2>9, <2>10 DEF TypeOK
<1>5. ProfileOK'
  BY DEF Observe, ProfileOK
<1> QED  BY <1>2, <1>3, <1>4, <1>5 DEF Inductive, RangeIsTight

LEMMA ProfileInductive ==
  ASSUME Inductive, Profile
  PROVE  Inductive'
<1>1. TypeOK
  BY DEF Inductive
<1>2. ProfileOK'
  BY DEF Profile, ProfileOK
<1>3. ASSUME NEW g \in Fields
      PROVE  [total |-> total[g], distinct |-> Cardinality(distinct[g]),
              min |-> low[g], max |-> high[g], capped |-> capped[g]] \in FieldProfiles
  BY <1>1 DEF TypeOK, FieldProfiles
<1>4. /\ DOMAIN profile' \subseteq Fields
      /\ \A g \in DOMAIN profile' : profile'[g] \in FieldProfiles
  BY <1>3 DEF Profile
<1>5. TypeOK'
  BY <1>1, <1>4 DEF Profile, TypeOK, FieldProfiles
<1>6. RangeIsTight' /\ \A f \in Fields : SeenOK(f)' /\ DistinctOK(f)'
  BY DEF Inductive, Profile, RangeIsTight, RangeTight, Ints, SeenOK, DistinctOK, KeysSeen
<1> QED  BY <1>2, <1>5, <1>6 DEF Inductive

(* Every step keeps the invariant. *)
LEMMA StepInductive == Inductive /\ [Next]_vars => Inductive'
<1> SUFFICES ASSUME Inductive, [Next]_vars PROVE Inductive'
  OBVIOUS
<1>1. CASE \E f \in Fields, v \in Values : Observe(f, v)
  BY <1>1, ObserveInductive
<1>2. CASE Profile
  BY <1>2, ProfileInductive
<1>3. CASE Skip
  <2>1. skipped' \in 0 .. MaxSkipped
    BY <1>3, BoundsAssumption DEF Skip, Inductive, TypeOK
  <2>2. TypeOK'
    BY <1>3, <2>1 DEF Skip, Inductive, TypeOK
  <2>3. RangeIsTight' /\ ProfileOK' /\ \A f \in Fields : SeenOK(f)' /\ DistinctOK(f)'
    BY <1>3 DEF Skip, Inductive, RangeIsTight, RangeTight, Ints, SeenOK, DistinctOK,
                KeysSeen, ProfileOK
  <2> QED  BY <2>2, <2>3 DEF Inductive
<1>4. CASE UNCHANGED vars
  <2>1. TypeOK'
    BY <1>4 DEF vars, Inductive, TypeOK
  <2>2. RangeIsTight' /\ ProfileOK' /\ \A f \in Fields : SeenOK(f)' /\ DistinctOK(f)'
    BY <1>4 DEF vars, Inductive, RangeIsTight, RangeTight, Ints, SeenOK, DistinctOK,
                KeysSeen, ProfileOK
  <2> QED  BY <2>1, <2>2 DEF Inductive
<1> QED  BY <1>1, <1>2, <1>3, <1>4 DEF Next, Profiled

THEOREM InductiveAlways == Spec => []Inductive
<1> QED  BY InitInductive, StepInductive, PTL DEF Spec

-----------------------------------------------------------------------------
(* What follows from it *)

(* TypeOK holds: the distinct set of a field never exceeds its cap by more  *)
(* than one, however long the sample is.                                    *)
THEOREM TypeCorrect == Spec => []TypeOK
<1>1. Inductive => TypeOK
  BY DEF Inductive
<1> QED  BY <1>1, InductiveAlways, PTL

(* The range of a field is that of its integers, in whatever order and      *)
(* between whatever other values they came.                                 *)
THEOREM RangesAreTight == Spec => []RangeIsTight
<1>1. Inductive => RangeIsTight
  BY DEF Inductive
<1> QED  BY <1>1, InductiveAlways, PTL

(* The distinct set is complete until it is capped, and it is capped        *)
(* exactly when the field has more values than the cap.                     *)
THEOREM DistinctSetsAreExact == Spec => []DistinctIsExact
<1>1. ASSUME Inductive PROVE DistinctIsExact
  <2> SUFFICES ASSUME NEW f \in Fields
               PROVE  /\ ~capped[f] => distinct[f] = KeysSeen(f)
                      /\ capped[f] <=> Cardinality(KeysSeen(f)) > DistinctCap
    BY DEF DistinctIsExact
  <2>1. SeenOK(f) /\ DistinctOK(f)
    BY <1>1 DEF Inductive
  <2>2. Cardinality(KeysSeen(f)) \in Nat
    BY <2>1, FS_CardinalityType DEF SeenOK
  <2>3. CASE ~capped[f]
    <3>1. distinct[f] = KeysSeen(f) /\ Cardinality(KeysSeen(f)) <= DistinctCap
      BY <2>1, <2>3 DEF DistinctOK
    <3>2. ~(Cardinality(KeysSeen(f)) > DistinctCap)
      BY <3>1, <2>2, BoundsAssumption
    <3> QED  BY <2>3, <3>1, <3>2
  <2>4. CASE capped[f]
    <3>1. Cardinality(distinct[f]) = DistinctCap + 1
      BY <2>1, <2>4 DEF DistinctOK
    <3>2. Cardinality(distinct[f]) <= Cardinality(KeysSeen(f))
      BY <2>1, FS_Subset DEF SeenOK, DistinctOK
    <3>3. Cardinality(KeysSeen(f)) > DistinctCap
      BY <3>1, <3>2, <2>2, BoundsAssumption
    <3> QED  BY <2>4, <3>3
  <2> QED  BY <2>3, <2>4
<1> QED  BY <1>1, InductiveAlways, PTL

(* LowCardinality is granted exactly when the whole sample justifies it.    *)
THEOREM LowCardinalityIsJustified == Spec => []LowCardinalityIsEarned
<1>1. ASSUME Inductive PROVE LowCardinalityIsEarned
  <2> SUFFICES ASSUME stage = "profiled", NEW f \in Fields
               PROVE  UseLowCardinality(FALSE, f) <=>
                          /\ Cardinality(KeysSeen(f)) <= LowCardMax
                          /\ 2 * Cardinality(KeysSeen(f)) < total[f]
    BY DEF LowCardinalityIsEarned
  <2>1. SeenOK(f) /\ DistinctOK(f)
    BY <1>1 DEF Inductive
  <2>2. total[f] \in Nat /\ Cardinality(KeysSeen(f)) \in Nat
    BY <1>1, <2>1, FS_CardinalityType, BoundsAssumption DEF Inductive, TypeOK, Counts, SeenOK
  <2>3. CASE total[f] = 0
    <3>1. f \notin DOMAIN profile
      BY <1>1, <2>3 DEF Inductive, ProfileOK
    <3> QED  BY <2>2, <2>3, <3>1 DEF UseLowCardinality
  <2>4. CASE total[f] # 0
    <3>1. f \in {g \in Fields : total[g] > 0}
      BY <2>2, <2>4
    <3>2. /\ f \in DOMAIN profile
          /\ profile[f].total = total[f] /\ profile[f].capped = capped[f]
          /\ profile[f].distinct = Cardinality(distinct[f])
      BY <1>1, <3>1 DEF Inductive, ProfileOK
    <3>3. CASE ~capped[f]
      <4>1. distinct[f] = KeysSeen(f)
        BY <2>1, <3>3 DEF DistinctOK
      <4> QED  BY <3>2, <3>3, <4>1 DEF UseLowCardinality
    <3>4. CASE capped[f]
      <4>1. Cardinality(distinct[f]) = DistinctCap + 1
        BY <2>1, <3>4 DEF DistinctOK
      <4>2. Cardinality(distinct[f]) <= Cardinality(KeysSeen(f))
        BY <2>1, FS_Subset DEF SeenOK, DistinctOK
      <4>3. ~(Cardinality(KeysSeen(f)) <= LowCardMax)
        BY <4>1, <4>2, <2>2, BoundsAssumption
      <4> QED  BY <3>2, <3>4, <4>3 DEF UseLowCardinality
    <3> QED  BY <3>3, <3>4
  <2> QED  BY <2>3, <2>4
<1> QED  BY <1>1, InductiveAlways, PTL

(* What narrowing does to a field with integers some type holds. *)
LEMMA NarrowedField ==
  ASSUME Inductive, stage = "profiled",
         NEW f \in Fields, NEW base \in IntTypes, NEW t \in IntTypes,
         Ints(f) # {}, \A n \in Ints(f) : Fits(t, n)
  PROVE  /\ \A n \in Ints(f) : Fits(NarrowInteger(base, f), n)
         /\ NarrowInteger(base, f).width <= t.width
<1>1. /\ low[f] \in Ints(f) /\ high[f] \in Ints(f)
      /\ \A n \in Ints(f) : low[f] <= n /\ n <= high[f]
  BY DEF Inductive, RangeIsTight, RangeTight
<1>2. Ints(f) \subseteq Int
  BY ValuesAssumption DEF Inductive, TypeOK, Ints
<1>3. low[f] \in Int /\ high[f] \in Int /\ low[f] <= high[f]
  BY <1>1, <1>2
<1>4. NarrowInteger(base, f) = NarrowestInt(low[f], high[f])
  <2>1. seen[f] # {}
    BY DEF Ints
  <2>2. total[f] \in Nat /\ total[f] # 0
    BY <2>1, BoundsAssumption DEF Inductive, SeenOK, TypeOK, Counts
  <2>3. f \in {g \in Fields : total[g] > 0}
    BY <2>2
  <2>4. f \in DOMAIN profile /\ profile[f].min = low[f] /\ profile[f].max = high[f]
    BY <2>3 DEF Inductive, ProfileOK
  <2> QED  BY <2>4, <1>3, NoneAssumption DEF NarrowInteger
<1>5. Holds(t, low[f], high[f])
  BY <1>1 DEF Fits, Holds
<1> DEFINE m == NarrowestInt(low[f], high[f])
<1>6. m \in IntTypes /\ Holds(m, low[f], high[f]) /\ m.width <= t.width
  BY <1>3, <1>5, NarrowestIntIsRight
<1>7. Lower(m) \in Int /\ Upper(m) \in Int
  <2>1. Half[m.width] \in Int
    BY <1>6, HalfAssumption DEF IntTypes
  <2> HIDE DEF m
  <2> QED  BY <2>1 DEF Lower, Upper
<1> HIDE DEF m
<1>8. ASSUME NEW n \in Ints(f) PROVE Fits(m, n)
  <2>1. n \in Int /\ low[f] <= n /\ n <= high[f]
    BY <1>1, <1>2
  <2> QED  BY <2>1, <1>3, <1>6, <1>7 DEF Fits, Holds
<1> QED  BY <1>4, <1>6, <1>8 DEF m

(* A narrowed column holds every integer of the sample, when any of         *)
(* ClickHouse's integer types does.                                         *)
THEOREM NarrowedColumnsHoldInts == Spec => []NarrowedHoldsInts
<1>1. Inductive => NarrowedHoldsInts
  BY NarrowedField DEF NarrowedHoldsInts
<1> QED  BY <1>1, InductiveAlways, PTL

(* No narrower type would have held them. *)
THEOREM NarrowedColumnsAreNarrowest == Spec => []NarrowedIsNarrowest
<1>1. Inductive => NarrowedIsNarrowest
  BY NarrowedField DEF NarrowedIsNarrowest
<1> QED  BY <1>1, InductiveAlways, PTL
=============================================================================
