--------------------------- MODULE NarrowIntProofs ---------------------------
(***************************************************************************)
(* narrowest_int picks right, for any four widths that each at least       *)
(* double: those of ClickHouse too, which TLC's integers cannot hold.      *)
(***************************************************************************)
EXTENDS NarrowInt, TLAPS

(* The first of some widths is the least of them. *)
LEMMA FirstIsLeast ==
  ASSUME NEW ws \in SUBSET Widths,
         ws # {}
  PROVE  First(ws) \in ws /\ \A v \in ws : First(ws) <= v
<1>1. PICK x \in ws : TRUE
  OBVIOUS
<1>2. x \in {1, 2, 3, 4} /\ \A v \in ws : v \in {1, 2, 3, 4}
  BY DEF Widths
<1>3. \E w \in ws : \A v \in ws : w <= v
  <2>1. CASE 1 \in ws
    BY <2>1, <1>2
  <2>2. CASE 1 \notin ws /\ 2 \in ws
    <3>1. \A v \in ws : 2 <= v
      BY <2>2, <1>2
    <3> QED  BY <2>2, <3>1
  <2>3. CASE 1 \notin ws /\ 2 \notin ws /\ 3 \in ws
    <3>1. \A v \in ws : 3 <= v
      BY <2>3, <1>2
    <3> QED  BY <2>3, <3>1
  <2>4. CASE 1 \notin ws /\ 2 \notin ws /\ 3 \notin ws
    <3>1. \A v \in ws : 4 <= v
      BY <2>4, <1>2
    <3>2. x = 4
      BY <2>4, <1>2
    <3> QED  BY <3>1, <3>2
  <2> QED  BY <2>1, <2>2, <2>3, <2>4
<1> QED  BY <1>3 DEF First

(* The type narrowest_int picks holds the range, and is as narrow as any    *)
(* type that does: its docstring, wherever a type holds the range at all.   *)
THEOREM NarrowestIntIsRight ==
  ASSUME NEW lo \in Int, NEW hi \in Int, lo <= hi,
         NEW t \in IntTypes, Holds(t, lo, hi)
  PROVE  /\ NarrowestInt(lo, hi) \in IntTypes
         /\ Holds(NarrowestInt(lo, hi), lo, hi)
         /\ NarrowestInt(lo, hi).width <= t.width
<1> DEFINE U == Fitting(FALSE, lo, hi)
           S == Fitting(TRUE, lo, hi)
<1>1. U \in SUBSET Widths /\ S \in SUBSET Widths
  BY DEF Fitting
<1>2. t.width \in Widths /\ t.signed \in BOOLEAN /\ t = [signed |-> t.signed, width |-> t.width]
  BY DEF IntTypes
<1>3. t.width \in Fitting(t.signed, lo, hi)
  BY <1>2 DEF Fitting
<1>4. CASE U # {}
  <2>1. First(U) \in U /\ \A v \in U : First(U) <= v
    BY <1>1, <1>4, FirstIsLeast
  <2>2. NarrowestInt(lo, hi) = [signed |-> FALSE, width |-> First(U)]
    BY <1>4 DEF NarrowestInt
  <2>a. First(U) \in Widths /\ Holds([signed |-> FALSE, width |-> First(U)], lo, hi)
    BY <2>1, <1>1 DEF Fitting
  <2>b. NarrowestInt(lo, hi) \in IntTypes /\ Holds(NarrowestInt(lo, hi), lo, hi)
    <3>1. [signed |-> FALSE, width |-> First(U)] \in IntTypes
      BY <2>a DEF IntTypes
    <3> QED  BY ONLY <2>2, <2>a, <3>1, Zenon
  <2>c. NarrowestInt(lo, hi).width = First(U)
    BY <2>2
  <2>3. CASE t.signed = FALSE
    BY <1>3, <2>1, <2>b, <2>c, <2>3
  <2>4. CASE t.signed = TRUE
    (* A signed type that holds the range is no narrower than the unsigned  *)
    (* one of its width, which holds it too: nothing is negative here.      *)
    <3>1. 0 <= lo
      BY <2>a DEF Holds, Lower
    <3>2. Half[t.width] \in Nat
      BY <1>2, HalfAssumption
    <3>3. hi <= Half[t.width] - 1
      BY <2>4 DEF Holds, Upper
    <3>4. Holds([signed |-> FALSE, width |-> t.width], lo, hi)
      BY <3>1, <3>2, <3>3 DEF Holds, Lower, Upper
    <3>5. t.width \in U
      BY <3>4, <1>2 DEF Fitting
    <3> QED  BY <2>1, <2>b, <2>c, <3>5
  <2> QED  BY <1>2, <2>3, <2>4
<1>5. CASE U = {}
  <2>1. t.signed = TRUE
    BY <1>2, <1>3, <1>5
  <2>2. S # {} /\ t.width \in S
    BY <2>1, <1>3
  <2>3. First(S) \in S /\ \A v \in S : First(S) <= v
    BY <1>1, <2>2, FirstIsLeast
  <2>4. NarrowestInt(lo, hi) = [signed |-> TRUE, width |-> First(S)]
    BY <1>5, <2>2 DEF NarrowestInt
  <2>5. First(S) \in Widths /\ Holds([signed |-> TRUE, width |-> First(S)], lo, hi)
    BY <2>3, <1>1 DEF Fitting
  <2>6. NarrowestInt(lo, hi) \in IntTypes /\ Holds(NarrowestInt(lo, hi), lo, hi)
    <3>1. [signed |-> TRUE, width |-> First(S)] \in IntTypes
      BY <2>5 DEF IntTypes
    <3> QED  BY ONLY <2>4, <2>5, <3>1, Zenon
  <2>7. NarrowestInt(lo, hi).width = First(S)
    BY <2>4
  <2> QED  BY <2>2, <2>3, <2>6, <2>7
<1> QED  BY <1>4, <1>5

(* Whatever the bounds, even a pair of them that is no range, what          *)
(* narrowest_int picks is an integer type...                                *)
LEMMA NarrowestIntType ==
  ASSUME NEW lo \in Int, NEW hi \in Int
  PROVE  NarrowestInt(lo, hi) \in IntTypes
<1> DEFINE U == Fitting(FALSE, lo, hi)
           S == Fitting(TRUE, lo, hi)
<1>1. U \in SUBSET Widths /\ S \in SUBSET Widths
  BY DEF Fitting
<1>2. CASE U # {}
  <2>1. First(U) \in Widths
    BY <1>1, <1>2, FirstIsLeast
  <2>2. NarrowestInt(lo, hi) = [signed |-> FALSE, width |-> First(U)]
    BY <1>2 DEF NarrowestInt
  <2>3. [signed |-> FALSE, width |-> First(U)] \in IntTypes
    BY <2>1 DEF IntTypes
  <2> QED  BY ONLY <2>2, <2>3, Zenon
<1>3. CASE U = {} /\ S # {}
  <2>1. First(S) \in Widths
    BY <1>1, <1>3, FirstIsLeast
  <2>2. NarrowestInt(lo, hi) = [signed |-> TRUE, width |-> First(S)]
    BY <1>3 DEF NarrowestInt
  <2>3. [signed |-> TRUE, width |-> First(S)] \in IntTypes
    BY <2>1 DEF IntTypes
  <2> QED  BY ONLY <2>2, <2>3, Zenon
<1>4. CASE U = {} /\ S = {}
  <2>1. NarrowestInt(lo, hi) = [signed |-> TRUE, width |-> 4]
    BY <1>4 DEF NarrowestInt
  <2>2. [signed |-> TRUE, width |-> 4] \in IntTypes
    BY DEF IntTypes, Widths
  <2> QED  BY ONLY <2>1, <2>2, Zenon
<1> QED  BY <1>2, <1>3, <1>4

(* ... and one that holds them, if any does. *)
LEMMA NarrowestIntHolds ==
  ASSUME NEW lo \in Int, NEW hi \in Int,
         NEW t \in IntTypes, Holds(t, lo, hi)
  PROVE  Holds(NarrowestInt(lo, hi), lo, hi)
<1> DEFINE U == Fitting(FALSE, lo, hi)
           S == Fitting(TRUE, lo, hi)
<1>1. U \in SUBSET Widths /\ S \in SUBSET Widths
  BY DEF Fitting
<1>2. t.width \in Widths /\ t.signed \in BOOLEAN /\ t = [signed |-> t.signed, width |-> t.width]
  BY DEF IntTypes
<1>3. U # {} \/ S # {}
  <2>1. CASE t.signed = FALSE
    BY <1>2, <2>1 DEF Fitting
  <2>2. CASE t.signed = TRUE
    BY <1>2, <2>2 DEF Fitting
  <2> QED  BY <1>2, <2>1, <2>2
<1>4. CASE U # {}
  <2>1. First(U) \in U
    BY <1>1, <1>4, FirstIsLeast
  <2>2. NarrowestInt(lo, hi) = [signed |-> FALSE, width |-> First(U)]
    BY <1>4 DEF NarrowestInt
  <2> QED  BY <2>1, <2>2 DEF Fitting
<1>5. CASE U = {}
  <2>1. First(S) \in S
    BY <1>1, <1>3, <1>5, FirstIsLeast
  <2>2. NarrowestInt(lo, hi) = [signed |-> TRUE, width |-> First(S)]
    BY <1>3, <1>5 DEF NarrowestInt
  <2> QED  BY <2>1, <2>2 DEF Fitting
<1> QED  BY <1>4, <1>5
=============================================================================
