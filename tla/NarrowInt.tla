------------------------------ MODULE NarrowInt ------------------------------
(***************************************************************************)
(* ddl/_type_map.py: ClickHouse's integer types and narrowest_int, which   *)
(* picks the one a sampled range fits in.  The bounds of the types are     *)
(* parameters: TLC has no 64-bit numbers, and nothing depends on 8, 16, 32 *)
(* and 64 beyond each width being at least twice the one before.           *)
(***************************************************************************)
EXTENDS Integers

Widths == 1 .. 4

CONSTANT Half   \* half the number of values of each width: 2^7, 2^15, 2^31, 2^63

ASSUME HalfAssumption ==
    /\ Half \in [Widths -> Nat \ {0}]
    /\ \A v, w \in Widths : v < w => 2 * Half[v] <= Half[w]

IntTypes == [signed : BOOLEAN, width : Widths]

(* _SIGNED_BOUNDS and _UNSIGNED_BOUNDS *)
Lower(t) == IF t.signed THEN -Half[t.width] ELSE 0
Upper(t) == IF t.signed THEN Half[t.width] - 1 ELSE 2 * Half[t.width] - 1

Holds(t, lo, hi) == Lower(t) <= lo /\ hi <= Upper(t)

(* The widths of the types with this sign that hold the range. *)
Fitting(signed, lo, hi) == {w \in Widths : Holds([signed |-> signed, width |-> w], lo, hi)}

(* The loops go through the bounds from narrow to wide. *)
First(ws) == CHOOSE w \in ws : \A v \in ws : w <= v

(* Mutant: the loops go from wide to narrow. *)
NarrowestIntWide(lo, hi) ==
    LET Last(ws) == CHOOSE w \in ws : \A v \in ws : v <= w
    IN  IF Fitting(FALSE, lo, hi) # {}
        THEN [signed |-> FALSE, width |-> Last(Fitting(FALSE, lo, hi))]
        ELSE IF Fitting(TRUE, lo, hi) # {}
             THEN [signed |-> TRUE, width |-> Last(Fitting(TRUE, lo, hi))]
             ELSE [signed |-> TRUE, width |-> 4]

(* Mutant: the sign of the lower bound is not looked at. *)
NarrowestIntUnsigned(lo, hi) ==
    IF Fitting(FALSE, 0, hi) # {}
    THEN [signed |-> FALSE, width |-> First(Fitting(FALSE, 0, hi))]
    ELSE [signed |-> TRUE, width |-> 4]

(* narrowest_int: an unsigned type when nothing is negative, else a signed  *)
(* one, else Int64, whether it holds the range or not.                      *)
NarrowestInt(lo, hi) ==
    IF Fitting(FALSE, lo, hi) # {}
    THEN [signed |-> FALSE, width |-> First(Fitting(FALSE, lo, hi))]
    ELSE IF Fitting(TRUE, lo, hi) # {}
         THEN [signed |-> TRUE, width |-> First(Fitting(TRUE, lo, hi))]
         ELSE [signed |-> TRUE, width |-> 4]
=============================================================================
