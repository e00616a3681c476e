------------------------------ MODULE MCSampling ------------------------------
(* Values of the constants of Sampling for TLC: four widths like those of    *)
(* ClickHouse, and values at and beyond the bounds of the types they give.   *)
EXTENDS Sampling

MCHalf == <<2, 4, 8, 16>>

MCValues ==
    [type : {"int"}, n : {-17, -9, -3, -2, 0, 1, 3, 4, 32}]
        \cup {[type |-> "bool", n |-> 1], [type |-> "float", n |-> 1],
              [type |-> "text", n |-> 4], [type |-> "null", n |-> 0]}
===============================================================================
