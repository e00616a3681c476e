---------------------------- MODULE MCColumnTypes ----------------------------
(***************************************************************************)
(* Fields, configs and samples for TLC: one field of each kind of type,    *)
(* with each kind of null_value, and configs that say up to two things     *)
(* about it.  The widths of integers are as in MCSampling.                 *)
(***************************************************************************)
EXTENDS ColumnTypes

MCHalf == <<2, 4, 8, 16>>

Plain(type) ==
    [type |-> type, metrics |-> FALSE, null |-> None, epoch |-> FALSE, indexed |-> TRUE,
     subfield |-> FALSE, denied |-> FALSE, identifier |-> TRUE]

PlainFields ==
    {Plain(t) : t \in {"long", "boolean", "double", "date", "ip", "geo_point", "dense_vector",
                       "flattened", "keyword", "text", "unheard_of", "aggregate_metric_double"}}
        \cup {[Plain("aggregate_metric_double") EXCEPT !.metrics = TRUE],
              [Plain("date") EXCEPT !.epoch = TRUE]}
        \cup {[Plain(t) EXCEPT !.identifier = FALSE] : t \in {"text", "long"}}

NullFields ==
    {[Plain(t) EXCEPT !.null = v] :
        t \in {"long", "keyword"},
        v \in [kind : {"number"}, n : {-1, 3}] \cup [kind : {"composite"}, n : {0}]}
        \cup {[Plain("unsigned_long") EXCEPT !.null = [kind |-> "number", n |-> 20]]}

TextFields ==
    {[Plain(t) EXCEPT !.indexed = i, !.subfield = s, !.denied = d] :
        t \in {"keyword", "text"}, i, s, d \in BOOLEAN}

MCFields == PlainFields \cup NullFields \cup TextFields

Silent ==
    [override |-> None, codec |-> None, counter |-> FALSE, sortKey |-> FALSE,
     notNull |-> FALSE, lowCard |-> FALSE, indexes |-> {}]

(* One more thing said about the field. *)
AndAlso(c) ==
    {c} \cup {[c EXCEPT !.codec = "given"], [c EXCEPT !.counter = TRUE],
              [c EXCEPT !.sortKey = TRUE], [c EXCEPT !.notNull = TRUE],
              [c EXCEPT !.lowCard = TRUE]}
        \cup {[c EXCEPT !.override = t] :
                 t \in {UInt8To64[1], Named("String"), Named("DateTime"), Named("Nullable"),
                        Named("LowCardinality"), Named("JSON(...)")}}
        \cup {[c EXCEPT !.indexes = @ \cup {i}] : i \in SkipIndexes}

MCConfigs == UNION {AndAlso(c) : c \in AndAlso(Silent)}

MCSamples ==
    {None} \cup [min : {None}, max : {None}, few : BOOLEAN]
        \cup {[min |-> r[1], max |-> r[2], few |-> FALSE] :
                 r \in {<<0, 3>>, <<0, 4>>, <<-1, 4>>, <<-9, 0>>, <<-17, 0>>, <<32, 32>>}}
        \cup {[min |-> 0, max |-> 1, few |-> TRUE]}
===============================================================================
