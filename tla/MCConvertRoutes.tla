--------------------------- MODULE MCConvertRoutes ---------------------------
(***************************************************************************)
(* Requests for TLC: a good one, and others that differ from it in one     *)
(* value or in two, of each kind JSON has.                                 *)
(***************************************************************************)
EXTENDS ConvertRoutes

Absent == [kind |-> "absent", of |-> "nothing"]
Good ==
    [name |-> "logs", wellFormed |-> TRUE, where |-> "bare",
     body |-> [kind |-> "object", of |-> "text"], properties |-> "object", type |-> "text",
     order_by |-> Absent, map_fields |-> Absent, type_overrides |-> Absent,
     date_precision |-> Absent, indexes |-> [kind |-> "absent", of |-> "nothing"],
     unknownKey |-> FALSE]

(* The values worth telling apart. *)
Values ==
    [kind : {"null", "number", "digits", "text"}, of : {"nothing"}]
        \cup [kind : {"list", "object"}, of : {"nothing", "text", "number"}]

Mappings ==
    {[Good EXCEPT !.where = w] : w \in {"mappings", "by index"}}
        \cup {[Good EXCEPT !.where = "mappings", !.body = v, !.properties = "absent"] : v \in Values}
        \cup {[Good EXCEPT !.properties = "text"], [Good EXCEPT !.type = "list"]}

Configs ==
    {[Good EXCEPT !.order_by = v] : v \in Values}
        \cup {[Good EXCEPT !.map_fields = v] : v \in Values}
        \cup {[Good EXCEPT !.type_overrides = v] : v \in Values}
        \cup {[Good EXCEPT !.date_precision = v] : v \in Values}
        \cup {[Good EXCEPT !.indexes = [kind |-> "list", of |-> s]] : s \in IndexSpecs}
        \cup {[Good EXCEPT !.indexes.kind = "number"], [Good EXCEPT !.unknownKey = TRUE]}

(* An override of numbers does no harm where there is no field. *)
Pairs ==
    {[Good EXCEPT !.properties = "text", !.type_overrides = [kind |-> "object", of |-> "number"]],
     [Good EXCEPT !.type = "list", !.date_precision.kind = "text"],
     [Good EXCEPT !.type = "list", !.type_overrides = [kind |-> "object", of |-> "number"]],
     [Good EXCEPT !.order_by.kind = "null", !.unknownKey = TRUE],
     [Good EXCEPT !.name = "metrics", !.wellFormed = FALSE]}

MCRequests == {Good, [Good EXCEPT !.name = "metrics"]} \cup Mappings \cup Configs \cup Pairs
===============================================================================
