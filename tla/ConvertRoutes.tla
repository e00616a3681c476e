---------------------------- MODULE ConvertRoutes ----------------------------
(***************************************************************************)
(* _routes.py and _schemas.py with the loading they expose to a caller's   *)
(* JSON, load_index_config of ddl/_config.py and _locate_mappings of       *)
(* mapping/_parser.py: which requests of /convert and /convert/bulk are    *)
(* converted, which exception the others raise, and what becomes of it.    *)
(*                                                                         *)
(* A JSON value is its kind, and for a list or an object what it holds.    *)
(* Texts that are not numbers are not two characters long: dict() takes    *)
(* those for pairs.                                                        *)
(***************************************************************************)
EXTENDS Naturals, Sequences

CONSTANTS
    Requests,   \* the items a batch may have
    MaxBatch    \* bound: the length of a batch

Raised == {"ValueError", "KeyError", "TypeError", "AttributeError"}
Outcomes == Raised \cup {"fine"}

JsonKinds == {"absent", "null", "number", "digits", "text", "list", "object"}
Json == [kind : JsonKinds, of : {"nothing", "text", "number"}]
IndexSpecs == {"nothing", "complete", "incomplete", "granular", "number", "unnamed"}
RequestsShape ==
    [name : STRING, wellFormed : BOOLEAN,
     where : {"mappings", "bare", "by index"}, body : Json,
     properties : {"absent", "object", "text"}, type : {"text", "list"},
     order_by : Json, map_fields : Json, type_overrides : Json, date_precision : Json,
     indexes : [kind : {"absent", "number", "list"}, of : IndexSpecs], unknownKey : BOOLEAN]

ASSUME RequestsAssumption ==
    \A r \in Requests :
        /\ r \in RequestsShape
        /\ r.where = "bare" \/ r.properties # "absent" => r.body.kind = "object"
ASSUME MaxBatchAssumption == MaxBatch \in Nat \ {0}

Routes == {"convert", "bulk"}

VARIABLES
    route,      \* the route the request at hand is for
    batch,      \* its ConvertRequests, one for /convert
    turn,       \* the turn of convert_bulk's loop
    results,    \* the ConvertResponses so far
    response    \* the status it is answered with, 0 before

vars == <<route, batch, turn, results, response>>

Batches == UNION {[1 .. n -> Requests] : n \in 0 .. MaxBatch}

Init ==
    /\ route \in Routes
    /\ batch \in Batches
    /\ route = "convert" => Len(batch) = 1
    /\ turn = 1
    /\ results = <<>>
    /\ response = 0

-----------------------------------------------------------------------------
(* tuple(value), as Python has it: a text is taken apart, an object gives   *)
(* its keys.                                                                *)
TupleOf(v) == IF v.kind \in {"null", "number"} THEN "TypeError" ELSE "fine"

(* dict(value): a list must hold pairs. *)
DictOf(v) ==
    CASE v.kind \in {"absent", "object"} -> "fine"
      [] v.kind = "list" /\ v.of = "nothing" -> "fine"
      [] v.kind \in {"null", "number"} \/ (v.kind = "list" /\ v.of = "number") -> "TypeError"
      [] OTHER -> "ValueError"

(* int(value) *)
IntOf(v) ==
    CASE v.kind \in {"absent", "number", "digits"} -> "fine"
      [] v.kind = "text" -> "ValueError"
      [] OTHER -> "TypeError"

(* _load_index: keys that are missing, a granularity that is no number, a   *)
(* spec in which no key can be looked for.                                  *)
LoadIndex(spec) ==
    CASE spec = "number" -> "TypeError"
      [] spec \in {"incomplete", "granular"} -> "ValueError"
      [] OTHER -> "fine"

IndexesOf(v) == IF v.kind = "number" THEN "TypeError" ELSE LoadIndex(v.of)

(* The first exception among the outcomes, in the order they are computed. *)
FirstRaised(outcomes) ==
    LET raised == SelectSeq(outcomes, LAMBDA o : o # "fine")
    IN  IF raised = <<>> THEN "fine" ELSE Head(raised)

(* load_index_config *)
LoadIndexConfig(r) ==
    FirstRaised(<<TupleOf(r.order_by), DictOf(r.map_fields), DictOf(r.type_overrides),
                  IntOf(r.date_precision), IndexesOf(r.indexes)>>)

(* _locate_mappings copies the block it finds under "mappings", at the top  *)
(* or under the name of an index.                                           *)
ParseMapping(r) == IF r.where = "bare" THEN "fine" ELSE DictOf(r.body)

Numbers(v) == v.kind = "list" /\ v.of = "number"
NumberValues(v) == v.kind = "object" /\ v.of = "number"
SortKeyGiven(v) == v.kind \in {"digits", "text"} \/ (v.kind \in {"list", "object"} /\ v.of # "nothing")

(* The field of the mapping, of which overrides and map fields speak, gets  *)
(* a column of its own unless it is the root of a map.                      *)
HasColumn(r) ==
    /\ r.properties = "object"
    /\ ~(r.map_fields.kind = "object" /\ r.map_fields.of # "nothing")

Raises(error, condition) == IF condition THEN error ELSE "fine"

(* generate_ddl takes names, types and expressions for texts, and looks a   *)
(* type up in sets, which a list cannot be: for a default sort key, then    *)
(* for the column.  An override is read before that, to see whether it may  *)
(* be Nullable, but for a field the table is sorted by: the one the objects *)
(* of the config have as their key.                                         *)
GenerateDdl(r) ==
    FirstRaised(<<Raises("AttributeError", Numbers(r.order_by)),
                  Raises("TypeError", HasColumn(r) /\ r.type = "list" /\ ~SortKeyGiven(r.order_by)),
                  Raises("AttributeError", HasColumn(r) /\ NumberValues(r.type_overrides)
                                              /\ r.order_by.kind # "object"),
                  Raises("TypeError", HasColumn(r) /\ r.type = "list"),
                  Raises("AttributeError", HasColumn(r) /\ NumberValues(r.type_overrides)),
                  Raises("AttributeError", NumberValues(r.map_fields)),
                  Raises("AttributeError", r.indexes.kind = "list" /\ r.indexes.of = "unnamed")>>)

(* convert_index *)
ConvertIndex(r) == FirstRaised(<<ParseMapping(r), LoadIndexConfig(r), GenerateDdl(r)>>)

(* The warnings of parse_mapping and load_index_config, which open those of *)
(* the artifacts.                                                           *)
ConversionWarnings(r) ==
    {w \in {"properties", "unknown key"} :
        IF w = "properties" THEN r.properties = "text" ELSE r.unknownKey}

ClientErrors == {"ValueError", "KeyError", "TypeError"}

(* ConvertResponse.from_artifacts and from_error *)
FromArtifacts(r) ==
    [table_name |-> r.name, ddl |-> TRUE, warnings |-> ConversionWarnings(r), error |-> "fine"]
FromError(r, error) == [table_name |-> r.name, ddl |-> FALSE, warnings |-> {}, error |-> error]

-----------------------------------------------------------------------------
(* FastAPI validates the whole body before the route is called. *)
Refused ==
    /\ response = 0
    /\ \E i \in DOMAIN batch : ~batch[i].wellFormed
    /\ response' = 422
    /\ UNCHANGED <<route, batch, turn, results>>

Accepted == response = 0 /\ \A i \in DOMAIN batch : batch[i].wellFormed

(* convert: the one request is converted, or an exception becomes a status. *)
Convert ==
    /\ Accepted
    /\ route = "convert"
    /\ LET outcome == ConvertIndex(batch[1])
       IN  /\ response' = IF outcome = "fine" THEN 200
                          ELSE IF outcome \in ClientErrors THEN 400 ELSE 500
           /\ results' = IF outcome = "fine" THEN <<FromArtifacts(batch[1])>> ELSE <<>>
    /\ UNCHANGED <<route, batch, turn>>

Current == batch[turn]
MoreInBulk == Accepted /\ route = "bulk" /\ turn <= Len(batch)

(* convert_bulk, one turn of its loop: a slot with a statement... *)
BulkConverts ==
    /\ MoreInBulk
    /\ ConvertIndex(Current) = "fine"
    /\ results' = Append(results, FromArtifacts(Current))
    /\ turn' = turn + 1
    /\ UNCHANGED <<route, batch, response>>

(* Mutant: the error is logged, and the request gets no slot. *)
BulkFailsSkipping ==
    /\ MoreInBulk
    /\ ConvertIndex(Current) \in ClientErrors
    /\ turn' = turn + 1
    /\ UNCHANGED <<route, batch, results, response>>

(* Mutant: the request gets a slot before it is converted and one after. *)
BulkFailsTwice ==
    /\ MoreInBulk
    /\ ConvertIndex(Current) \in ClientErrors
    /\ results' = results \o <<FromArtifacts(Current), FromError(Current, ConvertIndex(Current))>>
    /\ turn' = turn + 1
    /\ UNCHANGED <<route, batch, response>>

(* ... a slot with an error... *)
BulkFails ==
    /\ MoreInBulk
    /\ ConvertIndex(Current) \in ClientErrors
    /\ results' = Append(results, FromError(Current, ConvertIndex(Current)))
    /\ turn' = turn + 1
    /\ UNCHANGED <<route, batch, response>>

(* ... or an exception nobody catches: FastAPI answers for the route. *)
BulkRaises ==
    /\ MoreInBulk
    /\ ConvertIndex(Current) \notin ClientErrors \cup {"fine"}
    /\ response' = 500
    /\ UNCHANGED <<route, batch, turn, results>>

BulkReturns ==
    /\ Accepted
    /\ route = "bulk" /\ turn > Len(batch)
    /\ response' = 200
    /\ UNCHANGED <<route, batch, turn, results>>

Answered == response # 0 /\ UNCHANGED vars

Next ==
    \/ Refused
    \/ Convert
    \/ BulkConverts
    \/ BulkFails
    \/ BulkRaises
    \/ BulkReturns
    \/ Answered

Spec == Init /\ [][Next]_vars

-----------------------------------------------------------------------------
Responses ==
    [table_name : STRING, ddl : BOOLEAN, warnings : SUBSET {"properties", "unknown key"},
     error : Outcomes]

TypeOK ==
    /\ route \in Routes /\ batch \in Batches
    /\ turn \in 1 .. MaxBatch + 1
    /\ Len(results) <= Len(batch) /\ \A i \in DOMAIN results : results[i] \in Responses
    /\ response \in {0, 200, 400, 422, 500}

(* The slots are positional however many requests of the batch failed and   *)
(* wherever they stand: each is about the request in its place, names it    *)
(* though another may have the same name, and says what /convert would have *)
(* answered to that request alone, with the warnings of no other request.   *)
(* A batch that is answered has them all.                                   *)
SlotsAreOwn ==
    /\ \A i \in DOMAIN results :
        /\ results[i].table_name = batch[i].name
        /\ results[i].ddl <=> ConvertIndex(batch[i]) = "fine"
        /\ results[i].warnings = (IF results[i].ddl THEN ConversionWarnings(batch[i]) ELSE {})
        /\ results[i].error = ConvertIndex(batch[i])
        /\ results[i].error \in ClientErrors \cup {"fine"}
    /\ response = 200 => Len(results) = Len(batch)

-----------------------------------------------------------------------------
(* convert_bulk: a failure in one index never fails the rest of the batch. *)
FailureIsIsolated ==
    (/\ route = "bulk"
     /\ \A i \in DOMAIN batch : batch[i].wellFormed
     /\ \E i \in DOMAIN batch : ConvertIndex(batch[i]) = "fine")
        => response \in {0, 200}
=============================================================================
