----------------------------- MODULE Conversion -----------------------------
(***************************************************************************)
(* conversion/_service.py and ddl/_builder.py: how the service turns a     *)
(* mapping and a config into the columns and the sort key of a ClickHouse  *)
(* table, one stage of convert_index and generate_ddl per action.  Types,  *)
(* codecs, defaults and the text of the statement are left out: here a     *)
(* column is what it stores.                                               *)
(***************************************************************************)
EXTENDS ObjectRouting

CONSTANTS
    Mappings,   \* the mappings requests may hold
    Configs     \* the configs requests may hold

ASSUME MappingsAssumption == \A m \in Mappings : WellFormed(m)

ASSUME ConfigsAssumption ==
    \A c \in Configs :
        /\ \A s \in Strategies : c[s] \in Seq(FieldPaths)
        /\ c.materialized \in Seq(Seq(STRING))

VARIABLES
    stage,      \* how far the conversion at hand has come
    mapping,    \* the mapping of the request
    model,      \* parse_mapping's MappingModel
    config,     \* load_index_config's IndexConfig
    routes,     \* the object routes, hoisted
    orderBy,    \* the column names of the sort key
    columns,    \* every column built, in order
    kept,       \* the positions of the columns the table keeps
    warnings    \* what the artifacts warn of

vars == <<stage, mapping, model, config, routes, orderBy, columns, kept, warnings>>

Stages == {"idle", "parsed", "routed", "built", "done"}
ColumnKinds == {"scalar", "json", "map", "nested", "array", "materialized"}
NoConfig == [json |-> <<>>, map |-> <<>>, nested |-> <<>>, flatten |-> <<>>,
             order_by |-> <<>>, timestamp |-> <<>>, materialized |-> <<>>]

Init ==
    /\ stage = "idle"
    /\ mapping = <<>>
    /\ model = ParseMapping(<<>>)
    /\ config = NoConfig
    /\ routes = <<>>
    /\ orderBy = <<>>
    /\ columns = <<>>
    /\ kept = {}
    /\ warnings = {}

-----------------------------------------------------------------------------
(* to_column_name joins the keys of a path with "_", as keys may hold "_"   *)
(* themselves: a key is a sequence of words, and so is a column name.       *)
ToColumnName(path) == FlattenSeq(path)

(* A column at path, and the leaves below path it has room for. *)
Column(kind, path, leaves) ==
    [kind |-> kind, name |-> ToColumnName(path), path |-> path, leaves |-> leaves]

(* build_typed_columns *)
TypedColumns(fields) ==
    [i \in DOMAIN fields |-> Column("scalar", fields[i].path, {fields[i].path})]

(* _build_json_column: hints for the leaves of a plain object, none for an  *)
(* array; either way the column takes whatever is below its key.            *)
JsonColumn(r) == Column("json", r.path, IF r.source = "object" THEN Paths(r.leaves) ELSE {})

MapColumn(r) == Column("map", r.path, {})

(* _build_nested_route, for a route with leaves. *)
NestedColumn(r) == Column("nested", r.path, Paths(r.leaves))

(* _build_array_flatten_columns: one parallel array per leaf. *)
ArrayColumns(r) ==
    [i \in DOMAIN r.leaves |-> Column("array", r.leaves[i].path, {r.leaves[i].path})]

MaterializedColumns(c) ==
    [i \in DOMAIN c.materialized |->
        [kind |-> "materialized", name |-> c.materialized[i],
         path |-> <<c.materialized[i]>>, leaves |-> {}]]

(* build_route_columns: a nested route without leaves gets no column. *)
RouteColumns(rs) ==
    LET Of(strategy) == Only(rs, {r \in ToSet(rs) : r.strategy = strategy})
        jsons == Of("json")
        maps == Of("map")
        groups == Only(Of("nested"), {r \in ToSet(rs) : r.leaves # <<>>})
        arrays == Only(Of("flatten"), {r \in ToSet(rs) : r.source = "array"})
    IN  [i \in DOMAIN jsons |-> JsonColumn(jsons[i])]
            \o [i \in DOMAIN maps |-> MapColumn(maps[i])]
            \o [i \in DOMAIN groups |-> NestedColumn(groups[i])]
            \o FlattenSeq([i \in DOMAIN arrays |-> ArrayColumns(arrays[i])])

(* The routes without leaves that build_route_columns skips with a warning. *)
EmptyRouteWarnings(rs) ==
    {Warning("empty", r.path) :
        r \in {x \in ToSet(rs) : /\ x.leaves = <<>>
                                 /\ \/ x.strategy = "nested"
                                    \/ x.strategy = "flatten" /\ x.detected # "none"}}

(* _first_date_field *)
FirstDateField(fields) == Only(fields, {f \in ToSet(fields) : f.kind = "date"})

(* Mutant: the default sort key is looked for among all fields, those an    *)
(* object column claims included.                                           *)
ResolveOrderByAnyField(fields, c) ==
    LET dates == FirstDateField(model.fields)
    IN  IF c.order_by # <<>>
        THEN [i \in DOMAIN c.order_by |-> ToColumnName(c.order_by[i])]
        ELSE IF c.timestamp # <<>> THEN <<ToColumnName(c.timestamp)>>
        ELSE IF dates # <<>> THEN <<ToColumnName(dates[1].path)>> ELSE <<>>

(* _resolve_order_by: config.order_by, else the timestamp field, else the   *)
(* first date among the typed fields.                                       *)
ResolveOrderBy(fields, c) ==
    LET dates == FirstDateField(fields)
    IN  IF c.order_by # <<>>
        THEN [i \in DOMAIN c.order_by |-> ToColumnName(c.order_by[i])]
        ELSE IF c.timestamp # <<>> THEN <<ToColumnName(c.timestamp)>>
        ELSE IF dates # <<>> THEN <<ToColumnName(dates[1].path)>> ELSE <<>>

(* _drop_colliding_columns: the first column of each name is kept. *)
KeptColumns(cs) == {i \in DOMAIN cs : \A j \in 1 .. i - 1 : cs[j].name # cs[i].name}
CollisionWarnings(cs) ==
    {Warning("collision", cs[i].name) : i \in DOMAIN cs \ KeptColumns(cs)}

(* Mutant: a Nested column passes for a sort key. *)
OrderByWarningsNotNested(names, table) ==
    {Warning("order_missing", n) : n \in names \ {c.name : c \in table}}
        \cup {Warning("order_unsortable", c.name) :
                c \in {x \in table : x.name \in names /\ x.kind \in {"json", "map"}}}

(* _validate_order_by, against the columns the table keeps. *)
OrderByWarnings(names, table) ==
    {Warning("order_missing", n) : n \in names \ {c.name : c \in table}}
        \cup {Warning("order_unsortable", c.name) :
                c \in {x \in table : x.name \in names /\ x.kind \in {"json", "map", "nested"}}}

-----------------------------------------------------------------------------
(* convert_index parses the mapping first ... *)
Parse ==
    /\ stage = "idle"
    /\ \E m \in Mappings :
         /\ mapping' = m
         /\ model' = ParseMapping(m)
    /\ stage' = "parsed"
    /\ UNCHANGED <<config, routes, orderBy, columns, kept, warnings>>

(* ... and loads the config; generate_ddl resolves the object routes. *)
Route ==
    /\ stage = "parsed"
    /\ \E c \in Configs :
         /\ config' = c
         /\ routes' = ResolveObjectRoutes(model, c)
         /\ warnings' = RoutingWarnings(model, c)
    /\ stage' = "routed"
    /\ UNCHANGED <<mapping, model, orderBy, columns, kept>>

(* generate_ddl builds the sort key and the columns ... *)
Build ==
    /\ stage = "routed"
    /\ LET fields == TypedFields(model, routes)
       IN  /\ orderBy' = ResolveOrderBy(fields, config)
           /\ columns' = TypedColumns(fields) \o RouteColumns(routes)
                             \o MaterializedColumns(config)
    /\ warnings' = warnings \cup EmptyRouteWarnings(routes)
    /\ stage' = "built"
    /\ UNCHANGED <<mapping, model, config, routes, kept>>

(* ... drops the columns that collide, and checks the sort key. *)
Assemble ==
    /\ stage = "built"
    /\ kept' = KeptColumns(columns)
    /\ warnings' = warnings \cup CollisionWarnings(columns)
                       \cup OrderByWarnings(ToSet(orderBy), {columns[i] : i \in kept'})
    /\ stage' = "done"
    /\ UNCHANGED <<mapping, model, config, routes, orderBy, columns>>

(* The artifacts are returned and nothing of the request stays. *)
Return ==
    /\ stage = "done"
    /\ stage' = "idle"
    /\ mapping' = <<>>
    /\ model' = ParseMapping(<<>>)
    /\ config' = NoConfig
    /\ routes' = <<>>
    /\ orderBy' = <<>>
    /\ columns' = <<>>
    /\ kept' = {}
    /\ warnings' = {}

Next == Parse \/ Route \/ Build \/ Assemble \/ Return

Spec == Init /\ [][Next]_vars

-----------------------------------------------------------------------------
TypeOK ==
    /\ stage \in Stages
    /\ mapping \in Mappings \cup {<<>>}
    /\ config \in Configs \cup {NoConfig}
    /\ \A r \in ToSet(routes) : r.strategy \in Strategies /\ r.source \in {"object", "array"}
    /\ \A c \in ToSet(columns) : c.kind \in ColumnKinds
    /\ kept \subseteq DOMAIN columns

Table == {columns[i] : i \in kept}

Containers == {c \in Table : c.kind \in {"json", "map", "nested"}}

(* The column takes the data of the leaf at path: a JSON or Map column      *)
(* whatever is below its key, any other the leaves it was built for.        *)
Captures(c, path) ==
    \/ c.kind \in {"json", "map"} /\ IsPrefix(c.path, path)
    \/ path \in c.leaves

(* The column was built, and is in the table or was dropped with a warning. *)
Accounted(c) == c \in Table \/ Warning("collision", c.name) \in warnings

Overridden == {w.subject : w \in {x \in warnings : x.kind = "catch_all"}}

(* An object column owns its whole top-level key: it is named after one,    *)
(* and no other column lies below it, unless config flattens a root there.  *)
(* ClickHouse fills one column per top-level key of an inserted document,   *)
(* so a column below it would stay empty.                                   *)
ContainersOwnTheirKey ==
    stage = "done" =>
        \A c \in Containers :
            /\ Len(c.path) = 1
            /\ \A d \in Table : IsPrefix(c.path, d.path) /\ d # c =>
                  \/ d.kind = "materialized"
                  \/ \E p \in ToSet(config.flatten) : IsPrefix(p, d.path)

(* Every leaf that holds data is taken by a column, or the column that      *)
(* would take it is reported as dropped, or an override of the JSON root    *)
(* above it is reported, or its top-level key is reported as having nothing *)
(* a Nested column could hold.                                              *)
NothingLostSilently ==
    stage = "done" =>
        \A path \in StoredLeaves(mapping) :
            \/ \E c \in ToSet(columns) : Captures(c, path) /\ Accounted(c)
            \/ \E p \in Overridden : IsPrefix(p, path)
            \/ Warning("empty", TopLevelKey(path)) \in warnings

(* Without pins the mapping decides: a JSON root with no nested group above *)
(* it makes its top-level key a JSON column, and a nested group makes its   *)
(* key a Nested column, if it has a leaf to hold, or is named by a warning. *)
(* One case is left out, which NestedStaysNested is about: a nested field   *)
(* at the top of a document with an open object inside.                     *)
Built(key, kind) == \E c \in ToSet(columns) : c.path = key /\ c.kind = kind

NestedOrReported(g) ==
    \/ Built(TopLevelKey(g.path), "nested")
    \/ Warning("empty", TopLevelKey(g.path)) \in warnings
    \/ Warning("folded", g.path) \in warnings

MappingDecides ==
    stage = "done" /\ PinnedPaths(config) = <<>> =>
        /\ \A r \in ToSet(model.json_roots) :
              \/ Built(TopLevelKey(r.path), "json")
              \/ \E g \in ToSet(model.nested_groups) : Under(g.path, r.path)
        /\ \A g \in ToSet(model.nested_groups) :
              \/ NestedOrReported(g)
              \/ /\ Len(g.path) = 1
                 /\ \E r \in ToSet(model.json_roots) : Under(g.path, r.path)

(* A JSON, Map or Nested pin below a top-level key decides the column of    *)
(* that key, or a warning names the pin.                                    *)
PinHonoured(s, p) ==
    \/ \E r \in ToSet(routes) : r.path = TopLevelKey(p) /\ r.strategy = s
    \/ \E w \in warnings : w.subject = p
    \/ PinnedStrategy(config, p) # s
PinsBelowTopHonoured ==
    stage = "done" =>
        \A s \in {"json", "map", "nested"} : \A p \in ToSet(config[s]) :
            Len(p) > 1 => PinHonoured(s, p)

(* A sort key that nobody configured is the date field it was taken from,   *)
(* as a column of its own, unless a collision is reported on its name.      *)
DefaultSortKeyIsDate ==
    stage = "done" /\ config.order_by = <<>> /\ config.timestamp = <<>> =>
        \A name \in ToSet(orderBy) :
            \/ \E c \in Table : \E n \in ToSet(mapping) :
                  c.kind = "scalar" /\ c.name = name /\ c.path = n.path /\ n.kind = "date"
            \/ Warning("collision", name) \in warnings

(* A sort key is a column ClickHouse can sort by, or a warning says it is   *)
(* not: one routed into an object column or dropped on a collision too.     *)
SortKeysChecked ==
    stage = "done" =>
        \A name \in ToSet(orderBy) :
            \/ \E c \in Table : c.name = name /\ c \notin Containers
            \/ \E w \in warnings :
                  w.kind \in {"order_missing", "order_unsortable"} /\ w.subject = name

-----------------------------------------------------------------------------
(* What the sources say and some input refutes *)

(* _routing.py: no root is ever emitted as two columns. *)
NoRootTwice ==
    stage = "done" =>
        \A c \in Containers : \A d \in Table :
            IsPrefix(c.path, d.path) /\ d # c => d.kind = "materialized"

(* configuration.md: a nested field that nobody configures becomes a Nested *)
(* column.  Here one with a leaf to hold does, or something is said.        *)
NestedStaysNested ==
    stage = "done" /\ PinnedPaths(config) = <<>> =>
        \A g \in ToSet(model.nested_groups) : g.fields # <<>> => NestedOrReported(g)
=============================================================================
