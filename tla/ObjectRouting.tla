---------------------------- MODULE ObjectRouting ----------------------------
(***************************************************************************)
(* ddl/_routing.py: every object root gets one routing strategy, and the   *)
(* routes that become one column are hoisted to their top-level key.       *)
(*                                                                         *)
(* A config is a function from each strategy to the sequence of paths that *)
(* json_fields, map_fields, nested_fields or flatten_fields pins to it.    *)
(* Warnings are records of a kind and a path or column name.               *)
(***************************************************************************)
EXTENDS MappingParser

Strategies == {"json", "map", "nested", "flatten"}

Warning(kind, subject) == [kind |-> kind, subject |-> subject]

TopLevelKey(path) == <<Head(path)>>

UnderAny(path, roots) == \E r \in roots : IsPrefix(r, path)

Paths(seq) == {seq[i].path : i \in DOMAIN seq}

(* The first record of each path, in the order of the sequence. *)
FirstByPath(seq) ==
    At(seq, {i \in DOMAIN seq : \A j \in 1 .. i - 1 : seq[j].path # seq[i].path})

(* The paths of the sequence, each once, in the order of the sequence. *)
FirstOfEach(seq) ==
    At(seq, {i \in DOMAIN seq : \A j \in 1 .. i - 1 : seq[j] # seq[i]})

(* Mutant: the strategy of a detected root is taken for its source too. *)
DetectedRoutesNoSource(model) ==
    LET Detected(collections, strategy) ==
            [i \in DOMAIN collections |->
                [path |-> collections[i].path, strategy |-> strategy, source |-> strategy,
                 leaves |-> collections[i].fields]]
    IN  Detected(model.json_roots, "json") \o Detected(model.nested_groups, "nested")

(* _detected_routes: the strategy Elasticsearch dictates for each root. *)
DetectedRoutes(model) ==
    LET Detected(collections, strategy, source) ==
            [i \in DOMAIN collections |->
                [path |-> collections[i].path, strategy |-> strategy, source |-> source,
                 leaves |-> collections[i].fields]]
    IN  Detected(model.json_roots, "json", "object")
            \o Detected(model.nested_groups, "nested", "array")

(* _explicit_strategies: json > map > nested > flatten when a path is       *)
(* pinned more than once.                                                   *)
PinOrder == <<"json", "map", "nested", "flatten">>
PinnedPaths(config) == FlattenSeq([i \in DOMAIN PinOrder |-> config[PinOrder[i]]])
Pinned(config, path) == Contains(PinnedPaths(config), path)
PinnedStrategy(config, path) ==
    PinOrder[CHOOSE i \in DOMAIN PinOrder :
                /\ Contains(config[PinOrder[i]], path)
                /\ \A j \in 1 .. i - 1 : ~Contains(config[PinOrder[j]], path)]

(* _honor_strategy: a Map cannot hold an array of documents. *)
HonorStrategy(strategy, source) ==
    IF strategy = "map" /\ source = "array" THEN "nested" ELSE strategy

PlainLeaves(model, root) == Only(model.fields, {f \in ToSet(model.fields) : Under(root, f.path)})

(* The route of a root before hoisting. *)
RouteOf(model, config, detected, path) ==
    LET found == Only(detected, {d \in ToSet(detected) : d.path = path})
        root == IF found = <<>>
                THEN [source |-> "object", detected |-> "none", wanted |-> "flatten",
                      leaves |-> PlainLeaves(model, path)]
                ELSE [source |-> found[1].source, detected |-> found[1].strategy,
                      wanted |-> found[1].strategy, leaves |-> found[1].leaves]
        pinned == IF Pinned(config, path) THEN PinnedStrategy(config, path) ELSE root.wanted
    IN  [path |-> path,
         strategy |-> HonorStrategy(pinned, root.source),
         leaves |-> root.leaves,
         source |-> root.source,
         detected |-> root.detected]

(* The routes of all roots: the detected ones, then the ones only pinned. *)
RoutesOf(model, config) ==
    LET detected == DetectedRoutes(model)
        paths == FirstOfEach([i \in DOMAIN detected |-> detected[i].path]
                             \o PinnedPaths(config))
    IN  [i \in DOMAIN paths |-> RouteOf(model, config, detected, paths[i])]

(* The array roots pinned to a Map, which _honor_strategy warns about. *)
ArrayMapWarnings(config, routes) ==
    {Warning("array_map", r.path) :
        r \in {x \in ToSet(routes) : /\ x.source = "array"
                                     /\ Pinned(config, x.path)
                                     /\ PinnedStrategy(config, x.path) = "map"}}

(* The dynamic roots an override closes, which it suggests not to do. *)
CatchAllWarnings(routes) ==
    {Warning("catch_all", r.path) :
        r \in {x \in ToSet(routes) : x.detected = "json" /\ x.strategy # "json"}}

(* _STRATEGY_PRECEDENCE *)
Precedence == [json |-> 0, nested |-> 1, map |-> 2]

(* _all_leaves_under: every leaf the model or the members have below the    *)
(* top-level key, the first of each path.                                   *)
AllLeavesUnder(model, top, members) ==
    LET FieldsOf(collections) ==
            FlattenSeq([i \in DOMAIN collections |-> collections[i].fields])
        sources == model.fields \o FieldsOf(model.json_roots)
                   \o FieldsOf(model.nested_groups)
                   \o FlattenSeq([i \in DOMAIN members |-> members[i].leaves])
    IN  FirstByPath(Only(sources, {f \in ToSet(sources) : Under(top, f.path)}))

(* Mutant: the strategy that comes last decides. *)
WinnerLast(members) ==
    CHOOSE s \in {m.strategy : m \in ToSet(members)} :
        \A m \in ToSet(members) : Precedence[m.strategy] <= Precedence[s]

(* _merge_group: the strategy that comes first among those of the members. *)
Winner(members) ==
    CHOOSE s \in {m.strategy : m \in ToSet(members)} :
        \A m \in ToSet(members) : Precedence[s] <= Precedence[m.strategy]

(* _detected_for *)
DetectedFor(top, model) ==
    IF top \in Paths(model.json_roots) THEN "json"
    ELSE IF top \in Paths(model.nested_groups) THEN "nested" ELSE "none"

(* Mutant: a merge that keeps the members' leaves only. *)
MergeGroupOwnLeaves(model, top, members) ==
    [path |-> top,
     strategy |-> Winner(members),
     leaves |-> FirstByPath(FlattenSeq([i \in DOMAIN members |-> members[i].leaves])),
     source |-> IF \E m \in ToSet(members) : m.source = "array" THEN "array" ELSE "object",
     detected |-> DetectedFor(top, model)]

(* _merge_group: the routes below one top-level key become one.  An array   *)
(* among them keeps JSON bare.                                              *)
MergeGroup(model, top, members) ==
    [path |-> top,
     strategy |-> Winner(members),
     leaves |-> AllLeavesUnder(model, top, members),
     source |-> IF \E m \in ToSet(members) : m.source = "array" THEN "array" ELSE "object",
     detected |-> DetectedFor(top, model)]

Hoistable(routes) == Only(routes, {r \in ToSet(routes) : r.strategy # "flatten"})
Flattened(routes) == Only(routes, {r \in ToSet(routes) : r.strategy = "flatten"})
MembersOf(routes, top) ==
    Only(Hoistable(routes), {r \in ToSet(routes) : TopLevelKey(r.path) = top})

(* Mutant: no hoisting, every route stays at its own path. *)
HoistNothing(model, routes) == routes

(* _hoist_to_top_level: flatten routes pass through. *)
HoistToTopLevel(model, routes) ==
    LET objects == Hoistable(routes)
        tops == FirstOfEach([i \in DOMAIN objects |-> TopLevelKey(objects[i].path)])
    IN  [i \in DOMAIN tops |-> MergeGroup(model, tops[i], MembersOf(routes, tops[i]))]
            \o Flattened(routes)

(* Mutant: nothing is said of a route folded into another strategy. *)
FoldedWarningsNone(routes) == {}

(* _warn_folded: nothing is said of a route at the top-level key itself. *)
FoldedWarnings(routes) ==
    {Warning("folded", r.path) :
        r \in {x \in ToSet(Hoistable(routes)) :
                 LET top == TopLevelKey(x.path)
                 IN  x.path # top /\ x.strategy # Winner(MembersOf(routes, top))}}

(* resolve_object_routes *)
ResolveObjectRoutes(model, config) == HoistToTopLevel(model, RoutesOf(model, config))
RoutingWarnings(model, config) ==
    LET routes == RoutesOf(model, config)
    IN  ArrayMapWarnings(config, routes) \cup CatchAllWarnings(routes)
            \cup FoldedWarnings(routes)

(* typed_fields_for_routes: the flat fields no object column claims, and    *)
(* the leaves of the detected objects that config flattens.                 *)
TypedFields(model, routes) ==
    LET claimed == Paths(Hoistable(routes))
        opened == Only(routes, {r \in ToSet(routes) : /\ r.strategy = "flatten"
                                                      /\ r.source = "object"
                                                      /\ r.detected # "none"})
    IN  Only(model.fields, {f \in ToSet(model.fields) : ~UnderAny(f.path, claimed)})
            \o FlattenSeq([i \in DOMAIN opened |-> opened[i].leaves])
=============================================================================
