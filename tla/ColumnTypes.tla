----------------------------- MODULE ColumnTypes -----------------------------
(***************************************************************************)
(* ddl/_columns.py, _type_map.py, _codecs.py and what _builder.py and      *)
(* _optimizer.py decide about one field: the type, codec and default its   *)
(* column gets in the place its object route gives it, the skip indexes on *)
(* it, and the advice the statement carries.  The user may take advice and *)
(* convert again.                                                          *)
(*                                                                         *)
(* A type is known by its outermost constructor, and an integer type is    *)
(* the record NarrowInt has for it.                                        *)
(***************************************************************************)
EXTENDS NarrowInt, FiniteSets

CONSTANTS
    None,       \* Python's None
    Fields,     \* the EsFields mappings may declare
    Configs,    \* what configs may say about one field
    Samples     \* what profiles may hold about one field, None for nothing

Int8To64 == [w \in Widths |-> [signed |-> TRUE, width |-> w]]
UInt8To64 == [w \in Widths |-> [signed |-> FALSE, width |-> w]]
Named(constructor) == [name |-> constructor]
Names == {"String", "Float", "IPv6", "DateTime", "Array", "Map", "Tuple", "Nested", "JSON",
          "JSON(...)", "Point", "Nullable", "LowCardinality", "FixedString"}
BaseTypes == IntTypes \cup {Named(n) : n \in Names}

Places == {"flat", "nested", "array", "hint"}
NullKinds == {"number", "text", "composite"}
NullValues == [kind : NullKinds, n : Int]

(* An index is on the field's column name or path as they are spelled, on   *)
(* one of them with blanks or backticks around it, or on an expression.     *)
SkipIndexes == [kind : {"token", "other"}, expr : {"name", "path", "quoted", "expression"}]

(* "identifier": the path, and so the column name, is one ("@x" is none).   *)
EsFields ==
    [type : STRING, metrics : BOOLEAN, null : NullValues \cup {None}, epoch : BOOLEAN,
     indexed : BOOLEAN, subfield : BOOLEAN, denied : BOOLEAN, identifier : BOOLEAN]
FieldConfigs ==
    [override : BaseTypes \cup {None}, codec : {"given", None}, counter : BOOLEAN,
     sortKey : BOOLEAN, notNull : BOOLEAN, lowCard : BOOLEAN, indexes : SUBSET SkipIndexes]
FieldSamples == [min : Int \cup {None}, max : Int \cup {None}, few : BOOLEAN]
ColumnsOfField ==
    [type : [base : BaseTypes, null : BOOLEAN, low : BOOLEAN, array : BOOLEAN],
     codec : {"given", "Delta", "T64", "DoubleDelta", "ZSTD", None},
     default : NullValues \cup {None}]

ASSUME NoneAssumption ==
    None \notin Int \cup BaseTypes \cup NullValues \cup FieldSamples \cup ColumnsOfField
                \cup {"given"}
ASSUME FieldsAssumption == \A f \in Fields : f \in EsFields
ASSUME ConfigsAssumption == Configs \subseteq FieldConfigs
ASSUME SamplesAssumption == \A s \in Samples \ {None} : s \in FieldSamples

VARIABLES
    stage,          \* how far generate_ddl has come
    field,          \* the field of the mapping
    place,          \* where its route puts it
    config,         \* what the config says about it
    sampled,        \* its FieldProfile
    nonNull,        \* its column's name is in _non_null_columns
    column,         \* the column built for it
    targets,        \* what the rendered skip indexes are on
    warnings, suggestions,
    adopted         \* history: what the config has from advice the user took

vars == <<stage, field, place, config, sampled, nonNull, column, targets, warnings,
          suggestions, adopted>>

Init ==
    /\ stage = "routed"
    /\ field \in Fields
    /\ place \in Places
    /\ config \in Configs
    /\ sampled \in Samples
    /\ nonNull = FALSE
    /\ column = None
    /\ targets = {}
    /\ warnings = {}
    /\ suggestions = {}
    /\ adopted = [lowCard |-> FALSE, indexes |-> {}]

-----------------------------------------------------------------------------
StringTypes == {"keyword", "text", "match_only_text", "search_as_you_type", "annotated_text",
                "completion", "semantic_text", "constant_keyword", "wildcard", "binary", "version"}
FloatTypes == {"rank_feature", "double", "float", "half_float", "scaled_float"}
KnownInts == {"byte", "short", "integer", "token_count", "long", "unsigned_long", "boolean"}

(* map_scalar: _SCALAR_TYPES and the dates; an unknown type becomes String. *)
MapScalar(type) ==
    CASE type = "byte" -> Int8To64[1]
      [] type = "short" -> Int8To64[2]
      [] type \in {"integer", "token_count"} -> Int8To64[3]
      [] type = "long" -> Int8To64[4]
      [] type = "unsigned_long" -> UInt8To64[4]
      [] type = "boolean" -> UInt8To64[1]
      [] type \in FloatTypes -> Named("Float")
      [] type \in {"date", "date_nanos"} -> Named("DateTime")
      [] type = "ip" -> Named("IPv6")
      [] type = "geo_point" -> Named("Tuple")
      [] type = "dense_vector" -> Named("Array")
      [] type \in {"rank_features", "sparse_vector", "flattened"} -> Named("Map")
      [] OTHER -> Named("String")

UnknownType(type) ==
    type \notin StringTypes \cup FloatTypes \cup KnownInts
        \cup {"date", "date_nanos", "ip", "geo_point", "dense_vector", "rank_features",
              "sparse_vector", "flattened"}

(* Mutant: tuples are forgotten. *)
SupportsNullableTuple(base) ==
    base \notin {Named(n) : n \in {"JSON", "Point", "Array", "Map", "Nested"}}

(* supports_nullable: JSON and Point are compared with the whole text of a  *)
(* type, so a JSON type with hints is no JSON here; the others by prefix.   *)
SupportsNullable(base) ==
    base \notin {Named(n) : n \in {"JSON", "Point", "Array", "Map", "Tuple", "Nested"}}

IsInteger(base) == base \in IntTypes
IsDatetime(base) == base = Named("DateTime")
IsString(base) == base = Named("String")

(* _narrow_integer *)
NarrowInteger(base) ==
    IF sampled = None \/ ~IsInteger(base) THEN base
    ELSE IF sampled.min = None \/ sampled.max = None THEN base
    ELSE NarrowestInt(sampled.min, sampled.max)

IsAggregate == field.type = "aggregate_metric_double"

(* _resolve_base_type, for a flat column: the override, the tuple of an     *)
(* aggregate's metrics, or what the type maps to, narrowed.                 *)
ResolveBaseType ==
    IF config.override # None THEN config.override
    ELSE IF IsAggregate THEN (IF field.metrics THEN Named("Tuple") ELSE Named("String"))
    ELSE NarrowInteger(MapScalar(field.type))

(* _leaf_base_type, for a leaf of an object column. *)
LeafBaseType == IF config.override # None THEN config.override ELSE MapScalar(field.type)

(* Mutant: a leaf is not narrowed. *)
LeafTypeWide == LeafBaseType

(* Mutant: an override is narrowed like any other type. *)
LeafTypeNarrowed == NarrowInteger(LeafBaseType)

(* _leaf_ch_type *)
LeafType == IF config.override # None THEN LeafBaseType ELSE NarrowInteger(LeafBaseType)

(* use_low_cardinality *)
UseLowCardinality == config.lowCard \/ (IF sampled = None THEN FALSE ELSE sampled.few)

(* _wrap_type; an Array(...) of a flattened array is the only other wrapper. *)
Type(base, null, low, array) == [base |-> base, null |-> null, low |-> low, array |-> array]

(* _is_nullable, for a flat column. *)
IsNullable == ~nonNull /\ field.null = None

(* default_codec: each codec by its first stage. *)
DefaultCodec(base, counter) ==
    IF counter THEN "Delta"
    ELSE IF IsInteger(base) THEN "T64"
    ELSE IF IsDatetime(base) THEN "DoubleDelta" ELSE "ZSTD"

(* Mutant: a counter's codec is not checked against its type. *)
CodecForCounter(base) ==
    IF config.codec # None THEN "given" ELSE DefaultCodec(base, config.counter)

(* _codec_for *)
CodecFor(base) ==
    IF config.codec # None THEN "given"
    ELSE DefaultCodec(base, config.counter /\ (IsInteger(base) \/ IsDatetime(base)))

(* _default_expr: only a scalar makes a literal. *)
DefaultExpr ==
    IF field.null = None THEN None
    ELSE IF field.null.kind = "composite" THEN None ELSE field.null

Column(type, codec, default) == [type |-> type, codec |-> codec, default |-> default]

(* _build_column *)
FlatColumn ==
    LET base == ResolveBaseType
    IN  Column(Type(base, IsNullable /\ SupportsNullable(base),
                    config.override = None /\ IsString(base) /\ UseLowCardinality, FALSE),
               CodecFor(base), DefaultExpr)

(* _build_nested_subcolumn *)
NestedSubColumn ==
    Column(Type(LeafType, field.null = None /\ SupportsNullable(LeafType), FALSE, FALSE),
           None, None)

(* Mutant: a leaf of a type the table lacks gets no column. *)
ArrayColumnKnown ==
    IF UnknownType(field.type) THEN None
    ELSE Column(Type(LeafType, FALSE, FALSE, TRUE), None, None)

(* _build_array_flatten_columns *)
ArrayColumn == Column(Type(LeafType, FALSE, FALSE, TRUE), None, None)

(* _json_path_hint: a hint inside the type of a JSON column. *)
JsonHint == Column(Type(LeafBaseType, FALSE, FALSE, FALSE), None, None)

-----------------------------------------------------------------------------
(* What _resolve_base_type, _codec_for and _default_expr warn of. *)
FlatWarnings ==
    LET mapped == config.override = None /\ ~IsAggregate
        base == ResolveBaseType
    IN  {w \in {"metrics", "unknown", "geo_point", "epoch", "counter", "null_value"} :
            CASE w = "metrics" -> config.override = None /\ IsAggregate /\ ~field.metrics
              [] w = "unknown" -> mapped /\ UnknownType(field.type)
              [] w = "geo_point" -> mapped /\ field.type = "geo_point"
              [] w = "epoch" -> mapped /\ field.epoch
              [] w = "counter" -> /\ config.codec = None
                                  /\ config.counter /\ ~(IsInteger(base) \/ IsDatetime(base))
              [] w = "null_value" -> field.null # None /\ DefaultExpr = None}

LeafWarnings == {w \in {"unknown"} : config.override = None /\ UnknownType(field.type)}

(* Mutant: a sample without negatives is narrowed without a word. *)
NarrowedSilently(base) ==
    {s \in {"narrowed"} : config.override = None /\ NarrowInteger(base) # base /\ sampled.min < 0}

(* What _narrow_integer says. *)
Narrowed(base) == {s \in {"narrowed"} : config.override = None /\ NarrowInteger(base) # base}

KeywordTypes == {"keyword", "constant_keyword", "wildcard"}
AnalyzedTypes == {"text", "match_only_text"}

(* low_cardinality_suggestion *)
LowCardinalitySuggestion ==
    ~UseLowCardinality /\ field.type \in KeywordTypes /\ ~field.denied /\ sampled = None

FullText == field.type \in AnalyzedTypes /\ ~field.subfield

(* index_suggestion: no index has the very text of the column name or path, *)
(* and the field is analyzed text, or is or has a keyword nobody denies.    *)
IndexSuggestion ==
    /\ \A i \in config.indexes : i.expr \notin {"name", "path"}
    /\ field.indexed
    /\ \/ FullText
       \/ field.type \in KeywordTypes \cup AnalyzedTypes /\ ~field.denied

FieldSuggestions ==
    {s \in {"low_cardinality", "index"} :
        IF s = "index" THEN IndexSuggestion ELSE LowCardinalitySuggestion}

-----------------------------------------------------------------------------
(* _bare_column_name finds the column: what is left of the expression       *)
(* without blanks and backticks is an identifier.                           *)
IsBareColumnName(expr) == expr # "expression" /\ field.identifier

(* _fulltext_indexed_columns has the column. *)
FulltextIndexed == \E i \in config.indexes : i.kind = "token" /\ IsBareColumnName(i.expr)

(* Mutant: token indexes do not count. *)
NonNullColumnsPlain ==
    /\ stage = "routed"
    /\ stage' = "keyed"
    /\ nonNull' = (config.sortKey \/ config.notNull)
    /\ UNCHANGED <<field, place, config, sampled, column, targets, warnings, suggestions, adopted>>

(* _non_null_columns: by the names of the config, which may name nothing. *)
NonNullColumns ==
    /\ stage = "routed"
    /\ stage' = "keyed"
    /\ nonNull' = (config.sortKey \/ config.notNull \/ FulltextIndexed)
    /\ suggestions' = {s \in {"fulltext"} : FulltextIndexed /\ ~(config.sortKey \/ config.notNull)}
    /\ UNCHANGED <<field, place, config, sampled, column, targets, warnings, adopted>>

(* build_typed_columns or build_route_columns builds the column. *)
Build(where, built, warned, suggested) ==
    /\ stage = "keyed"
    /\ place = where
    /\ stage' = "built"
    /\ column' = built
    /\ warnings' = warned
    /\ suggestions' = suggestions \cup suggested
    /\ UNCHANGED <<field, place, config, sampled, nonNull, targets, adopted>>

FlatSuggestions ==
    (IF IsAggregate THEN {} ELSE Narrowed(MapScalar(field.type))) \cup FieldSuggestions

BuildColumn == Build("flat", FlatColumn, FlatWarnings, FlatSuggestions)
BuildNestedSubColumn ==
    Build("nested", NestedSubColumn, LeafWarnings, Narrowed(LeafBaseType) \cup {"nested"})
BuildArrayColumn == Build("array", ArrayColumn, LeafWarnings, Narrowed(LeafBaseType))
BuildJsonHint == Build("hint", JsonHint, LeafWarnings, {"json"})

(* _normalize_index_expr *)
NormalizeIndexExpr(expr) == IF IsBareColumnName(expr) THEN "column name" ELSE expr

(* _build_indexes *)
BuildIndexes ==
    /\ stage = "built"
    /\ stage' = "done"
    /\ targets' = {NormalizeIndexExpr(i.expr) : i \in config.indexes}
    /\ UNCHANGED <<field, place, config, sampled, nonNull, column, warnings, suggestions, adopted>>

(* The user takes advice and converts the same mapping again, from nothing  *)
(* but the config.                                                          *)
ConvertAgain ==
    /\ stage = "done"
    /\ stage' = "routed"
    /\ nonNull' = FALSE
    /\ column' = None
    /\ targets' = {}
    /\ warnings' = {}
    /\ suggestions' = {}
    /\ UNCHANGED <<field, place, sampled>>

(* The field is listed in low_cardinality... *)
AdoptLowCardinality ==
    /\ "low_cardinality" \in suggestions
    /\ config' = [config EXCEPT !.lowCard = TRUE]
    /\ adopted' = [adopted EXCEPT !.lowCard = TRUE]
    /\ ConvertAgain

(* ... or gets an index, however it is spelled, and for analyzed text       *)
(* perhaps a token index.                                                   *)
AdoptIndex(index) ==
    /\ "index" \in suggestions
    /\ index.expr # "expression"
    /\ index.kind = "token" => FullText
    /\ config' = [config EXCEPT !.indexes = @ \cup {index}]
    /\ adopted' = [adopted EXCEPT !.indexes = @ \cup {index}]
    /\ ConvertAgain

(* The statement is rendered. *)
Rendered == stage = "done" /\ UNCHANGED vars

Next ==
    \/ NonNullColumns
    \/ BuildColumn
    \/ BuildNestedSubColumn
    \/ BuildArrayColumn
    \/ BuildJsonHint
    \/ BuildIndexes
    \/ AdoptLowCardinality
    \/ \E index \in SkipIndexes : AdoptIndex(index)
    \/ Rendered

Spec == Init /\ [][Next]_vars

-----------------------------------------------------------------------------
Warnings == {"metrics", "unknown", "geo_point", "epoch", "counter", "null_value"}
Suggestions == {"fulltext", "narrowed", "low_cardinality", "index", "nested", "json"}

(* There is a column exactly from the moment it is built. *)
TypeOK ==
    /\ stage \in {"routed", "keyed", "built", "done"}
    /\ field \in Fields /\ place \in Places /\ config \in FieldConfigs /\ sampled \in Samples
    /\ nonNull \in BOOLEAN
    /\ column \in ColumnsOfField \cup {None}
    /\ column # None <=> stage \in {"built", "done"}
    /\ targets \subseteq {"column name", "name", "path", "quoted", "expression"}
    /\ warnings \subseteq Warnings /\ suggestions \subseteq Suggestions
    /\ adopted \in [lowCard : BOOLEAN, indexes : SUBSET SkipIndexes]

IsFlat == column # None /\ place = "flat"
Scalars == IntTypes \cup {Named(n) : n \in {"String", "Float", "IPv6", "DateTime"}}

(* What _resolve_base_type and the table of types yield goes with the       *)
(* wrappers put around it: ClickHouse takes Nullable only around a scalar   *)
(* and LowCardinality only around a string.  The types of an override are   *)
(* the user's.                                                              *)
TypesAccepted ==
    column # None /\ config.override = None =>
        /\ column.type.null => column.type.base \in Scalars
        /\ column.type.low => column.type.base = Named("String")

HasBounds == sampled # None /\ sampled.min # None /\ sampled.max # None
HasRange ==
    /\ HasBounds
    /\ \E t \in IntTypes : Holds(t, sampled.min, sampled.max)

(* An integer field has the same width flat, in a Nested and in an array,   *)
(* and its range in the sample fits, when any type fits.                    *)
NarrowingUniform ==
    column # None /\ place # "hint" /\ config.override = None /\ ~IsAggregate =>
        /\ column.type.base = NarrowInteger(MapScalar(field.type))
        /\ HasRange /\ MapScalar(field.type) \in IntTypes =>
            Holds(column.type.base, sampled.min, sampled.max)

(* Whatever the override, the narrowing and the counters say, a codec the   *)
(* converter picks is one ClickHouse has for the type of the column, and a  *)
(* counter that cannot have its codec is reported.                          *)
CodecFits ==
    IsFlat =>
        /\ column.codec = "T64" => column.type.base \in IntTypes
        /\ column.codec \in {"Delta", "DoubleDelta"} =>
            column.type.base \in IntTypes \cup {Named("DateTime")}
        /\ config.counter /\ config.codec = None =>
            (column.codec = "Delta" <=> "counter" \notin warnings)

(* In every place the type of a column is the mapping's own, or the advice  *)
(* says that it was narrowed, and then it was: the one warning there is for *)
(* a default of the mapping that the narrowed type does not hold, as for    *)
(* any later value outside of the sample.                                   *)
NarrowingIsSaid ==
    column # None /\ config.override = None /\ ~IsAggregate =>
        (column.type.base # MapScalar(field.type) <=> "narrowed" \in suggestions)

(* An override replaces what the mapping and the sample say, in every       *)
(* place: it is the type inside the wrappers, it is neither narrowed nor    *)
(* made LowCardinality, and nothing is said of the type it stands for.  The *)
(* converter does not look inside it: it still puts a Nullable around it in *)
(* a flat column or a Nested, and an Array in a flattened array.            *)
OverrideDecides ==
    column # None /\ config.override # None =>
        /\ column.type.base = config.override
        /\ ~column.type.low
        /\ column.type.null => place \in {"flat", "nested"}
        /\ column.type.array <=> place = "array"
        /\ "narrowed" \notin suggestions
        /\ warnings \cap {"metrics", "unknown", "geo_point", "epoch"} = {}

(* Advice that was taken has its effect.  LowCardinality taken as advised   *)
(* is what the column gets, unless its type is the user's; a token index on *)
(* an identifier finds its column without Nullable, and any index on one is *)
(* rendered on the column's name.  Neither is advised again, except that an *)
(* index with its name in backticks or blanks is not recognised.            *)
AdviceIsFollowed ==
    /\ adopted.lowCard => "low_cardinality" \notin suggestions
    /\ adopted.lowCard /\ column # None /\ config.override = None => column.type.low
    /\ \A i \in adopted.indexes :
        /\ i.expr # "quoted" => "index" \notin suggestions
        /\ field.identifier /\ i.kind = "token" /\ column # None => ~column.type.null
        /\ field.identifier /\ stage = "done" => "column name" \in targets

-----------------------------------------------------------------------------
(* _builder.py, docs/configuration.md: sort keys, not_null columns and any  *)
(* column a token index targets are not Nullable.                           *)
ForcedNonNull ==
    IsFlat /\ (config.sortKey \/ config.notNull \/ \E i \in config.indexes : i.kind = "token") =>
        ~column.type.null /\ column.type.base # Named("Nullable")
=============================================================================
