-------------------------- MODULE ColumnTypesProofs --------------------------
(***************************************************************************)
(* Safety of ColumnTypes, proved for any fields, any configs and overrides,*)
(* any samples and any four widths that each at least double.              *)
(***************************************************************************)
EXTENDS ColumnTypes, NarrowIntProofs

-----------------------------------------------------------------------------
(* Types *)

(* A type known by its name is told from others by it... *)
LEMMA NamedDiffer ==
  ASSUME NEW m, NEW n, Named(m) = Named(n)
  PROVE  m = n
<1>1. Named(m).name = Named(n).name
  OBVIOUS
<1> QED  BY <1>1 DEF Named

(* ... and is no integer type. *)
LEMMA IntTypesHaveNoName ==
  ASSUME NEW t \in IntTypes, NEW n
  PROVE  t # Named(n)
<1>1. "signed" \in DOMAIN t
  BY DEF IntTypes
<1>2. "signed" \notin DOMAIN Named(n)
  BY DEF Named
<1> QED  BY <1>1, <1>2

(* What map_scalar can yield. *)
Mapped == {"String", "Float", "IPv6", "DateTime", "Tuple", "Array", "Map"}

LEMMA MapScalarType ==
  ASSUME NEW type
  PROVE  MapScalar(type) \in IntTypes \cup {Named(n) : n \in Mapped}
<1>1. \A w \in Widths : Int8To64[w] \in IntTypes /\ UInt8To64[w] \in IntTypes
  BY DEF Int8To64, UInt8To64, IntTypes
<1>2. {1, 2, 3, 4} \subseteq Widths
  BY DEF Widths
<1>3. \A n \in Mapped : Named(n) \in {Named(m) : m \in Mapped}
  OBVIOUS
<1>4. \/ MapScalar(type) \in {Int8To64[1], Int8To64[2], Int8To64[3], Int8To64[4],
                              UInt8To64[4], UInt8To64[1]}
      \/ MapScalar(type) \in {Named("Float"), Named("DateTime"), Named("IPv6"), Named("Tuple"),
                              Named("Array"), Named("Map"), Named("String")}
  BY DEF MapScalar
<1> QED  BY <1>1, <1>2, <1>3, <1>4 DEF Mapped

LEMMA MappedAreBaseTypes ==
  IntTypes \cup {Named(n) : n \in Mapped} \subseteq BaseTypes
BY DEF Mapped, BaseTypes, Names

(* A keyword is a string. *)
LEMMA KeywordIsString ==
  ASSUME NEW type \in KeywordTypes
  PROVE  MapScalar(type) = Named("String")
BY DEF KeywordTypes, MapScalar, FloatTypes

(* The sample's range is one of integers. *)
LEMMA RangeIsInt ==
  ASSUME TypeOK, HasBounds
  PROVE  sampled.min \in Int /\ sampled.max \in Int
<1>1. sampled \in Samples \ {None}
  BY DEF TypeOK, HasBounds
<1>2. sampled \in FieldSamples
  BY <1>1, SamplesAssumption
<1>3. sampled.min \in Int \cup {None} /\ sampled.max \in Int \cup {None}
  BY <1>2 DEF FieldSamples
<1> QED  BY <1>3 DEF HasBounds

(* _narrow_integer leaves a type as it is or makes an integer type of one. *)
LEMMA NarrowedType ==
  ASSUME TypeOK, NEW base
  PROVE  \/ NarrowInteger(base) = base
         \/ /\ base \in IntTypes
            /\ NarrowInteger(base) \in IntTypes
            /\ HasBounds
            /\ NarrowInteger(base) = NarrowestInt(sampled.min, sampled.max)
<1>1. CASE HasBounds /\ base \in IntTypes
  <2>1. NarrowInteger(base) = NarrowestInt(sampled.min, sampled.max)
    BY <1>1 DEF NarrowInteger, HasBounds, IsInteger
  <2>2. NarrowestInt(sampled.min, sampled.max) \in IntTypes
    BY <1>1, RangeIsInt, NarrowestIntType
  <2> QED  BY <1>1, <2>1, <2>2
<1>2. CASE ~(HasBounds /\ base \in IntTypes)
  BY <1>2 DEF NarrowInteger, HasBounds, IsInteger
<1> QED  BY <1>1, <1>2

(* Hence what narrowing makes of a mapped type is one map_scalar can yield. *)
LEMMA NarrowedIsMapped ==
  ASSUME TypeOK, NEW type
  PROVE  NarrowInteger(MapScalar(type)) \in IntTypes \cup {Named(n) : n \in Mapped}
BY MapScalarType, NarrowedType

LEMMA ConfigShape ==
  ASSUME TypeOK
  PROVE  /\ config.override \in BaseTypes \cup {None}
         /\ config.codec \in {"given", None}
         /\ config.counter \in BOOLEAN /\ config.sortKey \in BOOLEAN
         /\ config.notNull \in BOOLEAN /\ config.lowCard \in BOOLEAN
         /\ config.indexes \subseteq SkipIndexes
BY DEF TypeOK, FieldConfigs

LEMMA FieldIsShaped ==
  ASSUME TypeOK
  PROVE  /\ field.null \in NullValues \cup {None}
         /\ field.metrics \in BOOLEAN /\ field.identifier \in BOOLEAN
BY FieldsAssumption DEF TypeOK, EsFields

(* The type of a column that has no override is one map_scalar can yield,   *)
(* if it is flat a Tuple for an aggregate, and always one of BaseTypes.     *)
LEMMA ResolvedType ==
  ASSUME TypeOK
  PROVE  /\ ResolveBaseType \in BaseTypes
         /\ config.override = None =>
              ResolveBaseType \in IntTypes \cup {Named(n) : n \in Mapped}
<1>1. Named("Tuple") \in {Named(n) : n \in Mapped} /\ Named("String") \in {Named(n) : n \in Mapped}
  BY DEF Mapped
<1>2. config.override = None =>
        ResolveBaseType \in IntTypes \cup {Named(n) : n \in Mapped}
  BY <1>1, NarrowedIsMapped DEF ResolveBaseType
<1>3. config.override # None => ResolveBaseType = config.override
  BY DEF ResolveBaseType
<1> QED  BY <1>2, <1>3, ConfigShape, MappedAreBaseTypes

LEMMA LeafTypes ==
  ASSUME TypeOK
  PROVE  /\ LeafBaseType \in BaseTypes /\ LeafType \in BaseTypes
         /\ config.override = None =>
              /\ LeafBaseType = MapScalar(field.type)
              /\ LeafType = NarrowInteger(MapScalar(field.type))
         /\ config.override # None => LeafType = config.override
<1>1. config.override = None =>
        /\ LeafBaseType = MapScalar(field.type)
        /\ LeafType = NarrowInteger(MapScalar(field.type))
  BY DEF LeafBaseType, LeafType
<1>2. config.override # None => LeafType = config.override /\ LeafBaseType = config.override
  BY DEF LeafBaseType, LeafType
<1> QED  BY <1>1, <1>2, ConfigShape, MappedAreBaseTypes, MapScalarType, NarrowedIsMapped

-----------------------------------------------------------------------------
(* The inductive invariant *)

(* From the moment it is computed, nonNull says what the config says.       *)
MustNotBeNull == config.sortKey \/ config.notNull \/ FulltextIndexed
Keyed == stage # "routed" => (nonNull <=> MustNotBeNull)

(* A column is what its place makes of the field, and so are the warnings   *)
(* and the advice; before it is built only the full-text index has been     *)
(* advised on.                                                              *)
BuiltAs(where, built, warned, suggested) ==
    place = where =>
        /\ column = built
        /\ warnings = warned
        /\ suggestions \ {"fulltext"} = suggested
Built ==
    /\ column = None => suggestions \subseteq {"fulltext"}
    /\ column # None =>
        /\ BuiltAs("flat", FlatColumn, FlatWarnings, FlatSuggestions)
        /\ BuiltAs("nested", NestedSubColumn, LeafWarnings, Narrowed(LeafBaseType) \cup {"nested"})
        /\ BuiltAs("array", ArrayColumn, LeafWarnings, Narrowed(LeafBaseType))
        /\ BuiltAs("hint", JsonHint, LeafWarnings, {"json"})

(* The rendered indexes are those of the config. *)
Targeted == stage = "done" => targets = {NormalizeIndexExpr(i.expr) : i \in config.indexes}

(* Advice was taken on a flat column, on LowCardinality for a keyword only, *)
(* and is in the config.                                                    *)
AdviceInConfig ==
    /\ adopted.lowCard \/ adopted.indexes # {} => place = "flat"
    /\ adopted.lowCard => config.lowCard /\ field.type \in KeywordTypes
    /\ \A i \in adopted.indexes : i \in config.indexes /\ i.expr # "expression"

Inductive == TypeOK /\ Keyed /\ Built /\ Targeted /\ AdviceInConfig

(* The parts a column is put together from. *)
LEMMA ColumnIsTyped ==
  ASSUME NEW base \in BaseTypes, NEW null \in BOOLEAN, NEW low \in BOOLEAN, NEW array \in BOOLEAN,
         NEW codec \in {"given", "Delta", "T64", "DoubleDelta", "ZSTD", None},
         NEW default \in NullValues \cup {None}
  PROVE  /\ Column(Type(base, null, low, array), codec, default) \in ColumnsOfField
         /\ Column(Type(base, null, low, array), codec, default) # None
<1>1. Type(base, null, low, array) \in
        [base : BaseTypes, null : BOOLEAN, low : BOOLEAN, array : BOOLEAN]
  BY DEF Type
<1>2. Column(Type(base, null, low, array), codec, default) \in ColumnsOfField
  BY <1>1 DEF Column, ColumnsOfField
<1> QED  BY <1>2, NoneAssumption

LEMMA CodecIsTyped ==
  ASSUME NEW base
  PROVE  CodecFor(base) \in {"given", "Delta", "T64", "DoubleDelta", "ZSTD", None}
BY DEF CodecFor, DefaultCodec

LEMMA DefaultIsTyped ==
  ASSUME TypeOK
  PROVE  DefaultExpr \in NullValues \cup {None}
BY FieldIsShaped DEF DefaultExpr

LEMMA BuiltColumnsAreTyped ==
  ASSUME TypeOK,
         NEW c \in {FlatColumn, NestedSubColumn, ArrayColumn, JsonHint}
  PROVE  c \in ColumnsOfField /\ c # None
<1>1. CASE c = FlatColumn
  <2> DEFINE base == ResolveBaseType
             null == IsNullable /\ SupportsNullable(base)
             low == config.override = None /\ IsString(base) /\ UseLowCardinality
             codec == CodecFor(base)
             default == DefaultExpr
  <2>1. null \in BOOLEAN /\ low \in BOOLEAN
    OBVIOUS
  <2>2. c = Column(Type(base, null, low, FALSE), codec, default)
    BY <1>1 DEF FlatColumn
  <2>3. /\ base \in BaseTypes
        /\ codec \in {"given", "Delta", "T64", "DoubleDelta", "ZSTD", None}
        /\ default \in NullValues \cup {None}
    BY ResolvedType, CodecIsTyped, DefaultIsTyped
  <2> HIDE DEF base, null, low, codec, default
  <2>4. Column(Type(base, null, low, FALSE), codec, default) \in ColumnsOfField
    BY ONLY <2>1, <2>3, ColumnIsTyped
  <2>5. Column(Type(base, null, low, FALSE), codec, default) # None
    BY ONLY <2>1, <2>3, ColumnIsTyped
  <2> QED  BY ONLY <2>2, <2>4, <2>5
<1>2. CASE c = NestedSubColumn
  <2> DEFINE null == field.null = None /\ SupportsNullable(LeafType)
  <2>1. null \in BOOLEAN
    OBVIOUS
  <2>2. NestedSubColumn = Column(Type(LeafType, null, FALSE, FALSE), None, None)
    BY DEF NestedSubColumn
  <2> HIDE DEF null
  <2> QED  BY <1>2, <2>1, <2>2, LeafTypes, ColumnIsTyped
<1>3. CASE c = ArrayColumn
  BY <1>3, LeafTypes, ColumnIsTyped DEF ArrayColumn
<1>4. CASE c = JsonHint
  BY <1>4, LeafTypes, ColumnIsTyped DEF JsonHint
<1> QED  BY <1>1, <1>2, <1>3, <1>4

-----------------------------------------------------------------------------
(* The steps *)

LEMMA InitInductive ==
  Init => Inductive
<1> SUFFICES ASSUME Init
             PROVE  Inductive
  OBVIOUS
<1>1. TypeOK
  BY ConfigsAssumption DEF Init, TypeOK
<1> QED  BY <1>1 DEF Init, Inductive, Keyed, Built, Targeted, AdviceInConfig

LEMMA MustNotBeNullUnchanged ==
  ASSUME UNCHANGED <<field, config>>
  PROVE  UNCHANGED MustNotBeNull
BY DEF MustNotBeNull, FulltextIndexed, IsBareColumnName

LEMMA NonNullColumnsInductive ==
  ASSUME Inductive, NonNullColumns
  PROVE  Inductive'
<1>0. TypeOK /\ Built /\ AdviceInConfig /\ column = None
  BY DEF Inductive, NonNullColumns, TypeOK
<1>1. nonNull' \in BOOLEAN /\ (nonNull' <=> MustNotBeNull)
  <2>1. FulltextIndexed \in BOOLEAN
    BY DEF FulltextIndexed
  <2> HIDE DEF FulltextIndexed
  <2> QED  BY <1>0, <2>1, ConfigShape DEF NonNullColumns, MustNotBeNull
<1>2. TypeOK'
  BY <1>0, <1>1 DEF TypeOK, NonNullColumns, Suggestions
<1>3. Keyed'
  BY <1>1, MustNotBeNullUnchanged DEF NonNullColumns, Keyed
<1>4. Built' /\ Targeted'
  BY <1>0 DEF NonNullColumns, Built, Targeted
<1>5. AdviceInConfig'
  BY <1>0 DEF NonNullColumns, AdviceInConfig
<1> QED  BY <1>2, <1>3, <1>4, <1>5 DEF Inductive

(* What a column is made of does not depend on the column. *)
LEMMA PartsUnchanged ==
  ASSUME UNCHANGED <<field, config, sampled, nonNull>>
  PROVE  /\ UNCHANGED FlatColumn /\ UNCHANGED NestedSubColumn
         /\ UNCHANGED ArrayColumn /\ UNCHANGED JsonHint
         /\ UNCHANGED FlatWarnings /\ UNCHANGED LeafWarnings
         /\ UNCHANGED FlatSuggestions /\ UNCHANGED Narrowed(LeafBaseType)
<1>1. UNCHANGED ResolveBaseType /\ UNCHANGED LeafBaseType /\ UNCHANGED LeafType
  BY DEF ResolveBaseType, LeafBaseType, LeafType, NarrowInteger, IsAggregate
<1>2. UNCHANGED DefaultExpr /\ UNCHANGED CodecFor(ResolveBaseType)
  BY <1>1 DEF DefaultExpr, CodecFor
<1>3. UNCHANGED FlatColumn /\ UNCHANGED NestedSubColumn /\ UNCHANGED ArrayColumn
      /\ UNCHANGED JsonHint
  BY <1>1, <1>2 DEF FlatColumn, NestedSubColumn, ArrayColumn, JsonHint, IsNullable,
                    UseLowCardinality
<1>4. UNCHANGED FlatWarnings /\ UNCHANGED LeafWarnings
  BY <1>1, <1>2 DEF FlatWarnings, LeafWarnings, IsAggregate
<1>5. UNCHANGED Narrowed(LeafBaseType) /\ UNCHANGED Narrowed(MapScalar(field.type))
  BY <1>1 DEF Narrowed, NarrowInteger
<1>6. UNCHANGED FieldSuggestions
  BY DEF FieldSuggestions, IndexSuggestion, LowCardinalitySuggestion, FullText,
         UseLowCardinality
<1>7. UNCHANGED FlatSuggestions
  BY <1>5, <1>6 DEF FlatSuggestions, IsAggregate
<1> QED  BY <1>3, <1>4, <1>5, <1>7

(* The advice each place may add, besides the full-text index's. *)
LEMMA AdviceIsTyped ==
  /\ FlatWarnings \subseteq Warnings /\ LeafWarnings \subseteq Warnings
  /\ FlatSuggestions \subseteq Suggestions
  /\ Narrowed(LeafBaseType) \subseteq {"narrowed"}
  /\ "fulltext" \notin FlatSuggestions
<1>1. FieldSuggestions \subseteq Suggestions
  BY DEF FieldSuggestions, Suggestions
<1>2. \A base : Narrowed(base) \subseteq {"narrowed"}
  BY DEF Narrowed
<1>3. FlatSuggestions \subseteq Suggestions
  BY <1>1, <1>2 DEF FlatSuggestions, Suggestions
<1>4. FlatWarnings \subseteq Warnings /\ LeafWarnings \subseteq Warnings
  BY DEF FlatWarnings, LeafWarnings, Warnings
<1>5. "fulltext" \notin FlatSuggestions
  BY DEF FlatSuggestions, FieldSuggestions, Narrowed
<1> QED  BY <1>2, <1>3, <1>4, <1>5

(* A column built in its place, of parts no step after it changes. *)
LEMMA BuildInductive ==
  ASSUME Inductive,
         BuildColumn \/ BuildNestedSubColumn \/ BuildArrayColumn \/ BuildJsonHint
  PROVE  Inductive'
<1>0. /\ TypeOK /\ Keyed /\ AdviceInConfig /\ column = None /\ suggestions \subseteq {"fulltext"}
      /\ stage = "keyed" /\ stage' = "built"
      /\ UNCHANGED <<field, place, config, sampled, nonNull, targets, adopted>>
  BY DEF Inductive, BuildColumn, BuildNestedSubColumn, BuildArrayColumn, BuildJsonHint, Build,
         TypeOK, Built
<1>1. \/ BuildColumn /\ place = "flat"
      \/ BuildNestedSubColumn /\ place = "nested"
      \/ BuildArrayColumn /\ place = "array"
      \/ BuildJsonHint /\ place = "hint"
  BY DEF BuildColumn, BuildNestedSubColumn, BuildArrayColumn, BuildJsonHint, Build
<1>2. column' \in {FlatColumn, NestedSubColumn, ArrayColumn, JsonHint}
  BY DEF BuildColumn, BuildNestedSubColumn, BuildArrayColumn, BuildJsonHint, Build
<1>3. column' \in ColumnsOfField /\ column' # None
  BY <1>0, <1>2, BuiltColumnsAreTyped
<1>4. warnings' \subseteq Warnings /\ suggestions' \subseteq Suggestions
  BY <1>0, AdviceIsTyped
  DEF BuildColumn, BuildNestedSubColumn, BuildArrayColumn, BuildJsonHint, Build, Suggestions
<1>5. TypeOK'
  BY <1>0, <1>3, <1>4 DEF TypeOK
<1>6. Keyed'
  BY <1>0, MustNotBeNullUnchanged DEF Keyed
<1>7. Built'
  <2>1. /\ UNCHANGED FlatColumn /\ UNCHANGED NestedSubColumn
        /\ UNCHANGED ArrayColumn /\ UNCHANGED JsonHint
        /\ UNCHANGED FlatWarnings /\ UNCHANGED LeafWarnings
        /\ UNCHANGED FlatSuggestions /\ UNCHANGED Narrowed(LeafBaseType)
    BY <1>0, PartsUnchanged
  <2>2. BuiltAs("flat", FlatColumn, FlatWarnings, FlatSuggestions)'
    BY <1>0, <1>1, <2>1, AdviceIsTyped DEF BuiltAs, BuildColumn, Build
  <2>3. BuiltAs("nested", NestedSubColumn, LeafWarnings, Narrowed(LeafBaseType) \cup {"nested"})'
    BY <1>0, <1>1, <2>1, AdviceIsTyped DEF BuiltAs, BuildNestedSubColumn, Build
  <2>4. BuiltAs("array", ArrayColumn, LeafWarnings, Narrowed(LeafBaseType))'
    BY <1>0, <1>1, <2>1, AdviceIsTyped DEF BuiltAs, BuildArrayColumn, Build
  <2>5. BuiltAs("hint", JsonHint, LeafWarnings, {"json"})'
    BY <1>0, <1>1, <2>1 DEF BuiltAs, BuildJsonHint, Build
  <2> QED  BY <1>3, <2>2, <2>3, <2>4, <2>5 DEF Built
<1>8. Targeted' /\ AdviceInConfig'
  BY <1>0 DEF Targeted, AdviceInConfig
<1> QED  BY <1>5, <1>6, <1>7, <1>8 DEF Inductive

(* A step that leaves alone all that Built speaks of. *)
LEMMA BuiltUnchanged ==
  ASSUME Built, UNCHANGED <<field, place, config, sampled, nonNull, column, warnings, suggestions>>
  PROVE  Built'
<1>1. /\ UNCHANGED FlatColumn /\ UNCHANGED NestedSubColumn
      /\ UNCHANGED ArrayColumn /\ UNCHANGED JsonHint
      /\ UNCHANGED FlatWarnings /\ UNCHANGED LeafWarnings
      /\ UNCHANGED FlatSuggestions /\ UNCHANGED Narrowed(LeafBaseType)
  BY PartsUnchanged
<1> QED  BY <1>1 DEF Built, BuiltAs

LEMMA BuildIndexesInductive ==
  ASSUME Inductive, BuildIndexes
  PROVE  Inductive'
<1>0. /\ TypeOK /\ Keyed /\ Built /\ AdviceInConfig
      /\ stage = "built" /\ stage' = "done"
      /\ UNCHANGED <<field, place, config, sampled, nonNull, column, warnings, suggestions, adopted>>
  BY DEF Inductive, BuildIndexes
<1>1. \A i \in config.indexes :
        NormalizeIndexExpr(i.expr) \in {"column name", "name", "path", "quoted", "expression"}
  BY <1>0, ConfigShape DEF SkipIndexes, NormalizeIndexExpr
<1>2. TypeOK'
  BY <1>0, <1>1 DEF TypeOK, BuildIndexes
<1>3. Built'
  BY <1>0, BuiltUnchanged
<1>4. Keyed' /\ AdviceInConfig'
  BY <1>0, MustNotBeNullUnchanged DEF Keyed, AdviceInConfig
<1>5. Targeted'
  BY <1>0 DEF Targeted, BuildIndexes, NormalizeIndexExpr, IsBareColumnName
<1> QED  BY <1>2, <1>3, <1>4, <1>5 DEF Inductive

(* Advice is given on flat columns, the first on keywords. *)
LEMMA AdviceIsForFlat ==
  ASSUME Inductive, stage = "done", NEW advice \in {"low_cardinality", "index"} \cap suggestions
  PROVE  /\ place = "flat"
         /\ advice = "low_cardinality" => field.type \in KeywordTypes
<1>1. column # None /\ Built /\ place \in Places
  BY DEF Inductive, TypeOK
<1>2. advice \notin {"fulltext", "nested", "json", "narrowed"}
  OBVIOUS
<1>3. advice \notin {"fulltext", "nested", "json"} \cup Narrowed(LeafBaseType)
  BY <1>2 DEF Narrowed
<1>4. place = "flat"
  BY <1>1, <1>3 DEF Built, BuiltAs, Places
<1>5. advice \in FlatSuggestions
  BY <1>1, <1>2, <1>4 DEF Built, BuiltAs
<1>6. advice \in FieldSuggestions
  BY <1>2, <1>5 DEF FlatSuggestions, Narrowed
<1>7. advice = "low_cardinality" => field.type \in KeywordTypes
  BY <1>6 DEF FieldSuggestions, LowCardinalitySuggestion
<1> QED  BY <1>4, <1>7

LEMMA ConvertAgainInductive ==
  ASSUME Inductive, ConvertAgain, config' \in FieldConfigs,
         adopted' \in [lowCard : BOOLEAN, indexes : SUBSET SkipIndexes]
  PROVE  TypeOK' /\ Keyed' /\ Built' /\ Targeted'
<1>1. TypeOK'
  BY DEF Inductive, TypeOK, ConvertAgain
<1> QED  BY <1>1 DEF ConvertAgain, Keyed, Built, Targeted

LEMMA AdoptLowCardinalityInductive ==
  ASSUME Inductive, AdoptLowCardinality
  PROVE  Inductive'
<1>0. /\ TypeOK /\ AdviceInConfig /\ ConvertAgain
      /\ config \in FieldConfigs /\ adopted \in [lowCard : BOOLEAN, indexes : SUBSET SkipIndexes]
      /\ config' = [config EXCEPT !.lowCard = TRUE]
      /\ adopted' = [adopted EXCEPT !.lowCard = TRUE]
  BY DEF Inductive, TypeOK, AdoptLowCardinality
<1>1. /\ config' \in FieldConfigs /\ config'.lowCard /\ config'.indexes = config.indexes
      /\ adopted' \in [lowCard : BOOLEAN, indexes : SUBSET SkipIndexes]
      /\ adopted'.indexes = adopted.indexes
  BY <1>0 DEF FieldConfigs
<1>2. place' = "flat" /\ field'.type \in KeywordTypes
  BY <1>0, AdviceIsForFlat DEF AdoptLowCardinality, ConvertAgain
<1>3. AdviceInConfig'
  BY <1>0, <1>1, <1>2 DEF AdviceInConfig
<1> QED  BY <1>0, <1>1, <1>3, ConvertAgainInductive DEF Inductive

LEMMA AdoptIndexInductive ==
  ASSUME Inductive, NEW index \in SkipIndexes, AdoptIndex(index)
  PROVE  Inductive'
<1>0. /\ TypeOK /\ AdviceInConfig /\ ConvertAgain /\ index.expr # "expression"
      /\ config \in FieldConfigs /\ adopted \in [lowCard : BOOLEAN, indexes : SUBSET SkipIndexes]
      /\ config' = [config EXCEPT !.indexes = @ \cup {index}]
      /\ adopted' = [adopted EXCEPT !.indexes = @ \cup {index}]
  BY DEF Inductive, TypeOK, AdoptIndex
<1>1. config.indexes \cup {index} \in SUBSET SkipIndexes
      /\ adopted.indexes \cup {index} \in SUBSET SkipIndexes
  BY <1>0 DEF FieldConfigs
<1>2. /\ config' \in FieldConfigs /\ config'.lowCard = config.lowCard
      /\ config'.indexes = config.indexes \cup {index}
  BY <1>0, <1>1 DEF FieldConfigs
<1>3. /\ adopted' \in [lowCard : BOOLEAN, indexes : SUBSET SkipIndexes]
      /\ adopted'.lowCard = adopted.lowCard
      /\ adopted'.indexes = adopted.indexes \cup {index}
  BY <1>0, <1>1
<1>4. place' = "flat" /\ UNCHANGED field
  BY <1>0, AdviceIsForFlat DEF AdoptIndex, ConvertAgain
<1>5. AdviceInConfig'
  BY <1>0, <1>2, <1>3, <1>4 DEF AdviceInConfig
<1> QED  BY <1>0, <1>2, <1>3, <1>5, ConvertAgainInductive DEF Inductive

LEMMA UnchangedInductive ==
  ASSUME Inductive, UNCHANGED vars
  PROVE  Inductive'
<1>1. Built'
  BY BuiltUnchanged DEF Inductive, vars
<1>2. TypeOK' /\ AdviceInConfig'
  BY DEF Inductive, vars, TypeOK, AdviceInConfig
<1>3. Keyed'
  BY MustNotBeNullUnchanged DEF Inductive, vars, Keyed
<1>4. Targeted'
  BY DEF Inductive, vars, Targeted, NormalizeIndexExpr, IsBareColumnName
<1> QED  BY <1>1, <1>2, <1>3, <1>4 DEF Inductive

(* The invariant all the theorems below rest on. *)
THEOREM SpecInductive ==
  Spec => []Inductive
<1>1. Inductive /\ [Next]_vars => Inductive'
  <2> SUFFICES ASSUME Inductive, [Next]_vars
               PROVE  Inductive'
    OBVIOUS
  <2>1. CASE NonNullColumns
    BY <2>1, NonNullColumnsInductive
  <2>2. CASE BuildColumn \/ BuildNestedSubColumn \/ BuildArrayColumn \/ BuildJsonHint
    BY <2>2, BuildInductive
  <2>3. CASE BuildIndexes
    BY <2>3, BuildIndexesInductive
  <2>4. ASSUME NEW index \in SkipIndexes, AdoptIndex(index)
        PROVE  Inductive'
    BY <2>4, AdoptIndexInductive
  <2>5. CASE Rendered
    BY <2>5, UnchangedInductive DEF Rendered
  <2>6. CASE UNCHANGED vars
    BY <2>6, UnchangedInductive
  <2>7. CASE AdoptLowCardinality
    BY <2>7, AdoptLowCardinalityInductive
  <2> QED  BY <2>1, <2>2, <2>3, <2>4, <2>5, <2>6, <2>7 DEF Next
<1> QED  BY <1>1, InitInductive, PTL DEF Spec

-----------------------------------------------------------------------------
(* What the invariant says of a column *)

(* Type, codec and default of a flat column. *)
LEMMA FlatColumnIs ==
  ASSUME Inductive, IsFlat
  PROVE  /\ column.type.base = ResolveBaseType
         /\ column.type.null <=> IsNullable /\ SupportsNullable(ResolveBaseType)
         /\ column.type.low <=>
              config.override = None /\ IsString(ResolveBaseType) /\ UseLowCardinality
         /\ column.codec = CodecFor(ResolveBaseType)
         /\ column.default = DefaultExpr
         /\ warnings = FlatWarnings
         /\ suggestions \ {"fulltext"} = FlatSuggestions
         /\ ~column.type.array
<1>1. /\ column = FlatColumn /\ warnings = FlatWarnings
      /\ suggestions \ {"fulltext"} = FlatSuggestions
  BY DEF Inductive, Built, BuiltAs, IsFlat
<1> QED  BY <1>1 DEF FlatColumn, Column, Type

(* Type and warnings of any other. *)
LEMMA LeafColumnIs ==
  ASSUME Inductive, column # None, ~IsFlat
  PROVE  /\ column.type.base = (IF place = "hint" THEN LeafBaseType ELSE LeafType)
         /\ column.type.null => SupportsNullable(LeafType)
         /\ ~column.type.low
         /\ warnings = LeafWarnings
         /\ "narrowed" \in suggestions <=>
              place # "hint" /\ "narrowed" \in Narrowed(LeafBaseType)
         /\ column.type.null => place = "nested"
         /\ column.type.array <=> place = "array"
<1>1. place \in {"nested", "array", "hint"}
  BY DEF Inductive, TypeOK, IsFlat, Places
<1>2. CASE place = "nested"
  <2>1. /\ column = NestedSubColumn /\ warnings = LeafWarnings
        /\ suggestions \ {"fulltext"} = Narrowed(LeafBaseType) \cup {"nested"}
    BY <1>2 DEF Inductive, Built, BuiltAs
  <2>2. "narrowed" \in suggestions <=> "narrowed" \in Narrowed(LeafBaseType)
    BY <2>1
  <2>3. /\ column.type.base = LeafType /\ ~column.type.low /\ ~column.type.array
        /\ column.type.null => SupportsNullable(LeafType)
    BY <2>1 DEF NestedSubColumn, Column, Type
  <2> QED  BY <1>2, <2>1, <2>2, <2>3
<1>3. CASE place = "array"
  <2>1. /\ column = ArrayColumn /\ warnings = LeafWarnings
        /\ suggestions \ {"fulltext"} = Narrowed(LeafBaseType)
    BY <1>3 DEF Inductive, Built, BuiltAs
  <2> QED  BY <1>3, <2>1 DEF ArrayColumn, Column, Type
<1>4. CASE place = "hint"
  <2>1. /\ column = JsonHint /\ warnings = LeafWarnings
        /\ suggestions \ {"fulltext"} = {"json"}
    BY <1>4 DEF Inductive, Built, BuiltAs
  <2> QED  BY <1>4, <2>1 DEF JsonHint, Column, Type
<1> QED  BY <1>1, <1>2, <1>3, <1>4

(* Of the types map_scalar can yield, supports_nullable takes the scalars. *)
LEMMA NullableMapped ==
  ASSUME NEW t \in IntTypes \cup {Named(n) : n \in Mapped}
  PROVE  SupportsNullable(t) <=> t \in Scalars
<1>1. CASE t \in IntTypes
  BY <1>1, IntTypesHaveNoName DEF SupportsNullable, Scalars
<1>2. ASSUME NEW n \in Mapped, t = Named(n)
      PROVE  SupportsNullable(t) <=> t \in Scalars
  <2>1. SupportsNullable(t) <=> n \notin {"JSON", "Point", "Array", "Map", "Tuple", "Nested"}
    BY <1>2, NamedDiffer DEF SupportsNullable
  <2>2. t \in Scalars <=> n \in {"String", "Float", "IPv6", "DateTime"}
    BY <1>2, NamedDiffer, IntTypesHaveNoName DEF Scalars
  <2> QED  BY <2>1, <2>2 DEF Mapped
<1> QED  BY <1>1, <1>2

(* Each invariant follows from the inductive one. *)
LEMMA InductiveTypes ==
  Inductive => TypesAccepted
<1> SUFFICES ASSUME Inductive, column # None, config.override = None
             PROVE  /\ column.type.null => column.type.base \in Scalars
                    /\ column.type.low => column.type.base = Named("String")
  BY DEF TypesAccepted
<1>0. TypeOK
  BY DEF Inductive
<1>1. CASE IsFlat
  BY <1>0, <1>1, FlatColumnIs, ResolvedType, NullableMapped DEF IsString
<1>2. CASE ~IsFlat
  <2>1. LeafType \in IntTypes \cup {Named(n) : n \in Mapped}
    BY <1>0, LeafTypes, NarrowedIsMapped
  <2>2. CASE place = "hint"
    BY <2>2 DEF Inductive, Built, BuiltAs, JsonHint, Column, Type
  <2>3. CASE place # "hint"
    BY <1>2, <2>1, <2>3, LeafColumnIs, NullableMapped
  <2> QED  BY <2>2, <2>3
<1> QED  BY <1>1, <1>2

LEMMA InductiveNarrowing ==
  Inductive => NarrowingUniform
<1> SUFFICES ASSUME Inductive, column # None, place # "hint", config.override = None, ~IsAggregate
             PROVE  /\ column.type.base = NarrowInteger(MapScalar(field.type))
                    /\ HasRange /\ MapScalar(field.type) \in IntTypes =>
                         Holds(column.type.base, sampled.min, sampled.max)
  BY DEF NarrowingUniform
<1>0. TypeOK
  BY DEF Inductive
<1>1. column.type.base = NarrowInteger(MapScalar(field.type))
  <2>1. CASE IsFlat
    BY <2>1, FlatColumnIs DEF ResolveBaseType
  <2>2. CASE ~IsFlat
    BY <1>0, <2>2, LeafColumnIs, LeafTypes
  <2> QED  BY <2>1, <2>2
<1>2. ASSUME HasRange, MapScalar(field.type) \in IntTypes
      PROVE  Holds(column.type.base, sampled.min, sampled.max)
  <2>1. sampled.min \in Int /\ sampled.max \in Int
    BY <1>0, <1>2, RangeIsInt DEF HasRange
  <2>2. NarrowInteger(MapScalar(field.type)) = NarrowestInt(sampled.min, sampled.max)
    BY <1>2 DEF HasRange, HasBounds, NarrowInteger, IsInteger
  <2> QED  BY <1>1, <1>2, <2>1, <2>2, NarrowestIntHolds DEF HasRange
<1> QED  BY <1>1, <1>2

LEMMA InductiveCodecs ==
  Inductive => CodecFits
<1> SUFFICES ASSUME Inductive, IsFlat
             PROVE  /\ column.codec = "T64" => column.type.base \in IntTypes
                    /\ column.codec \in {"Delta", "DoubleDelta"} =>
                         column.type.base \in IntTypes \cup {Named("DateTime")}
                    /\ config.counter /\ config.codec = None =>
                         (column.codec = "Delta" <=> "counter" \notin warnings)
  BY DEF CodecFits
<1>1. /\ column.codec = CodecFor(ResolveBaseType) /\ column.type.base = ResolveBaseType
      /\ warnings = FlatWarnings
  BY FlatColumnIs
<1>2. "counter" \in FlatWarnings <=>
        /\ config.codec = None /\ config.counter
        /\ ~(IsInteger(ResolveBaseType) \/ IsDatetime(ResolveBaseType))
  BY DEF FlatWarnings
<1> QED  BY <1>1, <1>2 DEF CodecFor, DefaultCodec, IsInteger, IsDatetime

(* A narrowing needs bounds. *)
LEMMA NarrowedHasBounds ==
  ASSUME TypeOK, NEW base, NarrowInteger(base) # base
  PROVE  HasBounds
BY NarrowedType

LEMMA InductiveNarrowingSaid ==
  Inductive => NarrowingIsSaid
<1> DEFINE mapped == MapScalar(field.type)
<1> SUFFICES ASSUME Inductive, column # None, config.override = None, ~IsAggregate
             PROVE  column.type.base # mapped <=> "narrowed" \in suggestions
  BY DEF NarrowingIsSaid
<1>1. "narrowed" \in Narrowed(mapped) <=> NarrowInteger(mapped) # mapped
  BY DEF Narrowed
<1>2. LeafBaseType = mapped /\ LeafType = NarrowInteger(mapped)
  BY LeafTypes DEF Inductive
<1>3. CASE IsFlat
  <2>1. column.type.base = NarrowInteger(mapped)
    BY <1>3, FlatColumnIs DEF ResolveBaseType
  <2>2. "narrowed" \in suggestions <=> "narrowed" \in FlatSuggestions
    BY <1>3, FlatColumnIs
  <2>3. "narrowed" \in FlatSuggestions <=> "narrowed" \in Narrowed(mapped)
    BY DEF FlatSuggestions, FieldSuggestions
  <2> QED  BY <1>1, <2>1, <2>2, <2>3
<1>4. CASE ~IsFlat
  BY <1>1, <1>2, <1>4, LeafColumnIs
<1> QED  BY <1>3, <1>4

LEMMA InductiveOverride ==
  Inductive => OverrideDecides
<1> SUFFICES ASSUME Inductive, column # None, config.override # None
             PROVE  /\ column.type.base = config.override
                    /\ ~column.type.low
                    /\ column.type.null => place \in {"flat", "nested"}
                    /\ column.type.array <=> place = "array"
                    /\ "narrowed" \notin suggestions
                    /\ warnings \cap {"metrics", "unknown", "geo_point", "epoch"} = {}
  BY DEF OverrideDecides
<1>1. ResolveBaseType = config.override /\ LeafType = config.override
      /\ LeafBaseType = config.override
  BY DEF ResolveBaseType, LeafType, LeafBaseType
<1>2. \A base : Narrowed(base) = {}
  BY DEF Narrowed
<1>3. "narrowed" \notin FlatSuggestions
  BY <1>2 DEF FlatSuggestions, FieldSuggestions
<1>4. FlatWarnings \cap {"metrics", "unknown", "geo_point", "epoch"} = {}
  BY DEF FlatWarnings
<1>5. LeafWarnings = {}
  BY DEF LeafWarnings
<1>6. CASE IsFlat
  BY <1>1, <1>3, <1>4, <1>6, FlatColumnIs DEF IsFlat
<1>7. CASE ~IsFlat
  BY <1>1, <1>2, <1>5, <1>7, LeafColumnIs
<1> QED  BY <1>6, <1>7

LEMMA InductiveAdvice ==
  Inductive => AdviceIsFollowed
<1> SUFFICES ASSUME Inductive
             PROVE  AdviceIsFollowed
  OBVIOUS
<1>0. TypeOK /\ Keyed /\ Targeted /\ AdviceInConfig
  BY DEF Inductive
<1>1. CASE ~adopted.lowCard /\ adopted.indexes = {}
  BY <1>1 DEF AdviceIsFollowed
<1>2. CASE column = None
  <2>1. suggestions \subseteq {"fulltext"} /\ stage # "done"
    BY <1>0, <1>2 DEF Inductive, Built, TypeOK
  <2> QED  BY <1>2, <2>1 DEF AdviceIsFollowed
<1>3. CASE column # None /\ (adopted.lowCard \/ adopted.indexes # {})
  <2>1. IsFlat
    BY <1>0, <1>3 DEF AdviceInConfig, IsFlat
  <2>2. \A s \in {"low_cardinality", "index"} : s \in suggestions => s \in FieldSuggestions
    BY <2>1, FlatColumnIs DEF FlatSuggestions, Narrowed
  <2>3. adopted.lowCard => "low_cardinality" \notin suggestions
    BY <1>0, <2>2 DEF AdviceInConfig, FieldSuggestions, LowCardinalitySuggestion,
                      UseLowCardinality
  <2>4. ASSUME adopted.lowCard, config.override = None
        PROVE  column.type.low
    <3>1. config.lowCard /\ field.type \in KeywordTypes
      BY <1>0, <2>4 DEF AdviceInConfig
    <3>2. MapScalar(field.type) = Named("String") /\ ~IsAggregate
      BY <3>1, KeywordIsString DEF KeywordTypes, IsAggregate
    <3>3. NarrowInteger(Named("String")) = Named("String")
      BY IntTypesHaveNoName DEF NarrowInteger, IsInteger
    <3> QED  BY <2>1, <2>4, <3>1, <3>2, <3>3, FlatColumnIs
             DEF ResolveBaseType, IsString, UseLowCardinality
  <2>5. ASSUME NEW i \in adopted.indexes
        PROVE  /\ i.expr # "quoted" => "index" \notin suggestions
               /\ field.identifier /\ i.kind = "token" => ~column.type.null
               /\ field.identifier /\ stage = "done" => "column name" \in targets
    <3>1. i \in config.indexes /\ i.expr \in {"name", "path", "quoted"}
      BY <1>0, ConfigShape DEF AdviceInConfig, SkipIndexes
    <3>2. i.expr # "quoted" => "index" \notin suggestions
      BY <2>2, <3>1 DEF FieldSuggestions, IndexSuggestion
    <3>3. field.identifier => IsBareColumnName(i.expr)
      BY <3>1 DEF IsBareColumnName
    <3>4. ASSUME field.identifier, i.kind = "token"
          PROVE  ~column.type.null
      <4>1. stage # "routed" /\ FulltextIndexed
        BY <1>0, <1>3, <3>1, <3>3, <3>4 DEF TypeOK, FulltextIndexed
      <4>2. nonNull
        BY <1>0, <4>1 DEF Keyed, MustNotBeNull
      <4> QED  BY <2>1, <4>2, FlatColumnIs DEF IsNullable
    <3>5. ASSUME field.identifier, stage = "done"
          PROVE  "column name" \in targets
      BY <1>0, <3>1, <3>3, <3>5 DEF Targeted, NormalizeIndexExpr
    <3> QED  BY <3>2, <3>4, <3>5
  <2> QED  BY <2>3, <2>4, <2>5 DEF AdviceIsFollowed
<1> QED  BY <1>1, <1>2, <1>3

-----------------------------------------------------------------------------
(* The theorems *)

(* There is a column exactly from the moment it is built, of a type, with a *)
(* codec and a default the table model has. *)
THEOREM TypeCorrect ==
  Spec => []TypeOK
<1>1. Inductive => TypeOK
  BY DEF Inductive
<1> QED  BY <1>1, SpecInductive, PTL

(* _resolve_base_type, _leaf_ch_type and the table of types yield only what *)
(* ClickHouse takes inside the wrapper put around it. *)
THEOREM TypesAreAccepted ==
  Spec => []TypesAccepted
BY InductiveTypes, SpecInductive, PTL

(* _narrow_integer: the same width in every place, and one the sample fits, *)
(* for ClickHouse's 64-bit types too. *)
THEOREM NarrowingIsUniform ==
  Spec => []NarrowingUniform
BY InductiveNarrowing, SpecInductive, PTL

(* _codec_for never picks a codec ClickHouse refuses for the column's type. *)
THEOREM CodecsAlwaysFit ==
  Spec => []CodecFits
BY InductiveCodecs, SpecInductive, PTL

(* A column's integer type differs from the mapping's exactly where the     *)
(* statement says that _narrow_integer changed it. *)
THEOREM NarrowingIsAlwaysSaid ==
  Spec => []NarrowingIsSaid
BY InductiveNarrowingSaid, SpecInductive, PTL

(* An override replaces what mapping and sample say in every place; inside  *)
(* it nobody looks, and a Nullable may still go around it. *)
THEOREM OverrideAlwaysDecides ==
  Spec => []OverrideDecides
BY InductiveOverride, SpecInductive, PTL

(* Taking advice has its effect, however often and in whatever order, and   *)
(* settles it unless the index names its column in backticks or blanks. *)
THEOREM AdviceIsAlwaysFollowed ==
  Spec => []AdviceIsFollowed
BY InductiveAdvice, SpecInductive, PTL
=============================================================================
