# Specifications of ch-converter

TLA+ models of the Elasticsearch to ClickHouse converter, the TLC
configurations that check them and the TLAPS proofs about them. Paths below
are relative to `ch_converter/` unless they say otherwise. `PROJECT.json`
holds the same facts for tools: components, runs, mutants, the source lines of
every definition, findings, hazards and theorems.

## The system

The program has two halves that share nothing but a process.

**The conversion** is a pure function. `POST /convert`, `POST /convert/bulk` and
the command line all call `conversion/_service.py:convert_index`, which parses a mapping
(`mapping/`), loads a config (`ddl/_config.py`) and generates a table
(`ddl/_builder.py`). No state survives a request. What is hard here is not
timing but the number of combinations: a root can be detected as dynamic or
nested, pinned by config, sit below another root, share a top-level key with a
third one, and its columns can collide with those of yet another path. Below
that, the type of one column follows from the mapping, the config, a sample, the
sort key and the indexes, decided in five functions that must agree.

**The live sessions** (`elasticsearch/`, `main.py`) are concurrent. An
application-wide `SessionStore` maps session ids to `EsClient`s. Every request
is a coroutine on one asyncio event loop; a sweeper task reaps idle sessions;
the application's lifespan cancels the sweeper and closes what is left. A
coroutine runs alone between two awaits, so everything that can go wrong goes
wrong at an await.

### Components

| component | state | operations | properties that make it correct | status |
|---|---|---|---|---|
| session store `elasticsearch/_session.py` | `_sessions`: id → client, `last_used` | `create`, `get`, `remove`, `sweep`, `close_all` | a stored client is open; one closer per client; an expired session stays expired; only idle sessions are reaped | modelled |
| routes `elasticsearch/_routes.py` | none of its own: what a handler holds across an await | connect, templates, data streams, indices, import, disconnect | a client that was created is stored or closed, on each path but the one `NoOrphan` finds; failures have the right status code | modelled |
| client `elasticsearch/_client.py` | the httpx client | `create`, `info`, `_request`, `aclose` | `EsError` for every upstream failure | partly: by its outcomes |
| lifespan and sweeper `main.py` | the sweeper task | sleep/sweep loop, cancel, `close_all` | every lapsed session is reaped; a shutdown leaves open only what a failed closing left | modelled |
| discovery `elasticsearch/_discovery.py` | none: what an import holds between its requests | lists; import in up to three requests | what is imported was there during the import | modelled |
| ILM translation `elasticsearch/_ilm.py` | none | policy → advice | the advice is that of a policy the item had | modelled: what the advice is about |
| mapping parser `mapping/` | none | `parse_mapping` and its three walks, `_locate_mappings` | every leaf is found once by the right walk | partly: not runtime fields, dynamic templates and the attributes of a field |
| object routing `ddl/_routing.py` | none | detect, pin, honour, hoist, merge, claim | one column per top-level key; no leaf lost; a pin that loses is reported | modelled, but the value type of a Map |
| builder `ddl/_builder.py` | none | sort key, non-null columns, columns, collisions, skip indexes, validation | the sort key exists and can be sorted by; reasons against `Nullable` reach their column | modelled |
| column construction `ddl/_columns.py` | none | one builder per kind of column | types ClickHouse accepts, one width in every place; an override replaces what mapping and sample say | modelled |
| type map, codecs `ddl/_type_map.py`, `ddl/_codecs.py` | none | `map_scalar`, `narrowest_int`, `default_codec` | a narrowed type holds the sampled range; a codec fits its type | modelled |
| optimizer `ddl/_optimizer.py` | none | `use_low_cardinality`, suggestions | advice that was taken has its effect and is not repeated | partly: not the notes on runtime fields and dynamic templates |
| renderer `ddl/_renderer.py`, `ddl/_table_model.py` | none | names, quoting, layout | distinct names | partly: names |
| config loader `ddl/_config.py` | none | `load_index_config` | a value that cannot be loaded is a client error | modelled |
| sampling `sampling/` | accumulators | `observe`, `profile_samples` | the profile is exact about what was seen, in any order | modelled |
| conversion service `conversion/` | none | `convert_index` | – | modelled |
| convert routes `_routes.py`, `_schemas.py` | none: the slots so far | `convert`, `convert/bulk` | one slot per request, each its own | modelled |
| logging, metrics, schemas of the Elasticsearch routes, CLI, Helm chart | – | – | – | no: library set-up, data containers, file I/O, deployment |

### How they interact

- A handler calls `SessionStore.get`/`create` in one piece with its own code
  and awaits only the cluster and `aclose`. `remove` pops the session, then
  awaits `aclose`; `sweep` and `close_all` call `remove` in a loop over a list
  they made before the first await.
- The sweeper and the handlers share the store; the lifespan cancels the
  sweeper but does not wait for it, so both run during a shutdown.
- Inside a conversion each stage reads what the earlier ones wrote: the routes
  decide which fields stay flat, those decide the default sort key, the sort key
  decides which columns are not `Nullable`, and the collisions decide which
  columns the sort key is checked against.
- An import is up to three requests to a cluster that others write to
  meanwhile; its prefill and advice are built from whatever each found.
- A batch of `/convert/bulk` shares one loop: an exception that is not one of
  `_CLIENT_ERRORS` takes all the slots with it.

### What is hard to test

`PROJECT.json` lists the hazards at their lines. In short: the sweeper's list
is stale by the time it is used; a query can reach a session between its expiry
and its reaping; disconnect, sweep and shutdown race to close the same client;
a shutdown interrupts the sweeper half-way through a closing; a client created
by a failing connect has to be closed on each path; and, in the conversion,
merging roots can lose leaves, pins and sort keys without a word, a token index
can miss the column it must keep from being `Nullable`, narrowing can differ
between places, and taken advice can come back. An import can mix two states of
the cluster, and one bad request can shift or fail the others of its batch.

## Modules

| module | models | role |
|---|---|---|
| `SessionLifecycle` | what the session API promises | abstract specification |
| `EsSessions` | store, routes, client, sweeper, lifespan, composed | detailed specification; refines `SessionLifecycle` |
| `SessionLifecycleProofs` | – | theorems about `SessionLifecycle` |
| `EsSessionsProofs` | – | inductive invariant and theorems about `EsSessions`; that it refines `SessionLifecycle` |
| `MappingParser` | `mapping/_parser.py`, `_dynamic.py` | operators |
| `ObjectRouting` | `ddl/_routing.py` | operators |
| `Conversion` | `conversion/_service.py`, `ddl/_builder.py`, the column builders | state machine over the two modules above |
| `ConversionProofs` | – | inductive invariant and theorems about `Conversion` |
| `NarrowInt` | integer types and `narrowest_int` of `ddl/_type_map.py` | operators |
| `NarrowIntProofs` | – | theorems about `NarrowInt`, shared by the next two |
| `Sampling` | `sampling/`, `_narrow_integer` of `ddl/_columns.py`, `use_low_cardinality` of `ddl/_optimizer.py` | state machine over `NarrowInt` |
| `SamplingProofs` | – | inductive invariant and theorems about `Sampling` |
| `ColumnTypes` | `ddl/_columns.py`, `_type_map.py`, `_codecs.py`, and the parts of `_builder.py` and `_optimizer.py` about one field | state machine over `NarrowInt` |
| `ColumnTypesProofs` | – | inductive invariant and theorems about `ColumnTypes` |
| `ConvertRoutes` | `_routes.py`, `_schemas.py`, `ddl/_config.py`, `_locate_mappings` of `mapping/_parser.py` | state machine |
| `ConvertRoutesProofs` | – | inductive invariant and theorems about `ConvertRoutes` |
| `Discovery` | `elasticsearch/_discovery.py`, `_ilm.py`, beside a cluster | state machine |
| `DiscoveryProofs` | – | inductive invariant and theorems about `Discovery` |
| `MCEsSessions`, `MCConversion`, `MCSampling`, `MCColumnTypes`, `MCConvertRoutes`, `MCDiscovery` | – | values of the constants for TLC |

A definition whose comment starts with "Mutant:" is a faulty variant of another
one, a bug such code could have. Nothing uses them; `PROJECT.json`
pairs each with a property that fails when it takes the definition's place, so
every property is known to be able to fail.

### EsSessions

An action is one stretch of code between two awaits that suspend.

| state | code |
|---|---|
| `store` | keys of `SessionStore._sessions`; a session is named by the client it owns, as ids are never reused |
| `idle` | `time.monotonic() - last_used`, in ticks, up to `TTL + 1`, the first value that is expired |
| `client` | the httpx client: none, open, closing (inside `aclose`; httpx refuses requests from then on) or closed |
| `fault` | history: what went wrong with the client, a garbled greeting or a closing that raised or was cancelled |
| `task`, `using` | where every coroutine is suspended and the client it holds in a local variable |
| `asked`, `age` | requests the query has sent, ticks since it got its client |
| `reply` | the last response: status code and cause |
| `sweepQueue`, `timer` | what is left of `sweep`'s list; what is left of the sweeper's sleep |
| `endedBy` | history: which code popped the session |

Connect is `ConnectBegin` (create the client, send `info`) and one of
`ConnectOk`, `ConnectEsError` then `ConnectAborted`, or `ConnectGarbage` (a
greeting that is not a JSON object raises past `except EsError`). The four
queries differ in how many requests they make, so they are one:
`QueryBegin`, `QueryMore`, and an ending. Disconnect, `SweepLoop` and
`CloseAllLoop` share `StoreRemove`, as the code shares `remove`. The model
names the failures that have no handler of their own: `aclose` that raises
(`CloseMayFail`) ends the sweeper task, ends `close_all` early, or makes a
disconnect answer 500; a query whose client was closed between two requests
gets httpx's `RuntimeError`, which `_guard` lets through as a 500.

Three failures leave a client unclosed, and the model leaves it in the state it
then has. A connect whose greeting is garbled drops its client, open and without
an owner (`ConnectGarbage`); a closing that raises, or that the end of the
sweeper cuts short, leaves its client in the closing state with nobody awaiting
it (`CloseRaised`, `SweepCancelled`). `fault` only remembers which it was, so
that a property can say that nothing else does. `NoOrphan`, which allows none of
them, is violated (run `sessions_orphan`).

`SessionLifecycle` knows sessions and callers only. The refinement maps a
stored session to `live` or `expired` by its idle time, a session that left the
store to `revoked`, `reaped` or `halted` by who took it out, and a querying
handler to a caller being served.

### MappingParser, ObjectRouting, Conversion

A mapping is the sequence of its nodes in document order, each with a path and
a kind. The recursive walks of the parser become conditions on the kinds of the
nodes above a node: `_walk` goes on below plain objects only, `_collect_leaves`
below objects and nested fields, `_declared_leaves` stops at every pocket.
Without recursion the operators remain within reach of a proof. `At` and `Only`
are the list comprehensions of the source, with a set where `SelectSeq` and the
folds take an operator, which the provers cannot instantiate.

`WellFormed` says what a properties tree is: no two nodes have one path, and only
a node that holds properties has nodes below it. Both hold of every properties
tree Elasticsearch returns. As in the code, a node with `properties` is an
`object` whatever type it states; an alias with `properties`, which Elasticsearch
refuses, and a key with a dot in it (`subobjects: false`) are not considered. A
nested field without `properties` is a kind of its own, "bare": inside another
nested field `_collect_leaves` takes it for a leaf, while one with empty
`properties` has none.

`Conversion` has one action per stage of `convert_index` and `generate_ddl`.
A column is what it stores: a kind, a name, the path it was built for and the
leaves it has room for. Key names are sequences of words so that `a.b` and
`a_b` collide as they do in `to_column_name`. Warnings are records of a kind
and a subject. What a column's type is, and everything else about one field,
is in `ColumnTypes`; the text of the statement is left out.

The operators were compared with the program: the columns, names, hints, sort
key and warnings of the 42,660 finished conversions of the run `conversion`
agree with what the Python code returns for the same inputs.

### NarrowInt and Sampling

An action of `Sampling` is one scalar that reaches the accumulator of its field
(`Observe`), one skipped line (`Skip`), or the making of the profile
(`Profile`). `_flatten` may hand the scalars of a document to any fields in any
number, so every order of observations is a sample. A value has a JSON type and
the number it stands for; `Key` is Python's equality, by which `1`, `1.0` and
`True` are one member of a set. `seen` is history: the properties compare the
capped, order-dependent evidence with the plain set of values.

The bounds of the types are a constant, `Half`, with one assumption: each width
is at least twice the one before. TLC uses 2, 4, 8 and 16; ClickHouse's are
2^7, 2^15, 2^31 and 2^63, and the proofs hold for both.

### ColumnTypes

`Conversion` says which columns there are; `ColumnTypes` follows one field
through the stages that decide what its column looks like. `place` is where
the routing put the field: a flat column, a leaf of a `Nested`, a leaf of an
array, a hint in a JSON column.

| action | code |
|---|---|
| `NonNullColumns` | `_non_null_columns` with `_fulltext_indexed_columns`, before any column is built |
| `BuildColumn`, `BuildNestedSubColumn`, `BuildArrayColumn`, `BuildJsonHint` | the builder of each place, with its warnings and suggestions |
| `BuildIndexes` | `_build_indexes`, `_normalize_index_expr` |
| `AdoptLowCardinality`, `AdoptIndex` | the user takes a suggestion into the config and converts again |

A type is its outermost constructor, an integer type the record `NarrowInt` has
for it: what `supports_nullable`, `is_integer` and the codecs look at. A codec
is its first stage. What an override says is any type, those with a wrapper of
their own included: the code looks inside none of them.

Two functions read the expression of an index, each in its own way:
`index_suggestion` compares it, as text, with the column name and the path;
`_bare_column_name` takes off blanks and backticks and asks whether an identifier
is left. So the model has an index on the name, on the path, on either in
backticks ("quoted") or on an expression, and a field knows whether its path is
an identifier (`@x` is none). A quoted name is one to `_bare_column_name` only, a
path that is no identifier to `index_suggestion` only. `adopted` is history:
which of the settings in the config came from advice.

The columns, index targets, warnings and suggestions of every initial state of
`MCColumnTypes`, 260,480 of them, were compared with those `generate_ddl` gives
for the same field, config and sample (the bounds of `narrowest_int` scaled as
`Half` is): they agree.

### ConvertRoutes

An action is one turn of `convert_bulk`'s loop, or the whole of `convert`. A JSON
value is its kind and what it holds, which is what Python's `tuple()`, `dict()`
and `int()` raise on; `LoadIndexConfig`, `ParseMapping` and `GenerateDdl` give
the first exception of each stage, in the order in which the code evaluates. The
conversion itself is otherwise taken to succeed, as `Conversion` has it.
`Refused` is FastAPI's validation of the whole body. The outcomes of the values
of each key, 26,310 combinations of them, were compared with what the Python
code raises: they agree.

### Discovery

An action is one request of an import, or one change of the cluster between two
of them: a rollover, the deletion of the oldest index, a new mapping, an index
mounted from a snapshot, another policy, the end of the item. The cluster is
external and known by what `_discovery.py` reads of it. An import of a template
takes two requests (simulation, policy), of a data stream three (listing,
mapping, policy), of an index three (mapping, settings, policy); each may fail.
`effective`, `linked`, `stored` and `mounts` are history: what the cluster
had at some time since the import began, and the mappings of the indices that
were mounted meanwhile. Imports share no state, so there is
one. Names are not spelled out; what matters of them is their order, and that
a mounted index gets a prefix that sorts after all others.

## Runs

| run | bounds | checks | states |
|---|---|---|---|
| `sessions` | 3 clients, 2 handlers, TTL 2, interval 1, deadline 2, 2 requests, closing may raise | the safety properties, `ServedIsLive`, `LifecycleSpec` | 99,381 (symmetry) |
| `sessions_live` | 2 clients, 2 handlers, all times 1, 1 request, closing does not raise | `ShutdownEnds`, `LifecycleFairSpec` | 21,341 |
| `conversion` | every mapping over `a`, `a.b`, `a.b.d`, `a.c`, `a_b`, with every single pin and the pairs on `a` and `a.b` | where each leaf goes | 128,455 |
| `sampling` | one field, five values of 13, distinct cap 2, `LowCardMax` 1, four small widths | evidence, narrowing, `LowCardinality` | 65,564 |
| `column_types` | 37 fields in four places, up to two things said in the config, ten samples, the same widths | types, codecs, overrides, narrowing, advice | 1,377,256 |
| `convert_routes` | batches of up to three requests that differ from a good one in a value or two | slots and warnings | 1,511,938 |
| `discovery` | three mappings, two policies, two bodies, streams of two indices, three changes | what is imported | 767,808 |
| `sessions_orphan` | one client, one handler, all times 1 | a finding | – |
| `conversion_root_twice`, `conversion_nested` | as `conversion` | a finding each | – |
| `column_not_null` | as `column_types` | a finding | – |
| `convert_isolation` | as `convert_routes` | a finding | – |

**Why these bounds.** Two handlers and the two background tasks are enough for
every race of the store, which are races for one session; the third client
gives the sweeper and `close_all` lists of more than one, which is what makes
them stale. A TTL of 2 with a deadline of 2 lets a query last exactly as long
as a session may be idle, the tightest case the assumption allows. Two requests
per query are enough for a client to be closed between two of them; a third
adds no new kind of step. The clients of a run are used up, as ids are in the
program, so a run ends in states where requests can only be refused or the
process stops. In the mappings three levels give a root in a root in a root,
`a.c` a sibling, and `a_b` a collision with `a.b`. The fields of a sample do not
influence each other, so one is enough; five values exceed the distinct cap,
and suffice for two distinct values to be fewer than half of all; the thirteen
values lie at the bounds of the types, across zero, and beyond every type.

The fields of `column_types` are one of each class the code tells apart, with
each kind of `null_value` and each combination of what the suggestions look at.
Two settings suffice for each to meet each other one, and taken advice adds
more. The samples lie at both sides of a bound, across zero, and beyond
every type. A batch of three has a request before and after the one that fails,
and may fail twice. Three changes are one for each pause of the longest import and
one more; a stream of two indices has one that is not the write index, and grows
back after its oldest index is deleted. The proofs below have none of these bounds.

### What the properties say

*Sessions.* `StoredIsOpen`: whoever closes a client took its session out of the
store first. `ClosedOnce`: one closer. `OnlyFaultsOrphan`: a client that is open
is stored or held by a connect, and one that is closing is awaited, unless its
greeting was garbled or its closing raised or was cancelled; no interleaving
forgets a client by itself. `SweepListExpired`: the sweeper's
stale list is harmless, what it still finds is still expired. This is true
only because `get` refuses expired sessions: the mutant without that test
breaks it. `NoRevival`: an expired session never becomes usable again and the
sweeper ends no other. `InUseEndsByDisconnect`: only a disconnect takes the
client from a query under way. `CleanShutdown`: after a shutdown, one that failed
included, every client is closed but those one of the three faults struck, and,
if a closing of `close_all` itself raised, those still in the store, where
`close_all` stopped. `ServedIsLive`: a query is served by a live session or one
its owner ended. `LifecycleSpec`: all of it refines the abstract
lifecycle. `ShutdownEnds` and `LifecycleFairSpec`: a shutdown ends, and a
session that lapsed is ended.

*Conversion.* `ContainersOwnTheirKey`: an object column sits at a top-level key
and nothing lies below it, unless config flattened a root there.
`NothingLostSilently`: every leaf that holds data lands in a column, or a
warning says what happened to the column, override or key it belonged to.
`MappingDecides`: without pins a JSON root that lies in no nested field makes its
top-level key a JSON column, and a nested field makes its key a `Nested`, or a
warning names it. It leaves out a nested field at the top of a document with
a dynamic object inside, which becomes JSON without a word: `NestedStaysNested`
says what `docs/configuration.md` says of it and is violated.
`PinsBelowTopHonoured`: a pin decides its top-level key or is reported.
`DefaultSortKeyIsDate`, `SortKeysChecked`: the default sort key is a date
column of the table, and a sort key ClickHouse cannot use is reported.

*Sampling.* `RangeIsTight`: both ends of the range were seen and no integer lies
outside, in any order. `DistinctIsExact`: the set is complete unless the flag
says otherwise, and the flag is up exactly when there were more values than the
cap. `NarrowedHoldsInts`, `NarrowedIsNarrowest`: a narrowed column holds every
sampled integer that any type could hold, and no narrower type does.
`LowCardinalityIsEarned`: forgetting values beyond the cap never changes the
decision; this needs `_LOW_CARD_MAX_DISTINCT` not to exceed `_DISTINCT_CAP`,
which is part of `BoundsAssumption`.

*Columns.* `TypesAccepted`: `Nullable` only around a scalar, `LowCardinality`
only around a string, where the type is not the user's. `NarrowingUniform`: one
width in every place, and the sample fits. `CodecFits`: a codec the converter
picks goes with the type after override and narrowing. `OverrideDecides`: in
every place an override replaces what mapping and sample say, is neither narrowed
nor made `LowCardinality`, and nothing is said of the type it stands for; that a
`Nullable` may still go around it is part of the statement. `NarrowingIsSaid`: a
type differs from the mapping's exactly where the advice says so, the only hint
there is that a `null_value` or a later row may not fit. `AdviceIsFollowed`:
taken advice has its effect (`LowCardinality` on the column; no `Nullable` under
a token index; the index on the column's own name) and is not given again. An
index with its name in backticks is the exception, it is advised again.

*Routes.* `SlotsAreOwn`: a slot is about the request in its place and has the
outcome and the warnings `/convert` would have given to it alone.

*Import.* `MappingWasEffective`: the mapping is one the write index had since the
import began. There are two exceptions, and mounting an index is the only way to
either: of a data stream the mapping may be that of a mounted index, and an index
that was mounted under another name has none. `AdviceWasStored`: the advice is that
of a policy the item named and of a body that policy had since then. Both bodies
may be older than the name that leads to them, and mapping and advice may be of
different moments: the code promises no snapshot and Elasticsearch offers none.

### Fairness

`FairSpec` assumes weak fairness of a handler that waits, of the sweeper, of a
shutdown under way, and of time. The event loop runs every ready task; the
timeouts of httpx (`elasticsearch/_client.py:17`) end every request, and a
closing ends. No fairness is assumed of clients sending requests, or of the
server stopping. `TimeAssumption` (`Deadline <= TTL`) stands for the same
timeouts, seconds against the half hour of `DEFAULT_TTL_SECONDS`: they bound
each read and not the answer, so a cluster that trickles its answer for half an
hour is outside the model. `LifecycleFairSpec` is checked for closings that do
not raise: one that raises ends the sweeper task for good (`main.py:29`), and
from then on idle sessions stay.

## Where code and documents part

Five runs have `expect: violation`; each statement is quoted in `PROJECT.json`.

1. `NoOrphan`: a greeting that is not JSON leaves a client open that nobody owns.
2. `NoRootTwice`: a flattened root below a hoisted key is emitted twice.
3. `NestedStaysNested`: a nested field with a dynamic object in it becomes JSON,
   without a word.
4. `ForcedNonNull`: a token index on an expression leaves its column `Nullable`.
5. `FailureIsIsolated`: an `AttributeError` in one slot fails the whole batch.

Others were met while modelling. The models do what the code does, and where a
property would have said otherwise it names the exception; they have no run.

| the code | what is said of it |
|---|---|
| a 200 that is not the JSON expected is a 500 | `elasticsearch/_routes.py:86` "Surface upstream Elasticsearch failures as 502s." |
| a map pin on a top-level key with a detected root below it is silently ignored | `docs/configuration.md:133`, where `map_fields` forces a Map |
| a skip index on a path inside a `Nested` or JSON column is put on a column that is not in the table | `ddl/_builder.py:210` "so the index targets the column the builder actually emitted" |
| the leaves in a pocket of a JSON root get no column when config routes the root elsewhere | `mapping/_parser.py:127` "the enclosing JSON column already covers them" |
| narrowing ignores texts and floats in an integer field, so rows of the very sample may not fit | `README.md:75` "width is for correctness (no overflow)" |
| an override `LowCardinality(String)` becomes `Nullable(LowCardinality(String))` | `ddl/_columns.py:3` "Type wrapping order is LowCardinality(Nullable(String))" |
| an override `Nullable(...)` on a sort key stays | `docs/configuration.md:97` "the converter strips `Nullable` from them automatically" |
| `not_null` has no effect on a field inside a `Nested` | `docs/configuration.md:236` "Force these fields to be **non-nullable**" |
| an aggregate with its metrics is a tuple when flat and a string in a `Nested` or array | `ddl/_columns.py:327` "so nested and flattened sub-columns stay consistent" |
| a request that makes the conversion raise `AttributeError` is a 500 | `_routes.py:10` "Bad request bodies surface as these" |
| a mounted backing index sorts after the write index | `elasticsearch/_discovery.py:126` "the write index sorts last" |
| an index that was mounted under another name is imported with an empty mapping and a 200 | `README.md:52` "import effective mappings" |

More contradict no document: a `null_value` outside the sampled range does not
fit the narrowed type; an override `Nullable(...)` in a flat column becomes
`Nullable(Nullable(...))`; advice taken as an index with its name in backticks is
given again; a node of a mapping that is no object, and an unknown key of an index
spec, are ignored without a warning; a top-level date with dots in its name gives
a prefilled partition key about a column that is not emitted; an `aclose` that
raises ends the sweeper for good, and ends `close_all` with sessions left open.

## Proofs

`EsSessionsProofs` proves for any finite or infinite sets of clients and
handlers, and every `TTL`, `Interval`, `Deadline <= TTL` and `MaxRequests > 0`:

| theorem | property |
|---|---|
| `Invariance` | the inductive invariant `IInv` |
| `TypeCorrect` | `TypeOK` |
| `StoredClientsAreOpen` | `StoredIsOpen` |
| `ClientsAreClosedOnce` | `ClosedOnce` |
| `OnlyFaultsForgetClients` | `OnlyFaultsOrphan` |
| `SweepListIsCurrent` | `SweepListExpired` |
| `OnlyDisconnectInterrupts` | `InUseEndsByDisconnect` |
| `ShutdownLeavesOnlyFaults` | `CleanShutdown` |
| `ExpiredStaysExpired` | `NoRevival` |
| `Refinement` | `LifecycleSpec`, the refinement of `SessionLifecycle` |
| `QueriesAreServedLive` | `ServedIsLive` of `SessionLifecycle`, of the mapped state |
| `SessionsEndForGood` | `EndIsFinal` of `SessionLifecycleProofs`, of the mapped state |

None of the properties is inductive alone. `IInv` adds who holds what:

- `HoldsClient`, `ConnectOwns`, `ClosesClosing`: a task at an await holds a
  client, the client of a connect is open, not stored and its own, and a client
  a task closes is in the closing state. With these a pop can only hit an open
  client nobody else closes, which gives `StoredIsOpen` and `ClosedOnce`.
- `QueryLease`: the session of a query has been idle no longer than the query
  has lasted, or a disconnect ended it. With `age <= Deadline <= TTL` the
  sweeper cannot find it expired: this is where `TimeAssumption` is used.
- `SweepListed`: what the sweeper listed is expired, or was ended.
- `Drained`, `Emptied`: no request is left once the shutdown began, and a
  shutdown that ended emptied the store.
- `OpenIsOwned`, `ClosingIsAwaited`: the two halves of `OnlyFaultsOrphan`.
- `Faultless`, `Halts`: no session, connect or closing has a client that a fault
  struck, and a shutdown failed because a closing of its own raised. With `Emptied`
  they give `CleanShutdown`.

There is one lemma per action, or per group of actions that change the same
variables (`AnswerInv` is every handler that only answers, `SweepPopInv` and
`ShutdownPopInv` the two callers of `remove`); `HandlerInv`, `SweeperInv` and
`ShutdownInv` collect them along the disjuncts of `Next`.

The refinement needs one fact more, `Unended`: a client that no session had yet
was never taken out of the store, so a connect stores a session that is new to
the promise. `RInv` is `IInv` with it; TLC checked it on the run `sessions` before
it was proved. `Life` and `Served` give the mapped state client by client and
handler by handler, and a lemma per step of `SessionLifecycle` (`OpenMaps` and
those after it) says what a step of the service must change for it to be that
step. Each action of `EsSessions` is then one of them or a stutter: a connect
that succeeds opens, a pop revokes, reaps or halts, `Tick` lapses the sessions
that reach the TTL, a query that begins is granted and one that ends is released.
`IInv` is needed throughout: the promise lets a session lapse only while nobody is
served by it, which is `QueryLease`, and halts only when no caller is served, which
is `Drained`.

`SessionLifecycleProofs` proves about the promise itself, for any sessions and
callers: `LifecycleTypeCorrect` (`TypeOK`), `ServedSessionsAreLive` (`ServedIsLive`,
inductive with the types, `LInv`) and `EndedSessionsStayEnded` (`EndIsFinal`).
`QueriesAreServedLive` and `SessionsEndForGood` carry the last two over to the
service by `Refinement`.

`ConversionProofs` proves for any set of well-formed mappings, of any size and
depth, and any set of configs:

| theorem | property |
|---|---|
| `ConversionInvariance` | the inductive invariant `Computed` |
| `ConversionTypeCorrect` | `TypeOK` |
| `NothingIsLostSilently` | `NothingLostSilently` |
| `TheMappingDecides` | `MappingDecides` |
| `ContainersOwnKeys` | `ContainersOwnTheirKey` |
| `PinsBelowTopAreHonoured` | `PinsBelowTopHonoured` |
| `DefaultSortKeyIsADate` | `DefaultSortKeyIsDate` |
| `SortKeysAreChecked` | `SortKeysChecked` |

The properties speak of finished conversions and none is inductive: nothing in
them says what the routes are before the columns are built. `Computed` says that
each stage left what the operators make of the mapping and the config, and that
its warnings are still there; TLC checked it on the run `conversion`. After that
the properties are about the operators, and the bulk of the module says of each
one which elements the sequence it returns has (`ParsedMapping`,
`ElementsOfRoutes`, `ElementsOfHoisted`, `ElementsOfColumns`). The order of the
elements is only looked at where the code does: which of several routes with one
path wins (`WinnerOfMembers`) and which date field comes first.

`NothingIsLostSilently` is the longest argument. A leaf that holds data and that
the walk of the parser reached is a field, and either keeps a column of its own or
lies under a route that claims it (`TypedFields`), whose column has room for it
(`LeavesUnder`, `OwnedCaptured`). One it did not reach has a topmost node above it
that stopped the walk (`Topmost`): an open one is a JSON root (`OpenAbove`), a
nested one is a nested group (`NestedAbove`), and hoisting takes either to the
top-level key of the leaf.

Two assumptions name what the constants are. `MappingsAssumption`: every mapping
is `WellFormed`, as any tree is. `ConfigsAssumption`: pins are sequences of paths
and materialized names are sequences of keys, as `load_index_config` leaves them. TLC evaluates
both on the runs of `Conversion`.

`NarrowIntProofs` proves for any four widths that at least double that
`narrowest_int` picks a type that holds a range, and none narrower does, if any
type holds it (`NarrowestIntIsRight`). `SamplingProofs` proves, from that, for
any fields, any set of values, every cap and every number of observations:

| theorem | property |
|---|---|
| `InductiveAlways` | the inductive invariant `Inductive` |
| `TypeCorrect` | `TypeOK` |
| `RangesAreTight` | `RangeIsTight` |
| `DistinctSetsAreExact` | `DistinctIsExact` |
| `LowCardinalityIsJustified` | `LowCardinalityIsEarned` |
| `NarrowedColumnsHoldInts` | `NarrowedHoldsInts` |
| `NarrowedColumnsAreNarrowest` | `NarrowedIsNarrowest` |

`RangeIsTight` is inductive with `TypeOK`. `DistinctIsExact` is not: it says
nothing of a capped set, and without the fact that such a set has exactly one
value more than the cap (`DistinctOK`) its size says nothing about the sample.
`ProfileOK` carries the evidence into the profile.

`ColumnTypesProofs` proves for any fields, configs and samples, and any number
of times that advice is taken:

| theorem | property |
|---|---|
| `SpecInductive` | the inductive invariant `Inductive` |
| `TypeCorrect` | `TypeOK` |
| `TypesAreAccepted` | `TypesAccepted` |
| `NarrowingIsUniform` | `NarrowingUniform` |
| `CodecsAlwaysFit` | `CodecFits` |
| `OverrideAlwaysDecides` | `OverrideDecides` |
| `NarrowingIsAlwaysSaid` | `NarrowingIsSaid` |
| `AdviceIsAlwaysFollowed` | `AdviceIsFollowed` |

No property speaks of how a column came about, so none is inductive. `Built` says
that a column is still what its place makes of the field and the config, `Keyed`
that `nonNull` still says what the config says, `Targeted` that the rendered
indexes are those of the config, and `AdviceInConfig` that taken advice is in the
config of a flat column. The properties then follow from the
operators: `map_scalar` yields a scalar or one of three composites
(`MapScalarType`, `NullableMapped`), narrowing changes integer types only, and to
integer types (`NarrowedType`), and a keyword is a string (`KeywordIsString`).

`ForcedNonNull` has no theorem: the code violates it.

`ConvertRoutesProofs` proves for any requests and batches of any length:

| theorem | property |
|---|---|
| `SpecInductive` | the inductive invariant `Inductive` |
| `TypeCorrect` | `TypeOK` |
| `SlotsAreAlwaysOwn` | `SlotsAreOwn` |

`Turns` adds what `SlotsAreOwn` lacks: as many slots as turns are over. Without
it an appended slot could be anybody's.

`DiscoveryProofs` proves for any mappings, policies and bodies, data streams of
any length and any number of changes during an import:

| theorem | property |
|---|---|
| `SpecInductive` | the inductive invariant `Inductive` |
| `TypeCorrect` | `TypeOK` |
| `MappingsWereEffective` | `MappingWasEffective` |
| `AdviceWasAlwaysStored` | `AdviceWasStored` |

`Remembered` says that what the cluster has now is part of the history, and
`MappingFound` and `PolicyFound` that so is what the import holds between two
requests. One lemma, `ChangeInductive`, serves all changes of the cluster;
`WriteIndexIsLast` is `_write_index_mappings` on indices none of which is mounted,
and `WriteIndexMappingsType` that it returns a mounted index's mapping if one is.

**Only model-checked:** liveness (`ShutdownEnds`, `LifecycleFairSpec`), which
needs fairness and is out of the prover's reach. Every invariant and every
`[][A]_vars` that a passing run checks is a theorem.

## Not modelled, and why

- The HTTP exchange, TLS, and the pool of eight connections per session: they are
  inside httpx, and a full pool is one more failed request to this code.
- Authentication, logging and metrics: set-up of libraries.
- The layout and quoting of statements and the wording of warnings: text, about
  which no property speaks. What warnings and advice are about is modelled.
- Runtime fields, dynamic templates and multi-fields of a mapping: they become
  notes, and attributes of a field that `ColumnTypes` takes as given.
- The value type of a `Map`, chosen from the types of its leaves.
- The command line tool: it reads files, converts once and writes one.
- The schemas of the Elasticsearch routes, validated by pydantic.

## Plan

Done: sessions, routing and sampling first, because that is where the state and
the combinations are; then the columns of one field, the convert routes and the
import. Every safety property a run checks is proved. What is left:

1. Proofs: lemmas about `Conversion` that no property states yet, first that
   `KeptColumns` keeps exactly one column of each name.
2. Proofs: that a conversion ends in a state which depends on the mapping and the
   config only, so that converting twice gives the same table (from `Computed`).

## Running

    tlc -config MCEsSessions.cfg MCEsSessions.tla
    tlc -config MCConversion.cfg MCConversion.tla
    tlc -config MCSampling.cfg MCSampling.tla
    tlc -config MCColumnTypes.cfg MCColumnTypes.tla
    tlc -config MCConvertRoutes.cfg MCConvertRoutes.tla
    tlc -config MCDiscovery.cfg MCDiscovery.tla
    tlapm SessionLifecycleProofs.tla
    tlapm EsSessionsProofs.tla
    tlapm ConversionProofs.tla
    tlapm SamplingProofs.tla
    tlapm ColumnTypesProofs.tla
    tlapm ConvertRoutesProofs.tla
    tlapm DiscoveryProofs.tla
