------------------------------ MODULE Discovery ------------------------------
(***************************************************************************)
(* elasticsearch/_discovery.py and _ilm.py: the import of one item of a    *)
(* cluster, a request at a time, while the cluster goes on: its indices    *)
(* roll over, are mounted from a snapshot, and get other mappings and      *)
(* policies.  Imports share no state, so one is enough.                    *)
(*                                                                         *)
(* A data stream is its backing indices, oldest first; an index or a       *)
(* template is one.  A mapping is its top-level fields, in order.          *)
(***************************************************************************)
EXTENDS Naturals, Sequences, FiniteSets

CONSTANTS
    Mappings,       \* the mappings an item may get
    Policies,       \* the names of ILM policies
    Bodies,         \* what a policy may say
    None,           \* Python's None
    MaxBacking,     \* bound: the backing indices of a data stream
    MaxChanges      \* bound: how often the cluster changes during an import

FieldShape == [name : STRING, date : BOOLEAN]
BodyShape ==
    [delete : {None, "interval", "other"}, rollover : {None, "bound", "no bound"},
     tiers : SUBSET {"warm", "cold", "frozen"}]

ASSUME MappingsAssumption ==
    \A m \in Mappings : m \in Seq(FieldShape)
ASSUME BodiesAssumption == Bodies \subseteq BodyShape
ASSUME NoneAssumption == None \notin Policies \cup Bodies \cup STRING
ASSUME BoundsAssumption == MaxBacking \in Nat \ {0} /\ MaxChanges \in Nat

Kinds == {"template", "datastream", "index"}

VARIABLES
    kind,       \* what is imported
    present,    \* it is on the cluster
    backing,    \* its indices: mapping, and whether the index is a mounted one
    link,       \* the policy its settings name
    policies,   \* the bodies the cluster has for the names
    changes,    \* how often the cluster has changed
    phase,      \* the request import_item is about to make
    mappings, ilmPolicy,    \* what _resolve has found so far
    result,     \* the ImportResult, None when there is none
    effective, linked, stored,  \* history: the mappings of the write index, the
                                \* policies named, and the bodies since the import began
    mounts      \* history: the mappings the item's mounted indices had

cluster == <<present, backing, link, policies, changes>>
history == <<effective, linked, stored, mounts>>
vars == <<kind, cluster, phase, mappings, ilmPolicy, result, history>>

Names == Policies \cup {None}
IndexOf(m) == [mapping |-> m, mounted |-> FALSE]
WriteIndex(indices) == indices[Len(indices)]
MountedMappings(indices) ==
    {indices[i].mapping : i \in {j \in DOMAIN indices : indices[j].mounted}}
NoMapping == <<>>

(* _resolve: the first request for an item of each kind. *)
FirstPhase ==
    CASE kind = "template" -> "simulating"
      [] kind = "datastream" -> "listing"
      [] kind = "index" -> "mapping"

Init ==
    /\ kind \in Kinds
    /\ present = TRUE
    /\ backing \in UNION {[1 .. n -> [mapping : Mappings, mounted : BOOLEAN]] :
                             n \in 1 .. IF kind = "datastream" THEN MaxBacking ELSE 1}
    /\ ~WriteIndex(backing).mounted
    /\ link \in Names
    /\ policies \in [Policies -> Bodies]
    /\ changes = 0
    /\ phase = FirstPhase
    /\ mappings = NoMapping
    /\ ilmPolicy = None
    /\ result = None
    /\ effective = {WriteIndex(backing).mapping}
    /\ linked = {link}
    /\ stored = {<<p, policies[p]>> : p \in Policies}
    /\ mounts = MountedMappings(backing)

-----------------------------------------------------------------------------
(* The cluster.  What import_item reads is written by others. *)

Changes ==
    /\ phase # "answered" /\ changes < MaxChanges
    /\ changes' = changes + 1
    /\ UNCHANGED <<kind, phase, mappings, ilmPolicy, result>>

Remember ==
    /\ effective' = effective \cup {WriteIndex(backing').mapping}
    /\ linked' = linked \cup {link'}
    /\ stored' = stored \cup {<<p, policies'[p]>> : p \in Policies}
    /\ mounts' = mounts \cup MountedMappings(backing')

(* A rollover makes a new write index, with the template's mapping. *)
Rollover ==
    /\ Changes
    /\ kind = "datastream" /\ present /\ Len(backing) < MaxBacking
    /\ \E m \in Mappings : backing' = Append(backing, IndexOf(m))
    /\ UNCHANGED <<present, link, policies>>
    /\ Remember

(* The oldest index is deleted; the write index never is by itself. *)
DropOldest ==
    /\ Changes
    /\ present /\ Len(backing) > 1
    /\ backing' = Tail(backing)
    /\ UNCHANGED <<present, link, policies>>
    /\ Remember

UpdateMapping ==
    /\ Changes
    /\ present
    /\ \E m \in Mappings : backing' = [backing EXCEPT ![Len(backing)].mapping = m]
    /\ UNCHANGED <<present, link, policies>>
    /\ Remember

(* ILM replaces an index by one mounted from a snapshot: its name gets a    *)
(* prefix, restored- or partial-, and for an index that was none of a data  *)
(* stream the old name becomes an alias.  A write index is not mounted.     *)
Mount ==
    /\ Changes
    /\ present /\ kind # "template"
    /\ \E i \in DOMAIN backing :
        /\ kind = "datastream" => i < Len(backing)
        /\ ~backing[i].mounted
        /\ backing' = [backing EXCEPT ![i].mounted = TRUE]
    /\ UNCHANGED <<present, link, policies>>
    /\ Remember

Delete ==
    /\ Changes
    /\ present
    /\ present' = FALSE
    /\ UNCHANGED <<backing, link, policies>>
    /\ Remember

Relink ==
    /\ Changes
    /\ present
    /\ link' \in Names
    /\ UNCHANGED <<present, backing, policies>>
    /\ Remember

(* A policy is written, or deleted: never while an index names it. *)
PutPolicy ==
    /\ Changes
    /\ \E p \in Policies, b \in Bodies \cup {None} :
        /\ b = None => link # p
        /\ policies' = [policies EXCEPT ![p] = b]
    /\ UNCHANGED <<present, backing, link>>
    /\ Remember

-----------------------------------------------------------------------------
(* _detect_timestamp: "@timestamp" whatever its type is, else the first     *)
(* date; None if there is neither.                                          *)
DetectTimestamp(m) ==
    LET named == {i \in DOMAIN m : m[i].name = "@timestamp"}
        dates == {i \in DOMAIN m : m[i].date}
        First(S) == CHOOSE i \in S : \A j \in S : i <= j
    IN  IF named # {} THEN m[First(named)]
        ELSE IF dates # {} THEN m[First(dates)] ELSE None

(* _prefill: the field is quoted as it is in the partition key; as a sort   *)
(* key the conversion makes a column name of it.                            *)
Prefill(timestamp) ==
    IF timestamp = None THEN None
    ELSE [timestamp_field |-> timestamp.name, order_by |-> timestamp.name,
          partition_by |-> timestamp.name]

Suggestion(kindOf, about) == [kind |-> kindOf, about |-> about]

(* translate_ilm: a TTL on the timestamp column for the delete phase, a     *)
(* partitioning for a rollover and a volume for each further tier.          *)
TranslateIlm(body, timestamp) ==
    LET column == IF timestamp = None THEN "<timestamp column>" ELSE timestamp.name
    IN  (IF body.delete = None THEN {} ELSE {Suggestion(body.delete, column)})
        \cup (IF body.rollover = None THEN {} ELSE {Suggestion("rollover", body.rollover)})
        \cup {Suggestion("tier", t) : t \in body.tiers}

Asks(p) == phase = p /\ UNCHANGED <<kind, cluster, history>>
Goes(p) == phase' = p /\ UNCHANGED result
Finds(m, p) == mappings' = m /\ ilmPolicy' = p

(* The item is gone (404), or the request fails: _guard answers 502. *)
Fails ==
    /\ phase # "answered"
    /\ phase' = "answered"
    /\ UNCHANGED <<kind, cluster, history, mappings, ilmPolicy, result>>

(* Mutant: a template is asked for its settings, too. *)
ResolveTemplateSettings ==
    /\ Asks("simulating") /\ present
    /\ Finds(WriteIndex(backing).mapping, link)
    /\ Goes("settings")

(* _resolve_template: the simulation has both. *)
ResolveTemplate ==
    /\ Asks("simulating") /\ present
    /\ Finds(WriteIndex(backing).mapping, link)
    /\ Goes("policy")

(* _resolve_data_stream, first request *)
ListDataStream ==
    /\ Asks("listing") /\ present
    /\ Finds(NoMapping, link)
    /\ Goes("mapping")

(* Mutant: the first index of the response is taken. *)
WriteIndexMappingsFirst(indices) == indices[1].mapping

(* _write_index_mappings: the mapping of the index whose name sorts last.   *)
(* The names of backing indices sort by age, and a prefix sorts after them. *)
WriteIndexMappings(indices) ==
    LET mounted == {i \in DOMAIN indices : indices[i].mounted}
        Last(S) == CHOOSE i \in S : \A j \in S : j <= i
    IN  indices[Last(IF mounted = {} THEN DOMAIN indices ELSE mounted)].mapping

(* _resolve_data_stream, second request *)
ReadStreamMapping ==
    /\ kind = "datastream"
    /\ Asks("mapping") /\ present
    /\ Finds(WriteIndexMappings(backing), ilmPolicy)
    /\ Goes("policy")

(* _resolve_index, first request: an index that has another name by now     *)
(* answers under that name, where nobody looks.                             *)
ReadIndexMapping ==
    /\ kind = "index"
    /\ Asks("mapping") /\ present
    /\ Finds(IF backing[1].mounted THEN NoMapping ELSE backing[1].mapping, None)
    /\ Goes("settings")

(* Mutant: the settings of an index are read as if they were not nested. *)
ReadIndexSettingsFlat ==
    /\ Asks("settings") /\ present
    /\ Finds(mappings, None)
    /\ Goes("policy")

(* _resolve_index, second request *)
ReadIndexSettings ==
    /\ Asks("settings") /\ present
    /\ Finds(mappings, IF backing[1].mounted THEN None ELSE link)
    /\ Goes("policy")

Answer(suggestions) ==
    LET timestamp == DetectTimestamp(mappings)
    IN  /\ phase' = "answered"
        /\ result' = [mapping |-> mappings, prefill |-> Prefill(timestamp),
                      suggestions |-> suggestions]
        /\ UNCHANGED <<mappings, ilmPolicy>>

(* _ilm_suggestions: none without a policy... *)
NoPolicy ==
    /\ Asks("policy")
    /\ ilmPolicy = None
    /\ Answer({})

(* ... else those of the body the cluster has for its name now. *)
ReadPolicy ==
    /\ Asks("policy")
    /\ ilmPolicy # None
    /\ policies[ilmPolicy] # None
    /\ Answer(TranslateIlm(policies[ilmPolicy], DetectTimestamp(mappings)))

Answered == phase = "answered" /\ UNCHANGED vars

Next ==
    \/ Rollover \/ DropOldest \/ UpdateMapping \/ Mount \/ Delete \/ Relink \/ PutPolicy
    \/ ResolveTemplate
    \/ ListDataStream \/ ReadStreamMapping
    \/ ReadIndexMapping \/ ReadIndexSettings
    \/ NoPolicy \/ ReadPolicy
    \/ Fails
    \/ Answered

Spec == Init /\ [][Next]_vars

-----------------------------------------------------------------------------
Phases ==
    CASE kind = "template" -> {"simulating", "policy", "answered"}
      [] kind = "datastream" -> {"listing", "mapping", "policy", "answered"}
      [] kind = "index" -> {"mapping", "settings", "policy", "answered"}

SomeMappings == Mappings \cup {NoMapping}
TimestampNames == UNION {{m[i].name : i \in DOMAIN m} : m \in Mappings}
Prefills == [timestamp_field : TimestampNames, order_by : TimestampNames, partition_by : TimestampNames]

(* An import of each kind makes its own requests, and no others. *)
TypeOK ==
    /\ kind \in Kinds /\ present \in BOOLEAN
    /\ DOMAIN backing = 1 .. Len(backing) /\ Len(backing) \in 1 .. MaxBacking
    /\ \A i \in DOMAIN backing : backing[i] \in [mapping : Mappings, mounted : BOOLEAN]
    /\ link \in Names
    /\ policies \in [Policies -> Bodies \cup {None}]
    /\ changes \in 0 .. MaxChanges /\ mounts \subseteq Mappings
    /\ phase \in Phases
    /\ mappings \in SomeMappings /\ ilmPolicy \in Names
    /\ result # None =>
        /\ phase = "answered"
        /\ result.mapping \in SomeMappings
        /\ result.prefill \in Prefills \cup {None}

(* Whatever rolls over, goes or is updated between the requests, the        *)
(* mapping imported is one the write index had since the import began.  The *)
(* exceptions are an index mounted from a snapshot: of a data stream it may *)
(* be taken for the write index, though no other index may, and an index    *)
(* that was renamed has no mapping.                                         *)
MappingWasEffective ==
    result # None =>
        \/ result.mapping \in effective
        \/ kind = "datastream" /\ result.mapping \in mounts
        \/ kind = "index" /\ mounts # {} /\ result.mapping = NoMapping

(* The advice is that of a policy the item named and of a body this policy  *)
(* had, since the import began, and there is none only if none was named:   *)
(* a name and its body are read one after the other, and a policy no longer *)
(* named may be gone by then.  The mapping may be of another moment.        *)
AdviceWasStored ==
    result # None /\ (kind = "index" => mounts = {}) =>
        \/ None \in linked /\ result.suggestions = {}
        \/ \E p \in linked, b \in Bodies :
            /\ <<p, b>> \in stored
            /\ result.suggestions = TranslateIlm(b, DetectTimestamp(result.mapping))
=============================================================================
