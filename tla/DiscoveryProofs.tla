--------------------------- MODULE DiscoveryProofs ---------------------------
(***************************************************************************)
(* What an import finds was there since it began, proved for any mappings, *)
(* policies and bodies, data streams of any length and a cluster that      *)
(* changes any number of times between the requests.                       *)
(***************************************************************************)
EXTENDS Discovery, SequenceTheorems, WellFoundedInduction, TLAPS

Backing == [mapping : Mappings, mounted : BOOLEAN]

(* A non-empty set of numbers has a first one. *)
LEMMA FirstIsLeast ==
  ASSUME NEW S \in SUBSET Nat, S # {}
  PROVE  \E i \in S : \A j \in S : i <= j
<1>1. PICK x \in S : \A y \in S : ~(<<y, x>> \in OpToRel(<, Nat))
  BY NatLessThanWellFounded, WFMin
<1>2. \A y \in S : x <= y
  <2> SUFFICES ASSUME NEW y \in S
               PROVE  x <= y
    OBVIOUS
  <2>1. ~(y < x)
    BY <1>1 DEF OpToRel
  <2> QED  BY <2>1
<1> QED  BY <1>2

(* _write_index_mappings: the write index is found, unless one is mounted. *)
LEMMA WriteIndexIsLast ==
  ASSUME NEW indices \in Seq(Backing), Len(indices) > 0
  PROVE  (\A i \in DOMAIN indices : ~indices[i].mounted) =>
            WriteIndexMappings(indices) = WriteIndex(indices).mapping
<1> SUFFICES ASSUME \A i \in DOMAIN indices : ~indices[i].mounted
             PROVE  WriteIndexMappings(indices) = WriteIndex(indices).mapping
  OBVIOUS
<1> DEFINE last == CHOOSE i \in DOMAIN indices : \A j \in DOMAIN indices : j <= i
<1>1. DOMAIN indices = 1 .. Len(indices) /\ Len(indices) \in Nat
  OBVIOUS
<1>2. last \in 1 .. Len(indices) /\ \A j \in 1 .. Len(indices) : j <= last
  <2>1. Len(indices) \in DOMAIN indices /\ \A j \in DOMAIN indices : j <= Len(indices)
    BY <1>1
  <2> QED  BY <1>1, <2>1
<1>3. last = Len(indices)
  BY <1>1, <1>2
<1>4. {i \in DOMAIN indices : indices[i].mounted} = {}
  OBVIOUS
<1>5. WriteIndexMappings(indices) = indices[last].mapping
  BY <1>4 DEF WriteIndexMappings
<1> QED  BY <1>3, <1>5 DEF WriteIndex

(* Mounted or not, a mapping of the response is found, and if any index is  *)
(* mounted then one of a mounted index. *)
LEMMA WriteIndexMappingsType ==
  ASSUME NEW indices \in Seq(Backing), Len(indices) > 0
  PROVE  /\ WriteIndexMappings(indices) \in Mappings
         /\ (\E i \in DOMAIN indices : indices[i].mounted) =>
              WriteIndexMappings(indices) \in MountedMappings(indices)
<1> DEFINE mounted == {i \in DOMAIN indices : indices[i].mounted}
           S == IF mounted = {} THEN DOMAIN indices ELSE mounted
           n == Len(indices)
           last == CHOOSE i \in S : \A j \in S : j <= i
<1>1. DOMAIN indices = 1 .. n /\ n \in Nat
  OBVIOUS
<1>2. S \in SUBSET (1 .. n) /\ S # {}
  BY <1>1
<1>3. last \in S
  <2> DEFINE T == {n - i : i \in S}
             first == CHOOSE i \in T : \A j \in T : i <= j
  <2>1. T \in SUBSET Nat /\ T # {}
    BY <1>1, <1>2
  <2>2. \E t \in T : \A u \in T : t <= u
    BY <2>1, FirstIsLeast
  <2>3. PICK x \in S : \A y \in S : n - x <= n - y
    BY <2>2
  <2>4. \A y \in S : y <= x
    BY <1>1, <1>2, <2>3
  <2> QED  BY <2>4
<1>4. WriteIndexMappings(indices) = indices[last].mapping
  BY DEF WriteIndexMappings
<1>5. indices[last] \in Backing
  BY <1>1, <1>2, <1>3
<1>6. mounted # {} => last \in mounted
  BY <1>3
<1> QED  BY <1>4, <1>5, <1>6 DEF Backing, MountedMappings

-----------------------------------------------------------------------------
(* _detect_timestamp and _prefill yield a field of the mapping, or nothing. *)
LEMMA TimestampIsOfMapping ==
  ASSUME NEW m \in SomeMappings
  PROVE  Prefill(DetectTimestamp(m)) \in Prefills \cup {None}
<1> DEFINE named == {i \in DOMAIN m : m[i].name = "@timestamp"}
           dates == {i \in DOMAIN m : m[i].date}
           Earliest(S) == CHOOSE i \in S : \A j \in S : i <= j
<1>1. m \in Seq(FieldShape)
  <2>1. <<>> \in Seq(FieldShape)
    OBVIOUS
  <2> QED  BY <2>1, MappingsAssumption DEF SomeMappings, NoMapping
<1>2. named \in SUBSET Nat /\ dates \in SUBSET Nat
  BY <1>1
<1>3. \A S \in SUBSET Nat : S # {} => Earliest(S) \in S
  BY FirstIsLeast
<1>4. \/ DetectTimestamp(m) = None
      \/ \E i \in DOMAIN m : DetectTimestamp(m) = m[i]
  <2>1. CASE named # {}
    <3>1. DetectTimestamp(m) = m[Earliest(named)]
      BY <2>1 DEF DetectTimestamp
    <3>2. Earliest(named) \in named
      BY <1>2, <1>3, <2>1
    <3> QED  BY <3>1, <3>2
  <2>2. CASE named = {} /\ dates # {}
    <3>1. DetectTimestamp(m) = m[Earliest(dates)]
      BY <2>2 DEF DetectTimestamp
    <3>2. Earliest(dates) \in dates
      BY <1>2, <1>3, <2>2
    <3> QED  BY <3>1, <3>2
  <2>3. CASE named = {} /\ dates = {}
    BY <2>3 DEF DetectTimestamp
  <2> QED  BY <2>1, <2>2, <2>3
<1>5. CASE DetectTimestamp(m) = None
  BY <1>5 DEF Prefill
<1>6. ASSUME NEW i \in DOMAIN m, DetectTimestamp(m) = m[i], DetectTimestamp(m) # None
      PROVE  Prefill(DetectTimestamp(m)) \in Prefills
  <2>1. m \in Mappings
    BY <1>6 DEF SomeMappings, NoMapping
  <2>2. m[i].name \in TimestampNames
    BY <1>6, <2>1 DEF TimestampNames
  <2> QED  BY <1>6, <2>2 DEF Prefill, Prefills
<1> QED  BY <1>4, <1>5, <1>6

-----------------------------------------------------------------------------
(* The inductive invariant *)

(* Only a data stream ever has more than one index. *)
Typed ==
    /\ TypeOK
    /\ backing \in Seq(Backing) /\ Len(backing) > 0
    /\ kind # "datastream" => Len(backing) = 1

(* What the cluster has now is part of what it had since the import began. *)
Remembered ==
    /\ WriteIndex(backing).mapping \in effective
    /\ link \in linked
    /\ \A p \in Policies : <<p, policies[p]>> \in stored
    /\ MountedMappings(backing) \subseteq mounts

(* What the import has found was there, or it is a mounted index's.         *)
MappingFound ==
    phase \in {"settings", "policy"} =>
        \/ mappings \in effective
        \/ kind = "datastream" /\ mappings \in mounts
        \/ kind = "index" /\ mounts # {} /\ mappings = NoMapping

PolicyFound ==
    phase = "policy" \/ (kind = "datastream" /\ phase = "mapping") =>
        ilmPolicy \in linked \/ (kind = "index" /\ mounts # {})

Inductive ==
    Typed /\ Remembered /\ MappingFound /\ PolicyFound /\ MappingWasEffective /\ AdviceWasStored

(* The indices as TypeOK has them. *)
LEMMA BackingIsSequence ==
  ASSUME NEW indices \in Seq(Backing)
  PROVE  /\ DOMAIN indices = 1 .. Len(indices)
         /\ \A i \in DOMAIN indices : indices[i] \in [mapping : Mappings, mounted : BOOLEAN]
<1>1. \A i \in DOMAIN indices : indices[i] \in Backing
  OBVIOUS
<1>2. \A i \in DOMAIN indices : indices[i] \in [mapping : Mappings, mounted : BOOLEAN]
  BY <1>1, Zenon DEF Backing
<1> QED  BY <1>2

(* An index with another mapping. *)
LEMMA Remapped ==
  ASSUME NEW index \in Backing, NEW m \in Mappings
  PROVE  [index EXCEPT !.mapping = m] \in Backing
<1>1. index.mounted \in BOOLEAN
  BY DEF Backing
<1>2. [index EXCEPT !.mapping = m] = [mapping |-> m, mounted |-> index.mounted]
  BY DEF Backing
<1>3. [mapping |-> m, mounted |-> index.mounted] \in Backing
  BY <1>1, Zenon DEF Backing
<1> QED  BY <1>2, <1>3, Zenon

(* One index of them replaced. *)
LEMMA BackingReplaced ==
  ASSUME NEW indices \in Seq(Backing), NEW i \in DOMAIN indices, NEW index \in Backing
  PROVE  /\ [indices EXCEPT ![i] = index] \in Seq(Backing)
         /\ Len([indices EXCEPT ![i] = index]) = Len(indices)
BY ExceptSeq

LEMMA InitInductive ==
  Init => Inductive
<1> SUFFICES ASSUME Init
             PROVE  Inductive
  OBVIOUS
<1>1. /\ backing \in Seq(Backing) /\ Len(backing) \in 1 .. MaxBacking
      /\ kind # "datastream" => Len(backing) = 1
  <2>1. PICK n \in 1 .. (IF kind = "datastream" THEN MaxBacking ELSE 1) :
              backing \in [1 .. n -> Backing]
    BY DEF Init, Backing
  <2>2. n \in 1 .. MaxBacking
    BY BoundsAssumption
  <2>3. backing \in Seq(Backing) /\ Len(backing) = n
    BY <2>1, <2>2
  <2> QED  BY <2>2, <2>3
<1>2. phase \in Phases /\ phase \notin {"settings", "policy", "answered"}
      /\ ~(kind = "datastream" /\ phase = "mapping")
  BY DEF Init, FirstPhase, Phases, Kinds
<1>3. TypeOK
  <2>1. policies \in [Policies -> Bodies \cup {None}]
    BY DEF Init
  <2>2. DOMAIN backing = 1 .. Len(backing)
        /\ \A i \in DOMAIN backing : backing[i] \in [mapping : Mappings, mounted : BOOLEAN]
    BY <1>1, BackingIsSequence
  <2>3. kind \in Kinds /\ present \in BOOLEAN /\ link \in Names
        /\ changes \in 0 .. MaxChanges /\ result = None
    BY BoundsAssumption DEF Init
  <2>4. mappings \in SomeMappings /\ ilmPolicy \in Names
    BY DEF Init, SomeMappings, Names
  <2>5. mounts \subseteq Mappings
    BY <2>2 DEF Init, MountedMappings
  <2> QED  BY <1>1, <1>2, <2>1, <2>2, <2>3, <2>4, <2>5, Zenon DEF TypeOK
<1>4. Remembered
  BY DEF Init, Remembered
<1> QED  BY <1>1, <1>2, <1>3, <1>4
         DEF Init, Inductive, Typed, MappingFound, PolicyFound, MappingWasEffective, AdviceWasStored

-----------------------------------------------------------------------------
(* The cluster changes *)

(* Whatever the change is, what was there is remembered. *)
LEMMA ChangeInductive ==
  ASSUME Inductive, Changes, Remember,
         present' \in BOOLEAN,
         backing' \in Seq(Backing), Len(backing') \in 1 .. MaxBacking,
         kind # "datastream" => Len(backing') = 1,
         link' \in Names, policies' \in [Policies -> Bodies \cup {None}]
  PROVE  Inductive'
<1>1. /\ phase # "answered" /\ result = None
      /\ UNCHANGED <<kind, phase, mappings, ilmPolicy, result>>
  BY DEF Changes, Inductive, Typed, TypeOK
<1>2. /\ effective \subseteq effective' /\ linked \subseteq linked' /\ stored \subseteq stored'
      /\ mounts \subseteq mounts' /\ MountedMappings(backing') \subseteq mounts'
  BY DEF Remember
<1>3. TypeOK'
  <2>1. DOMAIN backing' = 1 .. Len(backing')
        /\ \A i \in DOMAIN backing' : backing'[i] \in [mapping : Mappings, mounted : BOOLEAN]
    BY BackingIsSequence
  <2>2. changes' \in 0 .. MaxChanges
    BY BoundsAssumption DEF Changes, Inductive, Typed, TypeOK
  <2>3. mounts' \subseteq Mappings
    BY <2>1 DEF Remember, MountedMappings, Inductive, Typed, TypeOK
  <2> QED  BY <1>1, <1>2, <2>1, <2>2, <2>3 DEF Inductive, Typed, TypeOK, Phases, SomeMappings
<1>4. Remembered'
  BY <1>2 DEF Remember, Remembered, MountedMappings
<1>5. MappingFound'
  BY <1>1, <1>2 DEF Inductive, MappingFound
<1>6. PolicyFound'
  BY <1>1, <1>2 DEF Inductive, PolicyFound
<1>7. MappingWasEffective' /\ AdviceWasStored'
  BY <1>1 DEF MappingWasEffective, AdviceWasStored
<1>8. Typed'
  BY <1>1, <1>3, Len(backing') \in Nat DEF Typed
<1> QED  BY <1>4, <1>5, <1>6, <1>7, <1>8 DEF Inductive

LEMMA BackingType ==
  ASSUME Inductive
  PROVE  /\ backing \in Seq(Backing) /\ Len(backing) \in 1 .. MaxBacking
         /\ kind # "datastream" => Len(backing) = 1
         /\ present \in BOOLEAN /\ link \in Names /\ policies \in [Policies -> Bodies \cup {None}]
BY DEF Inductive, Typed, TypeOK

LEMMA ClusterInductive ==
  ASSUME Inductive,
         Rollover \/ DropOldest \/ UpdateMapping \/ Mount \/ Delete \/ Relink \/ PutPolicy
  PROVE  Inductive'
<1>1. CASE Rollover
  <2>1. PICK m \in Mappings : backing' = Append(backing, IndexOf(m))
    BY <1>1 DEF Rollover
  <2>2. IndexOf(m) \in Backing
    BY DEF IndexOf, Backing
  <2>3. backing' \in Seq(Backing) /\ Len(backing') = Len(backing) + 1
    BY <2>1, <2>2, BackingType, AppendProperties
  <2>4. Len(backing') \in 1 .. MaxBacking
    BY <1>1, <2>3, BackingType, BoundsAssumption DEF Rollover
  <2> QED  BY <1>1, <2>3, <2>4, BackingType, ChangeInductive DEF Rollover
<1>2. CASE DropOldest
  <2>1. backing # <<>> /\ backing' = Tail(backing)
    BY <1>2, BackingType DEF DropOldest
  <2>2. backing' \in Seq(Backing) /\ Len(backing') = Len(backing) - 1
    BY <2>1, BackingType, HeadTailProperties
  <2>3. Len(backing') \in 1 .. MaxBacking
    BY <1>2, <2>2, BackingType, BoundsAssumption DEF DropOldest
  <2> QED  BY <1>2, <2>2, <2>3, BackingType, ChangeInductive DEF DropOldest
<1>3. CASE UpdateMapping
  <2>1. PICK m \in Mappings : backing' = [backing EXCEPT ![Len(backing)].mapping = m]
    BY <1>3 DEF UpdateMapping
  <2> DEFINE index == [backing[Len(backing)] EXCEPT !.mapping = m]
  <2>2. Len(backing) \in DOMAIN backing /\ index \in Backing
    BY BackingType, Remapped
  <2>3. backing' = [backing EXCEPT ![Len(backing)] = index]
    BY <2>1
  <2>4. backing' \in Seq(Backing) /\ Len(backing') = Len(backing)
    BY <2>2, <2>3, BackingType, BackingReplaced
  <2> QED  BY <1>3, <2>4, BackingType, ChangeInductive DEF UpdateMapping
<1>4. CASE Mount
  <2>1. PICK i \in DOMAIN backing : backing' = [backing EXCEPT ![i].mounted = TRUE]
    BY <1>4 DEF Mount
  <2> DEFINE index == [backing[i] EXCEPT !.mounted = TRUE]
  <2>2. index \in Backing
    BY BackingType, BackingIsSequence DEF Backing
  <2>3. backing' = [backing EXCEPT ![i] = index]
    BY <2>1
  <2>4. backing' \in Seq(Backing) /\ Len(backing') = Len(backing)
    BY <2>2, <2>3, BackingType, BackingReplaced
  <2> QED  BY <1>4, <2>4, BackingType, ChangeInductive DEF Mount
<1>5. CASE Delete
  BY <1>5, BackingType, ChangeInductive DEF Delete
<1>6. CASE Relink
  BY <1>6, BackingType, ChangeInductive DEF Relink
<1>7. CASE PutPolicy
  <2>1. policies' \in [Policies -> Bodies \cup {None}]
    BY <1>7, BackingType DEF PutPolicy
  <2> QED  BY <1>7, <2>1, BackingType, ChangeInductive DEF PutPolicy
<1> QED  BY <1>1, <1>2, <1>3, <1>4, <1>5, <1>6, <1>7

-----------------------------------------------------------------------------
(* The import goes on *)

(* A request that does not answer yet. *)
LEMMA RequestInductive ==
  ASSUME Inductive, phase # "answered",
         UNCHANGED <<kind, cluster, history, result>>,
         phase' \in Phases, phase' # "answered",
         mappings' \in SomeMappings, ilmPolicy' \in Names,
         MappingFound', PolicyFound'
  PROVE  Inductive'
<1>1. result = None /\ result' = None
  BY DEF Inductive, Typed, TypeOK
<1>2. TypeOK'
  BY <1>1 DEF Inductive, Typed, TypeOK, Phases, SomeMappings, cluster, history
<1>3. Remembered'
  BY DEF Inductive, Remembered, cluster, history
<1>4. MappingWasEffective' /\ AdviceWasStored'
  BY <1>1 DEF MappingWasEffective, AdviceWasStored
<1> QED  BY <1>2, <1>3, <1>4 DEF Inductive, Typed, cluster

(* What the write index has, a template's mapping and an index's are. *)
LEMMA WriteIndexType ==
  ASSUME Inductive
  PROVE  WriteIndex(backing).mapping \in Mappings /\ backing[1].mapping \in Mappings
<1>1. Len(backing) \in DOMAIN backing /\ 1 \in DOMAIN backing
  BY BackingType
<1>2. \A i \in DOMAIN backing : backing[i].mapping \in Mappings
  BY DEF Inductive, Typed, TypeOK
<1> QED  BY <1>1, <1>2 DEF WriteIndex

LEMMA ResolveTemplateInductive ==
  ASSUME Inductive, ResolveTemplate
  PROVE  Inductive'
<1>1. /\ phase = "simulating" /\ phase' = "policy" /\ kind = "template"
      /\ mappings' = WriteIndex(backing).mapping /\ ilmPolicy' = link
      /\ UNCHANGED <<kind, cluster, history, result>>
  BY DEF ResolveTemplate, Asks, Finds, Goes, Inductive, Typed, TypeOK, Phases, Kinds
<1>2. mappings' \in SomeMappings /\ ilmPolicy' \in Names /\ phase' \in Phases
  BY <1>1, WriteIndexType, BackingType DEF SomeMappings, Phases
<1>3. MappingFound' /\ PolicyFound'
  BY <1>1 DEF Inductive, Remembered, MappingFound, PolicyFound, history
<1> QED  BY <1>1, <1>2, <1>3, RequestInductive

LEMMA ListDataStreamInductive ==
  ASSUME Inductive, ListDataStream
  PROVE  Inductive'
<1>1. /\ phase = "listing" /\ phase' = "mapping" /\ kind = "datastream"
      /\ mappings' = NoMapping /\ ilmPolicy' = link
      /\ UNCHANGED <<kind, cluster, history, result>>
  BY DEF ListDataStream, Asks, Finds, Goes, Inductive, Typed, TypeOK, Phases, Kinds
<1>2. mappings' \in SomeMappings /\ ilmPolicy' \in Names /\ phase' \in Phases
  BY <1>1, BackingType DEF SomeMappings, Phases
<1>3. MappingFound' /\ PolicyFound'
  BY <1>1 DEF Inductive, Remembered, MappingFound, PolicyFound, history
<1> QED  BY <1>1, <1>2, <1>3, RequestInductive

(* The policy was read before a rollover may have happened, the mapping     *)
(* after; both were there since the import began.                           *)
LEMMA ReadStreamMappingInductive ==
  ASSUME Inductive, ReadStreamMapping
  PROVE  Inductive'
<1>1. /\ phase = "mapping" /\ phase' = "policy" /\ kind = "datastream"
      /\ mappings' = WriteIndexMappings(backing) /\ ilmPolicy' = ilmPolicy
      /\ UNCHANGED <<kind, cluster, history, result>>
  BY DEF ReadStreamMapping, Asks, Finds, Goes
<1>2. mappings' \in SomeMappings /\ ilmPolicy' \in Names /\ phase' \in Phases
  BY <1>1, WriteIndexMappingsType DEF Inductive, Typed, TypeOK, SomeMappings, Phases
<1>3. \/ WriteIndexMappings(backing) \in mounts
      \/ WriteIndexMappings(backing) = WriteIndex(backing).mapping
  BY WriteIndexIsLast, WriteIndexMappingsType DEF Inductive, Typed, Remembered
<1>4. MappingFound'
  BY <1>1, <1>3 DEF Inductive, Remembered, MappingFound, history
<1>5. PolicyFound'
  BY <1>1 DEF Inductive, PolicyFound, history
<1> QED  BY <1>1, <1>2, <1>4, <1>5, RequestInductive

LEMMA ReadIndexMappingInductive ==
  ASSUME Inductive, ReadIndexMapping
  PROVE  Inductive'
<1>1. /\ phase = "mapping" /\ phase' = "settings" /\ kind = "index"
      /\ mappings' = (IF backing[1].mounted THEN NoMapping ELSE backing[1].mapping)
      /\ ilmPolicy' = None
      /\ UNCHANGED <<kind, cluster, history, result>>
  BY DEF ReadIndexMapping, Asks, Finds, Goes
<1>2. mappings' \in SomeMappings /\ ilmPolicy' \in Names /\ phase' \in Phases
  BY <1>1, WriteIndexType DEF SomeMappings, Phases, Names
<1>3. Len(backing) = 1 /\ 1 \in DOMAIN backing
  BY <1>1, BackingType
<1>4. backing[1].mounted => mounts # {}
  BY <1>3 DEF Inductive, Remembered, MountedMappings
<1>5. MappingFound'
  <2>1. CASE backing[1].mounted
    BY <1>1, <1>4, <2>1 DEF MappingFound, history
  <2>2. CASE ~backing[1].mounted
    <3>1. mappings' = WriteIndex(backing).mapping
      BY <1>1, <1>3, <2>2 DEF WriteIndex
    <3> QED  BY <1>1, <3>1 DEF Inductive, Remembered, MappingFound, history
  <2> QED  BY <2>1, <2>2
<1>6. PolicyFound'
  BY <1>1 DEF PolicyFound
<1> QED  BY <1>1, <1>2, <1>5, <1>6, RequestInductive

LEMMA ReadIndexSettingsInductive ==
  ASSUME Inductive, ReadIndexSettings
  PROVE  Inductive'
<1>1. /\ phase = "settings" /\ phase' = "policy" /\ kind = "index"
      /\ mappings' = mappings
      /\ ilmPolicy' = (IF backing[1].mounted THEN None ELSE link)
      /\ UNCHANGED <<kind, cluster, history, result>>
  BY DEF ReadIndexSettings, Asks, Finds, Goes, Inductive, Typed, TypeOK, Phases, Kinds
<1>2. mappings' \in SomeMappings /\ ilmPolicy' \in Names /\ phase' \in Phases
  BY <1>1, BackingType DEF Inductive, Typed, TypeOK, Phases, Names
<1>3. 1 \in DOMAIN backing
  BY BackingType
<1>4. backing[1].mounted => mounts # {}
  BY <1>3 DEF Inductive, Remembered, MountedMappings
<1>5. MappingFound'
  BY <1>1 DEF Inductive, MappingFound, history
<1>6. PolicyFound'
  <2>1. CASE backing[1].mounted
    BY <1>1, <1>4, <2>1 DEF PolicyFound, history
  <2>2. CASE ~backing[1].mounted
    BY <1>1, <2>2 DEF Inductive, Remembered, PolicyFound, history
  <2> QED  BY <2>1, <2>2
<1> QED  BY <1>1, <1>2, <1>5, <1>6, RequestInductive

(* The last request answers, with advice a policy of the item had. *)
LEMMA AnswerInductive ==
  ASSUME Inductive, phase = "policy", NEW suggestions, Answer(suggestions),
         UNCHANGED <<kind, cluster, history>>,
         (kind = "index" => mounts = {}) =>
            \/ None \in linked /\ suggestions = {}
            \/ \E p \in linked, b \in Bodies :
                /\ <<p, b>> \in stored
                /\ suggestions = TranslateIlm(b, DetectTimestamp(mappings))
  PROVE  Inductive'
<1>1. /\ phase' = "answered" /\ UNCHANGED <<mappings, ilmPolicy>>
      /\ result' = [mapping |-> mappings, prefill |-> Prefill(DetectTimestamp(mappings)),
                    suggestions |-> suggestions]
  BY DEF Answer
<1>2. /\ result'.mapping = mappings /\ result'.suggestions = suggestions
      /\ result'.prefill = Prefill(DetectTimestamp(mappings))
  BY <1>1
<1>3. mappings \in SomeMappings
  BY DEF Inductive, Typed, TypeOK
<1>4. result'.prefill \in Prefills \cup {None}
  BY <1>2, <1>3, TimestampIsOfMapping
<1>5. phase' \in Phases'
  BY <1>1 DEF Phases, Inductive, Typed, TypeOK, Kinds
<1>6. TypeOK'
  BY <1>1, <1>2, <1>3, <1>4, <1>5
     DEF Inductive, Typed, TypeOK, SomeMappings, Prefills, cluster, history
<1>7. Remembered'
  BY DEF Inductive, Remembered, cluster, history
<1>8. MappingFound' /\ PolicyFound'
  BY <1>1 DEF MappingFound, PolicyFound
<1>9. MappingWasEffective'
  BY <1>2 DEF Inductive, MappingFound, MappingWasEffective, history
<1>10. AdviceWasStored'
  BY <1>2 DEF AdviceWasStored, history
<1> QED  BY <1>6, <1>7, <1>8, <1>9, <1>10 DEF Inductive, Typed, cluster

LEMMA NoPolicyInductive ==
  ASSUME Inductive, NoPolicy
  PROVE  Inductive'
<1>1. /\ phase = "policy" /\ ilmPolicy = None /\ Answer({})
      /\ UNCHANGED <<kind, cluster, history>>
  BY DEF NoPolicy, Asks
<1>2. (kind = "index" => mounts = {}) => None \in linked
  BY <1>1 DEF Inductive, PolicyFound
<1> QED  BY <1>1, <1>2, AnswerInductive

(* The name was read before the body; the body is one the policy has now.   *)
LEMMA ReadPolicyInductive ==
  ASSUME Inductive, ReadPolicy
  PROVE  Inductive'
<1> DEFINE body == policies[ilmPolicy]
           suggestions == TranslateIlm(body, DetectTimestamp(mappings))
<1>1. /\ phase = "policy" /\ ilmPolicy # None /\ body # None /\ Answer(suggestions)
      /\ UNCHANGED <<kind, cluster, history>>
  BY DEF ReadPolicy, Asks
<1>2. ilmPolicy \in Policies
  BY <1>1 DEF Inductive, Typed, TypeOK, Names
<1>3. body \in Bodies /\ <<ilmPolicy, body>> \in stored
  BY <1>1, <1>2 DEF Inductive, Typed, TypeOK, Remembered
<1>4. (kind = "index" => mounts = {}) => ilmPolicy \in linked
  BY <1>1 DEF Inductive, PolicyFound
<1>5. (kind = "index" => mounts = {}) =>
        \E p \in linked, b \in Bodies :
            /\ <<p, b>> \in stored
            /\ suggestions = TranslateIlm(b, DetectTimestamp(mappings))
  BY <1>3, <1>4
<1> HIDE DEF suggestions
<1> QED  BY <1>1, <1>5, AnswerInductive

LEMMA FailsInductive ==
  ASSUME Inductive, Fails
  PROVE  Inductive'
<1>1. /\ phase # "answered" /\ phase' = "answered" /\ result = None
      /\ UNCHANGED <<kind, cluster, history, mappings, ilmPolicy, result>>
  BY DEF Fails, Inductive, Typed, TypeOK
<1>2. phase' \in Phases'
  BY <1>1 DEF Phases, Inductive, Typed, TypeOK, Kinds
<1>3. TypeOK'
  BY <1>1, <1>2 DEF Inductive, Typed, TypeOK, SomeMappings, cluster, history
<1>4. Remembered'
  BY <1>1 DEF Inductive, Remembered, cluster, history
<1>5. MappingFound' /\ PolicyFound'
  BY <1>1 DEF MappingFound, PolicyFound
<1>6. MappingWasEffective' /\ AdviceWasStored'
  BY <1>1 DEF MappingWasEffective, AdviceWasStored
<1> QED  BY <1>1, <1>3, <1>4, <1>5, <1>6 DEF Inductive, Typed, cluster

LEMMA UnchangedInductive ==
  ASSUME Inductive, UNCHANGED vars
  PROVE  Inductive'
BY DEF Inductive, vars, cluster, history, Typed, TypeOK, Phases, SomeMappings, Remembered,
       MappingFound, PolicyFound, MappingWasEffective, AdviceWasStored

-----------------------------------------------------------------------------
(* The theorems *)

(* What the cluster has now it had since the import began, and what the     *)
(* import has found so far it found there.                                  *)
THEOREM SpecInductive ==
  Spec => []Inductive
<1>1. Inductive /\ [Next]_vars => Inductive'
  <2> SUFFICES ASSUME Inductive, [Next]_vars
               PROVE  Inductive'
    OBVIOUS
  <2>1. CASE Rollover \/ DropOldest \/ UpdateMapping \/ Mount \/ Delete \/ Relink \/ PutPolicy
    BY <2>1, ClusterInductive
  <2>2. CASE ResolveTemplate
    BY <2>2, ResolveTemplateInductive
  <2>3. CASE ListDataStream
    BY <2>3, ListDataStreamInductive
  <2>4. CASE ReadStreamMapping
    BY <2>4, ReadStreamMappingInductive
  <2>5. CASE ReadIndexMapping
    BY <2>5, ReadIndexMappingInductive
  <2>6. CASE ReadIndexSettings
    BY <2>6, ReadIndexSettingsInductive
  <2>7. CASE NoPolicy
    BY <2>7, NoPolicyInductive
  <2>8. CASE ReadPolicy
    BY <2>8, ReadPolicyInductive
  <2>9. CASE Fails
    BY <2>9, FailsInductive
  <2>10. CASE Answered \/ UNCHANGED vars
    BY <2>10, UnchangedInductive DEF Answered
  <2> QED
    BY <2>1, <2>2, <2>3, <2>4, <2>5, <2>6, <2>7, <2>8, <2>9, <2>10 DEF Next
<1> QED  BY <1>1, InitInductive, PTL DEF Spec

(* import_item makes the requests of the item's kind, and its prefill is    *)
(* about a field of the mapping found.                                      *)
THEOREM TypeCorrect ==
  Spec => []TypeOK
<1>1. Inductive => TypeOK
  BY DEF Inductive, Typed
<1> QED  BY <1>1, SpecInductive, PTL

(* The mapping imported was the write index's during the import, for a data *)
(* stream of any length and any number of rollovers between the requests;   *)
(* but once an index of the item was mounted it may be a mounted index's,   *)
(* or none for an index that was renamed.                                   *)
THEOREM MappingsWereEffective ==
  Spec => []MappingWasEffective
<1>1. Inductive => MappingWasEffective
  BY DEF Inductive
<1> QED  BY <1>1, SpecInductive, PTL

(* The advice is that of a policy the item named and a body that policy had *)
(* during the import.                                                       *)
THEOREM AdviceWasAlwaysStored ==
  Spec => []AdviceWasStored
<1>1. Inductive => AdviceWasStored
  BY DEF Inductive
<1> QED  BY <1>1, SpecInductive, PTL
=============================================================================
