---------------------------- MODULE MappingParser ----------------------------
(***************************************************************************)
(* mapping/_parser.py: what parse_mapping makes of an Elasticsearch        *)
(* mapping.                                                                *)
(*                                                                         *)
(* A mapping is the sequence of the nodes of its properties tree in        *)
(* document order, every node with its path (a sequence of keys) and its   *)
(* kind.  The recursive walks of the source become conditions on the kinds *)
(* of the nodes above a node: a walk reaches a node when no node above it  *)
(* stopped the walk or handed it to another one.                           *)
(***************************************************************************)
EXTENDS Naturals, Sequences, SequencesExt

(* The elements of the sequence at the positions, and the elements of it    *)
(* that are in the set, in the order of the sequence: the list              *)
(* comprehensions of the source.                                            *)
At(seq, positions) ==
    FlattenSeq([i \in DOMAIN seq |-> IF i \in positions THEN <<seq[i]>> ELSE <<>>])
Only(seq, set) == At(seq, {i \in DOMAIN seq : seq[i] \in set})

(* The kinds of nodes the walks tell apart, in the order they test for      *)
(* them: "open" is dynamic: true / runtime or enabled: false; "nested" is   *)
(* type: nested with properties, if only empty ones, and "bare" without;    *)
(* "alias" is type: alias; "object" has properties, "keyword" and "date"    *)
(* have none.  A node that is no dictionary is not a node, and one whose    *)
(* properties are no dictionary has none.                                   *)
Kinds == {"open", "nested", "bare", "alias", "object", "keyword", "date"}
NestedKinds == {"nested", "bare"}
LeafKinds == {"keyword", "date"}

(* A key is a sequence of words, as ToColumnName of Conversion needs it. *)
FieldPaths == Seq(Seq(STRING)) \ {<<>>}
Nodes == [path : FieldPaths, kind : Kinds]

Under(top, path) == IsStrictPrefix(top, path)

(* What a properties tree is: the keys of one object differ, and only a     *)
(* node that holds properties has nodes below it.                           *)
WellFormed(m) ==
    /\ m \in Seq(Nodes)
    /\ \A n, k \in ToSet(m) : n.path = k.path => n = k
    /\ \A n, k \in ToSet(m) :
          Under(n.path, k.path) => n.kind \in {"open", "nested", "object"}

(* The kinds of the nodes above path and below top. *)
KindsBetween(m, top, path) ==
    {n.kind : n \in {k \in ToSet(m) : Under(top, k.path) /\ Under(k.path, path)}}

(* _walk: it only goes on below plain objects. *)
Walked(m, path) == KindsBetween(m, <<>>, path) \subseteq {"object"}

(* _walk or, below a nested field, _collect_leaves. *)
Visited(m, path) == KindsBetween(m, <<>>, path) \subseteq {"object", "nested"}

(* _declared_leaves below a JSON root: deeper open and nested pockets are   *)
(* skipped.                                                                 *)
DeclaredLeaves(m, root) ==
    Only(m, {n \in ToSet(m) : /\ n.kind \in LeafKinds
                              /\ Under(root, n.path)
                              /\ KindsBetween(m, root, n.path) \subseteq {"object"}})

(* _collect_leaves below a nested group: inner objects and nested fields    *)
(* flatten into the group, and a bare nested field is a leaf of it.         *)
CollectedLeaves(m, group) ==
    Only(m, {n \in ToSet(m) :
                /\ n.kind \in LeafKinds \cup {"bare"}
                /\ Under(group, n.path)
                /\ KindsBetween(m, group, n.path) \subseteq {"object", "nested"}})

(* A root or group of the model: its path and the leaves below it. *)
Collection(path, leaves) == [path |-> path, fields |-> leaves]

JsonRoots(m) ==
    LET roots == Only(m, {n \in ToSet(m) : n.kind = "open" /\ Visited(m, n.path)})
    IN  [i \in DOMAIN roots |->
            Collection(roots[i].path, DeclaredLeaves(m, roots[i].path))]

NestedGroups(m) ==
    LET groups == Only(m, {n \in ToSet(m) : /\ n.kind \in NestedKinds
                                             /\ Walked(m, n.path)})
    IN  [i \in DOMAIN groups |->
            Collection(groups[i].path, CollectedLeaves(m, groups[i].path))]

(* parse_mapping.  An alias stores nothing and becomes no field; the        *)
(* warnings of the parser are left out.                                     *)
ParseMapping(m) ==
    [fields |-> Only(m, {n \in ToSet(m) : n.kind \in LeafKinds /\ Walked(m, n.path)}),
     json_roots |-> JsonRoots(m),
     nested_groups |-> NestedGroups(m)]

(* The leaves that hold data in an Elasticsearch document. *)
StoredLeaves(m) == {n.path : n \in {k \in ToSet(m) : k.kind \in LeafKinds}}
=============================================================================
