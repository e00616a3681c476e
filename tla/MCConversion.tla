---------------------------- MODULE MCConversion ----------------------------
(***************************************************************************)
(* Mappings and configs for TLC.  A mapping is made of the paths           *)
(*     a, a.b, a.b.d, a.c and a_b                                          *)
(* which is enough for three levels of roots, for a root beside a root,    *)
(* for a pocket in a root, and for two names that collide (a.b and a_b).   *)
(***************************************************************************)
EXTENDS Conversion

KeyA == <<"a">>
PathA == <<KeyA>>
PathAB == <<KeyA, <<"b">>>>
PathABD == <<KeyA, <<"b">>, <<"d">>>>
PathAC == <<KeyA, <<"c">>>>
PathA_B == <<<<"a", "b">>>>

Containing == {"object", "open", "nested"}

(* The subtree below path, if it is there, in document order. *)
Node(path, kind) == <<[path |-> path, kind |-> kind]>>
Maybe(path, kinds) == {<<>>} \cup {Node(path, k) : k \in kinds}

SubtreesAB ==
    Maybe(PathAB, {"keyword", "alias", "bare"})
        \cup {Node(PathAB, k) \o s : k \in Containing, s \in Maybe(PathABD, {"keyword", "open"})}

SubtreesA ==
    Maybe(PathA, {"keyword"})
        \cup {Node(PathA, k) \o s \o t : k \in Containing, s \in SubtreesAB,
                                         t \in Maybe(PathAC, {"date", "open", "bare"})}

MCMappings == {s \o t : s \in SubtreesA, t \in Maybe(PathA_B, {"date", "open"})}

Pin(strategies, path, s) == [strategies EXCEPT ![s] = Append(@, path)]

(* No pin, one, or one on a and one on a.b, a.c or a again. *)
NoPins == [json |-> <<>>, map |-> <<>>, nested |-> <<>>, flatten |-> <<>>]
Pins ==
    {NoPins}
        \cup {Pin(NoPins, p, s) : p \in {PathA, PathAB, PathAC}, s \in Strategies}
        \cup {Pin(Pin(NoPins, PathA, s), p, t) : p \in {PathAB}, s \in Strategies, t \in Strategies}
        \cup {Pin(Pin(NoPins, PathA, "map"), PathA, "flatten")}

MCConfigs ==
    {[json |-> p.json, map |-> p.map, nested |-> p.nested, flatten |-> p.flatten,
      order_by |-> o[1], timestamp |-> o[2], materialized |-> o[3]] :
        p \in Pins,
        o \in {<<(<<>>), <<>>, <<>>>>,
               <<(<<PathAB>>), <<>>, <<>>>>,
               <<(<<>>), PathA, <<(<<"a", "c">>)>>>>}}
=============================================================================
