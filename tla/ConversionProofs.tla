-------------------------- MODULE ConversionProofs --------------------------
(***************************************************************************)
(* What holds of a conversion whatever the mapping and the config are.     *)
(*                                                                         *)
(* Every operator of the model is first described by the elements of the   *)
(* sequence it returns: the walks of the parser, the routes before and     *)
(* after hoisting, the columns.  The inductive invariant, Computed, says   *)
(* that each stage leaves what those operators make of the mapping and the *)
(* config, so that every property of a finished conversion becomes one of  *)
(* those sets of elements.                                                 *)
(***************************************************************************)
EXTENDS Conversion, Integers, WellFoundedInduction, SequenceTheorems, TLAPS

-----------------------------------------------------------------------------
(* Numbers and sequences *)

(* The order of the numbers, for the least element. *)
Less == {ss \in Nat \X Nat : ss[1] < ss[2]}

(* A set of numbers that is not empty has a least element. *)
LEMMA Least ==
  ASSUME NEW T \in SUBSET Nat, T # {}
  PROVE  \E n \in T : \A k \in T : n <= k
<1>1. IsWellFoundedOn(Less, Nat)
  BY NatLessThanWellFounded DEF OpToRel, Less
<1>2. PICK n \in T : \A k \in T : ~(<<k, n>> \in Less)
  BY <1>1, WFMin
<1>3. ASSUME NEW k \in T PROVE n <= k
  <2>1. <<k, n>> \in Nat \X Nat /\ <<k, n>>[1] = k /\ <<k, n>>[2] = n
    OBVIOUS
  <2>2. ~(k < n)
    BY <1>2, <2>1 DEF Less
  <2> QED  BY <2>2
<1> QED  BY <1>3

(* Induction, for a set of numbers. *)
LEMMA Induction ==
  ASSUME NEW T, 0 \in T, \A n \in Nat : n \in T => n + 1 \in T
  PROVE  Nat \subseteq T
<1> SUFFICES ASSUME Nat \ T # {} PROVE FALSE
  OBVIOUS
<1>1. PICK n \in Nat \ T : \A k \in Nat \ T : n <= k
  BY Least
<1>2. n # 0
  OBVIOUS
<1>3. n - 1 \in Nat /\ n - 1 \in T
  BY <1>1, <1>2
<1> QED  BY <1>1, <1>3

(* The elements of two sequences put together. *)
LEMMA ElementsOfConcat ==
  ASSUME NEW X, NEW s \in Seq(X), NEW t \in Seq(X)
  PROVE  /\ s \o t \in Seq(X)
         /\ ToSet(s \o t) = ToSet(s) \cup ToSet(t)
<1>1. s \o t \in Seq(X) /\ Len(s \o t) = Len(s) + Len(t)
  BY ConcatProperties
<1>2. ASSUME NEW x \in ToSet(s \o t) PROVE x \in ToSet(s) \cup ToSet(t)
  BY DEF ToSet
<1>3. ASSUME NEW x \in ToSet(s) PROVE x \in ToSet(s \o t)
  BY DEF ToSet
<1>4. ASSUME NEW x \in ToSet(t) PROVE x \in ToSet(s \o t)
  <2>1. PICK i \in DOMAIN t : x = t[i]
    BY DEF ToSet
  <2>2. Len(s) + i \in DOMAIN (s \o t) /\ (s \o t)[Len(s) + i] = x
    BY <2>1
  <2> QED  BY <2>2 DEF ToSet
<1> QED  BY <1>1, <1>2, <1>3, <1>4

(* The elements of a sequence of sequences put together. *)
LEMMA ElementsOfFlattened ==
  ASSUME NEW X, NEW seqs \in Seq(Seq(X))
  PROVE  /\ FlattenSeq(seqs) \in Seq(X)
         /\ \A x : x \in ToSet(FlattenSeq(seqs))
                     <=> \E i \in DOMAIN seqs : x \in ToSet(seqs[i])
<1>1. CASE Len(seqs) = 0
  BY <1>1 DEF FlattenSeq, ToSet
<1>2. CASE Len(seqs) # 0
  <2> DEFINE N == Len(seqs)
             Extends(g, n) ==
                \A i \in 1 .. n : g[i] = IF i = 1 THEN seqs[i] ELSE g[i - 1] \o seqs[i]
             Able(n) == n <= N => \E g \in [1 .. n -> Seq(X)] : Extends(g, n)
  <2>0. N \in Nat \ {0} /\ DOMAIN seqs = 1 .. N /\ \A i \in 1 .. N : seqs[i] \in Seq(X)
    BY <1>2
  <2>1. Able(0)
    <3>1. [i \in 1 .. 0 |-> <<>>] \in [1 .. 0 -> Seq(X)]
      OBVIOUS
    <3>2. Extends([i \in 1 .. 0 |-> <<>>], 0)
      OBVIOUS
    <3> QED  BY <3>1, <3>2
  <2>2. ASSUME NEW n \in Nat, Able(n) PROVE Able(n + 1)
    <3> SUFFICES ASSUME n + 1 <= N PROVE \E g \in [1 .. n + 1 -> Seq(X)] : Extends(g, n + 1)
      OBVIOUS
    <3>0. n <= N /\ n + 1 \in 1 .. N
      BY <2>0
    <3>1. PICK g \in [1 .. n -> Seq(X)] : Extends(g, n)
      BY <2>2, <3>0
    <3> DEFINE h == [i \in 1 .. n + 1 |-> IF i <= n THEN g[i]
                                          ELSE IF i = 1 THEN seqs[i] ELSE g[n] \o seqs[i]]
    <3>2. h \in [1 .. n + 1 -> Seq(X)]
      BY <2>0
    <3>3. ASSUME NEW i \in 1 .. n + 1
          PROVE  h[i] = IF i = 1 THEN seqs[i] ELSE h[i - 1] \o seqs[i]
      <4>1. CASE i <= n
        <5>1. i \in 1 .. n /\ h[i] = g[i]
          BY <4>1
        <5>2. i # 1 => i - 1 \in 1 .. n + 1 /\ h[i - 1] = g[i - 1]
          BY <4>1
        <5> QED  BY <3>1, <5>1, <5>2
      <4>2. CASE i = n + 1
        <5>1. h[i] = IF i = 1 THEN seqs[i] ELSE g[n] \o seqs[i]
          BY <4>2
        <5>2. i # 1 => i - 1 = n /\ h[n] = g[n]
          BY <4>2
        <5> QED  BY <5>1, <5>2
      <4> QED  BY <4>1, <4>2
    <3> QED  BY <3>2, <3>3
  <2>3. \E g \in [1 .. N -> Seq(X)] : Extends(g, N)
    <3> HIDE DEF Able
    <3> DEFINE T == {n \in Nat : Able(n)}
    <3>1. 0 \in T /\ \A n \in Nat : n \in T => n + 1 \in T
      BY <2>1, <2>2
    <3>2. Nat \subseteq T
      <4> HIDE DEF T
      <4> QED  BY <3>1, Induction
    <3>3. Able(N)
      BY <2>0, <3>2
    <3> QED  BY <2>0, <3>3 DEF Able
  <2>4. PICK g \in [1 .. N -> Seq(X)] : Extends(g, N)
    BY <2>3
  <2> DEFINE f == CHOOSE h : h = [i \in 1 .. Len(seqs) |->
                                     IF i = 1 THEN seqs[i] ELSE h[i - 1] \o seqs[i]]
  <2>5. f = [i \in 1 .. Len(seqs) |-> IF i = 1 THEN seqs[i] ELSE f[i - 1] \o seqs[i]]
    <3>1. g = [i \in 1 .. Len(seqs) |-> IF i = 1 THEN seqs[i] ELSE g[i - 1] \o seqs[i]]
      BY <2>4
    <3> QED  BY <3>1
  <2>6. FlattenSeq(seqs) = f[N]
    BY <1>2 DEF FlattenSeq
  <2> DEFINE Holds(n) == n \in 1 .. N =>
                /\ f[n] \in Seq(X)
                /\ \A x : x \in ToSet(f[n]) <=> \E i \in 1 .. n : x \in ToSet(seqs[i])
  <2>7. Holds(0)
    OBVIOUS
  <2> HIDE DEF f
  <2>8. ASSUME NEW n \in Nat, Holds(n) PROVE Holds(n + 1)
    <3> SUFFICES ASSUME n + 1 \in 1 .. N
                 PROVE  /\ f[n + 1] \in Seq(X)
                        /\ \A x : x \in ToSet(f[n + 1])
                                    <=> \E i \in 1 .. n + 1 : x \in ToSet(seqs[i])
      OBVIOUS
    <3>0. seqs[n + 1] \in Seq(X)
      BY <2>0
    <3>1. CASE n = 0
      <4>1. f[n + 1] = seqs[n + 1]
        BY <2>5, <3>1
      <4> QED BY <3>0, <3>1, <4>1
    <3>2. CASE n # 0
      <4>0. n \in 1 .. N /\ (n + 1) - 1 = n /\ n + 1 # 1
        BY <2>0, <3>2
      <4>1. f[n + 1] = f[n] \o seqs[n + 1]
        BY <2>5, <4>0
      <4>2. f[n] \in Seq(X) /\ \A x : x \in ToSet(f[n]) <=> \E i \in 1 .. n : x \in ToSet(seqs[i])
        BY <2>8, <4>0
      <4>3. f[n + 1] \in Seq(X) /\ ToSet(f[n + 1]) = ToSet(f[n]) \cup ToSet(seqs[n + 1])
        BY <3>0, <4>1, <4>2, ElementsOfConcat
      <4>4. \A i : i \in 1 .. n + 1 <=> i \in 1 .. n \/ i = n + 1
        OBVIOUS
      <4> QED  BY <4>2, <4>3, <4>4
    <3> QED  BY <3>1, <3>2
  <2>9. Holds(N)
    <3> HIDE DEF Holds
    <3> DEFINE T == {n \in Nat : Holds(n)}
    <3>1. 0 \in T /\ \A n \in Nat : n \in T => n + 1 \in T
      BY <2>7, <2>8
    <3>2. Nat \subseteq T
      <4> HIDE DEF T
      <4> QED  BY <3>1, Induction
    <3> QED  BY <2>0, <3>2
  <2>10. N \in 1 .. N
    BY <2>0
  <2> QED  BY <2>0, <2>6, <2>9, <2>10
<1> QED  BY <1>1, <1>2

(* A sequence is empty if it has no element; its first element is one of *)
(* them.                                                                 *)
LEMMA NoElements ==
  ASSUME NEW X, NEW s \in Seq(X)
  PROVE  /\ s = <<>> <=> ToSet(s) = {}
         /\ s # <<>> => s[1] \in ToSet(s)
         /\ ToSet(s) \subseteq X
         /\ s \in Seq(ToSet(s))
<1>1. s # <<>> => 1 \in DOMAIN s
  OBVIOUS
<1>2. s \in Seq(ToSet(s))
  BY DEF ToSet
<1> QED  BY <1>1, <1>2 DEF ToSet

(* Paths asks for the paths of the elements. *)
LEMMA PathsOfElements == \A t : Paths(t) = {x.path : x \in ToSet(t)}
  BY DEF Paths, ToSet

(* The elements of a sequence at some of its positions ... *)
LEMMA ElementsAt ==
  ASSUME NEW X, NEW s \in Seq(X), NEW I
  PROVE  /\ At(s, I) \in Seq(X)
         /\ \A x : x \in ToSet(At(s, I)) <=> \E i \in DOMAIN s : i \in I /\ x = s[i]
<1> DEFINE parts == [i \in DOMAIN s |-> IF i \in I THEN <<s[i]>> ELSE <<>>]
<1>1. parts \in Seq(Seq(X)) /\ DOMAIN parts = DOMAIN s
  <2>1. \A i \in DOMAIN s : s[i] \in X
    OBVIOUS
  <2>2. \A i \in DOMAIN s : parts[i] \in Seq(X)
    BY <2>1
  <2>3. Len(s) \in Nat /\ DOMAIN s = 1 .. Len(s)
    OBVIOUS
  <2> QED  BY <2>2, <2>3
<1>2. \A i \in DOMAIN s : \A x : x \in ToSet(parts[i]) <=> i \in I /\ x = s[i]
  BY DEF ToSet
<1>3. At(s, I) = FlattenSeq(parts)
  BY DEF At
<1> HIDE DEF parts
<1>4. /\ FlattenSeq(parts) \in Seq(X)
      /\ \A x : x \in ToSet(FlattenSeq(parts)) <=> \E i \in DOMAIN parts : x \in ToSet(parts[i])
  BY <1>1, ElementsOfFlattened
<1> QED  BY <1>1, <1>2, <1>3, <1>4

(* ... and those of them that are in a set. *)
LEMMA ElementsOnly ==
  ASSUME NEW X, NEW s \in Seq(X), NEW S
  PROVE  /\ Only(s, S) \in Seq(X)
         /\ ToSet(Only(s, S)) = ToSet(s) \cap S
<1> DEFINE I == {i \in DOMAIN s : s[i] \in S}
<1>1. /\ At(s, I) \in Seq(X)
      /\ \A x : x \in ToSet(At(s, I)) <=> \E i \in DOMAIN s : i \in I /\ x = s[i]
  BY ElementsAt
<1> QED  BY <1>1 DEF Only, ToSet

(* To keep the first of equal elements loses none. *)
LEMMA ElementsOfFirst ==
  ASSUME NEW X, NEW s \in Seq(X)
  PROVE  /\ FirstOfEach(s) \in Seq(X)
         /\ ToSet(FirstOfEach(s)) = ToSet(s)
<1> DEFINE I == {i \in DOMAIN s : \A j \in 1 .. i - 1 : s[j] # s[i]}
<1>1. /\ At(s, I) \in Seq(X)
      /\ \A x : x \in ToSet(At(s, I)) <=> \E i \in DOMAIN s : i \in I /\ x = s[i]
  BY ElementsAt
<1>2. ASSUME NEW i \in DOMAIN s PROVE \E k \in DOMAIN s : k \in I /\ s[i] = s[k]
  <2> DEFINE J == {j \in DOMAIN s : s[j] = s[i]}
  <2>1. PICK k \in J : \A j \in J : k <= j
    <3>1. J \in SUBSET Nat /\ J # {}
      OBVIOUS
    <3> QED  BY <3>1, Least
  <2>2. \A j \in 1 .. k - 1 : j \in DOMAIN s /\ ~(k <= j)
    OBVIOUS
  <2> QED  BY <2>1, <2>2
<1>3. FirstOfEach(s) = At(s, I)
  BY DEF FirstOfEach
<1>4. ASSUME NEW i \in DOMAIN s PROVE s[i] \in ToSet(At(s, I))
  <2>1. PICK k \in DOMAIN s : k \in I /\ s[i] = s[k]
    BY <1>2
  <2> HIDE DEF I
  <2> QED  BY <1>1, <2>1
<1>5. ToSet(At(s, I)) \subseteq ToSet(s)
  BY <1>1 DEF ToSet
<1>6. ToSet(s) \subseteq ToSet(At(s, I))
  BY <1>4 DEF ToSet
<1> QED  BY <1>1, <1>3, <1>5, <1>6

(* To keep the first record of each path loses no path. *)
LEMMA ElementsOfFirstByPath ==
  ASSUME NEW X, NEW s \in Seq(X)
  PROVE  /\ FirstByPath(s) \in Seq(X)
         /\ ToSet(FirstByPath(s)) \subseteq ToSet(s)
         /\ Paths(FirstByPath(s)) = Paths(s)
<1> DEFINE I == {i \in DOMAIN s : \A j \in 1 .. i - 1 : s[j].path # s[i].path}
<1>1. /\ At(s, I) \in Seq(X)
      /\ \A x : x \in ToSet(At(s, I)) <=> \E i \in DOMAIN s : i \in I /\ x = s[i]
  BY ElementsAt
<1>2. ASSUME NEW i \in DOMAIN s PROVE \E k \in DOMAIN s : k \in I /\ s[i].path = s[k].path
  <2> DEFINE J == {j \in DOMAIN s : s[j].path = s[i].path}
  <2>1. PICK k \in J : \A j \in J : k <= j
    <3>1. J \in SUBSET Nat /\ J # {}
      OBVIOUS
    <3> QED  BY <3>1, Least
  <2>2. \A j \in 1 .. k - 1 : j \in DOMAIN s /\ ~(k <= j)
    OBVIOUS
  <2> QED  BY <2>1, <2>2
<1>3. FirstByPath(s) = At(s, I)
  BY DEF FirstByPath
<1>4. ToSet(At(s, I)) \subseteq ToSet(s)
  BY <1>1 DEF ToSet
<1>5. ASSUME NEW i \in DOMAIN s PROVE \E x \in ToSet(At(s, I)) : s[i].path = x.path
  <2>1. PICK k \in DOMAIN s : k \in I /\ s[i].path = s[k].path
    BY <1>2
  <2> HIDE DEF I
  <2>2. s[k] \in ToSet(At(s, I))
    BY <1>1, <2>1
  <2> QED  BY <2>1, <2>2
<1>6. \A t : Paths(t) = {x.path : x \in ToSet(t)}
  BY PathsOfElements
<1>7. \A p : p \in Paths(At(s, I)) => p \in Paths(s)
  BY <1>4, <1>6
<1>8. ASSUME NEW p \in Paths(s) PROVE p \in Paths(At(s, I))
  <2>1. PICK i \in DOMAIN s : p = s[i].path
    BY DEF Paths
  <2>2. PICK x \in ToSet(At(s, I)) : s[i].path = x.path
    BY <1>5
  <2> HIDE DEF I
  <2> QED  BY <1>6, <2>1, <2>2
<1> QED  BY <1>1, <1>3, <1>4, <1>7, <1>8

(* A prefix, element by element. *)
LEMMA PrefixElements ==
  ASSUME NEW K, NEW s \in Seq(K), NEW t \in Seq(K)
  PROVE  IsPrefix(s, t) <=> Len(s) <= Len(t) /\ \A i \in 1 .. Len(s) : s[i] = t[i]
<1>1. SubSeq(s, 1, Len(s)) = s
  BY SubSeqFull
<1>2. ASSUME Len(s) <= Len(t)
      PROVE  /\ SubSeq(t, 1, Len(s)) \in Seq(K)
             /\ Len(SubSeq(t, 1, Len(s))) = Len(s)
             /\ \A i \in 1 .. Len(s) : SubSeq(t, 1, Len(s))[i] = t[i]
  <2>1. \A i \in 1 .. Len(s) : t[i] \in K
    BY <1>2
  <2>2. Len(s) \in Nat
    OBVIOUS
  <2> QED  BY <2>1, <2>2, SubSeqProperties
<1>3. ASSUME Len(s) <= Len(t), \A i \in 1 .. Len(s) : s[i] = t[i]
      PROVE  s = SubSeq(t, 1, Len(s))
  BY <1>2, <1>3, SeqEqual
<1> QED  BY <1>1, <1>2, <1>3 DEF IsPrefix

-----------------------------------------------------------------------------
(* Paths *)

(* The same, for paths. *)
LEMMA PrefixOfPaths ==
  \A p, q \in FieldPaths :
     IsPrefix(p, q) <=> Len(p) <= Len(q) /\ \A i \in 1 .. Len(p) : p[i] = q[i]
BY PrefixElements DEF FieldPaths

(* A path has a key. *)
LEMMA LengthOfPath ==
  \A p \in FieldPaths : p \in Seq(Seq(STRING)) /\ Len(p) \in Nat /\ Len(p) >= 1
BY DEF FieldPaths

(* Paths form a forest: the paths above one are above each other. *)
LEMMA PrefixOrder ==
  ASSUME NEW p \in FieldPaths, NEW q \in FieldPaths
  PROVE  /\ IsPrefix(p, p)
         /\ IsPrefix(p, q) /\ Len(p) = Len(q) => p = q
         /\ IsPrefix(p, q) => Len(p) <= Len(q)
         /\ Under(p, q) <=> IsPrefix(p, q) /\ p # q
         /\ Under(p, q) <=> IsPrefix(p, q) /\ Len(p) < Len(q)
         /\ \A r \in FieldPaths : IsPrefix(p, q) /\ IsPrefix(q, r) => IsPrefix(p, r)
         /\ \A r \in FieldPaths : IsPrefix(p, r) /\ IsPrefix(q, r) =>
                                      IsPrefix(p, q) \/ Under(q, p)
<1>0. /\ p \in Seq(Seq(STRING)) /\ Len(p) \in Nat
      /\ q \in Seq(Seq(STRING)) /\ Len(q) \in Nat
  BY LengthOfPath
<1>1. IsPrefix(p, p)
  BY <1>0, PrefixOfPaths
<1>2. IsPrefix(p, q) /\ Len(p) = Len(q) => p = q
  BY <1>0, PrefixOfPaths, SeqEqual
<1>3. IsPrefix(p, q) => Len(p) <= Len(q)
  BY PrefixOfPaths
<1>4. Under(p, q) <=> IsPrefix(p, q) /\ p # q
  BY DEF Under, IsStrictPrefix
<1>5. Under(p, q) <=> IsPrefix(p, q) /\ Len(p) < Len(q)
  BY <1>0, <1>2, <1>3, <1>4
<1>6. ASSUME NEW r \in FieldPaths, IsPrefix(p, q), IsPrefix(q, r) PROVE IsPrefix(p, r)
  <2>0. Len(r) \in Nat
    BY LengthOfPath
  <2>1. Len(p) <= Len(q) /\ Len(q) <= Len(r)
    BY <1>6, PrefixOfPaths
  <2>2. \A i \in 1 .. Len(p) : p[i] = q[i]
    BY <1>6, PrefixOfPaths
  <2>3. \A i \in 1 .. Len(p) : i \in 1 .. Len(q) /\ q[i] = r[i]
    BY <1>0, <1>6, <2>0, <2>1, PrefixOfPaths
  <2> QED  BY <1>0, <2>0, <2>1, <2>2, <2>3, PrefixOfPaths
<1>7. ASSUME NEW r \in FieldPaths, IsPrefix(p, r), IsPrefix(q, r)
      PROVE  IsPrefix(p, q) \/ Under(q, p)
  <2>1. /\ \A i \in 1 .. Len(p) : p[i] = r[i]
        /\ \A i \in 1 .. Len(q) : q[i] = r[i]
    BY <1>7, PrefixOfPaths
  <2>2. CASE Len(p) <= Len(q)
    BY <1>0, <2>1, <2>2, PrefixOfPaths
  <2>3. CASE Len(q) < Len(p)
    <3>1. IsPrefix(q, p)
      BY <1>0, <2>1, <2>3, PrefixOfPaths
    <3> QED  BY <1>0, <2>3, <3>1 DEF Under, IsStrictPrefix
  <2> QED  BY <1>0, <2>2, <2>3
<1> QED  BY <1>1, <1>2, <1>3, <1>4, <1>5, <1>6, <1>7

(* Paths are below the same top-level key or not related at all. *)
LEMMA TopLevelKeys ==
  ASSUME NEW p \in FieldPaths
  PROVE  /\ TopLevelKey(p) \in FieldPaths
         /\ Len(TopLevelKey(p)) = 1
         /\ IsPrefix(TopLevelKey(p), p)
         /\ Len(p) = 1 => TopLevelKey(p) = p
         /\ \A q \in FieldPaths : IsPrefix(p, q) => TopLevelKey(p) = TopLevelKey(q)
         /\ \A q \in FieldPaths :
               Len(p) = 1 => (IsPrefix(p, q) <=> TopLevelKey(q) = p)
<1> DEFINE top == TopLevelKey(p)
<1>0. p \in Seq(Seq(STRING)) /\ Len(p) \in Nat /\ Len(p) >= 1
  BY LengthOfPath
<1>1. \A q \in FieldPaths : /\ q[1] \in Seq(STRING)
                            /\ TopLevelKey(q) = <<q[1]>>
  BY LengthOfPath DEF TopLevelKey
<1>2. \A q \in FieldPaths : /\ TopLevelKey(q) \in FieldPaths
                            /\ Len(TopLevelKey(q)) = 1
                            /\ TopLevelKey(q)[1] = q[1]
  <2>1. \A k \in Seq(STRING) : <<k>> \in FieldPaths /\ Len(<<k>>) = 1 /\ <<k>>[1] = k
    BY DEF FieldPaths
  <2> QED  BY <1>1, <2>1
<1>3. IsPrefix(top, p)
  BY <1>0, <1>2, PrefixOfPaths
<1>4. Len(p) = 1 => top = p
  <2>1. \A x \in Seq(Seq(STRING)) : Len(x) = 1 => x = <<x[1]>>
    OBVIOUS
  <2> QED  BY <1>0, <1>1, <2>1
<1>5. \A q \in FieldPaths : IsPrefix(p, q) => TopLevelKey(p) = TopLevelKey(q)
  BY <1>0, <1>1, PrefixOfPaths
<1>6. ASSUME NEW q \in FieldPaths, Len(p) = 1
      PROVE  IsPrefix(p, q) <=> TopLevelKey(q) = p
  <2>1. ASSUME TopLevelKey(q) = p PROVE IsPrefix(p, q)
    <3>1. p[1] = q[1] /\ Len(q) >= 1 /\ Len(q) \in Nat
      BY <1>2, <2>1, LengthOfPath
    <3> QED  BY <1>6, <3>1, PrefixOfPaths
  <2> QED  BY <1>4, <1>5, <1>6, <2>1
<1> QED  BY <1>2, <1>3, <1>4, <1>5, <1>6

(* Under is transitive. *)
LEMMA UnderUnder ==
  ASSUME NEW p \in FieldPaths, NEW q \in FieldPaths, NEW r \in FieldPaths,
         Under(p, q), Under(q, r)
  PROVE  Under(p, r)
<1>1. IsPrefix(p, q) /\ Len(p) < Len(q) /\ IsPrefix(q, r) /\ Len(q) < Len(r)
  BY PrefixOrder
<1>2. IsPrefix(p, r)
  BY <1>1, PrefixOrder
<1>3. Len(p) < Len(r)
  <2>1. PICK x \in Nat, y \in Nat, z \in Nat : x = Len(p) /\ y = Len(q) /\ z = Len(r)
    BY LengthOfPath
  <2> QED  BY <1>1, <2>1
<1> QED  BY <1>2, <1>3, PrefixOrder

-----------------------------------------------------------------------------
(* What parse_mapping returns *)

(* The types of the model ... *)
Collections == [path : FieldPaths, fields : Seq(Nodes)]
Models == [fields : Seq(Nodes), json_roots : Seq(Collections), nested_groups : Seq(Collections)]

(* What WellFormed says of the nodes of a mapping. *)
LEMMA NodesOfMapping ==
  ASSUME NEW m, WellFormed(m)
  PROVE  /\ m \in Seq(Nodes)
         /\ \A n \in ToSet(m) : n \in Nodes /\ n.path \in FieldPaths /\ n.kind \in Kinds
         /\ \A n, k \in ToSet(m) : n.path = k.path => n = k
         /\ \A n, k \in ToSet(m) :
              Under(n.path, k.path) => n.kind \in {"open", "nested", "object"}
<1>1. m \in Seq(Nodes)
  BY DEF WellFormed
<1>2. ToSet(m) \subseteq Nodes
  BY <1>1, NoElements
<1> QED  BY <1>1, <1>2 DEF WellFormed, Nodes

(* Where the walks of the parser arrive, by the kinds of the nodes above. *)
LEMMA AboveWalked ==
  ASSUME NEW m, WellFormed(m), NEW path \in FieldPaths
  PROVE  /\ Walked(m, path) <=>
               \A k \in ToSet(m) : Under(k.path, path) => k.kind = "object"
         /\ Visited(m, path) <=>
               \A k \in ToSet(m) : Under(k.path, path) => k.kind \in {"object", "nested"}
<1>1. \A p \in FieldPaths : Under(<<>>, p)
  <2>1. <<>> \in Seq(Seq(STRING)) /\ Len(<<>>) = 0
    OBVIOUS
  <2>2. ASSUME NEW p \in FieldPaths PROVE IsPrefix(<<>>, p) /\ <<>> # p
    <3>1. p \in Seq(Seq(STRING)) /\ Len(p) \in Nat /\ p # <<>>
      BY LengthOfPath DEF FieldPaths
    <3>2. SubSeq(<<>>, 1, 0) = <<>> /\ SubSeq(p, 1, 0) = <<>>
      BY <3>1
    <3> QED  BY <2>1, <3>1, <3>2 DEF IsPrefix
  <2> QED  BY <2>2 DEF Under, IsStrictPrefix
<1>2. KindsBetween(m, <<>>, path) = {n.kind : n \in {k \in ToSet(m) : Under(k.path, path)}}
  BY <1>1, NodesOfMapping DEF KindsBetween
<1> QED  BY <1>2 DEF Walked, Visited

(* The leaves _declared_leaves and _collect_leaves find. *)
LEMMA ElementsOfLeaves ==
  ASSUME NEW m, WellFormed(m), NEW path
  PROVE  /\ DeclaredLeaves(m, path) \in Seq(Nodes)
         /\ ToSet(DeclaredLeaves(m, path)) =
               {n \in ToSet(m) : /\ n.kind \in LeafKinds
                                 /\ Under(path, n.path)
                                 /\ KindsBetween(m, path, n.path) \subseteq {"object"}}
         /\ CollectedLeaves(m, path) \in Seq(Nodes)
         /\ ToSet(CollectedLeaves(m, path)) =
               {n \in ToSet(m) :
                  /\ n.kind \in LeafKinds \cup {"bare"}
                  /\ Under(path, n.path)
                  /\ KindsBetween(m, path, n.path) \subseteq {"object", "nested"}}
<1> DEFINE D == {n \in ToSet(m) : /\ n.kind \in LeafKinds
                                  /\ Under(path, n.path)
                                  /\ KindsBetween(m, path, n.path) \subseteq {"object"}}
           C == {n \in ToSet(m) :
                  /\ n.kind \in LeafKinds \cup {"bare"}
                  /\ Under(path, n.path)
                  /\ KindsBetween(m, path, n.path) \subseteq {"object", "nested"}}
<1>0. D \subseteq ToSet(m) /\ C \subseteq ToSet(m) /\ m \in Seq(Nodes)
  BY NodesOfMapping
<1>1. DeclaredLeaves(m, path) = Only(m, D) /\ CollectedLeaves(m, path) = Only(m, C)
  BY DEF DeclaredLeaves, CollectedLeaves
<1> HIDE DEF D, C
<1>2. /\ Only(m, D) \in Seq(Nodes) /\ ToSet(Only(m, D)) = ToSet(m) \cap D
      /\ Only(m, C) \in Seq(Nodes) /\ ToSet(Only(m, C)) = ToSet(m) \cap C
  BY <1>0, ElementsOnly
<1>3. /\ Only(m, D) \in Seq(Nodes) /\ ToSet(Only(m, D)) = D
      /\ Only(m, C) \in Seq(Nodes) /\ ToSet(Only(m, C)) = C
  BY <1>0, <1>2
<1> QED  BY <1>1, <1>3 DEF D, C

(* The JSON roots of the model ... *)
LEMMA ElementsOfJsonRoots ==
  ASSUME NEW m, WellFormed(m)
  PROVE  /\ JsonRoots(m) \in Seq(Collections)
         /\ ToSet(JsonRoots(m)) =
               {Collection(n.path, DeclaredLeaves(m, n.path)) :
                  n \in {k \in ToSet(m) : k.kind = "open" /\ Visited(m, k.path)}}
<1> DEFINE S == {k \in ToSet(m) : k.kind = "open" /\ Visited(m, k.path)}
           roots == Only(m, S)
<1>1. JsonRoots(m) = [i \in DOMAIN roots |->
            Collection(roots[i].path, DeclaredLeaves(m, roots[i].path))]
  BY DEF JsonRoots
<1>2. roots \in Seq(Nodes) /\ ToSet(roots) = S
  <2>1. m \in Seq(Nodes) /\ S \subseteq ToSet(m)
    BY NodesOfMapping
  <2> HIDE DEF S
  <2>2. Only(m, S) \in Seq(Nodes) /\ ToSet(Only(m, S)) = ToSet(m) \cap S
    BY <2>1, ElementsOnly
  <2> QED  BY <2>1, <2>2
<1> HIDE DEF roots
<1>3. \A i \in DOMAIN roots : roots[i] \in S /\ roots[i].path \in FieldPaths
  BY <1>2, NodesOfMapping DEF ToSet
<1>4. \A i \in DOMAIN roots :
         Collection(roots[i].path, DeclaredLeaves(m, roots[i].path)) \in Collections
  BY <1>3, ElementsOfLeaves DEF Collection, Collections
<1>5. JsonRoots(m) \in Seq(Collections) /\ DOMAIN JsonRoots(m) = DOMAIN roots
  <2>1. Len(roots) \in Nat /\ DOMAIN roots = 1 .. Len(roots)
    BY <1>2
  <2> QED  BY <1>1, <1>4, <2>1
<1>6. ToSet(JsonRoots(m)) = {Collection(n.path, DeclaredLeaves(m, n.path)) : n \in ToSet(roots)}
  BY <1>1, <1>5 DEF ToSet
<1> QED  BY <1>2, <1>5, <1>6

(* ... its nested groups ... *)
LEMMA ElementsOfNestedGroups ==
  ASSUME NEW m, WellFormed(m)
  PROVE  /\ NestedGroups(m) \in Seq(Collections)
         /\ ToSet(NestedGroups(m)) =
               {Collection(n.path, CollectedLeaves(m, n.path)) :
                  n \in {k \in ToSet(m) : k.kind \in NestedKinds /\ Walked(m, k.path)}}
<1> DEFINE S == {k \in ToSet(m) : k.kind \in NestedKinds /\ Walked(m, k.path)}
           groups == Only(m, S)
<1>1. NestedGroups(m) = [i \in DOMAIN groups |->
            Collection(groups[i].path, CollectedLeaves(m, groups[i].path))]
  BY DEF NestedGroups
<1>2. groups \in Seq(Nodes) /\ ToSet(groups) = S
  <2>1. m \in Seq(Nodes) /\ S \subseteq ToSet(m)
    BY NodesOfMapping
  <2> HIDE DEF S
  <2>2. Only(m, S) \in Seq(Nodes) /\ ToSet(Only(m, S)) = ToSet(m) \cap S
    BY <2>1, ElementsOnly
  <2> QED  BY <2>1, <2>2
<1> HIDE DEF groups
<1>3. \A i \in DOMAIN groups : groups[i] \in S /\ groups[i].path \in FieldPaths
  BY <1>2, NodesOfMapping DEF ToSet
<1>4. \A i \in DOMAIN groups :
         Collection(groups[i].path, CollectedLeaves(m, groups[i].path)) \in Collections
  BY <1>3, ElementsOfLeaves DEF Collection, Collections
<1>5. NestedGroups(m) \in Seq(Collections) /\ DOMAIN NestedGroups(m) = DOMAIN groups
  <2>1. Len(groups) \in Nat /\ DOMAIN groups = 1 .. Len(groups)
    BY <1>2
  <2> QED  BY <1>1, <1>4, <2>1
<1>6. ToSet(NestedGroups(m)) =
         {Collection(n.path, CollectedLeaves(m, n.path)) : n \in ToSet(groups)}
  BY <1>1, <1>5 DEF ToSet
<1> QED  BY <1>2, <1>5, <1>6

(* ... and its fields. *)
LEMMA ParsedMapping ==
  ASSUME NEW m, WellFormed(m)
  PROVE  /\ ParseMapping(m) \in Models
         /\ ToSet(ParseMapping(m).fields) =
               {n \in ToSet(m) : n.kind \in LeafKinds /\ Walked(m, n.path)}
         /\ ParseMapping(m).json_roots = JsonRoots(m)
         /\ ParseMapping(m).nested_groups = NestedGroups(m)
<1> DEFINE S == {n \in ToSet(m) : n.kind \in LeafKinds /\ Walked(m, n.path)}
<1>1. ParseMapping(m) = [fields |-> Only(m, S), json_roots |-> JsonRoots(m),
                         nested_groups |-> NestedGroups(m)]
  BY DEF ParseMapping
<1>2. Only(m, S) \in Seq(Nodes) /\ ToSet(Only(m, S)) = S
  <2>1. m \in Seq(Nodes) /\ S \subseteq ToSet(m)
    BY NodesOfMapping
  <2> HIDE DEF S
  <2>2. Only(m, S) \in Seq(Nodes) /\ ToSet(Only(m, S)) = ToSet(m) \cap S
    BY <2>1, ElementsOnly
  <2> QED  BY <2>1, <2>2
<1> HIDE DEF S
<1>3. ParseMapping(m) \in Models /\ ToSet(ParseMapping(m).fields) = S
  BY <1>1, <1>2, ElementsOfJsonRoots, ElementsOfNestedGroups DEF Models
<1> QED  BY <1>1, <1>3 DEF S

-----------------------------------------------------------------------------
(* The routes before they are hoisted *)

(* ConfigsAssumption, for one config. *)
WellFormedConfig(c) ==
    /\ \A s \in Strategies : c[s] \in Seq(FieldPaths)
    /\ c.materialized \in Seq(Seq(STRING))

(* ... of its routes before and after the strategies are chosen ... *)
Detections ==
    [path : FieldPaths, strategy : {"json", "nested"}, source : {"object", "array"},
     leaves : Seq(Nodes)]
Routes ==
    [path : FieldPaths, strategy : Strategies, leaves : Seq(Nodes),
     source : {"object", "array"}, detected : {"json", "nested", "none"}]

JsonDetection(r) ==
    [path |-> r.path, strategy |-> "json", source |-> "object", leaves |-> r.fields]
NestedDetection(g) ==
    [path |-> g.path, strategy |-> "nested", source |-> "array", leaves |-> g.fields]

(* _detected_routes has one route for each of them ... *)
LEMMA ElementsOfDetected ==
  ASSUME NEW M \in Models
  PROVE  /\ DetectedRoutes(M) \in Seq(Detections)
         /\ ToSet(DetectedRoutes(M)) =
               {JsonDetection(r) : r \in ToSet(M.json_roots)}
                  \cup {NestedDetection(g) : g \in ToSet(M.nested_groups)}
<1> DEFINE jsons == [i \in DOMAIN M.json_roots |-> JsonDetection(M.json_roots[i])]
           nesteds == [i \in DOMAIN M.nested_groups |-> NestedDetection(M.nested_groups[i])]
<1>1. M.json_roots \in Seq(Collections) /\ M.nested_groups \in Seq(Collections)
  BY DEF Models
<1>2. \A r \in Collections : JsonDetection(r) \in Detections /\ NestedDetection(r) \in Detections
  BY DEF Collections, Detections, JsonDetection, NestedDetection
<1>3. jsons \in Seq(Detections) /\ DOMAIN jsons = DOMAIN M.json_roots
  <2>1. /\ Len(M.json_roots) \in Nat /\ DOMAIN M.json_roots = 1 .. Len(M.json_roots)
        /\ \A i \in DOMAIN M.json_roots : M.json_roots[i] \in Collections
    BY <1>1
  <2> QED  BY <1>2, <2>1
<1>4. nesteds \in Seq(Detections) /\ DOMAIN nesteds = DOMAIN M.nested_groups
  <2>1. /\ Len(M.nested_groups) \in Nat /\ DOMAIN M.nested_groups = 1 .. Len(M.nested_groups)
        /\ \A i \in DOMAIN M.nested_groups : M.nested_groups[i] \in Collections
    BY <1>1
  <2> QED  BY <1>2, <2>1
<1>5. ToSet(jsons) = {JsonDetection(r) : r \in ToSet(M.json_roots)}
  BY <1>3 DEF ToSet
<1>6. ToSet(nesteds) = {NestedDetection(g) : g \in ToSet(M.nested_groups)}
  BY <1>4 DEF ToSet
<1>7. DetectedRoutes(M) = jsons \o nesteds
  BY DEF DetectedRoutes, JsonDetection, NestedDetection
<1> HIDE DEF jsons, nesteds
<1> QED  BY <1>3, <1>4, <1>5, <1>6, <1>7, ElementsOfConcat

(* ... which stem from the nodes of the mapping ... *)
LEMMA DetectedNodes ==
  ASSUME NEW m, WellFormed(m)
  PROVE  /\ \A d \in ToSet(DetectedRoutes(ParseMapping(m))) :
              \E n \in ToSet(m) :
                 /\ d.path = n.path
                 /\ \/ /\ n.kind = "open" /\ Visited(m, n.path)
                       /\ d = JsonDetection(Collection(n.path, DeclaredLeaves(m, n.path)))
                    \/ /\ n.kind \in NestedKinds /\ Walked(m, n.path)
                       /\ d = NestedDetection(Collection(n.path, CollectedLeaves(m, n.path)))
         /\ \A n \in ToSet(m) : n.kind = "open" /\ Visited(m, n.path) =>
              JsonDetection(Collection(n.path, DeclaredLeaves(m, n.path)))
                 \in ToSet(DetectedRoutes(ParseMapping(m)))
         /\ \A n \in ToSet(m) : n.kind \in NestedKinds /\ Walked(m, n.path) =>
              NestedDetection(Collection(n.path, CollectedLeaves(m, n.path)))
                 \in ToSet(DetectedRoutes(ParseMapping(m)))
<1> DEFINE M == ParseMapping(m)
<1>1. /\ M \in Models /\ M.json_roots = JsonRoots(m) /\ M.nested_groups = NestedGroups(m)
  BY ParsedMapping
<1> HIDE DEF M
<1>2. \A p, leaves : /\ JsonDetection(Collection(p, leaves)).path = p
                     /\ NestedDetection(Collection(p, leaves)).path = p
  BY DEF JsonDetection, NestedDetection, Collection
<1>3. ASSUME NEW d \in ToSet(DetectedRoutes(M))
      PROVE  \E n \in ToSet(m) :
                 /\ d.path = n.path
                 /\ \/ /\ n.kind = "open" /\ Visited(m, n.path)
                       /\ d = JsonDetection(Collection(n.path, DeclaredLeaves(m, n.path)))
                    \/ /\ n.kind \in NestedKinds /\ Walked(m, n.path)
                       /\ d = NestedDetection(Collection(n.path, CollectedLeaves(m, n.path)))
  <2>1. CASE d \in {JsonDetection(r) : r \in ToSet(M.json_roots)}
    <3>1. PICK r \in ToSet(JsonRoots(m)) : d = JsonDetection(r)
      BY <1>1, <2>1
    <3>2. PICK n \in ToSet(m) : /\ n.kind = "open" /\ Visited(m, n.path)
                                /\ r = Collection(n.path, DeclaredLeaves(m, n.path))
      BY <3>1, ElementsOfJsonRoots
    <3> QED  BY <1>2, <3>1, <3>2
  <2>2. CASE d \in {NestedDetection(g) : g \in ToSet(M.nested_groups)}
    <3>1. PICK g \in ToSet(NestedGroups(m)) : d = NestedDetection(g)
      BY <1>1, <2>2
    <3>2. PICK n \in ToSet(m) : /\ n.kind \in NestedKinds /\ Walked(m, n.path)
                                /\ g = Collection(n.path, CollectedLeaves(m, n.path))
      BY <3>1, ElementsOfNestedGroups
    <3> QED  BY <1>2, <3>1, <3>2
  <2> QED  BY <1>1, <2>1, <2>2, ElementsOfDetected
<1>4. ASSUME NEW n \in ToSet(m), n.kind = "open", Visited(m, n.path)
      PROVE  JsonDetection(Collection(n.path, DeclaredLeaves(m, n.path)))
                 \in ToSet(DetectedRoutes(M))
  <2>1. Collection(n.path, DeclaredLeaves(m, n.path)) \in ToSet(M.json_roots)
    BY <1>1, <1>4, ElementsOfJsonRoots
  <2> QED  BY <1>1, <2>1, ElementsOfDetected
<1>5. ASSUME NEW n \in ToSet(m), n.kind \in NestedKinds, Walked(m, n.path)
      PROVE  NestedDetection(Collection(n.path, CollectedLeaves(m, n.path)))
                 \in ToSet(DetectedRoutes(M))
  <2>1. Collection(n.path, CollectedLeaves(m, n.path)) \in ToSet(M.nested_groups)
    BY <1>1, <1>5, ElementsOfNestedGroups
  <2> QED  BY <1>1, <2>1, ElementsOfDetected
<1> QED  BY <1>3, <1>4, <1>5 DEF M

(* ... each from another one. *)
LEMMA DetectedOnce ==
  ASSUME NEW m, WellFormed(m),
         NEW d \in ToSet(DetectedRoutes(ParseMapping(m))),
         NEW e \in ToSet(DetectedRoutes(ParseMapping(m))),
         d.path = e.path
  PROVE  d = e
<1>1. PICK n \in ToSet(m) :
         /\ d.path = n.path
         /\ \/ /\ n.kind = "open"
               /\ d = JsonDetection(Collection(n.path, DeclaredLeaves(m, n.path)))
            \/ /\ n.kind \in NestedKinds
               /\ d = NestedDetection(Collection(n.path, CollectedLeaves(m, n.path)))
  BY DetectedNodes
<1>2. PICK k \in ToSet(m) :
         /\ e.path = k.path
         /\ \/ /\ k.kind = "open"
               /\ e = JsonDetection(Collection(k.path, DeclaredLeaves(m, k.path)))
            \/ /\ k.kind \in NestedKinds
               /\ e = NestedDetection(Collection(k.path, CollectedLeaves(m, k.path)))
  BY DetectedNodes
<1>3. n = k
  BY <1>1, <1>2, NodesOfMapping
<1> QED  BY <1>1, <1>2, <1>3 DEF NestedKinds

(* A sequence contains its elements. *)
LEMMA ContainsElements ==
  ASSUME NEW X, NEW s \in Seq(X), NEW x
  PROVE  Contains(s, x) <=> x \in ToSet(s)
BY DEF Contains, ToSet

(* The pinned paths, and the strategy a pin asks for. *)
LEMMA ElementsOfPins ==
  ASSUME NEW c, WellFormedConfig(c)
  PROVE  /\ PinnedPaths(c) \in Seq(FieldPaths)
         /\ \A p : p \in ToSet(PinnedPaths(c)) <=> \E s \in Strategies : p \in ToSet(c[s])
         /\ \A p : Pinned(c, p) <=> p \in ToSet(PinnedPaths(c))
         /\ \A p : Pinned(c, p) => /\ PinnedStrategy(c, p) \in Strategies
                                   /\ p \in ToSet(c[PinnedStrategy(c, p)])
<1> DEFINE pins == [i \in DOMAIN PinOrder |-> c[PinOrder[i]]]
<1>1. /\ DOMAIN PinOrder = 1 .. 4 /\ \A i \in 1 .. 4 : PinOrder[i] \in Strategies
      /\ \A s \in Strategies : \E i \in 1 .. 4 : s = PinOrder[i]
  BY DEF PinOrder, Strategies
<1>2. \A s \in Strategies : c[s] \in Seq(FieldPaths)
  BY DEF WellFormedConfig
<1>3. pins \in Seq(Seq(FieldPaths)) /\ DOMAIN pins = 1 .. 4
  BY <1>1, <1>2
<1>4. PinnedPaths(c) = FlattenSeq(pins)
  BY DEF PinnedPaths
<1>5. /\ FlattenSeq(pins) \in Seq(FieldPaths)
      /\ \A x : x \in ToSet(FlattenSeq(pins)) <=> \E i \in DOMAIN pins : x \in ToSet(pins[i])
  <2> HIDE DEF pins
  <2> QED  BY <1>3, ElementsOfFlattened
<1>6. \A p : p \in ToSet(PinnedPaths(c)) <=> \E i \in 1 .. 4 : p \in ToSet(c[PinOrder[i]])
  BY <1>1, <1>3, <1>4, <1>5
<1>7. \A p : p \in ToSet(PinnedPaths(c)) <=> \E s \in Strategies : p \in ToSet(c[s])
  BY <1>1, <1>6
<1>8. \A p : Pinned(c, p) <=> p \in ToSet(PinnedPaths(c))
  BY <1>4, <1>5, ContainsElements DEF Pinned
<1>9. ASSUME NEW p, Pinned(c, p)
      PROVE  PinnedStrategy(c, p) \in Strategies /\ p \in ToSet(c[PinnedStrategy(c, p)])
  <2> DEFINE First(i) == /\ Contains(c[PinOrder[i]], p)
                         /\ \A j \in 1 .. i - 1 : ~Contains(c[PinOrder[j]], p)
             J == {i \in 1 .. 4 : Contains(c[PinOrder[i]], p)}
  <2>1. \A i \in 1 .. 4 : Contains(c[PinOrder[i]], p) <=> p \in ToSet(c[PinOrder[i]])
    BY <1>1, <1>2, ContainsElements
  <2>2. J \in SUBSET Nat /\ J # {}
    BY <1>6, <1>8, <1>9, <2>1
  <2>3. PICK i \in J : \A j \in J : i <= j
    <3> HIDE DEF J
    <3> QED  BY <2>2, Least
  <2>4. i \in DOMAIN PinOrder /\ First(i)
    BY <1>1, <2>3
  <2> DEFINE k == CHOOSE x \in DOMAIN PinOrder : First(x)
  <2>5. k \in DOMAIN PinOrder /\ First(k)
    <3> HIDE DEF First
    <3> QED  BY <2>4
  <2>6. PinnedStrategy(c, p) = PinOrder[k]
    BY DEF PinnedStrategy
  <2> HIDE DEF k
  <2>7. k \in 1 .. 4 /\ Contains(c[PinOrder[k]], p)
    BY <1>1, <2>5
  <2> QED  BY <1>1, <2>1, <2>6, <2>7
<1> QED  BY <1>4, <1>5, <1>7, <1>8, <1>9

(* A strategy is honored but for a Map of an array. *)
LEMMA HonoredStrategies ==
  ASSUME NEW s \in Strategies, NEW source \in {"object", "array"}
  PROVE  /\ HonorStrategy(s, source) \in Strategies
         /\ HonorStrategy(s, source) = s \/ (s = "map" /\ source = "array")
         /\ source = "array" => HonorStrategy(s, source) # "map"
         /\ HonorStrategy(s, source) = "flatten" => s = "flatten"
         /\ HonorStrategy(s, source) = "json" <=> s = "json"
BY DEF HonorStrategy, Strategies

(* The route of a root Elasticsearch dictates ... *)
LEMMA RouteOfDetected ==
  ASSUME NEW m, WellFormed(m), NEW c, WellFormedConfig(c),
         NEW d \in ToSet(DetectedRoutes(ParseMapping(m)))
  PROVE  LET r == RouteOf(ParseMapping(m), c, DetectedRoutes(ParseMapping(m)), d.path)
         IN  /\ r \in Routes
             /\ r.path = d.path
             /\ r.source = d.source
             /\ r.detected = d.strategy
             /\ r.leaves = d.leaves
             /\ r.strategy = HonorStrategy(IF Pinned(c, d.path) THEN PinnedStrategy(c, d.path)
                                           ELSE d.strategy, d.source)
<1> DEFINE M == ParseMapping(m)
           det == DetectedRoutes(M)
           S == {x \in ToSet(det) : x.path = d.path}
           found == Only(det, S)
           pinned == IF Pinned(c, d.path) THEN PinnedStrategy(c, d.path) ELSE d.strategy
           r == RouteOf(M, c, det, d.path)
<1>1. det \in Seq(Detections) /\ d \in Detections
  <2>1. M \in Models
    BY ParsedMapping
  <2>2. det \in Seq(Detections)
    BY <2>1, ElementsOfDetected
  <2> QED  BY <2>2, NoElements
<1>2. found \in Seq(Detections) /\ ToSet(found) = ToSet(det) \cap S
  <2> HIDE DEF det, S
  <2> QED  BY <1>1, ElementsOnly
<1>3. found # <<>> /\ found[1] = d
  <2>1. d \in S /\ \A x \in S : x = d
    BY DetectedOnce
  <2>2. ToSet(found) # {} /\ \A x \in ToSet(found) : x = d
    <3> HIDE DEF S, found
    <3> QED  BY <1>2, <2>1
  <2> HIDE DEF found
  <2> QED  BY <1>2, <2>2, NoElements
<1>4. r = [path |-> d.path, strategy |-> HonorStrategy(pinned, d.source), leaves |-> d.leaves,
           source |-> d.source, detected |-> d.strategy]
  <2>1. r = RouteOf(M, c, det, d.path)
    OBVIOUS
  <2> HIDE DEF M, det, r
  <2> QED  BY <1>3, <2>1 DEF RouteOf
<1> HIDE DEF M, det, r, S, found
<1>5. pinned \in Strategies
  BY <1>1, ElementsOfPins DEF Detections, Strategies
<1>6. HonorStrategy(pinned, d.source) \in Strategies
  <2> HIDE DEF pinned
  <2>1. d.source \in {"object", "array"}
    BY <1>1 DEF Detections
  <2> QED  BY <1>5, <2>1, HonoredStrategies
<1> HIDE DEF pinned
<1>7. r \in Routes
  BY <1>1, <1>4, <1>6 DEF Routes, Detections
<1> USE DEF r, det, M, pinned
<1>8. r.path = d.path /\ r.source = d.source /\ r.detected = d.strategy
      /\ r.leaves = d.leaves /\ r.strategy = HonorStrategy(pinned, d.source)
  <2> HIDE DEF r, pinned
  <2> QED  BY <1>4
<1>9. r \in Routes /\ r.path = d.path /\ r.source = d.source /\ r.detected = d.strategy
      /\ r.leaves = d.leaves /\ r.strategy = HonorStrategy(pinned, d.source)
  <2> HIDE DEF r, pinned
  <2> QED  BY <1>7, <1>8
<1> QED  BY <1>9

(* ... and of one that is only pinned. *)
LEMMA RouteOfPinned ==
  ASSUME NEW m, WellFormed(m), NEW c, WellFormedConfig(c), NEW p \in ToSet(PinnedPaths(c)),
         \A d \in ToSet(DetectedRoutes(ParseMapping(m))) : d.path # p
  PROVE  LET r == RouteOf(ParseMapping(m), c, DetectedRoutes(ParseMapping(m)), p)
         IN  /\ r \in Routes
             /\ r.path = p
             /\ r.source = "object"
             /\ r.detected = "none"
             /\ r.leaves = PlainLeaves(ParseMapping(m), p)
             /\ r.strategy = PinnedStrategy(c, p)
<1> DEFINE M == ParseMapping(m)
           det == DetectedRoutes(M)
           S == {x \in ToSet(det) : x.path = p}
           found == Only(det, S)
           r == RouteOf(M, c, det, p)
<1>0. M \in Models
  BY ParsedMapping
<1>1. det \in Seq(Detections)
  BY <1>0, ElementsOfDetected
<1>2. found \in Seq(Detections) /\ ToSet(found) = ToSet(det) \cap S
  <2> HIDE DEF det, S
  <2> QED  BY <1>1, ElementsOnly
<1>3. found = <<>>
  <2>1. S = {}
    OBVIOUS
  <2>2. ToSet(found) = {}
    <3> HIDE DEF S, found
    <3> QED  BY <1>2, <2>1
  <2> HIDE DEF found
  <2> QED  BY <1>2, <2>2, NoElements
<1>4. /\ p \in FieldPaths /\ Pinned(c, p) /\ PinnedStrategy(c, p) \in Strategies
  BY ElementsOfPins, NoElements
<1>5. HonorStrategy(PinnedStrategy(c, p), "object") = PinnedStrategy(c, p)
  BY DEF HonorStrategy
<1>6. r = [path |-> p, strategy |-> PinnedStrategy(c, p), leaves |-> PlainLeaves(M, p),
           source |-> "object", detected |-> "none"]
  <2>1. r = RouteOf(M, c, det, p)
    OBVIOUS
  <2> HIDE DEF M, det, r
  <2> QED  BY <1>3, <1>4, <1>5, <2>1 DEF RouteOf
<1>7. PlainLeaves(M, p) \in Seq(Nodes)
  <2>1. M.fields \in Seq(Nodes)
    BY <1>0 DEF Models
  <2> HIDE DEF M
  <2> QED  BY <2>1, ElementsOnly DEF PlainLeaves
<1>8. r \in Routes /\ r.path = p /\ r.source = "object" /\ r.detected = "none"
      /\ r.leaves = PlainLeaves(M, p) /\ r.strategy = PinnedStrategy(c, p)
  <2> HIDE DEF M, det, r
  <2> QED  BY <1>4, <1>6, <1>7 DEF Routes
<1> QED  BY <1>8

(* There is one route for each root. *)
LEMMA ElementsOfRoutes ==
  ASSUME NEW m, WellFormed(m), NEW c, WellFormedConfig(c)
  PROVE  /\ RoutesOf(ParseMapping(m), c) \in Seq(Routes)
         /\ ToSet(RoutesOf(ParseMapping(m), c)) =
               {RouteOf(ParseMapping(m), c, DetectedRoutes(ParseMapping(m)), p) :
                  p \in {d.path : d \in ToSet(DetectedRoutes(ParseMapping(m)))}
                           \cup ToSet(PinnedPaths(c))}
<1> DEFINE M == ParseMapping(m)
           det == DetectedRoutes(M)
           detPaths == [i \in DOMAIN det |-> det[i].path]
           all == detPaths \o PinnedPaths(c)
           paths == FirstOfEach(all)
           RS == RoutesOf(M, c)
<1>1. det \in Seq(Detections)
  BY ParsedMapping, ElementsOfDetected
<1>2. /\ detPaths \in Seq(FieldPaths)
      /\ ToSet(detPaths) = {d.path : d \in ToSet(det)}
  <2> HIDE DEF det
  <2>1. Len(det) \in Nat /\ DOMAIN det = 1 .. Len(det) /\ \A i \in DOMAIN det : det[i] \in Detections
    BY <1>1
  <2>2. \A i \in DOMAIN det : det[i].path \in FieldPaths
    BY <2>1 DEF Detections
  <2>3. detPaths \in Seq(FieldPaths) /\ DOMAIN detPaths = DOMAIN det
    BY <2>1, <2>2
  <2> QED  BY <2>3 DEF ToSet
<1>3. PinnedPaths(c) \in Seq(FieldPaths)
  BY ElementsOfPins
<1>4. all \in Seq(FieldPaths) /\ ToSet(all) = ToSet(detPaths) \cup ToSet(PinnedPaths(c))
  <2> HIDE DEF detPaths
  <2> QED  BY <1>2, <1>3, ElementsOfConcat
<1>5. paths \in Seq(FieldPaths) /\ ToSet(paths) = ToSet(all)
  <2> HIDE DEF all
  <2> QED  BY <1>4, ElementsOfFirst
<1>6. RS = [i \in DOMAIN paths |-> RouteOf(M, c, det, paths[i])]
  BY DEF RoutesOf
<1>7. \A p \in ToSet(paths) : RouteOf(M, c, det, p) \in Routes
  <2>1. ASSUME NEW p \in ToSet(paths) PROVE RouteOf(M, c, det, p) \in Routes
    <3>1. p \in {d.path : d \in ToSet(det)} \cup ToSet(PinnedPaths(c))
      <4> HIDE DEF paths, all, detPaths, det
      <4> QED  BY <1>2, <1>4, <1>5, <2>1
    <3>2. CASE \E d \in ToSet(det) : d.path = p
      BY <3>2, RouteOfDetected
    <3>3. CASE ~\E d \in ToSet(det) : d.path = p
      BY <3>1, <3>3, RouteOfPinned
    <3> QED  BY <3>2, <3>3
  <2> QED  BY <2>1
<1> HIDE DEF M, det, detPaths, all, paths, RS
<1>8. RS \in Seq(Routes) /\ DOMAIN RS = DOMAIN paths
  <2>1. Len(paths) \in Nat /\ DOMAIN paths = 1 .. Len(paths)
    BY <1>5
  <2>2. \A i \in DOMAIN paths : RouteOf(M, c, det, paths[i]) \in Routes
    BY <1>7 DEF ToSet
  <2> QED  BY <1>6, <2>1, <2>2
<1>9. ToSet(RS) = {RouteOf(M, c, det, p) : p \in ToSet(paths)}
  BY <1>6, <1>8 DEF ToSet
<1>10. ToSet(paths) = {d.path : d \in ToSet(det)} \cup ToSet(PinnedPaths(c))
  BY <1>2, <1>4, <1>5
<1> QED  BY <1>8, <1>9, <1>10 DEF M, det, RS

-----------------------------------------------------------------------------
(* What is hoisted *)

(* The routes that are hoisted, and those that pass through. *)
LEMMA ElementsOfHoistable ==
  ASSUME NEW RS \in Seq(Routes)
  PROVE  /\ Hoistable(RS) \in Seq(Routes)
         /\ ToSet(Hoistable(RS)) = {r \in ToSet(RS) : r.strategy # "flatten"}
         /\ Flattened(RS) \in Seq(Routes)
         /\ ToSet(Flattened(RS)) = {r \in ToSet(RS) : r.strategy = "flatten"}
<1> DEFINE H == {r \in ToSet(RS) : r.strategy # "flatten"}
           F == {r \in ToSet(RS) : r.strategy = "flatten"}
<1>1. Hoistable(RS) = Only(RS, H) /\ Flattened(RS) = Only(RS, F)
  BY DEF Hoistable, Flattened
<1>2. H \subseteq ToSet(RS) /\ F \subseteq ToSet(RS)
  OBVIOUS
<1> HIDE DEF H, F
<1>3. /\ Only(RS, H) \in Seq(Routes) /\ ToSet(Only(RS, H)) = ToSet(RS) \cap H
      /\ Only(RS, F) \in Seq(Routes) /\ ToSet(Only(RS, F)) = ToSet(RS) \cap F
  BY ElementsOnly
<1>4. /\ Only(RS, H) \in Seq(Routes) /\ ToSet(Only(RS, H)) = H
      /\ Only(RS, F) \in Seq(Routes) /\ ToSet(Only(RS, F)) = F
  BY <1>2, <1>3
<1> QED  BY <1>1, <1>4 DEF H, F

(* The routes that are merged into one column. *)
LEMMA ElementsOfMembers ==
  ASSUME NEW RS \in Seq(Routes), NEW top
  PROVE  /\ MembersOf(RS, top) \in Seq(Routes)
         /\ ToSet(MembersOf(RS, top)) =
               {r \in ToSet(RS) : r.strategy # "flatten" /\ TopLevelKey(r.path) = top}
<1> DEFINE S == {r \in ToSet(RS) : TopLevelKey(r.path) = top}
<1>1. MembersOf(RS, top) = Only(Hoistable(RS), S)
  BY DEF MembersOf
<1>2. /\ Hoistable(RS) \in Seq(Routes)
      /\ ToSet(Hoistable(RS)) = {r \in ToSet(RS) : r.strategy # "flatten"}
  BY ElementsOfHoistable
<1>3. /\ Only(Hoistable(RS), S) \in Seq(Routes)
      /\ ToSet(Only(Hoistable(RS), S)) = ToSet(Hoistable(RS)) \cap S
  <2> HIDE DEF S
  <2> QED  BY <1>2, ElementsOnly
<1> QED  BY <1>1, <1>2, <1>3

(* The merged strategy is one of a member: JSON if a member has it, else *)
(* Nested if a member has it.                                            *)
LEMMA WinnerOfMembers ==
  ASSUME NEW members \in Seq(Routes), members # <<>>,
         \A r \in ToSet(members) : r.strategy # "flatten"
  PROVE  /\ \E r \in ToSet(members) : r.strategy = Winner(members)
         /\ \A r \in ToSet(members) : Precedence[Winner(members)] <= Precedence[r.strategy]
         /\ Winner(members) \in {"json", "map", "nested"}
         /\ (\E r \in ToSet(members) : r.strategy = "json") => Winner(members) = "json"
         /\ (\E r \in ToSet(members) : r.strategy = "nested") =>
               Winner(members) \in {"json", "nested"}
<1> DEFINE T == {r.strategy : r \in ToSet(members)}
           Best(s) == \A r \in ToSet(members) : Precedence[s] <= Precedence[r.strategy]
<1>1. /\ Precedence["json"] = 0 /\ Precedence["nested"] = 1 /\ Precedence["map"] = 2
  BY DEF Precedence
<1>2. T # {} /\ T \subseteq {"json", "map", "nested"}
  <2>1. /\ members[1] \in ToSet(members)
        /\ \A r \in ToSet(members) : r \in Routes
    BY NoElements
  <2>2. \A r \in Routes : r.strategy \in Strategies
    BY DEF Routes
  <2>3. \A r \in ToSet(members) : r.strategy \in {"json", "map", "nested"}
    BY <2>1, <2>2 DEF Strategies
  <2> QED  BY <2>1, <2>3
<1>3. \A r \in ToSet(members) : r.strategy \in T
  OBVIOUS
<1>4. \E s \in T : Best(s)
  <2>1. CASE "json" \in T
    <3>1. \A s \in {"json", "map", "nested"} : Precedence["json"] <= Precedence[s]
      BY <1>1
    <3> QED  BY <1>2, <1>3, <2>1, <3>1
  <2>2. CASE "json" \notin T /\ "nested" \in T
    <3>1. \A s \in {"map", "nested"} : Precedence["nested"] <= Precedence[s]
      BY <1>1
    <3> QED  BY <1>2, <1>3, <2>2, <3>1
  <2>3. CASE "json" \notin T /\ "nested" \notin T
    <3>1. \A s \in T : s = "map"
      BY <1>2, <2>3
    <3>2. "map" \in T
      BY <1>2, <3>1
    <3>3. \A r \in ToSet(members) : r.strategy = "map"
      BY <1>3, <3>1
    <3>4. Best("map")
      BY <1>1, <3>3
    <3> QED  BY <3>2, <3>4
  <2> QED  BY <2>1, <2>2, <2>3
<1> DEFINE w == CHOOSE s \in T : Best(s)
<1>5. Winner(members) = w
  BY DEF Winner
<1>6. w \in T /\ Best(w)
  <2> HIDE DEF T, Best
  <2> QED  BY <1>4
<1> HIDE DEF w
<1>7. w \in {"json", "map", "nested"}
  BY <1>2, <1>6
<1>8. (\E r \in ToSet(members) : r.strategy = "json") => w = "json"
  BY <1>1, <1>6, <1>7
<1>9. (\E r \in ToSet(members) : r.strategy = "nested") => w \in {"json", "nested"}
  BY <1>1, <1>6, <1>7
<1> QED  BY <1>5, <1>6, <1>7, <1>8, <1>9

(* The leaves of all roots or groups ... *)
LEMMA ElementsOfFields ==
  ASSUME NEW K \in Seq(Collections)
  PROVE  /\ FlattenSeq([i \in DOMAIN K |-> K[i].fields]) \in Seq(Nodes)
         /\ \A f : f \in ToSet(FlattenSeq([i \in DOMAIN K |-> K[i].fields]))
                      <=> \E k \in ToSet(K) : f \in ToSet(k.fields)
<1> DEFINE parts == [i \in DOMAIN K |-> K[i].fields]
<1>1. parts \in Seq(Seq(Nodes)) /\ DOMAIN parts = DOMAIN K
  <2>1. /\ Len(K) \in Nat /\ DOMAIN K = 1 .. Len(K) /\ \A i \in DOMAIN K : K[i] \in Collections
    OBVIOUS
  <2>2. \A i \in DOMAIN K : K[i].fields \in Seq(Nodes)
    BY <2>1 DEF Collections
  <2> QED  BY <2>1, <2>2
<1>2. \A i \in DOMAIN K : parts[i] = K[i].fields
  OBVIOUS
<1>3. \A f : (\E k \in ToSet(K) : f \in ToSet(k.fields))
                <=> \E i \in DOMAIN K : f \in ToSet(K[i].fields)
  BY DEF ToSet
<1> HIDE DEF parts
<1>4. /\ FlattenSeq(parts) \in Seq(Nodes)
      /\ \A f : f \in ToSet(FlattenSeq(parts)) <=> \E i \in DOMAIN parts : f \in ToSet(parts[i])
  BY <1>1, ElementsOfFlattened
<1>5. /\ FlattenSeq(parts) \in Seq(Nodes)
      /\ \A f : f \in ToSet(FlattenSeq(parts)) <=> \E k \in ToSet(K) : f \in ToSet(k.fields)
  BY <1>1, <1>2, <1>3, <1>4
<1> QED  BY <1>5 DEF parts

(* ... and of all routes. *)
LEMMA ElementsOfRouteLeaves ==
  ASSUME NEW K \in Seq(Routes)
  PROVE  /\ FlattenSeq([i \in DOMAIN K |-> K[i].leaves]) \in Seq(Nodes)
         /\ \A f : f \in ToSet(FlattenSeq([i \in DOMAIN K |-> K[i].leaves]))
                      <=> \E k \in ToSet(K) : f \in ToSet(k.leaves)
<1> DEFINE parts == [i \in DOMAIN K |-> K[i].leaves]
<1>1. parts \in Seq(Seq(Nodes)) /\ DOMAIN parts = DOMAIN K
  <2>1. /\ Len(K) \in Nat /\ DOMAIN K = 1 .. Len(K) /\ \A i \in DOMAIN K : K[i] \in Routes
    OBVIOUS
  <2>2. \A i \in DOMAIN K : K[i].leaves \in Seq(Nodes)
    BY <2>1 DEF Routes
  <2> QED  BY <2>1, <2>2
<1>2. \A i \in DOMAIN K : parts[i] = K[i].leaves
  OBVIOUS
<1>3. \A f : (\E k \in ToSet(K) : f \in ToSet(k.leaves))
                <=> \E i \in DOMAIN K : f \in ToSet(K[i].leaves)
  BY DEF ToSet
<1> HIDE DEF parts
<1>4. /\ FlattenSeq(parts) \in Seq(Nodes)
      /\ \A f : f \in ToSet(FlattenSeq(parts)) <=> \E i \in DOMAIN parts : f \in ToSet(parts[i])
  BY <1>1, ElementsOfFlattened
<1>5. /\ FlattenSeq(parts) \in Seq(Nodes)
      /\ \A f : f \in ToSet(FlattenSeq(parts)) <=> \E k \in ToSet(K) : f \in ToSet(k.leaves)
  BY <1>1, <1>2, <1>3, <1>4
<1> QED  BY <1>5 DEF parts

(* _all_leaves_under finds every leaf of the model below the key, and *)
(* leaves of the model and the members only.                          *)
LEMMA LeavesUnder ==
  ASSUME NEW M \in Models, NEW members \in Seq(Routes), NEW top
  PROVE  /\ AllLeavesUnder(M, top, members) \in Seq(Nodes)
         /\ \A f \in ToSet(AllLeavesUnder(M, top, members)) :
               /\ Under(top, f.path)
               /\ \/ f \in ToSet(M.fields)
                  \/ \E k \in ToSet(M.json_roots) \cup ToSet(M.nested_groups) : f \in ToSet(k.fields)
                  \/ \E k \in ToSet(members) : f \in ToSet(k.leaves)
         /\ \A f : /\ Under(top, f.path)
                   /\ \/ f \in ToSet(M.fields)
                      \/ \E k \in ToSet(M.json_roots) \cup ToSet(M.nested_groups) :
                            f \in ToSet(k.fields)
                   => f.path \in Paths(AllLeavesUnder(M, top, members))
<1> DEFINE roots == FlattenSeq([i \in DOMAIN M.json_roots |-> M.json_roots[i].fields])
           groups == FlattenSeq([i \in DOMAIN M.nested_groups |-> M.nested_groups[i].fields])
           leaves == FlattenSeq([i \in DOMAIN members |-> members[i].leaves])
           sources == M.fields \o roots \o groups \o leaves
           S == {f \in ToSet(sources) : Under(top, f.path)}
           some == Only(sources, S)
<1>1. AllLeavesUnder(M, top, members) = FirstByPath(some)
  BY DEF AllLeavesUnder
<1>2. /\ M.fields \in Seq(Nodes) /\ M.json_roots \in Seq(Collections)
      /\ M.nested_groups \in Seq(Collections)
  BY DEF Models
<1>3. /\ roots \in Seq(Nodes)
      /\ \A f : f \in ToSet(roots) <=> \E k \in ToSet(M.json_roots) : f \in ToSet(k.fields)
  BY <1>2, ElementsOfFields
<1>4. /\ groups \in Seq(Nodes)
      /\ \A f : f \in ToSet(groups) <=> \E k \in ToSet(M.nested_groups) : f \in ToSet(k.fields)
  BY <1>2, ElementsOfFields
<1>5. /\ leaves \in Seq(Nodes)
      /\ \A f : f \in ToSet(leaves) <=> \E k \in ToSet(members) : f \in ToSet(k.leaves)
  BY ElementsOfRouteLeaves
<1> HIDE DEF roots, groups, leaves
<1>6. /\ sources \in Seq(Nodes)
      /\ ToSet(sources) = ToSet(M.fields) \cup ToSet(roots) \cup ToSet(groups) \cup ToSet(leaves)
  <2> DEFINE one == M.fields \o roots
             two == one \o groups
  <2>1. one \in Seq(Nodes) /\ ToSet(one) = ToSet(M.fields) \cup ToSet(roots)
    BY <1>2, <1>3, ElementsOfConcat
  <2>2. two \in Seq(Nodes) /\ ToSet(two) = ToSet(one) \cup ToSet(groups)
    <3> HIDE DEF one
    <3> QED  BY <1>4, <2>1, ElementsOfConcat
  <2>3. two \o leaves \in Seq(Nodes) /\ ToSet(two \o leaves) = ToSet(two) \cup ToSet(leaves)
    <3> HIDE DEF two
    <3> QED  BY <1>5, <2>2, ElementsOfConcat
  <2>4. sources = two \o leaves
    OBVIOUS
  <2> HIDE DEF one, two, sources
  <2> QED  BY <2>1, <2>2, <2>3, <2>4
<1> HIDE DEF sources
<1>7. some \in Seq(Nodes) /\ ToSet(some) = S
  <2>1. S \subseteq ToSet(sources)
    OBVIOUS
  <2> HIDE DEF S
  <2>2. some \in Seq(Nodes) /\ ToSet(some) = ToSet(sources) \cap S
    BY <1>6, ElementsOnly
  <2> QED  BY <2>1, <2>2
<1> HIDE DEF some
<1>8. /\ FirstByPath(some) \in Seq(Nodes)
      /\ ToSet(FirstByPath(some)) \subseteq ToSet(some)
      /\ Paths(FirstByPath(some)) = Paths(some)
  BY <1>7, ElementsOfFirstByPath
<1>9. Paths(some) = {f.path : f \in S}
  BY <1>7, PathsOfElements
<1> HIDE DEF roots, groups, leaves
<1>10. ASSUME NEW f \in S
       PROVE  /\ Under(top, f.path)
              /\ \/ f \in ToSet(M.fields)
                 \/ \E k \in ToSet(M.json_roots) \cup ToSet(M.nested_groups) : f \in ToSet(k.fields)
                 \/ \E k \in ToSet(members) : f \in ToSet(k.leaves)
  BY <1>3, <1>4, <1>5, <1>6
<1>11. ASSUME NEW f, Under(top, f.path),
              \/ f \in ToSet(M.fields)
              \/ \E k \in ToSet(M.json_roots) \cup ToSet(M.nested_groups) : f \in ToSet(k.fields)
       PROVE  f.path \in Paths(FirstByPath(some))
  BY <1>3, <1>4, <1>6, <1>8, <1>9, <1>11
<1> HIDE DEF S
<1> QED  BY <1>1, <1>7, <1>8, <1>10, <1>11

(* What _merge_group returns, for a key some route is hoisted to. *)
LEMMA MergedGroups ==
  ASSUME NEW M \in Models, NEW RS \in Seq(Routes),
         NEW r \in ToSet(RS), r.strategy # "flatten", NEW top, top = TopLevelKey(r.path)
  PROVE  LET members == MembersOf(RS, top)
             g == MergeGroup(M, top, members)
         IN  /\ r \in ToSet(members)
             /\ members # <<>>
             /\ \A x \in ToSet(members) : x.strategy # "flatten"
             /\ g \in Routes
             /\ g.path = top
             /\ g.strategy = Winner(members)
             /\ g.strategy \in {"json", "map", "nested"}
             /\ g.leaves = AllLeavesUnder(M, top, members)
<1> DEFINE members == MembersOf(RS, top)
           g == MergeGroup(M, top, members)
<1>1. /\ members \in Seq(Routes)
      /\ ToSet(members) = {x \in ToSet(RS) : x.strategy # "flatten" /\ TopLevelKey(x.path) = top}
  BY ElementsOfMembers
<1> HIDE DEF members
<1>2. r \in ToSet(members) /\ \A x \in ToSet(members) : x.strategy # "flatten"
  BY <1>1
<1>3. members # <<>>
  BY <1>1, <1>2, NoElements
<1>4. Winner(members) \in {"json", "map", "nested"}
  BY <1>1, <1>2, <1>3, WinnerOfMembers
<1>5. AllLeavesUnder(M, top, members) \in Seq(Nodes)
  BY <1>1, LeavesUnder
<1>6. r.path \in FieldPaths /\ top \in FieldPaths
  <2>1. r \in Routes
    BY NoElements
  <2>2. r.path \in FieldPaths
    BY <2>1 DEF Routes
  <2> QED  BY <2>2, TopLevelKeys
<1>7. DetectedFor(top, M) \in {"json", "nested", "none"}
  BY DEF DetectedFor
<1>8. g = [path |-> top, strategy |-> Winner(members),
           leaves |-> AllLeavesUnder(M, top, members),
           source |-> IF \E x \in ToSet(members) : x.source = "array" THEN "array" ELSE "object",
           detected |-> DetectedFor(top, M)]
  BY DEF MergeGroup
<1> HIDE DEF g
<1>9. g \in Routes /\ g.path = top /\ g.strategy = Winner(members)
      /\ g.leaves = AllLeavesUnder(M, top, members)
  BY <1>4, <1>5, <1>6, <1>7, <1>8 DEF Routes, Strategies
<1> QED  BY <1>2, <1>3, <1>4, <1>9 DEF members, g

(* The hoisted routes: the merged ones, and those that pass through. *)
LEMMA ElementsOfHoisted ==
  ASSUME NEW M \in Models, NEW RS \in Seq(Routes)
  PROVE  /\ HoistToTopLevel(M, RS) \in Seq(Routes)
         /\ \A g : g \in ToSet(HoistToTopLevel(M, RS)) <=>
               \/ g \in ToSet(RS) /\ g.strategy = "flatten"
               \/ \E r \in ToSet(RS) :
                     /\ r.strategy # "flatten"
                     /\ g = MergeGroup(M, TopLevelKey(r.path), MembersOf(RS, TopLevelKey(r.path)))
<1> DEFINE objects == Hoistable(RS)
           keys == [i \in DOMAIN objects |-> TopLevelKey(objects[i].path)]
           tops == FirstOfEach(keys)
           merged == [i \in DOMAIN tops |-> MergeGroup(M, tops[i], MembersOf(RS, tops[i]))]
           H == HoistToTopLevel(M, RS)
<1>1. /\ objects \in Seq(Routes)
      /\ ToSet(objects) = {r \in ToSet(RS) : r.strategy # "flatten"}
      /\ Flattened(RS) \in Seq(Routes)
      /\ ToSet(Flattened(RS)) = {r \in ToSet(RS) : r.strategy = "flatten"}
  BY ElementsOfHoistable
<1>2. H = merged \o Flattened(RS)
  BY DEF HoistToTopLevel
<1>3. keys \in Seq(FieldPaths) /\ ToSet(keys) = {TopLevelKey(r.path) : r \in ToSet(objects)}
  <2> HIDE DEF objects
  <2>1. /\ Len(objects) \in Nat /\ DOMAIN objects = 1 .. Len(objects)
        /\ \A i \in DOMAIN objects : objects[i] \in Routes
    BY <1>1
  <2>2. \A i \in DOMAIN objects : objects[i].path \in FieldPaths
    BY <2>1 DEF Routes
  <2>3. \A i \in DOMAIN objects : TopLevelKey(objects[i].path) \in FieldPaths
    BY <2>2, TopLevelKeys
  <2>4. keys \in Seq(FieldPaths) /\ DOMAIN keys = DOMAIN objects
    BY <2>1, <2>3
  <2> QED  BY <2>4 DEF ToSet
<1>4. tops \in Seq(FieldPaths) /\ ToSet(tops) = ToSet(keys)
  <2> HIDE DEF keys
  <2> QED  BY <1>3, ElementsOfFirst
<1> HIDE DEF objects, keys, tops, H
<1>5. \A t \in ToSet(tops) : MergeGroup(M, t, MembersOf(RS, t)) \in Routes
  <2>1. ASSUME NEW t \in ToSet(tops) PROVE MergeGroup(M, t, MembersOf(RS, t)) \in Routes
    <3>1. PICK r \in ToSet(RS) : r.strategy # "flatten" /\ t = TopLevelKey(r.path)
      BY <1>1, <1>3, <1>4
    <3> QED  BY <3>1, MergedGroups
  <2> QED  BY <2>1
<1>6. merged \in Seq(Routes) /\ DOMAIN merged = DOMAIN tops
  <2>1. Len(tops) \in Nat /\ DOMAIN tops = 1 .. Len(tops)
    BY <1>4
  <2>2. \A i \in DOMAIN tops : MergeGroup(M, tops[i], MembersOf(RS, tops[i])) \in Routes
    BY <1>5 DEF ToSet
  <2> QED  BY <2>1, <2>2
<1>7. ToSet(merged) = {MergeGroup(M, t, MembersOf(RS, t)) : t \in ToSet(tops)}
  BY <1>6 DEF ToSet
<1> HIDE DEF merged
<1>8. H \in Seq(Routes) /\ ToSet(H) = ToSet(merged) \cup ToSet(Flattened(RS))
  BY <1>1, <1>2, <1>6, ElementsOfConcat
<1>9. \A g : g \in ToSet(merged) <=>
                \E r \in ToSet(RS) :
                     /\ r.strategy # "flatten"
                     /\ g = MergeGroup(M, TopLevelKey(r.path), MembersOf(RS, TopLevelKey(r.path)))
  BY <1>1, <1>3, <1>4, <1>7
<1>10. \A g : g \in ToSet(H) <=>
               \/ g \in ToSet(RS) /\ g.strategy = "flatten"
               \/ \E r \in ToSet(RS) :
                     /\ r.strategy # "flatten"
                     /\ g = MergeGroup(M, TopLevelKey(r.path), MembersOf(RS, TopLevelKey(r.path)))
  BY <1>1, <1>8, <1>9
<1> QED  BY <1>8, <1>10 DEF H

-----------------------------------------------------------------------------
(* What the routes of a mapping are *)

(* A route comes from a detected root or from a pin ... *)
LEMMA RouteOrigins ==
  ASSUME NEW m, WellFormed(m), NEW c, WellFormedConfig(c),
         NEW r \in ToSet(RoutesOf(ParseMapping(m), c))
  PROVE  \/ \E d \in ToSet(DetectedRoutes(ParseMapping(m))) :
               /\ r.path = d.path
               /\ r.source = d.source
               /\ r.detected = d.strategy
               /\ r.leaves = d.leaves
               /\ r.strategy = HonorStrategy(IF Pinned(c, d.path) THEN PinnedStrategy(c, d.path)
                                             ELSE d.strategy, d.source)
         \/ /\ r.path \in ToSet(PinnedPaths(c))
            /\ r.source = "object"
            /\ r.detected = "none"
            /\ r.leaves = PlainLeaves(ParseMapping(m), r.path)
            /\ r.strategy = PinnedStrategy(c, r.path)
<1> DEFINE det == DetectedRoutes(ParseMapping(m))
<1>1. PICK p \in {d.path : d \in ToSet(det)} \cup ToSet(PinnedPaths(c)) :
         r = RouteOf(ParseMapping(m), c, det, p)
  BY ElementsOfRoutes
<1>2. CASE \E d \in ToSet(det) : d.path = p
  <2>1. PICK d \in ToSet(det) : d.path = p
    BY <1>2
  <2> QED  BY <1>1, <2>1, RouteOfDetected
<1>3. CASE ~\E d \in ToSet(det) : d.path = p
  <2>1. p \in ToSet(PinnedPaths(c))
    <3> HIDE DEF det
    <3> QED  BY <1>3
  <2>2. /\ r.path = p
        /\ r.source = "object"
        /\ r.detected = "none"
        /\ r.leaves = PlainLeaves(ParseMapping(m), p)
        /\ r.strategy = PinnedStrategy(c, p)
    BY <1>1, <1>3, <2>1, RouteOfPinned
  <2> QED  BY <2>1, <2>2
<1> QED  BY <1>2, <1>3

(* ... every detected root has one ... *)
LEMMA RoutesOfDetected ==
  ASSUME NEW m, WellFormed(m), NEW c, WellFormedConfig(c),
         NEW d \in ToSet(DetectedRoutes(ParseMapping(m)))
  PROVE  \E r \in ToSet(RoutesOf(ParseMapping(m), c)) :
            /\ r \in Routes
            /\ r.path = d.path
            /\ r.source = d.source
            /\ r.detected = d.strategy
            /\ r.leaves = d.leaves
            /\ r.strategy = HonorStrategy(IF Pinned(c, d.path) THEN PinnedStrategy(c, d.path)
                                          ELSE d.strategy, d.source)
<1>1. RouteOf(ParseMapping(m), c, DetectedRoutes(ParseMapping(m)), d.path)
         \in ToSet(RoutesOf(ParseMapping(m), c))
  BY ElementsOfRoutes
<1> QED  BY <1>1, RouteOfDetected

(* ... and so has every pin. *)
LEMMA RoutesOfPinned ==
  ASSUME NEW m, WellFormed(m), NEW c, WellFormedConfig(c), NEW p \in ToSet(PinnedPaths(c))
  PROVE  \E r \in ToSet(RoutesOf(ParseMapping(m), c)) :
            /\ r \in Routes
            /\ r.path = p
            /\ r.strategy = HonorStrategy(PinnedStrategy(c, p), r.source)
<1> DEFINE det == DetectedRoutes(ParseMapping(m))
<1>1. CASE \E d \in ToSet(det) : d.path = p
  <2>1. PICK d \in ToSet(det) : d.path = p
    BY <1>1
  <2>2. Pinned(c, p)
    BY ElementsOfPins
  <2> QED  BY <2>1, <2>2, RoutesOfDetected
<1>2. CASE ~\E d \in ToSet(det) : d.path = p
  <2>1. RouteOf(ParseMapping(m), c, det, p) \in ToSet(RoutesOf(ParseMapping(m), c))
    BY ElementsOfRoutes
  <2>2. HonorStrategy(PinnedStrategy(c, p), "object") = PinnedStrategy(c, p)
    BY DEF HonorStrategy
  <2> QED  BY <1>2, <2>1, <2>2, RouteOfPinned
<1> QED  BY <1>1, <1>2

(* Only config flattens. *)
LEMMA FlattenIsConfigured ==
  ASSUME NEW m, WellFormed(m), NEW c, WellFormedConfig(c),
         NEW r \in ToSet(RoutesOf(ParseMapping(m), c)), r.strategy = "flatten"
  PROVE  r.path \in ToSet(c.flatten)
<1>1. CASE \E d \in ToSet(DetectedRoutes(ParseMapping(m))) :
               /\ r.path = d.path
               /\ r.strategy = HonorStrategy(IF Pinned(c, d.path) THEN PinnedStrategy(c, d.path)
                                             ELSE d.strategy, d.source)
  <2>1. PICK d \in ToSet(DetectedRoutes(ParseMapping(m))) :
               /\ r.path = d.path
               /\ r.strategy = HonorStrategy(IF Pinned(c, d.path) THEN PinnedStrategy(c, d.path)
                                             ELSE d.strategy, d.source)
    BY <1>1
  <2>2. d \in Detections
    BY ParsedMapping, ElementsOfDetected, NoElements
  <2> DEFINE s == IF Pinned(c, d.path) THEN PinnedStrategy(c, d.path) ELSE d.strategy
  <2>3. s = "flatten"
    BY <2>1 DEF HonorStrategy
  <2>4. d.strategy # "flatten"
    BY <2>2 DEF Detections
  <2>5. Pinned(c, d.path) /\ PinnedStrategy(c, d.path) = "flatten"
    BY <2>3, <2>4
  <2> QED  BY <2>1, <2>5, ElementsOfPins
<1>2. CASE r.path \in ToSet(PinnedPaths(c)) /\ r.strategy = PinnedStrategy(c, r.path)
  BY <1>2, ElementsOfPins
<1> QED  BY <1>1, <1>2, RouteOrigins

(* The leaves of a route are nodes below it. *)
LEMMA LeavesBelow ==
  ASSUME NEW m, WellFormed(m), NEW c, WellFormedConfig(c),
         NEW r \in ToSet(RoutesOf(ParseMapping(m), c))
  PROVE  \A f \in ToSet(r.leaves) : f \in ToSet(m) /\ Under(r.path, f.path)
<1>1. CASE \E d \in ToSet(DetectedRoutes(ParseMapping(m))) :
               r.path = d.path /\ r.leaves = d.leaves
  <2>1. PICK d \in ToSet(DetectedRoutes(ParseMapping(m))) :
               r.path = d.path /\ r.leaves = d.leaves
    BY <1>1
  <2>2. PICK n \in ToSet(m) :
           /\ d.path = n.path
           /\ \/ d = JsonDetection(Collection(n.path, DeclaredLeaves(m, n.path)))
              \/ d = NestedDetection(Collection(n.path, CollectedLeaves(m, n.path)))
    BY DetectedNodes
  <2>3. r.leaves = DeclaredLeaves(m, n.path) \/ r.leaves = CollectedLeaves(m, n.path)
    BY <2>1, <2>2 DEF JsonDetection, NestedDetection, Collection
  <2> QED  BY <2>1, <2>2, <2>3, ElementsOfLeaves
<1>2. CASE r.leaves = PlainLeaves(ParseMapping(m), r.path)
  <2> DEFINE M == ParseMapping(m)
             S == {f \in ToSet(M.fields) : Under(r.path, f.path)}
  <2>1. M.fields \in Seq(Nodes) /\ ToSet(M.fields) \subseteq ToSet(m)
    BY ParsedMapping DEF Models
  <2>2. ToSet(Only(M.fields, S)) = ToSet(M.fields) \cap S
    <3> HIDE DEF M, S
    <3> QED  BY <2>1, ElementsOnly
  <2>3. r.leaves = Only(M.fields, S)
    BY <1>2 DEF PlainLeaves
  <2> HIDE DEF M
  <2> QED  BY <2>1, <2>2, <2>3
<1> QED  BY <1>1, <1>2, RouteOrigins

-----------------------------------------------------------------------------
(* The columns *)

(* ... and of the columns. *)
Columns ==
    [kind : ColumnKinds, name : Seq(STRING), path : FieldPaths, leaves : SUBSET FieldPaths]

(* A column at a path. *)
LEMMA ColumnsOfPaths ==
  ASSUME NEW kind \in ColumnKinds, NEW path \in FieldPaths, NEW leaves \in SUBSET FieldPaths
  PROVE  /\ Column(kind, path, leaves) \in Columns
         /\ Column(kind, path, leaves).kind = kind
         /\ Column(kind, path, leaves).path = path
         /\ Column(kind, path, leaves).name = ToColumnName(path)
         /\ Column(kind, path, leaves).leaves = leaves
<1>1. path \in Seq(Seq(STRING))
  BY DEF FieldPaths
<1>2. ToColumnName(path) \in Seq(STRING)
  BY <1>1, ElementsOfFlattened DEF ToColumnName
<1> QED  BY <1>2 DEF Column, Columns

(* The paths of nodes. *)
LEMMA PathsOfNodes ==
  ASSUME NEW s \in Seq(Nodes)
  PROVE  /\ Paths(s) \in SUBSET FieldPaths
         /\ \A f \in ToSet(s) : f.path \in FieldPaths /\ f.path \in Paths(s)
<1>1. \A f \in ToSet(s) : f \in Nodes
  BY NoElements
<1>2. \A f \in ToSet(s) : f.path \in FieldPaths
  BY <1>1 DEF Nodes
<1> QED  BY <1>2, PathsOfElements

(* typed_fields_for_routes: what no object column claims, and the leaves of *)
(* the objects config flattens.                                             *)
LEMMA ElementsOfTypedFields ==
  ASSUME NEW M \in Models, NEW rs \in Seq(Routes)
  PROVE  /\ TypedFields(M, rs) \in Seq(Nodes)
         /\ \A f : f \in ToSet(TypedFields(M, rs)) <=>
               \/ /\ f \in ToSet(M.fields)
                  /\ \A r \in ToSet(rs) : r.strategy # "flatten" => ~IsPrefix(r.path, f.path)
               \/ \E r \in ToSet(rs) : /\ r.strategy = "flatten"
                                       /\ r.source = "object"
                                       /\ r.detected # "none"
                                       /\ f \in ToSet(r.leaves)
<1> DEFINE claimed == Paths(Hoistable(rs))
           S == {r \in ToSet(rs) : /\ r.strategy = "flatten"
                                   /\ r.source = "object"
                                   /\ r.detected # "none"}
           opened == Only(rs, S)
           U == {f \in ToSet(M.fields) : ~UnderAny(f.path, claimed)}
           free == Only(M.fields, U)
           leaves == FlattenSeq([i \in DOMAIN opened |-> opened[i].leaves])
<1>1. TypedFields(M, rs) = free \o leaves
  BY DEF TypedFields
<1>2. claimed = {r.path : r \in {x \in ToSet(rs) : x.strategy # "flatten"}}
  BY ElementsOfHoistable, PathsOfElements
<1>3. M.fields \in Seq(Nodes)
  BY DEF Models
<1>4. free \in Seq(Nodes) /\ ToSet(free) = ToSet(M.fields) \cap U
  <2> HIDE DEF U
  <2> QED  BY <1>3, ElementsOnly
<1>5. \A f : f \in U <=> /\ f \in ToSet(M.fields)
                         /\ \A r \in ToSet(rs) :
                               r.strategy # "flatten" => ~IsPrefix(r.path, f.path)
  <2> HIDE DEF claimed
  <2> QED  BY <1>2 DEF UnderAny
<1>6. opened \in Seq(Routes) /\ ToSet(opened) = ToSet(rs) \cap S
  <2> HIDE DEF S
  <2> QED  BY ElementsOnly
<1> HIDE DEF opened, free, U
<1>7. /\ leaves \in Seq(Nodes)
      /\ \A f : f \in ToSet(leaves) <=> \E k \in ToSet(opened) : f \in ToSet(k.leaves)
  BY <1>6, ElementsOfRouteLeaves
<1> HIDE DEF leaves
<1>8. /\ free \o leaves \in Seq(Nodes)
      /\ ToSet(free \o leaves) = ToSet(free) \cup ToSet(leaves)
  BY <1>4, <1>7, ElementsOfConcat
<1>9. \A f : f \in ToSet(free) <=> f \in U
  BY <1>4, <1>5
<1>10. \A f : f \in ToSet(leaves) <=>
          \E r \in ToSet(rs) : /\ r.strategy = "flatten"
                               /\ r.source = "object"
                               /\ r.detected # "none"
                               /\ f \in ToSet(r.leaves)
  BY <1>6, <1>7
<1> QED  BY <1>1, <1>5, <1>8, <1>9, <1>10

(* The column of one field, of one leaf, and of one expression. *)
ScalarColumn(f) == Column("scalar", f.path, {f.path})
ArrayColumn(f) == Column("array", f.path, {f.path})
MaterializedColumn(name) ==
    [kind |-> "materialized", name |-> name, path |-> <<name>>, leaves |-> {}]

(* The columns of those fields ... *)
LEMMA ElementsOfTypedColumns ==
  ASSUME NEW fields \in Seq(Nodes)
  PROVE  /\ TypedColumns(fields) \in Seq(Columns)
         /\ ToSet(TypedColumns(fields)) = {ScalarColumn(f) : f \in ToSet(fields)}
<1> DEFINE t == [i \in DOMAIN fields |-> ScalarColumn(fields[i])]
<1>1. TypedColumns(fields) = t
  BY DEF TypedColumns, ScalarColumn
<1>2. /\ Len(fields) \in Nat /\ DOMAIN fields = 1 .. Len(fields)
      /\ \A i \in DOMAIN fields : fields[i] \in Nodes
  OBVIOUS
<1>3. ASSUME NEW f \in Nodes PROVE ScalarColumn(f) \in Columns
  <2>1. f.path \in FieldPaths /\ {f.path} \in SUBSET FieldPaths
    BY DEF Nodes
  <2>2. "scalar" \in ColumnKinds
    BY DEF ColumnKinds
  <2> QED  BY <2>1, <2>2, ColumnsOfPaths DEF ScalarColumn
<1>4. t \in Seq(Columns) /\ DOMAIN t = DOMAIN fields
  BY <1>2, <1>3
<1>5. ToSet(t) = {ScalarColumn(f) : f \in ToSet(fields)}
  BY <1>4 DEF ToSet
<1> QED  BY <1>1, <1>4, <1>5

(* ... the materialized columns ... *)
LEMMA ElementsOfMaterialized ==
  ASSUME NEW c, WellFormedConfig(c)
  PROVE  /\ MaterializedColumns(c) \in Seq(Columns)
         /\ \A k \in ToSet(MaterializedColumns(c)) : k.kind = "materialized" /\ k.leaves = {}
<1> DEFINE names == c.materialized
           t == [i \in DOMAIN names |-> MaterializedColumn(names[i])]
<1>1. MaterializedColumns(c) = t
  BY DEF MaterializedColumns, MaterializedColumn
<1>2. /\ Len(names) \in Nat /\ DOMAIN names = 1 .. Len(names)
      /\ \A i \in DOMAIN names : names[i] \in Seq(STRING)
  <2>1. names \in Seq(Seq(STRING))
    BY DEF WellFormedConfig
  <2> QED  BY <2>1
<1>3. ASSUME NEW x \in Seq(STRING)
      PROVE  /\ MaterializedColumn(x) \in Columns
             /\ MaterializedColumn(x).kind = "materialized"
             /\ MaterializedColumn(x).leaves = {}
  <2>1. <<x>> \in FieldPaths
    BY DEF FieldPaths
  <2>2. "materialized" \in ColumnKinds
    BY DEF ColumnKinds
  <2> QED  BY <2>1, <2>2 DEF MaterializedColumn, Columns
<1> HIDE DEF names
<1>4. t \in Seq(Columns) /\ DOMAIN t = DOMAIN names
  BY <1>2, <1>3
<1>5. \A k \in ToSet(t) : \E i \in DOMAIN names : k = MaterializedColumn(names[i])
  BY <1>4 DEF ToSet
<1>6. \A k \in ToSet(t) : k.kind = "materialized" /\ k.leaves = {}
  <2> HIDE DEF t
  <2> QED  BY <1>2, <1>3, <1>5
<1> HIDE DEF t
<1> QED  BY <1>1, <1>4, <1>6

(* ... the columns of a route ... *)
LEMMA ColumnsOfRoutes ==
  ASSUME NEW r \in Routes
  PROVE  /\ JsonColumn(r) \in Columns /\ JsonColumn(r).kind = "json" /\ JsonColumn(r).path = r.path
         /\ MapColumn(r) \in Columns /\ MapColumn(r).kind = "map" /\ MapColumn(r).path = r.path
         /\ NestedColumn(r) \in Columns /\ NestedColumn(r).kind = "nested"
         /\ NestedColumn(r).path = r.path /\ NestedColumn(r).leaves = Paths(r.leaves)
         /\ \A f \in ToSet(r.leaves) : f.path \in FieldPaths
                                       /\ ArrayColumn(f) \in Columns
<1>1. r.path \in FieldPaths /\ r.leaves \in Seq(Nodes)
  BY DEF Routes
<1>2. Paths(r.leaves) \in SUBSET FieldPaths /\ \A f \in ToSet(r.leaves) : f.path \in FieldPaths
  BY <1>1, PathsOfNodes
<1>3. {"json", "map", "nested", "array"} \subseteq ColumnKinds
  BY DEF ColumnKinds
<1>4. (IF r.source = "object" THEN Paths(r.leaves) ELSE {}) \in SUBSET FieldPaths
  BY <1>2
<1>5. /\ JsonColumn(r) \in Columns /\ JsonColumn(r).kind = "json" /\ JsonColumn(r).path = r.path
  BY <1>1, <1>3, <1>4, ColumnsOfPaths DEF JsonColumn
<1>6. /\ MapColumn(r) \in Columns /\ MapColumn(r).kind = "map" /\ MapColumn(r).path = r.path
  BY <1>1, <1>3, ColumnsOfPaths DEF MapColumn
<1>7. /\ NestedColumn(r) \in Columns /\ NestedColumn(r).kind = "nested"
      /\ NestedColumn(r).path = r.path /\ NestedColumn(r).leaves = Paths(r.leaves)
  BY <1>1, <1>2, <1>3, ColumnsOfPaths DEF NestedColumn
<1>8. ASSUME NEW f \in ToSet(r.leaves)
      PROVE  f.path \in FieldPaths /\ ArrayColumn(f) \in Columns
  <2>1. f.path \in FieldPaths /\ {f.path} \in SUBSET FieldPaths
    BY <1>2
  <2> QED  BY <1>3, <2>1, ColumnsOfPaths DEF ArrayColumn
<1> QED  BY <1>5, <1>6, <1>7, <1>8

(* ... the parallel arrays of a flattened one ... *)
LEMMA ElementsOfArrayColumns ==
  ASSUME NEW r \in Routes
  PROVE  /\ ArrayColumns(r) \in Seq(Columns)
         /\ ToSet(ArrayColumns(r)) = {ArrayColumn(f) : f \in ToSet(r.leaves)}
<1> DEFINE leaves == r.leaves
           t == [i \in DOMAIN leaves |-> ArrayColumn(leaves[i])]
<1>1. ArrayColumns(r) = t
  BY DEF ArrayColumns, ArrayColumn
<1>2. leaves \in Seq(Nodes) /\ \A f \in ToSet(leaves) : ArrayColumn(f) \in Columns
  BY ColumnsOfRoutes DEF Routes
<1> HIDE DEF leaves
<1>3. /\ Len(leaves) \in Nat /\ DOMAIN leaves = 1 .. Len(leaves)
      /\ \A i \in DOMAIN leaves : leaves[i] \in ToSet(leaves)
  BY <1>2 DEF ToSet
<1>4. t \in Seq(Columns) /\ DOMAIN t = DOMAIN leaves
  BY <1>2, <1>3
<1>5. ToSet(t) = {ArrayColumn(f) : f \in ToSet(leaves)}
  BY <1>4 DEF ToSet
<1> HIDE DEF t
<1> QED  BY <1>1, <1>4, <1>5 DEF leaves

(* ... and those of all routes. *)
LEMMA ElementsOfRouteColumns ==
  ASSUME NEW rs \in Seq(Routes)
  PROVE  /\ RouteColumns(rs) \in Seq(Columns)
         /\ \A k : k \in ToSet(RouteColumns(rs)) <=>
               \/ \E r \in ToSet(rs) : r.strategy = "json" /\ k = JsonColumn(r)
               \/ \E r \in ToSet(rs) : r.strategy = "map" /\ k = MapColumn(r)
               \/ \E r \in ToSet(rs) : /\ r.strategy = "nested" /\ r.leaves # <<>>
                                       /\ k = NestedColumn(r)
               \/ \E r \in ToSet(rs) : /\ r.strategy = "flatten" /\ r.source = "array"
                                       /\ \E f \in ToSet(r.leaves) :
                                             k = ArrayColumn(f)
<1> DEFINE Of(s) == Only(rs, {r \in ToSet(rs) : r.strategy = s})
           jsons == Of("json")
           maps == Of("map")
           L == {r \in ToSet(rs) : r.leaves # <<>>}
           A == {r \in ToSet(rs) : r.source = "array"}
           nesteds == Of("nested")
           flats == Of("flatten")
           groups == Only(nesteds, L)
           arrays == Only(flats, A)
           jsonCols == [i \in DOMAIN jsons |-> JsonColumn(jsons[i])]
           mapCols == [i \in DOMAIN maps |-> MapColumn(maps[i])]
           nestedCols == [i \in DOMAIN groups |-> NestedColumn(groups[i])]
           parts == [i \in DOMAIN arrays |-> ArrayColumns(arrays[i])]
           arrayCols == FlattenSeq(parts)
<1>1. RouteColumns(rs) = jsonCols \o mapCols \o nestedCols \o arrayCols
  BY DEF RouteColumns
<1>2. \A s : Of(s) \in Seq(Routes) /\ ToSet(Of(s)) = {r \in ToSet(rs) : r.strategy = s}
  <2>1. ASSUME NEW s
        PROVE  Of(s) \in Seq(Routes) /\ ToSet(Of(s)) = {r \in ToSet(rs) : r.strategy = s}
    <3> DEFINE S == {r \in ToSet(rs) : r.strategy = s}
    <3>1. S \subseteq ToSet(rs)
      OBVIOUS
    <3> HIDE DEF S
    <3>2. Only(rs, S) \in Seq(Routes) /\ ToSet(Only(rs, S)) = ToSet(rs) \cap S
      BY ElementsOnly
    <3>3. Only(rs, S) \in Seq(Routes) /\ ToSet(Only(rs, S)) = S
      BY <3>1, <3>2
    <3> QED  BY <3>3 DEF S
  <2> QED  BY <2>1
<1>3. /\ jsons \in Seq(Routes) /\ ToSet(jsons) = {r \in ToSet(rs) : r.strategy = "json"}
      /\ maps \in Seq(Routes) /\ ToSet(maps) = {r \in ToSet(rs) : r.strategy = "map"}
      /\ nesteds \in Seq(Routes) /\ ToSet(nesteds) = {r \in ToSet(rs) : r.strategy = "nested"}
      /\ flats \in Seq(Routes) /\ ToSet(flats) = {r \in ToSet(rs) : r.strategy = "flatten"}
  <2> HIDE DEF Of
  <2> QED  BY <1>2
<1> HIDE DEF jsons, maps, nesteds, flats
<1>4. /\ groups \in Seq(Routes) /\ ToSet(groups) = ToSet(nesteds) \cap L
      /\ arrays \in Seq(Routes) /\ ToSet(arrays) = ToSet(flats) \cap A
  <2> HIDE DEF L, A
  <2> QED  BY <1>3, ElementsOnly
<1> HIDE DEF groups, arrays
<1>5. jsonCols \in Seq(Columns) /\ ToSet(jsonCols) = {JsonColumn(r) : r \in ToSet(jsons)}
  <2>1. Len(jsons) \in Nat /\ DOMAIN jsons = 1 .. Len(jsons) /\ \A i \in DOMAIN jsons : jsons[i] \in Routes
    BY <1>3
  <2>2. \A i \in DOMAIN jsons : JsonColumn(jsons[i]) \in Columns
    BY <2>1, ColumnsOfRoutes
  <2>3. jsonCols \in Seq(Columns) /\ DOMAIN jsonCols = DOMAIN jsons
    BY <2>1, <2>2
  <2> QED  BY <2>3 DEF ToSet
<1>6. mapCols \in Seq(Columns) /\ ToSet(mapCols) = {MapColumn(r) : r \in ToSet(maps)}
  <2>1. Len(maps) \in Nat /\ DOMAIN maps = 1 .. Len(maps) /\ \A i \in DOMAIN maps : maps[i] \in Routes
    BY <1>3
  <2>2. \A i \in DOMAIN maps : MapColumn(maps[i]) \in Columns
    BY <2>1, ColumnsOfRoutes
  <2>3. mapCols \in Seq(Columns) /\ DOMAIN mapCols = DOMAIN maps
    BY <2>1, <2>2
  <2> QED  BY <2>3 DEF ToSet
<1>7. nestedCols \in Seq(Columns) /\ ToSet(nestedCols) = {NestedColumn(r) : r \in ToSet(groups)}
  <2>1. Len(groups) \in Nat /\ DOMAIN groups = 1 .. Len(groups) /\ \A i \in DOMAIN groups : groups[i] \in Routes
    BY <1>4
  <2>2. \A i \in DOMAIN groups : NestedColumn(groups[i]) \in Columns
    BY <2>1, ColumnsOfRoutes
  <2>3. nestedCols \in Seq(Columns) /\ DOMAIN nestedCols = DOMAIN groups
    BY <2>1, <2>2
  <2> QED  BY <2>3 DEF ToSet
<1>8. /\ arrayCols \in Seq(Columns)
      /\ \A k : k \in ToSet(arrayCols) <=>
            \E r \in ToSet(arrays) : k \in ToSet(ArrayColumns(r))
  <2>1. /\ Len(arrays) \in Nat /\ DOMAIN arrays = 1 .. Len(arrays)
        /\ \A i \in DOMAIN arrays : arrays[i] \in Routes
    BY <1>4
  <2>2. \A i \in DOMAIN arrays : ArrayColumns(arrays[i]) \in Seq(Columns)
    BY <2>1, ElementsOfArrayColumns
  <2>3. parts \in Seq(Seq(Columns)) /\ DOMAIN parts = DOMAIN arrays
    BY <2>1, <2>2
  <2>4. \A k : (\E r \in ToSet(arrays) : k \in ToSet(ArrayColumns(r)))
                  <=> \E i \in DOMAIN parts : k \in ToSet(parts[i])
    BY <2>3 DEF ToSet
  <2> HIDE DEF parts
  <2>5. /\ FlattenSeq(parts) \in Seq(Columns)
        /\ \A k : k \in ToSet(FlattenSeq(parts)) <=> \E i \in DOMAIN parts : k \in ToSet(parts[i])
    BY <2>3, ElementsOfFlattened
  <2> QED  BY <2>4, <2>5
<1> HIDE DEF jsonCols, mapCols, nestedCols, arrayCols
<1> DEFINE two == jsonCols \o mapCols
           three == two \o nestedCols
<1>9. two \in Seq(Columns) /\ ToSet(two) = ToSet(jsonCols) \cup ToSet(mapCols)
  BY <1>5, <1>6, ElementsOfConcat
<1>10. three \in Seq(Columns) /\ ToSet(three) = ToSet(two) \cup ToSet(nestedCols)
  <2> HIDE DEF two
  <2> QED  BY <1>7, <1>9, ElementsOfConcat
<1>11. /\ three \o arrayCols \in Seq(Columns)
       /\ ToSet(three \o arrayCols) = ToSet(three) \cup ToSet(arrayCols)
  <2> HIDE DEF three
  <2> QED  BY <1>8, <1>10, ElementsOfConcat
<1>12. RouteColumns(rs) = three \o arrayCols
  BY <1>1
<1> HIDE DEF two, three
<1>13. \A k : k \in ToSet(jsonCols) <=>
                 \E r \in ToSet(rs) : r.strategy = "json" /\ k = JsonColumn(r)
  BY <1>3, <1>5
<1>14. \A k : k \in ToSet(mapCols) <=>
                 \E r \in ToSet(rs) : r.strategy = "map" /\ k = MapColumn(r)
  BY <1>3, <1>6
<1>15. \A k : k \in ToSet(nestedCols) <=>
                 \E r \in ToSet(rs) : /\ r.strategy = "nested" /\ r.leaves # <<>>
                                      /\ k = NestedColumn(r)
  BY <1>3, <1>4, <1>7
<1>16. \A k : k \in ToSet(arrayCols) <=>
                 \E r \in ToSet(rs) : /\ r.strategy = "flatten" /\ r.source = "array"
                                      /\ \E f \in ToSet(r.leaves) :
                                            k = ArrayColumn(f)
  <2>1. \A r \in ToSet(arrays) :
           ToSet(ArrayColumns(r)) = {ArrayColumn(f) : f \in ToSet(r.leaves)}
    BY <1>4, NoElements, ElementsOfArrayColumns
  <2>2. \A r : r \in ToSet(arrays) <=>
                 r \in ToSet(rs) /\ r.strategy = "flatten" /\ r.source = "array"
    BY <1>3, <1>4
  <2>3. ASSUME NEW r \in ToSet(arrays), NEW k
        PROVE  k \in ToSet(ArrayColumns(r))
                 <=> \E f \in ToSet(r.leaves) : k = ArrayColumn(f)
    BY <2>1
  <2>4. \A k : k \in ToSet(arrayCols) <=>
           \E r \in ToSet(arrays) : \E f \in ToSet(r.leaves) :
              k = ArrayColumn(f)
    <3> HIDE DEF arrayCols
    <3> QED  BY <1>8, <2>3
  <2> QED  BY <2>2, <2>4
<1>17. \A k : k \in ToSet(RouteColumns(rs)) <=>
                 \/ k \in ToSet(jsonCols) \/ k \in ToSet(mapCols)
                 \/ k \in ToSet(nestedCols) \/ k \in ToSet(arrayCols)
  BY <1>9, <1>10, <1>11, <1>12
<1> QED  BY <1>11, <1>12, <1>13, <1>14, <1>15, <1>16, <1>17

(* The columns generate_ddl builds. *)
AllColumns(M, rs, c) ==
    TypedColumns(TypedFields(M, rs)) \o RouteColumns(rs) \o MaterializedColumns(c)

(* The elements of all of them put together. *)
LEMMA ElementsOfColumns ==
  ASSUME NEW M \in Models, NEW rs \in Seq(Routes), NEW c, WellFormedConfig(c)
  PROVE  /\ AllColumns(M, rs, c) \in Seq(Columns)
         /\ ToSet(AllColumns(M, rs, c)) =
               {ScalarColumn(f) : f \in ToSet(TypedFields(M, rs))}
                  \cup ToSet(RouteColumns(rs)) \cup ToSet(MaterializedColumns(c))
<1> DEFINE scalars == TypedColumns(TypedFields(M, rs))
           two == scalars \o RouteColumns(rs)
<1>1. /\ scalars \in Seq(Columns)
      /\ ToSet(scalars) = {ScalarColumn(f) : f \in ToSet(TypedFields(M, rs))}
  BY ElementsOfTypedFields, ElementsOfTypedColumns
<1>2. two \in Seq(Columns) /\ ToSet(two) = ToSet(scalars) \cup ToSet(RouteColumns(rs))
  <2> HIDE DEF scalars
  <2> QED  BY <1>1, ElementsOfRouteColumns, ElementsOfConcat
<1>3. /\ two \o MaterializedColumns(c) \in Seq(Columns)
      /\ ToSet(two \o MaterializedColumns(c)) = ToSet(two) \cup ToSet(MaterializedColumns(c))
  <2> HIDE DEF two
  <2> QED  BY <1>2, ElementsOfMaterialized, ElementsOfConcat
<1>4. AllColumns(M, rs, c) = two \o MaterializedColumns(c)
  BY DEF AllColumns
<1> HIDE DEF scalars, two
<1> QED  BY <1>1, <1>2, <1>3, <1>4

-----------------------------------------------------------------------------
(* The inductive invariant *)

(* What each stage has computed is a function of the mapping and the config, *)
(* and the warnings of every stage passed are among the warnings.            *)
Computed ==
    /\ stage \in Stages
    /\ mapping \in Mappings \cup {<<>>}
    /\ stage # "idle" => mapping \in Mappings
    /\ model = ParseMapping(mapping)
    /\ config \in Configs \cup {NoConfig}
    /\ stage \in {"idle", "parsed"} => routes = <<>>
    /\ stage \in {"routed", "built", "done"} =>
          /\ config \in Configs
          /\ routes = ResolveObjectRoutes(model, config)
          /\ RoutingWarnings(model, config) \subseteq warnings
    /\ stage \in {"idle", "parsed", "routed"} => columns = <<>>
    /\ stage \in {"built", "done"} =>
          /\ orderBy = ResolveOrderBy(TypedFields(model, routes), config)
          /\ columns = AllColumns(model, routes, config)
          /\ EmptyRouteWarnings(routes) \subseteq warnings
    /\ stage # "done" => kept = {}
    /\ stage = "done" =>
          /\ kept = KeptColumns(columns)
          /\ CollisionWarnings(columns) \subseteq warnings
          /\ OrderByWarnings(ToSet(orderBy), Table) \subseteq warnings

(* Computed holds at the start ... *)
LEMMA InitComputed == Init => Computed
BY DEF Init, Computed, Stages

(* ... and every stage keeps it. *)
LEMMA StepComputed == Computed /\ [Next]_vars => Computed'
<1> SUFFICES ASSUME Computed, [Next]_vars PROVE Computed'
  OBVIOUS
<1>1. CASE Parse
  BY <1>1 DEF Parse, Computed, Stages
<1>2. CASE Route
  BY <1>2 DEF Route, Computed, Stages
<1>3. CASE Build
  BY <1>3 DEF Build, Computed, Stages, AllColumns
<1>4. CASE Assemble
  <2>1. Table' = {columns[i] : i \in kept'}
    BY <1>4 DEF Assemble, Table
  <2> QED  BY <1>4, <2>1 DEF Assemble, Computed, Stages
<1>5. CASE Return
  BY <1>5 DEF Return, Computed, Stages
<1>6. CASE UNCHANGED vars
  BY <1>6 DEF vars, Computed, Stages, Table
<1> QED  BY <1>1, <1>2, <1>3, <1>4, <1>5, <1>6 DEF Next

(* The inductive invariant: each stage of convert_index and generate_ddl *)
(* leaves what the operators make of the mapping and the config.         *)
THEOREM ConversionInvariance == Spec => []Computed
BY InitComputed, StepComputed, PTL DEF Spec

(* The mapping and the config of a conversion that has been routed are ones *)
(* of the constants, and well-formed.                                       *)
LEMMA RoutedInput ==
  ASSUME Computed, stage \in {"routed", "built", "done"}
  PROVE  \E m, c :
            /\ m = mapping /\ c = config
            /\ WellFormed(m) /\ WellFormedConfig(c)
            /\ model = ParseMapping(m)
            /\ routes = HoistToTopLevel(ParseMapping(m), RoutesOf(ParseMapping(m), c))
<1>1. /\ mapping \in Mappings /\ config \in Configs /\ model = ParseMapping(mapping)
      /\ routes = ResolveObjectRoutes(model, config)
  BY DEF Computed
<1>2. WellFormed(mapping)
  BY <1>1, MappingsAssumption
<1>3. WellFormedConfig(config)
  BY <1>1, ConfigsAssumption DEF WellFormedConfig
<1> QED  BY <1>1, <1>2, <1>3 DEF ResolveObjectRoutes

(* The types follow from what has been computed. *)
LEMMA ComputedTypes == Computed => TypeOK
<1> SUFFICES ASSUME Computed PROVE TypeOK
  OBVIOUS
<1>1. /\ stage \in Stages /\ mapping \in Mappings \cup {<<>>} /\ config \in Configs \cup {NoConfig}
  BY DEF Computed
<1>2. ToSet(<<>>) = {}
  BY DEF ToSet
<1>3. CASE stage \in {"idle", "parsed"}
  <2>1. routes = <<>> /\ columns = <<>> /\ kept = {}
    BY <1>3 DEF Computed
  <2> QED  BY <1>1, <1>2, <2>1 DEF TypeOK
<1>4. CASE stage \in {"routed", "built", "done"}
  <2>1. PICK m, c : /\ m = mapping /\ c = config
                    /\ WellFormed(m) /\ WellFormedConfig(c)
                    /\ model = ParseMapping(m)
                    /\ routes = HoistToTopLevel(ParseMapping(m), RoutesOf(ParseMapping(m), c))
    BY <1>4, RoutedInput
  <2> DEFINE rs == HoistToTopLevel(ParseMapping(m), RoutesOf(ParseMapping(m), c))
  <2>2. ParseMapping(m) \in Models /\ rs \in Seq(Routes)
    BY <2>1, ParsedMapping, ElementsOfRoutes, ElementsOfHoisted
  <2>3. \A r \in ToSet(rs) : r.strategy \in Strategies /\ r.source \in {"object", "array"}
    <3> HIDE DEF rs
    <3>1. \A r \in ToSet(rs) : r \in Routes
      BY <2>2, NoElements
    <3> QED  BY <3>1 DEF Routes
  <2>4. /\ \A k \in ToSet(AllColumns(ParseMapping(m), rs, c)) : k.kind \in ColumnKinds
    <3> DEFINE cols == AllColumns(ParseMapping(m), rs, c)
    <3>1. cols \in Seq(Columns)
      <4> HIDE DEF rs
      <4> QED  BY <2>1, <2>2, ElementsOfColumns
    <3> HIDE DEF cols
    <3>2. \A k \in ToSet(cols) : k \in Columns
      BY <3>1, NoElements
    <3>3. \A k \in ToSet(cols) : k.kind \in ColumnKinds
      BY <3>2 DEF Columns
    <3> QED  BY <3>3 DEF cols
  <2>5. \A k \in ToSet(columns) : k.kind \in ColumnKinds
    <3>1. columns = <<>> \/ columns = AllColumns(ParseMapping(m), rs, c)
      BY <1>4, <2>1 DEF Computed
    <3> HIDE DEF rs
    <3> QED  BY <1>2, <2>4, <3>1
  <2>6. kept \subseteq DOMAIN columns
    BY <1>1 DEF Computed, Stages, KeptColumns
  <2> QED  BY <1>1, <2>1, <2>3, <2>5, <2>6 DEF TypeOK
<1> QED  BY <1>1, <1>3, <1>4 DEF Stages

(* The types: every route has one of the four strategies, every column one *)
(* of the kinds the builder makes, and the kept columns were built.        *)
THEOREM ConversionTypeCorrect == Spec => []TypeOK
BY ConversionInvariance, ComputedTypes, PTL

(* _validate_order_by looks at every name of the sort key. *)
LEMMA ComputedSortKeys == Computed => SortKeysChecked
<1> SUFFICES ASSUME Computed, stage = "done", NEW name \in ToSet(orderBy)
             PROVE  \/ \E c \in Table : c.name = name /\ c \notin Containers
                    \/ \E w \in warnings :
                         w.kind \in {"order_missing", "order_unsortable"} /\ w.subject = name
  BY DEF SortKeysChecked
<1>1. OrderByWarnings(ToSet(orderBy), Table) \subseteq warnings
  BY DEF Computed
<1>2. \A kind, subject : /\ Warning(kind, subject).kind = kind
                         /\ Warning(kind, subject).subject = subject
  BY DEF Warning
<1>3. CASE name \notin {c.name : c \in Table}
  <2>1. Warning("order_missing", name) \in warnings
    BY <1>1, <1>3 DEF OrderByWarnings
  <2> QED  BY <1>2, <2>1
<1>4. CASE name \in {c.name : c \in Table}
  <2>1. PICK c \in Table : c.name = name
    BY <1>4
  <2>2. CASE c \in Containers
    <3>1. Warning("order_unsortable", name) \in warnings
      BY <1>1, <2>1, <2>2 DEF OrderByWarnings, Containers
    <3> QED  BY <1>2, <3>1
  <2> QED  BY <2>1, <2>2
<1> QED  BY <1>3, <1>4

(* A sort key is a column ClickHouse can sort by, or a warning says that it *)
(* is not (_validate_order_by).                                             *)
THEOREM SortKeysAreChecked == Spec => []SortKeysChecked
BY ConversionInvariance, ComputedSortKeys, PTL

(* A hoisted route is the merge of a whole top-level key, and one that is *)
(* not comes from flatten_fields.                                         *)
LEMMA HoistedRoutes ==
  ASSUME NEW m, WellFormed(m), NEW c, WellFormedConfig(c),
         NEW r \in ToSet(HoistToTopLevel(ParseMapping(m), RoutesOf(ParseMapping(m), c)))
  PROVE  /\ r \in Routes
         /\ r.strategy = "flatten" =>
               /\ r \in ToSet(RoutesOf(ParseMapping(m), c))
               /\ r.path \in ToSet(c.flatten)
         /\ r.strategy # "flatten" =>
               /\ Len(r.path) = 1
               /\ r = MergeGroup(ParseMapping(m), r.path,
                                 MembersOf(RoutesOf(ParseMapping(m), c), r.path))
               /\ \E q \in ToSet(RoutesOf(ParseMapping(m), c)) :
                     q.strategy # "flatten" /\ TopLevelKey(q.path) = r.path
<1> DEFINE M == ParseMapping(m)
           RS == RoutesOf(M, c)
           rs == HoistToTopLevel(M, RS)
<1>1. M \in Models /\ RS \in Seq(Routes)
  BY ParsedMapping, ElementsOfRoutes
<1>2. r \in Routes
  <2>1. rs \in Seq(Routes)
    <3> HIDE DEF M, RS
    <3> QED  BY <1>1, ElementsOfHoisted
  <2> QED  BY <2>1, NoElements
<1>3. \/ r \in ToSet(RS) /\ r.strategy = "flatten"
      \/ \E q \in ToSet(RS) :
            /\ q.strategy # "flatten"
            /\ r = MergeGroup(M, TopLevelKey(q.path), MembersOf(RS, TopLevelKey(q.path)))
  <2>1. r \in ToSet(HoistToTopLevel(M, RS))
    OBVIOUS
  <2> HIDE DEF M, RS
  <2> QED  BY <1>1, <2>1, ElementsOfHoisted
<1>4. CASE r \in ToSet(RS) /\ r.strategy = "flatten"
  BY <1>2, <1>4, FlattenIsConfigured
<1>5. CASE \E q \in ToSet(RS) :
            /\ q.strategy # "flatten"
            /\ r = MergeGroup(M, TopLevelKey(q.path), MembersOf(RS, TopLevelKey(q.path)))
  <2>1. PICK q \in ToSet(RS) :
            /\ q.strategy # "flatten"
            /\ r = MergeGroup(M, TopLevelKey(q.path), MembersOf(RS, TopLevelKey(q.path)))
    BY <1>5
  <2>2. q.path \in FieldPaths
    <3>1. q \in Routes
      BY <1>1, NoElements
    <3> QED  BY <3>1 DEF Routes
  <2>3. r.path = TopLevelKey(q.path) /\ r.strategy \in {"json", "map", "nested"}
    <3> HIDE DEF M, RS
    <3> QED  BY <1>1, <2>1, MergedGroups
  <2>4. Len(r.path) = 1
    BY <2>2, <2>3, TopLevelKeys
  <2> QED  BY <1>2, <2>1, <2>3, <2>4
<1> QED  BY <1>3, <1>4, <1>5

(* A field of the table is a node of the mapping, and no object column *)
(* claims it unless config flattens a root above it.                   *)
LEMMA TypedFieldsAreNodes ==
  ASSUME NEW m, WellFormed(m), NEW c, WellFormedConfig(c), NEW rs,
         rs = HoistToTopLevel(ParseMapping(m), RoutesOf(ParseMapping(m), c)),
         NEW f \in ToSet(TypedFields(ParseMapping(m), rs))
  PROVE  /\ f \in ToSet(m)
         /\ \A r \in ToSet(rs) : r.strategy # "flatten" /\ IsPrefix(r.path, f.path) =>
               \E p \in ToSet(c.flatten) : IsPrefix(p, f.path)
<1>1. ParseMapping(m) \in Models /\ rs \in Seq(Routes)
  BY ParsedMapping, ElementsOfRoutes, ElementsOfHoisted
<1>2. \/ /\ f \in ToSet(ParseMapping(m).fields)
         /\ \A r \in ToSet(rs) : r.strategy # "flatten" => ~IsPrefix(r.path, f.path)
      \/ \E r \in ToSet(rs) : r.strategy = "flatten" /\ f \in ToSet(r.leaves)
  BY <1>1, ElementsOfTypedFields
<1>3. CASE /\ f \in ToSet(ParseMapping(m).fields)
           /\ \A r \in ToSet(rs) : r.strategy # "flatten" => ~IsPrefix(r.path, f.path)
  BY <1>3, ParsedMapping
<1>4. CASE \E r \in ToSet(rs) : r.strategy = "flatten" /\ f \in ToSet(r.leaves)
  <2>1. PICK r \in ToSet(rs) : r.strategy = "flatten" /\ f \in ToSet(r.leaves)
    BY <1>4
  <2>2. r \in ToSet(RoutesOf(ParseMapping(m), c)) /\ r.path \in ToSet(c.flatten)
    BY <2>1, HoistedRoutes
  <2>3. f \in ToSet(m) /\ Under(r.path, f.path)
    BY <2>1, <2>2, LeavesBelow
  <2> QED  BY <2>2, <2>3 DEF Under, IsStrictPrefix
<1> QED  BY <1>2, <1>3, <1>4

(* _drop_colliding_columns keeps a column or warns of it. *)
LEMMA AllAccounted ==
  ASSUME Computed, stage = "done"
  PROVE  /\ \A c \in ToSet(columns) : Accounted(c)
         /\ \A c \in Table : c \in ToSet(columns)
<1>1. kept = KeptColumns(columns) /\ CollisionWarnings(columns) \subseteq warnings
  BY DEF Computed
<1>2. kept \subseteq DOMAIN columns
  BY <1>1 DEF KeptColumns
<1>3. ASSUME NEW i \in DOMAIN columns PROVE Accounted(columns[i])
  <2>1. CASE i \in kept
    BY <2>1 DEF Accounted, Table
  <2>2. CASE i \notin kept
    <3>1. Warning("collision", columns[i].name) \in CollisionWarnings(columns)
      BY <1>1, <2>2 DEF CollisionWarnings
    <3> QED  BY <1>1, <3>1 DEF Accounted
  <2> QED  BY <2>1, <2>2
<1> QED  BY <1>2, <1>3 DEF ToSet, Table

(* The first date among the typed fields has a scalar column. *)
LEMMA ComputedSortKeyDates == Computed => DefaultSortKeyIsDate
<1> SUFFICES ASSUME Computed, stage = "done", config.order_by = <<>>, config.timestamp = <<>>,
                    NEW name \in ToSet(orderBy)
             PROVE  \/ \E k \in Table : \E n \in ToSet(mapping) :
                          k.kind = "scalar" /\ k.name = name /\ k.path = n.path /\ n.kind = "date"
                    \/ Warning("collision", name) \in warnings
  BY DEF DefaultSortKeyIsDate
<1>1. PICK m, c : /\ m = mapping /\ c = config
                  /\ WellFormed(m) /\ WellFormedConfig(c)
                  /\ model = ParseMapping(m)
                  /\ routes = HoistToTopLevel(ParseMapping(m), RoutesOf(ParseMapping(m), c))
  BY RoutedInput
<1> DEFINE M == ParseMapping(m)
           rs == HoistToTopLevel(M, RoutesOf(M, c))
           fields == TypedFields(M, rs)
           dates == FirstDateField(fields)
<1>2. M \in Models /\ rs \in Seq(Routes)
  BY <1>1, ParsedMapping, ElementsOfRoutes, ElementsOfHoisted
<1>3. fields \in Seq(Nodes)
  <2> HIDE DEF M, rs
  <2> QED  BY <1>2, ElementsOfTypedFields
<1>4. orderBy = ResolveOrderBy(fields, c) /\ columns = AllColumns(M, rs, c)
  BY <1>1 DEF Computed
<1>5. orderBy = IF dates # <<>> THEN <<ToColumnName(dates[1].path)>> ELSE <<>>
  <2> HIDE DEF fields
  <2> QED  BY <1>1, <1>4 DEF ResolveOrderBy
<1>6. dates # <<>> /\ name = ToColumnName(dates[1].path)
  <2> HIDE DEF dates
  <2>1. ToSet(<<>>) = {} /\ \A x : ToSet(<<x>>) = {x}
    BY DEF ToSet
  <2> QED  BY <1>5, <2>1
<1>7. dates[1] \in ToSet(fields) /\ dates[1].kind = "date"
  <2> DEFINE S == {f \in ToSet(fields) : f.kind = "date"}
  <2>1. dates = Only(fields, S)
    BY DEF FirstDateField
  <2> HIDE DEF fields, S, dates
  <2>2. dates \in Seq(Nodes) /\ ToSet(dates) = ToSet(fields) \cap S
    BY <1>3, <2>1, ElementsOnly
  <2>3. dates[1] \in ToSet(dates)
    BY <1>6, <2>2, NoElements
  <2> QED  BY <2>2, <2>3 DEF S
<1>8. PICK f \in ToSet(fields) : f = dates[1] /\ f.kind = "date" /\ name = ToColumnName(f.path)
  <2> HIDE DEF fields, dates
  <2> QED  BY <1>6, <1>7
<1>9. f \in ToSet(m) /\ f.path \in FieldPaths
  BY <1>1, <1>8, TypedFieldsAreNodes, NodesOfMapping
<1>10. ScalarColumn(f) \in ToSet(columns)
  <2> HIDE DEF M, rs
  <2> QED  BY <1>1, <1>2, <1>4, <1>8, ElementsOfColumns
<1>11. /\ ScalarColumn(f).kind = "scalar" /\ ScalarColumn(f).name = name
       /\ ScalarColumn(f).path = f.path
  BY <1>8 DEF ScalarColumn, Column
<1>12. Accounted(ScalarColumn(f))
  BY <1>10, AllAccounted
<1> HIDE DEF M, rs, fields, dates
<1> QED  BY <1>1, <1>8, <1>9, <1>11, <1>12 DEF Accounted

(* The default sort key is a date field as a column of its own, unless a *)
(* collision is reported on its name (_first_date_field).                *)
THEOREM DefaultSortKeyIsADate == Spec => []DefaultSortKeyIsDate
BY ConversionInvariance, ComputedSortKeyDates, PTL

(* A column stems from an object route, or is materialized, or lies below *)
(* no object column unless config flattens a root above it.               *)
LEMMA ColumnOrigins ==
  ASSUME NEW m, WellFormed(m), NEW c, WellFormedConfig(c), NEW rs,
         rs = HoistToTopLevel(ParseMapping(m), RoutesOf(ParseMapping(m), c)),
         NEW k \in ToSet(AllColumns(ParseMapping(m), rs, c))
  PROVE  /\ k \in Columns
         /\ \/ \E r \in ToSet(rs) : \/ r.strategy = "json" /\ k = JsonColumn(r)
                                    \/ r.strategy = "map" /\ k = MapColumn(r)
                                    \/ r.strategy = "nested" /\ k = NestedColumn(r)
            \/ k.kind = "materialized"
            \/ /\ k.kind \in {"scalar", "array"}
               /\ \A r \in ToSet(rs) : r.strategy # "flatten" /\ IsPrefix(r.path, k.path) =>
                     \E p \in ToSet(c.flatten) : IsPrefix(p, k.path)
<1>1. ParseMapping(m) \in Models /\ rs \in Seq(Routes)
  BY ParsedMapping, ElementsOfRoutes, ElementsOfHoisted
<1>2. /\ AllColumns(ParseMapping(m), rs, c) \in Seq(Columns)
      /\ ToSet(AllColumns(ParseMapping(m), rs, c)) =
            {ScalarColumn(f) : f \in ToSet(TypedFields(ParseMapping(m), rs))}
               \cup ToSet(RouteColumns(rs)) \cup ToSet(MaterializedColumns(c))
  BY <1>1, ElementsOfColumns
<1>3. k \in Columns
  BY <1>2, NoElements
<1>4. \A f : /\ ScalarColumn(f).kind = "scalar" /\ ScalarColumn(f).path = f.path
             /\ ArrayColumn(f).kind = "array" /\ ArrayColumn(f).path = f.path
  BY DEF ScalarColumn, ArrayColumn, Column
<1>5. CASE k \in {ScalarColumn(f) : f \in ToSet(TypedFields(ParseMapping(m), rs))}
  <2>1. PICK f \in ToSet(TypedFields(ParseMapping(m), rs)) : k = ScalarColumn(f)
    BY <1>5
  <2>2. \A r \in ToSet(rs) : r.strategy # "flatten" /\ IsPrefix(r.path, f.path) =>
               \E p \in ToSet(c.flatten) : IsPrefix(p, f.path)
    BY TypedFieldsAreNodes
  <2> QED  BY <1>3, <1>4, <2>1, <2>2
<1>6. CASE k \in ToSet(MaterializedColumns(c))
  BY <1>3, <1>6, ElementsOfMaterialized
<1>7. CASE k \in ToSet(RouteColumns(rs))
  <2>1. \/ \E r \in ToSet(rs) : \/ r.strategy = "json" /\ k = JsonColumn(r)
                                \/ r.strategy = "map" /\ k = MapColumn(r)
                                \/ r.strategy = "nested" /\ k = NestedColumn(r)
        \/ \E r \in ToSet(rs) : /\ r.strategy = "flatten"
                                /\ \E f \in ToSet(r.leaves) : k = ArrayColumn(f)
    BY <1>1, <1>7, ElementsOfRouteColumns
  <2>2. CASE \E r \in ToSet(rs) : /\ r.strategy = "flatten"
                                  /\ \E f \in ToSet(r.leaves) : k = ArrayColumn(f)
    <3>1. PICK r \in ToSet(rs) : /\ r.strategy = "flatten"
                                 /\ \E f \in ToSet(r.leaves) : k = ArrayColumn(f)
      BY <2>2
    <3>2. PICK f \in ToSet(r.leaves) : k = ArrayColumn(f)
      BY <3>1
    <3>3. r \in ToSet(RoutesOf(ParseMapping(m), c)) /\ r.path \in ToSet(c.flatten)
      BY <3>1, HoistedRoutes
    <3>4. IsPrefix(r.path, f.path)
      BY <3>3, LeavesBelow DEF Under, IsStrictPrefix
    <3> QED  BY <1>3, <1>4, <3>2, <3>3, <3>4
  <2> QED  BY <1>3, <2>1, <2>2
<1> QED  BY <1>2, <1>5, <1>6, <1>7

(* Two object columns of one top-level key are the same column. *)
LEMMA ComputedOwners == Computed => ContainersOwnTheirKey
<1> SUFFICES ASSUME Computed, stage = "done", NEW k \in Containers
             PROVE  /\ Len(k.path) = 1
                    /\ \A d \in Table : IsPrefix(k.path, d.path) /\ d # k =>
                          \/ d.kind = "materialized"
                          \/ \E p \in ToSet(config.flatten) : IsPrefix(p, d.path)
  BY DEF ContainersOwnTheirKey
<1>1. PICK m, c : /\ m = mapping /\ c = config
                  /\ WellFormed(m) /\ WellFormedConfig(c)
                  /\ model = ParseMapping(m)
                  /\ routes = HoistToTopLevel(ParseMapping(m), RoutesOf(ParseMapping(m), c))
  BY RoutedInput
<1> DEFINE M == ParseMapping(m)
           RS == RoutesOf(M, c)
<1>2. PICK rs : rs = HoistToTopLevel(M, RS)
  OBVIOUS
<1>3. columns = AllColumns(M, rs, c)
  BY <1>1, <1>2 DEF Computed
<1>4. \A d \in Table : d \in ToSet(AllColumns(M, rs, c))
  BY <1>3, AllAccounted
<1>5. k \in ToSet(AllColumns(M, rs, c)) /\ k.kind \in {"json", "map", "nested"}
  BY <1>4 DEF Containers
<1>6. \A r \in ToSet(rs) :
         /\ JsonColumn(r).kind = "json" /\ JsonColumn(r).path = r.path
         /\ MapColumn(r).kind = "map" /\ MapColumn(r).path = r.path
         /\ NestedColumn(r).kind = "nested" /\ NestedColumn(r).path = r.path
  BY DEF JsonColumn, MapColumn, NestedColumn, Column
<1>7. PICK r \in ToSet(rs) : \/ r.strategy = "json" /\ k = JsonColumn(r)
                             \/ r.strategy = "map" /\ k = MapColumn(r)
                             \/ r.strategy = "nested" /\ k = NestedColumn(r)
  BY <1>1, <1>2, <1>5, ColumnOrigins
<1>8. /\ r.strategy # "flatten" /\ r \in Routes /\ Len(r.path) = 1
      /\ r = MergeGroup(M, r.path, MembersOf(RS, r.path))
      /\ k.path = r.path
  <2>1. r.strategy # "flatten"
    BY <1>7
  <2> QED  BY <1>1, <1>2, <1>6, <1>7, <2>1, HoistedRoutes
<1>9. ASSUME NEW d \in Table, IsPrefix(k.path, d.path), d # k
      PROVE  \/ d.kind = "materialized"
             \/ \E p \in ToSet(c.flatten) : IsPrefix(p, d.path)
  <2>1. d \in ToSet(AllColumns(M, rs, c))
    BY <1>4
  <2>2. \/ \E q \in ToSet(rs) : \/ q.strategy = "json" /\ d = JsonColumn(q)
                                \/ q.strategy = "map" /\ d = MapColumn(q)
                                \/ q.strategy = "nested" /\ d = NestedColumn(q)
        \/ d.kind = "materialized"
        \/ /\ d.kind \in {"scalar", "array"}
           /\ \A q \in ToSet(rs) : q.strategy # "flatten" /\ IsPrefix(q.path, d.path) =>
                 \E p \in ToSet(c.flatten) : IsPrefix(p, d.path)
    BY <1>1, <1>2, <2>1, ColumnOrigins
  <2>3. CASE \E q \in ToSet(rs) : \/ q.strategy = "json" /\ d = JsonColumn(q)
                                  \/ q.strategy = "map" /\ d = MapColumn(q)
                                  \/ q.strategy = "nested" /\ d = NestedColumn(q)
    <3>1. PICK q \in ToSet(rs) : \/ q.strategy = "json" /\ d = JsonColumn(q)
                                 \/ q.strategy = "map" /\ d = MapColumn(q)
                                 \/ q.strategy = "nested" /\ d = NestedColumn(q)
      BY <2>3
    <3>2. q.strategy # "flatten" /\ d.path = q.path
      BY <1>6, <3>1
    <3>3. /\ q \in Routes /\ Len(q.path) = 1
          /\ q = MergeGroup(M, q.path, MembersOf(RS, q.path))
      BY <1>1, <1>2, <3>2, HoistedRoutes
    <3>4. r.path \in FieldPaths /\ q.path \in FieldPaths
      BY <1>8, <3>3 DEF Routes
    <3>5. r.path = q.path
      BY <1>8, <1>9, <3>2, <3>3, <3>4, PrefixOrder
    <3>6. r = q
      <4> HIDE DEF M, RS
      <4> QED  BY <1>8, <3>3, <3>5
    <3> QED  BY <1>7, <1>9, <3>1, <3>6
  <2>4. CASE \A q \in ToSet(rs) : q.strategy # "flatten" /\ IsPrefix(q.path, d.path) =>
                 \E p \in ToSet(c.flatten) : IsPrefix(p, d.path)
    BY <1>8, <1>9, <2>4
  <2> QED  BY <2>2, <2>3, <2>4
<1> QED  BY <1>1, <1>8, <1>9

(* An object column owns its top-level key: nothing else is stored below it *)
(* but what config flattens there (_hoist_to_top_level).                    *)
THEOREM ContainersOwnKeys == Spec => []ContainersOwnTheirKey
BY ConversionInvariance, ComputedOwners, PTL

(* A route that is hoisted ends up in the column of its top-level key, and *)
(* the strategy of that column is the one that comes first.                *)
LEMMA GroupOfRoute ==
  ASSUME NEW m, WellFormed(m), NEW c, WellFormedConfig(c), NEW RS, NEW rs,
         RS = RoutesOf(ParseMapping(m), c),
         rs = HoistToTopLevel(ParseMapping(m), RS),
         NEW r \in ToSet(RS), r.strategy # "flatten"
  PROVE  \E g \in ToSet(rs) :
            LET members == MembersOf(RS, g.path)
                cols == ToSet(AllColumns(ParseMapping(m), rs, c))
            IN  /\ g \in Routes
                /\ g.path = TopLevelKey(r.path)
                /\ r \in ToSet(members)
                /\ g.strategy = Winner(members)
                /\ g.strategy \in {"json", "map", "nested"}
                /\ g.leaves = AllLeavesUnder(ParseMapping(m), g.path, members)
                /\ \E x \in ToSet(members) : x.strategy = g.strategy
                /\ (\E x \in ToSet(members) : x.strategy = "json") => g.strategy = "json"
                /\ (\E x \in ToSet(members) : x.strategy = "nested") => g.strategy # "map"
                /\ g.strategy = "json" => JsonColumn(g) \in cols
                /\ g.strategy = "map" => MapColumn(g) \in cols
                /\ g.strategy = "nested" => g.leaves = <<>> \/ NestedColumn(g) \in cols
<1> DEFINE M == ParseMapping(m)
<1>1. M \in Models /\ RS \in Seq(Routes) /\ rs \in Seq(Routes)
  BY ParsedMapping, ElementsOfRoutes, ElementsOfHoisted
<1> DEFINE top == TopLevelKey(r.path)
           members == MembersOf(RS, top)
<1>2. PICK g : g = MergeGroup(M, top, members)
  OBVIOUS
<1>3. g \in ToSet(rs)
  <2> HIDE DEF M
  <2>1. rs = HoistToTopLevel(M, RS)
    BY DEF M
  <2> QED  BY <1>1, <1>2, <2>1, ElementsOfHoisted
<1>4. /\ r \in ToSet(members)
      /\ members # <<>>
      /\ \A x \in ToSet(members) : x.strategy # "flatten"
      /\ g \in Routes
      /\ g.path = top
      /\ g.strategy = Winner(members)
      /\ g.strategy \in {"json", "map", "nested"}
      /\ g.leaves = AllLeavesUnder(M, top, members)
  <2> HIDE DEF M
  <2> QED  BY <1>1, <1>2, MergedGroups
<1>5. members \in Seq(Routes)
  BY <1>1, ElementsOfMembers
<1>6. /\ \E x \in ToSet(members) : x.strategy = g.strategy
      /\ (\E x \in ToSet(members) : x.strategy = "json") => g.strategy = "json"
      /\ (\E x \in ToSet(members) : x.strategy = "nested") => g.strategy # "map"
  <2> HIDE DEF members
  <2> QED  BY <1>4, <1>5, WinnerOfMembers
<1>7. \A k : k \in ToSet(RouteColumns(rs)) => k \in ToSet(AllColumns(M, rs, c))
  <2> HIDE DEF M
  <2> QED  BY <1>1, ElementsOfColumns
<1>8. /\ g.strategy = "json" => JsonColumn(g) \in ToSet(RouteColumns(rs))
      /\ g.strategy = "map" => MapColumn(g) \in ToSet(RouteColumns(rs))
      /\ g.strategy = "nested" => g.leaves = <<>> \/ NestedColumn(g) \in ToSet(RouteColumns(rs))
  BY <1>1, <1>3, ElementsOfRouteColumns
<1>9. g.path = TopLevelKey(r.path) /\ members = MembersOf(RS, g.path)
  BY <1>4
<1> DEFINE cols == ToSet(AllColumns(M, rs, c))
<1>10. /\ g.strategy = "json" => JsonColumn(g) \in cols
       /\ g.strategy = "map" => MapColumn(g) \in cols
       /\ g.strategy = "nested" => g.leaves = <<>> \/ NestedColumn(g) \in cols
  BY <1>7, <1>8
<1>11. g.leaves = AllLeavesUnder(M, g.path, members)
  BY <1>4
<1> HIDE DEF members, top, cols
<1> WITNESS g \in ToSet(rs)
<1> QED  BY <1>4, <1>6, <1>9, <1>10, <1>11 DEF cols

(* A pin is the strategy of its route, which wins its key or is warned of. *)
LEMMA ComputedPins == Computed => PinsBelowTopHonoured
<1> SUFFICES ASSUME Computed, stage = "done",
                    NEW s \in {"json", "map", "nested"}, NEW p \in ToSet(config[s]), Len(p) > 1
             PROVE  PinHonoured(s, p)
  BY DEF PinsBelowTopHonoured
<1>1. PICK m, c : /\ m = mapping /\ c = config
                  /\ WellFormed(m) /\ WellFormedConfig(c)
                  /\ model = ParseMapping(m)
                  /\ routes = HoistToTopLevel(ParseMapping(m), RoutesOf(ParseMapping(m), c))
  BY RoutedInput
<1>2. PICK RS, rs : RS = RoutesOf(ParseMapping(m), c) /\ rs = HoistToTopLevel(ParseMapping(m), RS)
  OBVIOUS
<1>3. /\ ArrayMapWarnings(c, RS) \subseteq warnings
      /\ FoldedWarnings(RS) \subseteq warnings
  BY <1>1, <1>2 DEF Computed, RoutingWarnings
<1>4. RS \in Seq(Routes)
  BY <1>1, <1>2, ElementsOfRoutes
<1>5. \A kind, subject : Warning(kind, subject).subject = subject
  BY DEF Warning
<1>6. CASE PinnedStrategy(c, p) # s
  BY <1>1, <1>6 DEF PinHonoured
<1>7. CASE PinnedStrategy(c, p) = s
  <2>1. s \in Strategies
    BY DEF Strategies
  <2>2. p \in ToSet(PinnedPaths(c)) /\ Pinned(c, p)
    BY <1>1, <2>1, ElementsOfPins
  <2>3. p \in FieldPaths
    BY <1>1, <2>2, ElementsOfPins, NoElements
  <2>4. PICK r \in ToSet(RS) : r \in Routes /\ r.path = p /\ r.strategy = HonorStrategy(s, r.source)
    BY <1>1, <1>2, <1>7, <2>2, RoutesOfPinned
  <2>5. CASE s = "map" /\ r.source = "array"
    <3>1. Warning("array_map", r.path) \in warnings
      BY <1>3, <1>7, <2>2, <2>4, <2>5 DEF ArrayMapWarnings
    <3> QED  BY <1>5, <2>4, <3>1 DEF PinHonoured
  <2>6. CASE ~(s = "map" /\ r.source = "array")
    <3>1. r.strategy = s /\ r.strategy # "flatten"
      BY <2>4, <2>6 DEF HonorStrategy
    <3>2. PICK g \in ToSet(rs) : /\ g.path = TopLevelKey(r.path)
                                 /\ g.strategy = Winner(MembersOf(RS, g.path))
      BY <1>1, <1>2, <3>1, GroupOfRoute
    <3>3. CASE g.strategy = s
      BY <1>1, <1>2, <2>4, <3>2, <3>3 DEF PinHonoured
    <3>4. CASE g.strategy # s
      <4>1. r.path # TopLevelKey(r.path)
        <5>1. Len(TopLevelKey(p)) = 1
          BY <2>3, TopLevelKeys
        <5>2. p # TopLevelKey(p)
          <6>1. PICK n \in Nat : n = Len(p)
            BY <2>3, LengthOfPath
          <6>2. n # 1
            BY <6>1
          <6> QED  BY <5>1, <6>1, <6>2
        <5>3. r.path = p
          BY <2>4
        <5> QED  BY <5>2, <5>3
      <4>2. r \in ToSet(Hoistable(RS))
        BY <1>4, <3>1, ElementsOfHoistable
      <4>3. Warning("folded", r.path) \in warnings
        BY <1>3, <3>1, <3>2, <3>4, <4>1, <4>2 DEF FoldedWarnings
      <4> QED  BY <1>5, <2>4, <4>3 DEF PinHonoured
    <3> QED  BY <3>3, <3>4
  <2> QED  BY <2>5, <2>6
<1> QED  BY <1>6, <1>7

(* A JSON, Map or Nested pin below a top-level key decides the column of that *)
(* key, or a warning names the pin (_honor_strategy, _warn_folded).           *)
THEOREM PinsBelowTopAreHonoured == Spec => []PinsBelowTopHonoured
BY ConversionInvariance, ComputedPins, PTL

(* Without pins every route is as Elasticsearch dictates. *)
LEMMA UnpinnedRoutes ==
  ASSUME NEW m, WellFormed(m), NEW c, WellFormedConfig(c), PinnedPaths(c) = <<>>,
         NEW r \in ToSet(RoutesOf(ParseMapping(m), c))
  PROVE  \E d \in ToSet(DetectedRoutes(ParseMapping(m))) :
            /\ d \in Detections
            /\ r.path = d.path
            /\ r.strategy = d.strategy
<1>1. \A p : p \notin ToSet(PinnedPaths(c)) /\ ~Pinned(c, p)
  <2>1. ToSet(<<>>) = {}
    BY DEF ToSet
  <2> QED  BY <2>1, ElementsOfPins
<1>2. PICK d \in ToSet(DetectedRoutes(ParseMapping(m))) :
               /\ r.path = d.path
               /\ r.strategy = HonorStrategy(IF Pinned(c, d.path) THEN PinnedStrategy(c, d.path)
                                             ELSE d.strategy, d.source)
  BY <1>1, RouteOrigins
<1>3. d \in Detections
  BY ParsedMapping, ElementsOfDetected, NoElements
<1>4. d.strategy # "map"
  BY <1>3 DEF Detections
<1> QED  BY <1>1, <1>2, <1>3, <1>4 DEF HonorStrategy

(* Without pins, the strategies at a key are those of its roots and groups. *)
LEMMA ComputedByMapping == Computed => MappingDecides
<1> SUFFICES ASSUME Computed, stage = "done", PinnedPaths(config) = <<>>
             PROVE  /\ \A x \in ToSet(model.json_roots) : Built(TopLevelKey(x.path), "json")
                    /\ \A x \in ToSet(model.nested_groups) :
                          \/ NestedOrReported(x)
                          \/ /\ Len(x.path) = 1
                             /\ \E y \in ToSet(model.json_roots) : Under(x.path, y.path)
  BY DEF MappingDecides
<1>1. PICK m, c : /\ m = mapping /\ c = config
                  /\ WellFormed(m) /\ WellFormedConfig(c)
                  /\ model = ParseMapping(m)
                  /\ routes = HoistToTopLevel(ParseMapping(m), RoutesOf(ParseMapping(m), c))
  BY RoutedInput
<1> DEFINE M == ParseMapping(m)
           det == DetectedRoutes(M)
<1>2. PICK RS, rs : RS = RoutesOf(M, c) /\ rs = HoistToTopLevel(M, RS)
  OBVIOUS
<1>3. /\ columns = AllColumns(M, rs, c)
      /\ EmptyRouteWarnings(rs) \subseteq warnings /\ FoldedWarnings(RS) \subseteq warnings
  BY <1>1, <1>2 DEF Computed, RoutingWarnings
<1>4. /\ M \in Models /\ RS \in Seq(Routes)
      /\ ToSet(det) = {JsonDetection(r) : r \in ToSet(M.json_roots)}
                         \cup {NestedDetection(g) : g \in ToSet(M.nested_groups)}
  BY <1>1, <1>2, ParsedMapping, ElementsOfRoutes, ElementsOfDetected
<1>5. \A d \in ToSet(det) :
         \E r \in ToSet(RS) : r.path = d.path /\ r.strategy = d.strategy
  <2> SUFFICES ASSUME NEW d \in ToSet(det)
               PROVE  \E r \in ToSet(RS) : r.path = d.path /\ r.strategy = d.strategy
    OBVIOUS
  <2>1. PICK r \in ToSet(RS) : r.path = d.path
    BY <1>1, <1>2, RoutesOfDetected
  <2>2. PICK e \in ToSet(det) : r.path = e.path /\ r.strategy = e.strategy
    BY <1>1, <1>2, UnpinnedRoutes
  <2>3. d = e
    BY <1>1, <2>1, <2>2, DetectedOnce
  <2> QED  BY <2>1, <2>2, <2>3
<1>6. \A x : /\ JsonDetection(x).path = x.path /\ JsonDetection(x).strategy = "json"
             /\ NestedDetection(x).path = x.path /\ NestedDetection(x).strategy = "nested"
  BY DEF JsonDetection, NestedDetection
<1>7. \A g : /\ JsonColumn(g).kind = "json" /\ JsonColumn(g).path = g.path
             /\ NestedColumn(g).kind = "nested" /\ NestedColumn(g).path = g.path
  BY DEF JsonColumn, NestedColumn, Column
<1>8. ASSUME NEW x \in ToSet(M.json_roots) PROVE Built(TopLevelKey(x.path), "json")
  <2>2. JsonDetection(x) \in ToSet(det)
    BY <1>4
  <2>3. PICK r \in ToSet(RS) : r.path = x.path /\ r.strategy = "json"
    <3> HIDE DEF det
    <3> QED  BY <1>5, <1>6, <2>2
  <2>4. PICK g \in ToSet(rs) : /\ g.path = TopLevelKey(r.path)
                               /\ r \in ToSet(MembersOf(RS, g.path))
                               /\ (\E y \in ToSet(MembersOf(RS, g.path)) : y.strategy = "json")
                                     => g.strategy = "json"
                               /\ g.strategy = "json" =>
                                     JsonColumn(g) \in ToSet(AllColumns(M, rs, c))
    BY <1>1, <1>2, <2>3, GroupOfRoute
  <2>5. JsonColumn(g) \in ToSet(columns)
    BY <1>3, <2>3, <2>4
  <2> QED  BY <1>7, <2>3, <2>4, <2>5 DEF Built
<1>9. ASSUME NEW x \in ToSet(M.nested_groups)
      PROVE  \/ NestedOrReported(x)
             \/ Len(x.path) = 1 /\ \E y \in ToSet(M.json_roots) : Under(x.path, y.path)
  <2>2. NestedDetection(x) \in ToSet(det)
    BY <1>4
  <2>3. PICK r \in ToSet(RS) : r.path = x.path /\ r.strategy = "nested"
    <3> HIDE DEF det
    <3> QED  BY <1>5, <1>6, <2>2
  <2>4. PICK g \in ToSet(rs) : /\ g.path = TopLevelKey(r.path)
                               /\ r \in ToSet(MembersOf(RS, g.path))
                               /\ g.strategy \in {"json", "map", "nested"}
                               /\ g.strategy = Winner(MembersOf(RS, g.path))
                               /\ \E y \in ToSet(MembersOf(RS, g.path)) : y.strategy = g.strategy
                               /\ (\E y \in ToSet(MembersOf(RS, g.path)) : y.strategy = "nested")
                                     => g.strategy # "map"
                               /\ g.strategy = "nested" =>
                                     \/ g.leaves = <<>>
                                     \/ NestedColumn(g) \in ToSet(AllColumns(M, rs, c))
    BY <1>1, <1>2, <2>3, GroupOfRoute
  <2>5. g.path = TopLevelKey(x.path) /\ x.path \in FieldPaths
    <3>1. r \in Routes
      BY <1>4, <2>3 DEF ToSet
    <3> QED  BY <2>3, <2>4, <3>1 DEF Routes
  <2>6. CASE g.strategy = "nested"
    <3>1. CASE g.leaves = <<>>
      BY <1>3, <2>5, <2>6, <3>1 DEF EmptyRouteWarnings, NestedOrReported
    <3>2. CASE NestedColumn(g) \in ToSet(columns)
      BY <1>7, <2>5, <3>2 DEF Built, NestedOrReported
    <3> QED  BY <1>3, <2>4, <2>6, <3>1, <3>2
  <2>7. CASE g.strategy = "json" /\ x.path # g.path
    <3>1. r \in ToSet(Hoistable(RS))
      BY <1>4, <2>3, ElementsOfHoistable
    <3>2. Warning("folded", x.path) \in warnings
      BY <1>3, <2>3, <2>4, <2>5, <2>7, <3>1 DEF FoldedWarnings
    <3> QED  BY <3>2 DEF NestedOrReported
  <2>8. CASE g.strategy = "json" /\ x.path = g.path
    <3>1. PICK y \in ToSet(MembersOf(RS, g.path)) : y.strategy = "json"
      BY <2>4, <2>8
    <3>2. y \in ToSet(RS) /\ TopLevelKey(y.path) = g.path
      BY <1>4, <3>1, ElementsOfMembers
    <3>3. PICK d \in ToSet(det) : y.path = d.path /\ d.strategy = "json"
      BY <1>1, <1>2, <3>1, <3>2, UnpinnedRoutes
    <3>4. PICK z \in ToSet(M.json_roots) : d = JsonDetection(z)
      <4> HIDE DEF det
      <4> QED  BY <1>4, <1>6, <3>3
    <3>5. z.path = y.path /\ g.path = TopLevelKey(z.path) /\ z.path \in FieldPaths
      <4>1. y \in Routes
        BY <1>4, <3>2 DEF ToSet
      <4> QED  BY <1>6, <3>2, <3>3, <3>4, <4>1 DEF Routes
    <3>6. z.path # x.path
      <4>1. JsonDetection(z) # NestedDetection(x)
        BY <1>6
      <4>2. JsonDetection(z) \in ToSet(det) /\ NestedDetection(x) \in ToSet(det)
        BY <2>2, <3>3, <3>4
      <4> QED  BY <1>1, <1>6, <4>1, <4>2, DetectedOnce
    <3>7. Len(x.path) = 1 /\ Under(x.path, z.path)
      <4>1. Len(x.path) = 1 /\ TopLevelKey(z.path) = x.path
        BY <2>5, <2>8, <3>5, TopLevelKeys
      <4>2. IsPrefix(x.path, z.path)
        BY <2>5, <3>5, <4>1, TopLevelKeys
      <4> QED  BY <2>5, <3>5, <3>6, <4>1, <4>2, PrefixOrder
    <3> QED  BY <3>4, <3>7
  <2> QED  BY <2>3, <2>4, <2>6, <2>7, <2>8
<1> QED  BY <1>1, <1>8, <1>9

(* Without pins the mapping decides the kind of the object columns, or a    *)
(* warning says it did not (_detected_routes, _merge_group, _warn_folded),  *)
(* but for an open object inside a nested field at the top of a document.   *)
THEOREM TheMappingDecides == Spec => []MappingDecides
BY ConversionInvariance, ComputedByMapping, PTL

(* Of some nodes there is one that none of the others is above. *)
LEMMA Topmost ==
  ASSUME NEW m, WellFormed(m), NEW B \in SUBSET ToSet(m), B # {}
  PROVE  \E b \in B : \A k \in B : ~Under(k.path, b.path)
<1> DEFINE T == {Len(b.path) : b \in B}
<1>1. \A b \in B : b.path \in FieldPaths /\ Len(b.path) \in Nat
  BY NodesOfMapping, LengthOfPath
<1>2. T \in SUBSET Nat /\ T # {}
  BY <1>1
<1>3. PICK l \in T : \A k \in T : l <= k
  <2> HIDE DEF T
  <2> QED  BY <1>2, Least
<1>4. PICK b \in B : l = Len(b.path)
  BY <1>3
<1>5. ASSUME NEW k \in B, Under(k.path, b.path) PROVE FALSE
  <2>1. Len(k.path) < Len(b.path)
    BY <1>1, <1>5, PrefixOrder
  <2>2. PICK x \in Nat : x = Len(k.path)
    BY <1>1
  <2>3. l \in Nat /\ x \in T
    BY <1>2, <2>2
  <2> HIDE DEF T
  <2> QED  BY <1>3, <1>4, <2>1, <2>2, <2>3
<1> QED  BY <1>5

(* The column of a top-level key has room for every leaf of the model below *)
(* it, unless it has none at all.                                           *)
LEMMA OwnedCaptured ==
  ASSUME NEW m, WellFormed(m), NEW c, WellFormedConfig(c), NEW RS, NEW rs,
         RS = RoutesOf(ParseMapping(m), c),
         rs = HoistToTopLevel(ParseMapping(m), RS),
         NEW r \in ToSet(RS), r.strategy # "flatten",
         NEW n \in ToSet(m), n.kind \in LeafKinds, TopLevelKey(r.path) = TopLevelKey(n.path),
         \/ n \in ToSet(ParseMapping(m).fields)
         \/ \E k \in ToSet(ParseMapping(m).json_roots) \cup ToSet(ParseMapping(m).nested_groups) :
               n \in ToSet(k.fields)
  PROVE  \/ \E k \in ToSet(AllColumns(ParseMapping(m), rs, c)) : Captures(k, n.path)
         \/ Warning("empty", TopLevelKey(n.path)) \in EmptyRouteWarnings(rs)
<1> DEFINE M == ParseMapping(m)
           cols == ToSet(AllColumns(M, rs, c))
           top == TopLevelKey(n.path)
<1>1. M \in Models /\ RS \in Seq(Routes)
  BY ParsedMapping, ElementsOfRoutes
<1>2. /\ n.path \in FieldPaths /\ top \in FieldPaths /\ IsPrefix(top, n.path)
      /\ top # n.path => Under(top, n.path)
  BY NodesOfMapping, TopLevelKeys, PrefixOrder
<1>3. PICK g \in ToSet(rs) :
         /\ g \in Routes
         /\ g.path = top
         /\ g.strategy \in {"json", "map", "nested"}
         /\ g.leaves = AllLeavesUnder(M, g.path, MembersOf(RS, g.path))
         /\ g.strategy = "json" => JsonColumn(g) \in cols
         /\ g.strategy = "map" => MapColumn(g) \in cols
         /\ g.strategy = "nested" => g.leaves = <<>> \/ NestedColumn(g) \in cols
  BY GroupOfRoute
<1>4. CASE g.strategy \in {"json", "map"}
  <2>1. Captures(JsonColumn(g), n.path) /\ Captures(MapColumn(g), n.path)
    BY <1>2, <1>3, ColumnsOfRoutes DEF Captures
  <2> QED  BY <1>3, <1>4, <2>1
<1>5. CASE g.strategy = "nested"
  <2>1. CASE g.leaves = <<>>
    <3>1. Warning("empty", g.path) \in EmptyRouteWarnings(rs)
      BY <1>5, <2>1 DEF EmptyRouteWarnings
    <3> QED  BY <1>3, <3>1
  <2>2. CASE g.leaves # <<>>
    <3>1. g.leaves \in Seq(Nodes) /\ g.leaves[1] \in ToSet(g.leaves)
      <4>1. g.leaves \in Seq(Nodes)
        BY <1>3 DEF Routes
      <4> QED  BY <2>2, <4>1, NoElements
    <3>2. PICK members : members = MembersOf(RS, top)
      OBVIOUS
    <3>3. /\ members \in Seq(Routes) /\ \A q \in ToSet(members) : q \in ToSet(RS)
      BY <1>1, <3>2, ElementsOfMembers
    <3>4. g.leaves = AllLeavesUnder(M, top, members)
      BY <1>3, <3>2
    <3>5. CASE top = n.path
      <4>1. PICK f \in ToSet(g.leaves) :
               /\ Under(top, f.path)
               /\ \/ f \in ToSet(M.fields)
                  \/ \E k \in ToSet(M.json_roots) \cup ToSet(M.nested_groups) : f \in ToSet(k.fields)
                  \/ \E k \in ToSet(members) : f \in ToSet(k.leaves)
        <5> HIDE DEF M, top
        <5> QED  BY <1>1, <3>1, <3>3, <3>4, LeavesUnder
      <4>2. f \in ToSet(m)
        <5>1. ToSet(M.fields) \subseteq ToSet(m)
          BY ParsedMapping
        <5>2. ASSUME NEW k \in ToSet(M.json_roots) \cup ToSet(M.nested_groups)
              PROVE  ToSet(k.fields) \subseteq ToSet(m)
          <6>1. \E x : \/ k = Collection(x, DeclaredLeaves(m, x))
                       \/ k = Collection(x, CollectedLeaves(m, x))
            BY ParsedMapping, ElementsOfJsonRoots, ElementsOfNestedGroups
          <6>2. \A x, y : Collection(x, y).fields = y
            BY DEF Collection
          <6> HIDE DEF M
          <6> QED  BY <6>1, <6>2, ElementsOfLeaves
        <5>3. \A k \in ToSet(members) : ToSet(k.leaves) \subseteq ToSet(m)
          BY <3>3, LeavesBelow
        <5> HIDE DEF M, top
        <5> QED  BY <4>1, <5>1, <5>2, <5>3
      <4>3. n.kind \in {"open", "nested", "object"}
        BY <3>5, <4>1, <4>2, NodesOfMapping
      <4> QED  BY <4>3 DEF LeafKinds
    <3>6. CASE top # n.path
      <4>1. n.path \in Paths(g.leaves)
        <5>1. Under(top, n.path)
          BY <1>2, <3>6
        <5> HIDE DEF top
        <5> QED  BY <1>1, <3>3, <3>4, <5>1, LeavesUnder
      <4>2. Captures(NestedColumn(g), n.path)
        BY <1>3, <4>1, ColumnsOfRoutes DEF Captures
      <4> QED  BY <1>3, <1>5, <2>2, <4>2
    <3> QED  BY <3>5, <3>6
  <2> QED  BY <2>1, <2>2
<1> QED  BY <1>3, <1>4, <1>5

(* A leaf below a JSON root: the topmost one is a root of the model, and *)
(* stays JSON or is reported.                                            *)
LEMMA OpenAbove ==
  ASSUME NEW m, WellFormed(m), NEW c, WellFormedConfig(c), NEW RS, NEW rs,
         RS = RoutesOf(ParseMapping(m), c),
         rs = HoistToTopLevel(ParseMapping(m), RS),
         NEW n \in ToSet(m), NEW a \in ToSet(m), a.kind = "open", Under(a.path, n.path)
  PROVE  \/ \E k \in ToSet(AllColumns(ParseMapping(m), rs, c)) : Captures(k, n.path)
         \/ \E b \in ToSet(m) : /\ Warning("catch_all", b.path) \in CatchAllWarnings(RS)
                                /\ IsPrefix(b.path, n.path)
<1> DEFINE B == {b \in ToSet(m) : b.kind = "open" /\ Under(b.path, n.path)}
<1>1. PICK b \in B : \A k \in B : ~Under(k.path, b.path)
  <2>1. B \in SUBSET ToSet(m) /\ B # {}
    OBVIOUS
  <2> HIDE DEF B
  <2> QED  BY <2>1, Topmost
<1>2. \A k \in ToSet(m) : k.path \in FieldPaths
  BY NodesOfMapping
<1>3. Visited(m, b.path)
  <2>1. ASSUME NEW k \in ToSet(m), Under(k.path, b.path) PROVE k.kind \in {"object", "nested"}
    <3>1. k.kind \in {"open", "nested", "object"}
      BY <2>1, NodesOfMapping
    <3>2. Under(k.path, n.path)
      BY <1>2, <2>1, UnderUnder
    <3>3. k.kind # "open"
      BY <1>1, <2>1, <3>2
    <3> QED  BY <3>1, <3>3
  <2> QED  BY <1>2, <2>1, AboveWalked
<1>4. PICK d \in ToSet(DetectedRoutes(ParseMapping(m))) : d.path = b.path /\ d.strategy = "json"
  <2>1. JsonDetection(Collection(b.path, DeclaredLeaves(m, b.path)))
           \in ToSet(DetectedRoutes(ParseMapping(m)))
    BY <1>3, DetectedNodes
  <2>2. \A leaves : /\ JsonDetection(Collection(b.path, leaves)).path = b.path
                    /\ JsonDetection(Collection(b.path, leaves)).strategy = "json"
    BY DEF JsonDetection, Collection
  <2> QED  BY <2>1, <2>2
<1>5. PICK r \in ToSet(RS) : r.path = b.path /\ r.detected = "json"
  BY <1>4, RoutesOfDetected
<1>6. IsPrefix(b.path, n.path)
  BY DEF Under, IsStrictPrefix
<1>7. CASE r.strategy = "json"
  <2>1. PICK g \in ToSet(rs) : /\ g \in Routes
                               /\ g.path = TopLevelKey(r.path)
                               /\ r \in ToSet(MembersOf(RS, g.path))
                               /\ (\E x \in ToSet(MembersOf(RS, g.path)) : x.strategy = "json")
                                     => g.strategy = "json"
                               /\ g.strategy = "json" =>
                                    JsonColumn(g) \in ToSet(AllColumns(ParseMapping(m), rs, c))
    BY <1>7, GroupOfRoute
  <2>2. JsonColumn(g) \in ToSet(AllColumns(ParseMapping(m), rs, c))
    BY <1>7, <2>1
  <2>3. IsPrefix(g.path, n.path)
    <3>1. g.path = TopLevelKey(n.path)
      BY <1>2, <1>5, <1>6, <2>1, TopLevelKeys
    <3> QED  BY <1>2, <3>1, TopLevelKeys
  <2>4. Captures(JsonColumn(g), n.path)
    BY <2>1, <2>3, ColumnsOfRoutes DEF Captures
  <2> QED  BY <2>2, <2>4
<1>8. CASE r.strategy # "json"
  <2>1. Warning("catch_all", b.path) \in CatchAllWarnings(RS)
    BY <1>5, <1>8 DEF CatchAllWarnings
  <2> QED  BY <1>6, <2>1
<1> QED  BY <1>7, <1>8

(* A leaf below plain objects only is a field of the model, claimed or not. *)
LEMMA PlainAbove ==
  ASSUME NEW m, WellFormed(m), NEW c, WellFormedConfig(c), NEW RS, NEW rs,
         RS = RoutesOf(ParseMapping(m), c),
         rs = HoistToTopLevel(ParseMapping(m), RS),
         NEW n \in ToSet(m), n.kind \in LeafKinds, Walked(m, n.path)
  PROVE  \/ \E k \in ToSet(AllColumns(ParseMapping(m), rs, c)) : Captures(k, n.path)
         \/ Warning("empty", TopLevelKey(n.path)) \in EmptyRouteWarnings(rs)
<1> DEFINE M == ParseMapping(m)
<1>1. n \in ToSet(M.fields) /\ n.path \in FieldPaths
  BY ParsedMapping, NodesOfMapping
<1>2. M \in Models /\ rs \in Seq(Routes)
  BY ParsedMapping, ElementsOfRoutes, ElementsOfHoisted
<1>3. CASE \A r \in ToSet(rs) : r.strategy # "flatten" => ~IsPrefix(r.path, n.path)
  <2>1. n \in ToSet(TypedFields(M, rs))
    <3> HIDE DEF M
    <3> QED  BY <1>1, <1>2, <1>3, ElementsOfTypedFields
  <2>2. ScalarColumn(n) \in ToSet(AllColumns(M, rs, c))
    <3> HIDE DEF M
    <3> QED  BY <1>2, <2>1, ElementsOfColumns
  <2>3. Captures(ScalarColumn(n), n.path)
    BY DEF ScalarColumn, Column, Captures
  <2> QED  BY <2>2, <2>3
<1>4. CASE \E r \in ToSet(rs) : r.strategy # "flatten" /\ IsPrefix(r.path, n.path)
  <2>1. PICK g \in ToSet(rs) : g.strategy # "flatten" /\ IsPrefix(g.path, n.path)
    BY <1>4
  <2>2. /\ g \in Routes /\ Len(g.path) = 1
        /\ \E q \in ToSet(RS) : q.strategy # "flatten" /\ TopLevelKey(q.path) = g.path
    BY <2>1, HoistedRoutes
  <2>3. PICK q \in ToSet(RS) : q.strategy # "flatten" /\ TopLevelKey(q.path) = g.path
    BY <2>2
  <2>4. TopLevelKey(n.path) = g.path
    <3>1. g.path \in FieldPaths
      BY <2>2 DEF Routes
    <3> QED  BY <1>1, <2>1, <2>2, <3>1, TopLevelKeys
  <2> QED  BY <1>1, <2>3, <2>4, OwnedCaptured
<1> QED  BY <1>3, <1>4

(* A leaf below a nested field: the topmost one is a group of the model *)
(* that collects it.                                                    *)
LEMMA NestedAbove ==
  ASSUME NEW m, WellFormed(m), NEW c, WellFormedConfig(c), NEW RS, NEW rs,
         RS = RoutesOf(ParseMapping(m), c),
         rs = HoistToTopLevel(ParseMapping(m), RS),
         NEW n \in ToSet(m), n.kind \in LeafKinds,
         NEW a \in ToSet(m), a.kind = "nested", Under(a.path, n.path),
         \A k \in ToSet(m) : Under(k.path, n.path) => k.kind # "open"
  PROVE  \/ \E k \in ToSet(AllColumns(ParseMapping(m), rs, c)) : Captures(k, n.path)
         \/ Warning("empty", TopLevelKey(n.path)) \in EmptyRouteWarnings(rs)
<1> DEFINE M == ParseMapping(m)
           B == {b \in ToSet(m) : b.kind = "nested" /\ Under(b.path, n.path)}
<1>1. PICK b \in B : \A k \in B : ~Under(k.path, b.path)
  <2>1. B \in SUBSET ToSet(m) /\ B # {}
    OBVIOUS
  <2> HIDE DEF B
  <2> QED  BY <2>1, Topmost
<1>0. b.kind \in NestedKinds
  BY DEF NestedKinds
<1>2. \A k \in ToSet(m) : k.path \in FieldPaths
  BY NodesOfMapping
<1>3. IsPrefix(b.path, n.path)
  BY DEF Under, IsStrictPrefix
<1>4. Walked(m, b.path)
  <2>1. ASSUME NEW k \in ToSet(m), Under(k.path, b.path) PROVE k.kind = "object"
    <3>1. k.kind \in {"open", "nested", "object"}
      BY <2>1, NodesOfMapping
    <3>2. Under(k.path, n.path)
      BY <1>2, <2>1, UnderUnder
    <3> QED  BY <1>1, <2>1, <3>1, <3>2
  <2> QED  BY <1>2, <2>1, AboveWalked
<1>5. n \in ToSet(CollectedLeaves(m, b.path))
  <2>1. KindsBetween(m, b.path, n.path) \subseteq {"object", "nested"}
    <3>1. \A k \in ToSet(m) : Under(k.path, n.path) => k.kind \in {"nested", "object"}
      BY NodesOfMapping
    <3> QED  BY <3>1 DEF KindsBetween
  <2>2. b \in ToSet(m) /\ Under(b.path, n.path)
    OBVIOUS
  <2> HIDE DEF B
  <2> QED  BY <2>1, <2>2, ElementsOfLeaves
<1> DEFINE K == Collection(b.path, CollectedLeaves(m, b.path))
           d == NestedDetection(K)
<1>6. K \in ToSet(M.nested_groups)
  BY <1>0, <1>4, ParsedMapping, ElementsOfNestedGroups
<1>7. d \in ToSet(DetectedRoutes(M))
  BY <1>0, <1>4, DetectedNodes
<1>8. /\ K.fields = CollectedLeaves(m, b.path)
      /\ d.path = b.path /\ d.source = "array" /\ d.leaves = CollectedLeaves(m, b.path)
  BY DEF NestedDetection, Collection
<1> HIDE DEF K, d
<1>9. PICK r \in ToSet(RS) : /\ r \in Routes /\ r.path = b.path /\ r.source = "array"
                             /\ n \in ToSet(r.leaves)
  BY <1>5, <1>7, <1>8, RoutesOfDetected
<1>10. M \in Models /\ RS \in Seq(Routes) /\ rs \in Seq(Routes)
  BY ParsedMapping, ElementsOfRoutes, ElementsOfHoisted
<1>11. CASE r.strategy = "flatten"
  <2>1. r \in ToSet(rs)
    <3>1. rs = HoistToTopLevel(M, RS)
      OBVIOUS
    <3> HIDE DEF M
    <3> QED  BY <1>10, <1>11, <3>1, ElementsOfHoisted
  <2>2. ArrayColumn(n) \in ToSet(RouteColumns(rs))
    BY <1>9, <1>10, <1>11, <2>1, ElementsOfRouteColumns
  <2>3. ArrayColumn(n) \in ToSet(AllColumns(M, rs, c))
    <3> HIDE DEF M
    <3> QED  BY <1>10, <2>2, ElementsOfColumns
  <2>4. Captures(ArrayColumn(n), n.path)
    BY DEF ArrayColumn, Column, Captures
  <2> QED  BY <2>3, <2>4
<1>12. CASE r.strategy # "flatten"
  <2>1. TopLevelKey(r.path) = TopLevelKey(n.path)
    BY <1>2, <1>3, <1>9, TopLevelKeys
  <2>2. \E k \in ToSet(M.json_roots) \cup ToSet(M.nested_groups) : n \in ToSet(k.fields)
    BY <1>5, <1>6, <1>8
  <2> QED  BY <1>12, <2>1, <2>2, OwnedCaptured
<1> QED  BY <1>11, <1>12

(* One of the three holds for every leaf that stores data. *)
LEMMA ComputedLosses == Computed => NothingLostSilently
<1> SUFFICES ASSUME Computed, stage = "done", NEW path \in StoredLeaves(mapping)
             PROVE  \/ \E k \in ToSet(columns) : Captures(k, path) /\ Accounted(k)
                    \/ \E p \in Overridden : IsPrefix(p, path)
                    \/ Warning("empty", TopLevelKey(path)) \in warnings
  BY DEF NothingLostSilently
<1>1. PICK m, c : /\ m = mapping /\ c = config
                  /\ WellFormed(m) /\ WellFormedConfig(c)
                  /\ model = ParseMapping(m)
                  /\ routes = HoistToTopLevel(ParseMapping(m), RoutesOf(ParseMapping(m), c))
  BY RoutedInput
<1>2. PICK RS, rs : RS = RoutesOf(ParseMapping(m), c) /\ rs = HoistToTopLevel(ParseMapping(m), RS)
  OBVIOUS
<1>3. /\ columns = AllColumns(ParseMapping(m), rs, c)
      /\ CatchAllWarnings(RS) \subseteq warnings
      /\ EmptyRouteWarnings(rs) \subseteq warnings
  BY <1>1, <1>2 DEF Computed, RoutingWarnings
<1>4. PICK n \in ToSet(m) : n.kind \in LeafKinds /\ path = n.path
  BY <1>1 DEF StoredLeaves
<1>5. \A k \in ToSet(columns) : Captures(k, path) => Captures(k, path) /\ Accounted(k)
  BY AllAccounted
<1>6. CASE \E a \in ToSet(m) : a.kind = "open" /\ Under(a.path, n.path)
  <2>1. \/ \E k \in ToSet(AllColumns(ParseMapping(m), rs, c)) : Captures(k, n.path)
        \/ \E b \in ToSet(m) : /\ Warning("catch_all", b.path) \in CatchAllWarnings(RS)
                               /\ IsPrefix(b.path, n.path)
    BY <1>1, <1>2, <1>6, OpenAbove
  <2>2. \A p : Warning("catch_all", p) \in warnings => p \in Overridden
    <3>1. \A p : /\ Warning("catch_all", p).kind = "catch_all"
                 /\ Warning("catch_all", p).subject = p
      BY DEF Warning
    <3>2. ASSUME NEW p, Warning("catch_all", p) \in warnings PROVE p \in Overridden
      BY <3>1, <3>2 DEF Overridden
    <3> QED  BY <3>2
  <2> QED  BY <1>3, <1>4, <1>5, <2>1, <2>2
<1>7. CASE /\ \A k \in ToSet(m) : Under(k.path, n.path) => k.kind # "open"
           /\ \E a \in ToSet(m) : a.kind = "nested" /\ Under(a.path, n.path)
  <2>1. \/ \E k \in ToSet(AllColumns(ParseMapping(m), rs, c)) : Captures(k, n.path)
        \/ Warning("empty", TopLevelKey(n.path)) \in EmptyRouteWarnings(rs)
    BY <1>1, <1>2, <1>4, <1>7, NestedAbove
  <2> QED  BY <1>3, <1>4, <1>5, <2>1
<1>8. CASE \A k \in ToSet(m) : Under(k.path, n.path) => k.kind \notin {"open", "nested"}
  <2>1. Walked(m, n.path)
    <3>1. n.path \in FieldPaths
      BY <1>1, NodesOfMapping
    <3>2. \A k \in ToSet(m) : Under(k.path, n.path) => k.kind = "object"
      BY <1>1, <1>8, NodesOfMapping
    <3> QED  BY <1>1, <3>1, <3>2, AboveWalked
  <2>2. \/ \E k \in ToSet(AllColumns(ParseMapping(m), rs, c)) : Captures(k, n.path)
        \/ Warning("empty", TopLevelKey(n.path)) \in EmptyRouteWarnings(rs)
    BY <1>1, <1>2, <1>4, <2>1, PlainAbove
  <2> QED  BY <1>3, <1>4, <1>5, <2>2
<1> QED  BY <1>6, <1>7, <1>8

(* Every leaf that holds data is taken by a column that is kept or reported as *)
(* dropped, or a warning names the override or the empty group that lost it.   *)
THEOREM NothingIsLostSilently == Spec => []NothingLostSilently
BY ConversionInvariance, ComputedLosses, PTL
=============================================================================
