------------------------ MODULE Invalidation_proofs ------------------------
(***************************************************************************)
(* The proof that every change invalidates the contexts it changes, and    *)
(* the data sheets of the samples whose splits are in the order of the     *)
(* generations, for any number of samples, processes and requests.         *)
(*                                                                         *)
(* The walks of Sample.save and the data sheets are recursive functions    *)
(* over the lineage.  A least counterexample takes the place of induction: *)
(* parents are older, i.e. have smaller numbers, than their pieces.        *)
(***************************************************************************)
EXTENDS Invalidation, FiniteSetTheorems, WellFoundedInduction, TLAPS

(* Any natural numbers have a least one: the smallest of the intervals up  *)
(* to them ends with it.                                                   *)
LEMMA LeastExists ==
  ASSUME NEW S \in SUBSET Nat, S # {}
  PROVE  \E m \in S : \A x \in S : m <= x
<1> DEFINE T == {0 .. k : k \in S}
<1>1. T \subseteq FiniteSubsetsOf(Nat) /\ T # {}
  <2>1. \A k \in S : (0 .. k) \in SUBSET Nat /\ IsFiniteSet(0 .. k)
    BY FS_Interval
  <2> QED
    BY <2>1 DEF FiniteSubsetsOf
<1>2. PICK I \in T : \A J \in T : ~(<<J, I>> \in StrictSubsetOrdering(Nat))
  BY <1>1, WFMin, FS_StrictSubsetOrderingWellFounded
<1>3. PICK m \in S : I = 0 .. m
  BY <1>2
<1>4. ASSUME NEW y \in S
      PROVE  m <= y
  <2>1. ~(0 .. y \subseteq 0 .. m /\ 0 .. y # 0 .. m)
    <3>1. (0 .. y) \in T /\ 0 .. y \in SUBSET Nat /\ 0 .. m \in SUBSET Nat
      OBVIOUS
    <3>2. <<0 .. y, 0 .. m>> \notin StrictSubsetOrdering(Nat)
      BY <1>2, <1>3, <3>1
    <3> HIDE DEF T
    <3> QED
      BY <3>1, <3>2 DEF StrictSubsetOrdering
  <2>2. CASE y < m
    <3>1. 0 .. y \subseteq 0 .. m /\ m \in 0 .. m /\ m \notin 0 .. y
      BY <2>2
    <3> QED
      BY <2>1, <3>1
  <2> QED
    BY <2>2
<1> QED
  BY <1>4

(* A set of numbers that contains each of them whenever it contains all    *)
(* the smaller ones contains them all.                                     *)
LEMMA Ascent ==
  ASSUME NEW S \in SUBSET Nat, NEW T,
         \A m \in S : (\A x \in S : x < m => x \in T) => m \in T
  PROVE  S \subseteq T
<1> SUFFICES ASSUME S \ T # {}
             PROVE  FALSE
  OBVIOUS
<1>1. PICK m \in S \ T : \A x \in S \ T : m <= x
  BY LeastExists
<1> QED
  BY <1>1

(* The right side H of a recursive definition, in which each value depends *)
(* only on values of lower rank.                                           *)
LooksDown(D, V, N, rank, H) ==
  /\ V # {} /\ N \in Nat
  /\ rank \in [D -> 0 .. N]
  /\ H \in [D -> [[D -> V] -> V]]
  /\ \A x \in D : \A f \in [D -> V], g \in [D -> V] :
       (\A y \in D : rank[y] < rank[x] => f[y] = g[y]) => H[x][f] = H[x][g]

(* Such a definition defines a function.                                   *)
LEMMA RecursionWorks ==
  ASSUME NEW D, NEW V, NEW N, NEW rank, NEW H, LooksDown(D, V, N, rank, H)
  PROVE  \E f \in [D -> V] : \A x \in D : f[x] = H[x][f]
<1> USE DEF LooksDown
<1> DEFINE Good(f, n) == \A x \in D : rank[x] < n => f[x] = H[x][f]
           T == {n \in Nat : \E f \in [D -> V] : Good(f, n)}
<1>0. \A x \in D : rank[x] \in 0 .. N
  OBVIOUS
<1>1. ASSUME NEW m \in 0 .. N + 1, \A x \in 0 .. N + 1 : x < m => x \in T
      PROVE  m \in T
  <2>1. CASE m = 0
    <3>1. PICK v \in V : TRUE
      OBVIOUS
    <3> DEFINE h == [x \in D |-> v]
    <3>2. h \in [D -> V]
      OBVIOUS
    <3>3. Good(h, 0)
      BY <1>0
    <3>4. \E f \in [D -> V] : Good(f, 0)
      <4> HIDE DEF Good, h
      <4> QED
        BY <3>2, <3>3
    <3> QED
      BY <2>1, <3>4
  <2>2. CASE m # 0
    <3>1. m - 1 \in T
      BY <1>1, <2>2
    <3>2. PICK f \in [D -> V] : Good(f, m - 1)
      BY <3>1
    <3> DEFINE g == [x \in D |-> H[x][f]]
    <3>3. g \in [D -> V]
      OBVIOUS
    <3>4. ASSUME NEW x \in D, rank[x] < m
          PROVE  g[x] = H[x][g]
      <4>1. \A y \in D : rank[y] < rank[x] => f[y] = g[y]
        BY <1>0, <3>2, <3>4
      <4>2. H[x][f] = H[x][g]
        BY <3>3, <4>1
      <4> QED
        BY <4>2
    <3>5. Good(g, m)
      BY <3>4
    <3>6. \E h \in [D -> V] : Good(h, m)
      <4> HIDE DEF Good, g
      <4> QED
        BY <3>3, <3>5
    <3> QED
      BY <3>6
  <2> QED
    BY <2>1, <2>2
<1>2. N + 1 \in T
  <2> DEFINE I == 0 .. N + 1
  <2>1. I \in SUBSET Nat /\ N + 1 \in I
    OBVIOUS
  <2>2. \A m \in I : (\A x \in I : x < m => x \in T) => m \in T
    BY <1>1
  <2> HIDE DEF T, I
  <2>3. I \subseteq T
    BY <2>1, <2>2, Ascent
  <2> QED
    BY <2>1, <2>3
<1>3. PICK f \in [D -> V] : Good(f, N + 1)
  BY <1>2
<1> QED
  BY <1>0, <1>3

-----------------------------------------------------------------------------
(* The lineage.  What the walks rest on: a piece comes from a split of an  *)
(* older sample, which is the only member of the split and still there,    *)
(* and no process has a time yet to come.                                  *)
PiecesHaveParents ==
  \A s \in Samples : origin[s] # None =>
    /\ s \in alive
    /\ origin[s] \in live /\ kind[origin[s]] = "split"
    /\ parent[origin[s]] \in alive /\ parent[origin[s]] < s

SplitsHaveTheirParent ==
  /\ \A p \in live : kind[p] = "split" => members[p] = {parent[p]}
  /\ \A p \in Processes \ live : members[p] = {}

InvalidationInv ==
  /\ RecordTypes /\ PiecesHaveParents /\ SplitsHaveTheirParent
  /\ \A p \in Processes : stamp[p] <= now

Things == {Sample(s) : s \in Samples} \cup {Process(p) : p \in Processes}

(* The types without the bounds. *)
LEMMA TypesKnown ==
  ASSUME InvalidationInv
  PROVE  /\ MaxSamples \in Nat /\ MaxProcs \in Nat /\ MaxTime \in Nat /\ now \in 0 .. MaxTime
         /\ origin \in [Samples -> Processes \cup {None}]
         /\ alive \subseteq Samples /\ live \subseteq Processes
         /\ None \notin Processes /\ None \notin Samples
         /\ \A p \in Processes : stamp[p] \in 0 .. now /\ stamp[p] \in Times
         /\ \A s \in Samples : origin[s] # None =>
              origin[s] \in Processes /\ parent[origin[s]] \in Samples /\ parent[origin[s]] < s
<1>1. MaxSamples \in Nat /\ MaxProcs \in Nat /\ MaxTime \in Nat
  BY InvalidationAssumption
<1>2. now \in 0 .. MaxTime /\ born \in 0 .. MaxSamples /\ made \in 0 .. MaxProcs
  BY DEF InvalidationInv, RecordTypes
<1>3. alive \subseteq Samples /\ live \subseteq Processes
  BY <1>1, <1>2 DEF InvalidationInv, RecordTypes, Samples, Processes
<1>4. None \notin Processes /\ None \notin Samples
  BY DEF None, Processes, Samples
<1>5. origin \in [Samples -> Processes \cup {None}] /\ stamp \in [Processes -> Times]
  BY DEF InvalidationInv, RecordTypes
<1>6. ASSUME NEW p \in Processes
      PROVE  stamp[p] \in 0 .. now /\ stamp[p] \in Times
  <2>1. stamp[p] \in Times /\ stamp[p] <= now
    BY <1>5 DEF InvalidationInv
  <2> QED
    BY <1>1, <1>2, <2>1 DEF Times
<1>7. ASSUME NEW s \in Samples, origin[s] # None
      PROVE  origin[s] \in Processes /\ parent[origin[s]] \in Samples /\ parent[origin[s]] < s
  BY <1>3, <1>7 DEF InvalidationInv, PiecesHaveParents
<1> QED
  BY <1>1, <1>2, <1>3, <1>4, <1>5, <1>6, <1>7

(* Each walk and each data sheet is what its definition says.              *)
LEMMA AncestryIs ==
  ASSUME InvalidationInv
  PROVE  /\ \A s \in Samples : Ancestry[s] =
              {s} \cup IF origin[s] = None THEN {} ELSE Ancestry[parent[origin[s]]]
         /\ Ancestry \in [Samples -> SUBSET Samples]
<1> DEFINE V == SUBSET Samples
           Body(f, s) == {s} \cup IF origin[s] = None THEN {} ELSE f[parent[origin[s]]]
           H == [s \in Samples |-> [f \in [Samples -> V] |-> Body(f, s)]]
           rank == [s \in Samples |-> s]
           P(f) == f = [s \in Samples |-> Body(f, s)]
<1>1. V # {} /\ MaxSamples \in Nat /\ rank \in [Samples -> 0 .. MaxSamples]
  BY TypesKnown DEF Samples
<1>2. H \in [Samples -> [[Samples -> V] -> V]]
  <2>1. ASSUME NEW s \in Samples, NEW f \in [Samples -> V]
        PROVE  Body(f, s) \in V
    BY TypesKnown
  <2> QED
    BY <2>1
<1>3. \A s \in Samples : \A f \in [Samples -> V], g \in [Samples -> V] :
        (\A y \in Samples : rank[y] < rank[s] => f[y] = g[y]) => H[s][f] = H[s][g]
  <2> SUFFICES ASSUME NEW s \in Samples, NEW f \in [Samples -> V], NEW g \in [Samples -> V],
                      \A y \in Samples : rank[y] < rank[s] => f[y] = g[y]
               PROVE  H[s][f] = H[s][g]
    OBVIOUS
  <2>1. Body(f, s) = Body(g, s)
    BY TypesKnown
  <2> HIDE DEF Body
  <2> QED
    BY <2>1
<1>4. \E f \in [Samples -> V] : \A s \in Samples : f[s] = H[s][f]
  <2>1. LooksDown(Samples, V, MaxSamples, rank, H)
    BY <1>1, <1>2, <1>3 DEF LooksDown
  <2> HIDE DEF V, H, rank
  <2> QED
    BY <2>1, RecursionWorks
<1>5. \E f : P(f)
  <2> HIDE DEF Body
  <2> QED
    BY <1>4
<1>6. Ancestry = CHOOSE h : P(h)
  BY DEF Ancestry
<1>7. P(Ancestry)
  <2> HIDE DEF P
  <2> QED
    BY <1>5, <1>6
<1>8. \A s \in Samples : Ancestry[s] = Body(Ancestry, s)
  <2> HIDE DEF Body
  <2> QED
    BY <1>7
<1>9. Samples \subseteq {s \in Samples : Ancestry[s] \subseteq Samples}
  <2> DEFINE T == {s \in Samples : Ancestry[s] \subseteq Samples}
  <2>1. ASSUME NEW s \in Samples, \A x \in Samples : x < s => x \in T
        PROVE  s \in T
    BY <1>8, <2>1, TypesKnown
  <2>2. Samples \in SUBSET Nat
    BY DEF Samples
  <2>3. Samples \subseteq T
    <3> HIDE DEF T
    <3> QED
      BY <2>1, <2>2, Ascent
  <2> QED
    BY <2>3
<1> QED
  BY <1>7, <1>8, <1>9

LEMMA ShownIs ==
  ASSUME InvalidationInv
  PROVE  \A s \in Samples : Shown[s] = [cutoff \in Times |->
           {[sample |-> s, process |-> p, context |-> Context(p)] : p \in Listed(s, cutoff)} \cup
           IF origin[s] = None THEN {} ELSE Shown[parent[origin[s]]][stamp[origin[s]]]]
<1> DEFINE U == {[sample |-> s, process |-> p, context |-> Context(p)] : s \in Samples, p \in Processes}
           V == [Times -> SUBSET U]
           Body(f, s) == [cutoff \in Times |->
             {[sample |-> s, process |-> p, context |-> Context(p)] : p \in Listed(s, cutoff)} \cup
             IF origin[s] = None THEN {} ELSE f[parent[origin[s]]][stamp[origin[s]]]]
           H == [s \in Samples |-> [f \in [Samples -> V] |-> Body(f, s)]]
           rank == [s \in Samples |-> s]
           P(f) == f = [s \in Samples |-> Body(f, s)]
<1>1. V # {} /\ MaxSamples \in Nat /\ rank \in [Samples -> 0 .. MaxSamples]
  <2> DEFINE zero == [t \in Times |-> {}]
  <2>1. zero \in V
    OBVIOUS
  <2>2. V # {}
    <3> HIDE DEF V, zero
    <3> QED
      BY <2>1
  <2> HIDE DEF V
  <2> QED
    BY <2>2, TypesKnown DEF Samples
<1>2. H \in [Samples -> [[Samples -> V] -> V]]
  <2>1. ASSUME NEW s \in Samples, NEW f \in [Samples -> V]
        PROVE  Body(f, s) \in V
    <3>1. ASSUME NEW c \in Times
          PROVE  {[sample |-> s, process |-> p, context |-> Context(p)] : p \in Listed(s, c)} \subseteq U
      BY TypesKnown DEF Listed
    <3>2. origin[s] # None => f[parent[origin[s]]][stamp[origin[s]]] \subseteq U
      BY TypesKnown
    <3> HIDE DEF U
    <3> QED
      BY <3>1, <3>2
  <2> HIDE DEF Body, V
  <2> QED
    BY <2>1
<1>3. \A s \in Samples : \A f \in [Samples -> V], g \in [Samples -> V] :
        (\A y \in Samples : rank[y] < rank[s] => f[y] = g[y]) => H[s][f] = H[s][g]
  <2>1. ASSUME NEW s \in Samples, NEW f \in [Samples -> V], NEW g \in [Samples -> V],
               \A y \in Samples : rank[y] < rank[s] => f[y] = g[y]
        PROVE  Body(f, s) = Body(g, s)
    <3> DEFINE B(c) == {[sample |-> s, process |-> p, context |-> Context(p)] : p \in Listed(s, c)} \cup
                         IF origin[s] = None THEN {} ELSE f[parent[origin[s]]][stamp[origin[s]]]
               C(c) == {[sample |-> s, process |-> p, context |-> Context(p)] : p \in Listed(s, c)} \cup
                         IF origin[s] = None THEN {} ELSE g[parent[origin[s]]][stamp[origin[s]]]
    <3>1. \A c \in Times : B(c) = C(c)
      BY <2>1, TypesKnown
    <3> QED
      BY <3>1
  <2> HIDE DEF Body, V, rank
  <2> QED
    BY <2>1
<1>4. \E f \in [Samples -> V] : \A s \in Samples : f[s] = H[s][f]
  <2> HIDE DEF V, H, rank
  <2>1. LooksDown(Samples, V, MaxSamples, rank, H)
    BY <1>1, <1>2, <1>3 DEF LooksDown
  <2> QED
    BY <2>1, RecursionWorks
<1>5. \E f : P(f)
  <2> HIDE DEF Body
  <2> QED
    BY <1>4
<1>6. Shown = CHOOSE f : P(f)
  BY DEF Shown
<1>7. P(Shown)
  <2> HIDE DEF P
  <2> QED
    BY <1>5, <1>6
<1> QED
  BY <1>7

(* Sample.save on its way down: which cached items it deletes.             *)
LEMMA SaveDownIs ==
  ASSUME InvalidationInv
  PROVE  \A s \in Samples, from \in Processes \cup {None} :
           /\ Sample(s) \in SaveDown[s][from]
           /\ \A p \in SplitsToFollow(s, from) :
                /\ Process(p) \in SaveDown[s][from]
                /\ \A c \in Pieces(p) : SaveDown[c][p] \subseteq SaveDown[s][from]
           /\ SaveDown[s][from] \subseteq Things
<1> DEFINE V == [Processes \cup {None} -> SUBSET Things]
           Body(f, s) == [from \in Processes \cup {None} |->
             {Sample(s)} \cup UNION {{Process(p)} \cup UNION {f[c][p] : c \in Pieces(p)} :
                                       p \in SplitsToFollow(s, from)}]
           H == [s \in Samples |-> [f \in [Samples -> V] |-> Body(f, s)]]
           rank == [s \in Samples |-> MaxSamples - s]
           P(f) == f = [s \in Samples |-> Body(f, s)]
<1>1. V # {} /\ MaxSamples \in Nat /\ rank \in [Samples -> 0 .. MaxSamples]
  <2> DEFINE zero == [p \in Processes \cup {None} |-> {}]
  <2>1. zero \in V
    OBVIOUS
  <2>2. V # {}
    <3> HIDE DEF V, zero
    <3> QED
      BY <2>1
  <2> HIDE DEF V
  <2> QED
    BY <2>2, TypesKnown DEF Samples
<1>2. H \in [Samples -> [[Samples -> V] -> V]]
  <2>1. ASSUME NEW s \in Samples, NEW f \in [Samples -> V]
        PROVE  Body(f, s) \in V
    <3>1. ASSUME NEW from \in Processes \cup {None}
          PROVE  {Sample(s)} \cup UNION {{Process(p)} \cup UNION {f[c][p] : c \in Pieces(p)} :
                                       p \in SplitsToFollow(s, from)} \subseteq Things
      <4>1. ASSUME NEW p \in SplitsToFollow(s, from)
            PROVE  {Process(p)} \cup UNION {f[c][p] : c \in Pieces(p)} \subseteq Things
        <5>1. p \in Processes /\ Pieces(p) \subseteq Samples
          BY TypesKnown DEF SplitsToFollow, SplitsOf, Pieces
        <5>2. \A c \in Pieces(p) : f[c][p] \subseteq Things
          BY <5>1
        <5> QED
          BY <5>1, <5>2 DEF Things
      <4>2. Sample(s) \in Things
        BY DEF Things
      <4> QED
        BY <4>1, <4>2
    <3> QED
      BY <3>1
  <2> HIDE DEF Body, V
  <2> QED
    BY <2>1
<1>3. \A s \in Samples : \A f \in [Samples -> V], g \in [Samples -> V] :
        (\A y \in Samples : rank[y] < rank[s] => f[y] = g[y]) => H[s][f] = H[s][g]
  <2>1. ASSUME NEW s \in Samples, NEW f \in [Samples -> V], NEW g \in [Samples -> V],
               \A y \in Samples : rank[y] < rank[s] => f[y] = g[y]
        PROVE  Body(f, s) = Body(g, s)
    <3> DEFINE B(p) == {Process(p)} \cup UNION {f[c][p] : c \in Pieces(p)}
               C(p) == {Process(p)} \cup UNION {g[c][p] : c \in Pieces(p)}
    <3>1. ASSUME NEW p \in SplitsOf(s)
          PROVE  B(p) = C(p)
      <4>1. ASSUME NEW c \in Pieces(p)
            PROVE  f[c] = g[c]
        <5>1. c \in Samples /\ origin[c] = p /\ p # None /\ parent[p] = s
          BY TypesKnown DEF Pieces, SplitsOf
        <5>2. rank[c] < rank[s]
          <6>1. c \in Nat /\ s \in Nat /\ s < c
            BY <5>1, TypesKnown DEF Samples
          <6>2. rank[c] = MaxSamples - c /\ rank[s] = MaxSamples - s
            BY <5>1
          <6> HIDE DEF rank, V, Body, H, P
          <6> QED
            BY <6>1, <6>2, TypesKnown
        <5> QED
          BY <2>1, <5>1, <5>2
      <4> QED
        BY <4>1
    <3>2. ASSUME NEW from \in Processes \cup {None}
          PROVE  {B(p) : p \in SplitsToFollow(s, from)} = {C(p) : p \in SplitsToFollow(s, from)}
      <4>1. \A p \in SplitsToFollow(s, from) : B(p) = C(p)
        BY <3>1 DEF SplitsToFollow
      <4> HIDE DEF B, C
      <4> QED
        BY <4>1
    <3> QED
      BY <3>2
  <2> HIDE DEF Body, V, rank
  <2> QED
    BY <2>1
<1>4. \E f \in [Samples -> V] : \A s \in Samples : f[s] = H[s][f]
  <2> HIDE DEF V, H, rank
  <2>1. LooksDown(Samples, V, MaxSamples, rank, H)
    BY <1>1, <1>2, <1>3 DEF LooksDown
  <2> QED
    BY <2>1, RecursionWorks
<1>5. \E f : P(f)
  <2> HIDE DEF Body
  <2> QED
    BY <1>4
<1>6. SaveDown = CHOOSE f : P(f)
  BY DEF SaveDown
<1>7. P(SaveDown)
  <2> HIDE DEF P
  <2> QED
    BY <1>5, <1>6
<1>8. ASSUME NEW s \in Samples, NEW from \in Processes \cup {None}
      PROVE  SaveDown[s][from] =
               {Sample(s)} \cup UNION {{Process(p)} \cup UNION {SaveDown[c][p] : c \in Pieces(p)} :
                                         p \in SplitsToFollow(s, from)}
  <2>1. SaveDown[s] = Body(SaveDown, s)
    <3> HIDE DEF Body
    <3> QED
      BY <1>7
  <2> HIDE DEF P
  <2> QED
    BY <2>1
<1>9. ASSUME NEW s \in Samples, NEW from \in Processes \cup {None},
             NEW p \in SplitsToFollow(s, from)
      PROVE  {Process(p)} \cup UNION {SaveDown[c][p] : c \in Pieces(p)} \subseteq SaveDown[s][from]
  BY <1>8
<1>10. \A s \in Samples, from \in Processes \cup {None} : SaveDown[s][from] \subseteq Things
  <2> DEFINE T == {n \in 0 .. MaxSamples : \A s \in Samples, from \in Processes \cup {None} :
                     s = MaxSamples - n => SaveDown[s][from] \subseteq Things}
             I == 0 .. MaxSamples
  <2>1. ASSUME NEW n \in I, \A x \in I : x < n => x \in T
        PROVE  n \in T
    <3> SUFFICES ASSUME NEW s \in Samples, NEW from \in Processes \cup {None}, s = MaxSamples - n
                 PROVE  SaveDown[s][from] \subseteq Things
      OBVIOUS
    <3>1. ASSUME NEW p \in SplitsToFollow(s, from)
          PROVE  {Process(p)} \cup UNION {SaveDown[c][p] : c \in Pieces(p)} \subseteq Things
      <4>1. p \in Processes /\ p \in SplitsOf(s)
        BY <3>1, TypesKnown DEF SplitsToFollow, SplitsOf
      <4>2. ASSUME NEW c \in Pieces(p)
            PROVE  SaveDown[c][p] \subseteq Things
        <5>1. c \in Samples /\ origin[c] = p /\ p # None /\ parent[p] = s
          BY <4>1, TypesKnown DEF Pieces, SplitsOf
        <5>2. MaxSamples - c \in I /\ MaxSamples - c < n /\ c = MaxSamples - (MaxSamples - c)
          BY <5>1, TypesKnown DEF Samples
        <5>3. MaxSamples - c \in T
          BY <2>1, <5>2
        <5> QED
          BY <4>1, <5>1, <5>2, <5>3
      <4> QED
        BY <4>1, <4>2 DEF Things
    <3>2. Sample(s) \in Things
      BY DEF Things
    <3> QED
      BY <1>8, <3>1, <3>2
  <2>2. I \in SUBSET Nat
    OBVIOUS
  <2>3. I \subseteq T
    <3> HIDE DEF T, I
    <3> QED
      BY <2>1, <2>2, Ascent
  <2>4. ASSUME NEW s \in Samples
        PROVE  MaxSamples - s \in I /\ s = MaxSamples - (MaxSamples - s)
    BY TypesKnown DEF Samples
  <2> QED
    BY <2>3, <2>4
<1> QED
  BY <1>8, <1>9, <1>10

(* Sample.save called from outside. *)
LEMMA SaveSampleIs ==
  ASSUME InvalidationInv
  PROVE  \A s \in Samples :
           /\ SaveDown[s][None] \subseteq SaveSample[s]
           /\ origin[s] # None => /\ Process(origin[s]) \in SaveSample[s]
                                  /\ SaveSample[parent[origin[s]]] \subseteq SaveSample[s]
           /\ SaveSample[s] \subseteq Things
<1> DEFINE V == SUBSET Things
           Body(f, s) == SaveDown[s][None] \cup
             IF origin[s] = None THEN {} ELSE {Process(origin[s])} \cup f[parent[origin[s]]]
           H == [s \in Samples |-> [f \in [Samples -> V] |-> Body(f, s)]]
           rank == [s \in Samples |-> s]
           P(f) == f = [s \in Samples |-> Body(f, s)]
<1>1. V # {} /\ MaxSamples \in Nat /\ rank \in [Samples -> 0 .. MaxSamples]
  BY TypesKnown DEF Samples
<1>2. H \in [Samples -> [[Samples -> V] -> V]]
  <2>1. ASSUME NEW s \in Samples, NEW f \in [Samples -> V]
        PROVE  Body(f, s) \in V
    <3>1. SaveDown[s][None] \subseteq Things
      BY SaveDownIs
    <3>2. origin[s] # None => Process(origin[s]) \in Things /\ f[parent[origin[s]]] \subseteq Things
      BY TypesKnown DEF Things
    <3> QED
      BY <3>1, <3>2
  <2> HIDE DEF Body, V
  <2> QED
    BY <2>1
<1>3. \A s \in Samples : \A f \in [Samples -> V], g \in [Samples -> V] :
        (\A y \in Samples : rank[y] < rank[s] => f[y] = g[y]) => H[s][f] = H[s][g]
  <2>1. ASSUME NEW s \in Samples, NEW f \in [Samples -> V], NEW g \in [Samples -> V],
               \A y \in Samples : rank[y] < rank[s] => f[y] = g[y]
        PROVE  Body(f, s) = Body(g, s)
    BY <2>1, TypesKnown
  <2> HIDE DEF Body, V, rank
  <2> QED
    BY <2>1
<1>4. \E f \in [Samples -> V] : \A s \in Samples : f[s] = H[s][f]
  <2> HIDE DEF V, H, rank
  <2>1. LooksDown(Samples, V, MaxSamples, rank, H)
    BY <1>1, <1>2, <1>3 DEF LooksDown
  <2> QED
    BY <2>1, RecursionWorks
<1>5. \E f : P(f)
  <2> HIDE DEF Body
  <2> QED
    BY <1>4
<1>6. SaveSample = CHOOSE f : P(f)
  BY DEF SaveSample
<1>7. P(SaveSample)
  <2> HIDE DEF P
  <2> QED
    BY <1>5, <1>6
<1>8. ASSUME NEW s \in Samples
      PROVE  SaveSample[s] = SaveDown[s][None] \cup
               IF origin[s] = None THEN {} ELSE {Process(origin[s])} \cup SaveSample[parent[origin[s]]]
  BY <1>7
<1>9. Samples \subseteq {s \in Samples : SaveSample[s] \subseteq Things}
  <2> DEFINE T == {s \in Samples : SaveSample[s] \subseteq Things}
  <2>1. ASSUME NEW s \in Samples, \A x \in Samples : x < s => x \in T
        PROVE  s \in T
    <3>1. SaveDown[s][None] \subseteq Things
      BY SaveDownIs
    <3>2. origin[s] # None => Process(origin[s]) \in Things /\ SaveSample[parent[origin[s]]] \subseteq Things
      BY <2>1, TypesKnown DEF Things
    <3> QED
      BY <1>8, <3>1, <3>2
  <2>2. Samples \in SUBSET Nat
    BY DEF Samples
  <2>3. Samples \subseteq T
    <3> HIDE DEF T
    <3> QED
      BY <2>1, <2>2, Ascent
  <2> QED
    BY <2>3
<1> QED
  BY <1>8, <1>9

-----------------------------------------------------------------------------
(* Up and down the lineage.                                                *)

(* The ancestors of the ancestors are ancestors, and all are still there.  *)
LEMMA AncestorsAre ==
  ASSUME InvalidationInv
  PROVE  \A s \in Samples :
           /\ s \in Ancestry[s]
           /\ \A x \in Ancestry[s] :
                /\ x \in Samples
                /\ s \in alive => x \in alive
                /\ origin[x] # None => parent[origin[x]] \in Ancestry[s]
<1> DEFINE T == {s \in Samples : \A x \in Ancestry[s] :
                   /\ s \in alive => x \in alive
                   /\ origin[x] # None => parent[origin[x]] \in Ancestry[s]}
<1>1. ASSUME NEW s \in Samples, \A x \in Samples : x < s => x \in T
      PROVE  s \in T
  <2>1. CASE origin[s] = None
    BY <2>1, AncestryIs
  <2>2. CASE origin[s] # None
    <3> DEFINE u == parent[origin[s]]
    <3>1. u \in T /\ u \in alive /\ u \in Samples /\ Ancestry[s] = {s} \cup Ancestry[u]
      BY <1>1, <2>2, AncestryIs, TypesKnown DEF InvalidationInv, PiecesHaveParents
    <3>2. u \in Ancestry[u]
      BY <3>1, AncestryIs
    <3> QED
      BY <3>1, <3>2
  <2> QED
    BY <2>1, <2>2
<1>2. Samples \in SUBSET Nat
  BY DEF Samples
<1>3. Samples \subseteq T
  <2> HIDE DEF T
  <2> QED
    BY <1>1, <1>2, Ascent
<1> QED
  BY <1>3, AncestryIs

(* From each ancestor, Sample.save finds its way down to the sample if     *)
(* every split on the way is later than the one before it: it comes down   *)
(* from the parent just as it would have started there.                    *)
LEMMA DescendantsReached ==
  InvalidationInv =>
    \A s \in Samples : Orderly(s) => \A x \in Ancestry[s] : Sample(s) \in SaveSample[x]
<1> SUFFICES ASSUME InvalidationInv
             PROVE  \A s \in Samples : Orderly(s) => \A x \in Ancestry[s] : Sample(s) \in SaveSample[x]
  OBVIOUS
<1> DEFINE T == {s \in Samples : Orderly(s) => \A x \in Ancestry[s] : x # s =>
                   /\ origin[s] # None
                   /\ SaveDown[s][origin[s]] \subseteq SaveDown[x][None]}
<1>1. ASSUME NEW s \in Samples, \A x \in Samples : x < s => x \in T
      PROVE  s \in T
  <2> SUFFICES ASSUME Orderly(s), NEW x \in Ancestry[s], x # s
               PROVE  /\ origin[s] # None
                      /\ SaveDown[s][origin[s]] \subseteq SaveDown[x][None]
    OBVIOUS
  <2>1. origin[s] # None
    BY AncestryIs
  <2> DEFINE u == parent[origin[s]]
  <2>2. u \in Samples /\ u < s /\ x \in Ancestry[u] /\ Ancestry[u] \subseteq Ancestry[s]
    BY <2>1, AncestryIs, TypesKnown
  <2>3. /\ origin[s] \in SplitsOf(u) /\ s \in Pieces(origin[s])
        /\ origin[s] \in Processes
    BY <2>1, TypesKnown DEF InvalidationInv, PiecesHaveParents, SplitsOf, Pieces
  <2>4. CASE x = u
    <3>1. origin[s] \in SplitsToFollow(u, None)
      BY <2>3 DEF SplitsToFollow
    <3> QED
      BY <2>1, <2>2, <2>3, <2>4, <3>1, SaveDownIs
  <2>5. CASE x # u
    <3>1. Orderly(u)
      BY <2>2 DEF Orderly
    <3>2. origin[u] # None /\ SaveDown[u][origin[u]] \subseteq SaveDown[x][None]
      BY <1>1, <2>2, <2>5, <3>1
    <3>3. stamp[origin[s]] > stamp[origin[u]]
      BY <2>1, <3>2, AncestorsAre DEF Orderly
    <3>4. origin[s] \in SplitsToFollow(u, origin[u]) /\ origin[u] \in Processes
      BY <2>2, <2>3, <3>2, <3>3, TypesKnown DEF SplitsToFollow
    <3>5. SaveDown[s][origin[s]] \subseteq SaveDown[u][origin[u]]
      BY <2>2, <2>3, <3>4, SaveDownIs
    <3> QED
      BY <2>1, <3>2, <3>5
  <2> QED
    BY <2>4, <2>5
<1>2. Samples \in SUBSET Nat
  BY DEF Samples
<1>3. Samples \subseteq T
  <2> HIDE DEF T
  <2> QED
    BY <1>1, <1>2, Ascent
<1>4. ASSUME NEW s \in Samples, Orderly(s), NEW x \in Ancestry[s]
      PROVE  Sample(s) \in SaveSample[x]
  <2>1. x \in Samples /\ SaveDown[x][None] \subseteq SaveSample[x]
    BY AncestorsAre, SaveSampleIs
  <2>2. CASE x = s
    BY <2>1, <2>2, SaveDownIs
  <2>3. CASE x # s
    <3>1. origin[s] # None /\ SaveDown[s][origin[s]] \subseteq SaveDown[x][None]
      BY <1>3, <1>4, <2>3
    <3>2. Sample(s) \in SaveDown[s][origin[s]]
      BY <3>1, SaveDownIs, TypesKnown
    <3> QED
      BY <2>1, <3>1, <3>2
  <2> QED
    BY <2>2, <2>3
<1> QED
  BY <1>4

(* Saving a piece saves its parent and everything that saves.              *)
LEMMA ParentsSaved ==
  InvalidationInv =>
    \A s \in Samples :
      /\ Sample(s) \in SaveSample[s]
      /\ \A p \in SplitsOf(s) : Process(p) \in SaveSample[s]
      /\ origin[s] # None => /\ Process(origin[s]) \in SaveSample[s]
                             /\ SaveSample[parent[origin[s]]] \subseteq SaveSample[s]
      /\ SaveSample[s] \subseteq Things
<1> SUFFICES ASSUME InvalidationInv, NEW s \in Samples
             PROVE  /\ Sample(s) \in SaveSample[s]
                    /\ \A p \in SplitsOf(s) : Process(p) \in SaveSample[s]
  BY SaveSampleIs
<1>1. SaveDown[s][None] \subseteq SaveSample[s] /\ Sample(s) \in SaveDown[s][None]
  BY SaveSampleIs, SaveDownIs
<1>2. \A p \in SplitsOf(s) : Process(p) \in SaveDown[s][None]
  BY SaveDownIs DEF SplitsToFollow
<1> QED
  BY <1>1, <1>2

(* The same after the request, for those that save the new lineage.        *)
LEMMA DescendantsReachedThen ==
  InvalidationInv' =>
    (\A s \in Samples : Orderly(s) => \A x \in Ancestry[s] : Sample(s) \in SaveSample[x])'
BY DescendantsReached, PTL

LEMMA ParentsSavedThen ==
  InvalidationInv' =>
    (\A s \in Samples :
      /\ Sample(s) \in SaveSample[s]
      /\ \A p \in SplitsOf(s) : Process(p) \in SaveSample[s]
      /\ origin[s] # None => /\ Process(origin[s]) \in SaveSample[s]
                             /\ SaveSample[parent[origin[s]]] \subseteq SaveSample[s]
      /\ SaveSample[s] \subseteq Things)'
BY ParentsSaved, PTL

-----------------------------------------------------------------------------
(* Every request keeps the invariant.                                      *)

LEMMA InitOK == Init => InvalidationInv
<1> SUFFICES ASSUME Init
             PROVE  InvalidationInv
  OBVIOUS
<1>1. RecordTypes
  BY InvalidationAssumption DEF Init, RecordTypes, Samples, Processes, None, Times, Data
<1> QED
  BY <1>1 DEF Init, InvalidationInv, PiecesHaveParents, SplitsHaveTheirParent, Samples

(* What a new process leaves alone, and that it is new.                    *)
LEMMA NewProcessIs ==
  ASSUME InvalidationInv, NEW k \in {"physical", "split", "result"}, NEW t \in 0 .. now + 1,
         NEW ss \in SUBSET alive', NEW s \in Samples \cup {None},
         Tick, alive \subseteq alive', NewProcess(k, t, ss, s)
  PROVE  /\ made' \in Processes /\ made' \in 0 .. MaxProcs /\ made' \notin live
         /\ live' = live \cup {made'} /\ live' \subseteq 1 .. made'
         /\ kind' \in [Processes -> {"physical", "split", "result"}]
         /\ parent' \in [Processes -> Samples \cup {None}]
         /\ stamp' \in [Processes -> Times] /\ values' = values
         /\ members' \in [Processes -> SUBSET alive']
         /\ kind'[made'] = k /\ parent'[made'] = s /\ members'[made'] = ss /\ stamp'[made'] = t
         /\ \A p \in Processes : stamp'[p] <= now'
         /\ \A p \in Processes : p # made' =>
              /\ kind'[p] = kind[p] /\ parent'[p] = parent[p]
              /\ stamp'[p] = stamp[p] /\ members'[p] = members[p]
<1> USE DEF NewProcess
<1>1. made \in 0 .. MaxProcs /\ live \subseteq 1 .. made /\ MaxProcs \in Nat
  BY InvalidationAssumption DEF InvalidationInv, RecordTypes
<1>2. made' \in Processes /\ made' \in 0 .. MaxProcs /\ made' \notin live /\ live' \subseteq 1 .. made'
  BY <1>1 DEF Processes
<1>3. now \in 0 .. MaxTime /\ now' = now + 1 /\ now < MaxTime /\ MaxTime \in Nat
  BY InvalidationAssumption DEF InvalidationInv, RecordTypes, Tick
<1>4. t \in Times
  BY <1>3 DEF Times
<1>5. /\ kind \in [Processes -> {"physical", "split", "result"}]
      /\ parent \in [Processes -> Samples \cup {None}]
      /\ stamp \in [Processes -> Times]
      /\ members \in [Processes -> SUBSET alive]
  BY DEF InvalidationInv, RecordTypes
<1>6. members \in [Processes -> SUBSET alive']
  BY <1>5
<1>7. /\ kind' \in [Processes -> {"physical", "split", "result"}]
      /\ parent' \in [Processes -> Samples \cup {None}]
      /\ stamp' \in [Processes -> Times]
  BY <1>4, <1>5
<1>8. members' \in [Processes -> SUBSET alive']
  BY <1>6
<1>9. /\ kind'[made'] = k /\ parent'[made'] = s /\ members'[made'] = ss /\ stamp'[made'] = t
      /\ \A p \in Processes : p # made' =>
           /\ kind'[p] = kind[p] /\ parent'[p] = parent[p]
           /\ stamp'[p] = stamp[p] /\ members'[p] = members[p]
  BY <1>2, <1>5
<1>10. \A p \in Processes : stamp'[p] <= now'
  <2>1. \A p \in Processes : stamp[p] \in 0 .. now
    BY TypesKnown
  <2> QED
    BY <1>3, <1>9, <2>1
<1> QED
  BY <1>2, <1>7, <1>8, <1>9, <1>10

(* The invariant after a request that leaves the lineage alone, but for    *)
(* times, members and new processes other than splits.                     *)
LEMMA SameLineage ==
  ASSUME InvalidationInv, RecordTypes', alive' = alive, origin' = origin,
         \A p \in live : kind[p] = "split" =>
           p \in live' /\ kind'[p] = "split" /\ parent'[p] = parent[p] /\ members'[p] = members[p],
         \A p \in live' : kind'[p] = "split" => p \in live /\ kind[p] = "split",
         \A p \in Processes \ live' : members'[p] = {},
         \A p \in Processes : stamp'[p] <= now'
  PROVE  InvalidationInv'
<1>1. PiecesHaveParents'
  <2> SUFFICES ASSUME NEW s \in Samples, origin[s] # None
               PROVE  /\ s \in alive
                      /\ origin[s] \in live' /\ kind'[origin[s]] = "split"
                      /\ parent'[origin[s]] \in alive /\ parent'[origin[s]] < s
    BY DEF PiecesHaveParents
  <2> QED
    BY DEF InvalidationInv, PiecesHaveParents
<1>2. SplitsHaveTheirParent'
  BY DEF InvalidationInv, SplitsHaveTheirParent
<1> QED
  BY <1>1, <1>2 DEF InvalidationInv

(* The numbers of the next sample and of the latest process.               *)
LEMMA NewSampleIs ==
  ASSUME InvalidationInv, born < MaxSamples, born' = born + 1
  PROVE  /\ born' \in Samples /\ born' \in 0 .. MaxSamples /\ born' \notin alive
         /\ \A s \in alive : s < born'
         /\ origin[born'] = None
         /\ alive \cup {born'} \subseteq 1 .. born'
<1>1. born \in 0 .. MaxSamples /\ alive \subseteq 1 .. born /\ MaxSamples \in Nat
  BY InvalidationAssumption DEF InvalidationInv, RecordTypes
<1>2. born' \in Samples /\ born' \in 0 .. MaxSamples /\ born' \notin alive /\ (\A s \in alive : s < born')
  BY <1>1 DEF Samples
<1>3. origin[born'] = None
  BY <1>2 DEF InvalidationInv, PiecesHaveParents
<1> QED
  BY <1>1, <1>2, <1>3

LEMMA TickIs ==
  ASSUME InvalidationInv, Tick
  PROVE  now \in Nat /\ now' = now + 1 /\ now' \in 0 .. MaxTime /\ MaxTime \in Nat
BY InvalidationAssumption DEF InvalidationInv, RecordTypes, Tick

LEMMA AddSampleOK ==
  ASSUME InvalidationInv, AddSample
  PROVE  InvalidationInv'
<1> USE DEF AddSample
<1>1. now' \in 0 .. MaxTime /\ now' = now + 1 /\ now \in Nat /\ MaxTime \in Nat
  BY TickIs
<1>2. born' \in 0 .. MaxSamples /\ alive' \subseteq 1 .. born' /\ alive \subseteq alive'
  BY NewSampleIs
<1>3. members' \in [Processes -> SUBSET alive'] /\ series' \subseteq alive'
  BY <1>2 DEF InvalidationInv, RecordTypes, processVars, seriesVars
<1>4. RecordTypes'
  BY <1>1, <1>2, <1>3 DEF InvalidationInv, RecordTypes, processVars, seriesVars
<1>5. \A p \in Processes : stamp'[p] <= now'
  BY <1>1, TypesKnown DEF processVars
<1>6. PiecesHaveParents'
  <2> SUFFICES ASSUME NEW s \in Samples, origin[s] # None
               PROVE  /\ s \in alive'
                      /\ origin[s] \in live /\ kind[origin[s]] = "split"
                      /\ parent[origin[s]] \in alive' /\ parent[origin[s]] < s
    BY DEF PiecesHaveParents, processVars
  <2> QED
    BY <1>2 DEF InvalidationInv, PiecesHaveParents
<1> QED
  BY <1>4, <1>5, <1>6 DEF InvalidationInv, SplitsHaveTheirParent, processVars

LEMMA EditSampleOK ==
  ASSUME InvalidationInv, NEW s \in Samples, EditSample(s)
  PROVE  InvalidationInv'
<1> USE DEF EditSample
<1>1. now' \in 0 .. MaxTime /\ now' = now + 1 /\ now \in Nat
  BY TickIs
<1>2. data' \in [Samples -> Data]
  BY DEF InvalidationInv, RecordTypes, Data
<1>3. RecordTypes'
  BY <1>1, <1>2 DEF InvalidationInv, RecordTypes, processVars, seriesVars
<1>4. \A p \in Processes : stamp'[p] <= now'
  BY <1>1, TypesKnown DEF processVars
<1> QED
  BY <1>3, <1>4 DEF InvalidationInv, PiecesHaveParents, SplitsHaveTheirParent, processVars

LEMMA AddPhysicalOK ==
  ASSUME InvalidationInv, NEW ss \in SUBSET alive, NEW t \in 0 .. now, AddPhysical(ss, t)
  PROVE  InvalidationInv'
<1> USE DEF AddPhysical
<1>1. now' \in 0 .. MaxTime /\ now' = now + 1 /\ now \in Nat
  BY TickIs
<1> DEFINE New == NewProcess("physical", t, ss, None)
<1>2. /\ made' \in Processes /\ made' \in 0 .. MaxProcs /\ made' \notin live
      /\ live' = live \cup {made'} /\ live' \subseteq 1 .. made'
      /\ kind' \in [Processes -> {"physical", "split", "result"}]
      /\ parent' \in [Processes -> Samples \cup {None}]
      /\ stamp' \in [Processes -> Times] /\ values' = values
      /\ members' \in [Processes -> SUBSET alive']
      /\ kind'[made'] = "physical"
      /\ \A p \in Processes : stamp'[p] <= now'
      /\ \A p \in Processes : p # made' =>
           /\ kind'[p] = kind[p] /\ parent'[p] = parent[p]
           /\ stamp'[p] = stamp[p] /\ members'[p] = members[p]
  <2>1. t \in 0 .. now + 1 /\ alive' = alive /\ New /\ Tick
    BY <1>1 DEF sampleVars
  <2> QED
    BY <2>1, NewProcessIs
<1>3. results' \subseteq {p \in live' : kind'[p] = "result"}
  BY <1>2, TypesKnown DEF InvalidationInv, RecordTypes, seriesVars
<1>4. RecordTypes'
  BY <1>1, <1>2, <1>3 DEF InvalidationInv, RecordTypes, sampleVars, seriesVars
<1>5. alive' = alive /\ origin' = origin /\ live \subseteq Processes
  BY TypesKnown DEF sampleVars
<1>6. \A p \in Processes \ live' : members'[p] = {}
  BY <1>2 DEF InvalidationInv, SplitsHaveTheirParent
<1> HIDE DEF AddPhysical
<1> QED
  BY <1>2, <1>4, <1>5, <1>6, SameLineage

LEMMA AddResultOK ==
  ASSUME InvalidationInv, NEW ss \in SUBSET alive, NEW t \in 0 .. now,
         NEW inSeries \in BOOLEAN, AddResult(ss, inSeries, t)
  PROVE  InvalidationInv'
<1> USE DEF AddResult
<1>1. now' \in 0 .. MaxTime /\ now' = now + 1 /\ now \in Nat
  BY TickIs
<1> DEFINE New == NewProcess("result", t, ss, None)
<1>2. /\ made' \in Processes /\ made' \in 0 .. MaxProcs /\ made' \notin live
      /\ live' = live \cup {made'} /\ live' \subseteq 1 .. made'
      /\ kind' \in [Processes -> {"physical", "split", "result"}]
      /\ parent' \in [Processes -> Samples \cup {None}]
      /\ stamp' \in [Processes -> Times] /\ values' = values
      /\ members' \in [Processes -> SUBSET alive']
      /\ kind'[made'] = "result"
      /\ \A p \in Processes : stamp'[p] <= now'
      /\ \A p \in Processes : p # made' =>
           /\ kind'[p] = kind[p] /\ parent'[p] = parent[p]
           /\ stamp'[p] = stamp[p] /\ members'[p] = members[p]
  <2>1. t \in 0 .. now + 1 /\ alive' = alive /\ New /\ Tick
    BY <1>1 DEF sampleVars
  <2> QED
    BY <2>1, NewProcessIs
<1>3. results' \subseteq {p \in live' : kind'[p] = "result"}
  <2>1. \A p \in results : p \in live' /\ kind'[p] = "result"
    BY <1>2, TypesKnown DEF InvalidationInv, RecordTypes
  <2> QED
    BY <1>2, <2>1
<1>4. RecordTypes'
  BY <1>1, <1>2, <1>3 DEF InvalidationInv, RecordTypes, sampleVars
<1>5. alive' = alive /\ origin' = origin /\ live \subseteq Processes
  BY TypesKnown DEF sampleVars
<1>6. \A p \in Processes \ live' : members'[p] = {}
  BY <1>2 DEF InvalidationInv, SplitsHaveTheirParent
<1> HIDE DEF AddResult
<1> QED
  BY <1>2, <1>4, <1>5, <1>6, SameLineage

LEMMA EditProcessOK ==
  ASSUME InvalidationInv, NEW ss \in SUBSET alive, NEW t \in 0 .. now,
         NEW p \in Processes, EditProcess(p, ss, t)
  PROVE  InvalidationInv'
<1> USE DEF EditProcess
<1>1. now' \in 0 .. MaxTime /\ now' = now + 1 /\ now \in Nat /\ MaxTime \in Nat
  BY TickIs
<1>2. values' \in [Processes -> Data] /\ members' \in [Processes -> SUBSET alive']
  BY DEF InvalidationInv, RecordTypes, Data, sampleVars
<1>3. t \in Times
  BY <1>1 DEF Times
<1>4. stamp' \in [Processes -> Times] /\ \A q \in Processes : stamp'[q] <= now'
  <2>1. stamp \in [Processes -> Times] /\ \A q \in Processes : stamp[q] <= now /\ stamp[q] \in Nat
    BY TypesKnown DEF InvalidationInv, RecordTypes
  <2> QED
    BY <1>1, <1>3, <2>1
<1>5. RecordTypes'
  BY <1>1, <1>2, <1>4 DEF InvalidationInv, RecordTypes, sampleVars, seriesVars
<1>6. \A q \in Processes : q # p => members'[q] = members[q]
  BY DEF InvalidationInv, RecordTypes
<1>7. \A q \in Processes \ live' : members'[q] = {}
  BY <1>6 DEF InvalidationInv, SplitsHaveTheirParent
<1>8. alive' = alive /\ origin' = origin /\ live' = live /\ kind' = kind /\ parent' = parent
      /\ live \subseteq Processes /\ kind[p] # "split"
  BY TypesKnown DEF sampleVars
<1> HIDE DEF EditProcess
<1> QED
  BY <1>4, <1>5, <1>6, <1>7, <1>8, SameLineage

LEMMA DeleteProcessOK ==
  ASSUME InvalidationInv, NEW p \in Processes, DeleteProcess(p)
  PROVE  InvalidationInv'
<1> USE DEF DeleteProcess
<1>1. now' \in 0 .. MaxTime /\ now' = now + 1 /\ now \in Nat
  BY TickIs
<1>2. members' \in [Processes -> SUBSET alive'] /\ \A q \in Processes : members'[q] = IF q = p THEN {} ELSE members[q]
  BY DEF InvalidationInv, RecordTypes, sampleVars
<1>3. RecordTypes'
  BY <1>1, <1>2 DEF InvalidationInv, RecordTypes, sampleVars
<1>4. \A q \in Processes : stamp'[q] <= now'
  BY <1>1, TypesKnown
<1>5. \A q \in Processes \ live' : members'[q] = {}
  BY <1>2 DEF InvalidationInv, SplitsHaveTheirParent
<1>6. alive' = alive /\ origin' = origin /\ live' = live \ {p} /\ kind' = kind /\ parent' = parent
      /\ live \subseteq Processes /\ kind[p] # "split"
  BY TypesKnown DEF sampleVars
<1> HIDE DEF DeleteProcess
<1> QED
  BY <1>2, <1>3, <1>4, <1>5, <1>6, SameLineage

LEMMA EditSeriesOK ==
  ASSUME InvalidationInv, NEW ss \in SUBSET alive, EditSeries(ss)
  PROVE  InvalidationInv'
<1> USE DEF EditSeries
<1>1. now' \in 0 .. MaxTime /\ now' = now + 1 /\ now \in Nat
  BY TickIs
<1>2. RecordTypes'
  BY <1>1 DEF InvalidationInv, RecordTypes, sampleVars, processVars
<1>3. \A p \in Processes : stamp'[p] <= now'
  BY <1>1, TypesKnown DEF processVars
<1> QED
  BY <1>2, <1>3 DEF InvalidationInv, PiecesHaveParents, SplitsHaveTheirParent, sampleVars, processVars

(* A piece is new, and the rest of the lineage stays as it is.             *)
LEMMA NewPieceIs ==
  ASSUME InvalidationInv, NEW p \in Processes, NewPiece(p)
  PROVE  /\ born' \in Samples /\ born' \in 0 .. MaxSamples /\ born' \notin alive
         /\ \A s \in alive : s < born'
         /\ origin[born'] = None
         /\ alive' = alive \cup {born'} /\ alive' \subseteq 1 .. born'
         /\ origin' \in [Samples -> Processes \cup {None}]
         /\ origin'[born'] = p
         /\ \A s \in Samples : s # born' => origin'[s] = origin[s]
<1> USE DEF NewPiece
<1>1. /\ born' \in Samples /\ born' \in 0 .. MaxSamples /\ born' \notin alive
      /\ \A s \in alive : s < born'
      /\ origin[born'] = None
      /\ alive' \subseteq 1 .. born'
  BY NewSampleIs
<1>2. origin \in [Samples -> Processes \cup {None}]
  BY TypesKnown
<1> QED
  BY <1>1, <1>2

LEMMA SplitOK ==
  ASSUME InvalidationInv, NEW s \in Samples, NEW t \in 0 .. now + 1, Split(s, t)
  PROVE  InvalidationInv'
<1> USE DEF Split
<1>1. now' \in 0 .. MaxTime /\ now' = now + 1 /\ now \in Nat
  BY TickIs
<1>2. alive \subseteq alive' /\ {s} \in SUBSET alive'
  BY DEF NewPiece
<1>3. /\ made' \in Processes /\ made' \in 0 .. MaxProcs /\ made' \notin live
      /\ live' = live \cup {made'} /\ live' \subseteq 1 .. made'
      /\ kind' \in [Processes -> {"physical", "split", "result"}]
      /\ parent' \in [Processes -> Samples \cup {None}]
      /\ stamp' \in [Processes -> Times] /\ values' = values
      /\ members' \in [Processes -> SUBSET alive']
      /\ kind'[made'] = "split" /\ parent'[made'] = s /\ members'[made'] = {s}
      /\ \A p \in Processes : stamp'[p] <= now'
      /\ \A p \in Processes : p # made' =>
           /\ kind'[p] = kind[p] /\ parent'[p] = parent[p]
           /\ stamp'[p] = stamp[p] /\ members'[p] = members[p]
  <2>1. NewProcess("split", t, {s}, s) /\ Tick /\ s \in Samples \cup {None}
    OBVIOUS
  <2> HIDE DEF Split
  <2> QED
    BY <1>2, <2>1, NewProcessIs
<1>4. /\ born' \in Samples /\ born' \in 0 .. MaxSamples /\ born' \notin alive
      /\ \A x \in alive : x < born'
      /\ origin[born'] = None
      /\ alive' = alive \cup {born'} /\ alive' \subseteq 1 .. born'
      /\ origin' \in [Samples -> Processes \cup {None}]
      /\ origin'[born'] = made'
      /\ \A x \in Samples : x # born' => origin'[x] = origin[x]
  BY <1>3, NewPieceIs
<1>5. series' \subseteq alive' /\ results' \subseteq {p \in live' : kind'[p] = "result"}
  <2>1. \A p \in results : p \in live' /\ kind'[p] = "result"
    BY <1>3, TypesKnown DEF InvalidationInv, RecordTypes, seriesVars
  <2> QED
    BY <1>2, <2>1 DEF InvalidationInv, RecordTypes, seriesVars
<1>6. RecordTypes'
  BY <1>1, <1>3, <1>4, <1>5 DEF InvalidationInv, RecordTypes
<1>7. PiecesHaveParents'
  <2> SUFFICES ASSUME NEW x \in Samples, origin'[x] # None
               PROVE  /\ x \in alive'
                      /\ origin'[x] \in live' /\ kind'[origin'[x]] = "split"
                      /\ parent'[origin'[x]] \in alive' /\ parent'[origin'[x]] < x
    BY DEF PiecesHaveParents
  <2>1. CASE x = born'
    BY <1>3, <1>4, <2>1
  <2>2. CASE x # born'
    <3>1. /\ x \in alive /\ origin[x] \in live /\ kind[origin[x]] = "split" /\ origin'[x] = origin[x]
          /\ parent[origin[x]] \in alive /\ parent[origin[x]] < x /\ origin[x] \in Processes
      BY <1>4, <2>2, TypesKnown DEF InvalidationInv, PiecesHaveParents
    <3> QED
      BY <1>3, <1>4, <3>1
  <2> QED
    BY <2>1, <2>2
<1>8. SplitsHaveTheirParent'
  BY <1>3, TypesKnown DEF InvalidationInv, SplitsHaveTheirParent
<1> QED
  BY <1>3, <1>6, <1>7, <1>8 DEF InvalidationInv

LEMMA ResplitOK ==
  ASSUME InvalidationInv, NEW p \in Processes, Resplit(p)
  PROVE  InvalidationInv'
<1> USE DEF Resplit
<1>1. now' \in 0 .. MaxTime /\ now' = now + 1 /\ now \in Nat /\ MaxTime \in Nat
  BY TickIs
<1>2. /\ born' \in Samples /\ born' \in 0 .. MaxSamples /\ born' \notin alive
      /\ \A x \in alive : x < born'
      /\ origin[born'] = None
      /\ alive' = alive \cup {born'} /\ alive' \subseteq 1 .. born'
      /\ origin' \in [Samples -> Processes \cup {None}]
      /\ origin'[born'] = p
      /\ \A x \in Samples : x # born' => origin'[x] = origin[x]
  BY NewPieceIs
<1>3. stamp' \in [Processes -> Times] /\ \A q \in Processes : stamp'[q] <= now'
  <2>1. now \in Times
    BY <1>1 DEF Times
  <2>2. stamp \in [Processes -> Times] /\ \A q \in Processes : stamp[q] <= now /\ stamp[q] \in Nat
    BY TypesKnown DEF InvalidationInv, RecordTypes
  <2> QED
    BY <1>1, <2>1, <2>2
<1>4. members' \in [Processes -> SUBSET alive'] /\ series' \subseteq alive'
  BY <1>2 DEF InvalidationInv, RecordTypes, seriesVars
<1>5. RecordTypes'
  BY <1>1, <1>2, <1>3, <1>4 DEF InvalidationInv, RecordTypes, seriesVars
<1>6. parent[p] \in alive
  BY DEF InvalidationInv, RecordTypes, SplitsHaveTheirParent
<1>7. PiecesHaveParents'
  <2> SUFFICES ASSUME NEW x \in Samples, origin'[x] # None
               PROVE  /\ x \in alive'
                      /\ origin'[x] \in live /\ kind[origin'[x]] = "split"
                      /\ parent[origin'[x]] \in alive' /\ parent[origin'[x]] < x
    BY DEF PiecesHaveParents
  <2>1. CASE x = born'
    BY <1>2, <1>6, <2>1
  <2>2. CASE x # born'
    <3>1. /\ x \in alive /\ origin[x] \in live /\ kind[origin[x]] = "split" /\ origin'[x] = origin[x]
          /\ parent[origin[x]] \in alive /\ parent[origin[x]] < x
      BY <1>2, <2>2 DEF InvalidationInv, PiecesHaveParents
    <3> QED
      BY <1>2, <3>1
  <2> QED
    BY <2>1, <2>2
<1> QED
  BY <1>3, <1>5, <1>7 DEF InvalidationInv, SplitsHaveTheirParent

(* A sample without processes is not the parent of a split either.         *)
LEMMA NoPieces ==
  ASSUME InvalidationInv, NEW s \in Samples, \A p \in live : s \notin members[p]
  PROVE  \A x \in Samples : origin[x] # None => parent[origin[x]] # s
BY DEF InvalidationInv, PiecesHaveParents, SplitsHaveTheirParent

LEMMA DeletePieceOK ==
  ASSUME InvalidationInv, NEW s \in Samples, DeletePiece(s)
  PROVE  InvalidationInv'
<1> USE DEF DeletePiece
<1>1. now' \in 0 .. MaxTime /\ now' = now + 1 /\ now \in Nat
  BY TickIs
<1>2. /\ origin' \in [Samples -> Processes \cup {None}]
      /\ \A x \in Samples : origin'[x] = IF x = s THEN None ELSE origin[x]
  BY TypesKnown
<1>3. members' \in [Processes -> SUBSET alive'] /\ series' \subseteq alive'
  <2>1. members' = members /\ live \subseteq Processes
    BY TypesKnown DEF processVars
  <2>2. members \in [Processes -> SUBSET alive] /\ series \subseteq alive
    BY DEF InvalidationInv, RecordTypes
  <2>3. \A p \in Processes : s \notin members[p]
    BY DEF InvalidationInv, SplitsHaveTheirParent
  <2> QED
    BY <2>1, <2>2, <2>3
<1>4. RecordTypes'
  BY <1>1, <1>2, <1>3 DEF InvalidationInv, RecordTypes, processVars
<1>5. \A p \in Processes : stamp'[p] <= now'
  BY <1>1, TypesKnown DEF processVars
<1>6. PiecesHaveParents'
  <2> SUFFICES ASSUME NEW x \in Samples, origin'[x] # None
               PROVE  /\ x \in alive'
                      /\ origin'[x] \in live /\ kind[origin'[x]] = "split"
                      /\ parent[origin'[x]] \in alive' /\ parent[origin'[x]] < x
    BY DEF PiecesHaveParents, processVars
  <2>1. x # s /\ origin'[x] = origin[x]
    BY <1>2
  <2> QED
    BY <2>1, NoPieces DEF InvalidationInv, PiecesHaveParents
<1> QED
  BY <1>4, <1>5, <1>6 DEF InvalidationInv, SplitsHaveTheirParent, processVars

LEMMA StepOK == InvalidationInv /\ [Next]_vars => InvalidationInv'
<1> SUFFICES ASSUME InvalidationInv, [Next]_vars
             PROVE  InvalidationInv'
  OBVIOUS
<1>1. CASE AddSample
  BY <1>1, AddSampleOK
<1>2. CASE \E s \in Samples : EditSample(s) \/ SplitNow(s) \/ DeletePiece(s)
  <2> PICK s \in Samples : EditSample(s) \/ SplitNow(s) \/ DeletePiece(s)
    BY <1>2
  <2>1. now \in 0 .. now + 1
    BY TypesKnown
  <2> QED
    BY <2>1, EditSampleOK, SplitOK, DeletePieceOK DEF SplitNow
<1>3. CASE \E ss \in SUBSET alive, t \in 0 .. now :
             \/ AddPhysical(ss, t) /\ ss # {}
             \/ \E inSeries \in BOOLEAN : AddResult(ss, inSeries, t)
             \/ \E p \in Processes : EditProcess(p, ss, t)
  BY <1>3, AddPhysicalOK, AddResultOK, EditProcessOK
<1>4. CASE \E ss \in SUBSET alive : EditSeries(ss)
  BY <1>4, EditSeriesOK
<1>5. CASE \E p \in Processes : Resplit(p) \/ DeleteProcess(p)
  BY <1>5, ResplitOK, DeleteProcessOK
<1>6. CASE \E p \in Processes, s \in alive : SplitAfterDeposition(s, p)
  <2> PICK p \in Processes, s \in alive : SplitAfterDeposition(s, p)
    BY <1>6
  <2>1. s \in Samples /\ stamp[p] + 1 \in 0 .. now + 1
    BY TypesKnown
  <2> QED
    BY <2>1, SplitOK DEF SplitAfterDeposition
<1>7. CASE UNCHANGED vars
  BY <1>7 DEF vars, sampleVars, processVars, seriesVars, InvalidationInv, RecordTypes,
              PiecesHaveParents, SplitsHaveTheirParent
<1> QED
  BY <1>1, <1>2, <1>3, <1>4, <1>5, <1>6, <1>7 DEF Next

-----------------------------------------------------------------------------
(* What a request does not touch looks the same afterwards.                *)

(* All the processes that are listed for a sample. *)
ListedFor(s) == {p \in live : s \in members[p] \/ (s \in series /\ p \in results)}

(* The samples that stay come from the same samples as before.             *)
LineageKept ==
  \A x \in alive \cap alive' :
    /\ origin'[x] = origin[x]
    /\ origin[x] # None => parent[origin[x]] \in alive' /\ parent'[origin[x]] = parent[origin[x]]

(* The part of the data sheet that belongs to sample x itself stays.       *)
Untouched(x) ==
  /\ ListedFor(x)' = ListedFor(x)
  /\ \A p \in ListedFor(x) : Context(p)' = Context(p)
  /\ origin[x] # None => stamp'[origin[x]] = stamp[origin[x]]

LEMMA AncestryIsThen ==
  InvalidationInv' =>
    \A s \in Samples : Ancestry'[s] =
      {s} \cup IF origin'[s] = None THEN {} ELSE Ancestry'[parent'[origin'[s]]]
<1>1. InvalidationInv =>
        \A s \in Samples : Ancestry[s] =
          {s} \cup IF origin[s] = None THEN {} ELSE Ancestry[parent[origin[s]]]
  BY AncestryIs
<1>2. InvalidationInv' =>
        (\A s \in Samples : Ancestry[s] =
          {s} \cup IF origin[s] = None THEN {} ELSE Ancestry[parent[origin[s]]])'
  BY <1>1, PTL
<1> QED
  BY <1>2

LEMMA SameAncestors ==
  ASSUME InvalidationInv, InvalidationInv', LineageKept
  PROVE  \A s \in alive \cap alive' : Ancestry'[s] = Ancestry[s] /\ Ancestry[s] \subseteq alive \cap alive'
<1> DEFINE T == {s \in Samples : s \in alive \cap alive' =>
                   Ancestry'[s] = Ancestry[s] /\ Ancestry[s] \subseteq alive \cap alive'}
<1>1. ASSUME NEW s \in Samples, \A x \in Samples : x < s => x \in T
      PROVE  s \in T
  <2> SUFFICES ASSUME s \in alive \cap alive'
               PROVE  Ancestry'[s] = Ancestry[s] /\ Ancestry[s] \subseteq alive \cap alive'
    OBVIOUS
  <2>1. origin'[s] = origin[s]
    BY DEF LineageKept
  <2>2. /\ Ancestry[s] = {s} \cup IF origin[s] = None THEN {} ELSE Ancestry[parent[origin[s]]]
        /\ Ancestry'[s] = {s} \cup IF origin'[s] = None THEN {} ELSE Ancestry'[parent'[origin'[s]]]
    BY AncestryIs, AncestryIsThen
  <2>3. CASE origin[s] = None
    BY <2>1, <2>2, <2>3
  <2>4. CASE origin[s] # None
    <3> DEFINE u == parent[origin[s]]
    <3>1. u \in alive /\ u \in alive' /\ u < s /\ parent'[origin[s]] = u /\ u \in Samples
      BY <2>4, TypesKnown DEF LineageKept, InvalidationInv, PiecesHaveParents
    <3>2. Ancestry'[u] = Ancestry[u] /\ Ancestry[u] \subseteq alive \cap alive'
      BY <1>1, <3>1
    <3> QED
      BY <2>1, <2>2, <2>4, <3>1, <3>2
  <2> QED
    BY <2>3, <2>4
<1>2. Samples \in SUBSET Nat
  BY DEF Samples
<1>3. Samples \subseteq T
  <2> HIDE DEF T
  <2> QED
    BY <1>1, <1>2, Ascent
<1> QED
  BY <1>3, TypesKnown

LEMMA ShownIsThen ==
  InvalidationInv' =>
    \A s \in Samples : Shown'[s] = [cutoff \in Times |->
      {[sample |-> s, process |-> p, context |-> Context(p)'] : p \in Listed(s, cutoff)'} \cup
      IF origin'[s] = None THEN {} ELSE Shown'[parent'[origin'[s]]][stamp'[origin'[s]]]]
<1>1. InvalidationInv =>
        \A s \in Samples : Shown[s] = [cutoff \in Times |->
          {[sample |-> s, process |-> p, context |-> Context(p)] : p \in Listed(s, cutoff)} \cup
          IF origin[s] = None THEN {} ELSE Shown[parent[origin[s]]][stamp[origin[s]]]]
  BY ShownIs
<1>2. InvalidationInv' =>
        (\A s \in Samples : Shown[s] = [cutoff \in Times |->
          {[sample |-> s, process |-> p, context |-> Context(p)] : p \in Listed(s, cutoff)} \cup
          IF origin[s] = None THEN {} ELSE Shown[parent[origin[s]]][stamp[origin[s]]]])'
  BY <1>1, PTL
<1> QED
  BY <1>2

(* A data sheet stays the same if nothing in its ancestry is touched.      *)
LEMMA SameSheet ==
  ASSUME InvalidationInv, InvalidationInv', LineageKept
  PROVE  \A s \in alive \cap alive' : (\A x \in Ancestry[s] : Untouched(x)) => Shown'[s] = Shown[s]
<1> DEFINE T == {s \in Samples : s \in alive \cap alive' /\ (\A x \in Ancestry[s] : Untouched(x)) =>
                   Shown'[s] = Shown[s]}
<1>1. ASSUME NEW s \in Samples, \A x \in Samples : x < s => x \in T
      PROVE  s \in T
  <2> SUFFICES ASSUME s \in alive \cap alive', \A x \in Ancestry[s] : Untouched(x)
               PROVE  Shown'[s] = Shown[s]
    OBVIOUS
  <2> DEFINE Own(c) == {[sample |-> s, process |-> p, context |-> Context(p)] : p \in Listed(s, c)}
             OwnThen(c) == {[sample |-> s, process |-> p, context |-> Context(p)'] : p \in Listed(s, c)'}
             Rest == IF origin[s] = None THEN {} ELSE Shown[parent[origin[s]]][stamp[origin[s]]]
             RestThen == IF origin'[s] = None THEN {} ELSE Shown'[parent'[origin'[s]]][stamp'[origin'[s]]]
  <2>1. Shown[s] = [c \in Times |-> Own(c) \cup Rest] /\ Shown'[s] = [c \in Times |-> OwnThen(c) \cup RestThen]
    BY ShownIs, ShownIsThen
  <2>2. ASSUME NEW c \in Times
        PROVE  OwnThen(c) = Own(c)
    <3>1. Untouched(s)
      BY AncestryIs
    <3>2. \A p \in ListedFor(s) : Context(p)' = Context(p) /\ stamp'[p] = stamp[p]
      BY <3>1 DEF Untouched, Context
    <3>3. Listed(s, c) = {p \in ListedFor(s) : stamp[p] <= c}
      BY DEF Listed, ListedFor
    <3>4. Listed(s, c)' = {p \in ListedFor(s)' : stamp'[p] <= c}
      BY DEF Listed, ListedFor
    <3>5. Listed(s, c)' = Listed(s, c)
      BY <3>1, <3>2, <3>3, <3>4 DEF Untouched
    <3>6. \A p \in Listed(s, c) : Context(p)' = Context(p)
      BY <3>2, <3>3
    <3> QED
      BY <3>5, <3>6
  <2>3. RestThen = Rest
    <3>1. origin'[s] = origin[s]
      BY DEF LineageKept
    <3>2. CASE origin[s] # None
      <4> DEFINE u == parent[origin[s]]
      <4>1. u \in alive /\ u \in alive' /\ u < s /\ parent'[origin[s]] = u /\ u \in Samples
        BY <3>2, TypesKnown DEF LineageKept, InvalidationInv, PiecesHaveParents
      <4>2. Ancestry[u] \subseteq Ancestry[s] /\ s \in Ancestry[s]
        BY <3>2, AncestryIs
      <4>3. Shown'[u] = Shown[u]
        BY <1>1, <4>1, <4>2
      <4>4. stamp'[origin[s]] = stamp[origin[s]]
        BY <3>2, <4>2 DEF Untouched
      <4> QED
        BY <3>1, <3>2, <4>1, <4>3, <4>4
    <3> QED
      BY <3>1, <3>2
  <2> QED
    <3> HIDE DEF Own, OwnThen, Rest, RestThen
    <3> QED
      BY <2>1, <2>2, <2>3
<1>2. Samples \in SUBSET Nat
  BY DEF Samples
<1>3. Samples \subseteq T
  <2> HIDE DEF T
  <2> QED
    BY <1>1, <1>2, Ascent
<1> QED
  BY <1>3, TypesKnown

(* An ancestor that has been saved with the lineage of before the request  *)
(* saves the sample, if no split in the ancestry has got another time; one *)
(* that has been saved with the new lineage does anyway.                   *)
LEMMA SavedBefore ==
  ASSUME InvalidationInv, InvalidationInv', LineageKept,
         NEW s \in alive \cap alive', Orderly(s)',
         \A x \in Ancestry[s] : origin[x] # None => stamp'[origin[x]] = stamp[origin[x]],
         NEW y \in Ancestry[s], SaveSample[y] \subseteq saved'
  PROVE  Sample(s) \in saved'
<1>1. s \in Samples /\ Ancestry'[s] = Ancestry[s] /\ Ancestry[s] \subseteq alive \cap alive'
  BY SameAncestors, TypesKnown
<1>2. Orderly(s)
  <2> SUFFICES ASSUME NEW x \in Ancestry[s], origin[x] # None, origin[parent[origin[x]]] # None
               PROVE  stamp[origin[x]] > stamp[origin[parent[origin[x]]]]
    BY DEF Orderly
  <2> DEFINE u == parent[origin[x]]
  <2>1. u \in Ancestry[s]
    BY <1>1, AncestorsAre
  <2>2. origin'[x] = origin[x] /\ parent'[origin[x]] = u /\ origin'[u] = origin[u]
    BY <1>1, <2>1 DEF LineageKept
  <2>3. stamp'[origin'[x]] > stamp'[origin'[u]]
    BY <1>1, <2>2 DEF Orderly
  <2> QED
    BY <2>1, <2>2, <2>3
<1> QED
  BY <1>1, <1>2, DescendantsReached

LEMMA SavedThen ==
  ASSUME InvalidationInv, InvalidationInv', LineageKept,
         NEW s \in alive \cap alive', Orderly(s)',
         NEW y \in Ancestry[s], SaveSample'[y] \subseteq saved'
  PROVE  Sample(s) \in saved'
<1>1. s \in Samples /\ Ancestry'[s] = Ancestry[s]
  BY SameAncestors, TypesKnown
<1>2. Sample(s) \in SaveSample'[y]
  BY <1>1, DescendantsReachedThen DEF Sample
<1> QED
  BY <1>2

-----------------------------------------------------------------------------
(* Every request saves what it touches.                                    *)

SheetsInvalidated == \A s \in Samples : Orderly(s)' => ~Outdated(s)

(* A request does what is claimed if it leaves the rest of the lineage     *)
(* alone and saves the samples whose part of the data sheets it touches,   *)
(* with the lineage of before ...                                          *)
LEMMA TouchedAreSaved ==
  ASSUME InvalidationInv, InvalidationInv', LineageKept,
         \A x \in alive \cap alive' : origin[x] # None => stamp'[origin[x]] = stamp[origin[x]],
         \A x \in alive \cap alive' : data'[x] # data[x] => SaveSample[x] \subseteq saved',
         \A s \in alive \cap alive' : \A x \in Ancestry[s] :
           Untouched(x) \/ \E y \in Ancestry[s] : SaveSample[y] \subseteq saved'
  PROVE  SheetsInvalidated
<1> SUFFICES ASSUME NEW s \in Samples, Orderly(s)', Outdated(s)
             PROVE  FALSE
  BY DEF SheetsInvalidated
<1>1. s \in alive \cap alive' /\ Display(s)' # Display(s) /\ Sample(s) \notin saved'
  BY DEF Outdated
<1>2. \A x \in Ancestry[s] : x \in alive \cap alive'
  BY <1>1, SameAncestors
<1>3. \A y \in Ancestry[s] : ~(SaveSample[y] \subseteq saved')
  BY <1>1, <1>2, SavedBefore
<1>4. \A x \in Ancestry[s] : Untouched(x)
  BY <1>1, <1>3
<1>5. data'[s] = data[s]
  BY <1>1, <1>3, AncestorsAre
<1>6. Shown'[s] = Shown[s]
  BY <1>1, <1>4, SameSheet
<1> QED
  BY <1>1, <1>5, <1>6 DEF Display

(* ... or with the new one.                                                *)
LEMMA TouchedAreSavedThen ==
  ASSUME InvalidationInv, InvalidationInv', LineageKept, data' = data,
         \A s \in alive \cap alive' : \A x \in Ancestry[s] :
           Untouched(x) \/ \E y \in Ancestry[s] : SaveSample'[y] \subseteq saved'
  PROVE  SheetsInvalidated
<1> SUFFICES ASSUME NEW s \in Samples, Orderly(s)', Outdated(s)
             PROVE  FALSE
  BY DEF SheetsInvalidated
<1>1. s \in alive \cap alive' /\ Display(s)' # Display(s) /\ Sample(s) \notin saved'
  BY DEF Outdated
<1>2. \A y \in Ancestry[s] : ~(SaveSample'[y] \subseteq saved')
  BY <1>1, SavedThen
<1>3. \A x \in Ancestry[s] : Untouched(x)
  BY <1>1, <1>2
<1>4. Shown'[s] = Shown[s]
  BY <1>1, <1>3, SameSheet
<1> QED
  BY <1>1, <1>4 DEF Display

(* Results, which may be in the sample series, are not splits; a split is  *)
(* listed for its parent.                                                  *)
LEMMA SplitsListed ==
  ASSUME InvalidationInv, NEW x \in Samples, NEW p \in ListedFor(x), kind[p] = "split"
  PROVE  x = parent[p] /\ p \in SplitsOf(x)
BY DEF InvalidationInv, RecordTypes, SplitsHaveTheirParent, ListedFor, SplitsOf

LEMMA AddSampleSheets ==
  ASSUME InvalidationInv, InvalidationInv', AddSample
  PROVE  SheetsInvalidated /\ ContextsInvalidated
<1> USE DEF AddSample
<1>1. LineageKept
  BY TypesKnown DEF LineageKept, InvalidationInv, PiecesHaveParents, processVars
<1>2. \A p \in Processes : Pieces(p)' = Pieces(p)
  <2>1. origin[born'] = None /\ None \notin Processes
    BY NewSampleIs, TypesKnown
  <2> QED
    BY <2>1 DEF Pieces
<1>3. \A p \in Processes : Context(p)' = Context(p)
  BY <1>2 DEF Context, processVars
<1>4. \A x \in Samples : Untouched(x)
  <2>1. \A x \in Samples : ListedFor(x)' = ListedFor(x)
    BY DEF ListedFor, processVars, seriesVars
  <2>2. \A x \in Samples : ListedFor(x) \subseteq Processes
    BY TypesKnown DEF ListedFor
  <2> QED
    BY <1>3, <2>1, <2>2 DEF Untouched, processVars
<1>5. SheetsInvalidated
  BY <1>1, <1>4, SameAncestors, TypesKnown, TouchedAreSavedThen
<1>6. ContextsInvalidated
  BY <1>3, TypesKnown DEF ContextsInvalidated
<1> QED
  BY <1>5, <1>6

(* The contexts that show a sample are those of the splits into which and  *)
(* out of which it has gone.                                               *)
LEMMA EditSampleSheets ==
  ASSUME InvalidationInv, InvalidationInv', NEW s \in Samples, EditSample(s)
  PROVE  SheetsInvalidated /\ ContextsInvalidated
<1> USE DEF EditSample
<1>1. LineageKept
  BY TypesKnown DEF LineageKept, InvalidationInv, PiecesHaveParents, processVars
<1>2. saved' = SaveSample[s]
  BY DEF SaveSamples
<1>3. \A x \in Samples : x # s => data'[x] = data[x]
  BY DEF InvalidationInv, RecordTypes
<1>4. \A p \in Processes : Pieces(p)' = Pieces(p)
  BY DEF Pieces
<1>5. ASSUME NEW p \in live, Context(p)' # Context(p)
      PROVE  kind[p] = "split" /\ (s = parent[p] \/ origin[s] = p)
  <2>1. CASE kind[p] # "split"
    BY <1>5, <2>1 DEF Context, processVars
  <2>2. CASE kind[p] = "split" /\ s # parent[p] /\ origin[s] # p
    <3>1. s \notin {parent[p]} \cup Pieces(p)
      BY <2>2 DEF Pieces
    <3>2. \A x \in {parent[p]} \cup Pieces(p) : x \in Samples
      BY <2>2, TypesKnown DEF Pieces, InvalidationInv, RecordTypes, SplitsHaveTheirParent
    <3>3. \A x \in {parent[p]} \cup Pieces(p) : data'[x] = data[x]
      BY <1>3, <3>1, <3>2
    <3>4. parent'[p] = parent[p] /\ Pieces(p)' = Pieces(p) /\ values' = values /\ stamp' = stamp /\ kind' = kind
      BY <1>4, TypesKnown DEF processVars
    <3>5. {<<x, data'[x]>> : x \in {parent[p]} \cup Pieces(p)} = {<<x, data[x]>> : x \in {parent[p]} \cup Pieces(p)}
      BY <3>3
    <3> QED
      BY <1>5, <3>4, <3>5 DEF Context
  <2> QED
    BY <2>1, <2>2
<1>6. ContextsInvalidated
  BY <1>2, <1>5, ParentsSaved, TypesKnown DEF ContextsInvalidated, SplitsOf
<1>7. ASSUME NEW x \in Samples, ~Untouched(x)
      PROVE  SaveSample[x] \subseteq saved'
  <2>1. ListedFor(x)' = ListedFor(x) /\ stamp' = stamp
    BY DEF ListedFor, processVars, seriesVars
  <2>2. PICK p \in ListedFor(x) : Context(p)' # Context(p)
    BY <1>7, <2>1 DEF Untouched
  <2>3. kind[p] = "split" /\ (s = parent[p] \/ origin[s] = p) /\ p \in Processes
    BY <1>5, <2>2, TypesKnown DEF ListedFor
  <2>4. x = parent[p]
    BY <2>3, SplitsListed
  <2> QED
    BY <1>2, <2>3, <2>4, ParentsSaved, TypesKnown
<1>8. \A x \in alive \cap alive' : data'[x] # data[x] => SaveSample[x] \subseteq saved'
  BY <1>2, <1>3, TypesKnown
<1>9. stamp' = stamp
  BY DEF processVars
<1>10. \A y \in alive \cap alive' : \A x \in Ancestry[y] :
         Untouched(x) \/ \E z \in Ancestry[y] : SaveSample[z] \subseteq saved'
  BY <1>7, AncestorsAre, TypesKnown
<1> HIDE DEF EditSample
<1>11. SheetsInvalidated
  BY <1>1, <1>8, <1>9, <1>10, TouchedAreSaved
<1> QED
  BY <1>6, <1>11

(* The process is displayed as before. *)
Unchanged(p) ==
  values'[p] = values[p] /\ stamp'[p] = stamp[p] /\ kind'[p] = kind[p] /\ parent'[p] = parent[p]

(* Requests that leave the samples and the splits alone: if they save the  *)
(* processes they change, and the samples for which they change a process  *)
(* or the list of processes, they do what is claimed.                      *)
LEMMA MembersAreSaved ==
  ASSUME InvalidationInv, InvalidationInv', alive' = alive, origin' = origin, data' = data,
         \A p \in live : kind[p] = "split" => Unchanged(p),
         \A p \in live \cap live' : Unchanged(p) \/ Process(p) \in saved',
         \A x \in alive : \/ SaveSample[x] \subseteq saved'
                          \/ ListedFor(x)' = ListedFor(x) /\ \A p \in ListedFor(x) : Unchanged(p)
  PROVE  SheetsInvalidated /\ ContextsInvalidated
<1>1. LineageKept
  BY TypesKnown DEF LineageKept, InvalidationInv, PiecesHaveParents, Unchanged
<1>2. \A p \in Processes : Pieces(p)' = Pieces(p)
  BY DEF Pieces
<1>3. ASSUME NEW p \in Processes, Unchanged(p)
      PROVE  Context(p)' = Context(p)
  BY <1>2, <1>3 DEF Context, Unchanged
<1>4. ContextsInvalidated
  BY <1>3, TypesKnown DEF ContextsInvalidated
<1>5. ASSUME NEW x \in Samples
      PROVE  origin[x] # None => stamp'[origin[x]] = stamp[origin[x]]
  BY DEF InvalidationInv, PiecesHaveParents, Unchanged
<1>6. \A x \in alive : Untouched(x) \/ SaveSample[x] \subseteq saved'
  <2>1. \A x \in Samples : ListedFor(x) \subseteq Processes
    BY TypesKnown DEF ListedFor
  <2> QED
    BY <1>3, <1>5, <2>1, TypesKnown DEF Untouched
<1>7. \A y \in alive \cap alive' : \A x \in Ancestry[y] :
        Untouched(x) \/ \E z \in Ancestry[y] : SaveSample[z] \subseteq saved'
  BY <1>6, AncestorsAre, TypesKnown
<1>8. SheetsInvalidated
  BY <1>1, <1>5, <1>7, TypesKnown, TouchedAreSaved
<1> QED
  BY <1>4, <1>8

LEMMA AddPhysicalSheets ==
  ASSUME InvalidationInv, InvalidationInv', NEW ss \in SUBSET alive, NEW t \in 0 .. now, AddPhysical(ss, t)
  PROVE  SheetsInvalidated /\ ContextsInvalidated
<1>1. t \in 0 .. now + 1 /\ alive' = alive /\ origin' = origin /\ data' = data
      /\ NewProcess("physical", t, ss, None) /\ Tick /\ series' = series /\ results' = results
      /\ saved' = {Process(made')} \cup SaveSamples(ss)
  BY TypesKnown DEF AddPhysical, sampleVars, seriesVars
<1>2. /\ made' \in Processes /\ made' \notin live /\ live' = live \cup {made'} /\ values' = values
      /\ members'[made'] = ss
      /\ \A p \in Processes : p # made' =>
           /\ kind'[p] = kind[p] /\ parent'[p] = parent[p]
           /\ stamp'[p] = stamp[p] /\ members'[p] = members[p]
  BY <1>1, NewProcessIs
<1>3. \A p \in live : Unchanged(p) /\ p \in Processes /\ p # made'
  BY <1>2, TypesKnown DEF Unchanged
<1>4. ASSUME NEW x \in alive, ~(SaveSample[x] \subseteq saved')
      PROVE  ListedFor(x)' = ListedFor(x)
  <2>1. x \notin ss
    BY <1>1, <1>4 DEF SaveSamples
  <2>2. made' \notin results
    BY <1>2 DEF InvalidationInv, RecordTypes
  <2> QED
    BY <1>1, <1>2, <1>3, <2>1, <2>2 DEF ListedFor
<1>5. \A x \in alive : ListedFor(x) \subseteq live
  BY DEF ListedFor
<1> QED
  BY <1>1, <1>3, <1>4, <1>5, MembersAreSaved

LEMMA AddResultSheets ==
  ASSUME InvalidationInv, InvalidationInv', NEW ss \in SUBSET alive, NEW t \in 0 .. now,
         NEW inSeries \in BOOLEAN, AddResult(ss, inSeries, t)
  PROVE  SheetsInvalidated /\ ContextsInvalidated
<1>1. t \in 0 .. now + 1 /\ alive' = alive /\ origin' = origin /\ data' = data
      /\ NewProcess("result", t, ss, None) /\ Tick /\ series' = series
      /\ results' = (IF inSeries THEN results \cup {made'} ELSE results)
      /\ saved' = {Process(made')} \cup SaveSamples(ss \cup IF inSeries THEN series ELSE {})
  BY TypesKnown DEF AddResult, sampleVars
<1>2. /\ made' \in Processes /\ made' \notin live /\ live' = live \cup {made'} /\ values' = values
      /\ members'[made'] = ss
      /\ \A p \in Processes : p # made' =>
           /\ kind'[p] = kind[p] /\ parent'[p] = parent[p]
           /\ stamp'[p] = stamp[p] /\ members'[p] = members[p]
  BY <1>1, NewProcessIs
<1>3. \A p \in live : Unchanged(p) /\ p \in Processes /\ p # made'
  BY <1>2, TypesKnown DEF Unchanged
<1>4. ASSUME NEW x \in alive, ~(SaveSample[x] \subseteq saved')
      PROVE  ListedFor(x)' = ListedFor(x)
  <2>1. x \notin ss /\ ~(inSeries /\ x \in series)
    BY <1>1, <1>4 DEF SaveSamples
  <2>2. made' \notin results
    BY <1>2 DEF InvalidationInv, RecordTypes
  <2> QED
    BY <1>1, <1>2, <1>3, <2>1, <2>2 DEF ListedFor
<1>5. \A x \in alive : ListedFor(x) \subseteq live
  BY DEF ListedFor
<1> QED
  BY <1>1, <1>3, <1>4, <1>5, MembersAreSaved

LEMMA EditProcessSheets ==
  ASSUME InvalidationInv, InvalidationInv', NEW ss \in SUBSET alive, NEW t \in 0 .. now,
         NEW p \in Processes, EditProcess(p, ss, t)
  PROVE  SheetsInvalidated /\ ContextsInvalidated
<1>1. /\ alive' = alive /\ origin' = origin /\ data' = data /\ series' = series /\ results' = results
      /\ live' = live /\ kind' = kind /\ parent' = parent /\ kind[p] # "split"
      /\ saved' = SaveProcess(p) \cup SaveSamples(ss)
  BY DEF EditProcess, sampleVars, seriesVars
<1>2. /\ \A q \in Processes : q # p => Unchanged(q) /\ members'[q] = members[q]
      /\ members'[p] = ss
  BY DEF EditProcess, Unchanged, InvalidationInv, RecordTypes
<1>3. ASSUME NEW x \in alive, ~(SaveSample[x] \subseteq saved')
      PROVE  ListedFor(x)' = ListedFor(x) /\ p \notin ListedFor(x)
  <2>1. x \notin ss /\ x \notin members[p] /\ ~(p \in results /\ x \in series)
    BY <1>1, <1>3 DEF SaveSamples, SaveProcess, SamplesOf
  <2> QED
    BY <1>1, <1>2, <2>1, TypesKnown DEF ListedFor
<1>4. \A x \in alive : ListedFor(x) \subseteq Processes
  BY TypesKnown DEF ListedFor
<1>5. Process(p) \in saved' /\ live \subseteq Processes
  BY <1>1, TypesKnown DEF SaveProcess
<1>6. \A x \in alive : \/ SaveSample[x] \subseteq saved'
                       \/ ListedFor(x)' = ListedFor(x) /\ \A q \in ListedFor(x) : Unchanged(q)
  BY <1>2, <1>3, <1>4
<1>7. /\ \A q \in live : kind[q] = "split" => Unchanged(q)
      /\ \A q \in live \cap live' : Unchanged(q) \/ Process(q) \in saved'
  BY <1>1, <1>2, <1>5
<1> QED
  BY <1>1, <1>6, <1>7, MembersAreSaved

LEMMA DeleteProcessSheets ==
  ASSUME InvalidationInv, InvalidationInv', NEW p \in Processes, DeleteProcess(p)
  PROVE  SheetsInvalidated /\ ContextsInvalidated
<1>1. /\ alive' = alive /\ origin' = origin /\ data' = data /\ series' = series
      /\ results' = results \ {p} /\ live' = live \ {p}
      /\ kind' = kind /\ parent' = parent /\ stamp' = stamp /\ values' = values
      /\ saved' = SaveProcess(p)
  BY DEF DeleteProcess, sampleVars
<1>2. \A q \in Processes : Unchanged(q) /\ (q # p => members'[q] = members[q])
  BY <1>1 DEF DeleteProcess, Unchanged, InvalidationInv, RecordTypes
<1>3. ASSUME NEW x \in alive, ~(SaveSample[x] \subseteq saved')
      PROVE  ListedFor(x)' = ListedFor(x)
  <2>1. x \notin members[p] /\ ~(p \in results /\ x \in series)
    BY <1>1, <1>3 DEF SaveSamples, SaveProcess, SamplesOf
  <2> QED
    BY <1>1, <1>2, <2>1, TypesKnown DEF ListedFor
<1>4. live \subseteq Processes /\ \A x \in alive : ListedFor(x) \subseteq Processes
  BY TypesKnown DEF ListedFor
<1> QED
  BY <1>1, <1>2, <1>3, <1>4, MembersAreSaved

LEMMA EditSeriesSheets ==
  ASSUME InvalidationInv, InvalidationInv', NEW ss \in SUBSET alive, EditSeries(ss)
  PROVE  SheetsInvalidated /\ ContextsInvalidated
<1>1. /\ alive' = alive /\ origin' = origin /\ data' = data /\ series' = ss /\ results' = results
      /\ live' = live /\ kind' = kind /\ parent' = parent /\ stamp' = stamp /\ values' = values
      /\ members' = members
      /\ saved' = SaveSamples((ss \ series) \cup (series \ ss))
  BY DEF EditSeries, sampleVars, processVars
<1>2. \A q \in Processes : Unchanged(q)
  BY <1>1 DEF Unchanged
<1>3. ASSUME NEW x \in alive, ~(SaveSample[x] \subseteq saved')
      PROVE  ListedFor(x)' = ListedFor(x)
  <2>1. x \in ss <=> x \in series
    BY <1>1, <1>3 DEF SaveSamples
  <2> QED
    BY <1>1, <2>1 DEF ListedFor
<1>4. live \subseteq Processes /\ \A x \in alive : ListedFor(x) \subseteq Processes
  BY TypesKnown DEF ListedFor
<1> QED
  BY <1>1, <1>2, <1>3, <1>4, MembersAreSaved

(* The new piece saves itself, and with it the sample it has been split    *)
(* from, with the new lineage.                                             *)
LEMMA SplitSheets ==
  ASSUME InvalidationInv, InvalidationInv', NEW s \in Samples, NEW t \in 0 .. now + 1, Split(s, t)
  PROVE  SheetsInvalidated /\ ContextsInvalidated
<1>1. /\ s \in alive /\ data' = data /\ series' = series /\ results' = results
      /\ NewProcess("split", t, {s}, s) /\ Tick /\ NewPiece(made')
      /\ saved' = SaveSamples({born})'
  BY DEF Split, SaveNew, seriesVars
<1>2. alive \subseteq alive' /\ {s} \in SUBSET alive' /\ s \in Samples \cup {None}
  BY <1>1 DEF NewPiece
<1>3. /\ made' \in Processes /\ made' \notin live /\ live' = live \cup {made'} /\ values' = values
      /\ parent'[made'] = s /\ members'[made'] = {s}
      /\ \A p \in Processes : p # made' =>
           /\ kind'[p] = kind[p] /\ parent'[p] = parent[p]
           /\ stamp'[p] = stamp[p] /\ members'[p] = members[p]
  BY <1>1, <1>2, NewProcessIs
<1>4. /\ born' \in Samples /\ born' \notin alive /\ alive' = alive \cup {born'} /\ origin'[born'] = made'
      /\ origin[born'] = None
      /\ \A x \in Samples : x # born' => origin'[x] = origin[x]
  BY <1>1, <1>3, NewPieceIs
<1>5. SaveSample'[s] \subseteq saved'
  <2>1. saved' = SaveSample'[born']
    BY <1>1 DEF SaveSamples
  <2>2. SaveSample'[parent'[origin'[born']]] \subseteq SaveSample'[born']
    BY <1>3, <1>4, ParentsSavedThen, TypesKnown
  <2> QED
    BY <1>3, <1>4, <2>1, <2>2
<1>6. \A p \in live : p \in Processes /\ p # made'
  BY <1>3, TypesKnown
<1>7. \A x \in alive : x \in Samples /\ x # born'
  BY <1>4, TypesKnown
<1>8. \A p \in live : Pieces(p)' = Pieces(p)
  BY <1>4, <1>6, <1>7 DEF Pieces
<1>9. \A p \in live : Context(p)' = Context(p)
  BY <1>1, <1>3, <1>6, <1>8 DEF Context
<1>10. LineageKept
  BY <1>3, <1>4, <1>6, <1>7 DEF LineageKept, InvalidationInv, PiecesHaveParents
<1>11. ASSUME NEW x \in alive, x # s
       PROVE  Untouched(x)
  <2>1. ListedFor(x)' = ListedFor(x)
    <3>1. made' \notin results
      BY <1>3 DEF InvalidationInv, RecordTypes
    <3> QED
      BY <1>1, <1>3, <1>6, <1>11, <3>1 DEF ListedFor
  <2>2. ListedFor(x) \subseteq live
    BY DEF ListedFor
  <2>3. origin[x] # None => stamp'[origin[x]] = stamp[origin[x]]
    BY <1>3, <1>6, <1>7 DEF InvalidationInv, PiecesHaveParents
  <2> QED
    BY <1>9, <2>1, <2>2, <2>3 DEF Untouched
<1>12. \A y \in alive \cap alive' : \A x \in Ancestry[y] :
         Untouched(x) \/ \E z \in Ancestry[y] : SaveSample'[z] \subseteq saved'
  BY <1>5, <1>7, <1>11, AncestorsAre
<1>13. SheetsInvalidated
  BY <1>1, <1>10, <1>12, TouchedAreSavedThen
<1> QED
  BY <1>9, <1>13 DEF ContextsInvalidated

(* The same for another piece of an old split.  The time of the split      *)
(* counts for the older pieces, too: on their data sheets, processes of    *)
(* the parent may appear.                                                  *)
LEMMA ResplitSheets ==
  ASSUME InvalidationInv, InvalidationInv', NEW p \in Processes, Resplit(p)
  PROVE  SheetsInvalidated /\ ContextsInvalidated
<1> DEFINE s == parent[p]
<1>1. /\ p \in live /\ kind[p] = "split" /\ data' = data /\ series' = series /\ results' = results
      /\ live' = live /\ kind' = kind /\ parent' = parent /\ values' = values /\ members' = members
      /\ NewPiece(p) /\ Tick
      /\ saved' = SaveSamples({born})'
  BY DEF Resplit, SaveNew, seriesVars
<1>2. \A q \in Processes : q # p => stamp'[q] = stamp[q]
  BY DEF Resplit, InvalidationInv, RecordTypes
<1>3. /\ born' \in Samples /\ born' \notin alive /\ alive' = alive \cup {born'} /\ origin'[born'] = p
      /\ origin[born'] = None
      /\ \A x \in Samples : x # born' => origin'[x] = origin[x]
  BY <1>1, NewPieceIs
<1>4. s \in alive /\ s \in Samples
  <2>1. members[p] = {s} /\ members[p] \subseteq alive
    BY <1>1 DEF InvalidationInv, RecordTypes, SplitsHaveTheirParent
  <2> QED
    BY <2>1, TypesKnown
<1>5. SaveSample'[s] \subseteq saved' /\ Process(p) \in saved'
  <2>1. saved' = SaveSample'[born']
    BY <1>1 DEF SaveSamples
  <2>2. p # None
    BY TypesKnown
  <2>3. SaveSample'[parent'[origin'[born']]] \subseteq SaveSample'[born']
        /\ Process(origin'[born']) \in SaveSample'[born']
    BY <1>3, <2>2, ParentsSavedThen DEF Process
  <2> QED
    BY <1>1, <1>3, <2>1, <2>3
<1>6. \A x \in alive : x \in Samples /\ x # born'
  BY <1>3, TypesKnown
<1>7. \A q \in Processes : q # p => Pieces(q)' = Pieces(q)
  BY <1>3, <1>6 DEF Pieces
<1>8. \A q \in Processes : q # p => Context(q)' = Context(q)
  BY <1>1, <1>2, <1>7 DEF Context
<1>9. LineageKept
  BY <1>1, <1>3, <1>6 DEF LineageKept, InvalidationInv, PiecesHaveParents
<1>10. ASSUME NEW x \in alive, x # s, origin[x] # p
       PROVE  Untouched(x)
  <2>1. ListedFor(x)' = ListedFor(x) /\ ListedFor(x) \subseteq Processes
    BY <1>1, TypesKnown DEF ListedFor
  <2>2. p \notin ListedFor(x)
    BY <1>1, <1>6, <1>10, SplitsListed
  <2>3. origin[x] # None => stamp'[origin[x]] = stamp[origin[x]]
    BY <1>2, <1>6, <1>10, TypesKnown
  <2> QED
    BY <1>8, <2>1, <2>2, <2>3 DEF Untouched
<1>11. ASSUME NEW y \in alive, NEW x \in Ancestry[y]
       PROVE  Untouched(x) \/ \E z \in Ancestry[y] : SaveSample'[z] \subseteq saved'
  <2>1. x \in alive /\ (origin[x] # None => parent[origin[x]] \in Ancestry[y])
    BY <1>6, AncestorsAre
  <2>2. CASE x = s
    BY <1>5, <2>2
  <2>3. CASE origin[x] = p
    BY <1>5, <2>1, <2>3, TypesKnown
  <2> QED
    BY <1>10, <2>1, <2>2, <2>3
<1>12. SheetsInvalidated
  BY <1>1, <1>9, <1>11, TouchedAreSavedThen
<1>13. ContextsInvalidated
  BY <1>5, <1>8, TypesKnown DEF ContextsInvalidated
<1> QED
  BY <1>12, <1>13

(* A deleted piece disappears from the split it came from, which is listed *)
(* for its parent.                                                         *)
LEMMA DeletePieceSheets ==
  ASSUME InvalidationInv, InvalidationInv', NEW s \in Samples, DeletePiece(s)
  PROVE  SheetsInvalidated /\ ContextsInvalidated
<1>1. /\ s \in alive /\ origin[s] # None /\ (\A p \in live : s \notin members[p])
      /\ alive' = alive \ {s} /\ series' = series \ {s} /\ results' = results /\ data' = data
      /\ live' = live /\ kind' = kind /\ parent' = parent /\ stamp' = stamp /\ values' = values
      /\ members' = members
      /\ saved' = SaveSample[s]
  BY DEF DeletePiece, SaveSamples, processVars
<1>2. \A x \in Samples : x # s => origin'[x] = origin[x]
  BY TypesKnown DEF DeletePiece
<1>3. \A x \in Samples : origin[x] # None => parent[origin[x]] # s
  BY <1>1, NoPieces
<1>4. LineageKept
  BY <1>1, <1>2, <1>3, TypesKnown DEF LineageKept, InvalidationInv, PiecesHaveParents
<1>5. origin[s] \in Processes /\ kind[origin[s]] = "split"
  BY <1>1, TypesKnown DEF InvalidationInv, PiecesHaveParents
<1>6. /\ SaveSample[parent[origin[s]]] \subseteq saved'
      /\ Process(origin[s]) \in saved'
  BY <1>1, ParentsSaved
<1>7. \A p \in Processes : p # origin[s] => Pieces(p)' = Pieces(p)
  BY <1>1, <1>2, TypesKnown DEF Pieces
<1>8. \A p \in Processes : p # origin[s] => Context(p)' = Context(p)
  BY <1>1, <1>7 DEF Context
<1>9. ContextsInvalidated
  BY <1>6, <1>8, TypesKnown DEF ContextsInvalidated
<1>10. ASSUME NEW x \in alive, x # s
       PROVE  Untouched(x) \/ SaveSample[x] \subseteq saved'
  <2>1. x \in Samples /\ ListedFor(x) \subseteq Processes
    BY TypesKnown DEF ListedFor
  <2>2. ListedFor(x)' = ListedFor(x)
    BY <1>1, <1>10 DEF ListedFor
  <2>3. CASE origin[s] \in ListedFor(x)
    BY <1>5, <1>6, <2>1, <2>3, SplitsListed
  <2>4. CASE origin[s] \notin ListedFor(x)
    BY <1>1, <1>8, <2>1, <2>2, <2>4 DEF Untouched
  <2> QED
    BY <2>3, <2>4
<1>11. ASSUME NEW y \in alive \cap alive', NEW x \in Ancestry[y]
       PROVE  Untouched(x) \/ \E z \in Ancestry[y] : SaveSample[z] \subseteq saved'
  <2>1. x \in alive \cap alive'
    BY <1>4, SameAncestors
  <2> QED
    BY <1>1, <1>10, <2>1
<1>12. SheetsInvalidated
  BY <1>1, <1>4, <1>11, TouchedAreSaved
<1> QED
  BY <1>9, <1>12

-----------------------------------------------------------------------------
(* What is saved are samples and processes.                                *)
LEMMA ThingsAreSaved ==
  ASSUME InvalidationInv, InvalidationInv', saved \subseteq Things, [Next]_vars
  PROVE  saved' \subseteq Things
<1>1. ASSUME NEW ss \in SUBSET Samples
      PROVE  SaveSamples(ss) \subseteq Things
  BY ParentsSaved DEF SaveSamples
<1>2. /\ alive \subseteq Samples /\ series \subseteq alive /\ \A p \in Processes : members[p] \subseteq alive
      /\ \A p \in Processes : Process(p) \in Things
  BY TypesKnown DEF InvalidationInv, RecordTypes, Things
<1>3. \A p \in Processes : SaveProcess(p) \subseteq Things
  BY <1>1, <1>2 DEF SaveProcess, SamplesOf
<1>4. ASSUME born' \in Samples, SaveNew
      PROVE  saved' \subseteq Things
  <2>1. saved' = SaveSample'[born']
    BY <1>4 DEF SaveNew, SaveSamples
  <2>2. SaveSample'[born'] \subseteq Things'
    BY <1>4, ParentsSavedThen
  <2>3. Things' = Things
    BY DEF Things, Sample, Process
  <2> QED
    BY <2>1, <2>2, <2>3
<1>5. CASE AddSample
  BY <1>4, <1>5, NewSampleIs DEF AddSample
<1>6. ASSUME NEW s \in Samples, EditSample(s) \/ DeletePiece(s)
      PROVE  saved' \subseteq Things
  BY <1>1, <1>6 DEF EditSample, DeletePiece
<1>7. ASSUME NEW s \in Samples, NEW t, Split(s, t)
      PROVE  saved' \subseteq Things
  BY <1>4, <1>7, NewSampleIs DEF Split, NewPiece
<1>8. ASSUME NEW ss \in SUBSET alive, NEW t \in 0 .. now, AddPhysical(ss, t) \/ \E inSeries \in BOOLEAN : AddResult(ss, inSeries, t)
      PROVE  saved' \subseteq Things
  <2>1. made' \in Processes
    <3>1. made < MaxProcs /\ made' = made + 1
      BY <1>8 DEF AddPhysical, AddResult, NewProcess
    <3> QED
      BY <3>1, InvalidationAssumption DEF Processes, InvalidationInv, RecordTypes
  <2>2. SaveSamples(ss) \subseteq Things /\ SaveSamples(ss \cup series) \subseteq Things
        /\ SaveSamples(ss \cup {}) \subseteq Things /\ Process(made') \in Things
    BY <1>1, <1>2, <2>1
  <2> QED
    BY <1>8, <2>2 DEF AddPhysical, AddResult
<1>9. ASSUME NEW ss \in SUBSET alive, NEW t \in 0 .. now, NEW p \in Processes, EditProcess(p, ss, t)
      PROVE  saved' \subseteq Things
  <2>1. saved' = SaveProcess(p) \cup SaveSamples(ss)
    BY <1>9 DEF EditProcess
  <2> QED
    BY <1>1, <1>2, <1>3, <2>1
<1>10. ASSUME NEW ss \in SUBSET alive, EditSeries(ss)
       PROVE  saved' \subseteq Things
  <2>1. saved' = SaveSamples((ss \ series) \cup (series \ ss))
    BY <1>10 DEF EditSeries
  <2>2. (ss \ series) \cup (series \ ss) \in SUBSET Samples
    BY <1>2
  <2> QED
    BY <1>1, <2>1, <2>2
<1>11. ASSUME NEW p \in Processes, Resplit(p) \/ DeleteProcess(p)
       PROVE  saved' \subseteq Things
  BY <1>3, <1>4, <1>11, NewSampleIs DEF Resplit, DeleteProcess, NewPiece
<1>12. CASE UNCHANGED vars
  BY <1>12 DEF vars
<1>13. CASE \E s \in Samples : EditSample(s) \/ SplitNow(s) \/ DeletePiece(s)
  BY <1>6, <1>7, <1>13 DEF SplitNow
<1>14. CASE \E ss \in SUBSET alive, t \in 0 .. now :
             \/ AddPhysical(ss, t) /\ ss # {}
             \/ \E inSeries \in BOOLEAN : AddResult(ss, inSeries, t)
             \/ \E p \in Processes : EditProcess(p, ss, t)
  BY <1>8, <1>9, <1>14
<1>15. CASE \E p \in Processes, s \in alive : SplitAfterDeposition(s, p)
  BY <1>2, <1>7, <1>15 DEF SplitAfterDeposition
<1> QED
  BY <1>5, <1>10, <1>11, <1>12, <1>13, <1>14, <1>15 DEF Next

LEMMA StepInvalidates ==
  ASSUME InvalidationInv, InvalidationInv', Next
  PROVE  SheetsInvalidated /\ ContextsInvalidated
<1>1. CASE AddSample
  BY <1>1, AddSampleSheets
<1>2. CASE \E s \in Samples : EditSample(s) \/ SplitNow(s) \/ DeletePiece(s)
  <2> PICK s \in Samples : EditSample(s) \/ SplitNow(s) \/ DeletePiece(s)
    BY <1>2
  <2>1. now \in 0 .. now + 1
    BY TypesKnown
  <2> QED
    BY <2>1, EditSampleSheets, SplitSheets, DeletePieceSheets DEF SplitNow
<1>3. CASE \E ss \in SUBSET alive, t \in 0 .. now :
             \/ AddPhysical(ss, t) /\ ss # {}
             \/ \E inSeries \in BOOLEAN : AddResult(ss, inSeries, t)
             \/ \E p \in Processes : EditProcess(p, ss, t)
  BY <1>3, AddPhysicalSheets, AddResultSheets, EditProcessSheets
<1>4. CASE \E ss \in SUBSET alive : EditSeries(ss)
  BY <1>4, EditSeriesSheets
<1>5. CASE \E p \in Processes : Resplit(p) \/ DeleteProcess(p)
  BY <1>5, ResplitSheets, DeleteProcessSheets
<1>6. CASE \E p \in Processes, s \in alive : SplitAfterDeposition(s, p)
  <2> PICK p \in Processes, s \in alive : SplitAfterDeposition(s, p)
    BY <1>6
  <2>1. s \in Samples /\ stamp[p] + 1 \in 0 .. now + 1
    BY TypesKnown
  <2> QED
    BY <2>1, SplitSheets DEF SplitAfterDeposition
<1> QED
  BY <1>1, <1>2, <1>3, <1>4, <1>5, <1>6 DEF Next

(* Every request deletes all cached process contexts it makes obsolete,    *)
(* and all data sheets of samples the splits of which are in the order of  *)
(* the generations, for any number of samples, generations, processes and  *)
(* requests.                                                               *)
THEOREM OrderlySheetsAreInvalidated == Spec => OrderlySheetsInvalidated
<1> DEFINE Inv == InvalidationInv /\ saved \subseteq Things
<1>1. Init => Inv
  <2>1. Init => saved = {}
    BY DEF Init
  <2> QED
    BY <2>1, InitOK
<1>2. Inv /\ [Next]_vars => Inv'
  <2> SUFFICES ASSUME Inv, [Next]_vars
               PROVE  InvalidationInv' /\ saved' \subseteq Things'
    OBVIOUS
  <2>1. InvalidationInv'
    BY StepOK
  <2>2. Things' = Things
    BY DEF Things, Sample, Process
  <2> QED
    BY <2>1, <2>2, ThingsAreSaved
<1>3. Inv /\ Inv' /\ [Next]_vars =>
        [TypeOK' /\ ContextsInvalidated /\ \A s \in Samples : Orderly(s)' => ~Outdated(s)]_vars
  <2> SUFFICES ASSUME Inv, Inv', Next
               PROVE  TypeOK' /\ ContextsInvalidated /\ \A s \in Samples : Orderly(s)' => ~Outdated(s)
    OBVIOUS
  <2>1. TypeOK'
    BY DEF TypeOK, InvalidationInv, Things
  <2> QED
    BY <2>1, StepInvalidates DEF SheetsInvalidated
<1> QED
  BY <1>1, <1>2, <1>3, PTL DEF Spec, OrderlySheetsInvalidated
=============================================================================
