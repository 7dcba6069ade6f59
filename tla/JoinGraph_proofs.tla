--------------------------- MODULE JoinGraph_proofs ---------------------------
(***************************************************************************)
(* Facts about the graphs of the join closures (MetadataResolutionV3,      *)
(* MetadataResolutionV2), for every finite set of relations and of grants. *)
(*                                                                         *)
(* A grant j joins the relations e[j][1] and e[j][2].  That grants connect *)
(* a set of relations is said by its cuts: no part is without a grant that *)
(* leads out of it.  Trees are grown relation by relation, so a largest    *)
(* one (which exists, the sets being finite) takes the place of an         *)
(* induction.                                                              *)
(***************************************************************************)
EXTENDS Naturals, FiniteSets, FiniteSetTheorems, WellFoundedInduction, TLAPS

\* One end of j is in T and the other is not.
Cuts(e, j, T) ==
    \/ e[j][1] \in T /\ e[j][2] \notin T
    \/ e[j][1] \notin T /\ e[j][2] \in T

\* The grants of G hold S together.
Spans(e, S, G) ==
    \A T \in SUBSET S : T # {} /\ T # S => \E j \in G : Cuts(e, j, T)

\* The grants of G join relations of S.
Inside(e, S, G) == \A j \in G : e[j][1] \in S /\ e[j][2] \in S

-----------------------------------------------------------------------------
(* Finite sets                                                             *)

(* A finite set of numbers has a least one.                                *)
LEMMA LeastExists ==
  ASSUME NEW S \in SUBSET Nat, IsFiniteSet(S), S # {}
  PROVE  \E i \in S : \A j \in S : i <= j
<1> DEFINE below(i) == {k \in S : k < i}
           B == {below(i) : i \in S}
<1>1. IsWellFoundedOn(StrictSubsetOrdering(S), FiniteSubsetsOf(S))
  BY FS_StrictSubsetOrderingWellFounded
<1>2. B \subseteq FiniteSubsetsOf(S) /\ B # {}
  <2>1. FiniteSubsetsOf(S) = SUBSET S
    BY FS_FiniteSubsetsOfFinite
  <2>2. PICK i \in S : TRUE
    OBVIOUS
  <2>3. below(i) \in B
    OBVIOUS
  <2>4. ASSUME NEW b \in B PROVE b \in SUBSET S
    OBVIOUS
  <2> HIDE DEF B
  <2> QED
    BY <2>1, <2>3, <2>4
<1>3. PICK b \in B : \A a \in B : <<a, b>> \notin StrictSubsetOrdering(S)
  <2> HIDE DEF B
  <2> QED
    BY <1>1, <1>2, WFMin
<1>4. PICK i \in S : b = below(i)
  OBVIOUS
<1>5. ASSUME NEW k \in S, k < i PROVE FALSE
  <2> USE <1>5
  <2>1. below(k) \subseteq below(i)
    <3>1. \A m \in S : m \in Nat
      OBVIOUS
    <3>2. \A m \in S : m < k => m < i
      BY <3>1
    <3> QED
      BY <3>2
  <2>2. k \in below(i) /\ k \notin below(k)
    OBVIOUS
  <2>3. below(k) \in SUBSET S /\ below(i) \in SUBSET S /\ below(k) \in B
    OBVIOUS
  <2> HIDE DEF B, below
  <2>4. <<below(k), below(i)>> \in StrictSubsetOrdering(S)
    BY <2>1, <2>2, <2>3 DEF StrictSubsetOrdering
  <2> QED
    BY <1>3, <1>4, <2>3, <2>4
<1>6. \A j \in S : i <= j
  BY <1>5
<1> QED
  BY <1>6

(* A set of subsets of a finite set has one that no other contains.        *)
LEMMA LargestExists ==
  ASSUME NEW S, IsFiniteSet(S), NEW F \in SUBSET (SUBSET S), F # {}
  PROVE  \E T \in F : \A U \in F : T \subseteq U => U = T
<1> DEFINE C == {S \ T : T \in F}
<1>1. IsWellFoundedOn(StrictSubsetOrdering(S), FiniteSubsetsOf(S))
  BY FS_StrictSubsetOrderingWellFounded
<1>2. C \subseteq FiniteSubsetsOf(S) /\ C # {}
  <2>1. FiniteSubsetsOf(S) = SUBSET S
    BY FS_FiniteSubsetsOfFinite
  <2>2. C \subseteq SUBSET S
    OBVIOUS
  <2>3. C # {}
    <3>1. PICK T \in F : TRUE
      OBVIOUS
    <3>2. S \ T \in C
      OBVIOUS
    <3> QED
      BY <3>2
  <2> QED
    BY <2>1, <2>2, <2>3
<1>3. PICK c \in C : \A d \in C : <<d, c>> \notin StrictSubsetOrdering(S)
  <2> HIDE DEF C
  <2> QED
    BY <1>1, <1>2, WFMin
<1>4. PICK T \in F : c = S \ T
  OBVIOUS
<1>5. ASSUME NEW U \in F, T \subseteq U, U # T PROVE FALSE
  <2>1. S \ U \in C /\ S \ U \subseteq S \ T /\ S \ U # S \ T
    BY <1>5
  <2>2. <<S \ U, S \ T>> \in StrictSubsetOrdering(S)
    BY <2>1 DEF StrictSubsetOrdering
  <2> QED
    BY <1>3, <1>4, <2>1, <2>2
<1> QED
  BY <1>5

(* What a function makes of a finite set is finite.                        *)
LEMMA ImageFinite ==
  ASSUME NEW S, IsFiniteSet(S), NEW f
  PROVE  IsFiniteSet({f[x] : x \in S})
<1> DEFINE T == {f[x] : x \in S}
           g == [x \in S |-> f[x]]
<1>1. g \in Surjection(S, T)
  BY DEF Surjection
<1> QED
  BY <1>1, FS_Surjection

-----------------------------------------------------------------------------
(* Growing a tree                                                          *)

(* A grant that leads out of S connects its other end to what S was        *)
(* connected with.                                                         *)
LEMMA SpansGrows ==
  ASSUME NEW e, NEW S, NEW G, NEW j, NEW u \in S, NEW v,
         Spans(e, S, G), Inside(e, S, G), v \notin S,
         \/ e[j][1] = u /\ e[j][2] = v
         \/ e[j][1] = v /\ e[j][2] = u
  PROVE  Spans(e, S \cup {v}, G \cup {j})
<1> SUFFICES ASSUME NEW T \in SUBSET (S \cup {v}), T # {}, T # S \cup {v}
             PROVE  \E k \in G \cup {j} : Cuts(e, k, T)
  BY DEF Spans
<1>1. CASE T \cap S = {}
  <2>1. T = {v}
    BY <1>1
  <2> QED
    BY <2>1 DEF Cuts
<1>2. CASE T \cap S = S
  <2>1. T = S
    BY <1>2
  <2> QED
    BY <2>1 DEF Cuts
<1>3. CASE T \cap S # {} /\ T \cap S # S
  <2>1. PICK k \in G : Cuts(e, k, T \cap S)
    BY <1>3 DEF Spans
  <2>2. e[k][1] \in S /\ e[k][2] \in S
    BY DEF Inside
  <2> QED
    BY <2>1, <2>2 DEF Cuts
<1> QED
  BY <1>1, <1>2, <1>3

(* What more grants connect, or fewer fail to.                             *)
LEMMA SpansMore ==
  ASSUME NEW e, NEW S, NEW G, NEW H, Spans(e, S, G), G \subseteq H
  PROVE  Spans(e, S, H)
BY DEF Spans

(* A tree in a part of S extends to one of S: with one grant fewer than    *)
(* there are relations, all of them from G.                                *)
LEMMA TreeGrows ==
  ASSUME NEW e, NEW S, IsFiniteSet(S), NEW G, Inside(e, S, G), Spans(e, S, G),
         IsFiniteSet(G),
         NEW T0 \in SUBSET S, T0 # {}, NEW G0 \in SUBSET G,
         Inside(e, T0, G0), Spans(e, T0, G0),
         Cardinality(T0) = Cardinality(G0) + 1
  PROVE  \E G1 \in SUBSET G :
            G0 \subseteq G1 /\ Spans(e, S, G1) /\ Cardinality(S) = Cardinality(G1) + 1
<1> DEFINE Tree(T, H) ==
        /\ G0 \subseteq H
        /\ Inside(e, T, H) /\ Spans(e, T, H)
        /\ Cardinality(T) = Cardinality(H) + 1
      F == {T \in SUBSET S : T0 \subseteq T /\ \E H \in SUBSET G : Tree(T, H)}
<1>1. T0 \in F
  OBVIOUS
<1>2. PICK T \in F : \A U \in F : T \subseteq U => U = T
  <2> HIDE DEF F
  <2>1. F # {}
    BY <1>1
  <2>2. F \in SUBSET (SUBSET S)
    BY DEF F
  <2> QED
    BY <2>1, <2>2, LargestExists
<1>3. T \in SUBSET S /\ T0 \subseteq T
  OBVIOUS
<1>4. PICK H \in SUBSET G : Tree(T, H)
  OBVIOUS
<1>5. ASSUME T # S PROVE FALSE
  <2>1. PICK j \in G : Cuts(e, j, T)
    BY <1>3, <1>5 DEF Spans
  <2>2. PICK u \in T, v \in S \ T :
          \/ e[j][1] = u /\ e[j][2] = v
          \/ e[j][1] = v /\ e[j][2] = u
    BY <2>1 DEF Cuts, Inside
  <2>3. j \notin H
    BY <1>4, <2>2 DEF Inside
  <2>4. Spans(e, T \cup {v}, H \cup {j})
    BY <1>4, <2>2, SpansGrows
  <2>5. Inside(e, T \cup {v}, H \cup {j})
    BY <1>4, <2>2 DEF Inside
  <2>6. IsFiniteSet(T) /\ IsFiniteSet(H)
    BY <1>3, FS_Subset
  <2>7. Cardinality(T \cup {v}) = Cardinality(T) + 1
    BY <2>2, <2>6, FS_AddElement
  <2>8. Cardinality(H \cup {j}) = Cardinality(H) + 1
    BY <2>3, <2>6, FS_AddElement
  <2>9. Cardinality(T \cup {v}) = Cardinality(H \cup {j}) + 1
    BY <1>4, <2>7, <2>8
  <2>10. H \cup {j} \in SUBSET G /\ G0 \subseteq H \cup {j}
    BY <1>4
  <2>11. Tree(T \cup {v}, H \cup {j})
    BY <2>4, <2>5, <2>9, <2>10
  <2>12. T \cup {v} \in F
    BY <1>3, <2>2, <2>10, <2>11
  <2> QED
    BY <1>2, <2>2, <2>12
<1> QED
  BY <1>4, <1>5

(* One relation is a tree of its own.                                      *)
LEMMA TreeFromOne ==
  ASSUME NEW e, NEW S, IsFiniteSet(S), S # {}, NEW G, IsFiniteSet(G),
         Inside(e, S, G), Spans(e, S, G)
  PROVE  \E G1 \in SUBSET G : Spans(e, S, G1) /\ Cardinality(S) = Cardinality(G1) + 1
<1>1. PICK s \in S : TRUE
  OBVIOUS
<1>2. Spans(e, {s}, {}) /\ Inside(e, {s}, {})
  BY DEF Spans, Inside
<1>3. Cardinality({s}) = Cardinality({}) + 1
  <2>1. Cardinality({s}) = 1 /\ Cardinality({}) = 0
    BY FS_Singleton, FS_EmptySet
  <2> QED
    BY <2>1
<1>4. {s} \in SUBSET S /\ {s} # {} /\ {} \in SUBSET G
  OBVIOUS
<1> QED
  BY <1>2, <1>3, <1>4, TreeGrows

(* Connecting S takes at least one grant fewer than it has relations.      *)
LEMMA SpansNeeds ==
  ASSUME NEW e, NEW S, IsFiniteSet(S), S # {}, NEW G, IsFiniteSet(G),
         Inside(e, S, G), Spans(e, S, G)
  PROVE  Cardinality(S) <= Cardinality(G) + 1
<1>1. PICK G1 \in SUBSET G : Cardinality(S) = Cardinality(G1) + 1
  BY TreeFromOne
<1>2. Cardinality(G1) <= Cardinality(G) /\ Cardinality(G1) \in Nat /\ Cardinality(G) \in Nat
  BY FS_Subset, FS_CardinalityType
<1> QED
  BY <1>1, <1>2

(* With exactly as many, none of them can be spared.                       *)
LEMMA TreeIsMinimal ==
  ASSUME NEW e, NEW S, IsFiniteSet(S), S # {}, NEW G, IsFiniteSet(G),
         Inside(e, S, G), Cardinality(S) = Cardinality(G) + 1, NEW j \in G
  PROVE  ~Spans(e, S, G \ {j})
<1> SUFFICES ASSUME Spans(e, S, G \ {j}) PROVE FALSE
  OBVIOUS
<1>1. IsFiniteSet(G \ {j}) /\ Cardinality(G \ {j}) = Cardinality(G) - 1
  BY FS_RemoveElement
<1>2. Inside(e, S, G \ {j})
  BY DEF Inside
<1>3. Cardinality(S) <= Cardinality(G \ {j}) + 1
  BY <1>1, <1>2, SpansNeeds
<1>4. Cardinality(G) \in Nat
  BY FS_CardinalityType
<1> QED
  BY <1>1, <1>3, <1>4

(* With more, there are two ways to connect S.                             *)
LEMMA TwoTrees ==
  ASSUME NEW e, NEW S, IsFiniteSet(S), NEW G, IsFiniteSet(G), S # {},
         Inside(e, S, G), Spans(e, S, G), Cardinality(S) # Cardinality(G) + 1,
         \A j \in G : e[j][1] # e[j][2]
  PROVE  \E G1, G2 \in SUBSET G :
            /\ G1 # G2
            /\ Spans(e, S, G1) /\ Cardinality(S) = Cardinality(G1) + 1
            /\ Spans(e, S, G2) /\ Cardinality(S) = Cardinality(G2) + 1
<1>1. PICK G1 \in SUBSET G : Spans(e, S, G1) /\ Cardinality(S) = Cardinality(G1) + 1
  BY TreeFromOne
<1>2. PICK j \in G : j \notin G1
  <2>1. G1 # G /\ G1 \subseteq G
    BY <1>1
  <2>2. \E j \in G : j \notin G1
    BY ONLY <2>1
  <2> QED
    BY <2>2
<1> DEFINE T0 == {e[j][1], e[j][2]}
<1>3. Spans(e, T0, {j}) /\ Inside(e, T0, {j})
  <2>1. ASSUME NEW T \in SUBSET T0, T # {}, T # T0 PROVE Cuts(e, j, T)
    BY <2>1 DEF Cuts
  <2> QED
    BY <2>1 DEF Spans, Inside
<1>4. Cardinality(T0) = Cardinality({j}) + 1
  <2>1. IsFiniteSet({e[j][1]}) /\ Cardinality({e[j][1]}) = 1 /\ Cardinality({j}) = 1
    BY FS_Singleton
  <2>2. T0 = {e[j][1]} \cup {e[j][2]} /\ e[j][2] \notin {e[j][1]}
    OBVIOUS
  <2>3. Cardinality({e[j][1]} \cup {e[j][2]}) = 1 + 1
    BY <2>1, <2>2, FS_AddElement
  <2> QED
    BY <2>1, <2>2, <2>3
<1>5. T0 \in SUBSET S /\ T0 # {} /\ {j} \in SUBSET G
  BY DEF Inside
<1>6. PICK G2 \in SUBSET G :
        {j} \subseteq G2 /\ Spans(e, S, G2) /\ Cardinality(S) = Cardinality(G2) + 1
  <2> HIDE DEF T0
  <2> QED
    BY <1>3, <1>4, <1>5, TreeGrows
<1> QED
  BY <1>1, <1>2, <1>6
-----------------------------------------------------------------------------
(* Deciding whether there is one closure                                   *)

(* What was seen in a traversal from a is everything exactly if the grants *)
(* connect S: it lies in every set around a that no grant leads out of,    *)
(* and no grant leads out of it.                                           *)
LEMMA TraversalReaches ==
  ASSUME NEW e, NEW S, NEW B, Inside(e, S, B),
         NEW a \in S, NEW seen \in SUBSET S, a \in seen,
         \A j \in B : ~Cuts(e, j, seen),
         \A T \in SUBSET S : a \in T /\ (\A j \in B : ~Cuts(e, j, T)) => seen \subseteq T
  PROVE  seen = S <=> Spans(e, S, B)
<1>1. ASSUME seen # S PROVE ~Spans(e, S, B)
  BY <1>1 DEF Spans
<1>2. ASSUME seen = S PROVE Spans(e, S, B)
  <2> SUFFICES ASSUME NEW T \in SUBSET S, T # {}, T # S, \A j \in B : ~Cuts(e, j, T)
               PROVE  FALSE
    BY DEF Spans
  <2>1. CASE a \in T
    BY <1>2, <2>1
  <2>2. CASE a \notin T
    <3>1. \A j \in B : ~Cuts(e, j, S \ T)
      BY DEF Cuts, Inside
    <3>2. seen \subseteq S \ T
      BY <2>2, <3>1
    <3> QED
      BY <1>2, <3>2
  <2> QED
    BY <2>1, <2>2
<1> QED
  BY <1>1, <1>2

\* The ways to connect S by grants of B with none to spare.
Closures(e, S, B) ==
    {G \in SUBSET B : Spans(e, S, G) /\ \A j \in G : ~Spans(e, S, G \ {j})}

(* Their number is told by whether B connects S, and by its size.          *)
LEMMA ClosuresByCount ==
  ASSUME NEW e, NEW S, IsFiniteSet(S), S # {}, NEW B, IsFiniteSet(B), Inside(e, S, B),
         \A j \in B : e[j][1] # e[j][2]
  PROVE  /\ ~Spans(e, S, B) => Closures(e, S, B) = {}
         /\ Spans(e, S, B) /\ Cardinality(S) = Cardinality(B) + 1 => Closures(e, S, B) = {B}
         /\ Spans(e, S, B) /\ Cardinality(S) # Cardinality(B) + 1
              => Cardinality(Closures(e, S, B)) > 1
<1>1. ASSUME NEW G \in Closures(e, S, B) PROVE Spans(e, S, B)
  <2>1. G \subseteq B /\ Spans(e, S, G)
    BY DEF Closures
  <2> QED
    BY <2>1, SpansMore
<1>2. \A G \in SUBSET B : IsFiniteSet(G) /\ Inside(e, S, G)
  BY FS_Subset DEF Inside
<1>3. ASSUME NEW G \in SUBSET B, Spans(e, S, G), Cardinality(S) = Cardinality(G) + 1
      PROVE  G \in Closures(e, S, B)
  <2>1. \A j \in G : ~Spans(e, S, G \ {j})
    BY <1>2, <1>3, TreeIsMinimal
  <2> QED
    BY <1>3, <2>1 DEF Closures
<1>4. ASSUME Spans(e, S, B), Cardinality(S) = Cardinality(B) + 1
      PROVE  Closures(e, S, B) = {B}
  <2>1. B \in Closures(e, S, B)
    BY <1>3, <1>4
  <2>2. ASSUME NEW G \in Closures(e, S, B), NEW j \in B, j \notin G PROVE FALSE
    <3>1. Spans(e, S, G) /\ G \subseteq B \ {j}
      BY <2>2 DEF Closures
    <3>2. Spans(e, S, B \ {j})
      BY <3>1, SpansMore
    <3>3. ~Spans(e, S, B \ {j})
      BY <1>4, TreeIsMinimal
    <3> QED
      BY <3>2, <3>3
  <2>3. \A G \in Closures(e, S, B) : G \subseteq B
    BY DEF Closures
  <2>4. \A G \in Closures(e, S, B) : G = B
    BY <2>2, <2>3
  <2> QED
    BY <2>1, <2>4
<1>5. ASSUME Spans(e, S, B), Cardinality(S) # Cardinality(B) + 1
      PROVE  Cardinality(Closures(e, S, B)) > 1
  <2>1. PICK G1 \in SUBSET B, G2 \in SUBSET B :
            /\ G1 # G2
            /\ Spans(e, S, G1) /\ Cardinality(S) = Cardinality(G1) + 1
            /\ Spans(e, S, G2) /\ Cardinality(S) = Cardinality(G2) + 1
    BY <1>5, TwoTrees
  <2>2. G1 \in Closures(e, S, B) /\ G2 \in Closures(e, S, B)
    BY <1>3, <2>1
  <2>3. IsFiniteSet(Closures(e, S, B))
    <3>1. IsFiniteSet(SUBSET B)
      BY FS_SUBSET
    <3>2. Closures(e, S, B) \in SUBSET (SUBSET B)
      BY DEF Closures
    <3> QED
      BY <3>1, <3>2, FS_Subset
  <2>4. Cardinality(Closures(e, S, B)) \in Nat
    BY <2>3, FS_CardinalityType
  <2>5. Cardinality(Closures(e, S, B)) # 0
    BY <2>2, <2>3, FS_EmptySet
  <2>6. Cardinality(Closures(e, S, B)) # 1
    BY <2>1, <2>2, <2>3, FS_Singleton
  <2> QED
    BY <2>4, <2>5, <2>6
<1> QED
  BY <1>1, <1>4, <1>5
=============================================================================
