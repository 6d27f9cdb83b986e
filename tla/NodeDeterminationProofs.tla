------------------------ MODULE NodeDeterminationProofs ------------------------
(* Facts about the operators of NodeDetermination, for every cluster.       *)
EXTENDS NodeDetermination, FiniteSetTheorems, TLAPS

(* A listing of a finite set is a sequence of its elements, all of them.    *)
LEMMA ListingsType ==
    ASSUME NEW S, IsFiniteSet(S), NEW list \in Listings(S)
    PROVE  list \in Seq(S)
<1>1. Cardinality(S) \in Nat
  BY FS_CardinalityType
<1>2. list \in [1 .. Cardinality(S) -> S]
  BY DEF Listings
<1> QED
  BY <1>1, <1>2

LEMMA ListingsAll ==
    ASSUME NEW S, IsFiniteSet(S), NEW list \in Listings(S)
    PROVE  IsInjective(list) /\ Elements(list) = S
<1> DEFINE n == Cardinality(S)
<1>1. n \in Nat
  BY FS_CardinalityType
<1>2. list \in [1 .. n -> S] /\ IsInjective(list)
  BY DEF Listings
<1>3. list \in Injection(1 .. n, S)
  BY <1>2 DEF Injection, IsInjective
<1>4. Cardinality(1 .. n) = n
  BY <1>1, FS_Interval
<1>5. list \in Surjection(1 .. n, S)
  <2> HIDE DEF n
  <2>1. Cardinality(S) = n
    BY DEF n
  <2> QED
    BY <1>3, <1>4, <2>1, FS_Injection
<1> QED
  BY <1>2, <1>5 DEF Elements, Surjection

LEMMA SortedListingsType ==
    ASSUME NEW S, IsFiniteSet(S), NEW list \in SortedListings(S)
    PROVE  list \in Seq(S)
BY ListingsType DEF SortedListings

(* The names in a list of nodes are nodes.                                  *)
LEMMA ElementsType ==
    ASSUME NEW S, NEW list \in Seq(S)
    PROVE  Elements(list) \subseteq S
BY DEF Elements

(* Two listings of disjoint sets make one listing of their union.           *)
LEMMA ConcatenationListsOnce ==
    ASSUME NEW S, NEW T, S \cap T = {}, NEW s \in Seq(S), NEW t \in Seq(T),
           IsInjective(s), IsInjective(t), Elements(s) = S, Elements(t) = T
    PROVE  IsInjective(s \o t) /\ Elements(s \o t) = S \union T
<1>1. DOMAIN (s \o t) = 1 .. Len(s) + Len(t)
  OBVIOUS
<1>2. \A i \in DOMAIN s : i \in DOMAIN (s \o t) /\ (s \o t)[i] = s[i] /\ s[i] \in S
  OBVIOUS
<1>3. \A i \in DOMAIN t : /\ Len(s) + i \in DOMAIN (s \o t)
                        /\ (s \o t)[Len(s) + i] = t[i] /\ t[i] \in T
  OBVIOUS
<1>4. \A i \in DOMAIN (s \o t) :
        \/ i \in DOMAIN s
        \/ /\ i \notin DOMAIN s
           /\ i - Len(s) \in DOMAIN t
           /\ Len(s) + (i - Len(s)) = i
  OBVIOUS
<1>5. IsInjective(s \o t)
  <2> SUFFICES ASSUME NEW i \in DOMAIN (s \o t), NEW j \in DOMAIN (s \o t),
                      (s \o t)[i] = (s \o t)[j]
               PROVE  i = j
    BY DEF IsInjective
  <2>1. CASE i \in DOMAIN s /\ j \in DOMAIN s
    BY <2>1, <1>2 DEF IsInjective
  <2>2. CASE i \in DOMAIN s /\ j \notin DOMAIN s
    <3>1. (s \o t)[i] \in S
      BY <1>2, <2>2
    <3>2. (s \o t)[j] \in T
      BY <1>3, <1>4, <2>2
    <3> QED
      BY <3>1, <3>2
  <2>3. CASE i \notin DOMAIN s /\ j \in DOMAIN s
    <3>1. (s \o t)[j] \in S
      BY <1>2, <2>3
    <3>2. (s \o t)[i] \in T
      BY <1>3, <1>4, <2>3
    <3> QED
      BY <3>1, <3>2
  <2>4. CASE i \notin DOMAIN s /\ j \notin DOMAIN s
    <3>1. i - Len(s) \in DOMAIN t /\ j - Len(s) \in DOMAIN t
      BY <1>4, <2>4
    <3>2. t[i - Len(s)] = t[j - Len(s)]
      BY <1>3, <1>4, <2>4
    <3>3. i - Len(s) = j - Len(s)
      BY <3>1, <3>2 DEF IsInjective
    <3> QED
      BY <3>3, <1>4, <2>4
  <2> QED
    BY <2>1, <2>2, <2>3, <2>4
<1>6. S \union T \subseteq Elements(s \o t)
  BY <1>2, <1>3 DEF Elements
<1>7. Elements(s \o t) \subseteq S \union T
  BY <1>2, <1>3, <1>4 DEF Elements
<1> QED
  BY <1>5, <1>6, <1>7

(* Every node the determination picks is in the cluster.                    *)
LEMMA SelectedArePresent ==
    ASSUME NEW nodes, NEW selector
    PROVE  SelectedNodes(nodes, selector) \subseteq Present(nodes)
<1>1. PoolMatches(nodes, selector) \subseteq Present(nodes)
  BY DEF PoolMatches, Matching
<1>2. SelectorMatches(nodes, selector) \subseteq Present(nodes)
  BY DEF SelectorMatches, Matching
<1> QED
  BY <1>1, <1>2 DEF SelectedNodes

LEMMA PrimersArePresent ==
    ASSUME NEW nodes, NEW prime \in BOOLEAN, NEW selected, selected \subseteq Present(nodes)
    PROVE  PrimerNodes(nodes, prime, selected) \subseteq Present(nodes)
BY DEF PrimerNodes, LabeledPrimerNodes, FirstEligible

(* The two lists are lists of nodes.                                        *)
LEMMA DeterminationsType ==
    ASSUME NEW nodes, NEW spec, spec.prime \in BOOLEAN,
           NEW d \in Determinations(nodes, spec)
    PROVE  /\ d.targeted \in Seq(Node)
           /\ d.primers \in Seq(Node)
<1> DEFINE selected == SelectedNodes(nodes, spec.selector)
           base == BaseTargets(nodes, spec.prime, selected)
           appended == AppendedPrimers(nodes, spec.prime, selected)
           primers == PrimerNodes(nodes, spec.prime, selected)
<1>1. PICK b \in SortedListings(base), a \in Listings(appended),
           p \in SortedListings(primers) : d = [targeted |-> b \o a, primers |-> p]
  BY DEF Determinations
<1>2. selected \subseteq Node /\ primers \subseteq Node
  BY SelectedArePresent, PrimersArePresent DEF Present
<1>3. base \subseteq Node /\ appended \subseteq Node
  BY <1>2 DEF BaseTargets, AppendedPrimers
<1>4. IsFiniteSet(base) /\ IsFiniteSet(appended) /\ IsFiniteSet(primers)
  BY <1>2, <1>3, NodeAssumption, FS_Subset
<1>5. b \in Seq(Node) /\ a \in Seq(Node) /\ p \in Seq(Node)
  <2>1. b \in Seq(base) /\ a \in Seq(appended) /\ p \in Seq(primers)
    BY <1>4, ListingsType, SortedListingsType
  <2> QED
    BY <2>1, <1>2, <1>3
<1> QED
  BY <1>1, <1>5

(* Each list holds every node once, and the primers are among the targets.  *)
LEMMA DeterminationLists ==
    ASSUME NEW c, NEW s, s.prime \in BOOLEAN, NEW d \in Determinations(c, s)
    PROVE  /\ IsInjective(d.targeted) /\ Elements(d.targeted) = TargetSet(c, s)
           /\ IsInjective(d.primers)
           /\ Elements(d.primers) = PrimerNodes(c, s.prime, SelectedNodes(c, s.selector))
           /\ Elements(d.primers) \subseteq Elements(d.targeted)
           /\ Elements(d.targeted) \ Elements(d.primers) \subseteq
                  SelectedNodes(c, s.selector)
<1> DEFINE selected == SelectedNodes(c, s.selector)
           base == BaseTargets(c, s.prime, selected)
           appended == AppendedPrimers(c, s.prime, selected)
           primers == PrimerNodes(c, s.prime, selected)
<1>1. PICK b \in SortedListings(base), a \in Listings(appended),
           p \in SortedListings(primers) : d = [targeted |-> b \o a, primers |-> p]
  BY DEF Determinations
<1>2. selected \subseteq Node /\ primers \subseteq Node
  BY SelectedArePresent, PrimersArePresent DEF Present
<1>3. base \subseteq Node /\ appended \subseteq Node
  BY <1>2 DEF BaseTargets, AppendedPrimers
<1>4. IsFiniteSet(base) /\ IsFiniteSet(appended) /\ IsFiniteSet(primers)
  BY <1>2, <1>3, NodeAssumption, FS_Subset
<1>5. b \in Listings(base) /\ p \in Listings(primers)
  BY DEF SortedListings
<1>6. IsInjective(b) /\ Elements(b) = base
  BY <1>4, <1>5, ListingsAll
<1>7. IsInjective(a) /\ Elements(a) = appended
  BY <1>4, ListingsAll
<1>8. IsInjective(p) /\ Elements(p) = primers
  BY <1>4, <1>5, ListingsAll
<1>9. b \in Seq(base) /\ a \in Seq(appended)
  BY <1>4, <1>5, ListingsType
<1>10. base \cap appended = {} /\ primers \subseteq base \union appended
  BY DEF AppendedPrimers
<1>11. IsInjective(b \o a) /\ Elements(b \o a) = base \union appended
  <2> HIDE DEF base, appended
  <2> QED
    BY <1>6, <1>7, <1>9, <1>10, ConcatenationListsOnce
<1>12. (base \union appended) \ primers \subseteq selected
  BY DEF BaseTargets, AppendedPrimers
<1>13. base \union appended = TargetSet(c, s)
  BY DEF TargetSet
<1>14. d.targeted = b \o a /\ d.primers = p
  BY <1>1
<1> HIDE DEF base, appended, primers, selected
<1> QED
  BY <1>8, <1>10, <1>11, <1>12, <1>13, <1>14 DEF primers, selected

================================================================================
