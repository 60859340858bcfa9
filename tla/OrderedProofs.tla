----------------------------- MODULE OrderedProofs ----------------------------
(***************************************************************************)
(* Finite sets of numbers in their order, and sequences of whatever        *)
(* elements: the lemmas that the proofs about several components need.     *)
(***************************************************************************)
EXTENDS Ordered, FiniteSetsExt, FiniteSetTheorems, SequenceTheorems, WellFoundedInduction, TLAPS

\* There is no infinite descent of numbers.
LEMMA NatMinimum ==
    ASSUME NEW S, S \subseteq Nat, S # {}
    PROVE  Min(S) \in S /\ \A n \in S : Min(S) <= n
<1>1. PICK least \in S : \A n \in S : <<n, least>> \notin OpToRel(<, Nat)
  BY WFMin, NatLessThanWellFounded
<1>2. \A n \in S : least <= n
  <2> SUFFICES ASSUME NEW n \in S, n < least PROVE FALSE
    OBVIOUS
  <2>1. <<n, least>> \in Nat \X Nat /\ <<n, least>>[1] < <<n, least>>[2]
    OBVIOUS
  <2>2. <<n, least>> \in OpToRel(<, Nat)
    BY <2>1 DEF OpToRel
  <2> QED
    BY <1>1, <2>2
<1> QED
  BY <1>2 DEF Min

\* A finite set of numbers that is not empty has a largest one: the least number of the members
\* that lie beyond a member.
LEMMA IntMaximum ==
    ASSUME NEW S, S \subseteq Int, IsFiniteSet(S), S # {}
    PROVE  Max(S) \in S /\ \A n \in S : n <= Max(S)
<1> DEFINE Beyond(n) == {m \in S : m > n}
           counts == {Cardinality(Beyond(n)) : n \in S}
<1>1. \A n \in S : IsFiniteSet(Beyond(n)) /\ Cardinality(Beyond(n)) \in Nat
  <2> TAKE n \in S
  <2>1. Beyond(n) \in SUBSET S
    OBVIOUS
  <2> QED
    BY <2>1, FS_Subset, FS_CardinalityType
<1>2. counts \subseteq Nat /\ counts # {}
  BY <1>1
<1>3. PICK least \in counts : \A n \in counts : least <= n
  BY <1>2, NatMinimum
<1>4. PICK greatest \in S : least = Cardinality(Beyond(greatest))
  BY <1>3
<1>5. \A n \in S : n <= greatest
  <2> SUFFICES ASSUME NEW n \in S, ~(n <= greatest) PROVE FALSE
    OBVIOUS
  <2>1. n \in Int /\ greatest \in Int /\ n > greatest /\ ~(n > n)
    OBVIOUS
  <2>2. Beyond(n) \in SUBSET Beyond(greatest) /\ n \in Beyond(greatest) /\ n \notin Beyond(n)
    <3>1. ASSUME NEW m \in S, m > n PROVE m > greatest
      <4>1. m \in Int
        OBVIOUS
      <4> QED
        BY <2>1, <3>1, <4>1
    <3> QED
      BY <2>1, <3>1
  <2>3. Cardinality(Beyond(n)) <= Cardinality(Beyond(greatest))
        /\ Cardinality(Beyond(n)) # Cardinality(Beyond(greatest))
    BY <1>1, <2>2, FS_Subset
  <2>4. Cardinality(Beyond(greatest)) <= Cardinality(Beyond(n))
    BY <1>3, <1>4
  <2>5. PICK fewer, more \in Nat : fewer = Cardinality(Beyond(n)) /\ more = Cardinality(Beyond(greatest))
    BY <1>1
  <2>6. fewer <= more /\ fewer # more /\ more <= fewer
    BY <2>3, <2>4, <2>5
  <2> HIDE DEF Beyond
  <2> QED
    BY <2>6
<1> QED
  BY <1>5 DEF Max

\* In particular a set of naturals has one.
LEMMA FiniteMaximum ==
    ASSUME NEW S, S \subseteq Nat, IsFiniteSet(S), S # {}
    PROVE  Max(S) \in S /\ \A n \in S : n <= Max(S)
<1>1. S \subseteq Int
  OBVIOUS
<1> QED
  BY <1>1, IntMaximum

\* ... and a smallest, which is the opposite of the largest opposite.
LEMMA IntMinimum ==
    ASSUME NEW S, S \subseteq Int, IsFiniteSet(S), S # {}
    PROVE  Min(S) \in S /\ \A n \in S : Min(S) <= n
<1> DEFINE opposite == [n \in S |-> -n]
           opposites == {-n : n \in S}
<1>1. opposite \in Surjection(S, opposites)
  BY DEF Surjection
<1>2. IsFiniteSet(opposites)
  <2> HIDE DEF opposite, opposites
  <2> QED
    BY <1>1, FS_Surjection
<1>3. opposites \subseteq Int /\ opposites # {}
  OBVIOUS
<1>4. PICK greatest \in opposites : \A n \in opposites : n <= greatest
  <2> HIDE DEF opposite, opposites
  <2> QED
    BY <1>2, <1>3, IntMaximum
<1>5. PICK least \in S : greatest = -least
  OBVIOUS
<1>6. \A n \in S : least <= n
  <2> SUFFICES ASSUME NEW n \in S PROVE least <= n
    OBVIOUS
  <2>1. -n <= -least /\ n \in Int /\ least \in Int
    BY <1>4, <1>5
  <2> QED
    BY <2>1
<1> QED
  BY <1>6 DEF Min

\* So has a set of numbers with a bound.
LEMMA NatMaximum ==
    ASSUME NEW S, S \subseteq Nat, S # {}, NEW bound \in Nat, \A n \in S : n <= bound
    PROVE  Max(S) \in S /\ \A n \in S : n <= Max(S)
<1>1. S \in SUBSET (0..bound)
  <2> SUFFICES ASSUME NEW n \in S PROVE n \in 0..bound
    OBVIOUS
  <2>1. n \in Nat /\ n <= bound
    OBVIOUS
  <2> QED
    BY <2>1
<1>2. IsFiniteSet(0..bound)
  BY FS_Interval
<1>3. IsFiniteSet(S)
  BY <1>1, <1>2, FS_Subset
<1>4. S \subseteq Int
  OBVIOUS
<1> QED
  BY <1>3, <1>4, IntMaximum

Rank(S, n) == Cardinality({m \in S : m <= n})

LEMMA RankType ==
    ASSUME NEW S, S \subseteq Nat, IsFiniteSet(S), NEW n
    PROVE  Rank(S, n) \in Nat /\ IsFiniteSet({m \in S : m <= n})
<1>1. {m \in S : m <= n} \in SUBSET S
  OBVIOUS
<1> QED
  BY <1>1, FS_Subset, FS_CardinalityType DEF Rank

\* The rank grows with the member.
LEMMA RankGrows ==
    ASSUME NEW S, S \subseteq Nat, IsFiniteSet(S), NEW m \in Nat, NEW n \in S, m < n
    PROVE  Rank(S, m) < Rank(S, n)
<1> DEFINE upTo(x) == {k \in S : k <= x}
<1>1. upTo(m) \in SUBSET upTo(n) /\ n \in upTo(n) /\ n \notin upTo(m)
  <2>1. n \in Nat
    OBVIOUS
  <2>2. ASSUME NEW k \in S, k <= m PROVE k <= n
    <3>1. k \in Nat
      OBVIOUS
    <3> QED
      BY <2>1, <2>2, <3>1
  <2>3. n <= n /\ ~(n <= m)
    BY <2>1
  <2> QED
    BY <2>2, <2>3
<1>2. IsFiniteSet(upTo(n)) /\ Rank(S, m) \in Nat /\ Rank(S, n) \in Nat
  BY RankType
<1>3. Cardinality(upTo(m)) <= Cardinality(upTo(n)) /\ Cardinality(upTo(m)) # Cardinality(upTo(n))
  BY <1>1, <1>2, FS_Subset
<1> QED
  BY <1>2, <1>3 DEF Rank

\* Only one member has a rank.
LEMMA RankIdentifies ==
    ASSUME NEW S, S \subseteq Nat, IsFiniteSet(S), NEW m \in S, NEW n \in S, Rank(S, m) = Rank(S, n)
    PROVE  m = n
<1>1. m \in Nat /\ n \in Nat /\ Rank(S, m) \in Nat
  BY RankType
<1>2. ASSUME m < n PROVE FALSE
  <2>1. Rank(S, m) < Rank(S, n)
    BY <1>1, <1>2, RankGrows
  <2> QED
    BY <1>1, <2>1
<1>3. ASSUME n < m PROVE FALSE
  <2>1. Rank(S, n) < Rank(S, m)
    BY <1>1, <1>3, RankGrows
  <2> QED
    BY <1>1, <2>1
<1> QED
  BY <1>1, <1>2, <1>3

\* Each rank up to the number of members is that of one: of the least member of at least this
\* rank, for the one before it would do otherwise.
LEMMA NthMember ==
    ASSUME NEW S, S \subseteq Nat, IsFiniteSet(S), NEW k \in 1..Cardinality(S)
    PROVE  Nth(S, k) \in S /\ Rank(S, Nth(S, k)) = k
<1> DEFINE enough == {n \in S : Rank(S, n) >= k}
<1>1. Cardinality(S) \in Nat /\ S # {} /\ k \in Nat /\ k >= 1
  BY FS_CardinalityType, FS_EmptySet
<1>2. enough # {}
  <2>1. PICK greatest \in S : \A n \in S : n <= greatest
    <3>1. S \subseteq Int
      OBVIOUS
    <3> QED
      BY <1>1, <3>1, IntMaximum
  <2>2. {m \in S : m <= greatest} = S
    BY <2>1
  <2> QED
    BY <1>1, <2>2 DEF Rank
<1>3. PICK least \in enough : \A n \in enough : least <= n
  <2>1. enough \subseteq Nat
    OBVIOUS
  <2> QED
    BY <1>2, <2>1, NatMinimum
<1>4. Rank(S, least) = k
  <2> SUFFICES ASSUME Rank(S, least) # k PROVE FALSE
    OBVIOUS
  <2> DEFINE upTo == {m \in S : m <= least}
             before == upTo \ {least}
  <2>1. least \in Nat /\ least \in upTo /\ IsFiniteSet(upTo) /\ Rank(S, least) \in Nat
        /\ Rank(S, least) > k
    <3>1. least \in S /\ least \in Nat /\ Rank(S, least) >= k
      BY <1>3
    <3>2. IsFiniteSet(upTo) /\ Rank(S, least) \in Nat
      BY RankType
    <3>3. least <= least
      BY <3>1
    <3> QED
      BY <1>1, <3>1, <3>2, <3>3
  <2>2. IsFiniteSet(before) /\ Cardinality(before) = Rank(S, least) - 1
    BY <2>1, FS_RemoveElement DEF Rank
  <2>3. before # {}
    BY <1>1, <2>1, <2>2, FS_EmptySet
  <2>4. PICK greatest \in before : \A n \in before : n <= greatest
    <3>1. S \subseteq Int /\ before \subseteq S
      OBVIOUS
    <3> QED
      BY <2>2, <2>3, <3>1, IntMaximum
  <2>5. greatest \in S /\ greatest \in Nat /\ greatest < least
    BY <2>1, <2>4
  <2>6. {m \in S : m <= greatest} = before
    <3>1. ASSUME NEW m \in S, m <= greatest PROVE m \in before
      <4>1. m \in Nat
        OBVIOUS
      <4> QED
        BY <2>1, <2>5, <3>1, <4>1
    <3>2. before \subseteq {m \in S : m <= greatest}
      BY <2>4
    <3> QED
      BY <3>1, <3>2
  <2>7. Rank(S, greatest) = Rank(S, least) - 1
    BY <2>2, <2>6 DEF Rank
  <2>8. greatest \in enough
    BY <1>1, <2>1, <2>5, <2>7
  <2> QED
    BY <1>3, <2>1, <2>5, <2>8
<1> QED
  BY <1>3, <1>4 DEF Nth, Rank

\* The member of rank k is the k-th.
LEMMA NthOfRank ==
    ASSUME NEW S, S \subseteq Nat, IsFiniteSet(S), NEW n \in S
    PROVE  Rank(S, n) \in 1..Cardinality(S) /\ Nth(S, Rank(S, n)) = n
<1>1. {m \in S : m <= n} \in SUBSET S /\ n \in Nat /\ n \in {m \in S : m <= n}
  OBVIOUS
<1>2. Rank(S, n) \in Nat /\ Rank(S, n) <= Cardinality(S) /\ Cardinality(S) \in Nat /\ Rank(S, n) # 0
  BY <1>1, RankType, FS_Subset, FS_CardinalityType, FS_EmptySet DEF Rank
<1>3. Rank(S, n) \in 1..Cardinality(S)
  BY <1>2
<1>4. Nth(S, Rank(S, n)) \in S /\ Rank(S, Nth(S, Rank(S, n))) = Rank(S, n)
  BY <1>3, NthMember
<1> QED
  BY <1>3, <1>4, RankIdentifies

\* The elements at some positions of a sequence are elements of it, as many as positions.
LEMMA AtElement ==
    ASSUME NEW s, NEW P, P \subseteq Nat, IsFiniteSet(P), NEW k \in 1..Cardinality(P)
    PROVE  Nth(P, k) \in P /\ At(s, P)[k] = s[Nth(P, k)]
<1>1. Nth(P, k) \in P
  BY NthMember
<1> QED
  BY <1>1 DEF At

LEMMA AtSequence ==
    ASSUME NEW s, NEW P, P \subseteq Nat, IsFiniteSet(P)
    PROVE  /\ At(s, P) \in Seq({s[i] : i \in P})
           /\ Len(At(s, P)) = Cardinality(P) /\ Cardinality(P) \in Nat
<1>1. Cardinality(P) \in Nat
  BY FS_CardinalityType
<1>2. \A k \in 1..Cardinality(P) : Nth(P, k) \in P
  BY NthMember
<1>3. At(s, P) \in [1..Cardinality(P) -> {s[i] : i \in P}]
  BY <1>2 DEF At
<1> QED
  BY <1>1, <1>3

\* A set of numbers in its order is a sequence of its members, each once.
LEMMA InOrderMembers ==
    ASSUME NEW S, S \subseteq Nat, IsFiniteSet(S)
    PROVE  /\ InOrder(S) \in Seq(S) /\ Len(InOrder(S)) = Cardinality(S) /\ Cardinality(S) \in Nat
           /\ DOMAIN InOrder(S) = 1..Cardinality(S)
           /\ \A k \in 1..Cardinality(S) : InOrder(S)[k] = Nth(S, k) /\ Nth(S, k) \in S
<1>1. Cardinality(S) \in Nat
  BY FS_CardinalityType
<1>2. \A k \in 1..Cardinality(S) : Nth(S, k) \in S
  BY NthMember
<1>3. InOrder(S) \in [1..Cardinality(S) -> S]
  BY <1>2 DEF InOrder
<1> QED
  BY <1>1, <1>2, <1>3 DEF InOrder

\* Some set of a family of finite sets is least: without any of its members it is not in it.
LEMMA LeastSet ==
    ASSUME NEW S, IsFiniteSet(S), NEW F, F \subseteq SUBSET S, F # {}
    PROVE  \E T \in F : \A x \in T : T \ {x} \notin F
<1> DEFINE sizes == {Cardinality(T) : T \in F}
<1>1. \A T \in F : IsFiniteSet(T) /\ Cardinality(T) \in Nat
  BY FS_Subset, FS_CardinalityType
<1>2. sizes \subseteq Nat /\ sizes # {}
  BY <1>1
<1>3. PICK least \in sizes : \A n \in sizes : least <= n
  BY <1>2, NatMinimum
<1>4. PICK T \in F : least = Cardinality(T)
  BY <1>3
<1>5. ASSUME NEW x \in T, T \ {x} \in F PROVE FALSE
  <2>1. Cardinality(T \ {x}) = Cardinality(T) - 1
    BY <1>1, FS_RemoveElement
  <2>2. PICK fewer \in Nat : fewer = Cardinality(T \ {x})
    BY <1>1, <1>5
  <2>3. least <= fewer /\ fewer = least - 1 /\ least \in Nat
    BY <1>1, <1>3, <1>4, <1>5, <2>1, <2>2
  <2> QED
    BY <2>3
<1> QED
  BY <1>5

\* Whatever the weights, there is such an order: otherwise a least set without one would have
\* one, with its lightest member behind those of the set without that member.
Descends(seq, S, weight) ==
    /\ seq \in [1..Cardinality(S) -> S]
    /\ \A i, j \in 1..Cardinality(S) : i < j => seq[i] # seq[j] /\ weight[seq[i]] >= weight[seq[j]]

LEMMA DescentExtends ==
    ASSUME NEW S, IsFiniteSet(S), NEW weight, \A x \in S : weight[x] \in Int, NEW lightest \in S,
           \A x \in S : weight[lightest] <= weight[x],
           NEW seq, Descends(seq, S \ {lightest}, weight)
    PROVE  \E longer : Descends(longer, S, weight)
<1> DEFINE n == Cardinality(S \ {lightest})
           longer == [i \in 1..n + 1 |-> IF i \in 1..n THEN seq[i] ELSE lightest]
<1>1. n \in Nat /\ Cardinality(S) = n + 1
  <2>1. IsFiniteSet(S \ {lightest}) /\ n = Cardinality(S) - 1
    BY FS_RemoveElement
  <2>2. n \in Nat /\ Cardinality(S) \in Nat
    BY <2>1, FS_CardinalityType
  <2> HIDE DEF n
  <2> QED
    BY <2>1, <2>2
<1>2. \A i \in 1..n : seq[i] \in S /\ seq[i] # lightest
  BY DEF Descends
<1>3. \A i, j \in 1..n : i < j => seq[i] # seq[j] /\ weight[seq[i]] >= weight[seq[j]]
  BY DEF Descends
<1> HIDE DEF n
<1>4. longer \in [1..n + 1 -> S]
  BY <1>2
<1>5. ASSUME NEW i \in 1..n + 1, NEW j \in 1..n + 1, i < j
      PROVE  longer[i] # longer[j] /\ weight[longer[i]] >= weight[longer[j]]
  <2>1. i \in 1..n /\ longer[i] = seq[i]
    BY <1>1, <1>5
  <2>2. CASE j \in 1..n
    BY <1>3, <1>5, <2>1, <2>2
  <2>3. CASE j \notin 1..n
    <3>1. longer[j] = lightest
      BY <2>3
    <3>2. seq[i] \in S /\ seq[i] # lightest /\ weight[seq[i]] \in Int /\ weight[lightest] \in Int
          /\ weight[lightest] <= weight[seq[i]]
      BY <1>2, <2>1
    <3> QED
      BY <2>1, <3>1, <3>2
  <2> QED
    BY <2>2, <2>3
<1> HIDE DEF longer
<1>6. Descends(longer, S, weight)
  BY <1>1, <1>4, <1>5 DEF Descends
<1> QED
  BY <1>6

LEMMA DescentExists ==
    ASSUME NEW S, IsFiniteSet(S), NEW weight, \A x \in S : weight[x] \in Int
    PROVE  \E seq : Descends(seq, S, weight)
<1> DEFINE without == {T \in SUBSET S : \A seq : ~Descends(seq, T, weight)}
<1> SUFFICES ASSUME without # {} PROVE FALSE
  OBVIOUS
<1>1. \A T \in SUBSET S : IsFiniteSet(T)
  BY FS_Subset
<1>2. PICK T \in without : \A x \in T : T \ {x} \notin without
  <2>1. without \subseteq SUBSET S
    OBVIOUS
  <2> HIDE DEF without
  <2> QED
    BY <2>1, LeastSet
<1>3. T # {}
  <2> SUFFICES ASSUME T = {} PROVE FALSE
    OBVIOUS
  <2>1. Cardinality(T) = 0
    BY FS_EmptySet
  <2>2. Descends([i \in 1..0 |-> 0], T, weight)
    BY <2>1 DEF Descends
  <2> QED
    BY <2>2
<1>4. PICK lightest \in T : \A x \in T : weight[lightest] <= weight[x]
  <2> DEFINE weights == {weight[x] : x \in T}
  <2>1. weights \subseteq Int /\ weights # {}
    BY <1>3
  <2>2. IsFiniteSet(weights)
    <3>1. [x \in T |-> weight[x]] \in Surjection(T, weights) /\ IsFiniteSet(T)
      BY <1>1 DEF Surjection
    <3> HIDE DEF weights
    <3> QED
      BY <3>1, FS_Surjection
  <2>3. Min(weights) \in weights /\ \A n \in weights : Min(weights) <= n
    <3> HIDE DEF weights
    <3> QED
      BY <2>1, <2>2, IntMinimum
  <2> QED
    BY <2>3
<1>5. PICK seq : Descends(seq, T \ {lightest}, weight)
  BY <1>2, <1>4
<1>6. IsFiniteSet(T) /\ \A x \in T : weight[x] \in Int
  BY <1>1
<1>7. \E longer : Descends(longer, T, weight)
  <2> HIDE DEF without
  <2> QED
    BY <1>4, <1>5, <1>6, DescentExtends
<1> QED
  BY <1>7

\* What Descending is: every member once, none before a heavier one.
LEMMA DescendingMembers ==
    ASSUME NEW weight, IsFiniteSet(DOMAIN weight), \A x \in DOMAIN weight : weight[x] \in Int
    PROVE  LET n == Cardinality(DOMAIN weight)
               seq == Descending(weight)
           IN  /\ n \in Nat /\ seq \in [1..n -> DOMAIN weight]
               /\ \A x \in DOMAIN weight : \E i \in 1..n : seq[i] = x
               /\ \A i, j \in 1..n : i < j => seq[i] # seq[j] /\ weight[seq[i]] >= weight[seq[j]]
<1> DEFINE S == DOMAIN weight
           n == Cardinality(S)
           seq == Descending(weight)
<1> SUFFICES /\ n \in Nat /\ seq \in [1..n -> S]
             /\ \A x \in S : \E i \in 1..n : seq[i] = x
             /\ \A i, j \in 1..n : i < j => seq[i] # seq[j] /\ weight[seq[i]] >= weight[seq[j]]
  OBVIOUS
<1>1. PICK some : Descends(some, S, weight)
  BY DescentExists
<1>2. Descends(seq, S, weight)
  BY <1>1 DEF Descending, Descends
<1>3. n \in Nat
  BY FS_CardinalityType
<1>4. /\ seq \in [1..n -> S]
      /\ \A i, j \in 1..n : i < j => seq[i] # seq[j] /\ weight[seq[i]] >= weight[seq[j]]
  BY <1>2 DEF Descends
<1> HIDE DEF seq
<1>5. seq \in Injection(1..n, S)
  <2>1. ASSUME NEW i \in 1..n, NEW j \in 1..n, seq[i] = seq[j] PROVE i = j
    <3>1. ~(i < j) /\ ~(j < i)
      BY <1>4, <2>1
    <3> QED
      BY <3>1
  <2> QED
    BY <1>4, <2>1 DEF Injection, IsInjective
<1>6. IsFiniteSet(1..n) /\ Cardinality(1..n) = Cardinality(S)
  BY <1>3, FS_Interval
<1>7. seq \in Surjection(1..n, S)
  BY <1>5, <1>6, FS_Injection
<1> QED
  BY <1>3, <1>4, <1>7 DEF Surjection

-----------------------------------------------------------------------------
(* Sequences, of whatever elements                                         *)

IsSequence(s) == s \in Seq({s[i] : i \in 1..Len(s)})

LEMMA IsSequenceOf ==
    ASSUME NEW S, NEW s \in Seq(S)
    PROVE  IsSequence(s)
<1> DEFINE elements == {s[i] : i \in 1..Len(s)}
<1>1. s \in [1..Len(s) -> S] /\ Len(s) \in Nat
  BY LenProperties
<1>2. s \in [1..Len(s) -> elements]
  BY <1>1
<1>3. s \in Seq(elements)
  <2> HIDE DEF elements
  <2>1. \A n \in Nat : [1..n -> elements] \subseteq Seq(elements)
    OBVIOUS
  <2> QED
    BY <1>1, <1>2, <2>1
<1> QED
  BY <1>3 DEF IsSequence

\* A function on the first numbers is a sequence.
LEMMA IsSequenceOn ==
    ASSUME NEW n \in Nat, NEW s, DOMAIN s = 1..n, s = [i \in 1..n |-> s[i]]
    PROVE  IsSequence(s) /\ Len(s) = n
<1> DEFINE elements == {s[i] : i \in 1..n}
<1>1. s \in [1..n -> elements]
  OBVIOUS
<1>2. s \in Seq(elements)
  <2> HIDE DEF elements
  <2> QED
    BY <1>1
<1>3. Len(s) = n
  BY <1>2
<1> QED
  BY <1>2, <1>3, IsSequenceOf

LEMMA SequenceDomain ==
    ASSUME NEW s, IsSequence(s)
    PROVE  Len(s) \in Nat /\ DOMAIN s = 1..Len(s) /\ s = [i \in 1..Len(s) |-> s[i]]
<1> DEFINE elements == {s[i] : i \in 1..Len(s)}
<1>1. s \in Seq(elements)
  BY DEF IsSequence
<1> HIDE DEF elements
<1> QED
  BY <1>1, LenProperties

LEMMA EmptySequence == IsSequence(<<>>) /\ Len(<<>>) = 0
BY EmptySeq, LenProperties DEF IsSequence

LEMMA Appended ==
    ASSUME NEW s, IsSequence(s), NEW x
    PROVE  /\ IsSequence(Append(s, x))
           /\ Len(s) \in Nat /\ Len(Append(s, x)) = Len(s) + 1
           /\ \A i \in 1..Len(s) : Append(s, x)[i] = s[i]
           /\ Append(s, x)[Len(s) + 1] = x
<1> DEFINE old == {s[i] : i \in 1..Len(s)}
           new == old \union {x}
<1>1. s \in Seq(new) /\ Len(s) \in Nat /\ x \in new
  <2>1. s \in Seq(old)
    BY DEF IsSequence
  <2> HIDE DEF old
  <2> QED
    BY <2>1, LenProperties
<1> HIDE DEF old, new
<1>2. /\ Append(s, x) \in Seq(new) /\ Len(Append(s, x)) = Len(s) + 1
      /\ \A i \in 1..Len(s) : Append(s, x)[i] = s[i]
      /\ Append(s, x)[Len(s) + 1] = x
  BY <1>1, AppendProperties
<1>3. IsSequence(Append(s, x))
  BY <1>2, IsSequenceOf
<1> QED
  BY <1>1, <1>2, <1>3

LEMMA Shortened ==
    ASSUME NEW s, IsSequence(s), s # <<>>
    PROVE  IsSequence(Tail(s)) /\ Len(s) \in Nat /\ Len(s) > 0 /\ Len(Tail(s)) = Len(s) - 1
<1> DEFINE elements == {s[i] : i \in 1..Len(s)}
<1>1. s \in Seq(elements)
  BY DEF IsSequence
<1> HIDE DEF elements
<1>2. Len(s) \in Nat /\ Len(s) > 0 /\ Tail(s) \in Seq(elements) /\ Len(Tail(s)) = Len(s) - 1
  BY <1>1, LenProperties, EmptySeq, HeadTailProperties
<1>3. IsSequence(Tail(s))
  BY <1>2, IsSequenceOf
<1> QED
  BY <1>2, <1>3
=============================================================================
