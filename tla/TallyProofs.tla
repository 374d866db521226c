----------------------------- MODULE TallyProofs -----------------------------
(***************************************************************************)
(* Lemmas about the verdict on a poll and the counters it adds to: which   *)
(* tx has the majority, what is counted for whom, and that nothing falls.  *)
(***************************************************************************)
EXTENDS VoteTally, FunctionTheorems, WellFoundedInduction, FiniteSetTheorems, TLAPS

----------------------------------------------------------------------------
(* Least and greatest numbers, and finite sets.                            *)

(* A set of natural numbers that is not empty has a least element.         *)
LEMMA LeastNumber ==
  ASSUME NEW T \in SUBSET Nat, T # {}
  PROVE  \E m \in T : \A k \in T : m <= k
<1>1. \E x \in T : \A y \in T : ~ (<<y, x>> \in OpToRel(<, Nat))
  BY NatLessThanWellFounded, WFMin
<1>2. ASSUME NEW x \in Nat, NEW y \in Nat, y < x
      PROVE  <<y, x>> \in OpToRel(<, Nat)
  BY <1>2 DEF OpToRel
<1>3. PICK m \in T : \A k \in T : ~ (<<k, m>> \in OpToRel(<, Nat))
  BY <1>1
<1>4. ASSUME NEW k \in T PROVE m <= k
  <2>1. ~ (k < m)
    BY <1>2, <1>3
  <2>2. QED
    BY <2>1
<1>5. QED
  BY <1>4

(* The values of a function on a finite set.                               *)
LEMMA ImageFinite ==
  ASSUME NEW D, IsFiniteSet(D), NEW f
  PROVE  IsFiniteSet({f[i] : i \in D})
<1> DEFINE T == {f[i] : i \in D}
           g == [i \in D |-> f[i]]
<1>1. g \in [D -> T] /\ \A x \in T : \E i \in D : g[i] = x
  BY Zenon
<1>2. g \in Surjection(D, T)
  BY <1>1, Zenon DEF Surjection
<1>3. QED
  BY <1>2, FS_Surjection

----------------------------------------------------------------------------
(* The counters.                                                           *)

AreCounters(results) == \A k \in DOMAIN results : results[k] \in Nat
NoneFalls(before, after) ==
  /\ DOMAIN before \subseteq DOMAIN after
  /\ \A k \in DOMAIN before : after[k] >= before[k]

(* Counting outcomes leaves every counter there, as high as it was.        *)
LEMMA CountedRises ==
  ASSUME NEW results, AreCounters(results), NEW outcomes, IsFiniteSet(outcomes)
  PROVE  /\ AreCounters(Counted(results, outcomes))
         /\ NoneFalls(results, Counted(results, outcomes))
<1> DEFINE n(k) == Cardinality({o \in outcomes : o.key = k})
           after == Counted(results, outcomes)
<1>1. ASSUME NEW k PROVE n(k) \in Nat
  <2>1. {o \in outcomes : o.key = k} \subseteq outcomes
    OBVIOUS
  <2>2. IsFiniteSet({o \in outcomes : o.key = k})
    BY <2>1, FS_Subset
  <2>3. QED
    BY <2>2, FS_CardinalityType
<1>2. ASSUME NEW k \in DOMAIN after
      PROVE  after[k] = ValueAt(results, k) + n(k)
  BY DEF Counted
<1>3. DOMAIN results \subseteq DOMAIN after
  BY DEF Counted
<1>4. /\ \A k : ValueAt(results, k) \in Nat
      /\ \A k \in DOMAIN results : ValueAt(results, k) = results[k]
  BY DEF ValueAt, AreCounters
<1> HIDE DEF n, after
<1>5. ASSUME NEW k \in DOMAIN after PROVE after[k] \in Nat
  BY <1>1, <1>2, <1>4
<1>6. ASSUME NEW k \in DOMAIN results PROVE after[k] >= results[k]
  <2>1. after[k] = results[k] + n(k) /\ n(k) \in Nat /\ results[k] \in Nat
    BY <1>1, <1>2, <1>3, <1>4 DEF AreCounters
  <2>2. QED
    BY <2>1
<1>7. QED
  BY <1>3, <1>5, <1>6 DEF AreCounters, NoneFalls, after

(* So does registering the counters of a chain.                            *)
LEMMA RegisterKeeps ==
  ASSUME NEW results, AreCounters(results), NEW chain
  PROVE  /\ AreCounters(Register(results, chain))
         /\ NoneFalls(results, Register(results, chain))
         /\ DOMAIN Register(results, chain) = DOMAIN results \cup SeriesOf(chain)
<1> DEFINE D == DOMAIN results \cup SeriesOf(chain)
           after == Register(results, chain)
<1>1. DOMAIN after = D /\ \A k \in D : after[k] = ValueAt(results, k)
  BY DEF Register
<1>2. /\ \A k : ValueAt(results, k) \in Nat
      /\ \A k \in DOMAIN results : ValueAt(results, k) = results[k]
  BY DEF ValueAt, AreCounters
<1>3. \A k \in DOMAIN results : k \in D /\ results[k] \in Nat
  BY DEF AreCounters
<1> HIDE DEF after
<1>4. AreCounters(after)
  BY <1>1, <1>2 DEF AreCounters
<1> HIDE DEF D
<1>5. NoneFalls(results, after)
  BY <1>1, <1>2, <1>3 DEF NoneFalls
<1>6. QED
  BY <1>1, <1>4, <1>5 DEF after, D

----------------------------------------------------------------------------
(* Greatest numbers.                                                       *)

(* A set of numbers below a bound has a greatest one, which is its Max.    *)
LEMMA GreatestNumber ==
  ASSUME NEW T \in SUBSET Nat, T # {}, NEW b \in Nat, \A t \in T : t <= b
  PROVE  Max(T) \in T /\ \A t \in T : Max(T) >= t
<1> DEFINE D == {d \in Nat : \E t \in T : d = b - t}
<1>1. \E m \in D : \A d \in D : m <= d
  <2>1. PICK t \in T : TRUE
    OBVIOUS
  <2>2. t \in Nat /\ t <= b
    OBVIOUS
  <2>3. b - t \in D
    BY <2>2
  <2>4. D \in SUBSET Nat /\ D # {}
    BY <2>3
  <2> HIDE DEF D
  <2>5. QED
    BY <2>4, LeastNumber
<1>2. PICK m \in D : \A d \in D : m <= d
  BY <1>1
<1>3. PICK t \in T : m = b - t
  OBVIOUS
<1>4. ASSUME NEW u \in T PROVE t >= u
  <2>1. u \in Nat /\ u <= b /\ t \in Nat /\ t <= b
    OBVIOUS
  <2>2. b - u \in D
    BY <2>1
  <2>3. m <= b - u
    BY <1>2, <2>2
  <2>4. QED
    BY <1>3, <2>1, <2>3
<1> HIDE DEF D
<1>5. QED
  BY <1>4, Zenon DEF Max

Bounds(b, f, n) == b \in Nat /\ \A i \in 1..n : f[i] <= b

(* A list of numbers has a bound.                                          *)
LEMMA BoundExists ==
  ASSUME NEW n \in Nat, NEW f, \A i \in 1..n : f[i] \in Nat
  PROVE  \E b : Bounds(b, f, n)
<1> DEFINE T == {m \in 0..n : ~ \E b : Bounds(b, f, m)}
<1>1. SUFFICES ASSUME T # {} PROVE FALSE
  <2>1. n \in 0..n
    OBVIOUS
  <2>2. QED
    BY <1>1, <2>1
<1>2. PICK m \in T : \A k \in T : m <= k
  <2>1. T \in SUBSET Nat
    OBVIOUS
  <2> HIDE DEF T
  <2>2. QED
    BY <1>1, <2>1, LeastNumber
<1>3. m \in 0..n /\ ~ \E b : Bounds(b, f, m)
  OBVIOUS
<1>4. m # 0
  <2>1. Bounds(0, f, 0)
    BY DEF Bounds
  <2>2. QED
    BY <1>3, <2>1
<1>5. m - 1 \in 0..n /\ ~ (m <= m - 1) /\ m \in Nat /\ m \in 1..n
  BY <1>3, <1>4
<1>6. m - 1 \notin T
  <2> HIDE DEF T
  <2>1. QED
    BY <1>2, <1>5
<1>7. PICK b : Bounds(b, f, m - 1)
  BY <1>5, <1>6
<1>8. PICK c \in Nat : c >= b /\ c >= f[m]
  <2>1. b \in Nat /\ f[m] \in Nat
    BY <1>5, <1>7 DEF Bounds
  <2>2. QED
    BY <2>1
<1>9. Bounds(c, f, m)
  <2>1. ASSUME NEW i \in 1..m PROVE f[i] <= c
    <3>1. f[i] \in Nat /\ f[m] \in Nat /\ b \in Nat
      BY <1>5, <1>7 DEF Bounds
    <3>2. CASE i = m
      BY <3>1, <3>2, <1>8
    <3>3. CASE i # m
      <4>1. i \in 1..(m - 1)
        BY <3>3, <1>5
      <4>2. f[i] <= b
        BY <4>1, <1>7 DEF Bounds
      <4>3. QED
        BY <3>1, <4>2, <1>8
    <3>4. QED
      BY <3>2, <3>3
  <2>2. QED
    BY <2>1 DEF Bounds
<1>10. QED
  BY <1>3, <1>9

(* Tagging the members of a finite set gives as many tags.                 *)
LEMMA TaggedCount ==
  ASSUME NEW S, IsFiniteSet(S), NEW f, \A i \in S : f[i].entry = i
  PROVE  Cardinality({f[i] : i \in S}) = Cardinality(S)
<1> DEFINE T == {f[i] : i \in S}
           g == [i \in S |-> f[i]]
<1>1. g \in [S -> T] /\ \A x \in T : \E i \in S : g[i] = x
  BY Zenon
<1>2. \A i, j \in S : g[i] = g[j] => i = j
  OBVIOUS
<1>3. DOMAIN g = S
  OBVIOUS
<1> HIDE DEF g, T
<1>4. IsInjective(g)
  BY <1>2, <1>3 DEF IsInjective
<1>5. g \in Bijection(S, T)
  BY <1>1, <1>4, Zenon DEF Bijection, Injection, Surjection
<1>6. ExistsBijection(S, T)
  BY <1>5 DEF ExistsBijection
<1>7. QED
  BY <1>6, FS_Bijection DEF T

(* What makes a function a bijection.                                      *)
LEMMA BijectionIs ==
  ASSUME NEW D, NEW R, NEW f
  PROVE  f \in Bijection(D, R)
           <=> /\ f \in [D -> R]
               /\ \A x, y \in D : f[x] = f[y] => x = y
               /\ \A r \in R : \E d \in D : f[d] = r
<1>1. f \in [D -> R] => DOMAIN f = D
  OBVIOUS
<1>2. f \in Surjection(D, R) <=> f \in [D -> R] /\ \A r \in R : \E d \in D : f[d] = r
  BY DEF Surjection
<1>3. f \in Injection(D, R) <=> f \in [D -> R] /\ \A x, y \in D : f[x] = f[y] => x = y
  BY <1>1 DEF Injection, IsInjective
<1>4. QED
  BY <1>2, <1>3 DEF Bijection

(* A set counts as much as its image under an injection, and no more than  *)
(* a set that holds the image.                                             *)
LEMMA ImageCount ==
  ASSUME NEW A, IsFiniteSet(A), NEW f, \A x, y \in A : f[x] = f[y] => x = y
  PROVE  /\ IsFiniteSet({f[x] : x \in A})
         /\ Cardinality({f[x] : x \in A}) = Cardinality(A)
         /\ \A T : IsFiniteSet(T) /\ (\A x \in A : f[x] \in T)
                  => Cardinality(A) <= Cardinality(T)
<1> DEFINE B == {f[x] : x \in A}
           g == [x \in A |-> f[x]]
<1>1. g \in [A -> B] /\ \A x \in A : g[x] = f[x]
  OBVIOUS
<1>2. \A r \in B : \E x \in A : g[x] = r
  OBVIOUS
<1> HIDE DEF g
<1>3. \A x, y \in A : g[x] = g[y] => x = y
  BY <1>1
<1>4. g \in Bijection(A, B)
  <2> HIDE DEF B
  <2>1. QED
    BY <1>1, <1>2, <1>3, BijectionIs
<1>5. \A T : (\A x \in A : f[x] \in T) => B \subseteq T
  OBVIOUS
<1> HIDE DEF B
<1>6. IsFiniteSet(B) /\ Cardinality(B) = Cardinality(A)
  <2>1. ExistsBijection(A, B)
    BY <1>4 DEF ExistsBijection
  <2>2. QED
    BY <2>1, FS_Bijection
<1>7. \A T : IsFiniteSet(T) /\ B \subseteq T => Cardinality(B) <= Cardinality(T)
  BY FS_Subset
<1>8. QED
  BY <1>5, <1>6, <1>7 DEF B

(* Two bijections side by side.                                            *)
LEMMA BijectionJoined ==
  ASSUME NEW a \in Nat, NEW b \in Nat, NEW P, NEW Q, P \cap Q = {},
         NEW g \in Bijection(1..a, P), NEW f \in Bijection(1..b, Q)
  PROVE  [i \in 1..(a + b) |-> IF i <= a THEN g[i] ELSE f[i - a]]
           \in Bijection(1..(a + b), P \cup Q)
<1> DEFINE h == [i \in 1..(a + b) |-> IF i <= a THEN g[i] ELSE f[i - a]]
<1>1. /\ g \in [1..a -> P] /\ \A x, y \in 1..a : g[x] = g[y] => x = y
      /\ \A r \in P : \E d \in 1..a : g[d] = r
  BY BijectionIs
<1>2. /\ f \in [1..b -> Q] /\ \A x, y \in 1..b : f[x] = f[y] => x = y
      /\ \A r \in Q : \E d \in 1..b : f[d] = r
  BY BijectionIs
<1>3. ASSUME NEW i \in 1..(a + b)
      PROVE  \/ i \in 1..a /\ h[i] = g[i] /\ h[i] \in P /\ i <= a
             \/ i - a \in 1..b /\ h[i] = f[i - a] /\ h[i] \in Q /\ ~ (i <= a)
  <2>1. CASE i <= a
    <3>1. i \in 1..a
      BY <2>1
    <3>2. QED
      BY <1>1, <2>1, <3>1
  <2>2. CASE ~ (i <= a)
    <3>1. i - a \in 1..b
      BY <2>2
    <3>2. QED
      BY <1>2, <2>2, <3>1
  <2>3. QED
    BY <2>1, <2>2
<1>4. DOMAIN h = 1..(a + b) /\ h = [i \in 1..(a + b) |-> h[i]]
  OBVIOUS
<1>5. /\ \A i \in 1..a : i \in 1..(a + b) /\ h[i] = g[i]
      /\ \A j \in 1..b : j + a \in 1..(a + b) /\ h[j + a] = f[j]
  <2>1. ASSUME NEW j \in 1..b PROVE j + a \in 1..(a + b) /\ h[j + a] = f[j]
    <3>1. j + a \in 1..(a + b) /\ ~ (j + a <= a) /\ (j + a) - a = j
      OBVIOUS
    <3>2. QED
      BY <3>1
  <2>2. QED
    BY <2>1
<1> HIDE DEF h
<1>6. h \in [1..(a + b) -> P \cup Q]
  BY <1>3, <1>4
<1>7. ASSUME NEW x \in 1..(a + b), NEW y \in 1..(a + b), h[x] = h[y]
      PROVE  x = y
  <2>1. CASE x <= a
    <3>1. x \in 1..a /\ h[x] = g[x] /\ h[x] \in P
      BY <1>3, <2>1
    <3>2. y \in 1..a /\ h[y] = g[y]
      BY <1>3, <1>7, <3>1
    <3>3. QED
      BY <1>1, <1>7, <3>1, <3>2
  <2>2. CASE ~ (x <= a)
    <3>1. x - a \in 1..b /\ h[x] = f[x - a] /\ h[x] \in Q
      BY <1>3, <2>2
    <3>2. y - a \in 1..b /\ h[y] = f[y - a]
      BY <1>3, <1>7, <3>1
    <3>3. x - a = y - a
      BY <1>2, <1>7, <3>1, <3>2
    <3>4. QED
      BY <3>3
  <2>3. QED
    BY <2>1, <2>2
<1>8. ASSUME NEW r \in P \cup Q PROVE \E d \in 1..(a + b) : h[d] = r
  <2>1. CASE r \in P
    <3>1. PICK d \in 1..a : g[d] = r
      BY <1>1, <2>1
    <3>2. QED
      BY <1>5, <3>1
  <2>2. CASE r \in Q
    <3>1. PICK d \in 1..b : f[d] = r
      BY <1>2, <2>2
    <3>2. d + a \in 1..(a + b) /\ h[d + a] = r
      BY <1>5, <3>1
    <3>3. QED
      BY <3>2
  <2>3. QED
    BY <2>1, <2>2
<1> DEFINE D == 1..(a + b)
<1>9. h \in Bijection(D, P \cup Q)
  <2>1. /\ h \in [D -> P \cup Q] /\ \A x, y \in D : h[x] = h[y] => x = y
        /\ \A r \in P \cup Q : \E d \in D : h[d] = r
    BY <1>6, <1>7, <1>8
  <2> HIDE DEF D
  <2>2. QED
    BY <2>1, BijectionIs
<1>10. QED
  BY <1>9 DEF h

(* Nothing corresponds to nothing, one to one.                             *)
LEMMA SmallBijections ==
  /\ \A f : DOMAIN f = {} /\ f = [x \in DOMAIN f |-> f[x]] => f \in Bijection({}, {})
  /\ \A x : [i \in 1..1 |-> x] \in Bijection(1..1, {x})
<1>1. ASSUME NEW f, DOMAIN f = {}, f = [x \in DOMAIN f |-> f[x]]
      PROVE  f \in Bijection({}, {})
  <2>1. f \in [{} -> {}]
    BY <1>1
  <2>2. QED
    BY <2>1, BijectionIs
<1>2. ASSUME NEW x PROVE [i \in 1..1 |-> x] \in Bijection(1..1, {x})
  <2> DEFINE f == [i \in 1..1 |-> x]
  <2>1. f \in [1..1 -> {x}] /\ f[1] = x /\ \A i, j \in 1..1 : i = j
    OBVIOUS
  <2> HIDE DEF f
  <2>2. 1 \in 1..1
    OBVIOUS
  <2>3. f \in Bijection(1..1, {x})
    BY <2>1, <2>2, BijectionIs
  <2>4. QED
    BY <2>3 DEF f
<1>3. QED
  BY <1>1, <1>2

----------------------------------------------------------------------------
(* The majority.                                                           *)

Ballots(votes, n) ==
  n \in Nat /\ DOMAIN votes = 1..n /\ \A i \in 1..n : votes[i].tx_id \in Nat

(* Any part of the votes can be counted.                                   *)
LEMMA VotesAreFinite ==
  ASSUME NEW votes, NEW n, Ballots(votes, n)
  PROVE  /\ IsFiniteSet(DOMAIN votes)
         /\ \A S : S \subseteq DOMAIN votes =>
              IsFiniteSet(S) /\ Cardinality(S) \in Nat /\ Cardinality(S) <= n
<1>1. n \in Nat /\ DOMAIN votes = 1..n
  BY DEF Ballots
<1>2. IsFiniteSet(1..n) /\ Cardinality(1..n) = n
  BY <1>1, FS_Interval
<1>3. ASSUME NEW S, S \subseteq DOMAIN votes
      PROVE  IsFiniteSet(S) /\ Cardinality(S) \in Nat /\ Cardinality(S) <= n
  BY <1>1, <1>2, <1>3, FS_Subset, FS_CardinalityType
<1>4. QED
  BY <1>1, <1>2, <1>3

(* When there is a vote, the majority is a tx that was voted for, by at    *)
(* least as many votes as any other.                                       *)
LEMMA MajorityLeads ==
  ASSUME NEW votes, NEW n, Ballots(votes, n), n # 0
  PROVE  /\ Majority(votes) \in TxIds(votes)
         /\ \A t \in TxIds(votes) :
              VotesFor(votes, Majority(votes)) >= VotesFor(votes, t)
<1> DEFINE C == {VotesFor(votes, t) : t \in TxIds(votes)}
           most == {t \in TxIds(votes) :
                      \A u \in TxIds(votes) : VotesFor(votes, t) >= VotesFor(votes, u)}
<1>1. n \in Nat /\ DOMAIN votes = 1..n /\ \A i \in 1..n : votes[i].tx_id \in Nat
  BY DEF Ballots
<1>2. ASSUME NEW t PROVE VotesFor(votes, t) \in Nat /\ VotesFor(votes, t) <= n
  <2>1. {i \in DOMAIN votes : votes[i].tx_id = t} \subseteq DOMAIN votes
    OBVIOUS
  <2>2. QED
    BY <2>1, VotesAreFinite DEF VotesFor
<1>3. TxIds(votes) \in SUBSET Nat /\ votes[1].tx_id \in TxIds(votes)
  BY <1>1 DEF TxIds
<1>4. Max(C) \in C /\ \A c \in C : Max(C) >= c
  <2>1. C \in SUBSET Nat /\ C # {} /\ \A c \in C : c <= n
    BY <1>2, <1>3
  <2> HIDE DEF C
  <2>2. QED
    BY <1>1, <2>1, GreatestNumber
<1>5. PICK t \in TxIds(votes) : VotesFor(votes, t) = Max(C)
  BY <1>4
<1>6. ASSUME NEW u \in TxIds(votes)
      PROVE  VotesFor(votes, t) >= VotesFor(votes, u)
  <2>1. VotesFor(votes, u) \in C
    OBVIOUS
  <2> HIDE DEF C
  <2>2. QED
    BY <1>4, <1>5, <2>1
<1>7. most \in SUBSET Nat /\ t \in most
  BY <1>3, <1>6
<1>8. PICK b : Bounds(b, [i \in 1..n |-> votes[i].tx_id], n)
  BY <1>1, BoundExists
<1>9. b \in Nat /\ \A u \in most : u <= b
  BY <1>1, <1>8 DEF Bounds, TxIds
<1>10. Majority(votes) = Max(most)
  BY DEF Majority
<1> HIDE DEF most, C
<1>11. Majority(votes) \in most
  BY <1>7, <1>9, <1>10, GreatestNumber
<1>12. QED
  BY <1>11 DEF most

(* The name of an address is one that was configured with it.              *)
LEMMA NameIsConfigured ==
  ASSUME NEW a \in Addresses
  PROVE  \E i \in DOMAIN Broadcasters :
           Broadcasters[i].address = a /\ NameOf(a) = Broadcasters[i].name
<1> DEFINE S == {i \in DOMAIN Broadcasters : Broadcasters[i].address = a}
<1>1. DOMAIN Broadcasters = 1..Len(Broadcasters) /\ Len(Broadcasters) \in Nat
  BY TallyAssumption
<1>2. S \in SUBSET Nat /\ S # {} /\ \A i \in S : i <= Len(Broadcasters)
  BY <1>1 DEF Addresses
<1>3. NameOf(a) = Broadcasters[Max(S)].name
  BY DEF NameOf
<1> HIDE DEF S
<1>4. Max(S) \in S
  BY <1>1, <1>2, GreatestNumber
<1>5. QED
  BY <1>3, <1>4 DEF S

----------------------------------------------------------------------------
(* Counters that add up.                                                   *)

(* Sets that share nothing.                                                *)
LEMMA DisjointCount ==
  ASSUME NEW A, NEW B, IsFiniteSet(A), IsFiniteSet(B), A \cap B = {}
  PROVE  Cardinality(A \cup B) = Cardinality(A) + Cardinality(B)
<1>1. Cardinality(A) \in Nat /\ Cardinality(B) \in Nat /\ Cardinality(A \cap B) = 0
  BY FS_CardinalityType, FS_EmptySet
<1>2. Cardinality(A \cup B) = Cardinality(A) + Cardinality(B) - Cardinality(A \cap B)
  BY FS_Union, Zenon
<1>3. QED
  BY <1>1, <1>2

(* Counters that count a set of outcomes by key add up to the outcomes     *)
(* whose key is one of theirs.                                             *)
LEMMA SumCounts ==
  ASSUME NEW S, IsFiniteSet(S), NEW c, NEW O, IsFiniteSet(O),
         \A k \in S : c[k] = Cardinality({o \in O : o.key = k})
  PROVE  SumFunctionOnSet(c, S) = Cardinality({o \in O : o.key \in S})
<1> DEFINE Of(s) == {o \in O : o.key \in s}
           One(s) == CHOOSE x \in s : TRUE
           g == [s \in SUBSET S |-> Cardinality(Of(s))]
           Eq(f) == f = [s \in SUBSET S |->
                           IF s = {} THEN 0 ELSE c[One(s)] + f[s \ {One(s)}]]
           iter == CHOOSE f : Eq(f)
<1>1. SumFunctionOnSet(c, S) = iter[S]
  BY Zenon DEF SumFunctionOnSet, FoldFunctionOnSet, MapThenFoldSet
<1>2. ASSUME NEW s \in SUBSET S
      PROVE  g[s] = IF s = {} THEN 0 ELSE c[One(s)] + g[s \ {One(s)}]
  <2>1. CASE s = {}
    <3>1. Of(s) = {}
      BY <2>1
    <3> HIDE DEF Of
    <3>2. QED
      BY <2>1, <3>1, FS_EmptySet
  <2>2. CASE s # {}
    <3> DEFINE x == One(s)
               r == s \ {x}
               A == {o \in O : o.key = x}
    <3>1. x \in s
      BY <2>2
    <3> HIDE DEF x
    <3>2. Of(s) = A \cup Of(r) /\ A \cap Of(r) = {} /\ A \subseteq O /\ Of(r) \subseteq O
      BY <3>1
    <3>3. r \in SUBSET S /\ c[x] = Cardinality(A)
      BY <3>1
    <3> HIDE DEF r, A, Of
    <3>4. IsFiniteSet(A) /\ IsFiniteSet(Of(r))
      BY <3>2, FS_Subset
    <3>5. Cardinality(Of(s)) = Cardinality(A) + Cardinality(Of(r))
      BY <3>2, <3>4, DisjointCount
    <3>6. g[s] = c[x] + g[r]
      BY <3>3, <3>5
    <3>7. QED
      BY <2>2, <3>6 DEF r, x
  <2>3. QED
    BY <2>1, <2>2
<1>3. Eq(g)
  <2>1. g = [s \in SUBSET S |-> g[s]]
    OBVIOUS
  <2> HIDE DEF g, One
  <2>2. QED
    BY <1>2, <2>1
<1>4. Eq(iter)
  <2> HIDE DEF Eq, g
  <2>1. QED
    BY <1>3
<1> HIDE DEF iter, One
<1>5. \A s \in SUBSET S :
         iter[s] = IF s = {} THEN 0 ELSE c[One(s)] + iter[s \ {One(s)}]
  BY <1>4
<1>6. \A s \in SUBSET S : s # {} => One(s) \in s
  BY DEF One
<1>7. \A s \in SUBSET S : IsFiniteSet(s) /\ Cardinality(s) \in Nat
  BY FS_Subset, FS_CardinalityType
<1> HIDE DEF g
<1> DEFINE T == {n \in Nat : \E s \in SUBSET S : Cardinality(s) = n /\ iter[s] # g[s]}
<1>8. T = {}
  <2>1. SUFFICES ASSUME T # {} PROVE FALSE
    OBVIOUS
  <2>2. T \in SUBSET Nat
    OBVIOUS
  <2>3. PICK n \in T : \A k \in T : n <= k
    <3> HIDE DEF T
    <3>1. QED
      BY <2>1, <2>2, LeastNumber
  <2>4. PICK s \in SUBSET S : Cardinality(s) = n /\ iter[s] # g[s]
    BY <2>3
  <2>5. s # {}
    BY <1>2, <1>5, <2>4
  <2> DEFINE x == One(s)
             r == s \ {x}
  <2>6. x \in s /\ r \in SUBSET S
    BY <1>6, <2>5
  <2>7. Cardinality(r) = Cardinality(s) - 1 /\ Cardinality(r) \in Nat
    BY <1>7, <2>6, FS_RemoveElement
  <2>8. iter[r] # g[r]
    BY <1>2, <1>5, <2>4, <2>5
  <2>9. Cardinality(r) \in T
    BY <2>6, <2>7, <2>8
  <2> HIDE DEF T, r
  <2>10. n <= Cardinality(r) /\ n = Cardinality(s) /\ n \in Nat
    BY <2>2, <2>3, <2>4, <2>9
  <2>11. QED
    BY <2>7, <2>10
<1>9. iter[S] = g[S]
  <2>1. S \in SUBSET S /\ Cardinality(S) \in Nat
    BY <1>7
  <2>2. QED
    BY <1>8, <2>1
<1>10. QED
  BY <1>1, <1>9 DEF g

(* A poll has one outcome for a configured name, if every name stands for  *)
(* one broadcaster and nobody voted twice.                                 *)
LEMMA OneOutcomeEach ==
  ASSUME NEW id, NEW poll,
         \A i, j \in DOMAIN poll.votes :
           poll.votes[i].sender_id = poll.votes[j].sender_id => i = j,
         \A i, j \in DOMAIN Broadcasters :
           Broadcasters[i].name = Broadcasters[j].name => i = j,
         NEW n \in Names
  PROVE  \E o \in AnalyzePollCompletion(id, poll) :
           /\ o.key.broadcaster = n
           /\ \A p \in AnalyzePollCompletion(id, poll) : p.key.broadcaster = n => p = o
<1> DEFINE votes == poll.votes
           Sent(i) == NameOf(votes[i].sender_id)
           VoteOutcome(i) == [poll |-> id, entry |-> i,
                              key |-> Key(Sent(i), votes[i].chain, Verdict(votes[i], votes))]
           Missed(i) == [poll |-> id, entry |-> i,
                         key |-> Key(Broadcasters[i].name, poll.data.chain, "missed")]
<1>1. \A i : /\ VoteOutcome(i).key.broadcaster = Sent(i)
             /\ Missed(i).key.broadcaster = Broadcasters[i].name
  BY DEF Key
<1>2. \A p : p \in AnalyzePollCompletion(id, poll)
        <=> \/ \E i \in Known(votes) : p = VoteOutcome(i)
            \/ \E i \in DOMAIN Broadcasters :
                 Broadcasters[i].name \notin Voters(votes) /\ p = Missed(i)
  BY DEF AnalyzePollCompletion, CountVotes, CountMissed
<1> HIDE DEF VoteOutcome, Missed
<1>3. \A i, j \in Known(votes) : Sent(i) = Sent(j) => i = j
  <2>1. SUFFICES ASSUME NEW i \in Known(votes), NEW j \in Known(votes), Sent(i) = Sent(j)
                 PROVE  i = j
    OBVIOUS
  <2>2. /\ i \in DOMAIN votes /\ j \in DOMAIN votes
        /\ votes[i].sender_id \in Addresses /\ votes[j].sender_id \in Addresses
    BY DEF Known
  <2>3. PICK k \in DOMAIN Broadcasters : /\ Broadcasters[k].address = votes[i].sender_id
                                         /\ Sent(i) = Broadcasters[k].name
    BY <2>2, NameIsConfigured
  <2>4. PICK l \in DOMAIN Broadcasters : /\ Broadcasters[l].address = votes[j].sender_id
                                         /\ Sent(j) = Broadcasters[l].name
    BY <2>2, NameIsConfigured
  <2>5. QED
    BY <2>1, <2>2, <2>3, <2>4
<1>4. \A m : m \in Voters(votes) <=> \E i \in Known(votes) : m = Sent(i)
  BY DEF Voters
<1>5. PICK e \in DOMAIN Broadcasters : n = Broadcasters[e].name
  BY DEF Names
<1> HIDE DEF Sent, votes
<1>6. CASE n \in Voters(votes)
  <2>1. PICK i \in Known(votes) : n = Sent(i)
    BY <1>4, <1>6
  <2>2. ASSUME NEW p \in AnalyzePollCompletion(id, poll), p.key.broadcaster = n
        PROVE  p = VoteOutcome(i)
    BY <1>1, <1>2, <1>3, <1>6, <2>1, <2>2
  <2>3. QED
    BY <1>1, <1>2, <2>1, <2>2
<1>7. CASE n \notin Voters(votes)
  <2>1. ASSUME NEW p \in AnalyzePollCompletion(id, poll), p.key.broadcaster = n
        PROVE  p = Missed(e)
    BY <1>1, <1>2, <1>4, <1>5, <1>7, <2>1
  <2>2. QED
    BY <1>1, <1>2, <1>5, <1>7, <2>1
<1>8. QED
  BY <1>6, <1>7

(* A chain has finitely many counters.                                     *)
LEMMA SeriesFinite ==
  ASSUME NEW chain
  PROVE  IsFiniteSet(SeriesOf(chain))
<1> DEFINE g == [r \in VoteResultType |-> {Key(n, chain, r) : n \in Names}]
<1>1. IsFiniteSet(Names)
  <2> DEFINE e == [i \in 1..Len(Broadcasters) |-> Broadcasters[i].name]
             D == 1..Len(Broadcasters)
  <2>1. Names = {e[i] : i \in D}
    BY TallyAssumption DEF Names
  <2>2. IsFiniteSet(D)
    BY TallyAssumption, FS_Interval
  <2> HIDE DEF e, D
  <2>3. QED
    BY <2>1, <2>2, ImageFinite
<1>2. IsFiniteSet(VoteResultType)
  <2>1. /\ VoteResultType = {"agreed"} \cup {"disagreed"} \cup {"missed"}
        /\ IsFiniteSet({"agreed"}) /\ IsFiniteSet({"disagreed"}) /\ IsFiniteSet({"missed"})
    BY FS_Singleton DEF VoteResultType
  <2>2. QED
    BY <2>1, FS_Union
<1>3. ASSUME NEW r \in VoteResultType PROVE IsFiniteSet(g[r])
  <2> DEFINE f == [n \in Names |-> Key(n, chain, r)]
  <2>1. g[r] = {f[n] : n \in Names}
    OBVIOUS
  <2> HIDE DEF f, g
  <2>2. QED
    BY <1>1, <2>1, ImageFinite
<1>4. SeriesOf(chain) = UNION {g[r] : r \in VoteResultType}
  BY DEF SeriesOf
<1> HIDE DEF g
<1>5. IsFiniteSet({g[r] : r \in VoteResultType})
  BY <1>2, ImageFinite
<1>6. QED
  BY <1>3, <1>4, <1>5, FS_UNION
=============================================================================
