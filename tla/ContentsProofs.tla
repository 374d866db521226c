---------------------------- MODULE ContentsProofs ----------------------------
(***************************************************************************)
(* Lemmas about what the handlers compute: lists put together from lists,  *)
(* the creations and votes read from a block, and the outcomes of a poll.  *)
(***************************************************************************)
EXTENDS BlockContents, TallyProofs, SequenceTheorems

----------------------------------------------------------------------------
(* Recursion over the numbers up to a bound.                               *)

Adds(g, f, m) == g[0] = <<>> /\ \A i \in 1..m : g[i] = g[i - 1] \o f[i]

(* The lists that Joined adds up exist and are lists of the same things.   *)
LEMMA PartsExist ==
  ASSUME NEW S, NEW n \in Nat, NEW f, \A i \in 1..n : f[i] \in Seq(S)
  PROVE  \E g \in [0..n -> Seq(S)] : Adds(g, f, n)
<1> USE DEF Adds
<1> DEFINE T == {m \in 0..n : ~ \E g \in [0..m -> Seq(S)] : Adds(g, f, m)}
<1>1. SUFFICES ASSUME T # {} PROVE FALSE
  <2>1. n \in 0..n
    OBVIOUS
  <2>2. QED
    BY <1>1, <2>1
<1>2. PICK m \in T : \A k \in T : m <= k
  <2>1. 0..n \subseteq Nat
    OBVIOUS
  <2>2. T \subseteq 0..n
    BY Zenon
  <2> HIDE DEF T
  <2>3. QED
    BY <1>1, <2>1, <2>2, LeastNumber
<1>3. CASE m = 0
  <2> DEFINE g == [i \in 0..0 |-> <<>>]
  <2>1. g \in [0..0 -> Seq(S)] /\ Adds(g, f, 0)
    <3>1. <<>> \in Seq(S)
      OBVIOUS
    <3>2. g \in [0..0 -> Seq(S)] /\ g[0] = <<>>
      BY <3>1
    <3>3. QED
      BY <3>2
  <2>2. QED
    BY <1>3, <2>1
<1>4. CASE m # 0
  <2>1. m - 1 \in 0..n /\ m - 1 \notin T /\ m \in Nat /\ m \in 1..n
    <3>1. m \in 0..n
      OBVIOUS
    <3> HIDE DEF T
    <3>2. QED
      BY <1>2, <1>4, <3>1
  <2>2. PICK g \in [0..(m - 1) -> Seq(S)] : Adds(g, f, m - 1)
    BY <2>1
  <2> DEFINE h == [i \in 0..m |-> IF i = m THEN g[m - 1] \o f[m] ELSE g[i]]
  <2>3. g[m - 1] \o f[m] \in Seq(S)
    BY <2>1
  <2>4. h \in [0..m -> Seq(S)]
    BY <2>1, <2>3
  <2>5. Adds(h, f, m)
    <3>1. h[0] = <<>>
      BY <1>4, <2>1, <2>2
    <3>2. ASSUME NEW i \in 1..m PROVE h[i] = h[i - 1] \o f[i]
      BY <2>1, <2>2
    <3>3. QED
      BY <3>1, <3>2
  <2>6. QED
    BY <2>4, <2>5
<1>5. QED
  BY <1>3, <1>4

HasParts(S, f, n) ==
  \E g \in [0..n -> Seq(S)] : Adds(g, f, n) /\ Joined(f, n) = g[n]

(* Joined is the last of these parts.                                      *)
LEMMA JoinedParts ==
  ASSUME NEW S, NEW n \in Nat, NEW f, \A i \in 1..n : f[i] \in Seq(S)
  PROVE  HasParts(S, f, n)
<1> DEFINE Parts(g) == g = [i \in 0..n |-> IF i = 0 THEN <<>> ELSE g[i - 1] \o f[i]]
           up == CHOOSE g : Parts(g)
<1>1. PICK g \in [0..n -> Seq(S)] : Adds(g, f, n)
  BY PartsExist, Zenon
<1>2. Parts(g)
  <2>1. ASSUME NEW i \in 0..n
        PROVE  g[i] = IF i = 0 THEN <<>> ELSE g[i - 1] \o f[i]
    <3>1. i = 0 \/ i \in 1..n
      OBVIOUS
    <3>2. QED
      BY <1>1, <3>1 DEF Adds
  <2>2. QED
    BY <2>1
<1>3. Parts(up)
  BY <1>2
<1> HIDE DEF up
<1>4. \A i \in 0..n : up[i] = IF i = 0 THEN <<>> ELSE up[i - 1] \o f[i]
  BY <1>3
<1> DEFINE T == {m \in 0..n : up[m] \notin Seq(S)}
<1>5. T = {}
  <2>1. SUFFICES ASSUME T # {} PROVE FALSE
    OBVIOUS
  <2>2. PICK m \in T : \A k \in T : m <= k
    <3>1. T \in SUBSET Nat
      OBVIOUS
    <3> HIDE DEF T
    <3>2. QED
      BY <2>1, <3>1, LeastNumber
  <2>3. m \in 0..n /\ up[m] \notin Seq(S)
    OBVIOUS
  <2>4. m # 0
    <3>1. <<>> \in Seq(S) /\ 0 \in 0..n
      OBVIOUS
    <3>2. up[0] = <<>>
      BY <1>4, <3>1
    <3>3. QED
      BY <2>3, <3>1, <3>2
  <2>5. m - 1 \in 0..n /\ m - 1 \notin T /\ m \in 1..n
    <3> HIDE DEF T
    <3>1. QED
      BY <2>2, <2>3, <2>4
  <2>6. up[m - 1] \in Seq(S) /\ up[m] = up[m - 1] \o f[m] /\ f[m] \in Seq(S)
    BY <1>4, <2>3, <2>4, <2>5
  <2>7. QED
    BY <2>3, <2>6
<1>6. \A i \in 0..n : up[i] \in Seq(S)
  BY <1>5
<1>7. up \in [0..n -> Seq(S)]
  <2> DEFINE w == [i \in 0..n |-> up[i]]
  <2>1. w \in [0..n -> Seq(S)]
    BY <1>6
  <2>2. up = w
    BY <1>3
  <2> HIDE DEF w
  <2>3. QED
    BY <2>1, <2>2
<1>8. Adds(up, f, n)
  <2>1. 0 \in 0..n /\ \A i \in 1..n : i \in 0..n /\ i # 0
    OBVIOUS
  <2>2. QED
    BY <1>4, <2>1, Zenon DEF Adds
<1>9. Joined(f, n) = up[n]
  BY DEF Joined, up
<1>10. QED
  BY <1>7, <1>8, <1>9 DEF HasParts

(* Lists of members of a set, joined, are a list of members of that set.   *)
LEMMA JoinedType ==
  ASSUME NEW S, NEW n \in Nat, NEW f, \A i \in 1..n : f[i] \in Seq(S)
  PROVE  Joined(f, n) \in Seq(S)
<1>1. PICK g \in [0..n -> Seq(S)] : Adds(g, f, n) /\ Joined(f, n) = g[n]
  BY JoinedParts, Zenon DEF HasParts
<1>2. QED
  BY <1>1

(* The parts are determined by the lists.                                  *)
SameParts(g, h, n) == \A i \in 0..n : g[i] = h[i]

LEMMA PartsUnique ==
  ASSUME NEW n \in Nat, NEW f, NEW g, NEW h, Adds(g, f, n), Adds(h, f, n)
  PROVE  SameParts(g, h, n)
<1> USE DEF SameParts
<1> DEFINE T == {m \in 0..n : g[m] # h[m]}
<1>1. SUFFICES ASSUME T # {} PROVE FALSE
  BY Zenon
<1>2. PICK m \in T : \A k \in T : m <= k
  <2>1. T \in SUBSET Nat
    OBVIOUS
  <2> HIDE DEF T
  <2>2. QED
    BY <1>1, <2>1, LeastNumber
<1>3. m \in 0..n /\ g[m] # h[m]
  OBVIOUS
<1>4. m # 0
  BY <1>3 DEF Adds
<1>5. m - 1 \in 0..n /\ ~ (m <= m - 1) /\ m \in 1..n
  BY <1>3, <1>4
<1>6. g[m - 1] = h[m - 1]
  <2>1. m - 1 \notin T
    <3> HIDE DEF T
    <3>1. QED
      BY <1>2, <1>5
  <2>2. QED
    BY <1>5, <2>1
<1>7. g[m] = g[m - 1] \o f[m] /\ h[m] = h[m - 1] \o f[m]
  BY <1>5 DEF Adds
<1>8. QED
  BY <1>3, <1>6, <1>7

(* One more list is joined at the end.                                     *)
LEMMA JoinedAppend ==
  ASSUME NEW S, NEW n \in Nat, NEW f, NEW e,
         \A i \in 1..n : f[i] \in Seq(S) /\ e[i] = f[i], e[n + 1] \in Seq(S)
  PROVE  Joined(e, n + 1) = Joined(f, n) \o e[n + 1]
<1>1. \A i \in 1..(n + 1) : e[i] \in Seq(S)
  <2>1. \A i \in 1..(n + 1) : i \in 1..n \/ i = n + 1
    OBVIOUS
  <2>2. QED
    BY <2>1
<1>2. PICK g \in [0..n -> Seq(S)] : Adds(g, f, n) /\ Joined(f, n) = g[n]
  BY JoinedParts, Zenon DEF HasParts
<1>3. PICK h \in [0..(n + 1) -> Seq(S)] : Adds(h, e, n + 1) /\ Joined(e, n + 1) = h[n + 1]
  <2> DEFINE m == n + 1
  <2>1. m \in Nat /\ \A i \in 1..m : e[i] \in Seq(S)
    BY <1>1
  <2> HIDE DEF m
  <2>2. HasParts(S, e, m)
    BY <2>1, JoinedParts, Zenon
  <2>3. QED
    BY <2>2 DEF m, HasParts
<1>4. Adds(h, f, n)
  <2>1. \A i \in 1..n : i \in 1..(n + 1)
    OBVIOUS
  <2>2. QED
    BY <1>3, <2>1 DEF Adds
<1>5. g[n] = h[n]
  <2>1. \A i \in 0..n : g[i] = h[i]
    <3>1. Adds(g, f, n) /\ Adds(h, f, n)
      BY <1>2, <1>4
    <3>2. SameParts(g, h, n)
      BY <3>1, PartsUnique, Zenon
    <3>3. QED
      BY <3>2 DEF SameParts
  <2>2. n \in 0..n
    OBVIOUS
  <2>3. QED
    BY <2>1, <2>2
<1>6. h[n + 1] = h[n] \o e[n + 1]
  <2>1. n + 1 \in 1..(n + 1) /\ (n + 1) - 1 = n
    OBVIOUS
  <2>2. h[n + 1] = h[(n + 1) - 1] \o e[n + 1]
    BY <1>3, <2>1 DEF Adds
  <2>3. QED
    BY <2>1, <2>2
<1>7. QED
  BY <1>2, <1>3, <1>5, <1>6

(* None, and one.                                                          *)
LEMMA JoinedFew ==
  /\ \A f : Joined(f, 0) = <<>>
  /\ \A S, f : f[1] \in Seq(S) => Joined(f, 1) = f[1]
<1>1. ASSUME NEW f PROVE Joined(f, 0) = <<>>
  <2>1. \A i \in 1..0 : f[i] \in Seq({})
    OBVIOUS
  <2>2. PICK g : Adds(g, f, 0) /\ Joined(f, 0) = g[0]
    BY <2>1, JoinedParts DEF HasParts
  <2>3. QED
    BY <2>2 DEF Adds
<1>2. ASSUME NEW S, NEW f, f[1] \in Seq(S) PROVE Joined(f, 1) = f[1]
  <2>1. Joined(f, 0 + 1) = Joined(f, 0) \o f[0 + 1]
    <3>1. \A i \in 1..0 : f[i] \in Seq(S) /\ f[i] = f[i]
      OBVIOUS
    <3>2. 0 + 1 = 1 /\ 0 \in Nat
      OBVIOUS
    <3>3. QED
      BY <1>2, <3>1, <3>2, JoinedAppend
  <2>2. QED
    BY <1>1, <1>2, <2>1
<1>3. QED
  BY <1>1, <1>2

----------------------------------------------------------------------------
(* Lists.                                                                  *)

(* A list of members of a set is a list, and its own members are enough.   *)
LEMMA ListFacts ==
  /\ \A S : \A s \in Seq(S) : IsList(s) /\ Range(s) \subseteq S
  /\ \A s : IsList(s)
       => /\ Len(s) \in Nat /\ DOMAIN s = 1..Len(s)
          /\ \A i \in 1..Len(s) : s[i] \in Range(s)
  /\ \A S, s : IsList(s) /\ Range(s) \subseteq S => s \in Seq(S)
<1>1. \A s : \A i \in DOMAIN s : s[i] \in Range(s)
  BY DEF Range
<1>2. \A s : \A x \in Range(s) : \E i \in DOMAIN s : x = s[i]
  BY DEF Range
<1>3. ASSUME NEW S, NEW s, s \in Seq(S)
      PROVE  IsList(s) /\ Range(s) \subseteq S
  <2>1. Len(s) \in Nat /\ DOMAIN s = 1..Len(s) /\ \A i \in 1..Len(s) : s[i] \in S
    BY <1>3
  <2>2. Range(s) \subseteq S
    BY <1>2, <2>1
  <2>3. s \in Seq(Range(s))
    <3>1. \A i \in 1..Len(s) : s[i] \in Range(s)
      BY <1>1, <2>1
    <3>2. s = [i \in 1..Len(s) |-> s[i]]
      BY <1>3
    <3>3. QED
      BY <2>1, <3>1, <3>2
  <2>4. QED
    BY <2>2, <2>3 DEF IsList
<1>4. ASSUME NEW s, IsList(s)
      PROVE  /\ Len(s) \in Nat /\ DOMAIN s = 1..Len(s)
             /\ \A i \in 1..Len(s) : s[i] \in Range(s)
  BY <1>4 DEF IsList
<1>5. ASSUME NEW S, NEW s, IsList(s), Range(s) \subseteq S
      PROVE  s \in Seq(S)
  <2>1. \A i \in 1..Len(s) : s[i] \in S
    BY <1>4, <1>5
  <2>2. s \in Seq(Range(s))
    BY <1>5 DEF IsList
  <2>3. s = [i \in 1..Len(s) |-> s[i]]
    BY <2>2
  <2>4. QED
    BY <1>4, <1>5, <2>1, <2>3
<1>6. QED
  BY <1>3, <1>4, <1>5

(* Lists, joined, are a list of their members.                             *)
LEMMA JoinedList ==
  ASSUME NEW n \in Nat, NEW f, \A i \in 1..n : IsList(f[i])
  PROVE  /\ IsList(Joined(f, n))
         /\ \A x \in Range(Joined(f, n)) : \E i \in 1..n : x \in Range(f[i])
<1> DEFINE S == UNION {Range(f[i]) : i \in 1..n}
<1>1. ASSUME NEW i \in 1..n PROVE f[i] \in Seq(S)
  <2>1. Range(f[i]) \subseteq S
    OBVIOUS
  <2> HIDE DEF S
  <2>2. QED
    BY <2>1, ListFacts
<1>2. \A x \in S : \E i \in 1..n : x \in Range(f[i])
  OBVIOUS
<1> HIDE DEF S
<1>3. Joined(f, n) \in Seq(S)
  BY <1>1, JoinedType
<1>4. QED
  BY <1>2, <1>3, ListFacts

(* One list, or none.                                                      *)
LEMMA SmallLists ==
  /\ \A S : <<>> \in Seq(S)
  /\ \A S : \A x \in S : <<x>> \in Seq(S)
  OBVIOUS

(* The members of two lists, one after the other.                          *)
LEMMA ConcatRange ==
  ASSUME NEW S, NEW s \in Seq(S), NEW t \in Seq(S)
  PROVE  /\ Range(s \o t) = Range(s) \cup Range(t)
         /\ s \o t \in Seq(S)
<1>1. s \o t \in Seq(S) /\ Len(s \o t) = Len(s) + Len(t)
  OBVIOUS
<1>2. /\ \A i \in 1..Len(s) : i \in 1..Len(s \o t) /\ (s \o t)[i] = s[i]
      /\ \A i \in 1..Len(t) : /\ Len(s) + i \in 1..Len(s \o t)
                              /\ (s \o t)[Len(s) + i] = t[i]
      /\ \A i \in 1..Len(s \o t) :
           \/ i \in 1..Len(s) /\ (s \o t)[i] = s[i]
           \/ i - Len(s) \in 1..Len(t) /\ (s \o t)[i] = t[i - Len(s)]
  BY <1>1
<1>3. \A q \in Seq(S) : /\ \A i \in 1..Len(q) : q[i] \in Range(q)
                        /\ \A x \in Range(q) : \E i \in 1..Len(q) : x = q[i]
  BY DEF Range
<1>4. ASSUME NEW x \in Range(s \o t) PROVE x \in Range(s) \/ x \in Range(t)
  <2>1. PICK i \in 1..Len(s \o t) : x = (s \o t)[i]
    BY <1>1, <1>3
  <2>2. QED
    BY <1>2, <1>3, <2>1
<1>5. ASSUME NEW x \in Range(s) PROVE x \in Range(s \o t)
  <2>1. PICK i \in 1..Len(s) : x = s[i]
    BY <1>3
  <2>2. QED
    BY <1>1, <1>2, <1>3, <2>1
<1>6. ASSUME NEW x \in Range(t) PROVE x \in Range(s \o t)
  <2>1. PICK i \in 1..Len(t) : x = t[i]
    BY <1>3
  <2>2. QED
    BY <1>1, <1>2, <1>3, <2>1
<1>7. QED
  BY <1>1, <1>4, <1>5, <1>6

(* Lists, joined, hold the members of each.                                *)
LEMMA JoinedMembers ==
  ASSUME NEW S, NEW n \in Nat, NEW f, \A i \in 1..n : f[i] \in Seq(S),
         NEW k \in 1..n
  PROVE  Range(f[k]) \subseteq Range(Joined(f, n))
<1>1. PICK g \in [0..n -> Seq(S)] : Adds(g, f, n) /\ Joined(f, n) = g[n]
  BY JoinedParts, Zenon DEF HasParts
<1> DEFINE T == {m \in k..n : ~ (Range(f[k]) \subseteq Range(g[m]))}
<1>2. SUFFICES ASSUME T # {} PROVE FALSE
  <2>1. n \in k..n
    OBVIOUS
  <2>2. QED
    BY <1>1, <1>2, <2>1
<1>3. PICK m \in T : \A j \in T : m <= j
  <2>1. T \in SUBSET Nat
    OBVIOUS
  <2> HIDE DEF T
  <2>2. QED
    BY <1>2, <2>1, LeastNumber
<1>4. m \in k..n /\ ~ (Range(f[k]) \subseteq Range(g[m]))
  OBVIOUS
<1>5. m \in 1..n /\ m - 1 \in 0..n /\ ~ (m <= m - 1)
  BY <1>4
<1>6. g[m] = g[m - 1] \o f[m] /\ g[m - 1] \in Seq(S) /\ f[m] \in Seq(S)
  BY <1>1, <1>5 DEF Adds
<1>7. Range(g[m]) = Range(g[m - 1]) \cup Range(f[m])
  BY <1>6, ConcatRange
<1>8. CASE m = k
  BY <1>4, <1>7, <1>8
<1>9. CASE m # k
  <2>1. m - 1 \in k..n
    BY <1>4, <1>9
  <2>2. m - 1 \notin T
    <3> HIDE DEF T
    <3>1. QED
      BY <1>3, <1>5
  <2>3. Range(f[k]) \subseteq Range(g[m - 1])
    BY <2>1, <2>2
  <2>4. QED
    BY <1>4, <1>7, <2>3
<1>10. QED
  BY <1>8, <1>9

(* A list of one for each member of a list is that list.                   *)
LEMMA JoinedSingles ==
  ASSUME NEW S, NEW s \in Seq(S), NEW f, \A i \in 1..Len(s) : f[i] = <<s[i]>>
  PROVE  Joined(f, Len(s)) = s
<1> DEFINE n == Len(s)
<1>1. n \in Nat /\ \A i \in 1..n : f[i] \in Seq(S)
  <2>1. \A i \in 1..n : s[i] \in S
    OBVIOUS
  <2>2. ASSUME NEW i \in 1..n PROVE f[i] \in Seq(S)
    <3>1. <<s[i]>> \in Seq(S)
      BY <2>1, SmallLists
    <3>2. QED
      BY <3>1
  <2>3. QED
    BY <2>2
<1>2. PICK g \in [0..n -> Seq(S)] : Adds(g, f, n) /\ Joined(f, n) = g[n]
  <2> HIDE DEF n
  <2>1. QED
    BY <1>1, JoinedParts, Zenon DEF HasParts
<1> DEFINE T == {m \in 0..n : g[m] # SubSeq(s, 1, m)}
<1>3. T = {}
  <2>1. SUFFICES ASSUME T # {} PROVE FALSE
    OBVIOUS
  <2>2. PICK m \in T : \A j \in T : m <= j
    <3>1. T \in SUBSET Nat
      OBVIOUS
    <3> HIDE DEF T
    <3>2. QED
      BY <2>1, <3>1, LeastNumber
  <2>3. m \in 0..n /\ g[m] # SubSeq(s, 1, m)
    OBVIOUS
  <2>4. m # 0
    <3>1. g[0] = <<>> /\ SubSeq(s, 1, 0) = <<>>
      BY <1>2 DEF Adds
    <3>2. QED
      BY <2>3, <3>1
  <2>5. m \in 1..n /\ m - 1 \in 0..n /\ ~ (m <= m - 1)
    BY <2>3, <2>4
  <2>6. m - 1 \notin T
    <3> HIDE DEF T
    <3>1. QED
      BY <2>2, <2>5
  <2>7. g[m] = SubSeq(s, 1, m - 1) \o <<s[m]>>
    <3>1. g[m - 1] = SubSeq(s, 1, m - 1)
      BY <2>5, <2>6
    <3>2. QED
      BY <1>2, <2>5, <3>1 DEF Adds
  <2>8. SubSeq(s, 1, m) = SubSeq(s, 1, m - 1) \o <<s[m]>>
    <3>1. 1 \in 1..Len(s) /\ m \in 1..Len(s)
      BY <2>5
    <3>2. QED
      BY <3>1, SubSeqRecursiveSecond
  <2>9. QED
    BY <2>3, <2>7, <2>8
<1>4. g[n] = SubSeq(s, 1, n)
  BY <1>1, <1>3
<1>5. SubSeq(s, 1, n) = s
  OBVIOUS
<1>6. QED
  BY <1>2, <1>4, <1>5

(* The votes of a list that name a poll, in order.                         *)
Picked(votes, id) == FlatMap(LAMBDA v : IF v.poll_id = id THEN <<v>> ELSE <<>>, votes)
Naming(votes, m, id) == {j \in 1..m : votes[j].poll_id = id}
Picks(s, votes, m, id) ==
  \E g \in Bijection(1..Len(s), Naming(votes, m, id)) :
    \A i \in 1..Len(s) : s[i] = votes[g[i]]

(* One more vote is picked, or passed over.                                *)
LEMMA PicksNext ==
  ASSUME NEW S, NEW s \in Seq(S), NEW votes, NEW m \in Nat, NEW id,
         votes[m + 1] \in S, Picks(s, votes, m, id)
  PROVE  Picks(s \o (IF votes[m + 1].poll_id = id THEN <<votes[m + 1]>> ELSE <<>>),
               votes, m + 1, id)
<1> DEFINE P == Naming(votes, m, id)
           v == votes[m + 1]
<1>1. PICK g \in Bijection(1..Len(s), P) : \A i \in 1..Len(s) : s[i] = votes[g[i]]
  BY DEF Picks
<1>2. m + 1 \in 1..(m + 1) /\ \A j \in 1..(m + 1) : j \in 1..m \/ j = m + 1
  OBVIOUS
<1>3. CASE v.poll_id # id
  <2>1. Naming(votes, m + 1, id) = P
    BY <1>2, <1>3 DEF Naming
  <2>2. s \o <<>> = s
    BY ConcatEmptySeq
  <2>3. QED
    BY <1>1, <1>3, <2>1, <2>2 DEF Picks
<1>4. CASE v.poll_id = id
  <2> DEFINE t == s \o <<v>>
             f == [i \in 1..1 |-> m + 1]
             h == [i \in 1..(Len(s) + 1) |-> IF i <= Len(s) THEN g[i] ELSE f[i - Len(s)]]
  <2>1. Naming(votes, m + 1, id) = P \cup {m + 1} /\ P \cap {m + 1} = {}
    BY <1>2, <1>4 DEF Naming
  <2>2. Len(t) = Len(s) + 1 /\ Len(s) \in Nat
    OBVIOUS
  <2>3. f \in Bijection(1..1, {m + 1})
    BY SmallBijections
  <2>4. h \in Bijection(1..(Len(s) + 1), P \cup {m + 1})
    <3> DEFINE a == Len(s)
               b == 1
               Q == {m + 1}
    <3>1. a \in Nat /\ b \in Nat /\ P \cap Q = {} /\ f \in Bijection(1..b, Q)
          /\ g \in Bijection(1..a, P)
      BY <2>1, <2>2, <2>3
    <3> HIDE DEF f, P, Q, a, b
    <3>2. [i \in 1..(a + b) |-> IF i <= a THEN g[i] ELSE f[i - a]]
            \in Bijection(1..(a + b), P \cup Q)
      BY <3>1, BijectionJoined
    <3>3. QED
      BY <3>2 DEF a, b, Q
  <2>5. ASSUME NEW i \in 1..Len(t) PROVE t[i] = votes[h[i]]
    <3>1. CASE i <= Len(s)
      <4>1. i \in 1..Len(s) /\ t[i] = s[i] /\ h[i] = g[i]
        BY <2>2, <3>1
      <4>2. QED
        BY <1>1, <4>1
    <3>2. CASE ~ (i <= Len(s))
      <4>1. i = Len(s) + 1 /\ i - Len(s) = 1 /\ i \in 1..(Len(s) + 1)
        BY <2>2, <3>2
      <4>2. t[i] = v
        BY <4>1
      <4>3. h[i] = m + 1
        BY <3>2, <4>1
      <4>4. QED
        BY <4>2, <4>3
    <3>3. QED
      BY <3>1, <3>2
  <2> HIDE DEF h, t, f
  <2>6. Picks(t, votes, m + 1, id)
    BY <2>1, <2>2, <2>4, <2>5 DEF Picks
  <2>7. QED
    BY <1>4, <2>6 DEF t
<1>5. QED
  BY <1>3, <1>4

(* The picked votes correspond, one to one, to those that name the poll.   *)
LEMMA PickedVotes ==
  ASSUME NEW votes, IsList(votes), NEW id
  PROVE  /\ Picked(votes, id) \in Seq(Range(votes))
         /\ Picks(Picked(votes, id), votes, Len(votes), id)
<1> DEFINE S == Range(votes)
           n == Len(votes)
           f == [i \in DOMAIN votes |->
                   IF votes[i].poll_id = id THEN <<votes[i]>> ELSE <<>>]
<1>1. n \in Nat /\ DOMAIN votes = 1..n /\ \A i \in 1..n : votes[i] \in S
  BY ListFacts
<1>2. \A i \in 1..n : f[i] \in Seq(S)
  <2>1. \A v \in S : <<v>> \in Seq(S)
    BY SmallLists
  <2>2. <<>> \in Seq(S)
    BY SmallLists
  <2> HIDE DEF S
  <2>3. QED
    BY <1>1, <2>1, <2>2
<1>3. Picked(votes, id) = Joined(f, n)
  BY DEF Picked, FlatMap
<1>4. \A i \in 1..n : f[i] = IF votes[i].poll_id = id THEN <<votes[i]>> ELSE <<>>
  BY <1>1
<1> HIDE DEF f, n, S
<1>5. PICK g \in [0..n -> Seq(S)] : Adds(g, f, n) /\ Joined(f, n) = g[n]
  BY <1>1, <1>2, JoinedParts, Zenon DEF HasParts
<1> DEFINE T == {m \in 0..n : ~ Picks(g[m], votes, m, id)}
<1>6. T = {}
  <2>1. SUFFICES ASSUME T # {} PROVE FALSE
    OBVIOUS
  <2>2. PICK m \in T : \A j \in T : m <= j
    <3>1. T \in SUBSET Nat
      BY <1>1
    <3> HIDE DEF T
    <3>2. QED
      BY <2>1, <3>1, LeastNumber
  <2>3. m \in 0..n /\ ~ Picks(g[m], votes, m, id)
    OBVIOUS
  <2>4. m # 0
    <3>1. Picks(<<>>, votes, 0, id)
      <4>1. Len(<<>>) = 0 /\ DOMAIN <<>> = {} /\ <<>> = [x \in DOMAIN <<>> |-> <<>>[x]]
            /\ 1..0 = {} /\ Naming(votes, 0, id) = {}
        BY DEF Naming
      <4>2. <<>> \in Bijection(1..Len(<<>>), Naming(votes, 0, id))
        BY <4>1, SmallBijections
      <4>3. QED
        BY <4>1, <4>2 DEF Picks
    <3>2. g[0] = <<>>
      BY <1>5 DEF Adds
    <3>3. QED
      BY <2>3, <3>1, <3>2
  <2>5. m \in 1..n /\ m - 1 \in 0..n /\ ~(m <= m - 1) /\ m - 1 \in Nat /\ (m - 1) + 1 = m
    BY <1>1, <2>3, <2>4
  <2>6. m - 1 \notin T
    <3> HIDE DEF T
    <3>1. QED
      BY <2>2, <2>5
  <2>7. Picks(g[m - 1], votes, m - 1, id)
    BY <2>5, <2>6
  <2>8. g[m] = g[m - 1] \o (IF votes[m].poll_id = id THEN <<votes[m]>> ELSE <<>>)
        /\ g[m - 1] \in Seq(S)
    BY <1>4, <1>5, <2>5 DEF Adds
  <2> DEFINE k == m - 1
  <2>9. k \in Nat /\ k + 1 = m /\ votes[k + 1] \in S /\ Picks(g[k], votes, k, id)
        /\ g[k] \in Seq(S)
    BY <1>1, <2>5, <2>7, <2>8
  <2> HIDE DEF T, k
  <2>10. Picks(g[k] \o (IF votes[k + 1].poll_id = id THEN <<votes[k + 1]>> ELSE <<>>),
               votes, k + 1, id)
    BY <2>9, PicksNext
  <2>11. QED
    BY <2>3, <2>8, <2>9, <2>10 DEF k
<1>7. Picks(g[n], votes, n, id)
  <2>1. n \in 0..n
    BY <1>1
  <2>2. n \notin T
    BY <1>6
  <2>3. QED
    BY <2>1, <2>2
<1>8. QED
  BY <1>1, <1>3, <1>5, <1>7 DEF n, S

----------------------------------------------------------------------------
(* What is read from a block.                                              *)

Request == [chain : DOMAIN Lower, tx : Nat]
Decoded(block) == {t \in Range(block) : t.decodes}

(* The txs of a block that decode, in a list.                              *)
LEMMA GetTxsType ==
  ASSUME NEW block, WellFormedBlock(block)
  PROVE  GetTxs(block) \in Seq(Decoded(block))
<1> DEFINE f == [i \in DOMAIN block |-> IF block[i].decodes THEN <<block[i]>> ELSE <<>>]
<1>1. Len(block) \in Nat /\ DOMAIN block = 1..Len(block)
      /\ \A i \in 1..Len(block) : block[i] \in Range(block)
  BY ListFacts DEF WellFormedBlock
<1>2. ASSUME NEW i \in 1..Len(block) PROVE f[i] \in Seq(Decoded(block))
  <2>1. block[i].decodes => block[i] \in Decoded(block)
    BY <1>1 DEF Decoded
  <2>2. QED
    BY <1>1, <2>1, SmallLists
<1> HIDE DEF f
<1>3. Joined(f, Len(block)) \in Seq(Decoded(block))
  BY <1>1, <1>2, JoinedType
<1>4. QED
  BY <1>3 DEF GetTxs, FlatMap, f

(* The poll requests of a block are requests for txs on known spellings.   *)
LEMMA PollRequestsType ==
  ASSUME NEW block, WellFormedBlock(block)
  PROVE  PollRequests(GetTxs(block)) \in Seq(Request)
<1>1. ASSUME NEW m, WellFormedMessage(m)
      PROVE  RequestsOf(m) \in Seq(Request)
  <2>1. CASE m.type # "Confirm"
    BY <2>1, SmallLists DEF RequestsOf
  <2>2. CASE m.type = "Confirm"
    <3>1. m.chain \in DOMAIN Lower /\ m.tx_ids \in Seq(Nat)
      BY <1>1, <2>2 DEF WellFormedMessage
    <3>2. \A i \in DOMAIN m.tx_ids :
            [chain |-> m.chain, tx |-> m.tx_ids[i]] \in Request
      BY <3>1 DEF Request
    <3>3. DOMAIN m.tx_ids = 1..Len(m.tx_ids) /\ Len(m.tx_ids) \in Nat
      BY <3>1
    <3>4. [i \in DOMAIN m.tx_ids |-> [chain |-> m.chain, tx |-> m.tx_ids[i]]]
            \in Seq(Request)
      BY <3>2, <3>3
    <3>5. QED
      BY <2>2, <3>4 DEF RequestsOf
  <2>3. QED
    BY <2>1, <2>2
<1>2. ASSUME NEW t \in Decoded(block)
      PROVE  FlatMap(RequestsOf, t.messages) \in Seq(Request)
  <2> DEFINE f == [i \in DOMAIN t.messages |-> RequestsOf(t.messages[i])]
  <2>1. IsList(t.messages) /\ \A m \in Range(t.messages) : WellFormedMessage(m)
    BY DEF WellFormedBlock, Decoded
  <2>2. /\ Len(t.messages) \in Nat /\ DOMAIN t.messages = 1..Len(t.messages)
        /\ \A i \in 1..Len(t.messages) : WellFormedMessage(t.messages[i])
    BY <2>1, ListFacts
  <2>3. \A i \in 1..Len(t.messages) : f[i] \in Seq(Request)
    BY <1>1, <2>2
  <2> HIDE DEF f
  <2>4. Joined(f, Len(t.messages)) \in Seq(Request)
    BY <2>2, <2>3, JoinedType
  <2>5. QED
    BY <2>4 DEF FlatMap, f
<1> DEFINE txs == GetTxs(block)
           g == [i \in DOMAIN txs |-> FlatMap(RequestsOf, txs[i].messages)]
<1>3. txs \in Seq(Decoded(block))
  BY GetTxsType
<1> HIDE DEF txs
<1>4. Len(txs) \in Nat /\ DOMAIN txs = 1..Len(txs)
      /\ \A i \in 1..Len(txs) : txs[i] \in Decoded(block)
  BY <1>3
<1>5. \A i \in 1..Len(txs) : g[i] \in Seq(Request)
  BY <1>2, <1>4
<1> HIDE DEF g
<1>6. Joined(g, Len(txs)) \in Seq(Request)
  BY <1>4, <1>5, JoinedType
<1>7. PollRequests(txs) = Joined(g, Len(txs))
  BY DEF PollRequests, FlatMap, g
<1>8. QED
  BY <1>6, <1>7 DEF txs

CreationsAt(chain_params, height) ==
  {d \in [chain : DOMAIN Lower, tx : Nat, expiry_height : Nat] :
     /\ Lower[d.chain] \in DOMAIN chain_params
     /\ d.expiry_height = height + chain_params[Lower[d.chain]]}

(* Requests become creations when their chain is loaded, and no others     *)
(* do; they expire as many blocks later as its parameters say.             *)
LEMMA PollCreationsAre ==
  ASSUME NEW requests \in Seq(Request), NEW height \in Nat, NEW params,
         \A c \in DOMAIN params : params[c] \in Nat
  PROVE  LET creations == PollCreations(requests, params, height)
         IN  /\ creations \in Seq(CreationsAt(params, height))
             /\ \A d \in Range(creations) : \E r \in Range(requests) :
                  d.chain = r.chain /\ d.tx = r.tx
             /\ \A r \in Range(requests) : Lower[r.chain] \in DOMAIN params =>
                  \E d \in Range(creations) : d.chain = r.chain /\ d.tx = r.tx
<1> DEFINE New(r) == [chain |-> r.chain, tx |-> r.tx,
                      expiry_height |-> height + params[Lower[r.chain]]]
           Create(r) == IF Lower[r.chain] \notin DOMAIN params THEN <<>>
                        ELSE <<New(r)>>
           f == [i \in DOMAIN requests |-> Create(requests[i])]
           creations == PollCreations(requests, params, height)
           n == Len(requests)
<1>1. n \in Nat /\ DOMAIN requests = 1..n
      /\ \A i \in 1..n : requests[i] \in Request /\ requests[i] \in Range(requests)
  BY ListFacts
<1>2. ASSUME NEW r \in Request
      PROVE  Create(r) \in Seq(CreationsAt(params, height))
  <2>1. CASE Lower[r.chain] \notin DOMAIN params
    BY <2>1, SmallLists
  <2>2. CASE Lower[r.chain] \in DOMAIN params
    <3>1. params[Lower[r.chain]] \in Nat
      BY <2>2
    <3>2. New(r) \in CreationsAt(params, height)
      BY <2>2, <3>1 DEF CreationsAt, Request
    <3> HIDE DEF New
    <3>3. <<New(r)>> \in Seq(CreationsAt(params, height))
      BY <3>2, SmallLists
    <3>4. QED
      BY <2>2, <3>3
  <2>3. QED
    BY <2>1, <2>2
<1>3. \A i \in 1..n : f[i] \in Seq(CreationsAt(params, height))
  BY <1>1, <1>2
<1>4. creations = Joined(f, n)
  BY DEF PollCreations, FlatMap
<1>5. ASSUME NEW r \in Range(requests), Lower[r.chain] \in DOMAIN params
      PROVE  \E i \in 1..n : f[i] = <<New(r)>>
  <2>1. PICK i \in 1..n : r = requests[i]
    BY <1>1 DEF Range
  <2>2. f[i] = <<New(r)>>
    BY <1>1, <1>5, <2>1
  <2>3. QED
    BY <2>2
<1>6. ASSUME NEW i \in 1..n
      PROVE  f[i] = <<>> \/ f[i] = <<New(requests[i])>>
  BY <1>1
<1>7. \A r : New(r).chain = r.chain /\ New(r).tx = r.tx
  OBVIOUS
<1> HIDE DEF f, New, Create, creations, n
<1>8. creations \in Seq(CreationsAt(params, height))
  BY <1>1, <1>3, <1>4, JoinedType
<1>9. \A i \in 1..n : IsList(f[i])
  BY <1>3, ListFacts
<1>10. \A x : Range(<<x>>) = {x} /\ Range(<<>>) = {}
  BY DEF Range
<1>11. ASSUME NEW d \in Range(creations)
       PROVE  \E r \in Range(requests) : d.chain = r.chain /\ d.tx = r.tx
  <2>1. PICK i \in 1..n : d \in Range(f[i])
    BY <1>1, <1>4, <1>9, JoinedList
  <2>2. d = New(requests[i])
    BY <1>6, <1>10, <2>1
  <2>3. QED
    BY <1>1, <1>7, <2>2
<1>12. ASSUME NEW r \in Range(requests), Lower[r.chain] \in DOMAIN params
       PROVE  \E d \in Range(creations) : d.chain = r.chain /\ d.tx = r.tx
  <2>1. PICK i \in 1..n : f[i] = <<New(r)>>
    BY <1>5, <1>12
  <2>2. Range(f[i]) \subseteq Range(creations)
    BY <1>1, <1>3, <1>4, JoinedMembers
  <2>3. New(r) \in Range(creations)
    BY <1>10, <2>1, <2>2
  <2>4. QED
    BY <1>7, <2>3
<1>13. QED
  BY <1>8, <1>11, <1>12 DEF creations

(* The creations of a block are on chains whose parameters are loaded, and *)
(* expire as many blocks later as those say.                               *)
LEMMA CreationsType ==
  ASSUME NEW block, WellFormedBlock(block), NEW height \in Nat, NEW params,
         \A c \in DOMAIN params : params[c] \in Nat
  PROVE  ProcessBlock(block, params, height).poll_creations
           \in Seq(CreationsAt(params, height))
  BY PollRequestsType, PollCreationsAre DEF ProcessBlock

(* The votes of a block are a list.                                        *)
LEMMA VotesType ==
  ASSUME NEW block, WellFormedBlock(block), NEW params, NEW height
  PROVE  IsList(ProcessBlock(block, params, height).votes)
<1> DEFINE IsRefund(m) == WellFormedVote(m) /\ m.type = "RefundMsg"
<1>1. ASSUME NEW m, IsRefund(m)
      PROVE  IsList(VotesOf(m))
  <2>1. CASE \/ m.vote = NotAVote
             \/ m.vote.sender = Unreadable \/ m.vote.events = Unreadable
    <3>1. VotesOf(m) = <<>>
      BY <2>1 DEF VotesOf
    <3>2. QED
      BY <3>1, SmallLists, ListFacts
  <2>2. CASE ~ (\/ m.vote = NotAVote
                \/ m.vote.sender = Unreadable \/ m.vote.events = Unreadable)
    <3> DEFINE voted == IF m.vote.events = <<>> THEN <<0>> ELSE m.vote.events
               Vote(i) == [poll_id |-> m.vote.poll_id, chain |-> m.vote.chain,
                           tx_id |-> voted[i], sender_id |-> m.vote.sender]
               S == {Vote(i) : i \in DOMAIN voted}
    <3>1. IsList(m.vote.events)
      BY <1>1, <2>2 DEF WellFormedVote
    <3>2. Len(voted) \in Nat /\ DOMAIN voted = 1..Len(voted)
      <4>1. CASE m.vote.events = <<>>
        <5>1. voted = <<0>>
          BY <4>1
        <5> HIDE DEF voted
        <5>2. QED
          BY <5>1
      <4>2. CASE m.vote.events # <<>>
        BY <3>1, <4>2, ListFacts
      <4>3. QED
        BY <4>1, <4>2
    <3>3. [i \in DOMAIN voted |-> Vote(i)] \in Seq(S)
      <4> HIDE DEF voted
      <4>1. \A i \in 1..Len(voted) : Vote(i) \in S
        BY <3>2
      <4> HIDE DEF S, Vote
      <4>2. QED
        BY <3>2, <4>1
    <3>4. VotesOf(m) = [i \in DOMAIN voted |-> Vote(i)]
      BY <2>2, Zenon DEF VotesOf, PollVotes
    <3>5. QED
      <4> HIDE DEF S, Vote, voted
      <4>1. VotesOf(m) \in Seq(S)
        BY <3>3, <3>4
      <4>2. QED
        BY <4>1, ListFacts
  <2>3. QED
    BY <2>1, <2>2
<1>2. ASSUME NEW m, WellFormedVote(m)
      PROVE  /\ IsList(DirectRefund(m))
             /\ \A x \in Range(DirectRefund(m)) : IsRefund(x)
  <2>1. CASE m.type = "RefundMsg"
    <3>1. DirectRefund(m) = <<m>> /\ <<m>> \in Seq({m})
      BY <2>1 DEF DirectRefund
    <3>2. \A s \in Seq({m}) : IsList(s) /\ Range(s) \subseteq {m}
      BY ListFacts
    <3>3. IsList(DirectRefund(m)) /\ Range(DirectRefund(m)) \subseteq {m}
      BY <3>1, <3>2
    <3>4. QED
      BY <1>2, <2>1, <3>3
  <2>2. CASE m.type # "RefundMsg"
    <3>1. DirectRefund(m) = <<>> /\ <<>> \in Seq({})
      BY <2>2 DEF DirectRefund
    <3>2. \A s \in Seq({}) : IsList(s) /\ Range(s) \subseteq {}
      BY ListFacts
    <3>3. IsList(DirectRefund(m)) /\ Range(DirectRefund(m)) \subseteq {}
      BY <3>1, <3>2
    <3>4. QED
      BY <3>3
  <2>3. QED
    BY <2>1, <2>2
<1>3. ASSUME NEW m, WellFormedMessage(m)
      PROVE  /\ IsList(RefundsOf(m))
             /\ \A x \in Range(RefundsOf(m)) : IsRefund(x)
  <2>1. CASE m.type = "Batch"
    <3> DEFINE f == [i \in DOMAIN m.messages |-> DirectRefund(m.messages[i])]
    <3>1. /\ Len(m.messages) \in Nat /\ DOMAIN m.messages = 1..Len(m.messages)
          /\ \A i \in 1..Len(m.messages) : WellFormedVote(m.messages[i])
      BY <1>3, <2>1, ListFacts DEF WellFormedMessage
    <3>2. \A i \in 1..Len(m.messages) : /\ IsList(f[i])
                                       /\ \A x \in Range(f[i]) : IsRefund(x)
      BY <1>2, <3>1
    <3> HIDE DEF f, IsRefund
    <3>3. /\ IsList(Joined(f, Len(m.messages)))
          /\ \A x \in Range(Joined(f, Len(m.messages))) : IsRefund(x)
      BY <3>1, <3>2, JoinedList
    <3>4. RefundsOf(m) = Joined(f, Len(m.messages))
      BY <2>1 DEF RefundsOf, FlatMap, f
    <3>5. QED
      BY <3>3, <3>4
  <2>2. CASE m.type # "Batch"
    BY <1>2, <1>3, <2>2 DEF RefundsOf, WellFormedMessage
  <2>3. QED
    BY <2>1, <2>2
<1> HIDE DEF IsRefund
<1>4. ASSUME NEW t \in Decoded(block)
      PROVE  IsList(FlatMap(VotesOf, FlatMap(RefundsOf, t.messages)))
  <2> DEFINE f == [i \in DOMAIN t.messages |-> RefundsOf(t.messages[i])]
             refunds == Joined(f, Len(t.messages))
             g == [i \in DOMAIN refunds |-> VotesOf(refunds[i])]
  <2>1. /\ Len(t.messages) \in Nat /\ DOMAIN t.messages = 1..Len(t.messages)
        /\ \A i \in 1..Len(t.messages) : WellFormedMessage(t.messages[i])
    BY ListFacts DEF WellFormedBlock, Decoded
  <2>2. \A i \in 1..Len(t.messages) : /\ IsList(f[i])
                                     /\ \A x \in Range(f[i]) : IsRefund(x)
    BY <1>3, <2>1
  <2>3. FlatMap(RefundsOf, t.messages) = refunds
    BY DEF FlatMap
  <2> HIDE DEF f
  <2>4. IsList(refunds) /\ \A x \in Range(refunds) : IsRefund(x)
    BY <2>1, <2>2, JoinedList
  <2> HIDE DEF refunds
  <2>5. /\ Len(refunds) \in Nat /\ DOMAIN refunds = 1..Len(refunds)
        /\ \A i \in 1..Len(refunds) : IsRefund(refunds[i])
    BY <2>4, ListFacts
  <2>6. \A i \in 1..Len(refunds) : IsList(g[i])
    BY <1>1, <2>5
  <2>7. FlatMap(VotesOf, refunds) = Joined(g, Len(refunds))
    BY DEF FlatMap
  <2> HIDE DEF g
  <2>8. QED
    BY <2>3, <2>5, <2>6, <2>7, JoinedList
<1> DEFINE txs == GetTxs(block)
           g == [i \in DOMAIN txs |->
                   FlatMap(VotesOf, FlatMap(RefundsOf, txs[i].messages))]
<1>5. txs \in Seq(Decoded(block))
  BY GetTxsType
<1>6. GetVotesFromTxs(txs) = Joined(g, Len(txs))
  BY DEF GetVotesFromTxs, FlatMap
<1> HIDE DEF txs
<1>7. Len(txs) \in Nat /\ DOMAIN txs = 1..Len(txs)
      /\ \A i \in 1..Len(txs) : txs[i] \in Decoded(block)
  BY <1>5
<1>8. \A i \in 1..Len(txs) : IsList(g[i])
  BY <1>4, <1>7
<1> HIDE DEF g
<1>9. IsList(Joined(g, Len(txs)))
  BY <1>7, <1>8, JoinedList
<1>10. QED
  BY <1>6, <1>9 DEF ProcessBlock, txs

----------------------------------------------------------------------------
(* The outcomes of a poll.                                                 *)

(* A poll with a list of votes has finitely many outcomes.                 *)
LEMMA OutcomesFinite ==
  ASSUME NEW id, NEW poll, IsList(poll.votes)
  PROVE  IsFiniteSet(AnalyzePollCompletion(id, poll))
<1>1. ASSUME NEW N \in Nat, NEW D, D \subseteq 1..N, NEW f
      PROVE  IsFiniteSet({f[i] : i \in D})
  <2>1. IsFiniteSet(1..N)
    BY FS_Interval
  <2>2. IsFiniteSet(D)
    BY <1>1, <2>1, FS_Subset
  <2>3. QED
    BY <2>2, ImageFinite
<1> DEFINE B == {i \in DOMAIN Broadcasters :
                   Broadcasters[i].name \notin Voters(poll.votes)}
           b == [i \in B |-> [poll |-> id, entry |-> i,
                   key |-> Key(Broadcasters[i].name, poll.data.chain, "missed")]]
           V == Known(poll.votes)
           KeyOf(vote) ==
             Key(NameOf(vote.sender_id), vote.chain, Verdict(vote, poll.votes))
           v == [i \in V |->
                   [poll |-> id, entry |-> i, key |-> KeyOf(poll.votes[i])]]
<1>2. B \subseteq 1..Len(Broadcasters) /\ Len(Broadcasters) \in Nat
  BY TallyAssumption
<1>3. V \subseteq 1..Len(poll.votes) /\ Len(poll.votes) \in Nat
  BY ListFacts DEF Known
<1>4. CountMissed(id, poll) = {b[i] : i \in B}
  BY DEF CountMissed
<1>5. CountVotes(id, poll) = {v[i] : i \in V}
  <2>1. CountVotes(id, poll)
          = {[poll |-> id, entry |-> i, key |-> KeyOf(poll.votes[i])] : i \in V}
    BY Zenon DEF CountVotes
  <2>2. \A i \in V : v[i] = [poll |-> id, entry |-> i, key |-> KeyOf(poll.votes[i])]
    OBVIOUS
  <2> HIDE DEF v, V, KeyOf
  <2>3. QED
    BY <2>1, <2>2
<1> HIDE DEF B, b, V, v, KeyOf
<1>6. IsFiniteSet(CountMissed(id, poll)) /\ IsFiniteSet(CountVotes(id, poll))
  <2>1. IsFiniteSet({b[i] : i \in B})
    BY <1>1, <1>2
  <2>2. IsFiniteSet({v[i] : i \in V})
    BY <1>1, <1>3
  <2>3. QED
    BY <1>4, <1>5, <2>1, <2>2
<1>7. QED
  BY <1>6, FS_Union DEF AnalyzePollCompletion
=============================================================================
