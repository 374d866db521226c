----------------------------- MODULE VerdictProofs -----------------------------
(***************************************************************************)
(* Proofs about the verdict on a poll, for every configuration, any number *)
(* of votes and any spelling of the chain: everyone is accounted for,      *)
(* agreement follows popularity, and the order of the votes is irrelevant. *)
(***************************************************************************)
EXTENDS PollVerdict, TallyProofs

----------------------------------------------------------------------------
(* A poll, and the votes counted with one result for one name.             *)

CountedAs(p, name, result) ==
  {i \in Known(p.votes) : /\ NameOf(p.votes[i].sender_id) = name
                          /\ Verdict(p.votes[i], p.votes) = result}

LEMMA PollFacts ==
  ASSUME NEW p \in Poll
  PROVE  /\ Ballots(p.votes, Len(p.votes))
         /\ \A i \in DOMAIN p.votes : p.votes[i].chain \in Spellings
         /\ p.data.chain \in Spellings
         /\ Known(p.votes) \subseteq DOMAIN p.votes
<1>1. p.votes \in Seq(Vote) /\ p.data.chain \in Spellings
  BY DEF Poll
<1>2. ASSUME NEW v \in Vote PROVE v.chain \in Spellings /\ v.tx_id \in Nat
  BY VerdictAssumption DEF Vote
<1>3. \A i \in 1..Len(p.votes) : p.votes[i] \in Vote
  BY <1>1
<1>4. Len(p.votes) \in Nat /\ DOMAIN p.votes = 1..Len(p.votes)
  BY <1>1
<1>5. QED
  BY <1>1, <1>2, <1>3, <1>4 DEF Ballots, Known

(* Every spelling of the chain leads to the same counters, which differ    *)
(* from name to name and from result to result.                            *)
LEMMA KeysAreDistinct ==
  /\ \A n, r : \A c \in Spellings : Key(n, c, r) = Key(n, Chain, r)
  /\ \A n, m, r, s : Key(n, Chain, r) = Key(m, Chain, s) => n = m /\ r = s
<1>1. ASSUME NEW n, NEW r, NEW c \in Spellings PROVE Key(n, c, r) = Key(n, Chain, r)
  <2>1. Lower[c] = Lower[Chain]
    BY VerdictAssumption DEF Spellings
  <2>2. QED
    BY <2>1 DEF Key
<1>2. ASSUME NEW n, NEW m, NEW r, NEW s, Key(n, Chain, r) = Key(m, Chain, s)
      PROVE  n = m /\ r = s
  BY <1>2 DEF Key
<1>3. QED
  BY <1>1, <1>2

(* The outcomes of a poll: what is missed, and what is counted for votes.  *)
LEMMA OutcomeKeys ==
  ASSUME NEW p \in Poll
  PROVE  /\ CountMissed(1, p)
              = {[poll |-> 1, entry |-> i,
                  key |-> Key(Broadcasters[i].name, Chain, "missed")] :
                   i \in {j \in DOMAIN Broadcasters :
                            Broadcasters[j].name \notin Voters(p.votes)}}
         /\ CountVotes(1, p)
              = {[poll |-> 1, entry |-> i,
                  key |-> Key(NameOf(p.votes[i].sender_id), Chain,
                              Verdict(p.votes[i], p.votes))] :
                   i \in Known(p.votes)}
<1>1. CountMissed(1, p)
        = {[poll |-> 1, entry |-> i,
            key |-> Key(Broadcasters[i].name, p.data.chain, "missed")] :
             i \in {j \in DOMAIN Broadcasters :
                      Broadcasters[j].name \notin Voters(p.votes)}}
  BY Zenon DEF CountMissed
<1>2. CountVotes(1, p)
        = {[poll |-> 1, entry |-> i,
            key |-> Key(NameOf(p.votes[i].sender_id), p.votes[i].chain,
                        Verdict(p.votes[i], p.votes))] : i \in Known(p.votes)}
  BY Zenon DEF CountVotes
<1>3. \A n, r : Key(n, p.data.chain, r) = Key(n, Chain, r)
  BY PollFacts, KeysAreDistinct
<1>4. \A i \in Known(p.votes) :
        \A n, r : Key(n, p.votes[i].chain, r) = Key(n, Chain, r)
  BY PollFacts, KeysAreDistinct
<1>5. QED
  BY <1>1, <1>2, <1>3, <1>4

OutcomesAt(p, k) == {o \in AnalyzePollCompletion(1, p) : o.key = k}

LEMMA MissedOutcomes ==
  ASSUME NEW p \in Poll, NEW n \in Names
  PROVE  Cardinality(OutcomesAt(p, Key(n, Chain, "missed")))
           = IF n \in Voters(p.votes) THEN 0 ELSE Cardinality(EntriesOf(n))
<1> DEFINE M == {i \in EntriesOf(n) : n \notin Voters(p.votes)}
           k == Key(n, Chain, "missed")
           f == [i \in M |-> [poll |-> 1, entry |-> i, key |-> k]]
<1>1. ASSUME NEW o
      PROVE  o \in OutcomesAt(p, k) <=> \E i \in M : o = f[i]
  <2>1. o \in CountMissed(1, p) /\ o.key = k
          <=> \E i \in M : o = [poll |-> 1, entry |-> i, key |-> k]
    <3>1. o \in CountMissed(1, p)
            <=> \E i \in DOMAIN Broadcasters :
                  /\ Broadcasters[i].name \notin Voters(p.votes)
                  /\ o = [poll |-> 1, entry |-> i,
                          key |-> Key(Broadcasters[i].name, Chain, "missed")]
      BY OutcomeKeys
    <3>2. QED
      BY <3>1, KeysAreDistinct DEF EntriesOf
  <2>2. ~ (o \in CountVotes(1, p) /\ o.key = k)
    <3>1. o \in CountVotes(1, p)
            => \E i \in Known(p.votes) :
                 o.key = Key(NameOf(p.votes[i].sender_id), Chain,
                             Verdict(p.votes[i], p.votes))
      BY OutcomeKeys
    <3>2. \A i : Verdict(p.votes[i], p.votes) # "missed"
      BY DEF Verdict
    <3>3. QED
      BY <3>1, <3>2, KeysAreDistinct
  <2>3. o \in OutcomesAt(p, k)
          <=> (o \in CountMissed(1, p) \/ o \in CountVotes(1, p)) /\ o.key = k
    BY DEF OutcomesAt, AnalyzePollCompletion
  <2>4. QED
    BY <2>1, <2>2, <2>3
<1>2. OutcomesAt(p, k) = {f[i] : i \in M}
  <2> HIDE DEF f, M, k
  <2>1. QED
    BY <1>1
<1>3. IsFiniteSet(M)
  <2>1. DOMAIN Broadcasters = 1..Len(Broadcasters) /\ Len(Broadcasters) \in Nat
    BY TallyAssumption
  <2>2. M \subseteq 1..Len(Broadcasters)
    BY <2>1 DEF EntriesOf
  <2> HIDE DEF M
  <2>3. IsFiniteSet(1..Len(Broadcasters))
    BY <2>1, FS_Interval
  <2>4. QED
    BY <2>2, <2>3, FS_Subset
<1>4. Cardinality({f[i] : i \in M}) = Cardinality(M)
  <2>1. \A i \in M : f[i].entry = i
    OBVIOUS
  <2> HIDE DEF f, M
  <2>2. QED
    BY <1>3, <2>1, TaggedCount
<1>5. CASE n \in Voters(p.votes)
  <2>1. M = {}
    BY <1>5
  <2> HIDE DEF M, f, k
  <2>2. QED
    BY <1>2, <1>4, <1>5, <2>1, FS_EmptySet DEF k
<1>6. CASE n \notin Voters(p.votes)
  <2>1. M = EntriesOf(n)
    BY <1>6 DEF EntriesOf
  <2> HIDE DEF M, f, k
  <2>2. QED
    BY <1>2, <1>4, <1>6, <2>1 DEF k
<1>7. QED
  BY <1>5, <1>6

LEMMA VoteOutcomes ==
  ASSUME NEW p \in Poll, NEW n, NEW r \in {"agreed", "disagreed"}
  PROVE  /\ IsFiniteSet(CountedAs(p, n, r))
         /\ Cardinality(OutcomesAt(p, Key(n, Chain, r)))
              = Cardinality(CountedAs(p, n, r))
<1> DEFINE V == CountedAs(p, n, r)
           k == Key(n, Chain, r)
           f == [i \in V |-> [poll |-> 1, entry |-> i, key |-> k]]
<1>1. ASSUME NEW o
      PROVE  o \in OutcomesAt(p, k) <=> \E i \in V : o = f[i]
  <2>1. o \in CountVotes(1, p) /\ o.key = k
          <=> \E i \in V : o = [poll |-> 1, entry |-> i, key |-> k]
    <3>1. o \in CountVotes(1, p)
            <=> \E i \in Known(p.votes) :
                  o = [poll |-> 1, entry |-> i,
                       key |-> Key(NameOf(p.votes[i].sender_id), Chain,
                                   Verdict(p.votes[i], p.votes))]
      BY OutcomeKeys
    <3>2. QED
      BY <3>1, KeysAreDistinct DEF CountedAs
  <2>2. ~ (o \in CountMissed(1, p) /\ o.key = k)
    <3>1. o \in CountMissed(1, p)
            => \E m : o.key = Key(m, Chain, "missed")
      BY OutcomeKeys
    <3>2. QED
      BY <3>1, KeysAreDistinct
  <2>3. o \in OutcomesAt(p, k)
          <=> (o \in CountMissed(1, p) \/ o \in CountVotes(1, p)) /\ o.key = k
    BY DEF OutcomesAt, AnalyzePollCompletion
  <2>4. QED
    BY <2>1, <2>2, <2>3
<1>2. OutcomesAt(p, k) = {f[i] : i \in V}
  <2> HIDE DEF f, V, k
  <2>1. QED
    BY <1>1
<1>3. IsFiniteSet(V)
  <2>1. V \subseteq DOMAIN p.votes
    BY DEF CountedAs, Known
  <2>2. QED
    BY <2>1, PollFacts, VotesAreFinite
<1>4. Cardinality({f[i] : i \in V}) = Cardinality(V)
  <2>1. \A i \in V : f[i].entry = i
    OBVIOUS
  <2> HIDE DEF f, V
  <2>2. QED
    BY <1>3, <2>1, TaggedCount
<1>5. QED
  BY <1>2, <1>3, <1>4

----------------------------------------------------------------------------
(* The counters after the verdict.                                         *)

(* They are the registered ones, and each holds its outcomes.              *)
LEMMA CountersAre ==
  ASSUME NEW p \in Poll
  PROVE  /\ DOMAIN Judged(p) = SeriesOf(Chain)
         /\ \A n \in Names :
              /\ Judged(p)[Key(n, Chain, "missed")]
                   = IF n \in Voters(p.votes) THEN 0 ELSE Cardinality(EntriesOf(n))
              /\ \A r \in {"agreed", "disagreed"} :
                   Judged(p)[Key(n, Chain, r)] = Cardinality(CountedAs(p, n, r))
<1> DEFINE before == Register(<<>>, Chain)
           A == AnalyzePollCompletion(1, p)
<1>1. DOMAIN before = SeriesOf(Chain) /\ \A k \in SeriesOf(Chain) : before[k] = 0
  BY DEF Register, ValueAt
<1>2. \A o \in A : o.key \in SeriesOf(Chain)
  <2>1. ASSUME NEW o \in CountMissed(1, p) PROVE o.key \in SeriesOf(Chain)
    <3>1. \E i \in DOMAIN Broadcasters :
            o.key = Key(Broadcasters[i].name, Chain, "missed")
      BY OutcomeKeys
    <3>2. QED
      BY <3>1 DEF SeriesOf, Names, VoteResultType
  <2>2. ASSUME NEW o \in CountVotes(1, p) PROVE o.key \in SeriesOf(Chain)
    <3>1. PICK i \in Known(p.votes) :
            o.key = Key(NameOf(p.votes[i].sender_id), Chain,
                        Verdict(p.votes[i], p.votes))
      BY OutcomeKeys
    <3>2. NameOf(p.votes[i].sender_id) \in Names
      BY NameIsConfigured DEF Known, Names
    <3>3. Verdict(p.votes[i], p.votes) \in VoteResultType
      BY DEF Verdict, VoteResultType
    <3>4. QED
      BY <3>1, <3>2, <3>3 DEF SeriesOf
  <2>3. QED
    BY <2>1, <2>2 DEF AnalyzePollCompletion
<1>3. DOMAIN Judged(p) = DOMAIN before \cup {o.key : o \in A}
  BY DEF Judged, Counted
<1>4. DOMAIN Judged(p) = SeriesOf(Chain)
  <2> HIDE DEF A, before
  <2>1. QED
    BY <1>1, <1>2, <1>3
<1>5. ASSUME NEW k \in SeriesOf(Chain)
      PROVE  Judged(p)[k] = 0 + Cardinality(OutcomesAt(p, k))
  <2>1. ValueAt(before, k) = 0
    BY <1>1 DEF ValueAt
  <2>2. Judged(p)[k] = ValueAt(before, k) + Cardinality(OutcomesAt(p, k))
    BY <1>3, <1>4 DEF Judged, Counted, OutcomesAt
  <2>3. QED
    BY <2>1, <2>2
<1>6. ASSUME NEW n \in Names, NEW r \in VoteResultType
      PROVE  Key(n, Chain, r) \in SeriesOf(Chain)
  BY DEF SeriesOf
<1>7. ASSUME NEW n \in Names
      PROVE  Judged(p)[Key(n, Chain, "missed")]
               = IF n \in Voters(p.votes) THEN 0 ELSE Cardinality(EntriesOf(n))
  <2>1. Key(n, Chain, "missed") \in SeriesOf(Chain)
    BY <1>6 DEF VoteResultType
  <2>2. IsFiniteSet(EntriesOf(n))
    <3>1. DOMAIN Broadcasters = 1..Len(Broadcasters) /\ Len(Broadcasters) \in Nat
      BY TallyAssumption
    <3>2. EntriesOf(n) \subseteq 1..Len(Broadcasters)
      BY <3>1 DEF EntriesOf
    <3>3. IsFiniteSet(1..Len(Broadcasters))
      BY <3>1, FS_Interval
    <3>4. QED
      BY <3>2, <3>3, FS_Subset
  <2>3. Cardinality(EntriesOf(n)) \in Nat
    BY <2>2, FS_CardinalityType
  <2>4. QED
    BY <1>5, <2>1, <2>3, MissedOutcomes
<1>8. ASSUME NEW n \in Names, NEW r \in {"agreed", "disagreed"}
      PROVE  Judged(p)[Key(n, Chain, r)] = Cardinality(CountedAs(p, n, r))
  <2>1. Key(n, Chain, r) \in SeriesOf(Chain)
    BY <1>6 DEF VoteResultType
  <2>2. Cardinality(CountedAs(p, n, r)) \in Nat
    BY VoteOutcomes, FS_CardinalityType
  <2>3. QED
    BY <1>5, <2>1, <2>2, VoteOutcomes
<1>9. QED
  BY <1>4, <1>7, <1>8

(* Every vote sent by a configured name is of that name, when no address   *)
(* has two.                                                                *)
OneNamePerAddress ==
  \A i, j \in DOMAIN Broadcasters :
    Broadcasters[i].address = Broadcasters[j].address
      => Broadcasters[i].name = Broadcasters[j].name

LEMMA SendersAre ==
  ASSUME OneNamePerAddress, NEW n
  PROVE  /\ SentBy(n)
              = {i \in Known(poll.votes) : NameOf(poll.votes[i].sender_id) = n}
         /\ n \in Voters(poll.votes) <=> SentBy(n) # {}
<1>1. ASSUME NEW i \in DOMAIN poll.votes
      PROVE  i \in SentBy(n)
               <=> i \in Known(poll.votes) /\ NameOf(poll.votes[i].sender_id) = n
  <2> DEFINE a == poll.votes[i].sender_id
  <2>1. CASE a \in Addresses
    <3>1. PICK e \in DOMAIN Broadcasters :
            Broadcasters[e].address = a /\ NameOf(a) = Broadcasters[e].name
      BY <2>1, NameIsConfigured
    <3>2. \A d \in DOMAIN Broadcasters :
            Broadcasters[d].address = a => Broadcasters[d].name = NameOf(a)
      BY <3>1 DEF OneNamePerAddress
    <3>3. QED
      BY <2>1, <3>1, <3>2 DEF SentBy, EntriesOf, Known
  <2>2. CASE a \notin Addresses
    BY <2>2 DEF SentBy, EntriesOf, Known, Addresses
  <2>3. QED
    BY <2>1, <2>2
<1>2. SentBy(n) \subseteq DOMAIN poll.votes /\ Known(poll.votes) \subseteq DOMAIN poll.votes
  BY DEF SentBy, Known
<1>3. SentBy(n) = {i \in Known(poll.votes) : NameOf(poll.votes[i].sender_id) = n}
  BY <1>1, <1>2
<1>4. QED
  BY <1>3 DEF Voters

(* The votes of a name agree or disagree.                                  *)
LEMMA SentVotesAre ==
  ASSUME OneNamePerAddress, poll \in Poll, NEW n
  PROVE  /\ SentBy(n) = CountedAs(poll, n, "agreed") \cup CountedAs(poll, n, "disagreed")
         /\ CountedAs(poll, n, "agreed") \cap CountedAs(poll, n, "disagreed") = {}
         /\ \A i \in SentBy(n) :
              /\ poll.votes[i].tx_id = Majority(poll.votes)
                   => i \in CountedAs(poll, n, "agreed")
              /\ poll.votes[i].tx_id # Majority(poll.votes)
                   => i \in CountedAs(poll, n, "disagreed")
  BY SendersAre DEF CountedAs, Verdict

----------------------------------------------------------------------------
(* The order of the votes.                                                 *)

(* A property of votes, by index, holds of as many votes in any order.     *)
LEMMA AsManyReordered ==
  ASSUME NEW D, NEW p \in Bijection(D, D), NEW S, NEW T, IsFiniteSet(D),
         S \subseteq D, T \subseteq D, \A i \in D : i \in S <=> p[i] \in T
  PROVE  Cardinality(S) = Cardinality(T)
<1> DEFINE g == [i \in S |-> p[i]]
<1>1. /\ p \in [D -> D] /\ \A j \in D : \E i \in D : p[i] = j
      /\ \A i, j \in D : p[i] = p[j] => i = j
  BY DEF Bijection, Injection, Surjection, IsInjective
<1>2. g \in [S -> T] /\ \A j \in T : \E i \in S : g[i] = j
  BY <1>1
<1>3. IsInjective(g)
  BY <1>1 DEF IsInjective
<1> HIDE DEF g
<1>4. g \in Bijection(S, T)
  BY <1>2, <1>3, Zenon DEF Bijection, Injection, Surjection
<1>5. ExistsBijection(S, T)
  BY <1>4 DEF ExistsBijection
<1>6. IsFiniteSet(S)
  BY FS_Subset
<1>7. QED
  BY <1>5, <1>6, FS_Bijection

(* The same votes in another order have the same majority and voters, and  *)
(* as many of them are counted for each name and result.                   *)
LEMMA ReorderedAlike ==
  ASSUME NEW q \in Poll, NEW p \in Bijection(DOMAIN q.votes, DOMAIN q.votes),
         NEW t, t = [q EXCEPT !.votes = Reordered(@, p)]
  PROVE  Judged(t) = Judged(q)
<1> DEFINE D == DOMAIN q.votes
<1>1. /\ p \in [D -> D] /\ \A j \in D : \E i \in D : p[i] = j
      /\ \A i, j \in D : p[i] = p[j] => i = j
  BY DEF Bijection, Injection, Surjection, IsInjective
<1>2. /\ t.data = q.data /\ DOMAIN t.votes = D
      /\ \A i \in D : t.votes[i] = q.votes[p[i]]
  BY DEF Poll, Reordered
<1>3. t \in Poll
  <2>1. q.votes \in Seq(Vote) /\ q.data \in [chain : Spellings]
    BY DEF Poll
  <2>2. D = 1..Len(q.votes) /\ Len(q.votes) \in Nat
        /\ \A i \in D : q.votes[i] \in Vote
    BY <2>1
  <2>3. Reordered(q.votes, p) \in [1..Len(q.votes) -> Vote]
    BY <1>1, <2>2 DEF Reordered
  <2>4. Reordered(q.votes, p) \in Seq(Vote)
    BY <2>2, <2>3
  <2>5. t = [data |-> q.data, votes |-> Reordered(q.votes, p)]
    BY DEF Poll
  <2>6. QED
    BY <2>1, <2>4, <2>5 DEF Poll
<1>4. Ballots(q.votes, Len(q.votes)) /\ Ballots(t.votes, Len(t.votes))
  BY <1>3, PollFacts
<1>5. IsFiniteSet(D)
  BY <1>4, VotesAreFinite
<1>6. TxIds(t.votes) = TxIds(q.votes)
  BY <1>1, <1>2 DEF TxIds
<1>7. ASSUME NEW x PROVE VotesFor(t.votes, x) = VotesFor(q.votes, x)
  <2> DEFINE S == {i \in DOMAIN t.votes : t.votes[i].tx_id = x}
             T == {i \in DOMAIN q.votes : q.votes[i].tx_id = x}
  <2>1. S \subseteq D /\ T \subseteq D /\ \A i \in D : i \in S <=> p[i] \in T
    BY <1>1, <1>2
  <2> HIDE DEF S, T
  <2>2. Cardinality(S) = Cardinality(T)
    BY <1>5, <2>1, AsManyReordered
  <2>3. QED
    BY <2>2 DEF VotesFor, S, T
<1>8. Majority(t.votes) = Majority(q.votes)
  BY <1>6, <1>7 DEF Majority
<1>9. \A i \in D : i \in Known(t.votes) <=> p[i] \in Known(q.votes)
  BY <1>1, <1>2 DEF Known
<1>10. Voters(t.votes) = Voters(q.votes)
  <2>1. Known(t.votes) \subseteq D /\ Known(q.votes) \subseteq D
    BY <1>2 DEF Known
  <2>2. \A j \in Known(q.votes) : \E i \in Known(t.votes) : p[i] = j
    BY <1>1, <1>9, <2>1
  <2>3. QED
    BY <1>2, <1>9, <2>1, <2>2 DEF Voters
<1>11. ASSUME NEW n, NEW r
       PROVE  Cardinality(CountedAs(t, n, r)) = Cardinality(CountedAs(q, n, r))
  <2>1. CountedAs(t, n, r) \subseteq D /\ CountedAs(q, n, r) \subseteq D
    BY <1>2 DEF CountedAs, Known
  <2>2. \A i \in D : i \in CountedAs(t, n, r) <=> p[i] \in CountedAs(q, n, r)
    BY <1>1, <1>2, <1>8, <1>9 DEF CountedAs, Verdict
  <2>3. QED
    BY <1>5, <2>1, <2>2, AsManyReordered
<1>12. DOMAIN Judged(t) = SeriesOf(Chain) /\ DOMAIN Judged(q) = SeriesOf(Chain)
  BY <1>3, CountersAre
<1>13. ASSUME NEW k \in SeriesOf(Chain) PROVE Judged(t)[k] = Judged(q)[k]
  <2>1. PICK n \in Names, r \in VoteResultType : k = Key(n, Chain, r)
    BY DEF SeriesOf
  <2>2. CASE r = "missed"
    BY <1>3, <1>10, <2>1, <2>2, CountersAre
  <2>3. CASE r \in {"agreed", "disagreed"}
    BY <1>3, <1>11, <2>1, <2>3, CountersAre
  <2>4. QED
    BY <2>2, <2>3 DEF VoteResultType
<1>14. Judged(t) = [k \in DOMAIN Judged(t) |-> Judged(t)[k]]
       /\ Judged(q) = [k \in DOMAIN Judged(q) |-> Judged(q)[k]]
  BY DEF Judged, Counted
<1>15. QED
  BY <1>12, <1>13, <1>14

----------------------------------------------------------------------------
(* Theorems.                                                               *)

LEMMA FreshPolls == Fresh \subseteq Poll
<1> DEFINE none == <<>>
<1>1. none \in Seq(Vote)
  OBVIOUS
<1>2. Fresh = {[data |-> [chain |-> c], votes |-> none] : c \in Spellings}
  BY DEF Fresh
<1> HIDE DEF none
<1>3. QED
  BY <1>1, <1>2 DEF Poll

(* A poll stays a poll, with votes for its chain.                          *)
LEMMA PollTypeCorrect == Spec => []PollTypeOK
<1>1. Init => PollTypeOK
  BY FreshPolls DEF Init, PollTypeOK
<1>2. PollTypeOK /\ [Next]_poll => PollTypeOK'
  <2> SUFFICES ASSUME poll \in Poll, [Next]_poll PROVE poll' \in Poll
    BY DEF PollTypeOK
  <2>1. CASE Cast
    <3>1. PICK v \in Vote : poll' = [poll EXCEPT !.votes = Append(@, v)]
      BY <2>1 DEF Cast
    <3>2. Append(poll.votes, v) \in Seq(Vote)
      BY DEF Poll
    <3>3. QED
      BY <3>1, <3>2 DEF Poll
  <2>2. CASE Expire
    BY <2>2, FreshPolls DEF Expire
  <2>3. CASE UNCHANGED poll
    BY <2>3
  <2>4. QED
    BY <2>1, <2>2, <2>3 DEF Next
<1>3. QED
  BY <1>1, <1>2, PTL DEF Spec

(* However many votes, broadcasters, addresses and spellings there are:    *)
(* every configured name is missed or has each of its votes counted once,  *)
(* and nothing else is counted.                                            *)
THEOREM EveryoneIsCounted ==
  ASSUME OneNamePerAddress
  PROVE  Spec => []EveryoneAccountedFor
<1>1. PollTypeOK => EveryoneAccountedFor
  <2> SUFFICES ASSUME poll \in Poll PROVE EveryoneAccountedFor
    BY DEF PollTypeOK
  <2>1. ASSUME NEW n \in Names
        PROVE  Outcomes(n, "missed")
                 = IF SentBy(n) = {} THEN Cardinality(EntriesOf(n)) ELSE 0
    BY CountersAre, SendersAre DEF Outcomes
  <2>2. ASSUME NEW n \in Names
        PROVE  Outcomes(n, "agreed") + Outcomes(n, "disagreed")
                 = Cardinality(SentBy(n))
    <3> DEFINE A == CountedAs(poll, n, "agreed")
               B == CountedAs(poll, n, "disagreed")
    <3>1. IsFiniteSet(A) /\ IsFiniteSet(B)
      BY VoteOutcomes
    <3>2. Outcomes(n, "agreed") = Cardinality(A) /\ Outcomes(n, "disagreed") = Cardinality(B)
      BY CountersAre DEF Outcomes
    <3>3. SentBy(n) = A \cup B /\ A \cap B = {}
      BY SentVotesAre
    <3> HIDE DEF A, B
    <3>4. Cardinality(A \cup B) = Cardinality(A) + Cardinality(B) - Cardinality({})
      BY <3>1, <3>3, FS_Union
    <3>5. Cardinality(A) \in Nat /\ Cardinality(B) \in Nat /\ Cardinality({}) = 0
      BY <3>1, FS_CardinalityType, FS_EmptySet
    <3>6. QED
      BY <3>2, <3>3, <3>4, <3>5
  <2>3. QED
    BY <2>1, <2>2, CountersAre DEF EveryoneAccountedFor
<1>2. QED
  BY <1>1, PollTypeCorrect, PTL

(* Votes for a tx ahead of all others agree, votes for a tx that is behind *)
(* another disagree, whoever else voted.                                   *)
THEOREM AgreementFollowsPopularity ==
  ASSUME OneNamePerAddress
  PROVE  Spec => []AgreementIsPopularity
<1>1. PollTypeOK => AgreementIsPopularity
  <2> SUFFICES ASSUME poll \in Poll, NEW n \in Names
               PROVE  /\ Outcomes(n, "agreed")
                           >= Cardinality(SentFor(n, Top(poll.votes)))
                      /\ Outcomes(n, "disagreed")
                           >= Cardinality(SentFor(n, Beaten(poll.votes)))
    BY DEF PollTypeOK, AgreementIsPopularity
  <2> DEFINE A == CountedAs(poll, n, "agreed")
             B == CountedAs(poll, n, "disagreed")
             m == Majority(poll.votes)
  <2>1. Outcomes(n, "agreed") = Cardinality(A) /\ Outcomes(n, "disagreed") = Cardinality(B)
    BY CountersAre DEF Outcomes
  <2>2. Ballots(poll.votes, Len(poll.votes)) /\ SentBy(n) \subseteq DOMAIN poll.votes
    BY PollFacts DEF SentBy
  <2>3. ASSUME NEW i \in SentBy(n)
        PROVE  /\ m \in TxIds(poll.votes)
               /\ \A t \in TxIds(poll.votes) :
                    VotesFor(poll.votes, m) >= VotesFor(poll.votes, t)
    <3>1. Len(poll.votes) # 0
      BY <2>2 DEF Ballots
    <3>2. QED
      BY <2>2, <3>1, MajorityLeads
  <2>4. \A t : VotesFor(poll.votes, t) \in Nat
    <3>1. \A t : {i \in DOMAIN poll.votes : poll.votes[i].tx_id = t}
                   \subseteq DOMAIN poll.votes
      OBVIOUS
    <3>2. QED
      BY <2>2, <3>1, VotesAreFinite DEF VotesFor
  <2>5. SentFor(n, Top(poll.votes)) \subseteq A
    <3>1. SUFFICES ASSUME NEW i \in SentBy(n), poll.votes[i].tx_id \in Top(poll.votes)
                   PROVE  poll.votes[i].tx_id = m
      BY SentVotesAre DEF SentFor
    <3>2. ~ (VotesFor(poll.votes, poll.votes[i].tx_id) > VotesFor(poll.votes, m))
      BY <2>3, <2>4, <3>1 DEF Top
    <3>3. QED
      BY <2>3, <3>1, <3>2 DEF Top
  <2>6. SentFor(n, Beaten(poll.votes)) \subseteq B
    <3>1. SUFFICES ASSUME NEW i \in SentBy(n), poll.votes[i].tx_id \in Beaten(poll.votes)
                   PROVE  poll.votes[i].tx_id # m
      BY SentVotesAre DEF SentFor
    <3>2. PICK u \in TxIds(poll.votes) :
            VotesFor(poll.votes, u) > VotesFor(poll.votes, poll.votes[i].tx_id)
      BY <3>1 DEF Beaten
    <3>3. VotesFor(poll.votes, m) >= VotesFor(poll.votes, u)
      BY <2>3
    <3>4. QED
      BY <2>4, <3>2, <3>3
  <2>7. IsFiniteSet(A) /\ IsFiniteSet(B)
    BY VoteOutcomes
  <2> HIDE DEF A, B
  <2>8. /\ Cardinality(SentFor(n, Top(poll.votes))) <= Cardinality(A)
        /\ IsFiniteSet(SentFor(n, Top(poll.votes)))
    BY <2>5, <2>7, FS_Subset
  <2>9. /\ Cardinality(SentFor(n, Beaten(poll.votes))) <= Cardinality(B)
        /\ IsFiniteSet(SentFor(n, Beaten(poll.votes)))
    BY <2>6, <2>7, FS_Subset
  <2>10. QED
    BY <2>1, <2>7, <2>8, <2>9, FS_CardinalityType
<1>2. QED
  BY <1>1, PollTypeCorrect, PTL

(* Any order of the same votes gives the same counters, whatever ties      *)
(* there are between txs.                                                  *)
THEOREM OrderDoesNotMatter == Spec => []OrderIrrelevant
<1>1. PollTypeOK => OrderIrrelevant
  BY ReorderedAlike DEF PollTypeOK, OrderIrrelevant
<1>2. QED
  BY <1>1, PollTypeCorrect, PTL
=============================================================================
