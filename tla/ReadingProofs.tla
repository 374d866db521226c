----------------------------- MODULE ReadingProofs -----------------------------
(***************************************************************************)
(* Proofs about reading a block, for every block, any spelling and any     *)
(* collision of txs: the polls found are those the chain opened, under     *)
(* their own ids, and every accepted vote is read once.                    *)
(***************************************************************************)
EXTENDS BlockReading, ContentsProofs

----------------------------------------------------------------------------
(* What the block and its results are made of.                             *)

Unreadables ==
  {Ballot(Unreadable, chain, voted) : chain \in VoteChains, voted \in Voted}
    \cup {Ballot(sender, chain, Unreadable) : sender \in Senders, chain \in VoteChains}
    \cup {[type |-> "RefundMsg", vote |-> NotAVote]}
Confirms == {Confirm(chain, ids) : chain \in Chains, ids \in TxLists}
CastBallots ==
  {Ballot(sender, chain, voted) :
     sender \in Senders, chain \in VoteChains, voted \in Voted}
Messages == Confirms \cup CastBallots \cup Unreadables
TxOf(m, direct) == [decodes |-> TRUE, messages |-> Sent(m, direct)]
Noise == [decodes |-> FALSE]
BlockTx == {TxOf(m, direct) : m \in Messages, direct \in BOOLEAN} \cup {Noise}

VotedTx == {0} \cup UNION {Range(voted) : voted \in Voted}
PollVote ==
  [poll_id : {7}, chain : VoteChains, tx_id : VotedTx, sender_id : Senders]

TxRequests(t) == FlatMap(RequestsOf, t.messages)
TxVotes(t) == FlatMap(VotesOf, FlatMap(RefundsOf, t.messages))

(* One message asks for polls, or votes, or does neither.                  *)
LEMMA MessageReads ==
  ASSUME NEW m \in Messages
  PROVE  /\ m.type \in {"Confirm", "RefundMsg"}
         /\ RequestsOf(m) \in Seq(Request)
         /\ VotesOf(m) \in Seq(PollVote) \/ m.type = "Confirm"
         /\ m \in Unreadables => VotesOf(m) = <<>>
<1>1. ASSUME NEW chain \in Chains, NEW ids \in TxLists, m = Confirm(chain, ids)
      PROVE  m.type = "Confirm" /\ RequestsOf(m) \in Seq(Request)
  <2>1. /\ m.type = "Confirm" /\ chain \in DOMAIN Lower /\ ids \in Seq(Nat)
        /\ RequestsOf(m) = [i \in DOMAIN ids |-> [chain |-> chain, tx |-> ids[i]]]
    BY <1>1, ReadingAssumption DEF Confirm, RequestsOf
  <2>2. DOMAIN ids = 1..Len(ids) /\ Len(ids) \in Nat
        /\ \A i \in DOMAIN ids : [chain |-> chain, tx |-> ids[i]] \in Request
    BY <2>1 DEF Request
  <2>3. [i \in DOMAIN ids |-> [chain |-> chain, tx |-> ids[i]]] \in Seq(Request)
    BY <2>2
  <2>4. QED
    BY <2>1, <2>3
<1>2. ASSUME m.type = "RefundMsg" PROVE RequestsOf(m) \in Seq(Request)
  BY <1>2, SmallLists DEF RequestsOf
<1>3. ASSUME NEW sender \in Senders, NEW chain \in VoteChains, NEW voted \in Voted,
             m = Ballot(sender, chain, voted)
      PROVE  m.type = "RefundMsg" /\ VotesOf(m) \in Seq(PollVote)
  <2> DEFINE s == IF voted = <<>> THEN <<0>> ELSE voted
             v == [i \in DOMAIN s |-> [poll_id |-> 7, chain |-> chain,
                                       tx_id |-> s[i], sender_id |-> sender]]
  <2>1. /\ m.type = "RefundMsg" /\ m.vote = VoteMessage(sender, chain, voted)
        /\ m.vote.sender = sender /\ m.vote.events = voted
        /\ m.vote.poll_id = 7 /\ m.vote.chain = chain
    BY <1>3 DEF Ballot, VoteMessage
  <2>2. m.vote # NotAVote /\ sender # Unreadable /\ voted # Unreadable
    BY <2>1, ReadingAssumption
  <2>3. VotesOf(m) = v
    BY <2>1, <2>2, Zenon DEF VotesOf, PollVotes
  <2>4. s \in Seq(VotedTx)
    <3>1. <<0>> \in Seq(VotedTx)
      <4>1. 0 \in VotedTx
        BY DEF VotedTx
      <4>2. QED
        BY <4>1, SmallLists
    <3>2. voted \in Seq(VotedTx)
      <4>1. IsList(voted)
        BY ReadingAssumption
      <4>2. Range(voted) \subseteq VotedTx
        BY DEF VotedTx
      <4>3. QED
        BY <4>1, <4>2, ListFacts
    <3>3. QED
      BY <3>1, <3>2
  <2> HIDE DEF s
  <2>5. DOMAIN s = 1..Len(s) /\ Len(s) \in Nat /\ \A i \in DOMAIN s : s[i] \in VotedTx
    BY <2>4
  <2>6. v \in Seq(PollVote)
    <3>1. \A i \in 1..Len(s) : [poll_id |-> 7, chain |-> chain,
                                tx_id |-> s[i], sender_id |-> sender] \in PollVote
      BY <2>5 DEF PollVote
    <3>2. QED
      BY <2>5, <3>1
  <2>7. QED
    BY <2>1, <2>3, <2>6
<1>4. ASSUME m \in Unreadables
      PROVE  m.type = "RefundMsg" /\ VotesOf(m) = <<>>
  <2>1. /\ m.type = "RefundMsg"
        /\ \/ m.vote = NotAVote
           \/ m.vote.sender = Unreadable \/ m.vote.events = Unreadable
    BY <1>4 DEF Unreadables, Ballot, VoteMessage
  <2>2. QED
    BY <2>1 DEF VotesOf
<1>5. CASE m \in Confirms
  <2>1. PICK chain \in Chains, ids \in TxLists : m = Confirm(chain, ids)
    BY <1>5 DEF Confirms
  <2>2. m.type = "Confirm" /\ RequestsOf(m) \in Seq(Request)
    BY <1>1, <2>1
  <2>3. QED
    BY <1>4, <2>2
<1>6. CASE m \in CastBallots
  <2>1. PICK sender \in Senders, chain \in VoteChains, voted \in Voted :
          m = Ballot(sender, chain, voted)
    BY <1>6 DEF CastBallots
  <2>2. m.type = "RefundMsg" /\ VotesOf(m) \in Seq(PollVote)
    BY <1>3, <2>1
  <2>3. QED
    BY <1>2, <1>4, <2>2
<1>7. CASE m \in Unreadables
  BY <1>2, <1>4, <1>7, SmallLists
<1>8. QED
  BY <1>5, <1>6, <1>7 DEF Messages

(* A tx with one message, direct or in a batch: only direct requests are   *)
(* found, votes in either place.                                           *)
LEMMA TxReads ==
  ASSUME NEW m \in Messages, NEW direct \in BOOLEAN
  PROVE  /\ TxRequests(TxOf(m, direct)) = IF direct THEN RequestsOf(m) ELSE <<>>
         /\ TxVotes(TxOf(m, direct)) = IF m.type = "Confirm" THEN <<>> ELSE VotesOf(m)
<1> DEFINE batch == [type |-> "Batch", messages |-> <<[type |-> "Other"], m>>]
           t == TxOf(m, direct)
           sent == IF direct THEN m ELSE batch
<1>1. Len(t.messages) = 1 /\ DOMAIN t.messages = 1..1 /\ t.messages[1] = sent
  BY DEF TxOf, Sent
<1>2. RequestsOf(sent) = IF direct THEN RequestsOf(m) ELSE <<>>
  BY DEF RequestsOf
<1>3. RequestsOf(sent) \in Seq(Request)
  BY <1>2, MessageReads, SmallLists
<1>4. DirectRefund(m) = IF m.type = "Confirm" THEN <<>> ELSE <<m>>
  BY MessageReads DEF DirectRefund
<1>5. RefundsOf(sent) = DirectRefund(m)
  <2>1. CASE direct
    BY <2>1, MessageReads DEF RefundsOf
  <2>2. CASE ~ direct
    <3> DEFINE f == [i \in 1..2 |-> DirectRefund(batch.messages[i])]
    <3>1. f[1] = <<>> /\ f[2] = DirectRefund(m)
      BY DEF DirectRefund
    <3>2. RefundsOf(sent) = Joined(f, 2)
      <4>1. batch.type = "Batch" /\ Len(batch.messages) = 2
            /\ DOMAIN batch.messages = 1..2
        OBVIOUS
      <4>2. RefundsOf(batch) = Joined([i \in DOMAIN batch.messages |->
                                         DirectRefund(batch.messages[i])], 2)
        BY <4>1, Zenon DEF RefundsOf, FlatMap
      <4>3. QED
        BY <2>2, <4>1, <4>2
    <3> HIDE DEF f
    <3>3. f[1] \in Seq({m}) /\ f[2] \in Seq({m})
      BY <1>4, <3>1, SmallLists
    <3>4. Joined(f, 1) = f[1]
      BY <3>3, JoinedFew
    <3>5. Joined(f, 1 + 1) = Joined(f, 1) \o f[1 + 1]
      <4>1. \A i \in 1..1 : f[i] \in Seq({m}) /\ f[i] = f[i]
        BY <3>3
      <4>2. f[1 + 1] \in Seq({m}) /\ 1 \in Nat
        BY <3>3
      <4>3. QED
        BY <4>1, <4>2, JoinedAppend
    <3>6. 1 + 1 = 2 /\ <<>> \o f[2] = f[2]
      BY <3>3, ConcatEmptySeq
    <3>7. Joined(f, 2) = f[2]
      BY <3>1, <3>4, <3>5, <3>6
    <3>8. QED
      BY <3>1, <3>2, <3>7
  <2>3. QED
    BY <2>1, <2>2
<1>6. DirectRefund(m) \in Seq({m})
  BY <1>4, SmallLists
<1> HIDE DEF t, sent, batch
<1>7. TxRequests(t) = RequestsOf(sent)
  <2> DEFINE f == [i \in DOMAIN t.messages |-> RequestsOf(t.messages[i])]
  <2>1. f[1] = RequestsOf(sent)
    BY <1>1
  <2>2. TxRequests(t) = Joined(f, 1)
    BY <1>1 DEF TxRequests, FlatMap
  <2> HIDE DEF f
  <2>3. QED
    BY <1>3, <2>1, <2>2, JoinedFew
<1>8. FlatMap(RefundsOf, t.messages) = DirectRefund(m)
  <2> DEFINE f == [i \in DOMAIN t.messages |-> RefundsOf(t.messages[i])]
  <2>1. f[1] = DirectRefund(m)
    BY <1>1, <1>5
  <2>2. FlatMap(RefundsOf, t.messages) = Joined(f, 1)
    BY <1>1 DEF FlatMap
  <2> HIDE DEF f
  <2>3. QED
    BY <1>6, <2>1, <2>2, JoinedFew
<1>9. TxVotes(t) = FlatMap(VotesOf, DirectRefund(m))
  BY <1>8 DEF TxVotes
<1>10. FlatMap(VotesOf, DirectRefund(m))
         = IF m.type = "Confirm" THEN <<>> ELSE VotesOf(m)
  <2> DEFINE s == DirectRefund(m)
             f == [i \in DOMAIN s |-> VotesOf(s[i])]
  <2>1. FlatMap(VotesOf, s) = Joined(f, Len(s))
    BY DEF FlatMap
  <2>2. CASE m.type = "Confirm"
    <3>1. Len(s) = 0
      BY <1>4, <2>2
    <3> HIDE DEF f, s
    <3>2. QED
      BY <2>1, <2>2, <3>1, JoinedFew DEF s
  <2>3. CASE m.type # "Confirm"
    <3>1. Len(s) = 1 /\ f[1] = VotesOf(m)
      BY <1>4, <2>3
    <3>2. VotesOf(m) \in Seq(PollVote)
      BY <2>3, MessageReads
    <3> HIDE DEF f, s
    <3>3. QED
      BY <2>1, <2>3, <3>1, <3>2, JoinedFew DEF s
  <2>4. QED
    BY <2>2, <2>3
<1>11. QED
  BY <1>2, <1>7, <1>9, <1>10 DEF t

----------------------------------------------------------------------------
(* The block with one more tx.                                             *)

(* The txs that decode, with their requests and votes.                     *)
Reads(t) == /\ TxRequests(t) \in Seq(Request)
            /\ TxVotes(t) \in Seq(PollVote)
DecodedTx == {t \in BlockTx : t.decodes}

LEMMA DecodedReads ==
  ASSUME NEW t \in DecodedTx
  PROVE  /\ Reads(t)
         /\ \E m \in Messages, direct \in BOOLEAN : t = TxOf(m, direct)
<1>1. t # Noise
  BY DEF DecodedTx, Noise
<1>2. PICK m \in Messages, direct \in BOOLEAN : t = TxOf(m, direct)
  BY <1>1 DEF DecodedTx, BlockTx
<1>3. Reads(t)
  BY <1>2, TxReads, MessageReads, SmallLists DEF Reads
<1>4. QED
  BY <1>2, <1>3

LEMMA TxsOfMore ==
  ASSUME NEW q \in Seq(BlockTx), NEW t \in BlockTx
  PROVE  /\ GetTxs(q) \in Seq(DecodedTx)
         /\ GetTxs(Append(q, t))
              = IF t.decodes THEN Append(GetTxs(q), t) ELSE GetTxs(q)
<1> DEFINE p == Append(q, t)
           One(x) == IF x.decodes THEN <<x>> ELSE <<>>
           f == [i \in DOMAIN q |-> One(q[i])]
           e == [i \in DOMAIN p |-> One(p[i])]
           n == Len(q)
<1>1. /\ n \in Nat /\ DOMAIN q = 1..n /\ DOMAIN p = 1..(n + 1) /\ Len(p) = n + 1
      /\ p[n + 1] = t /\ \A i \in 1..n : p[i] = q[i] /\ q[i] \in BlockTx
  OBVIOUS
<1>2. GetTxs(q) = Joined(f, n) /\ GetTxs(p) = Joined(e, n + 1)
  BY <1>1 DEF GetTxs, FlatMap
<1>3. \A x \in BlockTx : One(x) \in Seq(DecodedTx)
  BY SmallLists DEF DecodedTx
<1>4. \A i \in 1..n : f[i] \in Seq(DecodedTx) /\ e[i] = f[i]
  BY <1>1, <1>3
<1>5. e[n + 1] = One(t) /\ One(t) \in Seq(DecodedTx)
  BY <1>1, <1>3
<1> HIDE DEF n, f, e, p
<1>6. Joined(e, n + 1) = Joined(f, n) \o One(t)
  <2>1. e[n + 1] \in Seq(DecodedTx)
    BY <1>5
  <2>2. Joined(e, n + 1) = Joined(f, n) \o e[n + 1]
    BY <1>1, <1>4, <2>1, JoinedAppend
  <2>3. QED
    BY <1>5, <2>2
<1>7. Joined(f, n) \in Seq(DecodedTx)
  BY <1>1, <1>4, JoinedType
<1>8. CASE t.decodes
  <2>1. t \in DecodedTx /\ One(t) = <<t>>
    BY <1>8 DEF DecodedTx
  <2>2. Joined(f, n) \o <<t>> = Append(Joined(f, n), t)
    BY <1>7, <2>1, AppendIsConcat
  <2>3. QED
    BY <1>2, <1>6, <1>7, <1>8, <2>1, <2>2 DEF p
<1>9. CASE ~ t.decodes
  <2>1. One(t) = <<>> /\ Joined(f, n) \o <<>> = Joined(f, n)
    BY <1>7, <1>9, ConcatEmptySeq
  <2>2. QED
    BY <1>2, <1>6, <1>7, <1>9, <2>1 DEF p
<1>10. QED
  BY <1>8, <1>9

LEMMA ReadsOfMore ==
  ASSUME NEW q \in Seq(DecodedTx), NEW t \in DecodedTx
  PROVE  /\ PollRequests(q) \in Seq(Request)
         /\ PollRequests(Append(q, t)) = PollRequests(q) \o TxRequests(t)
         /\ GetVotesFromTxs(q) \in Seq(PollVote)
         /\ GetVotesFromTxs(Append(q, t)) = GetVotesFromTxs(q) \o TxVotes(t)
<1> DEFINE p == Append(q, t)
           n == Len(q)
<1>1. /\ n \in Nat /\ DOMAIN q = 1..n /\ DOMAIN p = 1..(n + 1) /\ Len(p) = n + 1
      /\ p[n + 1] = t /\ \A i \in 1..n : p[i] = q[i] /\ q[i] \in DecodedTx
  OBVIOUS
<1>2. \A x \in DecodedTx : TxRequests(x) \in Seq(Request) /\ TxVotes(x) \in Seq(PollVote)
  BY DecodedReads DEF Reads
<1>3. /\ PollRequests(q) \in Seq(Request)
      /\ PollRequests(p) = PollRequests(q) \o TxRequests(t)
  <2> DEFINE f == [i \in DOMAIN q |-> TxRequests(q[i])]
             e == [i \in DOMAIN p |-> TxRequests(p[i])]
  <2>1. PollRequests(q) = Joined(f, n)
    BY DEF PollRequests, FlatMap, TxRequests
  <2>2. PollRequests(p) = Joined(e, Len(p))
    BY DEF PollRequests, FlatMap, TxRequests
  <2>3. \A i \in 1..n : f[i] \in Seq(Request) /\ e[i] = f[i]
    BY <1>1, <1>2
  <2>4. e[n + 1] = TxRequests(t) /\ TxRequests(t) \in Seq(Request)
    BY <1>1, <1>2
  <2> HIDE DEF n, f, e, p
  <2>5. Joined(e, n + 1) = Joined(f, n) \o TxRequests(t)
    <3>1. e[n + 1] \in Seq(Request)
      BY <2>4
    <3>2. Joined(e, n + 1) = Joined(f, n) \o e[n + 1]
      BY <1>1, <2>3, <3>1, JoinedAppend
    <3>3. QED
      BY <2>4, <3>2
  <2>6. Joined(f, n) \in Seq(Request)
    BY <1>1, <2>3, JoinedType
  <2>7. QED
    BY <1>1, <2>1, <2>2, <2>5, <2>6
<1>4. /\ GetVotesFromTxs(q) \in Seq(PollVote)
      /\ GetVotesFromTxs(p) = GetVotesFromTxs(q) \o TxVotes(t)
  <2> DEFINE f == [i \in DOMAIN q |-> TxVotes(q[i])]
             e == [i \in DOMAIN p |-> TxVotes(p[i])]
  <2>1. GetVotesFromTxs(q) = Joined(f, n)
    BY DEF GetVotesFromTxs, FlatMap, TxVotes
  <2>2. GetVotesFromTxs(p) = Joined(e, Len(p))
    BY DEF GetVotesFromTxs, FlatMap, TxVotes
  <2>3. \A i \in 1..n : f[i] \in Seq(PollVote) /\ e[i] = f[i]
    BY <1>1, <1>2
  <2>4. e[n + 1] = TxVotes(t) /\ TxVotes(t) \in Seq(PollVote)
    BY <1>1, <1>2
  <2> HIDE DEF n, f, e, p
  <2>5. Joined(e, n + 1) = Joined(f, n) \o TxVotes(t)
    <3>1. e[n + 1] \in Seq(PollVote)
      BY <2>4
    <3>2. Joined(e, n + 1) = Joined(f, n) \o e[n + 1]
      BY <1>1, <2>3, <3>1, JoinedAppend
    <3>3. QED
      BY <2>4, <3>2
  <2>6. Joined(f, n) \in Seq(PollVote)
    BY <1>1, <2>3, JoinedType
  <2>7. QED
    BY <1>1, <2>1, <2>2, <2>5, <2>6
<1>5. QED
  BY <1>3, <1>4

Requests(q) == PollRequests(GetTxs(q))
Votes(q) == GetVotesFromTxs(GetTxs(q))

(* What a tx with one message adds to what is found in the block.          *)
LEMMA BlockOfMore ==
  ASSUME NEW q \in Seq(BlockTx), NEW m \in Messages, NEW direct \in BOOLEAN
  PROVE  /\ Requests(q) \in Seq(Request) /\ Votes(q) \in Seq(PollVote)
         /\ Requests(Append(q, TxOf(m, direct)))
              = Requests(q) \o (IF direct THEN RequestsOf(m) ELSE <<>>)
         /\ Votes(Append(q, TxOf(m, direct)))
              = Votes(q) \o (IF m.type = "Confirm" THEN <<>> ELSE VotesOf(m))
         /\ Requests(Append(q, Noise)) = Requests(q)
         /\ Votes(Append(q, Noise)) = Votes(q)
<1> DEFINE t == TxOf(m, direct)
<1>1. t \in BlockTx /\ t.decodes /\ t \in DecodedTx
  <2>1. t \in BlockTx
    BY DEF BlockTx
  <2>2. t.decodes
    BY DEF TxOf
  <2>3. QED
    BY <2>1, <2>2 DEF DecodedTx
<1>2. Noise \in BlockTx /\ ~ Noise.decodes
  BY DEF BlockTx, Noise
<1> HIDE DEF t
<1>3. GetTxs(q) \in Seq(DecodedTx) /\ GetTxs(Append(q, t)) = Append(GetTxs(q), t)
  BY <1>1, TxsOfMore
<1>4. GetTxs(Append(q, Noise)) = GetTxs(q)
  BY <1>2, TxsOfMore
<1>5. QED
  BY <1>1, <1>3, <1>4, ReadsOfMore, TxReads DEF Requests, Votes, t

----------------------------------------------------------------------------
(* The results with one more event.                                        *)

PollEvent == [tx_id : Nat, poll_id : Nat]
Unannounced(tx) == [type |-> "Started", tx_id |-> tx, poll_id |-> Unreadable]
ResultEvent ==
  {Announced(n, ids) : n \in Nat, ids \in TxLists} \cup {Unannounced(tx) : tx \in Nat}
IdsFrom(n, ids) == [i \in DOMAIN ids |-> [tx_id |-> ids[i], poll_id |-> n + i]]

LEMMA EventReads ==
  /\ \A n \in Nat, ids \in TxLists :
       /\ PollEventsOf(Announced(n, ids)) = IdsFrom(n, ids)
       /\ IdsFrom(n, ids) \in Seq(PollEvent)
  /\ \A tx \in Nat : PollEventsOf(Unannounced(tx)) = <<>>
<1>1. ASSUME NEW n \in Nat, NEW ids \in TxLists
      PROVE  /\ PollEventsOf(Announced(n, ids)) = IdsFrom(n, ids)
             /\ IdsFrom(n, ids) \in Seq(PollEvent)
  <2> DEFINE s == IdsFrom(n, ids)
  <2>1. /\ ids \in Seq(Nat) /\ Len(ids) \in Nat /\ DOMAIN ids = 1..Len(ids)
        /\ \A i \in 1..Len(ids) : ids[i] \in Nat
    BY ReadingAssumption
  <2>2. s \in Seq(PollEvent) /\ Len(s) = Len(ids) /\ DOMAIN s = 1..Len(ids)
    <3>1. \A i \in 1..Len(ids) : [tx_id |-> ids[i], poll_id |-> n + i] \in PollEvent
      BY <2>1 DEF PollEvent
    <3>2. QED
      BY <2>1, <3>1 DEF IdsFrom
  <2>3. CASE Len(ids) = 1
    <3> DEFINE event == Announced(n, ids)
               one == [tx_id |-> ids[1], poll_id |-> n + 1]
    <3>1. /\ event.type = "Started" /\ event.tx_id = ids[1]
          /\ event.poll_id = n + 1
      BY <2>3 DEF Announced
    <3>2. Unreadable \notin {event.tx_id, event.poll_id}
      BY <2>1, <2>3, <3>1, ReadingAssumption
    <3>3. PollEventsOf(event) = <<one>>
      <4> HIDE DEF event
      <4>1. QED
        BY <3>1, <3>2 DEF PollEventsOf
    <3>4. s = <<one>>
      BY <2>1, <2>3 DEF IdsFrom
    <3>5. QED
      BY <2>2, <3>3, <3>4
  <2>4. CASE Len(ids) # 1
    <3> DEFINE event == Announced(n, ids)
               Kept(m) == IF m.poll_id = Unreadable THEN <<>> ELSE <<m>>
               f == [i \in DOMAIN s |-> Kept(s[i])]
    <3>1. event.type = "GatewayTxsStarted" /\ event.mappings = s
      BY <2>4 DEF Announced, IdsFrom
    <3>2. PollEventsOf(event) = Joined(f, Len(s))
      <4> HIDE DEF event, s
      <4>1. QED
        BY <3>1, Zenon DEF PollEventsOf, FlatMap
    <3>3. \A i \in 1..Len(s) : f[i] = <<s[i]>>
      <4>1. \A i \in 1..Len(s) : s[i].poll_id \in Nat
        <5>1. \A x \in PollEvent : x.poll_id \in Nat
          BY DEF PollEvent
        <5> HIDE DEF s
        <5>2. \A i \in 1..Len(s) : s[i] \in PollEvent
          BY <2>2
        <5>3. QED
          BY <5>1, <5>2
      <4> HIDE DEF s
      <4>2. QED
        BY <2>2, <4>1, ReadingAssumption
    <3> HIDE DEF f, s, event
    <3>4. Joined(f, Len(s)) = s
      BY <2>2, <3>3, JoinedSingles
    <3>5. QED
      BY <2>2, <3>2, <3>4 DEF s, event
  <2>5. QED
    BY <2>3, <2>4
<1>2. ASSUME NEW tx \in Nat PROVE PollEventsOf(Unannounced(tx)) = <<>>
  BY DEF PollEventsOf, Unannounced
<1>3. QED
  BY <1>1, <1>2

LEMMA EventsOfMore ==
  ASSUME NEW q \in Seq(ResultEvent), NEW v \in ResultEvent
  PROVE  /\ ExtractAllPollEvents(q) \in Seq(PollEvent)
         /\ ExtractAllPollEvents(Append(q, v))
              = ExtractAllPollEvents(q) \o PollEventsOf(v)
<1> DEFINE p == Append(q, v)
           f == [i \in DOMAIN q |-> PollEventsOf(q[i])]
           e == [i \in DOMAIN p |-> PollEventsOf(p[i])]
           n == Len(q)
<1>1. /\ n \in Nat /\ DOMAIN q = 1..n /\ DOMAIN p = 1..(n + 1) /\ Len(p) = n + 1
      /\ p[n + 1] = v /\ \A i \in 1..n : p[i] = q[i] /\ q[i] \in ResultEvent
  OBVIOUS
<1>2. ASSUME NEW x \in ResultEvent PROVE PollEventsOf(x) \in Seq(PollEvent)
  <2>1. CASE \E m \in Nat, ids \in TxLists : x = Announced(m, ids)
    BY <2>1, EventReads
  <2>2. CASE \E tx \in Nat : x = Unannounced(tx)
    BY <2>2, EventReads, SmallLists
  <2>3. QED
    BY <2>1, <2>2 DEF ResultEvent
<1>3. ExtractAllPollEvents(q) = Joined(f, n) /\ ExtractAllPollEvents(p) = Joined(e, n + 1)
  BY <1>1 DEF ExtractAllPollEvents, FlatMap
<1>4. \A i \in 1..n : f[i] \in Seq(PollEvent) /\ e[i] = f[i]
  BY <1>1, <1>2
<1>5. e[n + 1] = PollEventsOf(v) /\ e[n + 1] \in Seq(PollEvent)
  BY <1>1, <1>2
<1> HIDE DEF n, f, e, p
<1>6. Joined(e, n + 1) = Joined(f, n) \o e[n + 1]
  BY <1>1, <1>4, <1>5, JoinedAppend
<1>7. Joined(f, n) \in Seq(PollEvent)
  BY <1>1, <1>4, JoinedType
<1>8. QED
  BY <1>3, <1>5, <1>6, <1>7 DEF p

----------------------------------------------------------------------------
(* The invariant: events announce the opened polls in order, every direct  *)
(* one has its request in the block, and the votes are the accepted ones.  *)

PollOpened == [chain : Chains, tx : Nat, direct : BOOLEAN]
IdsOf(polls) == [i \in DOMAIN polls |-> [tx_id |-> polls[i].tx, poll_id |-> i]]
EntriesOfVotes(votes) == [i \in DOMAIN votes |-> <<votes[i].sender_id, votes[i].tx_id>>]
Entry == Senders \X VotedTx

ReadingTypes ==
  txs \in Seq(BlockTx) /\ events \in Seq(ResultEvent) /\ opened \in Seq(PollOpened)
EventsInv == ExtractAllPollEvents(events) = IdsOf(opened)
RequestsInv ==
  \A id \in DOMAIN opened : opened[id].direct =>
    [chain |-> opened[id].chain, tx |-> opened[id].tx] \in Range(Requests(txs))
ReadingInv == ReadingTypes /\ EventsInv /\ RequestsInv /\ VotesOnceEach

LEMMA FoundVotes ==
  /\ Found.votes = Votes(txs)
  /\ VotesOnceEach <=> EntriesOfVotes(Votes(txs)) = cast
  BY DEF Found, ProcessBlock, Votes, VotesOnceEach, EntriesOfVotes

(* Entries, and ids, of one list after the other.                          *)
LEMMA EntriesOfMore ==
  ASSUME NEW v \in Seq(PollVote), NEW w \in Seq(PollVote)
  PROVE  EntriesOfVotes(v \o w) = EntriesOfVotes(v) \o EntriesOfVotes(w)
<1>1. \A u \in Seq(PollVote) :
        /\ EntriesOfVotes(u) \in Seq(Entry) /\ Len(EntriesOfVotes(u)) = Len(u)
        /\ \A i \in 1..Len(u) : EntriesOfVotes(u)[i] = <<u[i].sender_id, u[i].tx_id>>
  <2>1. SUFFICES ASSUME NEW u \in Seq(PollVote)
                 PROVE  /\ EntriesOfVotes(u) \in Seq(Entry)
                        /\ Len(EntriesOfVotes(u)) = Len(u)
                        /\ \A i \in 1..Len(u) :
                             EntriesOfVotes(u)[i] = <<u[i].sender_id, u[i].tx_id>>
    OBVIOUS
  <2>2. DOMAIN u = 1..Len(u) /\ Len(u) \in Nat
        /\ \A i \in 1..Len(u) : <<u[i].sender_id, u[i].tx_id>> \in Entry
    <3>1. \A x \in PollVote : <<x.sender_id, x.tx_id>> \in Entry
      BY DEF PollVote, Entry
    <3>2. \A i \in 1..Len(u) : u[i] \in PollVote
      OBVIOUS
    <3>3. QED
      BY <3>1, <3>2
  <2>3. QED
    BY <2>2 DEF EntriesOfVotes
<1> DEFINE a == EntriesOfVotes(v \o w)
           b == EntriesOfVotes(v) \o EntriesOfVotes(w)
<1>2. v \o w \in Seq(PollVote) /\ Len(v \o w) = Len(v) + Len(w)
      /\ \A i \in 1..(Len(v) + Len(w)) :
           (v \o w)[i] = IF i <= Len(v) THEN v[i] ELSE w[i - Len(v)]
  BY ConcatProperties
<1>3. b \in Seq(Entry) /\ Len(b) = Len(v) + Len(w)
      /\ \A i \in 1..(Len(v) + Len(w)) :
           b[i] = IF i <= Len(v) THEN EntriesOfVotes(v)[i]
                  ELSE EntriesOfVotes(w)[i - Len(v)]
  <2> DEFINE x == EntriesOfVotes(v)
             y == EntriesOfVotes(w)
  <2>1. x \in Seq(Entry) /\ y \in Seq(Entry) /\ Len(x) = Len(v) /\ Len(y) = Len(w)
    BY <1>1
  <2> HIDE DEF x, y
  <2>2. /\ x \o y \in Seq(Entry) /\ Len(x \o y) = Len(x) + Len(y)
        /\ \A i \in 1..(Len(x) + Len(y)) :
             (x \o y)[i] = IF i <= Len(x) THEN x[i] ELSE y[i - Len(x)]
    BY <2>1, ConcatProperties
  <2>3. QED
    BY <2>1, <2>2 DEF x, y
<1>4. a \in Seq(Entry) /\ Len(a) = Len(v) + Len(w)
  BY <1>1, <1>2
<1>5. ASSUME NEW i \in 1..Len(a) PROVE a[i] = b[i]
  <2>1. i \in 1..(Len(v) + Len(w)) /\ Len(v) \in Nat /\ Len(w) \in Nat
    BY <1>4
  <2>2. a[i] = <<(v \o w)[i].sender_id, (v \o w)[i].tx_id>>
    BY <1>1, <1>2, <1>4
  <2>3. CASE i <= Len(v)
    <3>1. i \in 1..Len(v)
      BY <2>1, <2>3
    <3>2. QED
      BY <1>1, <1>2, <1>3, <2>1, <2>2, <2>3, <3>1
  <2>4. CASE ~ (i <= Len(v))
    <3>1. i - Len(v) \in 1..Len(w)
      BY <2>1, <2>4
    <3>2. QED
      BY <1>1, <1>2, <1>3, <2>1, <2>2, <2>4, <3>1
  <2>5. QED
    BY <2>3, <2>4
<1> HIDE DEF a, b
<1>6. a = b
  BY <1>3, <1>4, <1>5, SeqEqual
<1>7. QED
  BY <1>6 DEF a, b

LEMMA IdsOfMore ==
  ASSUME NEW polls \in Seq(PollOpened), NEW ids \in TxLists, NEW new \in Seq(PollOpened),
         Len(new) = Len(ids), \A i \in 1..Len(ids) : new[i].tx = ids[i]
  PROVE  IdsOf(polls \o new) = IdsOf(polls) \o IdsFrom(Len(polls), ids)
<1> DEFINE n == Len(polls)
           k == Len(ids)
           all == polls \o new
           a == IdsOf(all)
           x == IdsOf(polls)
           y == IdsFrom(n, ids)
<1>1. n \in Nat /\ k \in Nat /\ DOMAIN polls = 1..n /\ DOMAIN ids = 1..k
      /\ ids \in Seq(Nat)
  BY ReadingAssumption
<1>2. /\ all \in Seq(PollOpened) /\ Len(all) = n + k /\ DOMAIN all = 1..(n + k)
      /\ \A i \in 1..(n + k) : all[i] = IF i <= n THEN polls[i] ELSE new[i - n]
  <2>1. Len(new) = k /\ Len(polls) = n
    OBVIOUS
  <2> HIDE DEF k, n, all
  <2>2. polls \o new \in Seq(PollOpened) /\ Len(polls \o new) = n + k
        /\ \A i \in 1..(n + k) :
             (polls \o new)[i] = IF i <= n THEN polls[i] ELSE new[i - n]
    <3>1. polls \o new \in Seq(PollOpened) /\ Len(polls \o new) = Len(polls) + Len(new)
          /\ \A i \in 1..(Len(polls) + Len(new)) :
               (polls \o new)[i] = IF i <= Len(polls) THEN polls[i]
                                   ELSE new[i - Len(polls)]
      BY ConcatProperties
    <3>2. QED
      BY <2>1, <3>1
  <2>3. all \in Seq(PollOpened) /\ Len(all) = n + k
        /\ \A i \in 1..(n + k) : all[i] = IF i <= n THEN polls[i] ELSE new[i - n]
    BY <2>2 DEF all
  <2>4. QED
    BY <1>1, <2>3
<1>3. ASSUME NEW q \in Seq(PollOpened)
      PROVE  IdsOf(q) \in Seq(PollEvent) /\ Len(IdsOf(q)) = Len(q)
             /\ \A i \in 1..Len(q) : IdsOf(q)[i] = [tx_id |-> q[i].tx, poll_id |-> i]
  <2>1. \A p \in PollOpened : p.tx \in Nat
    BY DEF PollOpened
  <2>2. DOMAIN q = 1..Len(q) /\ Len(q) \in Nat /\ \A i \in 1..Len(q) : q[i].tx \in Nat
    BY <2>1
  <2>3. \A i \in 1..Len(q) : [tx_id |-> q[i].tx, poll_id |-> i] \in PollEvent
    BY <2>2 DEF PollEvent
  <2>4. QED
    BY <2>2, <2>3 DEF IdsOf
<1>4. y \in Seq(PollEvent) /\ Len(y) = k
      /\ \A i \in 1..k : y[i] = [tx_id |-> ids[i], poll_id |-> n + i]
  <2>1. y \in Seq(PollEvent)
    BY <1>1, EventReads
  <2>2. y = [i \in 1..k |-> [tx_id |-> ids[i], poll_id |-> n + i]]
    BY <1>1 DEF IdsFrom
  <2>3. QED
    BY <1>1, <2>1, <2>2
<1>5. a \in Seq(PollEvent) /\ Len(a) = n + k /\ x \in Seq(PollEvent) /\ Len(x) = n
  BY <1>2, <1>3
<1>6. /\ \A i \in 1..n : x[i] = [tx_id |-> polls[i].tx, poll_id |-> i]
      /\ \A i \in 1..(n + k) : a[i] = [tx_id |-> all[i].tx, poll_id |-> i]
  BY <1>2, <1>3
<1> HIDE DEF n, k, all, a, x, y
<1>7. x \o y \in Seq(PollEvent) /\ Len(x \o y) = n + k
      /\ \A i \in 1..(n + k) : (x \o y)[i] = IF i <= n THEN x[i] ELSE y[i - n]
  BY <1>4, <1>5, ConcatProperties
<1>8. ASSUME NEW i \in 1..(n + k) PROVE a[i] = (x \o y)[i]
  <2>1. CASE i <= n
    <3>1. i \in 1..n
      BY <1>1, <2>1
    <3>2. all[i] = polls[i] /\ (x \o y)[i] = x[i]
      BY <1>2, <1>7, <2>1
    <3>3. a[i] = [tx_id |-> polls[i].tx, poll_id |-> i]
      BY <1>6, <3>2
    <3>4. x[i] = [tx_id |-> polls[i].tx, poll_id |-> i]
      BY <1>6, <3>1
    <3>5. QED
      BY <3>2, <3>3, <3>4
  <2>2. CASE ~ (i <= n)
    <3>1. i - n \in 1..k /\ n + (i - n) = i
      BY <1>1, <2>2
    <3>2. all[i].tx = ids[i - n]
      BY <1>2, <2>2, <3>1 DEF k
    <3>3. QED
      BY <1>4, <1>6, <1>7, <2>2, <3>1, <3>2
  <2>3. QED
    BY <2>1, <2>2
<1>9. a = x \o y
  BY <1>5, <1>7, <1>8, SeqEqual
<1>10. QED
  BY <1>9 DEF a, x, y, n, all

(* The entries of a ballot are those the chain counts when it accepts it.  *)
LEMMA BallotEntries ==
  ASSUME NEW sender \in Senders, NEW chain \in VoteChains, NEW voted \in Voted
  PROVE  EntriesOfVotes(VotesOf(Ballot(sender, chain, voted)))
           = IF voted = <<>> THEN <<<<sender, 0>>>>
             ELSE [i \in DOMAIN voted |-> <<sender, voted[i]>>]
<1> DEFINE s == IF voted = <<>> THEN <<0>> ELSE voted
           m == Ballot(sender, chain, voted)
           v == [i \in DOMAIN s |-> [poll_id |-> 7, chain |-> chain,
                                     tx_id |-> s[i], sender_id |-> sender]]
<1>1. /\ m.vote = VoteMessage(sender, chain, voted)
      /\ m.vote.sender = sender /\ m.vote.events = voted
      /\ m.vote.poll_id = 7 /\ m.vote.chain = chain
  BY DEF Ballot, VoteMessage
<1>2. m.vote # NotAVote /\ sender # Unreadable /\ voted # Unreadable
  BY <1>1, ReadingAssumption
<1>3. VotesOf(m) = v
  BY <1>1, <1>2, Zenon DEF VotesOf, PollVotes
<1>4. EntriesOfVotes(v) = [i \in DOMAIN s |-> <<sender, s[i]>>]
  <2> HIDE DEF s
  <2>1. QED
    BY DEF EntriesOfVotes
<1>5. CASE voted = <<>>
  <2>1. [i \in DOMAIN s |-> <<sender, s[i]>>] = <<<<sender, 0>>>>
    BY <1>5
  <2>2. QED
    BY <1>3, <1>4, <1>5, <2>1
<1>6. QED
  BY <1>3, <1>4, <1>5

LEMMA FoundVotesNext ==
  VotesOnceEach' <=> EntriesOfVotes(Votes(txs')) = cast'
<1>1. (VotesOnceEach <=> EntriesOfVotes(Votes(txs)) = cast)'
  BY FoundVotes, PTL
<1>2. QED
  BY <1>1

(* A tx with one message joins the block.                                  *)
LEMMA OneMoreTx ==
  ASSUME ReadingInv, NEW m \in Messages, NEW direct \in BOOLEAN,
         HoldsTx(Sent(m, direct))
  PROVE  /\ txs' \in Seq(BlockTx)
         /\ Requests(txs) \in Seq(Request) /\ Votes(txs) \in Seq(PollVote)
         /\ Requests(txs') = Requests(txs) \o (IF direct THEN RequestsOf(m) ELSE <<>>)
         /\ Votes(txs') = Votes(txs) \o (IF m.type = "Confirm" THEN <<>> ELSE VotesOf(m))
         /\ Range(Requests(txs)) \subseteq Range(Requests(txs'))
<1>1. txs \in Seq(BlockTx)
  BY DEF ReadingInv, ReadingTypes
<1>2. TxOf(m, direct) \in BlockTx
  BY DEF BlockTx
<1>3. txs' = Append(txs, TxOf(m, direct))
  BY DEF HoldsTx, TxOf
<1> DEFINE more == IF direct THEN RequestsOf(m) ELSE <<>>
<1>4. /\ Requests(txs) \in Seq(Request) /\ Votes(txs) \in Seq(PollVote)
      /\ Requests(txs') = Requests(txs) \o more
      /\ Votes(txs') = Votes(txs) \o (IF m.type = "Confirm" THEN <<>> ELSE VotesOf(m))
  BY <1>1, <1>3, BlockOfMore
<1>5. more \in Seq(Request)
  BY MessageReads, SmallLists
<1>6. Range(Requests(txs)) \subseteq Range(Requests(txs'))
  <2> HIDE DEF more
  <2>1. Range(Requests(txs) \o more) = Range(Requests(txs)) \cup Range(more)
    BY <1>4, <1>5, ConcatRange
  <2>2. QED
    BY <1>4, <2>1
<1>7. txs' \in Seq(BlockTx)
  BY <1>1, <1>2, <1>3
<1>8. QED
  BY <1>4, <1>6, <1>7

(* Requests of polls opened before are still there.                        *)
LEMMA RequestsStay ==
  ASSUME RequestsInv, opened' = opened, Range(Requests(txs)) \subseteq Range(Requests(txs'))
  PROVE  RequestsInv'
BY DEF RequestsInv

LEMMA OpenPollsKeeps ==
  ASSUME ReadingInv, OpenPolls
  PROVE  ReadingInv'
<1>1. PICK chain \in Chains, ids \in TxLists, direct \in BOOLEAN :
        /\ HoldsTx(Sent(Confirm(chain, ids), direct))
        /\ opened' = opened \o [i \in DOMAIN ids |->
                                  [chain |-> chain, tx |-> ids[i], direct |-> direct]]
        /\ events' = Append(events, Announced(Len(opened), ids))
        /\ UNCHANGED cast
  BY DEF OpenPolls
<1> DEFINE m == Confirm(chain, ids)
           new == [i \in DOMAIN ids |-> [chain |-> chain, tx |-> ids[i], direct |-> direct]]
           n == Len(opened)
<1>2. /\ ids \in Seq(Nat) /\ Len(ids) \in Nat /\ DOMAIN ids = 1..Len(ids)
      /\ \A i \in 1..Len(ids) : ids[i] \in Nat
  BY ReadingAssumption
<1>3. opened \in Seq(PollOpened) /\ n \in Nat /\ DOMAIN opened = 1..n
  BY DEF ReadingInv, ReadingTypes
<1>4. /\ new \in Seq(PollOpened) /\ Len(new) = Len(ids)
      /\ \A i \in 1..Len(ids) :
           new[i].chain = chain /\ new[i].tx = ids[i] /\ new[i].direct = direct
  <2>1. \A i \in 1..Len(ids) : [chain |-> chain, tx |-> ids[i], direct |-> direct] \in PollOpened
    BY <1>2 DEF PollOpened
  <2>2. QED
    BY <1>2, <2>1
<1>5. m \in Messages /\ m.type = "Confirm"
  BY DEF Messages, Confirms, Confirm
<1>6. /\ RequestsOf(m) = [i \in DOMAIN ids |-> [chain |-> chain, tx |-> ids[i]]]
      /\ RequestsOf(m) \in Seq(Request)
  <2>1. m.type = "Confirm" /\ m.chain = chain /\ m.tx_ids = ids
    BY DEF Confirm
  <2>2. RequestsOf(m) \in Seq(Request)
    BY <1>5, MessageReads
  <2> HIDE DEF m
  <2>3. QED
    BY <2>1, <2>2 DEF RequestsOf
<1>7. opened' = opened \o new
  BY <1>1
<1> HIDE DEF m, new, n
<1>8. opened' \in Seq(PollOpened) /\ Len(opened') = n + Len(ids)
      /\ \A i \in 1..(n + Len(ids)) :
           opened'[i] = IF i <= n THEN opened[i] ELSE new[i - n]
  <2>1. /\ opened \o new \in Seq(PollOpened)
        /\ Len(opened \o new) = Len(opened) + Len(new)
        /\ \A i \in 1..(Len(opened) + Len(new)) :
             (opened \o new)[i] = IF i <= Len(opened) THEN opened[i]
                                  ELSE new[i - Len(opened)]
    <3>1. opened \in Seq(PollOpened) /\ new \in Seq(PollOpened)
      BY <1>3, <1>4
    <3>2. QED
      BY <3>1, ConcatProperties
  <2>2. QED
    BY <1>4, <1>7, <2>1 DEF n
<1>9. /\ txs' \in Seq(BlockTx) /\ Votes(txs) \in Seq(PollVote)
      /\ Requests(txs) \in Seq(Request)
      /\ Requests(txs') = Requests(txs) \o (IF direct THEN RequestsOf(m) ELSE <<>>)
      /\ Votes(txs') = Votes(txs) \o <<>>
      /\ Range(Requests(txs)) \subseteq Range(Requests(txs'))
  BY <1>1, <1>5, OneMoreTx DEF m
<1>10. ReadingTypes' /\ EventsInv'
  <2>1. Announced(n, ids) \in ResultEvent
    BY <1>3 DEF ResultEvent
  <2>2. events \in Seq(ResultEvent) /\ ExtractAllPollEvents(events) = IdsOf(opened)
    BY DEF ReadingInv, ReadingTypes, EventsInv
  <2>3. events' = Append(events, Announced(n, ids))
    BY <1>1 DEF n
  <2>4. ExtractAllPollEvents(events') = IdsOf(opened) \o IdsFrom(n, ids)
    BY <1>3, <2>1, <2>2, <2>3, EventsOfMore, EventReads
  <2>5. IdsOf(opened') = IdsOf(opened) \o IdsFrom(n, ids)
    <3>1. \A i \in 1..Len(ids) : new[i].tx = ids[i]
      BY <1>4
    <3>2. QED
      BY <1>3, <1>4, <1>7, <3>1, IdsOfMore DEF n
  <2>6. events' \in Seq(ResultEvent)
    BY <2>1, <2>2, <2>3
  <2>7. QED
    BY <1>8, <1>9, <2>4, <2>5, <2>6 DEF ReadingTypes, EventsInv
<1>11. RequestsInv'
  <2>1. SUFFICES ASSUME NEW id \in DOMAIN opened', opened'[id].direct
                 PROVE  [chain |-> opened'[id].chain, tx |-> opened'[id].tx]
                          \in Range(Requests(txs'))
    BY DEF RequestsInv
  <2>2. id \in 1..(n + Len(ids)) /\ id \in Nat
    BY <1>2, <1>3, <1>8
  <2>3. CASE id <= n
    <3>1. id \in DOMAIN opened /\ opened'[id] = opened[id]
      BY <1>3, <1>8, <2>2, <2>3
    <3>2. [chain |-> opened[id].chain, tx |-> opened[id].tx] \in Range(Requests(txs))
      BY <2>1, <3>1 DEF ReadingInv, RequestsInv
    <3>3. QED
      BY <1>9, <3>1, <3>2
  <2>4. CASE ~ (id <= n)
    <3> DEFINE i == id - n
    <3>1. i \in 1..Len(ids) /\ opened'[id] = new[i]
      BY <1>2, <1>3, <1>8, <2>2, <2>4
    <3> HIDE DEF i
    <3>2. new[i].direct = direct /\ new[i].chain = chain /\ new[i].tx = ids[i]
      BY <1>4, <3>1
    <3>3. Range(Requests(txs')) = Range(Requests(txs)) \cup Range(RequestsOf(m))
      <4>1. Requests(txs') = Requests(txs) \o RequestsOf(m)
        BY <1>9, <2>1, <3>1, <3>2
      <4>2. QED
        BY <1>6, <1>9, <4>1, ConcatRange
    <3>4. [chain |-> chain, tx |-> ids[i]] \in Range(RequestsOf(m))
      BY <1>2, <1>6, <3>1 DEF Range
    <3>5. QED
      BY <3>1, <3>2, <3>3, <3>4
  <2>5. QED
    BY <2>3, <2>4
<1>12. VotesOnceEach'
  <2>1. Votes(txs') = Votes(txs)
    BY <1>9, ConcatEmptySeq
  <2>2. EntriesOfVotes(Votes(txs)) = cast
    BY FoundVotes DEF ReadingInv
  <2>3. QED
    BY <1>1, <2>1, <2>2, FoundVotesNext
<1>13. QED
  BY <1>10, <1>11, <1>12 DEF ReadingInv

LEMMA RejectConfirmKeeps ==
  ASSUME ReadingInv, RejectConfirm
  PROVE  ReadingInv'
<1>1. PICK chain \in Chains, ids \in TxLists :
        HoldsTx(Sent(Confirm(chain, ids), TRUE)) /\ UNCHANGED <<events, opened, cast>>
  BY DEF RejectConfirm
<1> DEFINE m == Confirm(chain, ids)
<1>2. m \in Messages /\ m.type = "Confirm"
  BY DEF Messages, Confirms, Confirm
<1> HIDE DEF m
<1>3. /\ txs' \in Seq(BlockTx) /\ Votes(txs) \in Seq(PollVote)
      /\ Votes(txs') = Votes(txs) \o <<>>
      /\ Range(Requests(txs)) \subseteq Range(Requests(txs'))
  BY <1>1, <1>2, OneMoreTx DEF m
<1>4. ReadingTypes' /\ EventsInv'
  BY <1>1, <1>3 DEF ReadingInv, ReadingTypes, EventsInv
<1>5. RequestsInv'
  BY <1>1, <1>3, RequestsStay DEF ReadingInv
<1>6. VotesOnceEach'
  <2>1. Votes(txs') = Votes(txs)
    BY <1>3, ConcatEmptySeq
  <2>2. EntriesOfVotes(Votes(txs)) = cast
    BY FoundVotes DEF ReadingInv
  <2>3. QED
    BY <1>1, <2>1, <2>2, FoundVotesNext
<1>7. QED
  BY <1>4, <1>5, <1>6 DEF ReadingInv

LEMMA AcceptVoteKeeps ==
  ASSUME ReadingInv, AcceptVote
  PROVE  ReadingInv'
<1>1. PICK sender \in Senders, chain \in VoteChains, voted \in Voted, direct \in BOOLEAN :
        /\ HoldsTx(Sent(Ballot(sender, chain, voted), direct))
        /\ cast' = IF voted = <<>> THEN Append(cast, <<sender, 0>>)
                   ELSE cast \o [i \in DOMAIN voted |-> <<sender, voted[i]>>]
        /\ UNCHANGED <<events, opened>>
  BY DEF AcceptVote
<1> DEFINE m == Ballot(sender, chain, voted)
           entries == EntriesOfVotes(VotesOf(m))
<1>2. m \in Messages /\ m.type = "RefundMsg"
  BY DEF Messages, CastBallots, Ballot
<1> HIDE DEF m
<1>3. /\ txs' \in Seq(BlockTx) /\ Votes(txs) \in Seq(PollVote)
      /\ Votes(txs') = Votes(txs) \o VotesOf(m)
      /\ Range(Requests(txs)) \subseteq Range(Requests(txs'))
  BY <1>1, <1>2, OneMoreTx DEF m
<1>4. VotesOf(m) \in Seq(PollVote)
  BY <1>2, MessageReads
<1>5. ReadingTypes' /\ EventsInv'
  BY <1>1, <1>3 DEF ReadingInv, ReadingTypes, EventsInv
<1>6. RequestsInv'
  BY <1>1, <1>3, RequestsStay DEF ReadingInv
<1>7. EntriesOfVotes(Votes(txs')) = cast \o entries
  <2>1. EntriesOfVotes(Votes(txs)) = cast
    BY FoundVotes DEF ReadingInv
  <2>2. QED
    BY <1>3, <1>4, <2>1, EntriesOfMore
<1>8. cast' = cast \o entries
  <2>1. CASE voted = <<>>
    <3>1. entries = <<<<sender, 0>>>>
      BY <2>1, BallotEntries DEF m
    <3>2. cast \in Seq(Entry)
      <4>1. EntriesOfVotes(Votes(txs)) = cast
        BY FoundVotes DEF ReadingInv
      <4>2. \A x \in PollVote : <<x.sender_id, x.tx_id>> \in Entry
        BY DEF PollVote, Entry
      <4> DEFINE v == Votes(txs)
      <4> HIDE DEF v
      <4>3. v \in Seq(PollVote) /\ cast = EntriesOfVotes(v)
        BY <1>3, <4>1 DEF v
      <4>4. \A i \in DOMAIN v : <<v[i].sender_id, v[i].tx_id>> \in Entry
        BY <4>2, <4>3
      <4>5. DOMAIN v = 1..Len(v) /\ Len(v) \in Nat
        BY <4>3
      <4>6. QED
        BY <4>3, <4>4, <4>5 DEF EntriesOfVotes
    <3>3. <<sender, 0>> \in Entry
      BY DEF Entry, VotedTx
    <3>4. Append(cast, <<sender, 0>>) = cast \o <<<<sender, 0>>>>
      BY <3>2, <3>3, AppendIsConcat
    <3>5. QED
      BY <1>1, <2>1, <3>1, <3>4
  <2>2. CASE voted # <<>>
    BY <1>1, <2>2, BallotEntries DEF m
  <2>3. QED
    BY <2>1, <2>2
<1>9. VotesOnceEach'
  BY <1>7, <1>8, FoundVotesNext
<1>10. QED
  BY <1>5, <1>6, <1>9 DEF ReadingInv

LEMMA HoldNoiseKeeps ==
  ASSUME ReadingInv, HoldNoise
  PROVE  ReadingInv'
<1>1. PICK ids \in TxLists :
        Len(ids) = 1 /\ events' = Append(events, Unannounced(ids[1]))
  BY DEF HoldNoise, Unannounced
<1>2. UNCHANGED <<opened, cast>>
  BY DEF HoldNoise
<1>3. /\ txs' \in Seq(BlockTx) /\ Votes(txs') = Votes(txs)
      /\ Range(Requests(txs)) \subseteq Range(Requests(txs'))
  <2>1. ASSUME NEW m \in Unreadables, NEW direct \in BOOLEAN, HoldsTx(Sent(m, direct))
        PROVE  /\ txs' \in Seq(BlockTx) /\ Votes(txs') = Votes(txs)
               /\ Range(Requests(txs)) \subseteq Range(Requests(txs'))
    <3>1. m \in Messages
      BY DEF Messages
    <3>2. m.type \in {"Confirm", "RefundMsg"} /\ VotesOf(m) = <<>>
      BY <3>1, MessageReads
    <3>3. /\ txs' \in Seq(BlockTx) /\ Votes(txs) \in Seq(PollVote)
          /\ Votes(txs') = Votes(txs) \o <<>>
          /\ Range(Requests(txs)) \subseteq Range(Requests(txs'))
      BY <2>1, <3>1, <3>2, OneMoreTx
    <3>4. QED
      BY <3>3, ConcatEmptySeq
  <2>2. CASE HoldsTx(<<[type |-> "RefundMsg", vote |-> NotAVote]>>)
    <3> DEFINE m == [type |-> "RefundMsg", vote |-> NotAVote]
    <3>1. m \in Unreadables
      BY DEF Unreadables
    <3>2. HoldsTx(Sent(m, TRUE))
      BY <2>2 DEF Sent
    <3> HIDE DEF m
    <3>3. QED
      BY <2>1, <3>1, <3>2
  <2>3. CASE \E chain \in VoteChains, voted \in Voted :
               HoldsTx(Sent(Ballot(Unreadable, chain, voted), FALSE))
    <3>1. PICK chain \in VoteChains, voted \in Voted :
            HoldsTx(Sent(Ballot(Unreadable, chain, voted), FALSE))
      BY <2>3
    <3>2. Ballot(Unreadable, chain, voted) \in Unreadables
      BY DEF Unreadables
    <3>3. QED
      BY <2>1, <3>1, <3>2
  <2>4. CASE \E sender \in Senders, chain \in VoteChains :
               HoldsTx(Sent(Ballot(sender, chain, Unreadable), TRUE))
    <3>1. PICK sender \in Senders, chain \in VoteChains :
            HoldsTx(Sent(Ballot(sender, chain, Unreadable), TRUE))
      BY <2>4
    <3>2. Ballot(sender, chain, Unreadable) \in Unreadables
      BY DEF Unreadables
    <3>3. QED
      BY <2>1, <3>1, <3>2
  <2>5. CASE txs' = Append(txs, [decodes |-> FALSE])
    <3>1. txs \in Seq(BlockTx) /\ Noise \in BlockTx /\ txs' = Append(txs, Noise)
      BY <2>5 DEF ReadingInv, ReadingTypes, BlockTx, Noise
    <3>2. [type |-> "RefundMsg", vote |-> NotAVote] \in Messages
      BY DEF Messages, Unreadables
    <3>3. Requests(txs') = Requests(txs) /\ Votes(txs') = Votes(txs)
      BY <3>1, <3>2, BlockOfMore
    <3>4. QED
      BY <3>1, <3>3
  <2>6. QED
    BY <2>2, <2>3, <2>4, <2>5 DEF HoldNoise
<1>4. events' \in Seq(ResultEvent) /\ ExtractAllPollEvents(events') = ExtractAllPollEvents(events)
  <2>1. events \in Seq(ResultEvent)
    BY DEF ReadingInv, ReadingTypes
  <2>2. ids[1] \in Nat
    <3>1. ids \in Seq(Nat)
      BY ReadingAssumption
    <3>2. \A s \in Seq(Nat) : Len(s) = 1 => s[1] \in Nat
      OBVIOUS
    <3>3. QED
      BY <1>1, <3>1, <3>2
  <2>3. Unannounced(ids[1]) \in ResultEvent /\ PollEventsOf(Unannounced(ids[1])) = <<>>
    BY <2>2, EventReads DEF ResultEvent
  <2>4. /\ ExtractAllPollEvents(events) \in Seq(PollEvent)
        /\ ExtractAllPollEvents(events') = ExtractAllPollEvents(events) \o <<>>
    BY <1>1, <2>1, <2>3, EventsOfMore
  <2>5. QED
    BY <1>1, <2>1, <2>3, <2>4, ConcatEmptySeq
<1>5. ReadingTypes' /\ EventsInv'
  BY <1>2, <1>3, <1>4 DEF ReadingInv, ReadingTypes, EventsInv
<1>6. RequestsInv'
  BY <1>2, <1>3, RequestsStay DEF ReadingInv
<1>7. VotesOnceEach'
  <2>1. EntriesOfVotes(Votes(txs)) = cast
    BY FoundVotes DEF ReadingInv
  <2>2. QED
    BY <1>2, <1>3, <2>1, FoundVotesNext
<1>8. QED
  BY <1>5, <1>6, <1>7 DEF ReadingInv

(* An empty block.                                                         *)
LEMMA EmptyBlock ==
  /\ Votes(<<>>) = <<>> /\ EntriesOfVotes(<<>>) = <<>>
  /\ ExtractAllPollEvents(<<>>) = <<>> /\ IdsOf(<<>>) = <<>>
<1> DEFINE none == <<>>
<1>1. Len(none) = 0 /\ DOMAIN none = 1..0
  OBVIOUS
<1>2. GetTxs(none) = none
  <2>1. \E f : GetTxs(none) = Joined(f, Len(none))
    BY DEF GetTxs, FlatMap
  <2>2. QED
    BY <1>1, <2>1, JoinedFew
<1>3. GetVotesFromTxs(none) = none
  <2>1. \E f : GetVotesFromTxs(none) = Joined(f, Len(none))
    BY DEF GetVotesFromTxs, FlatMap
  <2>2. QED
    BY <1>1, <2>1, JoinedFew
<1>4. ExtractAllPollEvents(none) = none
  <2>1. \E f : ExtractAllPollEvents(none) = Joined(f, Len(none))
    BY DEF ExtractAllPollEvents, FlatMap
  <2>2. QED
    BY <1>1, <2>1, JoinedFew
<1>5. IdsOf(none) = none /\ EntriesOfVotes(none) = none
  <2>1. \A x : [i \in 1..0 |-> x] = <<>>
    OBVIOUS
  <2>2. QED
    BY DEF IdsOf, EntriesOfVotes
<1>6. QED
  BY <1>2, <1>3, <1>4, <1>5 DEF Votes

LEMMA ReadingFromNothing ==
  /\ Init => ReadingInv
  /\ NextBlock => ReadingInv'
<1>1. ASSUME Init PROVE ReadingInv
  <2>1. ReadingTypes /\ RequestsInv
    BY <1>1 DEF Init, ReadingTypes, RequestsInv
  <2>2. EventsInv
    BY <1>1, EmptyBlock DEF Init, EventsInv
  <2>3. VotesOnceEach
    BY <1>1, EmptyBlock, FoundVotes DEF Init
  <2>4. QED
    BY <2>1, <2>2, <2>3 DEF ReadingInv
<1>2. ASSUME NextBlock PROVE ReadingInv'
  <2>1. ReadingTypes' /\ RequestsInv'
    BY <1>2 DEF NextBlock, ReadingTypes, RequestsInv
  <2>2. EventsInv'
    BY <1>2, EmptyBlock DEF NextBlock, EventsInv
  <2>3. VotesOnceEach'
    BY <1>2, EmptyBlock, FoundVotesNext DEF NextBlock
  <2>4. QED
    BY <2>1, <2>2, <2>3 DEF ReadingInv
<1>3. QED
  BY <1>1, <1>2

(* The invariant holds in every state.                                     *)
LEMMA ReadingInductive == Spec => []ReadingInv
<1>1. Init => ReadingInv
  BY ReadingFromNothing
<1>2. ASSUME ReadingInv, [Next]_readingVars PROVE ReadingInv'
  <2>1. CASE OpenPolls
    BY <1>2, <2>1, OpenPollsKeeps
  <2>2. CASE RejectConfirm
    BY <1>2, <2>2, RejectConfirmKeeps
  <2>3. CASE AcceptVote
    BY <1>2, <2>3, AcceptVoteKeeps
  <2>4. CASE HoldNoise
    BY <1>2, <2>4, HoldNoiseKeeps
  <2>5. CASE NextBlock
    BY <2>5, ReadingFromNothing
  <2>6. CASE UNCHANGED readingVars
    <3>1. UNCHANGED <<txs, events, opened, cast>>
      BY <2>6 DEF readingVars
    <3>2. ReadingTypes' /\ EventsInv' /\ RequestsInv'
      BY <1>2, <3>1 DEF ReadingInv, ReadingTypes, EventsInv, RequestsInv
    <3>3. VotesOnceEach'
      BY <1>2, <3>1, FoundVotes, FoundVotesNext DEF ReadingInv
    <3>4. QED
      BY <3>2, <3>3 DEF ReadingInv
  <2>7. QED
    BY <1>2, <2>1, <2>2, <2>3, <2>4, <2>5, <2>6 DEF Next
<1>3. QED
  BY <1>1, <1>2, PTL DEF Spec

----------------------------------------------------------------------------
(* The map from txs to ids, and what is registered with it.                *)

(* It has the opened txs, and the last poll opened on each.                *)
LEMMA IdsAreLast ==
  ASSUME ReadingInv
  PROVE  LET ids == TxToPollIds(events)
         IN  /\ \A i \in DOMAIN opened : opened[i].tx \in DOMAIN ids
             /\ \A tx \in DOMAIN ids :
                  /\ ids[tx] \in DOMAIN opened /\ ids[tx] \in Nat
                  /\ opened[ids[tx]].tx = tx
                  /\ \A i \in DOMAIN opened : opened[i].tx = tx => i <= ids[tx]
<1> DEFINE n == Len(opened)
           found == ExtractAllPollEvents(events)
           with(tx) == {i \in DOMAIN found : found[i].tx_id = tx}
           ids == TxToPollIds(events)
<1>1. n \in Nat /\ DOMAIN opened = 1..n
  BY DEF ReadingInv, ReadingTypes
<1>2. /\ DOMAIN found = DOMAIN opened
      /\ \A i \in DOMAIN opened : found[i].tx_id = opened[i].tx /\ found[i].poll_id = i
  BY DEF ReadingInv, EventsInv, IdsOf
<1>3. ids = [tx \in {found[i].tx_id : i \in DOMAIN found} |-> found[Max(with(tx))].poll_id]
  BY Zenon DEF TxToPollIds
<1> HIDE DEF found, ids
<1>4. \A i \in DOMAIN opened : opened[i].tx \in DOMAIN ids
  BY <1>2, <1>3
<1>5. ASSUME NEW tx \in DOMAIN ids
      PROVE  /\ ids[tx] \in DOMAIN opened /\ ids[tx] \in Nat
             /\ opened[ids[tx]].tx = tx
             /\ \A i \in DOMAIN opened : opened[i].tx = tx => i <= ids[tx]
  <2> DEFINE T == with(tx)
             last == Max(T)
  <2>1. PICK i \in DOMAIN found : found[i].tx_id = tx
    BY <1>3
  <2>2. T \in SUBSET Nat /\ T # {} /\ n \in Nat /\ \A t \in T : t <= n
    BY <1>1, <1>2, <2>1
  <2>3. \A t \in T : t \in DOMAIN opened /\ opened[t].tx = tx
    BY <1>2
  <2>4. \A t \in DOMAIN opened : opened[t].tx = tx => t \in T
    BY <1>2
  <2>5. ids[tx] = found[last].poll_id
    BY <1>3
  <2> HIDE DEF T
  <2>6. last \in T /\ \A t \in T : last >= t
    BY <2>2, GreatestNumber
  <2> HIDE DEF last
  <2>7. ids[tx] = last
    BY <1>2, <2>3, <2>5, <2>6
  <2>8. last \in Nat /\ \A t \in T : t \in Nat
    BY <2>2, <2>6
  <2>9. QED
    BY <2>3, <2>4, <2>6, <2>7, <2>8
<1>6. QED
  BY <1>4, <1>5 DEF ids

Creations == PollCreations(Requests(txs), Params, Height)

(* Polls are registered under the ids of the created txs, with a creation  *)
(* for the tx of that id.                                                  *)
LEMMA RegisteredAre ==
  ASSUME ReadingInv
  PROVE  LET ids == TxToPollIds(events)
         IN  /\ \A d \in Range(Creations) :
                  d.tx \in DOMAIN ids => ids[d.tx] \in DOMAIN Registered
             /\ \A id \in DOMAIN Registered :
                  /\ Registered[id].data \in Range(Creations)
                  /\ Registered[id].data.tx \in DOMAIN ids
                  /\ ids[Registered[id].data.tx] = id
<1> DEFINE ids == TxToPollIds(events)
           creations == Creations
           n == Len(creations)
           created == {i \in DOMAIN creations : creations[i].tx \in DOMAIN ids}
           with(id) == {i \in created : ids[creations[i].tx] = id}
           none == <<>>
<1>1. creations \in Seq(CreationsAt(Params, Height))
  <2>1. Requests(txs) \in Seq(Request)
    <3>1. [type |-> "RefundMsg", vote |-> NotAVote] \in Messages /\ TRUE \in BOOLEAN
      BY DEF Messages, Unreadables
    <3>2. txs \in Seq(BlockTx)
      BY DEF ReadingInv, ReadingTypes
    <3>3. QED
      BY <3>1, <3>2, BlockOfMore
  <2>2. QED
    BY <2>1, PollCreationsAre, ReadingAssumption DEF Creations
<1>2. n \in Nat /\ DOMAIN creations = 1..n
  <2> HIDE DEF creations
  <2>1. QED
    BY <1>1
<1>3. Registered = Opened(none, creations, ids)
  BY DEF Registered, Found, ProcessBlock, Creations, Requests
<1> HIDE DEF creations, ids
<1>4. Registered = [id \in DOMAIN none \cup {ids[creations[i].tx] : i \in created} |->
                      IF with(id) = {} THEN none[id]
                      ELSE [data |-> creations[Max(with(id))], votes |-> none]]
  BY <1>3 DEF Opened
<1>5. DOMAIN none = {}
  OBVIOUS
<1> HIDE DEF none
<1>6. DOMAIN Registered = {ids[creations[i].tx] : i \in created}
  BY <1>4, <1>5
<1>7. ASSUME NEW d \in Range(creations), d.tx \in DOMAIN ids
      PROVE  ids[d.tx] \in DOMAIN Registered
  <2>1. PICK i \in DOMAIN creations : d = creations[i]
    BY DEF Range
  <2>2. QED
    BY <1>6, <1>7, <2>1
<1>8. ASSUME NEW id \in DOMAIN Registered
      PROVE  /\ Registered[id].data \in Range(creations)
             /\ Registered[id].data.tx \in DOMAIN ids
             /\ ids[Registered[id].data.tx] = id
  <2> DEFINE T == with(id)
             last == Max(T)
  <2>1. T # {}
    BY <1>6
  <2>2. T \in SUBSET Nat /\ \A t \in T : t <= n
    BY <1>2
  <2>3. \A t \in T : /\ t \in DOMAIN creations /\ creations[t].tx \in DOMAIN ids
                     /\ ids[creations[t].tx] = id
    OBVIOUS
  <2>4. Registered[id].data = creations[last]
    BY <1>4, <1>6, <2>1
  <2> HIDE DEF T
  <2>5. last \in T
    BY <1>2, <2>1, <2>2, GreatestNumber
  <2> HIDE DEF last
  <2>6. creations[last] \in Range(creations)
    BY <2>3, <2>5 DEF Range
  <2>7. QED
    BY <2>3, <2>4, <2>5, <2>6
<1>9. QED
  BY <1>7, <1>8 DEF ids, creations

----------------------------------------------------------------------------
(* No poll is invented: what is registered has the id of a poll the chain  *)
(* opened on that very tx.                                                 *)
THEOREM FoundPollsAreReal == Spec => []PollsReal
<1>1. ASSUME ReadingInv PROVE PollsReal
  BY <1>1, IdsAreLast, RegisteredAre DEF PollsReal
<1>2. QED
  BY <1>1, ReadingInductive, PTL

(* A direct request on a chain with loaded parameters yields a poll under  *)
(* the id the chain gave it, unless a later one is on the same tx.         *)
THEOREM PollsAreFound == Spec => []PollsFound
<1>1. ASSUME ReadingInv PROVE PollsFound
  <2> DEFINE ids == TxToPollIds(events)
  <2>1. SUFFICES ASSUME NEW id \in DOMAIN opened, opened[id].direct,
                        Lower[opened[id].chain] \in DOMAIN Params
                 PROVE  LET p == opened[id]
                            last == \A i \in DOMAIN opened : opened[i].tx = p.tx => i <= id
                            unanimous == \A r \in Range(Requests(txs)) :
                              r.tx = p.tx => Lower[r.chain] = Lower[p.chain]
                        IN  /\ last <=> id \in DOMAIN Registered
                            /\ last /\ unanimous
                                 => /\ Lower[Registered[id].data.chain] = Lower[p.chain]
                                    /\ Registered[id].data.expiry_height
                                         = Height + Params[Lower[p.chain]]
    BY DEF PollsFound, Requests
  <2> DEFINE p == opened[id]
             last == \A i \in DOMAIN opened : opened[i].tx = p.tx => i <= id
  <2>2. /\ p.tx \in DOMAIN ids
        /\ \A tx \in DOMAIN ids :
             /\ ids[tx] \in DOMAIN opened /\ ids[tx] \in Nat
             /\ opened[ids[tx]].tx = tx
             /\ \A i \in DOMAIN opened : opened[i].tx = tx => i <= ids[tx]
    BY <1>1, IdsAreLast
  <2>3. id \in Nat
    <3>1. opened \in Seq(PollOpened)
      BY <1>1 DEF ReadingInv, ReadingTypes
    <3>2. QED
      BY <3>1
  <2>4. /\ \A d \in Range(Creations) :
             d.tx \in DOMAIN ids => ids[d.tx] \in DOMAIN Registered
        /\ \A x \in DOMAIN Registered :
             /\ Registered[x].data \in Range(Creations)
             /\ Registered[x].data.tx \in DOMAIN ids
             /\ ids[Registered[x].data.tx] = x
    BY <1>1, RegisteredAre
  <2>5. Requests(txs) \in Seq(Request)
    <3>1. [type |-> "RefundMsg", vote |-> NotAVote] \in Messages /\ TRUE \in BOOLEAN
      BY DEF Messages, Unreadables
    <3>2. txs \in Seq(BlockTx)
      BY <1>1 DEF ReadingInv, ReadingTypes
    <3>3. QED
      BY <3>1, <3>2, BlockOfMore
  <2>6. /\ Creations \in Seq(CreationsAt(Params, Height))
        /\ \A d \in Range(Creations) : \E r \in Range(Requests(txs)) :
             d.chain = r.chain /\ d.tx = r.tx
        /\ \A r \in Range(Requests(txs)) : Lower[r.chain] \in DOMAIN Params =>
             \E d \in Range(Creations) : d.chain = r.chain /\ d.tx = r.tx
    BY <2>5, PollCreationsAre, ReadingAssumption DEF Creations
  <2> HIDE DEF ids
  <2>7. PICK d \in Range(Creations) : d.tx = p.tx
    <3>1. [chain |-> p.chain, tx |-> p.tx] \in Range(Requests(txs))
      BY <1>1, <2>1 DEF ReadingInv, RequestsInv
    <3>2. QED
      BY <2>1, <2>6, <3>1
  <2>8. last => id \in DOMAIN Registered /\ ids[p.tx] = id
    <3>1. ids[p.tx] \in DOMAIN Registered
      BY <2>2, <2>4, <2>7
    <3>2. ASSUME last PROVE ids[p.tx] = id
      BY <2>2, <2>3, <3>2
    <3>3. QED
      BY <3>1, <3>2
  <2>9. id \in DOMAIN Registered => last /\ Registered[id].data.tx = p.tx
    BY <2>2, <2>4
  <2>10. ASSUME last, \A r \in Range(Requests(txs)) :
                        r.tx = p.tx => Lower[r.chain] = Lower[p.chain]
         PROVE  /\ Lower[Registered[id].data.chain] = Lower[p.chain]
                /\ Registered[id].data.expiry_height = Height + Params[Lower[p.chain]]
    <3> DEFINE c == Registered[id].data
    <3>1. c \in Range(Creations) /\ c.tx = p.tx
      BY <2>4, <2>8, <2>9, <2>10
    <3> HIDE DEF c
    <3>2. Lower[c.chain] = Lower[p.chain]
      BY <2>6, <2>10, <3>1
    <3>3. c \in CreationsAt(Params, Height)
      BY <2>6, <3>1, ListFacts
    <3>4. c.expiry_height = Height + Params[Lower[c.chain]]
      BY <3>3 DEF CreationsAt
    <3>5. QED
      BY <3>2, <3>4 DEF c
  <2>11. QED
    BY <2>8, <2>9, <2>10
<1>2. QED
  BY <1>1, ReadingInductive, PTL

(* Every accepted vote is read once, one entry per event.                  *)
THEOREM VotesAreReadOnce == Spec => []VotesOnceEach
<1>1. ReadingInv => VotesOnceEach
  BY DEF ReadingInv
<1>2. QED
  BY <1>1, ReadingInductive, PTL
=============================================================================
