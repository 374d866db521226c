---------------------------- MODULE PollVerdict ----------------------------
(***************************************************************************)
(* One poll collects votes in every order and is judged after each: what   *)
(* analyze_poll_completion may and may not conclude from them.             *)
(***************************************************************************)
EXTENDS VoteTally

CONSTANTS
  Chain,     \* the poll's chain, in lower case
  Txs,       \* the tx ids voted for
  Senders,   \* addresses that vote, configured or not
  MaxVotes   \* bound: votes of one poll

ASSUME VerdictAssumption ==
  /\ Chain \in DOMAIN Lower /\ Lower[Chain] = Chain
  /\ Txs \subseteq Nat
  /\ MaxVotes \in Nat

VARIABLE poll  \* an entry of ProcessingState.polls

Spellings == {c \in DOMAIN Lower : Lower[c] = Chain}
Vote == [chain : Spellings, tx_id : Txs, sender_id : Senders]
Fresh == {[data |-> [chain |-> c], votes |-> <<>>] : c \in Spellings}

Init == poll \in Fresh
Cast ==
  /\ Len(poll.votes) < MaxVotes
  /\ \E v \in Vote : poll' = [poll EXCEPT !.votes = Append(@, v)]
Expire == poll' \in Fresh
Next == Cast \/ Expire
Spec == Init /\ [][Next]_poll

Poll == [data : [chain : Spellings], votes : Seq(Vote)]
PollTypeOK == poll \in Poll

(* The counters after the verdict, when they were registered at 0 before.  *)
Judged(p) == Counted(Register(<<>>, Chain), AnalyzePollCompletion(1, p))
Outcomes(name, result) == Judged(poll)[Key(name, Chain, result)]

EntriesOf(name) == {i \in DOMAIN Broadcasters : Broadcasters[i].name = name}
SentBy(name) ==
  {i \in DOMAIN poll.votes :
     \E e \in EntriesOf(name) : Broadcasters[e].address = poll.votes[i].sender_id}

----------------------------------------------------------------------------
(* Nobody escapes judgement and nobody else is judged: a configured name   *)
(* is missed exactly when none of its addresses voted (once per entry of   *)
(* the configuration that has the name), each vote from any of them is     *)
(* counted once as agreed or disagreed, and no other counter than the      *)
(* registered ones appears, however the chain is spelled.                  *)
EveryoneAccountedFor ==
  /\ \A n \in Names :
       /\ Outcomes(n, "missed")
            = IF SentBy(n) = {} THEN Cardinality(EntriesOf(n)) ELSE 0
       /\ Outcomes(n, "agreed") + Outcomes(n, "disagreed") = Cardinality(SentBy(n))
  /\ DOMAIN Judged(poll) = SeriesOf(Chain)

(* Agreement follows popularity: a vote for a tx that has strictly more    *)
(* votes than every other tx is counted as agreed, one for a tx that some  *)
(* other tx beats as disagreed; votes of unknown senders weigh the same.   *)
Top(vs) ==
  {t \in TxIds(vs) : \A u \in TxIds(vs) \ {t} : VotesFor(vs, t) > VotesFor(vs, u)}
Beaten(vs) ==
  {t \in TxIds(vs) : \E u \in TxIds(vs) : VotesFor(vs, u) > VotesFor(vs, t)}
SentFor(name, txs) == {i \in SentBy(name) : poll.votes[i].tx_id \in txs}
AgreementIsPopularity ==
  \A n \in Names :
    /\ Outcomes(n, "agreed") >= Cardinality(SentFor(n, Top(poll.votes)))
    /\ Outcomes(n, "disagreed") >= Cardinality(SentFor(n, Beaten(poll.votes)))

(* The verdict does not depend on the order in which the votes arrived,    *)
(* ties included: the same votes in any other order are judged alike.      *)
Reordered(vs, p) == [i \in DOMAIN vs |-> vs[p[i]]]
OrderIrrelevant ==
  \A p \in Bijection(DOMAIN poll.votes, DOMAIN poll.votes) :
    Judged([poll EXCEPT !.votes = Reordered(@, p)]) = Judged(poll)
=============================================================================
