------------------------------ MODULE VoteTally ------------------------------
(***************************************************************************)
(* The verdict on an expired poll (analyze_poll_completion): which tx the  *)
(* votes favour, and what that makes of every configured broadcaster.      *)
(*                                                                         *)
(* A poll is [data |-> [chain, tx, expiry_height], votes |-> <<...>>] and  *)
(* a vote [poll_id, chain, tx_id, sender_id].  A tx id is a natural        *)
(* number: the code compares hex strings, of which only the order matters; *)
(* 0 is the empty string, the vote of a broadcaster that saw no event.     *)
(***************************************************************************)
EXTENDS Integers, Sequences, SequencesExt

CONSTANTS
  Broadcasters,  \* the configured [name, address] pairs, in order
  Lower          \* every spelling of a chain name, to its lower case

ASSUME TallyAssumption ==
  /\ DOMAIN Broadcasters = 1..Len(Broadcasters) /\ Len(Broadcasters) \in Nat
  /\ \A i \in DOMAIN Broadcasters : DOMAIN Broadcasters[i] = {"name", "address"}
  /\ \A c \in DOMAIN Lower : Lower[c] \in DOMAIN Lower /\ Lower[Lower[c]] = Lower[c]

Names == {Broadcasters[i].name : i \in DOMAIN Broadcasters}
VoteResultType == {"agreed", "disagreed", "missed"}

----------------------------------------------------------------------------
(* vote_results: a map from (broadcaster, chain, outcome) to a counter.    *)

Key_AsSpelled(name, chain, result) ==
  [broadcaster |-> name, chain |-> chain, result |-> result]
Key(name, chain, result) ==
  [broadcaster |-> name, chain |-> Lower[chain], result |-> result]

ValueAt(results, key) == IF key \in DOMAIN results THEN results[key] ELSE 0

(* *entry(key).or_insert(0) += 1, once for each of a set of outcomes.      *)
Counted(results, outcomes) ==
  [k \in DOMAIN results \cup {o.key : o \in outcomes} |->
     ValueAt(results, k) + Cardinality({o \in outcomes : o.key = k})]

(* Every counter of a chain, at 0 unless it is there already.              *)
SeriesOf(chain) == {Key(n, chain, r) : n \in Names, r \in VoteResultType}

Register_Reset(results, chain) ==
  [k \in DOMAIN results \cup SeriesOf(chain) |->
     IF k \in SeriesOf(chain) THEN 0 ELSE results[k]]
Register(results, chain) ==
  [k \in DOMAIN results \cup SeriesOf(chain) |-> ValueAt(results, k)]

----------------------------------------------------------------------------
(* The tx with the most votes; of several, the one that sorts last         *)
(* (max_by_key over a BTreeMap returns the last maximum).                  *)

VotesFor(votes, tx) == Cardinality({i \in DOMAIN votes : votes[i].tx_id = tx})
TxIds(votes) == {votes[i].tx_id : i \in DOMAIN votes}

Majority_LastVoted(votes) == votes[Len(votes)].tx_id
Majority_FirstVoted(votes) ==
  LET most == {t \in TxIds(votes) :
                 \A u \in TxIds(votes) : VotesFor(votes, t) >= VotesFor(votes, u)}
  IN  votes[SelectInSeq(votes, LAMBDA v : v.tx_id \in most)].tx_id
Majority(votes) ==
  Max({t \in TxIds(votes) :
         \A u \in TxIds(votes) : VotesFor(votes, t) >= VotesFor(votes, u)})

(* Of two broadcasters with one address the last configured counts.        *)
Addresses == {Broadcasters[i].address : i \in DOMAIN Broadcasters}
NameOf(address) ==
  Broadcasters[Max({i \in DOMAIN Broadcasters :
                      Broadcasters[i].address = address})].name

Known(votes) == {i \in DOMAIN votes : votes[i].sender_id \in Addresses}
Voters(votes) == {NameOf(votes[i].sender_id) : i \in Known(votes)}

(* The outcomes of the poll with a given id: the i-th broadcaster did not  *)
(* vote, or the i-th vote, of a broadcaster, agrees or disagrees.          *)
CountMissed(id, poll) ==
  LET missing == {i \in DOMAIN Broadcasters :
                    Broadcasters[i].name \notin Voters(poll.votes)}
  IN  {[poll |-> id, entry |-> i,
        key |-> Key(Broadcasters[i].name, poll.data.chain, "missed")] :
         i \in missing}

Verdict(vote, votes) ==
  IF vote.tx_id = Majority(votes) THEN "agreed" ELSE "disagreed"

CountVotes(id, poll) ==
  LET KeyOf(vote) ==
        Key(NameOf(vote.sender_id), vote.chain, Verdict(vote, poll.votes))
  IN  {[poll |-> id, entry |-> i, key |-> KeyOf(poll.votes[i])] :
         i \in Known(poll.votes)}

AnalyzePollCompletion(id, poll) == CountMissed(id, poll) \cup CountVotes(id, poll)
=============================================================================
