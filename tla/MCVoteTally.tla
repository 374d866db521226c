---------------------------- MODULE MCVoteTally ----------------------------
(***************************************************************************)
(* A small configuration for PollVerdict: alice is configured twice, with  *)
(* two addresses, a stranger votes too, and the chain has two spellings.   *)
(***************************************************************************)
EXTENDS PollVerdict

CONSTANTS alice, bob, addrA, addrB, addrC, addrX, eth, Eth

MCBroadcasters ==
  <<[name |-> alice, address |-> addrA], [name |-> bob, address |-> addrB],
    [name |-> alice, address |-> addrC]>>
MCLower == [c \in {eth, Eth} |-> eth]

(* README, line 6: consensus is determined purely by vote popularity: when *)
(* every voter stands by one tx, the majority is not a tx that fewer       *)
(* voters chose than another.                                              *)
VotersFor(tx) ==
  {poll.votes[i].sender_id : i \in {j \in DOMAIN poll.votes : poll.votes[j].tx_id = tx}}
MajorityIsOfVoters ==
  LET txs == TxIds(poll.votes)
  IN  (\A t, u \in txs : t # u => VotersFor(t) \cap VotersFor(u) = {})
        => \A t \in txs :
             Cardinality(VotersFor(Majority(poll.votes))) >= Cardinality(VotersFor(t))
=============================================================================
