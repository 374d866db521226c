----------------------------- MODULE MCMonitor -----------------------------
(***************************************************************************)
(* A small chain for the whole monitor.  Poll 1 is on a chain the node and *)
(* the requests spell differently, poll 2 on one that is only known from   *)
(* the node.  The votes come directly, in a batch, from a stranger, and    *)
(* for no event at all.  The configured parameters of the first chain are  *)
(* out of date: with them poll 1 would expire a block early.               *)
(***************************************************************************)
EXTENDS ChainRecord

CONSTANTS alice, bob, addrA, addrB, addrX, ava, Ava, eth

MCChainList == <<Ava, eth>>
MCLower == [c \in {ava, Ava, eth} |-> IF c = Ava THEN ava ELSE c]
MCBroadcasters ==
  <<[name |-> alice, address |-> addrA], [name |-> bob, address |-> addrB]>>
MCConfigParams == ava :> 2
MCNodeParams == (Ava :> 3) @@ (eth :> 3)
MCPollLists == Seq(PollData)

Creation(p, c, t, h) == [poll |-> p, chain |-> c, tx |-> t, height |-> h]
Cast(p, s, c, t, h) ==
  [poll |-> p, sender |-> s, chain |-> c, tx |-> t, height |-> h]

(* The blocks and results that hold the given creations and casts: one tx  *)
(* with the confirmations and a batch, one with a refund, and what a node  *)
(* also sends that means nothing here.                                     *)
Confirm(p) == [type |-> "Confirm", chain |-> p.chain, tx_ids |-> <<p.tx>>]
Refund(c) ==
  [type |-> "RefundMsg",
   vote |-> [sender |-> c.sender, poll_id |-> c.poll, chain |-> c.chain,
             events |-> IF c.tx = 0 THEN <<>> ELSE <<c.tx>>]]
MapSet(F(_), S) == FlatMap(LAMBDA x : <<F(x)>>, SetToSeq(S))

BlockAt(creations, casts, h) ==
  LET here == {p \in creations : p.height = h}
      batched == {c \in casts : c.height = h /\ c.sender # addrB}
      direct == {c \in casts : c.height = h /\ c.sender = addrB}
  IN  << [decodes |-> TRUE,
          messages |-> MapSet(Confirm, here) \o
            << [type |-> "Batch",
                messages |-> <<[type |-> "Other"]>> \o MapSet(Refund, batched)] >>],
         [decodes |-> FALSE],
         [decodes |-> TRUE,
          messages |-> <<[type |-> "RefundMsg", vote |-> NotAVote]>>
                         \o MapSet(Refund, direct)] >>

(* Poll 2 is announced by the event that carries a list of mappings.       *)
ResultsAt(creations, h) ==
  MapSet(LAMBDA p :
           IF p.poll = 2
           THEN [type |-> "GatewayTxsStarted",
                 mappings |-> <<[tx_id |-> p.tx, poll_id |-> p.poll]>>]
           ELSE [type |-> "Started", tx_id |-> p.tx, poll_id |-> p.poll],
         {p \in creations : p.height = h})
    \o <<[type |-> "Started", tx_id |-> Unreadable, poll_id |-> 9]>>

HistoryOf(creations, casts) ==
  [blocks  |-> [h \in FirstHeight..MaxHeight |-> BlockAt(creations, casts, h)],
   results |-> [h \in FirstHeight..MaxHeight |-> ResultsAt(creations, h)],
   creations |-> creations, casts |-> casts]

MCCreations == {Creation(1, ava, 11, 2), Creation(2, eth, 12, 3)}

(* bob is outvoted, votes at the deadline, too late, or not at all.        *)
MCCasts == {
  {Cast(1, addrA, Ava, 11, 3), Cast(1, addrB, ava, 0, 3), Cast(1, addrX, ava, 11, 4),
   Cast(2, addrA, eth, 12, 4), Cast(2, addrB, eth, 12, 6)},
  {Cast(1, addrA, ava, 11, 3), Cast(1, addrB, Ava, 11, 5),
   Cast(2, addrX, eth, 12, 4), Cast(2, addrB, eth, 12, 7)} }

MCHistories == {HistoryOf(MCCreations, casts) : casts \in MCCasts}

(* One poll on the configured chain and one vote, for the liveness run and *)
(* for the run about unknown polls.                                        *)
MCOnePoll == {HistoryOf({Creation(1, ava, 11, 2)}, {Cast(1, addrA, ava, 11, 3)})}

(* The chains here satisfy what the theorems take for granted of a chain.  *)
ASSUME MCHypotheses ==
  /\ LongPolls /\ DistinctNames /\ DistinctAddresses /\ SameParams
  /\ VotesNameTheChain /\ VotesWereCast /\ CastsAreFound /\ OneVoteEach
  /\ PollsWereRequested
=============================================================================
