---------------------------- MODULE BlockContents ----------------------------
(***************************************************************************)
(* What the monitor reads out of a block and out of its results            *)
(* (blocks.rs, polls.rs).                                                  *)
(*                                                                         *)
(* A block is a sequence of txs, a tx [decodes, messages], a message one   *)
(* of                                                                      *)
(*   [type |-> "Confirm", chain, tx_ids]   the five Confirm* requests      *)
(*   [type |-> "RefundMsg", vote]          a refund around one message     *)
(*   [type |-> "Batch", messages]          an auxiliary BatchRequest       *)
(*   [type |-> "Other"]                                                    *)
(* and the vote of a refund either NotAVote or                             *)
(*   [sender, poll_id, chain, events]      events: the voted tx ids.       *)
(* Block results are a sequence of events,                                 *)
(*   [type |-> "Started", tx_id, poll_id]  one poll, attributes may lack   *)
(*   [type |-> "GatewayTxsStarted", mappings |-> <<[tx_id, poll_id], ...>>]*)
(*   [type |-> "Other"].                                                   *)
(***************************************************************************)
EXTENDS Integers, Sequences, SequencesExt, VoteTally

CONSTANTS
  NotAVote,     \* the inner message of a refund is not a decodable vote
  Unreadable    \* a sender, attribute or vote payload that does not decode

(* The lists one after the other (FlattenSeq, with their number given, so  *)
(* that TLC does not evaluate them again for it).                          *)
Joined(lists, number) ==
  LET upTo[n \in 0..number] == IF n = 0 THEN <<>> ELSE upTo[n - 1] \o lists[n]
  IN  upTo[number]
FlatMap(F(_), s) == Joined([i \in DOMAIN s |-> F(s[i])], Len(s))

(* What decoding ensures: a list is a list, whatever it holds, a requested *)
(* chain has a spelling and a confirmed tx an id.                          *)
IsList(s) == s \in Seq(Range(s))
WellFormedVote(message) ==
  message.type = "RefundMsg" /\ message.vote # NotAVote
    => message.vote.events = Unreadable \/ IsList(message.vote.events)
WellFormedMessage(message) ==
  /\ message.type = "Confirm"
       => message.chain \in DOMAIN Lower /\ message.tx_ids \in Seq(Nat)
  /\ message.type = "Batch"
       => /\ IsList(message.messages)
          /\ \A m \in Range(message.messages) : WellFormedVote(m)
  /\ WellFormedVote(message)
WellFormedBlock(block) ==
  /\ IsList(block)
  /\ \A t \in Range(block) :
       t.decodes => /\ IsList(t.messages)
                    /\ \A m \in Range(t.messages) : WellFormedMessage(m)

(* Txs that do not decode are skipped; the others keep their order.        *)
GetTxs(block) == FlatMap(LAMBDA t : IF t.decodes THEN <<t>> ELSE <<>>, block)

----------------------------------------------------------------------------
(* Poll requests: only messages at the top level of a tx are looked at.    *)

RequestsOf(message) ==
  IF message.type # "Confirm" THEN <<>>
  ELSE [i \in DOMAIN message.tx_ids |->
          [chain |-> message.chain, tx |-> message.tx_ids[i]]]

PollRequests(txs) ==
  FlatMap(LAMBDA t : FlatMap(RequestsOf, t.messages), txs)

(* A request on a chain whose parameters are not loaded is dropped.        *)
PollCreations_AsSpelled(requests, chain_params, height) ==
  FlatMap(LAMBDA r :
            IF r.chain \notin DOMAIN chain_params THEN <<>>
            ELSE <<[chain |-> r.chain, tx |-> r.tx,
                    expiry_height |-> height + chain_params[r.chain]]>>,
          requests)
PollCreations(requests, chain_params, height) ==
  FlatMap(LAMBDA r :
            IF Lower[r.chain] \notin DOMAIN chain_params THEN <<>>
            ELSE <<[chain |-> r.chain, tx |-> r.tx,
                    expiry_height |-> height + chain_params[Lower[r.chain]]]>>,
          requests)

----------------------------------------------------------------------------
(* Votes: a refund at the top level of a tx or directly inside a batch.    *)

DirectRefund(message) ==
  IF message.type = "RefundMsg" THEN <<message>> ELSE <<>>
RefundsOf(message) ==
  IF message.type = "Batch" THEN FlatMap(DirectRefund, message.messages)
  ELSE DirectRefund(message)

(* One vote per event; a vote without events is for the empty tx id.       *)
PollVotes(vote) ==
  LET votedTxs == IF vote.events = <<>> THEN <<0>> ELSE vote.events
  IN  [i \in DOMAIN votedTxs |->
         [poll_id |-> vote.poll_id, chain |-> vote.chain,
          tx_id |-> votedTxs[i], sender_id |-> vote.sender]]

VotesOf(refund) ==
  IF \/ refund.vote = NotAVote
     \/ refund.vote.sender = Unreadable \/ refund.vote.events = Unreadable
  THEN <<>>
  ELSE PollVotes(refund.vote)

GetVotesFromTxs(txs) ==
  FlatMap(LAMBDA t : FlatMap(VotesOf, FlatMap(RefundsOf, t.messages)), txs)

ProcessBlock(block, chain_params, height) ==
  [poll_creations |->
     PollCreations(PollRequests(GetTxs(block)), chain_params, height),
   votes |-> GetVotesFromTxs(GetTxs(block))]

----------------------------------------------------------------------------
(* Poll events, and the map from the confirmed tx to the poll's id; of two *)
(* events for one tx the later one counts.                                 *)

PollEventsOf(event) ==
  CASE event.type = "Started" ->
         IF Unreadable \in {event.tx_id, event.poll_id} THEN <<>>
         ELSE <<[tx_id |-> event.tx_id, poll_id |-> event.poll_id]>>
    [] event.type = "GatewayTxsStarted" ->
         FlatMap(LAMBDA m : IF m.poll_id = Unreadable THEN <<>> ELSE <<m>>,
                 event.mappings)
    [] OTHER -> <<>>

ExtractAllPollEvents(results) == FlatMap(PollEventsOf, results)

TxToPollIds(results) ==
  LET events == ExtractAllPollEvents(results)
      last(tx) == Max({i \in DOMAIN events : events[i].tx_id = tx})
  IN  [tx \in {events[i].tx_id : i \in DOMAIN events} |-> events[last(tx)].poll_id]

(* Every creation whose tx has an event becomes an open poll without       *)
(* votes, replacing one of the same id; of two with one id the later stays.*)
Opened_ByPosition(open, creations, ids) ==
  LET given == SetToSortSeq({ids[t] : t \in DOMAIN ids}, <)
      n == Min({Len(creations), Len(given)})
  IN  [i \in {given[k] : k \in 1..n} |->
         [data |-> creations[CHOOSE k \in 1..n : given[k] = i], votes |-> <<>>]]
        @@ open
Opened(open, creations, ids) ==
  LET created == {i \in DOMAIN creations : creations[i].tx \in DOMAIN ids}
      with(id) == {i \in created : ids[creations[i].tx] = id}
  IN  [id \in DOMAIN open \cup {ids[creations[i].tx] : i \in created} |->
         IF with(id) = {} THEN open[id]
         ELSE [data |-> creations[Max(with(id))], votes |-> <<>>]]
=============================================================================
