---------------------------- MODULE BlockReading ----------------------------
(***************************************************************************)
(* The chain fills one block, tx by tx, with the requests and votes it     *)
(* accepts and those it does not, and the monitor reads it after each:     *)
(* which polls and votes it finds, whatever stands around them.            *)
(***************************************************************************)
EXTENDS BlockContents

CONSTANTS
  Params,   \* chain_params: chains that are loaded, with their periods
  Height,   \* of the block
  Chains,   \* spellings of chains in requests
  VoteChains,  \* and in votes
  TxLists,  \* the txs one message may ask to confirm
  Senders,  \* of votes
  Voted,    \* the events a vote may carry
  MaxTxs    \* bound: txs in the block

VoteMessage(sender, chain, voted) ==
  [sender |-> sender, poll_id |-> 7, chain |-> chain, events |-> voted]

ASSUME ReadingAssumption ==
  /\ \A c \in DOMAIN Params : Params[c] \in Nat
  /\ Height \in Nat /\ MaxTxs \in Nat
  /\ Chains \subseteq DOMAIN Lower
  /\ TxLists \subseteq Seq(Nat)
  /\ Unreadable \notin Nat /\ Unreadable \notin Senders \cup Voted
  /\ \A voted \in Voted : IsList(voted)
  /\ \A sender \in Senders, chain \in VoteChains, voted \in Voted :
       VoteMessage(sender, chain, voted) # NotAVote

VARIABLES
  txs,     \* the block
  events,  \* its results
  opened,  \* what the chain did: the polls it opened, by id,
  cast     \* and the entries of the votes it accepted, in order

readingVars == <<txs, events, opened, cast>>

Init == txs = <<>> /\ events = <<>> /\ opened = <<>> /\ cast = <<>>

HoldsTx(messages) ==
  /\ Len(txs) < MaxTxs
  /\ txs' = Append(txs, [decodes |-> TRUE, messages |-> messages])

(* A message is sent directly, or inside a batch.                          *)
Sent(message, direct) ==
  IF direct THEN <<message>>
  ELSE <<[type |-> "Batch", messages |-> <<[type |-> "Other"], message>>]>>

Confirm(chain, ids) == [type |-> "Confirm", chain |-> chain, tx_ids |-> ids]

(* The ids of polls count up from 1; n are given.                          *)
Announced(n, ids) ==
  IF Len(ids) = 1
  THEN [type |-> "Started", tx_id |-> ids[1], poll_id |-> n + 1]
  ELSE [type |-> "GatewayTxsStarted",
        mappings |-> [i \in DOMAIN ids |-> [tx_id |-> ids[i], poll_id |-> n + i]]]

OpenPolls == \E chain \in Chains, ids \in TxLists, direct \in BOOLEAN :
  /\ HoldsTx(Sent(Confirm(chain, ids), direct))
  /\ opened' = opened \o [i \in DOMAIN ids |->
                            [chain |-> chain, tx |-> ids[i], direct |-> direct]]
  /\ events' = Append(events, Announced(Len(opened), ids))
  /\ UNCHANGED cast

(* A failed tx stays in the block, its results carry no event.             *)
RejectConfirm == \E chain \in Chains, ids \in TxLists :
  /\ HoldsTx(Sent(Confirm(chain, ids), TRUE))
  /\ UNCHANGED <<events, opened, cast>>

Ballot(sender, chain, voted) ==
  [type |-> "RefundMsg", vote |-> VoteMessage(sender, chain, voted)]

AcceptVote ==
  \E sender \in Senders, chain \in VoteChains, voted \in Voted, direct \in BOOLEAN :
    /\ HoldsTx(Sent(Ballot(sender, chain, voted), direct))
    /\ cast' = IF voted = <<>> THEN Append(cast, <<sender, 0>>)
               ELSE cast \o [i \in DOMAIN voted |-> <<sender, voted[i]>>]
    /\ UNCHANGED <<events, opened>>

(* What is there and means nothing to the monitor.                         *)
HoldNoise ==
  /\ \/ HoldsTx(<<[type |-> "RefundMsg", vote |-> NotAVote]>>)
     \/ \E chain \in VoteChains, voted \in Voted :
          HoldsTx(Sent(Ballot(Unreadable, chain, voted), FALSE))
     \/ \E sender \in Senders, chain \in VoteChains :
          HoldsTx(Sent(Ballot(sender, chain, Unreadable), TRUE))
     \/ Len(txs) < MaxTxs /\ txs' = Append(txs, [decodes |-> FALSE])
  /\ \E ids \in TxLists : Len(ids) = 1 /\
       events' = Append(events,
         [type |-> "Started", tx_id |-> ids[1], poll_id |-> Unreadable])
  /\ UNCHANGED <<opened, cast>>

NextBlock == txs' = <<>> /\ events' = <<>> /\ opened' = <<>> /\ cast' = <<>>

Next == OpenPolls \/ RejectConfirm \/ AcceptVote \/ HoldNoise \/ NextBlock

Spec == Init /\ [][Next]_readingVars

----------------------------------------------------------------------------
Found == ProcessBlock(txs, Params, Height)
Registered == Opened(<<>>, Found.poll_creations, TxToPollIds(events))

(* A poll requested at the top level of a tx, on a chain whose parameters  *)
(* are loaded under whatever spelling, is registered under its own id,     *)
(* unless the chain opened a later poll on the same tx in that block       *)
(* (only the last id of a tx survives).  Its chain is the requested one if *)
(* every request of the block for that tx names the same chain.            *)
PollsFound ==
  \A id \in DOMAIN opened :
    LET p == opened[id]
        last == \A i \in DOMAIN opened : opened[i].tx = p.tx => i <= id
        unanimous == \A r \in Range(PollRequests(GetTxs(txs))) :
                       r.tx = p.tx => Lower[r.chain] = Lower[p.chain]
    IN  p.direct /\ Lower[p.chain] \in DOMAIN Params =>
          /\ last <=> id \in DOMAIN Registered
          /\ last /\ unanimous
               => /\ Lower[Registered[id].data.chain] = Lower[p.chain]
                  /\ Registered[id].data.expiry_height
                       = Height + Params[Lower[p.chain]]

(* No poll is invented: what is registered has the id of a poll the chain  *)
(* opened on that very tx, whatever requests of the block failed and in    *)
(* whichever order requests and events stand.                              *)
PollsReal ==
  \A id \in DOMAIN Registered :
    id \in DOMAIN opened /\ opened[id].tx = Registered[id].data.tx

(* Every accepted vote is read once, in order, direct or batched, as one   *)
(* entry per event it carries and one for the empty tx if it carries none. *)
VotesOnceEach ==
  [i \in DOMAIN Found.votes |->
     <<Found.votes[i].sender_id, Found.votes[i].tx_id>>] = cast
=============================================================================
