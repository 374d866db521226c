----------------------------- MODULE ChainRecord -----------------------------
(***************************************************************************)
(* What the theorems about the whole monitor take for granted of the       *)
(* chain, the node and the configuration, beyond the assumptions of        *)
(* Monitor.  Each is a hypothesis of the theorems that need it, and        *)
(* MCMonitor has TLC check that its chains satisfy them.                   *)
(***************************************************************************)
EXTENDS Monitor

VotesIn(block) == GetVotesFromTxs(GetTxs(block))
RequestsIn(block) == Range(PollRequests(GetTxs(block)))

(* The pump carries lists of creations, whatever the blocks hold.          *)
AnyPolls == PollLists = Seq(PollData)

(* A poll stays open for more blocks than a request is retried over.       *)
Periods ==
  {ConfigParams[c] : c \in DOMAIN ConfigParams} \cup {NodeParams[c] : c \in Chains}
LongPolls == \A p \in Periods : p > MAX_FETCH_RETRIES

(* No two entries of the configuration have one name.                      *)
DistinctNames ==
  \A i, j \in DOMAIN Broadcasters : Broadcasters[i].name = Broadcasters[j].name => i = j

----------------------------------------------------------------------------
(* Votes.                                                                  *)

(* The chain takes a vote on a poll only if it names the poll's chain: the *)
(* one of each request the poll may be taken for.                          *)
SameChain(c, d) == c \in DOMAIN Lower /\ Lower[c] = Lower[d]
VotesNameTheChain ==
  \A h \in Histories : \A m, n \in FirstHeight..MaxHeight :
    \A r \in RequestsIn(h.blocks[m]), v \in Range(VotesIn(h.blocks[n])) :
      LET ids == TxToPollIds(h.results[m])
      IN  r.tx \in DOMAIN ids /\ ids[r.tx] = v.poll_id
            => SameChain(v.chain, r.chain)

(* The chain took the votes that are found in its blocks, each one once:   *)
(* no vote fails, and nobody votes twice in a block on one poll and tx.    *)
CastOf(v, n) == [poll |-> v.poll_id, sender |-> v.sender_id, chain |-> v.chain,
                 tx |-> v.tx_id, height |-> n]
VotesWereCast ==
  \A h \in Histories :
    /\ IsFiniteSet(h.casts) /\ \A c \in h.casts : c.height \in Nat
    /\ \A n \in FirstHeight..MaxHeight :
         LET votes == VotesIn(h.blocks[n])
         IN  \A i, j \in DOMAIN votes :
               /\ CastOf(votes[i], n) \in h.casts
               /\ CastOf(votes[i], n) = CastOf(votes[j], n) => i = j

(* Nobody votes twice on a poll, or for two of its events.                 *)
OneVoteEach ==
  \A h \in Histories : \A c, d \in h.casts :
    c.poll = d.poll /\ c.sender = d.sender => c = d

(* They are all there are: a vote the chain took is in its block.          *)
CastsAreFound ==
  \A h \in Histories : \A c \in h.casts :
    /\ c.height \in FirstHeight..MaxHeight
    /\ \E v \in Range(VotesIn(h.blocks[c.height])) : c = CastOf(v, c.height)

----------------------------------------------------------------------------
(* Polls.                                                                  *)

(* The chain opened the polls that are requested in a block and announced  *)
(* in its results, one for each id.                                        *)
PollOf(r, n, ids) == [poll |-> ids[r.tx], chain |-> r.chain, tx |-> r.tx, height |-> n]
PollsWereRequested ==
  \A h \in Histories :
    /\ \A p \in h.creations :
         \E n \in FirstHeight..MaxHeight : \E r \in RequestsIn(h.blocks[n]) :
           LET ids == TxToPollIds(h.results[n])
           IN  r.tx \in DOMAIN ids /\ p = PollOf(r, n, ids)
    /\ \A n \in FirstHeight..MaxHeight : \A r \in RequestsIn(h.blocks[n]) :
         LET ids == TxToPollIds(h.results[n])
         IN  r.tx \in DOMAIN ids => PollOf(r, n, ids) \in h.creations
    /\ \A p, q \in h.creations : p.poll = q.poll => p = q

----------------------------------------------------------------------------
(* The configuration and the node.                                         *)

(* No two broadcasters have one address.                                   *)
DistinctAddresses ==
  \A i, j \in DOMAIN Broadcasters :
    Broadcasters[i].address = Broadcasters[j].address => i = j

(* Chains that the node lists under two spellings have one period.         *)
SameParams == \A c, d \in Chains : Lower[c] = Lower[d] => NodeParams[c] = NodeParams[d]
=============================================================================
