------------------------------- MODULE Monitor -------------------------------
(***************************************************************************)
(* The whole monitor: the message pump of FetchPipeline with the data it   *)
(* carries.  Blocks and block results are those of one chain, fixed when   *)
(* the behaviour starts; the processing thread keeps the chain parameters, *)
(* the open polls with their votes, the ids of expired polls and the vote  *)
(* counters (the other half of ProcessingState).                           *)
(*                                                                         *)
(* A history holds the blocks and results the node serves, by height, and  *)
(* beside them what they mean: creations, the polls [poll, chain, tx,      *)
(* height] the chain opened, and casts, the votes [poll, sender, chain,    *)
(* tx, height] it accepted.  The handlers read the former only, the        *)
(* properties compare them with the latter.                                *)
(***************************************************************************)
EXTENDS FetchPipeline, BlockContents

CONSTANTS
  ConfigParams,  \* configured chains: lower-case name -> blocks a poll is open
  NodeParams,    \* the node's parameters: listed chain -> blocks a poll is open
  Histories      \* the chains to monitor: [blocks, results, creations, casts]

ASSUME MonitorAssumption ==
  /\ Chains \subseteq DOMAIN Lower
  /\ DOMAIN NodeParams = Chains /\ \A c \in Chains : NodeParams[c] \in Nat
  /\ DOMAIN ConfigParams \subseteq DOMAIN Lower /\ IsFiniteSet(DOMAIN ConfigParams)
  /\ \A c \in DOMAIN ConfigParams : Lower[c] = c /\ ConfigParams[c] \in Nat

(* polls::PollData, what PollLists has lists of.                           *)
PollData == [chain : DOMAIN Lower, tx : Nat, expiry_height : Nat]

(* The chain gives every poll an id of its own, announced in one block.    *)
PollIds(results) == {TxToPollIds(results)[t] : t \in DOMAIN TxToPollIds(results)}

ASSUME ChainAssumption ==
  \A h \in Histories :
    /\ DOMAIN h.blocks = FirstHeight..MaxHeight
    /\ DOMAIN h.results = FirstHeight..MaxHeight
    /\ \A n \in FirstHeight..MaxHeight : /\ WellFormedBlock(h.blocks[n])
                                        /\ PollIds(h.results[n]) \subseteq Nat
    /\ \A m, n \in FirstHeight..MaxHeight :
         m # n => PollIds(h.results[m]) \cap PollIds(h.results[n]) = {}

VARIABLES
  chain_params,      \* ProcessingState.chain_params
  polls,             \* ProcessingState.polls: poll id -> [data, votes]
  expired_poll_ids,  \* ProcessingState.expired_poll_ids
  vote_results,      \* ProcessingState.vote_results
  published_votes,   \* broadcaster_votes of the snapshot behind the mutex
  history,           \* environment: what the chain holds, constant
  first_block        \* history variable: the first block requested, 0 if none

pollVars    == <<chain_params, polls, expired_poll_ids, vote_results>>
dataVars    == <<pollVars, published_votes, history, first_block>>
monitorVars == <<vars, dataVars>>

----------------------------------------------------------------------------
(* ProcessingState::new: the configured chains and their counters at 0.    *)
RegisteredSeries(chains) == UNION {SeriesOf(c) : c \in chains}

MonitorInit ==
  /\ Init
  /\ chain_params = ConfigParams
  /\ polls = <<>>
  /\ expired_poll_ids = {}
  /\ vote_results = [k \in RegisteredSeries(DOMAIN ConfigParams) |-> 0]
  /\ published_votes = vote_results
  /\ history \in Histories
  /\ first_block = 0

----------------------------------------------------------------------------
(* IoResult::Block                                                         *)

(* Votes go to the open polls they name, in order; those on unknown or     *)
(* expired polls are only logged.                                          *)
WithVotes(open, votes) ==
  [id \in DOMAIN open |->
     [open[id] EXCEPT
        !.votes = @ \o FlatMap(LAMBDA v : IF v.poll_id = id THEN <<v>> ELSE <<>>,
                               votes)]]

Expiring_Exactly(open, h) == {id \in DOMAIN open : open[id].data.expiry_height = h}
Expiring_Late(open, h) == {id \in DOMAIN open : open[id].data.expiry_height < h}
Expiring(open, h) == {id \in DOMAIN open : open[id].data.expiry_height <= h}

Pruned_KeepLast(open, h) ==
  Restrict(open, {id \in DOMAIN open : open[id].data.expiry_height >= h})
Pruned(open, h) ==
  Restrict(open, {id \in DOMAIN open : open[id].data.expiry_height > h})

(* The expired polls are judged one after the other; the counts add up to  *)
(* the same whichever comes first.                                         *)
Judge(open, ids, results) ==
  Counted(results, UNION {AnalyzePollCompletion(id, open[id]) : id \in ids})

HandleBlockData ==
  /\ phase = "receive" /\ msgQ # <<>> /\ Head(msgQ).kind = "Block"
  /\ LET h    == Head(msgQ).height
         data == ProcessBlock(history.blocks[h], chain_params, h)
     IN  \E open \in {WithVotes(polls, data.votes)} :  \* evaluated once by TLC
           /\ HandleBlock(data.poll_creations)
           /\ vote_results' = Judge(open, Expiring(open, h), vote_results)
           /\ expired_poll_ids' = expired_poll_ids \cup Expiring(open, h)
           /\ polls' = Pruned(open, h)
  /\ UNCHANGED <<chain_params, published_votes, history, first_block>>

----------------------------------------------------------------------------
(* IoResult::BlockResults                                                  *)
HandleBlockResultsData ==
  /\ HandleBlockResults
  /\ LET m == Head(msgQ)
     IN  polls' = Opened(polls, m.polls, TxToPollIds(history.results[m.height]))
  /\ UNCHANGED <<chain_params, expired_poll_ids, vote_results,
                 published_votes, history, first_block>>

(* IoResult::ChainParams: the node's parameters replace the configured     *)
(* ones; the counters of the chain appear unless they are there.           *)
WithParams_KeepConfigured(params, c) ==
  IF Lower[c] \in DOMAIN params THEN params ELSE params @@ (Lower[c] :> NodeParams[c])
WithParams(params, c) ==
  [n \in DOMAIN params \cup {Lower[c]} |->
     IF n = Lower[c] THEN NodeParams[c] ELSE params[n]]

HandleChainParamsData ==
  /\ HandleChainParams
  /\ LET c == Head(msgQ).chain
     IN  /\ chain_params' = WithParams(chain_params, c)
         /\ vote_results' = Register(vote_results, c)
  /\ UNCHANGED <<polls, expired_poll_ids, published_votes, history, first_block>>

HandleHeadData ==
  /\ HandleHead
  /\ first_block' = IF Starting THEN Head(msgQ).height ELSE first_block
  /\ UNCHANGED <<pollVars, published_votes, history>>

PublishMetricsData ==
  /\ PublishMetrics
  /\ published_votes' = vote_results
  /\ UNCHANGED <<pollVars, history, first_block>>

(* The rest of the pump touches none of the data.                          *)
OtherStep ==
  /\ \/ HandleFetchError \/ HandleFetchBlockResultsError
     \/ HandleFetchChainListError \/ HandleChainList
     \/ SendCommand
  /\ UNCHANGED dataVars

MonitorIoStep == IoStep /\ UNCHANGED dataVars
MonitorFeederTick == FeederTick /\ UNCHANGED dataVars

MonitorProcessingStep ==
  \/ HandleBlockData \/ HandleBlockResultsData \/ HandleChainParamsData
  \/ HandleHeadData \/ PublishMetricsData \/ OtherStep

MonitorNext == MonitorFeederTick \/ MonitorIoStep \/ MonitorProcessingStep

MonitorSpec == MonitorInit /\ [][MonitorNext]_monitorVars

MonitorFairSpec ==
  MonitorSpec /\ WF_monitorVars(MonitorIoStep)
              /\ WF_monitorVars(MonitorProcessingStep)

----------------------------------------------------------------------------
(* What the chain says of its polls.                                       *)

KnownChains == DOMAIN ConfigParams \cup {Lower[c] : c \in Chains}
OpenFor(chain) ==
  IF \E c \in Chains : Lower[c] = Lower[chain]
  THEN NodeParams[CHOOSE c \in Chains : Lower[c] = Lower[chain]]
  ELSE ConfigParams[Lower[chain]]
Deadline(p) == p.height + OpenFor(p.chain)

CastsIn(p) == {c \in history.casts : /\ c.poll = p.poll
                                     /\ p.height < c.height
                                     /\ c.height <= Deadline(p)}
CastsBy(p, b) == {c \in CastsIn(p) : c.sender = b.address}

(* The polls that opened since the monitor started and are past deadline.  *)
Due == {p \in history.creations : /\ Lower[p.chain] \in KnownChains
                                  /\ first_block # 0 /\ first_block <= p.height
                                  /\ Deadline(p) <= chain_height}

Favoured(p) ==
  LET for(t) == Cardinality({c \in CastsIn(p) : c.tx = t})
  IN  Max({c.tx : c \in {d \in CastsIn(p) :
                           \A e \in CastsIn(p) : for(d.tx) >= for(e.tx)}})

TrueCount(b, chain, result) ==
  LET due == {p \in Due : Lower[p.chain] = chain}
      ofB == UNION {CastsBy(p, b) : p \in due}
      favoured == {c \in ofB : \E p \in due : c \in CastsIn(p) /\ c.tx = Favoured(p)}
  IN  CASE result = "missed"    -> Cardinality({p \in due : CastsBy(p, b) = {}})
        [] result = "agreed"    -> Cardinality(favoured)
        [] result = "disagreed" -> Cardinality(ofB \ favoured)

----------------------------------------------------------------------------
MonitorTypeOK ==
  /\ TypeOK
  /\ \A c \in DOMAIN chain_params : Lower[c] = c /\ chain_params[c] \in Nat
  /\ \A id \in DOMAIN polls :
       polls[id].data.expiry_height \in Heights /\ Len(polls[id].votes) \in Nat
  /\ expired_poll_ids \subseteq Nat
  /\ \A k \in DOMAIN vote_results : vote_results[k] \in Nat
  /\ DOMAIN published_votes \subseteq DOMAIN vote_results

(* While every request succeeds the counters are exactly what the chain    *)
(* says of the polls opened since the start: parameters are loaded before  *)
(* the first block, a poll is registered before the first vote on it can   *)
(* arrive, votes are counted up to and including the deadline block, and   *)
(* the verdict falls at that block.                                        *)
TallyMatchesChain ==
  faults = 0 =>
    \A k \in DOMAIN vote_results, i \in DOMAIN Broadcasters :
      Broadcasters[i].name = k.broadcaster
        => vote_results[k] = TrueCount(Broadcasters[i], k.chain, k.result)

(* Whatever fails, each judged poll gives each broadcaster one outcome     *)
(* (nobody votes twice in these histories): no poll is judged twice, or    *)
(* dropped after it was registered.                                        *)
OutcomesOf(name) ==
  SumFunctionOnSet(vote_results, {k \in DOMAIN vote_results : k.broadcaster = name})
OneOutcomePerPoll ==
  \A n \in Names : OutcomesOf(n) = Cardinality(expired_poll_ids)

(* No open poll is past its deadline once the deadline's block, or a later *)
(* one, has been processed: results retried to the last arrive in time,    *)
(* skipped blocks only delay the verdict to the next block.                *)
DeadlineKept ==
  \A id \in DOMAIN polls : polls[id].data.expiry_height > chain_height

(* The data of the monitor is a book of polls: whatever is retried, late   *)
(* or skipped, a poll is opened once, before its deadline, keeps the votes *)
(* it has collected, is judged once, at the first processed block that     *)
(* reaches its deadline, and is never opened again.                        *)
Book == INSTANCE PollBook
          WITH open <- [id \in DOMAIN polls |->
                          [deadline |-> polls[id].data.expiry_height,
                           votes |-> polls[id].votes]],
               judged <- expired_poll_ids,
               height <- chain_height

ImplementsPollBook == Book!Spec

(* An open poll holds only votes the chain accepted for it in processed    *)
(* blocks, each at most once, however often requests were retried.         *)
NoInventedVotes ==
  \A id \in DOMAIN polls : \A i \in DOMAIN polls[id].votes :
    LET v == polls[id].votes[i]
        like == {j \in DOMAIN polls[id].votes :
                   /\ polls[id].votes[j].sender_id = v.sender_id
                   /\ polls[id].votes[j].tx_id = v.tx_id}
    IN  Cardinality(like)
          <= Cardinality({c \in history.casts :
                            /\ c.poll = id /\ c.sender = v.sender_id
                            /\ c.tx = v.tx_id /\ c.height <= chain_height})

(* The counters that exist are those of the configured broadcasters on the *)
(* chains whose parameters are loaded: every outcome lands in a series     *)
(* that was exposed at 0 before, whatever spelling the config, the node,   *)
(* the request and the vote use for the chain.                             *)
SeriesRegistered ==
  DOMAIN vote_results = RegisteredSeries(DOMAIN chain_params)

(* Published vote counters are Prometheus counters: none falls or goes     *)
(* away, chain parameters that load late included.                         *)
VoteCountersNeverFall ==
  [][/\ DOMAIN published_votes \subseteq DOMAIN published_votes'
     /\ \A k \in DOMAIN published_votes :
          published_votes'[k] >= published_votes[k]]_published_votes

(* A registered poll is judged once the monitor knows of enough blocks     *)
(* past its deadline, whatever fails on the way: here the faults can skip  *)
(* one block.                                                              *)
PollsSettle ==
  \A p \in UNION {h.creations : h \in Histories} :
    p.poll \in DOMAIN polls /\ chain_tip > Deadline(p) ~> p.poll \in expired_poll_ids

(* The warning "vote on unknown poll_id ... (never seen - startup noise?)":*)
(* a vote is on a poll neither open nor expired only if the poll was       *)
(* opened before the first block the monitor requested.                    *)
UnknownOnlyAtStartup ==
  [][\A p \in history.creations, c \in history.casts :
       BlockArrives(c.height) /\ c.poll = p.poll
         /\ c.poll \notin DOMAIN polls \cup expired_poll_ids
           => p.height < first_block]_monitorVars
=============================================================================
