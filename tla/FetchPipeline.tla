---------------------------- MODULE FetchPipeline ----------------------------
(***************************************************************************)
(* The message pump of axelar-monitor: the feeder thread, the IO thread    *)
(* and the processing thread (main), and the two unbounded FIFO channels   *)
(* (std::sync::mpsc) between them.                                         *)
(*                                                                         *)
(*   feeder --FetchHead--> cmdQ --> IO thread --> msgQ --> processing      *)
(*                          ^                                  |           *)
(*                          +------------- outbox <------------+           *)
(*                                                                         *)
(* Every IoCommand and every IoResult is here; what a block contains is    *)
(* not: the poll creations found in a block are an element of PollLists,   *)
(* chosen freely.  Monitor.tla ties them to the chain.                     *)
(***************************************************************************)
EXTENDS Integers, Sequences, FiniteSets

CONSTANTS
  MAX_FETCH_RETRIES,  \* retries after the first failed attempt (3 in the code)
  ChainList,          \* the chains the node lists, in order
  PollLists,          \* the lists of poll creations a block may carry
  FirstHeight,        \* the lowest height the node may answer as its head
  MaxHeight,          \* bound: the chain grows up to here
  Regress,            \* how far a head answer may fall behind an earlier one
  MaxFaults,          \* bound: HTTP requests that fail in one behaviour
  MaxBacklog          \* bound: head requests and answers waiting in the channels

ASSUME PipelineAssumption ==
  /\ MAX_FETCH_RETRIES \in Nat
  /\ DOMAIN ChainList = 1..Len(ChainList) /\ Len(ChainList) \in Nat
  /\ <<>> \in PollLists
  /\ FirstHeight \in Nat \ {0}
  /\ MaxHeight \in Nat /\ FirstHeight <= MaxHeight
  /\ Regress \in Nat /\ MaxFaults \in Nat /\ MaxBacklog \in Nat

VARIABLES
  cmdQ,                   \* mpsc channel: IoCommand, towards the IO thread
  msgQ,                   \* mpsc channel: IoResult, towards processing
  outbox,                 \* commands the last handler returned, not yet sent
  phase,                  \* processing thread: "receive" or "send"
  chain_tip,              \* ProcessingState.chain_tip
  last_processed_height,  \* ProcessingState.last_processed_height
  chain_height,           \* ProcessingState.chain_height
  fetch_error_count,      \* ProcessingState.fetch_error_count
  snapshot,               \* the MetricsSnapshot behind the mutex
  served,                 \* environment: highest head the node has answered
  faults                  \* environment: requests that have failed

procVars == <<chain_tip, last_processed_height, chain_height,
              fetch_error_count>>
envVars  == <<served, faults>>
vars     == <<cmdQ, msgQ, outbox, phase, procVars, snapshot, envVars>>

Heights == Nat \ {0}
Retries == 0..MAX_FETCH_RETRIES
Chains  == {ChainList[i] : i \in DOMAIN ChainList}

----------------------------------------------------------------------------
(* IoCommand and IoResult                                                  *)

FetchBlock(h, r) == [kind |-> "FetchBlock", height |-> h, retries |-> r]
FetchBlockResults(h, p, r) ==
  [kind |-> "FetchBlockResults", height |-> h, polls |-> p, retries |-> r]
FetchChainList == [kind |-> "FetchChainList"]
FetchChainParams(c) == [kind |-> "FetchChainParams", chain |-> c]
FetchHead == [kind |-> "FetchHead"]

IoCommand ==
  [kind : {"FetchBlock"}, height : Heights, retries : Retries]
    \cup [kind : {"FetchBlockResults"}, height : Heights,
          polls : PollLists, retries : Retries]
    \cup [kind : {"FetchChainParams"}, chain : Chains]
    \cup [kind : {"FetchChainList", "FetchHead"}]

Block(h) == [kind |-> "Block", height |-> h]
FetchError(h, r) == [kind |-> "FetchError", height |-> h, retries |-> r]
BlockResults(h, p) == [kind |-> "BlockResults", height |-> h, polls |-> p]
FetchBlockResultsError(h, p, r) ==
  [kind |-> "FetchBlockResultsError", height |-> h, polls |-> p, retries |-> r]
ChainListAnswer == [kind |-> "ChainList"]
FetchChainListError == [kind |-> "FetchChainListError"]
ChainParams(c) == [kind |-> "ChainParams", chain |-> c]
HeadAnswer(n) == [kind |-> "Head", height |-> n]

IoResult ==
  [kind : {"Block", "Head"}, height : Heights]
    \cup [kind : {"FetchError"}, height : Heights, retries : Retries]
    \cup [kind : {"BlockResults"}, height : Heights, polls : PollLists]
    \cup [kind : {"FetchBlockResultsError"}, height : Heights,
          polls : PollLists, retries : Retries]
    \cup [kind : {"ChainParams"}, chain : Chains]
    \cup [kind : {"ChainList", "FetchChainListError"}]

----------------------------------------------------------------------------
(* main: the chain list is requested before any thread exists, so it is    *)
(* ahead of every FetchHead.                                               *)

Metrics(ch, lp, fe) ==
  [chain_height |-> ch, last_processed_height |-> lp, fetch_error_count |-> fe]

Init ==
  /\ cmdQ = <<FetchChainList>>
  /\ msgQ = <<>>
  /\ outbox = <<>>
  /\ phase = "receive"
  /\ chain_tip = 0
  /\ last_processed_height = 0
  /\ chain_height = 0
  /\ fetch_error_count = 0
  /\ snapshot = Metrics(0, 0, 0)
  /\ served = FirstHeight
  /\ faults = 0

----------------------------------------------------------------------------
(* Feeder thread: one FetchHead at start, then one per poll interval.      *)

HeadsWaiting ==
  Cardinality({i \in DOMAIN cmdQ : cmdQ[i].kind = "FetchHead"})
    + Cardinality({i \in DOMAIN msgQ : msgQ[i].kind = "Head"})

FeederTick ==
  /\ HeadsWaiting < MaxBacklog
  /\ cmdQ' = Append(cmdQ, FetchHead)
  /\ UNCHANGED <<msgQ, outbox, phase, procVars, snapshot, envVars>>

----------------------------------------------------------------------------
(* IO thread: receive one command, do its HTTP request, send what it       *)
(* yields.  Receiving and sending are the IO thread's alone, so one step   *)
(* at the moment of the request stands for the three.                      *)

Executes(kind) ==
  /\ cmdQ # <<>>
  /\ Head(cmdQ).kind = kind
  /\ cmdQ' = Tail(cmdQ)
  /\ UNCHANGED <<outbox, phase, procVars, snapshot>>

Yields(result) == msgQ' = Append(msgQ, result)
RequestFails   == faults < MaxFaults /\ faults' = faults + 1

IoFetchBlock ==
  /\ Executes("FetchBlock")
  /\ UNCHANGED served
  /\ LET c == Head(cmdQ)
     IN  \/ Yields(Block(c.height)) /\ UNCHANGED faults
         \/ RequestFails /\ Yields(FetchError(c.height, c.retries))

IoFetchBlockResults ==
  /\ Executes("FetchBlockResults")
  /\ UNCHANGED served
  /\ LET c == Head(cmdQ)
     IN  \/ Yields(BlockResults(c.height, c.polls)) /\ UNCHANGED faults
         \/ /\ RequestFails
            /\ Yields(FetchBlockResultsError(c.height, c.polls, c.retries))

IoFetchChainList ==
  /\ Executes("FetchChainList")
  /\ UNCHANGED served
  /\ \/ Yields(ChainListAnswer) /\ UNCHANGED faults
     \/ RequestFails /\ Yields(FetchChainListError)

(* A failed FetchChainParams or FetchHead is logged and yields nothing.    *)
IoFetchChainParams ==
  /\ Executes("FetchChainParams")
  /\ UNCHANGED served
  /\ \/ Yields(ChainParams(Head(cmdQ).chain)) /\ UNCHANGED faults
     \/ RequestFails /\ UNCHANGED msgQ

HeadsServed == {n \in FirstHeight..MaxHeight : n >= served - Regress}

IoFetchHead ==
  /\ Executes("FetchHead")
  /\ \/ /\ \E n \in HeadsServed :
             /\ Yields(HeadAnswer(n))
             /\ served' = IF n > served THEN n ELSE served
        /\ UNCHANGED faults
     \/ RequestFails /\ UNCHANGED <<msgQ, served>>

IoStep ==
  \/ IoFetchBlock \/ IoFetchBlockResults
  \/ IoFetchChainList \/ IoFetchChainParams \/ IoFetchHead

----------------------------------------------------------------------------
(* Processing thread: process_single_message on the next result, then the  *)
(* returned commands one by one, then the metrics snapshot.                *)

Receives(kind) ==
  /\ phase = "receive"
  /\ msgQ # <<>>
  /\ Head(msgQ).kind = kind
  /\ msgQ' = Tail(msgQ)
  /\ phase' = "send"
  /\ UNCHANGED <<cmdQ, snapshot, envVars>>

MayRetry_OneMore(retries) == retries <= MAX_FETCH_RETRIES
MayRetry_OneLess(retries) == retries + 1 < MAX_FETCH_RETRIES
MayRetry(retries) == retries < MAX_FETCH_RETRIES

(* Behind the tip the next block is requested at once; at the tip nothing  *)
(* is, and the next head that moves the tip resumes.                       *)
NextFetch_BeyondTip(h) == IF chain_tip >= h THEN <<FetchBlock(h + 1, 0)>> ELSE <<>>
NextFetch_ShortOfTip(h) == IF chain_tip > h + 1 THEN <<FetchBlock(h + 1, 0)>> ELSE <<>>
NextFetch(h) == IF chain_tip > h THEN <<FetchBlock(h + 1, 0)>> ELSE <<>>

HandleFetchError ==
  /\ Receives("FetchError")
  /\ fetch_error_count' = fetch_error_count + 1
  /\ UNCHANGED <<chain_tip, chain_height>>
  /\ LET m == Head(msgQ)
     IN  \/ /\ MayRetry(m.retries)
            /\ outbox' = <<FetchBlock(m.height, m.retries + 1)>>
            /\ UNCHANGED last_processed_height
         \/ /\ ~MayRetry(m.retries)
            /\ last_processed_height' = m.height
            /\ outbox' = NextFetch(m.height)

HandleFetchBlockResultsError ==
  /\ Receives("FetchBlockResultsError")
  /\ fetch_error_count' = fetch_error_count + 1
  /\ UNCHANGED <<chain_tip, last_processed_height, chain_height>>
  /\ LET m == Head(msgQ)
     IN  \/ /\ MayRetry(m.retries)
            /\ outbox' = <<FetchBlockResults(m.height, m.polls, m.retries + 1)>>
         \/ /\ ~MayRetry(m.retries)
            /\ outbox' = <<>>

HandleFetchChainListError ==
  /\ Receives("FetchChainListError")
  /\ fetch_error_count' = fetch_error_count + 1
  /\ outbox' = <<FetchChainList>>
  /\ UNCHANGED <<chain_tip, last_processed_height, chain_height>>

HandleChainList ==
  /\ Receives("ChainList")
  /\ outbox' = [i \in DOMAIN ChainList |-> FetchChainParams(ChainList[i])]
  /\ UNCHANGED procVars

(* The parameters themselves are Monitor.tla's.                            *)
HandleChainParams ==
  /\ Receives("ChainParams")
  /\ outbox' = <<>>
  /\ UNCHANGED procVars

(* creations: the polls the block creates on chains whose parameters are   *)
(* loaded; their ids are only in the block results, which are requested    *)
(* ahead of the next block.                                                *)
ResultsFetch(h, creations) ==
  IF creations = <<>> THEN <<>> ELSE <<FetchBlockResults(h, creations, 0)>>
BlockResponses_NextFirst(h, creations) == NextFetch(h) \o ResultsFetch(h, creations)
BlockResponses(h, creations) == ResultsFetch(h, creations) \o NextFetch(h)

HandleBlock(creations) ==
  /\ Receives("Block")
  /\ LET h == Head(msgQ).height
     IN  /\ chain_height' = IF h > chain_height THEN h ELSE chain_height
         /\ last_processed_height' = h
         /\ outbox' = BlockResponses(h, creations)
  /\ UNCHANGED <<chain_tip, fetch_error_count>>

HandleBlockResults ==
  /\ Receives("BlockResults")
  /\ outbox' = <<>>
  /\ UNCHANGED procVars

(* last_processed_height = 0 is the mark of a monitor that has not started *)
Starting_UntilFirstBlock == chain_height = 0
Starting == last_processed_height = 0

CaughtUpBefore_AnyRise(n) == n > chain_tip
CaughtUpBefore_Below(n) == n > chain_tip /\ chain_tip < last_processed_height
CaughtUpBefore(n) == n > chain_tip /\ chain_tip = last_processed_height

HandleHead ==
  /\ Receives("Head")
  /\ UNCHANGED <<chain_height, fetch_error_count>>
  /\ LET n == Head(msgQ).height
     IN  /\ chain_tip' = n
         /\ \/ /\ Starting
               /\ last_processed_height' = n - 1
               /\ outbox' = <<FetchBlock(n, 0)>>
            \/ /\ ~Starting /\ CaughtUpBefore(n)
               /\ outbox' = <<FetchBlock(last_processed_height + 1, 0)>>
               /\ UNCHANGED last_processed_height
            \/ /\ ~Starting /\ ~CaughtUpBefore(n)
               /\ outbox' = <<>>
               /\ UNCHANGED last_processed_height

SendCommand ==
  /\ phase = "send" /\ outbox # <<>>
  /\ cmdQ' = Append(cmdQ, Head(outbox))
  /\ outbox' = Tail(outbox)
  /\ UNCHANGED <<msgQ, phase, procVars, snapshot, envVars>>

PublishMetrics ==
  /\ phase = "send" /\ outbox = <<>>
  /\ snapshot' = Metrics(chain_height, last_processed_height, fetch_error_count)
  /\ phase' = "receive"
  /\ UNCHANGED <<cmdQ, msgQ, outbox, procVars, envVars>>

ProcessingStep ==
  \/ HandleFetchError \/ HandleFetchBlockResultsError
  \/ HandleFetchChainListError \/ HandleChainList \/ HandleChainParams
  \/ \E creations \in PollLists : HandleBlock(creations)
  \/ HandleBlockResults \/ HandleHead
  \/ SendCommand \/ PublishMetrics

----------------------------------------------------------------------------
Next == FeederTick \/ IoStep \/ ProcessingStep

Spec == Init /\ [][Next]_vars

(* The IO thread and the processing thread loop forever on their channels. *)
(* Nothing is assumed of the feeder.                                       *)
FairSpec == Spec /\ WF_vars(IoStep) /\ WF_vars(ProcessingStep)

(* The same, and the feeder keeps asking for the head.                     *)
FedSpec == FairSpec /\ WF_vars(FeederTick)

----------------------------------------------------------------------------
TypeOK ==
  /\ cmdQ \in Seq(IoCommand)
  /\ msgQ \in Seq(IoResult)
  /\ outbox \in Seq(IoCommand)
  /\ phase \in {"receive", "send"}
  /\ chain_tip \in Nat
  /\ last_processed_height \in Nat
  /\ chain_height \in Nat
  /\ fetch_error_count \in Nat
  /\ snapshot \in [chain_height : Nat, last_processed_height : Nat,
                   fetch_error_count : Nat]
  /\ served \in Heights
  /\ faults \in 0..MaxFaults

(* A block request on its way: still to be sent, in a channel, or answered *)
(* and not yet handled.                                                    *)
IsJob(x) == x.kind \in {"FetchBlock", "Block", "FetchError"}
JobsIn(q) == {i \in DOMAIN q : IsJob(q[i])}
LoneJob(q, h) == \A i, j \in JobsIn(q) : i = j /\ q[i].height = h

(* At most one block request is outstanding anywhere in the pipeline, and  *)
(* it is for the block after the last one processed: no block is fetched   *)
(* twice, and the retry, chaining and head handlers never both continue.   *)
SingleFetch ==
  /\ \A q \in {msgQ, cmdQ, outbox} : LoneJob(q, last_processed_height + 1)
  /\ JobsIn(msgQ) # {} => JobsIn(cmdQ) = {} /\ JobsIn(outbox) = {}
  /\ JobsIn(cmdQ) # {} => JobsIn(outbox) = {}

(* Whenever a known block is unprocessed, a request for it is on its way:  *)
(* the loop of handlers that feed each other never loses its thread.       *)
NeverStranded ==
  chain_tip > last_processed_height
    => JobsIn(msgQ) # {} \/ JobsIn(cmdQ) # {} \/ JobsIn(outbox) # {}

(* The handler of a fetched block always sees the block after the last one *)
(* processed: blocks are processed in order, each at most once.            *)
BlockArrives(h) ==
  phase = "receive" /\ phase' = "send" /\ msgQ # <<>> /\ Head(msgQ) = Block(h)

InOrderOnce ==
  [][\A h \in 0..MaxHeight :
       BlockArrives(h) => last_processed_height = h - 1
                          /\ last_processed_height' = h]_vars

(* The result of a block_results request is handled at most                *)
(* MAX_FETCH_RETRIES blocks after its own block, however the retries and   *)
(* the block chain interleave: a poll that stays open longer than that is  *)
(* registered before it expires.                                           *)
ResultsInTime ==
  msgQ # <<>> /\ Head(msgQ).kind = "BlockResults"
    => last_processed_height <= Head(msgQ).height + MAX_FETCH_RETRIES

(* A block is skipped only after a first attempt and MAX_FETCH_RETRIES     *)
(* retries of its own: however failures spread over blocks, results and    *)
(* heads, skipping a run of blocks (which moves last_processed_height and  *)
(* leaves chain_height behind) takes that many failures for each of them.  *)
SkipsExhaustRetries ==
  chain_height # 0 =>
    (last_processed_height - chain_height) * (MAX_FETCH_RETRIES + 1) <= faults

(* Requests for block results do not pile up in the channels while the     *)
(* chain of block fetches goes on: without failures there is one at a      *)
(* time, each failure can add one, and there are never more than one block *)
(* can be retried over.                                                    *)
IsResultsJob(x) ==
  x.kind \in {"FetchBlockResults", "BlockResults", "FetchBlockResultsError"}
ResultsJobsIn(q) == {i \in DOMAIN q : IsResultsJob(q[i])}
ResultsBacklog ==
  LET pending == Cardinality(ResultsJobsIn(cmdQ)) + Cardinality(ResultsJobsIn(msgQ))
                   + Cardinality(ResultsJobsIn(outbox))
  IN  pending <= 1 + faults /\ pending <= 1 + MAX_FETCH_RETRIES

(* The published metrics are declared as Prometheus counters: no scrape    *)
(* ever sees one fall.                                                     *)
CountersNeverFall ==
  [][\A f \in DOMAIN snapshot : snapshot'[f] >= snapshot[f]]_snapshot

(* Every tip the monitor learns of is eventually processed and published,  *)
(* with no help from later heads, whatever fails on the way.               *)
LearnedTipPublished ==
  \A n \in FirstHeight..MaxHeight :
    chain_tip = n ~> snapshot.last_processed_height >= n

(* A monitor that is behind the tip it knows moves on, or learns that the  *)
(* tip is not there (the comment in test_block_chaining_stops_at_tip: at   *)
(* the tip no fetch is issued "until the next Head arrives").              *)
CatchesUp ==
  \A h \in FirstHeight..MaxHeight :
    last_processed_height = h /\ chain_tip > h
      ~> last_processed_height > h \/ chain_tip <= h

(* With a node whose head answers never fall, the pump implements the      *)
(* in-order stream of blocks, its progress included.                       *)
Stream == INSTANCE BlockStream
            WITH tip <- chain_tip, cursor <- last_processed_height

ImplementsBlockStream == Stream!FairSpec

=============================================================================
