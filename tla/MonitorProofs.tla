----------------------------- MODULE MonitorProofs -----------------------------
(***************************************************************************)
(* Proofs about the whole monitor, for every chain, configuration and      *)
(* node: it is the message pump with data, its vote counters never fall,   *)
(* no poll stays open past its deadline, and its data is a book of polls,  *)
(* with no votes but those the chain took, one outcome of each poll for    *)
(* each broadcaster and, while nothing fails, the chain's own tally.       *)
(***************************************************************************)
EXTENDS ChainRecord, ContentsProofs, PipelineLagProofs

----------------------------------------------------------------------------
(* What is on its way.                                                     *)

InFlight == Range(cmdQ) \cup Range(msgQ) \cup Range(outbox)
HasHeight(x) == IsJob(x) \/ IsResultsJob(x) \/ x.kind = "Head"

(* One is a later stage of the other, or the same.                         *)
Continues(x, y) ==
  \/ IsJob(x) /\ IsJob(y) /\ x.height = y.height
  \/ IsResultsJob(x) /\ IsResultsJob(y) /\ x.height = y.height /\ x.polls = y.polls

(* The members of a queue after one is appended, and after one is taken.   *)
LEMMA QueueMembers ==
  ASSUME NEW S, NEW q \in Seq(S)
  PROVE  /\ \A x \in S : Range(Append(q, x)) = Range(q) \cup {x}
         /\ q # <<>> => Range(Tail(q)) \subseteq Range(q) /\ Head(q) \in Range(q)
         /\ Range(q) \subseteq S
<1>1. ASSUME NEW x \in S PROVE Range(Append(q, x)) = Range(q) \cup {x}
  <2> DEFINE t == Append(q, x)
  <2>1. /\ DOMAIN t = DOMAIN q \cup {Len(q) + 1} /\ t[Len(q) + 1] = x
        /\ \A i \in DOMAIN q : t[i] = q[i]
    BY AppendFacts
  <2> HIDE DEF t
  <2>2. \A y : y \in Range(t) <=> y \in Range(q) \cup {x}
    BY <2>1 DEF Range
  <2>3. QED
    BY <2>2 DEF t
<1>2. ASSUME q # <<>>
      PROVE  Range(Tail(q)) \subseteq Range(q) /\ Head(q) \in Range(q)
  <2> DEFINE t == Tail(q)
  <2>1. /\ Head(q) = q[1] /\ 1 \in DOMAIN q
        /\ \A i \in DOMAIN t : i + 1 \in DOMAIN q /\ t[i] = q[i + 1]
    BY <1>2, TailFacts
  <2> HIDE DEF t
  <2>2. \A y \in Range(t) : y \in Range(q)
    BY <2>1 DEF Range
  <2>3. Head(q) \in Range(q)
    BY <2>1 DEF Range
  <2>4. QED
    BY <2>2, <2>3 DEF t
<1>3. Range(q) \subseteq S
  BY DEF Range
<1>4. QED
  BY <1>1, <1>2, <1>3

(* The members of the short queues.                                        *)
LEMMA ShortMembers ==
  ASSUME NEW x, NEW y
  PROVE  Range(<<>>) = {} /\ Range(<<x>>) = {x} /\ Range(<<x, y>>) = {x, y}
  BY DEF Range

----------------------------------------------------------------------------
(* Where what is on its way comes from.                                    *)

(* The requests of PipelineLagProofs are those on their way.               *)
LEMMA PendingInFlight ==
  \A x : x \in Pending <=> x \in InFlight /\ IsResultsJob(x)
<1>1. ASSUME NEW q, NEW x
      PROVE  x \in Requested(q) <=> x \in Range(q) /\ IsResultsJob(x)
  <2>1. x \in Range(q) <=> \E i \in DOMAIN q : x = q[i]
    BY Zenon DEF Range
  <2>2. x \in Requested(q) <=> \E i \in ResultsJobsIn(q) : x = q[i]
    BY RequestedMembers
  <2>3. QED
    BY <2>1, <2>2 DEF ResultsJobsIn
<1>2. QED
  BY <1>1 DEF Pending, InFlight

(* The same after a step.                                                  *)
LEMMA PendingInFlightNext ==
  \A x : x \in Pending' <=> x \in InFlight' /\ IsResultsJob(x)
<1>1. (\A x : x \in Pending <=> x \in InFlight /\ IsResultsJob(x))'
  BY PendingInFlight, PTL
<1>2. QED
  BY <1>1

(* A request that was on its way before the step, in this stage or the one *)
(* before; the request for a block that is now known.                      *)
FromBefore(x) == \E y \in InFlight : x = y \/ Continues(x, y)
ForNextBlock(x) ==
  /\ x.kind = "FetchBlock" /\ x.height <= chain_tip'
  /\ \/ x.height = chain_tip' /\ \E y \in InFlight : y.kind = "Head" /\ y.height = x.height
     \/ \E y \in InFlight : IsJob(y) /\ x.height = y.height + 1
     \/ x.height = last_processed_height + 1 /\ ~Starting

(* The IO thread: an answer continues its request, or is a head.           *)
LEMMA IoMoves ==
  ASSUME TypeOK, IoStep, NEW x \in InFlight', HasHeight(x)
  PROVE  FromBefore(x) \/ (x.kind = "Head" /\ x.height \in FirstHeight..MaxHeight)
<1> DEFINE c == Head(cmdQ)
<1>1. /\ cmdQ # <<>> /\ cmdQ \in Seq(IoCommand) /\ msgQ \in Seq(IoResult)
      /\ cmdQ' = Tail(cmdQ) /\ outbox' = outbox /\ c \in IoCommand
  BY IoStepJobs, IoStepResults DEF TypeOK
<1>2. Range(cmdQ') \subseteq InFlight /\ Range(outbox') \subseteq InFlight /\ c \in InFlight
  BY <1>1, QueueMembers DEF InFlight
<1>3. SUFFICES ASSUME x \in Range(msgQ'), x \notin Range(msgQ)
               PROVE  \/ Continues(x, c)
                      \/ x.kind = "Head" /\ x.height \in FirstHeight..MaxHeight
  BY <1>2 DEF InFlight, FromBefore
<1>4. ASSUME NEW z \in IoResult, msgQ' = Append(msgQ, z)
      PROVE  x = z
  <2>1. Range(Append(msgQ, z)) = Range(msgQ) \cup {z}
    BY <1>1, QueueMembers
  <2>2. QED
    BY <1>3, <1>4, <2>1
<1>5. CASE IoFetchBlock
  <2>1. c.kind = "FetchBlock" /\ c.height \in Heights /\ c.retries \in Retries
    BY <1>1, <1>5, CommandFields DEF IoFetchBlock, Executes
  <2>2. x \in {Block(c.height), FetchError(c.height, c.retries)}
    BY <1>4, <1>5, <2>1, ResultTypes DEF IoFetchBlock, Yields
  <2>3. QED
    BY <2>1, <2>2 DEF Continues, IsJob, Block, FetchError
<1>6. CASE IoFetchBlockResults
  <2>1. /\ c.kind = "FetchBlockResults" /\ c.height \in Heights
        /\ c.retries \in Retries /\ c.polls \in PollLists
    BY <1>1, <1>6, CommandFields DEF IoFetchBlockResults, Executes
  <2>2. x \in {BlockResults(c.height, c.polls),
               FetchBlockResultsError(c.height, c.polls, c.retries)}
    BY <1>4, <1>6, <2>1, ResultTypes DEF IoFetchBlockResults, Yields
  <2>3. QED
    BY <2>1, <2>2
       DEF Continues, IsResultsJob, BlockResults, FetchBlockResultsError
<1>7. CASE IoFetchChainList
  <2>1. x \in {ChainListAnswer, FetchChainListError}
    BY <1>4, <1>7, ResultTypes DEF IoFetchChainList, Yields
  <2>2. QED
    BY <2>1 DEF HasHeight, IsJob, IsResultsJob, ChainListAnswer, FetchChainListError
<1>8. CASE IoFetchChainParams
  <2>1. c.chain \in Chains
    BY <1>1, <1>8, CommandFields DEF IoFetchChainParams, Executes
  <2>2. x = ChainParams(c.chain)
    BY <1>3, <1>4, <1>8, <2>1, ResultTypes DEF IoFetchChainParams, Yields
  <2>3. QED
    BY <2>2 DEF HasHeight, IsJob, IsResultsJob, ChainParams
<1>9. CASE IoFetchHead
  <2>1. \A n \in HeadsServed : n \in FirstHeight..MaxHeight /\ n \in Heights
    BY PipelineAssumption DEF HeadsServed, Heights
  <2>2. msgQ' = msgQ \/ \E n \in HeadsServed : msgQ' = Append(msgQ, HeadAnswer(n))
    BY <1>9 DEF IoFetchHead, Yields
  <2>3. \A n \in HeadsServed : HeadAnswer(n) \in IoResult
    BY <2>1, ResultTypes
  <2>4. \E n \in HeadsServed : x = HeadAnswer(n)
    BY <1>3, <1>4, <2>2, <2>3
  <2>5. QED
    BY <2>1, <2>4 DEF HeadAnswer
<1>10. QED
  BY <1>5, <1>6, <1>7, <1>8, <1>9 DEF IoStep

(* A handler takes what it handles and adds what it returns.               *)
LEMMA HandlerMoves ==
  ASSUME TypeOK, NEW kind, Receives(kind)
  PROVE  /\ InFlight' \subseteq InFlight \cup Range(outbox')
         /\ Head(msgQ) \in InFlight /\ Head(msgQ).kind = kind
         /\ Head(msgQ) \in IoResult
<1>1. /\ msgQ # <<>> /\ msgQ \in Seq(IoResult) /\ msgQ' = Tail(msgQ)
      /\ cmdQ' = cmdQ /\ Head(msgQ).kind = kind /\ Head(msgQ) \in IoResult
  BY ReceivedTypes DEF TypeOK
<1>2. Range(Tail(msgQ)) \subseteq Range(msgQ) /\ Head(msgQ) \in Range(msgQ)
  BY <1>1, QueueMembers
<1>3. QED
  BY <1>1, <1>2 DEF InFlight

(* The steps other than a block's handler.                                 *)
NoBlockStep ==
  \/ FeederTick \/ IoStep
  \/ HandleFetchError \/ HandleFetchBlockResultsError
  \/ HandleFetchChainListError \/ HandleChainList \/ HandleChainParams
  \/ HandleBlockResults \/ HandleHead
  \/ SendCommand \/ PublishMetrics

(* They go on with a request, or ask for the next block.                   *)
LEMMA OtherMoves ==
  ASSUME TypeOK, NoBlockStep \/ UNCHANGED vars, NEW x \in InFlight', HasHeight(x)
  PROVE  \/ FromBefore(x) \/ ForNextBlock(x)
         \/ x.kind = "Head" /\ x.height \in FirstHeight..MaxHeight
<1> DEFINE m == Head(msgQ)
<1>0. cmdQ \in Seq(IoCommand) /\ outbox \in Seq(IoCommand)
      /\ chain_tip \in Nat /\ last_processed_height \in Nat
  BY DEF TypeOK
<1>1. Range(<<>>) = {} /\ \A y : Range(<<y>>) = {y}
  BY ShortMembers
<1>2. SUFFICES ASSUME x \notin InFlight, ~IoStep
               PROVE  FromBefore(x) \/ ForNextBlock(x)
  BY IoMoves DEF FromBefore
<1>3. CASE UNCHANGED vars \/ PublishMetrics
  BY <1>2, <1>3 DEF vars, PublishMetrics, InFlight
<1>4. CASE FeederTick
  <2>1. Range(Append(cmdQ, FetchHead)) = Range(cmdQ) \cup {FetchHead}
    BY <1>0, QueueMembers, CommandTypes
  <2>2. x = FetchHead
    BY <1>2, <1>4, <2>1 DEF FeederTick, InFlight
  <2>3. QED
    BY <2>2 DEF HasHeight, IsJob, IsResultsJob, FetchHead
<1>5. CASE SendCommand
  <2>1. outbox # <<>> /\ Head(outbox) \in IoCommand
    BY <1>0, <1>5, TailFacts DEF SendCommand
  <2>2. /\ Range(Append(cmdQ, Head(outbox))) = Range(cmdQ) \cup {Head(outbox)}
        /\ Range(Tail(outbox)) \subseteq Range(outbox)
        /\ Head(outbox) \in Range(outbox)
    BY <1>0, <2>1, QueueMembers
  <2>3. QED
    BY <1>2, <1>5, <2>2 DEF SendCommand, InFlight
<1>6. CASE HandleFetchError
  <2>1. /\ InFlight' \subseteq InFlight \cup Range(outbox') /\ m \in InFlight
        /\ m.kind = "FetchError"
    BY <1>6, HandlerMoves DEF HandleFetchError
  <2>2. x \in Range(outbox')
    BY <1>2, <2>1
  <2>3. CASE outbox' = <<FetchBlock(m.height, m.retries + 1)>>
    <3>1. x = FetchBlock(m.height, m.retries + 1)
      BY <1>1, <2>2, <2>3
    <3>2. Continues(x, m)
      BY <2>1, <3>1 DEF Continues, IsJob, FetchBlock
    <3>3. QED
      BY <2>1, <3>2 DEF FromBefore
  <2>4. CASE outbox' = NextFetch(m.height)
    <3>1. x = FetchBlock(m.height + 1, 0) /\ chain_tip > m.height
      BY <1>1, <2>2, <2>4 DEF NextFetch
    <3>2. m.height \in Nat /\ chain_tip' = chain_tip
      BY <1>6, HandlerMoves, ResultFields DEF HandleFetchError, Heights
    <3>3. /\ x.kind = "FetchBlock" /\ x.height = m.height + 1 /\ x.height <= chain_tip'
          /\ IsJob(m)
      BY <1>0, <2>1, <3>1, <3>2 DEF FetchBlock, IsJob
    <3>4. QED
      BY <2>1, <3>3 DEF ForNextBlock
  <2>5. QED
    BY <1>6, <2>3, <2>4 DEF HandleFetchError
<1>7. CASE HandleFetchBlockResultsError
  <2>1. /\ InFlight' \subseteq InFlight \cup Range(outbox') /\ m \in InFlight
        /\ m.kind = "FetchBlockResultsError"
    BY <1>7, HandlerMoves DEF HandleFetchBlockResultsError
  <2>2. x \in Range(outbox')
    BY <1>2, <2>1
  <2>3. x = FetchBlockResults(m.height, m.polls, m.retries + 1)
    BY <1>1, <1>7, <2>2 DEF HandleFetchBlockResultsError
  <2>4. Continues(x, m)
    BY <2>1, <2>3 DEF Continues, IsResultsJob, FetchBlockResults
  <2>5. QED
    BY <2>1, <2>4 DEF FromBefore
<1>8. CASE HandleFetchChainListError \/ HandleChainParams \/ HandleBlockResults
  <2>1. PICK kind \in {"FetchChainListError", "ChainParams", "BlockResults"} : Receives(kind)
    BY <1>8 DEF HandleFetchChainListError, HandleChainParams, HandleBlockResults
  <2>2. x \in Range(outbox')
    BY <1>2, <2>1, HandlerMoves
  <2>3. x = FetchChainList
    BY <1>1, <1>8, <2>2
       DEF HandleFetchChainListError, HandleChainParams, HandleBlockResults
  <2>4. QED
    BY <2>3 DEF HasHeight, IsJob, IsResultsJob, FetchChainList
<1>9. CASE HandleChainList
  <2>1. x \in Range(outbox')
    BY <1>2, <1>9, HandlerMoves DEF HandleChainList
  <2>2. \E i \in DOMAIN ChainList : x = FetchChainParams(ChainList[i])
    BY <1>9, <2>1 DEF HandleChainList, Range
  <2>3. QED
    BY <2>2 DEF HasHeight, IsJob, IsResultsJob, FetchChainParams
<1>10. CASE HandleHead
  <2>1. /\ InFlight' \subseteq InFlight \cup Range(outbox') /\ m \in InFlight
        /\ m.kind = "Head" /\ m.height \in Nat /\ chain_tip' = m.height
    BY <1>10, HandlerMoves, ResultFields DEF HandleHead, Heights
  <2>2. x \in Range(outbox')
    BY <1>2, <2>1
  <2>3. CASE outbox' = <<FetchBlock(m.height, 0)>>
    <3>1. x = FetchBlock(m.height, 0)
      BY <1>1, <2>2, <2>3
    <3>2. QED
      BY <2>1, <3>1 DEF ForNextBlock, FetchBlock
  <2>4. CASE ~Starting /\ CaughtUpBefore(m.height)
             /\ outbox' = <<FetchBlock(last_processed_height + 1, 0)>>
    <3>1. x = FetchBlock(last_processed_height + 1, 0)
      BY <1>1, <2>2, <2>4
    <3>2. last_processed_height + 1 <= m.height
      BY <1>0, <2>1, <2>4 DEF CaughtUpBefore
    <3>3. QED
      BY <2>1, <2>4, <3>1, <3>2 DEF ForNextBlock, FetchBlock
  <2>5. CASE outbox' = <<>>
    BY <1>1, <2>2, <2>5
  <2>6. QED
    BY <1>10, <2>3, <2>4, <2>5 DEF HandleHead
<1>11. QED
  BY <1>2, <1>3, <1>4, <1>5, <1>6, <1>7, <1>8, <1>9, <1>10 DEF NoBlockStep

(* The handler of a block asks for its results, if it creates polls.       *)
LEMMA BlockMoves ==
  ASSUME TypeOK, NEW creations, HandleBlock(creations),
         NEW x \in InFlight', HasHeight(x)
  PROVE  \/ FromBefore(x) \/ ForNextBlock(x)
         \/ x = FetchBlockResults(Head(msgQ).height, creations, 0)
<1> DEFINE m == Head(msgQ)
           results == FetchBlockResults(m.height, creations, 0)
           block == FetchBlock(m.height + 1, 0)
<1>1. /\ InFlight' \subseteq InFlight \cup Range(outbox') /\ m \in InFlight
      /\ m.kind = "Block" /\ m.height \in Nat
  BY HandlerMoves, ResultFields DEF HandleBlock, Heights
<1>2. SUFFICES ASSUME x \in Range(outbox')
               PROVE  x = results \/ ForNextBlock(x)
  BY <1>1 DEF FromBefore
<1>0. /\ Range(<<>>) = {} /\ Range(<<results>>) = {results}
      /\ Range(<<block>>) = {block} /\ Range(<<results, block>>) = {results, block}
  BY ShortMembers
<1>3. /\ outbox' = BlockResponses(m.height, creations)
      /\ chain_tip' = chain_tip /\ chain_tip \in Nat
  BY DEF HandleBlock, TypeOK
<1>4. CASE chain_tip > m.height
  <2>1. outbox' \in {<<>>, <<results>>, <<block>>, <<results, block>>}
    BY <1>3, ResponseForms
  <2> HIDE DEF results, block
  <2>2. x = results \/ x = block
    BY <1>0, <1>2, <2>1
  <2>3. block.kind = "FetchBlock" /\ block.height = m.height + 1 /\ IsJob(m)
    BY <1>1 DEF block, FetchBlock, IsJob
  <2>4. m.height + 1 <= chain_tip'
    BY <1>1, <1>3, <1>4
  <2>5. QED
    BY <1>1, <2>2, <2>3, <2>4 DEF ForNextBlock
<1>5. CASE ~(chain_tip > m.height)
  <2>1. outbox' = ResultsFetch(m.height, creations) \o <<>>
    BY <1>3, <1>5 DEF BlockResponses, NextFetch
  <2>2. ResultsFetch(m.height, creations) \in {<<>>, <<results>>}
    BY DEF ResultsFetch
  <2>3. <<results>> \in Seq({results}) /\ <<>> \in Seq({results})
    OBVIOUS
  <2> HIDE DEF results
  <2>4. <<>> \o <<>> = <<>> /\ <<results>> \o <<>> = <<results>>
    BY <2>3, ConcatEmptySeq
  <2>5. QED
    BY <1>0, <1>2, <2>1, <2>2, <2>4
<1>6. QED
  BY <1>4, <1>5

----------------------------------------------------------------------------
(* Every height in the pipeline is one of the chain.                       *)

HeightsInv ==
  /\ chain_tip <= MaxHeight
  /\ Starting \/ last_processed_height >= FirstHeight - 1
  /\ \A x \in InFlight : HasHeight(x) => x.height \in FirstHeight..MaxHeight

PumpStep ==
  NoBlockStep \/ (\E creations : HandleBlock(creations)) \/ UNCHANGED vars

(* The tip is the height of a head, and last_processed_height that of a    *)
(* block or the one below a head.                                          *)
LEMMA TipAndCursor ==
  ASSUME TypeOK, PumpStep
  PROVE  /\ \/ chain_tip' = chain_tip
            \/ \E y \in InFlight : y.kind = "Head" /\ chain_tip' = y.height
         /\ \/ last_processed_height' = last_processed_height
            \/ \E y \in InFlight : IsJob(y) /\ last_processed_height' = y.height
            \/ /\ Starting
               /\ \E y \in InFlight : y.kind = "Head" /\ last_processed_height' = y.height - 1
<1> DEFINE m == Head(msgQ)
<1>1. CASE HandleHead
  <2>1. m \in InFlight /\ m.kind = "Head"
    BY <1>1, HandlerMoves DEF HandleHead
  <2>2. QED
    BY <1>1, <2>1 DEF HandleHead
<1>2. CASE HandleFetchError
  <2>1. m \in InFlight /\ m.kind = "FetchError"
    BY <1>2, HandlerMoves DEF HandleFetchError
  <2>2. QED
    BY <1>2, <2>1 DEF HandleFetchError, IsJob
<1>3. ASSUME NEW creations, HandleBlock(creations)
      PROVE  /\ chain_tip' = chain_tip
             /\ m \in InFlight /\ IsJob(m) /\ last_processed_height' = m.height
  <2>1. m \in InFlight /\ m.kind = "Block"
    BY <1>3, HandlerMoves DEF HandleBlock
  <2>2. QED
    BY <1>3, <2>1 DEF HandleBlock, IsJob
<1>4. CASE IoStep
  BY <1>4, IoStepJobs DEF procVars
<1>5. CASE \/ FeederTick \/ HandleFetchBlockResultsError
           \/ HandleFetchChainListError \/ HandleChainList \/ HandleChainParams
           \/ HandleBlockResults \/ SendCommand \/ PublishMetrics
           \/ UNCHANGED vars
  BY <1>5 DEF FeederTick, HandleFetchBlockResultsError,
       HandleFetchChainListError, HandleChainList, HandleChainParams,
       HandleBlockResults, SendCommand, PublishMetrics, vars, procVars
<1>6. QED
  BY <1>1, <1>2, <1>3, <1>4, <1>5 DEF PumpStep, NoBlockStep

(* Every step of the pump keeps heights within the chain.                  *)
LEMMA StepKeepsHeights ==
  ASSUME TypeOK, HeightsInv, PumpStep
  PROVE  HeightsInv'
<1>1. /\ chain_tip \in Nat /\ last_processed_height \in Nat
      /\ FirstHeight \in Nat /\ MaxHeight \in Nat /\ FirstHeight > 0
  BY PipelineAssumption DEF TypeOK
<1>2. ASSUME NEW y \in InFlight, IsJob(y) \/ IsResultsJob(y) \/ y.kind = "Head"
      PROVE  /\ y.height \in Nat /\ FirstHeight <= y.height /\ y.height <= MaxHeight
             /\ y.height \in FirstHeight..MaxHeight
  <2>1. y.height \in FirstHeight..MaxHeight
    BY <1>2 DEF HeightsInv, HasHeight
  <2>2. QED
    BY <1>1, <2>1
<1>3. chain_tip' \in Nat /\ chain_tip' <= MaxHeight
  BY <1>1, <1>2, TipAndCursor DEF HeightsInv
<1>4. (Starting \/ last_processed_height >= FirstHeight - 1)'
  BY <1>1, <1>2, TipAndCursor DEF HeightsInv, Starting
<1>5. ASSUME NEW x, ForNextBlock(x)
      PROVE  x.height \in FirstHeight..MaxHeight
  BY <1>1, <1>2, <1>3, <1>5 DEF ForNextBlock, HeightsInv
<1>6. ASSUME NEW x, FromBefore(x), HasHeight(x)
      PROVE  x.height \in FirstHeight..MaxHeight
  BY <1>2, <1>6 DEF FromBefore, Continues, HasHeight, HeightsInv
<1>7. ASSUME NEW x \in InFlight', HasHeight(x)
      PROVE  x.height \in FirstHeight..MaxHeight
  <2>1. CASE NoBlockStep \/ UNCHANGED vars
    BY <1>5, <1>6, <1>7, <2>1, OtherMoves
  <2>2. ASSUME NEW creations, HandleBlock(creations)
        PROVE  x.height \in FirstHeight..MaxHeight
    <3>1. \/ FromBefore(x) \/ ForNextBlock(x)
          \/ x = FetchBlockResults(Head(msgQ).height, creations, 0)
      BY <1>7, <2>2, BlockMoves
    <3>2. Head(msgQ) \in InFlight /\ IsJob(Head(msgQ))
      BY <2>2, HandlerMoves DEF HandleBlock, IsJob
    <3>3. Head(msgQ).height \in FirstHeight..MaxHeight
      BY <1>2, <3>2
    <3>4. QED
      BY <1>5, <1>6, <1>7, <3>1, <3>3 DEF FetchBlockResults
  <2>3. QED
    BY <2>1, <2>2 DEF PumpStep
<1>8. QED
  BY <1>3, <1>4, <1>7 DEF HeightsInv

----------------------------------------------------------------------------
(* What the handlers do to the data.                                       *)

(* A set of positions that is not empty has a last one.                    *)
LEMMA LastPosition ==
  ASSUME NEW n \in Nat, NEW T \in SUBSET (1..n), T # {}
  PROVE  Max(T) \in T
<1> DEFINE U == {m \in 0..n : \A k \in T : k <= m}
<1>1. n \in U /\ U \subseteq Nat
  OBVIOUS
<1>2. \E m \in U : \A k \in U : m <= k
  <2> HIDE DEF U
  <2>1. QED
    BY <1>1, LeastNumber
<1>3. PICK m \in U : \A k \in U : m <= k
  BY <1>2
<1>4. m \in T
  <2>1. SUFFICES ASSUME m \notin T PROVE FALSE
    OBVIOUS
  <2>2. m # 0
    <3>1. PICK k \in T : k <= m
      OBVIOUS
    <3>2. QED
      BY <3>1
  <2>3. \A k \in T : k <= m - 1
    BY <2>1
  <2>4. m - 1 \in U
    BY <2>2, <2>3
  <2>5. QED
    BY <1>3, <2>4
<1>5. \E x \in T : \A y \in T : x >= y
  BY <1>3, <1>4
<1>6. QED
  BY <1>5 DEF Max

(* An id that appears is one that was given, to the tx of its poll, which  *)
(* is one of the list and without votes; the polls with other ids stay,    *)
(* and every poll of the list whose tx has an id is there.                 *)
OpenedAs(after, before, creations, ids) ==
  \E new \in SUBSET {ids[t] : t \in DOMAIN ids} :
    /\ IsFiniteSet(new) /\ DOMAIN after = DOMAIN before \cup new
    /\ \A id \in DOMAIN before : id \notin new => after[id] = before[id]
    /\ \A id \in new : \E d \in Range(creations) :
                         /\ d.tx \in DOMAIN ids /\ ids[d.tx] = id
                         /\ after[id] = [data |-> d, votes |-> <<>>]
    /\ \A d \in Range(creations) : d.tx \in DOMAIN ids => ids[d.tx] \in new

(* What Opened does.                                                       *)
LEMMA OpenedFacts ==
  ASSUME NEW S, NEW creations \in Seq(S), NEW open, NEW ids
  PROVE  OpenedAs(Opened(open, creations, ids), open, creations, ids)
<1> DEFINE created == {i \in DOMAIN creations : creations[i].tx \in DOMAIN ids}
           with(id) == {i \in created : ids[creations[i].tx] = id}
           new == {ids[creations[i].tx] : i \in created}
           after == Opened(open, creations, ids)
<1>1. /\ Len(creations) \in Nat /\ DOMAIN creations = 1..Len(creations)
      /\ created \subseteq 1..Len(creations)
  OBVIOUS
<1>2. IsFiniteSet(new)
  <2> DEFINE f == [i \in created |-> ids[creations[i].tx]]
  <2>1. new = {f[i] : i \in created}
    OBVIOUS
  <2>2. IsFiniteSet(created)
    <3> HIDE DEF created
    <3>1. IsFiniteSet(1..Len(creations))
      BY <1>1, FS_Interval
    <3>2. QED
      BY <1>1, <3>1, FS_Subset
  <2> HIDE DEF f, created, new
  <2>3. QED
    BY <2>1, <2>2, ImageFinite
<1>3. after = [id \in DOMAIN open \cup new |->
                 IF with(id) = {} THEN open[id]
                 ELSE [data |-> creations[Max(with(id))], votes |-> <<>>]]
  BY DEF Opened
<1>4. \A id : with(id) # {} <=> id \in new
  OBVIOUS
<1>5. ASSUME NEW id \in new
      PROVE  LET d == creations[Max(with(id))]
             IN  d \in Range(creations) /\ d.tx \in DOMAIN ids /\ ids[d.tx] = id
  <2>1. with(id) \subseteq 1..Len(creations) /\ with(id) # {}
    BY <1>1, <1>4
  <2>2. Max(with(id)) \in with(id)
    <3> HIDE DEF with
    <3>1. QED
      BY <1>1, <2>1, LastPosition
  <2>3. \A i \in with(id) : /\ i \in DOMAIN creations
                            /\ creations[i].tx \in DOMAIN ids /\ ids[creations[i].tx] = id
    OBVIOUS
  <2> HIDE DEF with
  <2>4. QED
    BY <2>2, <2>3 DEF Range
<1>6. new \subseteq {ids[t] : t \in DOMAIN ids}
  OBVIOUS
<1> HIDE DEF after, new, with
<1>7. DOMAIN after = DOMAIN open \cup new
  BY <1>3
<1>8. \A id \in DOMAIN open : id \notin new => after[id] = open[id]
  BY <1>3, <1>4
<1>9. \A id \in new : \E d \in Range(creations) :
                      /\ d.tx \in DOMAIN ids /\ ids[d.tx] = id
                      /\ after[id] = [data |-> d, votes |-> <<>>]
  BY <1>3, <1>4, <1>5
<1>10. \A d \in Range(creations) : d.tx \in DOMAIN ids => ids[d.tx] \in new
  BY DEF Range, new
<1>11. OpenedAs(after, open, creations, ids)
  BY <1>2, <1>6, <1>7, <1>8, <1>9, <1>10, Zenon DEF OpenedAs
<1>12. QED
  BY <1>11 DEF after

IsPoll(poll) ==
  /\ DOMAIN poll = {"data", "votes"}
  /\ poll.data \in PollData /\ poll.data.expiry_height \in Heights
  /\ IsList(poll.votes)

(* Polls keep their data and the votes they have, and gain only votes that *)
(* name them.                                                              *)
LEMMA WithVotesFacts ==
  ASSUME NEW open, NEW votes, IsList(votes), \A id \in DOMAIN open : IsPoll(open[id])
  PROVE  /\ DOMAIN WithVotes(open, votes) = DOMAIN open
         /\ \A id \in DOMAIN open :
              /\ IsPoll(WithVotes(open, votes)[id])
              /\ WithVotes(open, votes)[id].data = open[id].data
              /\ IsPrefix(open[id].votes, WithVotes(open, votes)[id].votes)
              /\ \A v \in Range(WithVotes(open, votes)[id].votes) :
                   \/ v \in Range(open[id].votes)
                   \/ v \in Range(votes) /\ v.poll_id = id
<1> DEFINE Cast(id) == FlatMap(LAMBDA v : IF v.poll_id = id THEN <<v>> ELSE <<>>, votes)
           Theirs(id) == {v \in Range(votes) : v.poll_id = id}
           after == WithVotes(open, votes)
<1>1. DOMAIN after = DOMAIN open
  BY DEF WithVotes
<1>2. ASSUME NEW id
      PROVE  Cast(id) \in Seq(Theirs(id)) /\ Cast(id) \in Seq(Range(votes))
  <2> DEFINE f == [i \in DOMAIN votes |->
                     IF votes[i].poll_id = id THEN <<votes[i]>> ELSE <<>>]
  <2>1. Cast(id) = Joined(f, Len(votes))
    BY DEF FlatMap
  <2>2. /\ Len(votes) \in Nat /\ DOMAIN votes = 1..Len(votes)
        /\ \A i \in 1..Len(votes) : votes[i] \in Range(votes)
    BY ListFacts
  <2>3. \A i \in 1..Len(votes) : f[i] \in Seq(Theirs(id)) /\ f[i] \in Seq(Range(votes))
    BY <2>2, SmallLists
  <2> HIDE DEF f, Cast, Theirs
  <2>4. QED
    BY <2>1, <2>2, <2>3, JoinedType
<1>3. ASSUME NEW id \in DOMAIN open
      PROVE  /\ DOMAIN after[id] = {"data", "votes"}
             /\ after[id].data = open[id].data
             /\ after[id].votes = open[id].votes \o Cast(id)
  <2>1. after[id] = [open[id] EXCEPT !.votes = @ \o Cast(id)]
    BY Zenon DEF WithVotes
  <2>2. DOMAIN open[id] = {"data", "votes"}
    BY DEF IsPoll
  <2> HIDE DEF after, Cast
  <2>3. QED
    BY <2>1, <2>2
<1> HIDE DEF after, Cast
<1>4. ASSUME NEW id \in DOMAIN open
      PROVE  /\ IsList(after[id].votes) /\ IsPrefix(open[id].votes, after[id].votes)
             /\ \A v \in Range(after[id].votes) :
                  v \in Range(open[id].votes) \/ (v \in Range(votes) /\ v.poll_id = id)
  <2> DEFINE s == open[id].votes
             t == Cast(id)
             S == Range(s) \cup Range(votes)
  <2>1. s \in Seq(S) /\ t \in Seq(S)
    <3>1. s \in Seq(Range(s)) /\ t \in Seq(Range(votes))
      BY <1>2 DEF IsPoll, IsList
    <3> HIDE DEF s, t
    <3>2. QED
      BY <3>1
  <2> HIDE DEF s, t, S
  <2>2. s \o t \in Seq(S) /\ IsPrefix(s, s \o t)
    BY <2>1 DEF IsPrefix
  <2>3. IsList(s \o t)
    BY <2>2, ListFacts
  <2>4. Range(s \o t) = Range(s) \cup Range(t)
    BY <2>1, ConcatRange
  <2>5. Range(t) \subseteq Theirs(id)
    BY <1>2, ListFacts DEF t
  <2>6. after[id].votes = s \o t
    BY <1>3, Zenon DEF s, t
  <2>7. \A v \in Range(s \o t) :
          v \in Range(s) \/ (v \in Range(votes) /\ v.poll_id = id)
    BY <2>4, <2>5
  <2>8. QED
    BY <2>2, <2>3, <2>6, <2>7 DEF s
<1>5. QED
  BY <1>1, <1>3, <1>4 DEF after, IsPoll

(* Judging the polls that expire counts up.                                *)
LEMMA JudgeRises ==
  ASSUME NEW open, NEW ids, IsFiniteSet(ids), \A id \in ids : IsList(open[id].votes),
         NEW results, AreCounters(results)
  PROVE  /\ AreCounters(Judge(open, ids, results))
         /\ NoneFalls(results, Judge(open, ids, results))
<1> DEFINE f == [id \in ids |-> AnalyzePollCompletion(id, open[id])]
           S == {f[id] : id \in ids}
<1>1. IsFiniteSet(S)
  BY ImageFinite
<1>2. \A s \in S : IsFiniteSet(s)
  <2>1. \A id \in ids : IsFiniteSet(f[id])
    BY OutcomesFinite
  <2> HIDE DEF f
  <2>2. QED
    BY <2>1
<1>3. S = {AnalyzePollCompletion(id, open[id]) : id \in ids}
  OBVIOUS
<1>4. Judge(open, ids, results) = Counted(results, UNION S)
  BY <1>3 DEF Judge
<1> HIDE DEF S, f
<1>5. IsFiniteSet(UNION S)
  BY <1>1, <1>2, FS_UNION
<1>6. QED
  BY <1>4, <1>5, CountedRises

----------------------------------------------------------------------------
(* The invariant of the data.                                              *)

OpenedAt(h) == {d \in PollData : \E p \in Periods : d.expiry_height = h + p}

ParamsInv == \A c \in DOMAIN chain_params : Lower[c] = c /\ chain_params[c] \in Periods

(* The polls that wait for their ids expire a period after their block.    *)
CreationsInv ==
  \A x \in InFlight : IsResultsJob(x) => x.polls \in Seq(OpenedAt(x.height))

PollsInv ==
  /\ IsFiniteSet(DOMAIN polls) /\ DOMAIN polls \subseteq Nat
  /\ \A id \in DOMAIN polls : IsPoll(polls[id])
  /\ expired_poll_ids \subseteq Nat

VotesInv ==
  /\ AreCounters(vote_results) /\ AreCounters(published_votes)
  /\ NoneFalls(published_votes, vote_results)

DataInv == history \in Histories /\ ParamsInv /\ CreationsInv /\ PollsInv /\ VotesInv

MonitorInv == TypeOK /\ HeightsInv /\ DataInv

BlockData ==
  ProcessBlock(history.blocks[Head(msgQ).height], chain_params, Head(msgQ).height)

(* Poll periods are natural numbers.                                       *)
LEMMA PeriodsType == \A p \in Periods : p \in Nat
  BY MonitorAssumption DEF Periods

(* What the handler of a block finds in it.                                *)
LEMMA BlockDataType ==
  ASSUME AnyPolls, MonitorInv, HandleBlockData
  PROVE  /\ Head(msgQ).height \in FirstHeight..MaxHeight
         /\ BlockData.poll_creations \in Seq(OpenedAt(Head(msgQ).height))
         /\ BlockData.poll_creations \in PollLists
         /\ IsList(BlockData.votes)
         /\ HandleBlock(BlockData.poll_creations)
<1> DEFINE h == Head(msgQ).height
           block == history.blocks[h]
           creations == BlockData.poll_creations
<1>1. HandleBlock(creations)
  BY DEF HandleBlockData, BlockData
<1>2. Head(msgQ) \in InFlight /\ HasHeight(Head(msgQ))
  BY <1>1, HandlerMoves DEF HandleBlock, MonitorInv, HasHeight, IsJob
<1>3. h \in FirstHeight..MaxHeight
  BY <1>2 DEF MonitorInv, HeightsInv
<1>4. h \in Nat
  BY <1>3, PipelineAssumption
<1>5. WellFormedBlock(block)
  BY <1>3, ChainAssumption DEF MonitorInv, DataInv
<1>6. \A c \in DOMAIN chain_params : chain_params[c] \in Periods /\ chain_params[c] \in Nat
  BY PeriodsType DEF MonitorInv, DataInv, ParamsInv
<1>7. creations \in Seq(CreationsAt(chain_params, h))
  BY <1>4, <1>5, <1>6, CreationsType DEF BlockData
<1>8. CreationsAt(chain_params, h) \subseteq OpenedAt(h)
  BY <1>6 DEF CreationsAt, OpenedAt, PollData
<1>9. OpenedAt(h) \subseteq PollData
  BY DEF OpenedAt
<1>10. IsList(BlockData.votes)
  BY <1>5, VotesType DEF BlockData
<1> HIDE DEF creations
<1>11. /\ Len(creations) \in Nat /\ DOMAIN creations = 1..Len(creations)
       /\ \A i \in 1..Len(creations) : creations[i] \in CreationsAt(chain_params, h)
       /\ creations = [i \in 1..Len(creations) |-> creations[i]]
  BY <1>7
<1>12. creations \in Seq(OpenedAt(h)) /\ creations \in Seq(PollData)
  BY <1>8, <1>9, <1>11
<1>13. QED
  BY <1>1, <1>3, <1>10, <1>12 DEF AnyPolls, creations

(* Every step of the monitor is one of the pump.                           *)
LEMMA MonitorPumps ==
  ASSUME AnyPolls, MonitorInv, [MonitorNext]_monitorVars
  PROVE  [Next]_vars /\ PumpStep
<1>1. CASE HandleBlockData
  BY <1>1, BlockDataType DEF Next, ProcessingStep, PumpStep
<1>2. CASE UNCHANGED monitorVars
  BY <1>2 DEF monitorVars, PumpStep
<1>3. CASE MonitorFeederTick \/ MonitorIoStep
  BY <1>3 DEF MonitorFeederTick, MonitorIoStep, Next, PumpStep, NoBlockStep
<1>4. CASE \/ HandleBlockResultsData \/ HandleChainParamsData
           \/ HandleHeadData \/ PublishMetricsData \/ OtherStep
  BY <1>4 DEF HandleBlockResultsData, HandleChainParamsData, HandleHeadData,
       PublishMetricsData, OtherStep, Next, ProcessingStep, PumpStep, NoBlockStep
<1>5. QED
  BY <1>1, <1>2, <1>3, <1>4 DEF MonitorNext, MonitorProcessingStep

(* The steps that leave the polls and their counters alone.                *)
QuietStep ==
  \/ MonitorFeederTick \/ MonitorIoStep \/ HandleHeadData \/ OtherStep
  \/ UNCHANGED monitorVars

(* What each step does to the data.                                        *)
LEMMA QuietData ==
  QuietStep => /\ UNCHANGED <<pollVars, published_votes, history>>
               /\ NoBlockStep \/ UNCHANGED vars
  BY DEF QuietStep, MonitorFeederTick, MonitorIoStep, HandleHeadData, OtherStep,
         monitorVars, dataVars, NoBlockStep

(* The chain does not change.                                              *)
LEMMA HistoryConstant ==
  [MonitorNext]_monitorVars => history' = history
  BY DEF MonitorNext, MonitorProcessingStep, MonitorFeederTick, MonitorIoStep,
         HandleBlockData, HandleBlockResultsData, HandleChainParamsData,
         HandleHeadData, PublishMetricsData, OtherStep, monitorVars, dataVars

(* Requests for block results keep the creations they are for.             *)
LEMMA StepKeepsCreations ==
  ASSUME AnyPolls, MonitorInv, [MonitorNext]_monitorVars
  PROVE  CreationsInv'
<1>1. ASSUME NEW x, FromBefore(x), IsResultsJob(x)
      PROVE  x.polls \in Seq(OpenedAt(x.height))
  <2>1. PICK y \in InFlight : x = y \/ Continues(x, y)
    BY <1>1 DEF FromBefore
  <2>2. IsResultsJob(y) /\ x.height = y.height /\ x.polls = y.polls
    BY <1>1, <2>1, ResultsJobTypes DEF Continues
  <2>3. QED
    BY <2>2 DEF MonitorInv, DataInv, CreationsInv
<1>2. ASSUME NEW x \in InFlight', IsResultsJob(x)
      PROVE  x.polls \in Seq(OpenedAt(x.height))
  <2>1. /\ HasHeight(x) /\ ~ForNextBlock(x) /\ x.kind # "Head"
        /\ x.kind \in {"FetchBlockResults", "BlockResults", "FetchBlockResultsError"}
    BY <1>2 DEF HasHeight, ForNextBlock, IsResultsJob
  <2>2. CASE NoBlockStep \/ UNCHANGED vars
    BY <1>1, <1>2, <2>1, <2>2, OtherMoves DEF MonitorInv
  <2>3. CASE HandleBlockData
    <3> DEFINE h == Head(msgQ).height
               creations == BlockData.poll_creations
    <3>1. HandleBlock(creations) /\ creations \in Seq(OpenedAt(h))
      BY <2>3, BlockDataType
    <3> HIDE DEF creations
    <3>2. FromBefore(x) \/ x = FetchBlockResults(h, creations, 0)
      BY <1>2, <2>1, <3>1, BlockMoves DEF MonitorInv
    <3>3. CASE x = FetchBlockResults(h, creations, 0)
      <4>1. x.height = h /\ x.polls = creations
        BY <3>3 DEF FetchBlockResults
      <4>2. QED
        BY <3>1, <4>1
    <3>4. QED
      BY <1>1, <1>2, <3>2, <3>3
  <2>4. QED
    BY <2>2, <2>3 DEF MonitorNext, MonitorProcessingStep, MonitorFeederTick,
       MonitorIoStep, HandleBlockResultsData, HandleChainParamsData,
       HandleHeadData, PublishMetricsData, OtherStep, NoBlockStep, monitorVars
<1>3. QED
  BY <1>2 DEF CreationsInv

(* The handler of chain parameters.                                        *)
LEMMA ParamsData ==
  ASSUME MonitorInv, HandleChainParamsData
  PROVE  /\ ParamsInv'
         /\ AreCounters(vote_results') /\ NoneFalls(vote_results, vote_results')
         /\ UNCHANGED <<polls, expired_poll_ids, published_votes>>
<1> DEFINE m == Head(msgQ)
           c == m.chain
<1>1. m \in IoResult /\ m.kind = "ChainParams"
  BY HandlerMoves DEF HandleChainParamsData, HandleChainParams, MonitorInv
<1>2. c \in Chains
  BY <1>1 DEF IoResult
<1>3. c \in DOMAIN Lower /\ NodeParams[c] \in Periods /\ Lower[Lower[c]] = Lower[c]
  BY <1>2, MonitorAssumption, TallyAssumption DEF Periods
<1>4. /\ chain_params' = WithParams(chain_params, c)
      /\ vote_results' = Register(vote_results, c)
      /\ UNCHANGED <<polls, expired_poll_ids, published_votes>>
  BY DEF HandleChainParamsData
<1> HIDE DEF c
<1>5. ParamsInv'
  <2>1. ParamsInv
    BY DEF MonitorInv, DataInv
  <2>2. /\ DOMAIN WithParams(chain_params, c) = DOMAIN chain_params \cup {Lower[c]}
        /\ \A n \in DOMAIN chain_params \cup {Lower[c]} :
             WithParams(chain_params, c)[n]
               = IF n = Lower[c] THEN NodeParams[c] ELSE chain_params[n]
    BY DEF WithParams
  <2>3. QED
    BY <1>3, <1>4, <2>1, <2>2 DEF ParamsInv
<1>6. /\ AreCounters(Register(vote_results, c))
      /\ NoneFalls(vote_results, Register(vote_results, c))
  BY RegisterKeeps DEF MonitorInv, DataInv, VotesInv
<1>7. QED
  BY <1>4, <1>5, <1>6

(* What a block does to the open polls: they get its votes, and those it   *)
(* brings to their deadline are judged.                                    *)
VotesAt(h) == VotesIn(history.blocks[h])
Voted(h) == WithVotes(polls, VotesAt(h))
DueAt(h) == {id \in DOMAIN polls : polls[id].data.expiry_height <= h}

(* The handler of a block.                                                 *)
LEMMA BlockStepIs ==
  ASSUME AnyPolls, MonitorInv, HandleBlockData,
         NEW h, h = Head(msgQ).height
  PROVE  /\ h \in FirstHeight..MaxHeight /\ IsList(VotesAt(h))
         /\ DueAt(h) \subseteq DOMAIN polls /\ IsFiniteSet(DueAt(h))
         /\ DOMAIN Voted(h) = DOMAIN polls
         /\ \A id \in DOMAIN polls : IsPoll(Voted(h)[id]) /\ Voted(h)[id].data = polls[id].data
         /\ DOMAIN polls' = DOMAIN polls \ DueAt(h)
         /\ \A id \in DOMAIN polls' : /\ id \in DOMAIN polls /\ polls'[id] = Voted(h)[id]
                                      /\ polls'[id].data.expiry_height > h
         /\ vote_results' = Judge(Voted(h), DueAt(h), vote_results)
         /\ expired_poll_ids' = expired_poll_ids \cup DueAt(h)
         /\ UNCHANGED <<chain_params, published_votes, history>>
<1> DEFINE votes == VotesAt(h)
           open == Voted(h)
           due == DueAt(h)
<1>1. BlockData.votes = votes
  BY DEF BlockData, ProcessBlock, VotesIn, VotesAt
<1>2. /\ vote_results' = Judge(open, Expiring(open, h), vote_results)
      /\ expired_poll_ids' = expired_poll_ids \cup Expiring(open, h)
      /\ polls' = Pruned(open, h)
      /\ UNCHANGED <<chain_params, published_votes, history>>
  BY <1>1 DEF HandleBlockData, BlockData, Voted
<1>3. h \in Nat /\ h \in FirstHeight..MaxHeight /\ IsList(votes)
  BY <1>1, BlockDataType, PipelineAssumption
<1>4. IsFiniteSet(DOMAIN polls) /\ \A id \in DOMAIN polls : IsPoll(polls[id])
  BY DEF MonitorInv, DataInv, PollsInv
<1>5. /\ DOMAIN open = DOMAIN polls
      /\ \A id \in DOMAIN polls : IsPoll(open[id]) /\ open[id].data = polls[id].data
  BY <1>3, <1>4, WithVotesFacts DEF Voted
<1>6. Expiring(open, h) = due
  BY <1>5 DEF Expiring, DueAt
<1>7. ASSUME NEW id \in DOMAIN polls
      PROVE  polls[id].data.expiry_height \in Nat
  BY <1>4 DEF IsPoll, Heights
<1>8. /\ DOMAIN Pruned(open, h) = DOMAIN polls \ due
      /\ \A id \in DOMAIN Pruned(open, h) : /\ Pruned(open, h)[id] = open[id]
                                            /\ open[id].data.expiry_height > h
  <2>1. Pruned(open, h)
          = [id \in {i \in DOMAIN open : open[i].data.expiry_height > h} |-> open[id]]
    BY DEF Pruned, Restrict
  <2>2. {i \in DOMAIN open : open[i].data.expiry_height > h} = DOMAIN polls \ due
    BY <1>3, <1>5, <1>7 DEF DueAt
  <2>3. QED
    BY <2>1, <2>2
<1>9. due \subseteq DOMAIN polls
  BY DEF DueAt
<1>10. IsFiniteSet(due)
  BY <1>4, <1>9, FS_Subset
<1>11. QED
  BY <1>2, <1>3, <1>5, <1>6, <1>8, <1>9, <1>10

(* It adds votes, and judges and removes the polls that expire.            *)
LEMMA BlockStepData ==
  ASSUME AnyPolls, MonitorInv, HandleBlockData
  PROVE  LET h == Head(msgQ).height
             due == {id \in DOMAIN polls : polls[id].data.expiry_height <= h}
         IN  /\ DOMAIN polls' = DOMAIN polls \ due
             /\ \A id \in DOMAIN polls' :
                  /\ IsPoll(polls'[id]) /\ polls'[id].data = polls[id].data
                  /\ IsPrefix(polls[id].votes, polls'[id].votes)
                  /\ polls'[id].data.expiry_height > h
             /\ expired_poll_ids' = expired_poll_ids \cup due
             /\ AreCounters(vote_results') /\ NoneFalls(vote_results, vote_results')
             /\ UNCHANGED <<chain_params, published_votes>>
<1> DEFINE h == Head(msgQ).height
<1>1. /\ IsList(VotesAt(h)) /\ IsFiniteSet(DueAt(h)) /\ DueAt(h) \subseteq DOMAIN polls
      /\ \A id \in DOMAIN polls : /\ IsPoll(Voted(h)[id])
                                  /\ Voted(h)[id].data = polls[id].data
      /\ DOMAIN polls' = DOMAIN polls \ DueAt(h)
      /\ \A id \in DOMAIN polls' : /\ id \in DOMAIN polls /\ polls'[id] = Voted(h)[id]
                                   /\ polls'[id].data.expiry_height > h
      /\ vote_results' = Judge(Voted(h), DueAt(h), vote_results)
      /\ expired_poll_ids' = expired_poll_ids \cup DueAt(h)
      /\ UNCHANGED <<chain_params, published_votes>>
  BY BlockStepIs
<1> HIDE DEF h
<1>2. \A id \in DOMAIN polls : IsPrefix(polls[id].votes, Voted(h)[id].votes)
  BY <1>1, WithVotesFacts DEF MonitorInv, DataInv, PollsInv, Voted
<1>3. AreCounters(vote_results') /\ NoneFalls(vote_results, vote_results')
  BY <1>1, JudgeRises DEF MonitorInv, DataInv, VotesInv, IsPoll
<1>4. \A id \in DOMAIN polls' : /\ IsPoll(polls'[id]) /\ polls'[id].data = polls[id].data
                               /\ IsPrefix(polls[id].votes, polls'[id].votes)
                               /\ polls'[id].data.expiry_height > h
  BY <1>1, <1>2
<1>5. QED
  BY <1>1, <1>3, <1>4 DEF DueAt, h

(* The handler of block results: polls get the ids their block's results   *)
(* give them.                                                              *)
LEMMA ResultsStepData ==
  ASSUME MonitorInv, HandleBlockResultsData
  PROVE  LET m == Head(msgQ)
         IN  /\ m \in InFlight /\ IsResultsJob(m) /\ m.kind = "BlockResults"
             /\ m.height \in FirstHeight..MaxHeight
             /\ \E new \in SUBSET PollIds(history.results[m.height]) :
                  /\ IsFiniteSet(new) /\ DOMAIN polls' = DOMAIN polls \cup new
                  /\ \A id \in DOMAIN polls : id \notin new => polls'[id] = polls[id]
                  /\ \A id \in new : /\ IsPoll(polls'[id])
                                     /\ polls'[id].data \in OpenedAt(m.height)
                                     /\ polls'[id].votes = <<>>
             /\ UNCHANGED <<chain_params, expired_poll_ids, vote_results, published_votes>>
<1> DEFINE m == Head(msgQ)
           ids == TxToPollIds(history.results[m.height])
<1>1. /\ polls' = Opened(polls, m.polls, ids)
      /\ UNCHANGED <<chain_params, expired_poll_ids, vote_results, published_votes>>
  BY DEF HandleBlockResultsData
<1>2. m \in InFlight /\ m.kind = "BlockResults" /\ IsResultsJob(m)
  BY HandlerMoves
     DEF HandleBlockResultsData, HandleBlockResults, MonitorInv, IsResultsJob
<1>3. m.height \in FirstHeight..MaxHeight /\ m.polls \in Seq(OpenedAt(m.height))
  BY <1>2 DEF MonitorInv, HeightsInv, HasHeight, DataInv, CreationsInv
<1>4. OpenedAs(polls', polls, m.polls, ids)
  BY <1>1, <1>3, OpenedFacts
<1>5. PICK new \in SUBSET {ids[t] : t \in DOMAIN ids} :
        /\ IsFiniteSet(new) /\ DOMAIN polls' = DOMAIN polls \cup new
        /\ \A id \in DOMAIN polls : id \notin new => polls'[id] = polls[id]
        /\ \A id \in new : \E d \in Range(m.polls) :
                             polls'[id] = [data |-> d, votes |-> <<>>]
  BY <1>4 DEF OpenedAs
<1>6. new \subseteq PollIds(history.results[m.height])
  BY DEF PollIds
<1>7. ASSUME NEW id \in new
      PROVE  /\ IsPoll(polls'[id]) /\ polls'[id].data \in OpenedAt(m.height)
             /\ polls'[id].votes = <<>>
  <2>1. PICK d \in Range(m.polls) : polls'[id] = [data |-> d, votes |-> <<>>]
    BY <1>5
  <2>2. d \in OpenedAt(m.height)
    BY <1>3, ListFacts
  <2>3. d \in PollData /\ d.expiry_height \in Heights
    <3>1. PICK p \in Periods : d.expiry_height = m.height + p
      BY <2>2 DEF OpenedAt
    <3>2. p \in Nat /\ m.height \in Nat /\ m.height > 0
      BY <1>3, PeriodsType, PipelineAssumption
    <3>3. QED
      BY <2>2, <3>1, <3>2 DEF OpenedAt, Heights
  <2>4. IsList(<<>>)
    BY SmallLists, ListFacts
  <2>5. QED
    BY <2>1, <2>2, <2>3, <2>4 DEF IsPoll
<1>8. QED
  BY <1>1, <1>2, <1>3, <1>5, <1>6, <1>7

(* At most as high, one after the other.                                   *)
LEMMA RisesTwice ==
  ASSUME NEW a, NEW b, NEW c, AreCounters(a), AreCounters(b), AreCounters(c),
         NoneFalls(a, b), NoneFalls(b, c)
  PROVE  NoneFalls(a, c)
<1>1. DOMAIN a \subseteq DOMAIN c
  BY DEF NoneFalls
<1>2. ASSUME NEW k \in DOMAIN a PROVE c[k] >= a[k]
  <2>1. a[k] \in Nat /\ b[k] \in Nat /\ c[k] \in Nat /\ b[k] >= a[k] /\ c[k] >= b[k]
    BY <1>1 DEF NoneFalls, AreCounters
  <2>2. QED
    BY <2>1
<1>3. QED
  BY <1>1, <1>2 DEF NoneFalls

(* Every step keeps the data in order.                                     *)
LEMMA StepKeepsData ==
  ASSUME AnyPolls, MonitorInv, [MonitorNext]_monitorVars
  PROVE  DataInv'
<1>1. history' \in Histories /\ CreationsInv'
  BY HistoryConstant, StepKeepsCreations DEF MonitorInv, DataInv
<1>2. ParamsInv /\ PollsInv /\ VotesInv /\ history \in Histories
  BY DEF MonitorInv, DataInv
<1>3. CASE QuietStep
  BY <1>1, <1>2, <1>3, QuietData
     DEF DataInv, ParamsInv, PollsInv, VotesInv, pollVars
<1>4. CASE HandleChainParamsData
  <2>1. VotesInv'
    BY <1>2, <1>4, ParamsData, RisesTwice DEF VotesInv
  <2>2. PollsInv'
    BY <1>2, <1>4, ParamsData DEF PollsInv
  <2>3. QED
    BY <1>1, <1>4, <2>1, <2>2, ParamsData DEF DataInv
<1>5. CASE PublishMetricsData
  <2>1. /\ published_votes' = vote_results
        /\ UNCHANGED <<chain_params, polls, expired_poll_ids, vote_results>>
    BY <1>5 DEF PublishMetricsData, pollVars
  <2>2. NoneFalls(vote_results, vote_results)
    BY <1>2 DEF VotesInv, AreCounters, NoneFalls
  <2>3. QED
    BY <1>1, <1>2, <2>1, <2>2 DEF DataInv, ParamsInv, PollsInv, VotesInv
<1>6. CASE HandleBlockData
  <2> DEFINE h == Head(msgQ).height
             due == {id \in DOMAIN polls : polls[id].data.expiry_height <= h}
  <2>1. /\ DOMAIN polls' = DOMAIN polls \ due
        /\ \A id \in DOMAIN polls' : IsPoll(polls'[id])
        /\ expired_poll_ids' = expired_poll_ids \cup due
        /\ AreCounters(vote_results') /\ NoneFalls(vote_results, vote_results')
        /\ UNCHANGED <<chain_params, published_votes>>
    BY <1>6, BlockStepData
  <2>2. due \subseteq DOMAIN polls
    OBVIOUS
  <2> HIDE DEF due
  <2>3. PollsInv'
    BY <1>2, <2>1, <2>2, FS_Subset DEF PollsInv
  <2>4. VotesInv'
    BY <1>2, <2>1, RisesTwice DEF VotesInv
  <2>5. QED
    BY <1>1, <1>2, <2>1, <2>3, <2>4 DEF DataInv, ParamsInv
<1>7. CASE HandleBlockResultsData
  <2> DEFINE m == Head(msgQ)
  <2>1. /\ m.height \in FirstHeight..MaxHeight
        /\ UNCHANGED <<chain_params, expired_poll_ids, vote_results, published_votes>>
    BY <1>7, ResultsStepData
  <2>2. PICK new \in SUBSET PollIds(history.results[m.height]) :
          /\ IsFiniteSet(new) /\ DOMAIN polls' = DOMAIN polls \cup new
          /\ \A id \in DOMAIN polls : id \notin new => polls'[id] = polls[id]
          /\ \A id \in new : IsPoll(polls'[id])
    <3> HIDE DEF m
    <3>1. QED
      BY <1>7, ResultsStepData DEF m
  <2>3. PollIds(history.results[m.height]) \subseteq Nat
    BY <1>2, <2>1, ChainAssumption
  <2>4. \A id \in DOMAIN polls' : IsPoll(polls'[id]) /\ id \in Nat
    BY <1>2, <2>2, <2>3 DEF PollsInv
  <2>5. IsFiniteSet(DOMAIN polls')
    BY <1>2, <2>2, FS_Union DEF PollsInv
  <2>6. PollsInv'
    BY <1>2, <2>1, <2>4, <2>5 DEF PollsInv
  <2>7. QED
    BY <1>1, <1>2, <2>1, <2>6 DEF DataInv, ParamsInv, VotesInv
<1>8. QED
  BY <1>3, <1>4, <1>5, <1>6, <1>7
     DEF MonitorNext, MonitorProcessingStep, QuietStep

(* At the start nothing is on its way but the request for the chain list.  *)
LEMMA MonitorStarts ==
  ASSUME MonitorInit
  PROVE  MonitorInv
<1>1. Init
  BY DEF MonitorInit
<1>2. TypeOK
  BY <1>1, PipelineAssumption, SequenceTypes, CommandTypes
     DEF Init, TypeOK, Metrics, Heights
<1>3. \A x \in InFlight : ~HasHeight(x)
  <2>1. InFlight = {FetchChainList}
    BY <1>1, ShortMembers DEF Init, InFlight
  <2>2. QED
    BY <2>1 DEF HasHeight, IsJob, IsResultsJob, FetchChainList
<1>4. HeightsInv
  BY <1>1, <1>3, PipelineAssumption DEF Init, HeightsInv, Starting
<1>5. history \in Histories /\ CreationsInv
  BY <1>3 DEF MonitorInit, CreationsInv, HasHeight
<1>6. ParamsInv
  BY MonitorAssumption DEF MonitorInit, ParamsInv, Periods
<1>7. PollsInv
  <2>1. DOMAIN polls = {}
    BY DEF MonitorInit
  <2>2. QED
    BY <2>1, FS_EmptySet DEF MonitorInit, PollsInv
<1>8. VotesInv
  BY DEF MonitorInit, VotesInv, AreCounters, NoneFalls
<1>9. QED
  BY <1>2, <1>4, <1>5, <1>6, <1>7, <1>8 DEF MonitorInv, DataInv

(* The invariant holds of every behaviour of the monitor.                  *)
LEMMA MonitorInvHolds ==
  ASSUME AnyPolls
  PROVE  MonitorSpec => []MonitorInv
<1>1. ASSUME MonitorInv, [MonitorNext]_monitorVars
      PROVE  MonitorInv'
  <2>1. [Next]_vars /\ PumpStep
    BY <1>1, MonitorPumps
  <2>2. TypeOK'
    BY <1>1, <2>1, TypeKept DEF MonitorInv
  <2>3. HeightsInv'
    BY <1>1, <2>1, StepKeepsHeights DEF MonitorInv
  <2>4. QED
    BY <1>1, <2>2, <2>3, StepKeepsData DEF MonitorInv
<1>2. MonitorInit => MonitorInv
  BY MonitorStarts
<1>3. QED
  BY <1>1, <1>2, PTL DEF MonitorSpec

----------------------------------------------------------------------------
(* Theorems.                                                               *)

(* Whatever the blocks hold, the monitor is the message pump: the data it  *)
(* carries never stops a handler, nor makes one do what the pump does not. *)
THEOREM MonitorIsThePump ==
  ASSUME AnyPolls
  PROVE  MonitorSpec => Spec
<1>1. MonitorInv /\ [MonitorNext]_monitorVars => [Next]_vars
  BY MonitorPumps
<1>2. MonitorInit => Init
  BY DEF MonitorInit
<1>3. QED
  BY <1>1, <1>2, MonitorInvHolds, PTL DEF MonitorSpec, Spec

(* The data has its types: chain names are kept in lower case, every open  *)
(* poll has a deadline and votes, published counters are known ones.       *)
THEOREM MonitorTypeCorrect ==
  ASSUME AnyPolls
  PROVE  MonitorSpec => []MonitorTypeOK
<1>1. MonitorInv => MonitorTypeOK
  <2> SUFFICES ASSUME MonitorInv PROVE MonitorTypeOK
    OBVIOUS
  <2>1. \A id \in DOMAIN polls :
          polls[id].data.expiry_height \in Heights /\ Len(polls[id].votes) \in Nat
    BY ListFacts DEF MonitorInv, DataInv, PollsInv, IsPoll
  <2>2. \A c \in DOMAIN chain_params : Lower[c] = c /\ chain_params[c] \in Nat
    BY PeriodsType DEF MonitorInv, DataInv, ParamsInv
  <2>3. QED
    BY <2>1, <2>2 DEF MonitorTypeOK, MonitorInv, DataInv, PollsInv, VotesInv,
       AreCounters, NoneFalls
<1>2. QED
  BY <1>1, MonitorInvHolds, PTL

(* No published vote counter falls or goes away, whatever is voted and     *)
(* whenever chain parameters arrive.                                       *)
THEOREM VoteCountersRise ==
  ASSUME AnyPolls
  PROVE  MonitorSpec => VoteCountersNeverFall
<1> DEFINE Rise == /\ DOMAIN published_votes \subseteq DOMAIN published_votes'
                   /\ \A k \in DOMAIN published_votes :
                        published_votes'[k] >= published_votes[k]
<1>1. ASSUME MonitorInv, [MonitorNext]_monitorVars
      PROVE  [Rise]_published_votes
  <2>1. CASE PublishMetricsData
    <3>1. published_votes' = vote_results
      BY <2>1 DEF PublishMetricsData
    <3>2. QED
      BY <1>1, <3>1 DEF MonitorInv, DataInv, VotesInv, NoneFalls
  <2>2. CASE ~PublishMetricsData
    BY <1>1, <2>2, QuietData
       DEF MonitorNext, MonitorProcessingStep, QuietStep, HandleBlockData,
           HandleBlockResultsData, HandleChainParamsData
  <2>3. QED
    BY <2>1, <2>2
<1>2. QED
  BY <1>1, MonitorInvHolds, PTL DEF MonitorSpec, VoteCountersNeverFall

----------------------------------------------------------------------------
(* Deadlines and ids.  A poll stays open for more blocks than a request    *)
(* can be retried over, so it is registered before its deadline; and the   *)
(* results of a block are answered once, so its ids appear once.           *)

(* The results of the block have been answered, or given up.               *)
Answered(h) == h <= last_processed_height /\ \A x \in Pending : x.height # h

(* The ids the monitor has used come from answered results.                *)
IdsInv ==
  \A id \in DOMAIN polls \cup expired_poll_ids :
    \E h \in FirstHeight..MaxHeight :
      Answered(h) /\ id \in PollIds(history.results[h])

BookInv == MonitorInv /\ PipelineInv /\ ResultsInv /\ DeadlineKept /\ IdsInv

(* A block request is for the block after the last one processed.          *)
LEMMA JobInFlight ==
  ASSUME JobsInv, NEW x \in InFlight, IsJob(x)
  PROVE  x.height = last_processed_height + 1
<1>1. ASSUME NEW q \in {msgQ, cmdQ, outbox}, x \in Range(q)
      PROVE  x.height = last_processed_height + 1
  <2>1. PICK i \in DOMAIN q : x = q[i]
    BY <1>1 DEF Range
  <2>2. LoneJob(q, last_processed_height + 1)
    BY DEF JobsInv, SingleFetch
  <2>3. QED
    BY <2>1, <2>2 DEF LoneJob, JobsIn
<1>2. QED
  BY <1>1 DEF InFlight

(* last_processed_height does not fall.                                    *)
LEMMA CursorRises ==
  ASSUME PipelineInv, HeightsInv, PumpStep
  PROVE  last_processed_height' >= last_processed_height
<1>1. last_processed_height \in Nat
  BY DEF PipelineInv, TypeOK
<1>2. ASSUME NEW y \in InFlight, IsJob(y)
      PROVE  y.height = last_processed_height + 1
  BY <1>2, JobInFlight DEF PipelineInv
<1>3. ASSUME NEW y \in InFlight, y.kind = "Head"
      PROVE  y.height - 1 >= 0
  BY <1>3, PipelineAssumption DEF HeightsInv, HasHeight
<1>4. QED
  BY <1>1, <1>2, <1>3, TipAndCursor DEF PipelineInv, Starting

(* The handler of a block is at the block after the last one processed,    *)
(* and chain_height moves to it.                                           *)
LEMMA BlockHeight ==
  ASSUME AnyPolls, BookInv, HandleBlockData
  PROVE  /\ Head(msgQ).height = last_processed_height + 1
         /\ chain_height' = Head(msgQ).height /\ chain_height' > chain_height
         /\ chain_height \in Nat /\ chain_height' \in Nat
         /\ last_processed_height \in Nat
<1> DEFINE creations == BlockData.poll_creations
<1>1. HandleBlock(creations)
  BY BlockDataType DEF BookInv
<1> HIDE DEF creations
<1>2. Head(msgQ) \in InFlight /\ IsJob(Head(msgQ))
  BY <1>1, HandlerMoves DEF HandleBlock, BookInv, MonitorInv, IsJob
<1>3. Head(msgQ).height = last_processed_height + 1
  BY <1>2, JobInFlight DEF BookInv, PipelineInv
<1>4. /\ last_processed_height \in Nat /\ chain_height \in Nat
      /\ chain_height <= last_processed_height
  BY DEF BookInv, PipelineInv, TypeOK, CountersInv
<1>5. chain_height' = IF Head(msgQ).height > chain_height THEN Head(msgQ).height
                                                         ELSE chain_height
  BY <1>1 DEF HandleBlock
<1>6. QED
  BY <1>3, <1>4, <1>5

(* Only the handler of a block moves chain_height.                         *)
LEMMA HeightStays ==
  ASSUME [MonitorNext]_monitorVars, ~HandleBlockData
  PROVE  chain_height' = chain_height
<1>1. IoStep => chain_height' = chain_height
  BY DEF IoStep, IoFetchBlock, IoFetchBlockResults, IoFetchChainList,
         IoFetchChainParams, IoFetchHead, Executes, procVars
<1>2. QED
  BY <1>1 DEF MonitorNext, MonitorProcessingStep, MonitorFeederTick,
     MonitorIoStep, HandleBlockResultsData, HandleChainParamsData,
     HandleHeadData, PublishMetricsData, OtherStep, monitorVars, vars, procVars,
     FeederTick, HandleBlockResults, HandleChainParams, HandleHead,
     PublishMetrics, HandleFetchError, HandleFetchBlockResultsError,
     HandleFetchChainListError, HandleChainList, SendCommand

(* What registers polls: the deadline is ahead, and the ids are new.       *)
LEMMA NewPolls ==
  ASSUME LongPolls, BookInv, HandleBlockResultsData,
         NEW h, h = Head(msgQ).height
  PROVE  /\ Answered(h)' /\ h \in FirstHeight..MaxHeight
         /\ \E new \in SUBSET PollIds(history.results[h]) :
              /\ DOMAIN polls' = DOMAIN polls \cup new
              /\ new \cap (DOMAIN polls \cup expired_poll_ids) = {}
              /\ \A id \in DOMAIN polls : polls'[id] = polls[id]
              /\ \A id \in new : /\ IsPoll(polls'[id]) /\ polls'[id].votes = <<>>
                                 /\ polls'[id].data.expiry_height > chain_height
         /\ UNCHANGED <<expired_poll_ids, last_processed_height, chain_height>>
<1> DEFINE m == Head(msgQ)
<1>1. /\ m \in InFlight /\ IsResultsJob(m) /\ m.kind = "BlockResults"
      /\ h \in FirstHeight..MaxHeight
      /\ expired_poll_ids' = expired_poll_ids
  BY ResultsStepData DEF BookInv
<1>2. PICK new \in SUBSET PollIds(history.results[h]) :
        /\ DOMAIN polls' = DOMAIN polls \cup new
        /\ \A id \in DOMAIN polls : id \notin new => polls'[id] = polls[id]
        /\ \A id \in new : /\ IsPoll(polls'[id])
                           /\ polls'[id].data \in OpenedAt(h)
                           /\ polls'[id].votes = <<>>
  <2> HIDE DEF m
  <2>1. QED
    BY ResultsStepData DEF BookInv, m
<1>3. UNCHANGED <<last_processed_height, chain_height>> /\ Receives("BlockResults")
      /\ outbox' = <<>>
  BY DEF HandleBlockResultsData, HandleBlockResults, procVars
<1>4. m \in Pending
  BY <1>1, PendingInFlight
<1>5. /\ h \in Nat /\ last_processed_height \in Nat /\ chain_height \in Nat
      /\ h <= last_processed_height /\ chain_height <= last_processed_height
      /\ last_processed_height <= h + MAX_FETCH_RETRIES
  <2>1. Tries(m) = MAX_FETCH_RETRIES
    BY <1>1 DEF Tries
  <2>2. h \in Nat
    BY <1>4, PendingTypes DEF BookInv, PipelineInv
  <2>3. h <= last_processed_height /\ last_processed_height <= h + Tries(m)
    BY <1>4 DEF BookInv, ResultsInv, LagInv
  <2>4. QED
    BY <2>1, <2>2, <2>3 DEF BookInv, PipelineInv, TypeOK, CountersInv
<1>6. Answered(h)'
  <2>1. /\ Pending' = Requested(msgQ') \cup Requested(cmdQ) \cup Requested(outbox')
        /\ \A y \in Requested(msgQ') \cup Requested(cmdQ) : y.height # h
    BY <1>1, <1>3, ReceivedResults DEF BookInv, PipelineInv
  <2>2. Requested(outbox') = {}
    BY <1>3, ShortResults
  <2>3. h <= last_processed_height'
    BY <1>3, <1>5
  <2>4. \A y \in Pending' : y.height # h
    BY <2>1, <2>2
  <2>5. QED
    BY <2>3, <2>4 DEF Answered
<1>7. ASSUME NEW id \in new, id \in DOMAIN polls \cup expired_poll_ids
      PROVE  FALSE
  <2>1. PICK g \in FirstHeight..MaxHeight :
          Answered(g) /\ id \in PollIds(history.results[g])
    BY <1>7 DEF BookInv, IdsInv
  <2>2. g # h
    BY <1>4, <2>1 DEF Answered
  <2>3. PollIds(history.results[g]) \cap PollIds(history.results[h]) = {}
    BY <1>1, <2>1, <2>2, ChainAssumption DEF BookInv, MonitorInv, DataInv
  <2>4. QED
    BY <2>1, <2>3
<1>8. ASSUME NEW id \in new
      PROVE  polls'[id].data.expiry_height > chain_height
  <2>1. PICK p \in Periods : polls'[id].data.expiry_height = h + p
    BY <1>2 DEF OpenedAt
  <2>2. p \in Nat /\ p > MAX_FETCH_RETRIES /\ MAX_FETCH_RETRIES \in Nat
    BY PeriodsType, PipelineAssumption DEF LongPolls
  <2>3. QED
    BY <1>5, <2>1, <2>2
<1>9. QED
  BY <1>1, <1>2, <1>3, <1>6, <1>7, <1>8

(* Answered results stay answered: they are asked for once.                *)
LEMMA AnsweredStays ==
  ASSUME AnyPolls, BookInv, [MonitorNext]_monitorVars,
         NEW h \in FirstHeight..MaxHeight, Answered(h)
  PROVE  Answered(h)'
<1>1. last_processed_height' >= last_processed_height
  BY MonitorPumps, CursorRises DEF BookInv, MonitorInv
<1>2. h \in Nat /\ last_processed_height \in Nat /\ last_processed_height' \in Nat
  <2>1. last_processed_height' \in Nat
    BY MonitorPumps, TypeKept DEF BookInv, MonitorInv, TypeOK
  <2>2. QED
    BY <2>1, PipelineAssumption DEF BookInv, MonitorInv, TypeOK
<1>3. ASSUME NEW x \in Pending', x.height = h
      PROVE  FALSE
  <2>1. x \in InFlight' /\ IsResultsJob(x)
    BY PendingInFlightNext
  <2>2. HasHeight(x) /\ ~ForNextBlock(x) /\ x.kind # "Head"
    BY <2>1 DEF HasHeight, ForNextBlock, IsResultsJob
  <2>3. ~FromBefore(x)
    <3>1. SUFFICES ASSUME NEW y \in InFlight, x = y \/ Continues(x, y) PROVE FALSE
      BY DEF FromBefore
    <3>2. IsResultsJob(y) /\ y.height = h
      BY <1>3, <2>1, <3>1, ResultsJobTypes DEF Continues
    <3>3. y \in Pending
      BY <3>2, PendingInFlight
    <3>4. QED
      BY <3>2, <3>3 DEF Answered
  <2>4. CASE HandleBlockData
    <3> DEFINE creations == BlockData.poll_creations
    <3>1. HandleBlock(creations)
      BY <2>4, BlockDataType DEF BookInv
    <3> HIDE DEF creations
    <3>2. x = FetchBlockResults(Head(msgQ).height, creations, 0)
      BY <2>1, <2>2, <2>3, <3>1, BlockMoves DEF BookInv, MonitorInv
    <3>3. x.height = last_processed_height + 1
      BY <2>4, <3>2, BlockHeight DEF FetchBlockResults
    <3>4. QED
      BY <1>2, <1>3, <3>3 DEF Answered
  <2>5. CASE NoBlockStep \/ UNCHANGED vars
    BY <2>1, <2>2, <2>3, <2>5, OtherMoves DEF BookInv, MonitorInv
  <2>6. QED
    BY <2>4, <2>5 DEF MonitorNext, MonitorProcessingStep, MonitorFeederTick,
       MonitorIoStep, HandleBlockResultsData, HandleChainParamsData,
       HandleHeadData, PublishMetricsData, OtherStep, NoBlockStep, monitorVars
<1>4. h <= last_processed_height'
  BY <1>1, <1>2 DEF Answered
<1>5. QED
  BY <1>3, <1>4 DEF Answered

(* The two steps that change polls, and the others.                        *)
LEMMA OthersKeepPolls ==
  ASSUME [MonitorNext]_monitorVars, ~HandleBlockData, ~HandleBlockResultsData
  PROVE  UNCHANGED <<polls, expired_poll_ids, chain_height>>
<1>1. chain_height' = chain_height
  BY HeightStays
<1>2. QED
  BY <1>1 DEF MonitorNext, MonitorProcessingStep, MonitorFeederTick,
     MonitorIoStep, HandleChainParamsData, HandleHeadData, PublishMetricsData,
     OtherStep, monitorVars, dataVars, pollVars

(* Every step keeps deadlines ahead and ids accounted for.                 *)
LEMMA StepKeepsBook ==
  ASSUME AnyPolls, LongPolls, BookInv, [MonitorNext]_monitorVars
  PROVE  DeadlineKept' /\ IdsInv'
<1>1. ASSUME NEW id \in DOMAIN polls \cup expired_poll_ids
      PROVE  \E h \in FirstHeight..MaxHeight :
               Answered(h)' /\ id \in PollIds(history'.results[h])
  <2>1. PICK h \in FirstHeight..MaxHeight :
          Answered(h) /\ id \in PollIds(history.results[h])
    BY DEF BookInv, IdsInv
  <2>2. Answered(h)'
    BY <2>1, AnsweredStays
  <2>3. QED
    BY <2>1, <2>2, HistoryConstant
<1>2. CASE HandleBlockData
  <2> DEFINE h == Head(msgQ).height
             due == {id \in DOMAIN polls : polls[id].data.expiry_height <= h}
  <2>1. /\ DOMAIN polls' = DOMAIN polls \ due
        /\ \A id \in DOMAIN polls' : polls'[id].data.expiry_height > h
        /\ expired_poll_ids' = expired_poll_ids \cup due
    BY <1>2, BlockStepData DEF BookInv
  <2>2. chain_height' = h
    BY <1>2, BlockHeight
  <2>3. due \subseteq DOMAIN polls
    OBVIOUS
  <2> HIDE DEF due, h
  <2>4. DeadlineKept'
    BY <2>1, <2>2 DEF DeadlineKept
  <2>5. DOMAIN polls' \cup expired_poll_ids' \subseteq DOMAIN polls \cup expired_poll_ids
    BY <2>1, <2>3
  <2>6. IdsInv'
    BY <1>1, <2>5 DEF IdsInv
  <2>7. QED
    BY <2>4, <2>6
<1>3. CASE HandleBlockResultsData
  <2>1. PICK h : h = Head(msgQ).height
    OBVIOUS
  <2>2. /\ Answered(h)' /\ h \in FirstHeight..MaxHeight
        /\ UNCHANGED <<expired_poll_ids, chain_height>>
    BY <1>3, <2>1, NewPolls
  <2>3. PICK new \in SUBSET PollIds(history.results[h]) :
          /\ DOMAIN polls' = DOMAIN polls \cup new
          /\ \A id \in DOMAIN polls : polls'[id] = polls[id]
          /\ \A id \in new : polls'[id].data.expiry_height > chain_height
    BY <1>3, <2>1, NewPolls
  <2>4. DeadlineKept'
    BY <2>2, <2>3 DEF DeadlineKept, BookInv
  <2>5. ASSUME NEW id \in new
        PROVE  \E g \in FirstHeight..MaxHeight :
                 Answered(g)' /\ id \in PollIds(history'.results[g])
    BY <2>2, <2>5, HistoryConstant
  <2>6. DOMAIN polls' \cup expired_poll_ids' = (DOMAIN polls \cup expired_poll_ids) \cup new
    BY <2>2, <2>3
  <2>7. IdsInv'
    BY <1>1, <2>5, <2>6 DEF IdsInv
  <2>8. QED
    BY <2>4, <2>7
<1>4. CASE ~HandleBlockData /\ ~HandleBlockResultsData
  <2>1. UNCHANGED <<polls, expired_poll_ids, chain_height>>
    BY <1>4, OthersKeepPolls
  <2>2. IdsInv'
    BY <1>1, <2>1 DEF IdsInv
  <2>3. QED
    BY <2>1, <2>2 DEF DeadlineKept, BookInv
<1>5. QED
  BY <1>2, <1>3, <1>4

(* The strengthened invariant holds of every behaviour of the monitor.     *)
LEMMA BookInvHolds ==
  ASSUME AnyPolls, SteadyNode, LongPolls
  PROVE  MonitorSpec => []BookInv
<1> DEFINE PumpInv == PipelineInv /\ ResultsInv /\ SkipInv
<1>1. MonitorInit => DeadlineKept /\ IdsInv
  BY DEF MonitorInit, DeadlineKept, IdsInv
<1>2. /\ MonitorInv /\ PumpInv /\ DeadlineKept /\ IdsInv /\ [MonitorNext]_monitorVars
        => DeadlineKept' /\ IdsInv'
  BY StepKeepsBook DEF BookInv
<1>3. MonitorInv /\ PumpInv /\ DeadlineKept /\ IdsInv => BookInv
  BY DEF BookInv
<1>4. Spec => []PumpInv
  BY LagHolds
<1>5. MonitorSpec => Spec
  BY MonitorIsThePump
<1> HIDE DEF PumpInv
<1>6. QED
  BY <1>1, <1>2, <1>3, <1>4, <1>5, MonitorInvHolds, PTL DEF MonitorSpec

----------------------------------------------------------------------------
(* Theorems about deadlines.                                               *)

(* No open poll is past its deadline: those registered late are still in   *)
(* time, and every processed block removes those that are due.             *)
THEOREM DeadlinesAreKept ==
  ASSUME AnyPolls, SteadyNode, LongPolls
  PROVE  MonitorSpec => []DeadlineKept
<1>1. BookInv => DeadlineKept
  BY DEF BookInv
<1>2. QED
  BY <1>1, BookInvHolds, PTL

(* What PollBook sees of the open polls.                                   *)
OpenBook ==
  [id \in DOMAIN polls |->
     [deadline |-> polls[id].data.expiry_height, votes |-> polls[id].votes]]

(* The book has the deadline and the votes of every open poll.             *)
LEMMA BookEntries ==
  /\ DOMAIN OpenBook = DOMAIN polls
  /\ \A id \in DOMAIN polls : /\ OpenBook[id].deadline = polls[id].data.expiry_height
                              /\ OpenBook[id].votes = polls[id].votes
  BY DEF OpenBook

(* The same after a step.                                                  *)
LEMMA BookEntriesNext ==
  /\ DOMAIN OpenBook' = DOMAIN polls'
  /\ \A id \in DOMAIN polls' : /\ OpenBook'[id].deadline = polls'[id].data.expiry_height
                               /\ OpenBook'[id].votes = polls'[id].votes
  BY DEF OpenBook

(* PollBook's two steps, in terms of the monitor's variables.              *)
LEMMA BookSteps ==
  /\ Book!Register
       <=> /\ DOMAIN OpenBook \subseteq DOMAIN OpenBook'
           /\ \A id \in DOMAIN OpenBook : OpenBook'[id] = OpenBook[id]
           /\ \A id \in DOMAIN OpenBook' \ DOMAIN OpenBook :
                /\ id \notin expired_poll_ids
                /\ OpenBook'[id].deadline \in Nat
                /\ OpenBook'[id].deadline > chain_height
                /\ OpenBook'[id].votes = <<>>
           /\ UNCHANGED <<expired_poll_ids, chain_height>>
  /\ Book!Advance
       <=> LET due == {id \in DOMAIN OpenBook : OpenBook[id].deadline <= chain_height'}
           IN  /\ chain_height' \in Nat /\ chain_height' > chain_height
               /\ expired_poll_ids' = expired_poll_ids \cup due
               /\ DOMAIN OpenBook' = DOMAIN OpenBook \ due
               /\ \A id \in DOMAIN OpenBook' :
                    /\ OpenBook'[id].deadline = OpenBook[id].deadline
                    /\ IsPrefix(OpenBook[id].votes, OpenBook'[id].votes)
<1>1. \A s, t : Book!IsPrefix(s, t) <=> IsPrefix(s, t)
  BY DEF Book!IsPrefix, IsPrefix
<1>2. QED
  BY <1>1 DEF Book!Register, Book!Advance, Book!Due, OpenBook

(* The data of the monitor is a book of polls, whatever fails on the way.  *)
THEOREM MonitorImplementsPollBook ==
  ASSUME AnyPolls, SteadyNode, LongPolls
  PROVE  MonitorSpec => ImplementsPollBook
<1>1. MonitorInit => Book!Init
  BY DEF MonitorInit, Init, Book!Init
<1>2. BookInv /\ [MonitorNext]_monitorVars => [Book!Next]_Book!bookVars
  <2> SUFFICES ASSUME BookInv, [MonitorNext]_monitorVars
               PROVE  \/ Book!Register \/ Book!Advance
                      \/ UNCHANGED <<polls, expired_poll_ids, chain_height>>
    BY DEF Book!Next, Book!bookVars
  <2>1. CASE HandleBlockData
    <3> DEFINE h == Head(msgQ).height
               due == {id \in DOMAIN polls : polls[id].data.expiry_height <= h}
    <3>1. /\ DOMAIN polls' = DOMAIN polls \ due
          /\ \A id \in DOMAIN polls' :
               /\ polls'[id].data = polls[id].data
               /\ IsPrefix(polls[id].votes, polls'[id].votes)
          /\ expired_poll_ids' = expired_poll_ids \cup due
      BY <2>1, BlockStepData DEF BookInv
    <3>2. /\ chain_height' = h /\ chain_height' \in Nat
          /\ chain_height' > chain_height
      BY <2>1, BlockHeight
    <3>3. due = {id \in DOMAIN OpenBook : OpenBook[id].deadline <= chain_height'}
      BY <3>2, BookEntries
    <3> HIDE DEF h, due
    <3>4. ASSUME NEW id \in DOMAIN polls'
          PROVE  /\ OpenBook'[id].deadline = OpenBook[id].deadline
                 /\ IsPrefix(OpenBook[id].votes, OpenBook'[id].votes)
      BY <3>1, BookEntries, BookEntriesNext
    <3>5. Book!Advance
      BY <3>1, <3>2, <3>3, <3>4, BookEntries, BookEntriesNext, BookSteps
    <3>6. QED
      BY <3>5
  <2>2. CASE HandleBlockResultsData
    <3>1. PICK h : h = Head(msgQ).height
      OBVIOUS
    <3>2. UNCHANGED <<expired_poll_ids, chain_height>>
      BY <2>2, <3>1, NewPolls
    <3>3. PICK new \in SUBSET PollIds(history.results[h]) :
            /\ DOMAIN polls' = DOMAIN polls \cup new
            /\ new \cap (DOMAIN polls \cup expired_poll_ids) = {}
            /\ \A id \in DOMAIN polls : polls'[id] = polls[id]
            /\ \A id \in new : /\ IsPoll(polls'[id]) /\ polls'[id].votes = <<>>
                               /\ polls'[id].data.expiry_height > chain_height
      BY <2>2, <3>1, NewPolls
    <3>4. ASSUME NEW id \in DOMAIN polls
          PROVE  OpenBook'[id] = OpenBook[id]
      BY <3>3 DEF OpenBook
    <3>5. ASSUME NEW id \in DOMAIN polls' \ DOMAIN polls
          PROVE  /\ id \notin expired_poll_ids
                 /\ OpenBook'[id].deadline \in Nat
                 /\ OpenBook'[id].deadline > chain_height
                 /\ OpenBook'[id].votes = <<>>
      BY <3>3, BookEntriesNext DEF IsPoll, Heights
    <3>6. Book!Register
      BY <3>2, <3>3, <3>4, <3>5, BookEntries, BookEntriesNext, BookSteps
    <3>7. QED
      BY <3>6
  <2>3. CASE ~HandleBlockData /\ ~HandleBlockResultsData
    BY <2>3, OthersKeepPolls
  <2>4. QED
    BY <2>1, <2>2, <2>3
<1>3. QED
  BY <1>1, <1>2, BookInvHolds, PTL DEF MonitorSpec, ImplementsPollBook, Book!Spec

----------------------------------------------------------------------------
(* The series.  The counters that rise are those of loaded chains: a poll  *)
(* is requested on one, parameters do not go away, and its votes name the  *)
(* same chain, in whatever spelling.                                       *)

RequestsAt(h) == RequestsIn(history.blocks[h])
IdsAt(h) == TxToPollIds(history.results[h])
Loaded(chain) == chain \in DOMAIN Lower /\ Lower[chain] \in DOMAIN chain_params

(* A creation that waits for its id was requested in that block.           *)
Wanted(d, h) ==
  Loaded(d.chain) /\ \E r \in RequestsAt(h) : d.chain = r.chain /\ d.tx = r.tx
WantedInv ==
  \A x \in InFlight : IsResultsJob(x) => \A d \in Range(x.polls) : Wanted(d, x.height)

(* An open poll was requested in the block that announced its id, and its  *)
(* votes name its chain.                                                   *)
Announces(id, chain) ==
  \E h \in FirstHeight..MaxHeight : \E r \in RequestsAt(h) :
    chain = r.chain /\ r.tx \in DOMAIN IdsAt(h) /\ IdsAt(h)[r.tx] = id
Vouched(id, poll) ==
  /\ IsList(poll.votes)
  /\ Loaded(poll.data.chain) /\ Announces(id, poll.data.chain)
  /\ \A v \in Range(poll.votes) : SameChain(v.chain, poll.data.chain)
PollsKnown == \A id \in DOMAIN polls : Vouched(id, polls[id])

SeriesInv == MonitorInv /\ SeriesRegistered /\ WantedInv /\ PollsKnown

(* A series is that of the chain in lower case.                            *)
LEMMA SeriesByLower ==
  ASSUME NEW c \in DOMAIN Lower, NEW d \in DOMAIN Lower, Lower[c] = Lower[d]
  PROVE  SeriesOf(c) = SeriesOf(d)
BY DEF SeriesOf, Key

(* What a verdict counts is in the series of the poll's chain.             *)
LEMMA OutcomesInSeries ==
  ASSUME NEW id, NEW poll, poll.data.chain \in DOMAIN Lower,
         IsList(poll.votes),
         \A v \in Range(poll.votes) : SameChain(v.chain, poll.data.chain),
         NEW o \in AnalyzePollCompletion(id, poll)
  PROVE  o.key \in SeriesOf(poll.data.chain)
<1>1. CASE o \in CountMissed(id, poll)
  <2>1. PICK i \in DOMAIN Broadcasters :
          o = [poll |-> id, entry |-> i,
               key |-> Key(Broadcasters[i].name, poll.data.chain, "missed")]
    BY <1>1 DEF CountMissed
  <2>2. Broadcasters[i].name \in Names
    BY DEF Names
  <2>3. o.key = Key(Broadcasters[i].name, poll.data.chain, "missed")
    BY <2>1
  <2>4. QED
    BY <2>2, <2>3 DEF SeriesOf, VoteResultType
<1>2. CASE o \in CountVotes(id, poll)
  <2>1. PICK i \in Known(poll.votes) :
          o.key = Key(NameOf(poll.votes[i].sender_id), poll.votes[i].chain,
                      Verdict(poll.votes[i], poll.votes))
    BY <1>2 DEF CountVotes
  <2>2. i \in DOMAIN poll.votes /\ poll.votes[i].sender_id \in Addresses
    BY DEF Known
  <2>3. NameOf(poll.votes[i].sender_id) \in Names
    BY <2>2, NameIsConfigured DEF Names
  <2>4. SameChain(poll.votes[i].chain, poll.data.chain)
    BY <2>2, ListFacts
  <2>5. Verdict(poll.votes[i], poll.votes) \in VoteResultType
    BY DEF Verdict, VoteResultType
  <2>6. o.key \in SeriesOf(poll.votes[i].chain)
    BY <2>1, <2>3, <2>5 DEF SeriesOf
  <2>7. QED
    BY <2>4, <2>6, SeriesByLower DEF SameChain
<1>3. QED
  BY <1>1, <1>2 DEF AnalyzePollCompletion

(* The series of a loaded chain are registered.                            *)
LEMMA LoadedSeries ==
  ASSUME MonitorInv, NEW chain, Loaded(chain)
  PROVE  SeriesOf(chain) \subseteq RegisteredSeries(DOMAIN chain_params)
<1>1. Lower[chain] \in DOMAIN Lower /\ Lower[Lower[chain]] = Lower[chain]
      /\ chain \in DOMAIN Lower
  BY TallyAssumption DEF Loaded
<1>2. SeriesOf(chain) = SeriesOf(Lower[chain])
  BY <1>1, SeriesByLower
<1>3. QED
  BY <1>2 DEF RegisteredSeries, Loaded

(* Judging polls of loaded chains adds no series.                          *)
LEMMA JudgeKeepsSeries ==
  ASSUME MonitorInv, NEW open, NEW ids,
         \A id \in ids :
           /\ Loaded(open[id].data.chain) /\ IsList(open[id].votes)
           /\ \A v \in Range(open[id].votes) : SameChain(v.chain, open[id].data.chain),
         NEW results, DOMAIN results = RegisteredSeries(DOMAIN chain_params)
  PROVE  DOMAIN Judge(open, ids, results) = RegisteredSeries(DOMAIN chain_params)
<1> DEFINE S == UNION {AnalyzePollCompletion(id, open[id]) : id \in ids}
<1>1. DOMAIN Judge(open, ids, results) = DOMAIN results \cup {o.key : o \in S}
  BY DEF Judge, Counted
<1>2. ASSUME NEW o \in S PROVE o.key \in RegisteredSeries(DOMAIN chain_params)
  <2>1. PICK id \in ids : o \in AnalyzePollCompletion(id, open[id])
    OBVIOUS
  <2> DEFINE poll == open[id]
  <2>2. /\ Loaded(poll.data.chain) /\ IsList(poll.votes)
        /\ \A v \in Range(poll.votes) : SameChain(v.chain, poll.data.chain)
        /\ o \in AnalyzePollCompletion(id, poll)
    BY <2>1
  <2> HIDE DEF poll
  <2>3. o.key \in SeriesOf(poll.data.chain)
    BY <2>2, OutcomesInSeries DEF Loaded
  <2>4. QED
    BY <2>2, <2>3, LoadedSeries
<1> HIDE DEF S
<1>3. QED
  BY <1>1, <1>2

(* Chains stay loaded, and what they asked for stays asked for.            *)
LEMMA LoadedStays ==
  ASSUME MonitorInv, [MonitorNext]_monitorVars
  PROVE  /\ history' = history
         /\ DOMAIN chain_params \subseteq DOMAIN chain_params'
         /\ \A d, h : Wanted(d, h) => Wanted(d, h)'
<1>1. history' = history
  BY HistoryConstant
<1>2. DOMAIN chain_params \subseteq DOMAIN chain_params'
  <2>1. CASE HandleChainParamsData
    <3>1. chain_params' = WithParams(chain_params, Head(msgQ).chain)
      BY <2>1 DEF HandleChainParamsData
    <3>2. QED
      BY <3>1 DEF WithParams
  <2>2. CASE HandleBlockData \/ HandleBlockResultsData \/ PublishMetricsData
    BY <2>2 DEF HandleBlockData, HandleBlockResultsData, PublishMetricsData, pollVars
  <2>3. CASE QuietStep
    BY <2>3, QuietData DEF pollVars
  <2>4. QED
    BY <2>1, <2>2, <2>3 DEF MonitorNext, MonitorProcessingStep, QuietStep
<1>3. QED
  BY <1>1, <1>2 DEF Wanted, Loaded, RequestsAt

(* Every step keeps the requests for results to what was asked for.        *)
LEMMA StepKeepsWanted ==
  ASSUME AnyPolls, MonitorInv, WantedInv, [MonitorNext]_monitorVars
  PROVE  WantedInv'
<1>1. ASSUME NEW x, FromBefore(x), IsResultsJob(x), NEW d \in Range(x.polls)
      PROVE  Wanted(d, x.height)'
  <2>1. PICK y \in InFlight : x = y \/ Continues(x, y)
    BY <1>1 DEF FromBefore
  <2>2. IsResultsJob(y) /\ x.height = y.height /\ x.polls = y.polls
    BY <1>1, <2>1, ResultsJobTypes DEF Continues
  <2>3. Wanted(d, x.height)
    BY <1>1, <2>2 DEF WantedInv
  <2>4. QED
    BY <2>3, LoadedStays
<1>2. ASSUME NEW x \in InFlight', IsResultsJob(x), NEW d \in Range(x.polls)
      PROVE  Wanted(d, x.height)'
  <2>1. /\ HasHeight(x) /\ ~ForNextBlock(x) /\ x.kind # "Head"
        /\ x.kind \in {"FetchBlockResults", "BlockResults", "FetchBlockResultsError"}
    BY <1>2 DEF HasHeight, ForNextBlock, IsResultsJob
  <2>2. CASE NoBlockStep \/ UNCHANGED vars
    BY <1>1, <1>2, <2>1, <2>2, OtherMoves DEF MonitorInv
  <2>3. CASE HandleBlockData
    <3> DEFINE h == Head(msgQ).height
               block == history.blocks[h]
               creations == BlockData.poll_creations
    <3>1. HandleBlock(creations) /\ h \in FirstHeight..MaxHeight
      BY <2>3, BlockDataType
    <3>2. /\ creations \in Seq(CreationsAt(chain_params, h))
          /\ \A c \in Range(creations) : \E r \in RequestsAt(h) :
               c.chain = r.chain /\ c.tx = r.tx
      <4>1. WellFormedBlock(block)
        BY <3>1, ChainAssumption DEF MonitorInv, DataInv
      <4>2. PollRequests(GetTxs(block)) \in Seq(Request)
        BY <4>1, PollRequestsType
      <4>3. \A c \in DOMAIN chain_params : chain_params[c] \in Nat
        BY PeriodsType DEF MonitorInv, DataInv, ParamsInv
      <4>4. h \in Nat
        BY <3>1, PipelineAssumption
      <4>5. creations = PollCreations(PollRequests(GetTxs(block)), chain_params, h)
        BY DEF BlockData, ProcessBlock
      <4> HIDE DEF block, h, creations
      <4>6. QED
        BY <4>2, <4>3, <4>4, <4>5, PollCreationsAre DEF RequestsAt, RequestsIn, block
    <3> HIDE DEF creations, h
    <3>3. FromBefore(x) \/ x = FetchBlockResults(h, creations, 0)
      BY <1>2, <2>1, <3>1, BlockMoves DEF MonitorInv, h
    <3>4. CASE x = FetchBlockResults(h, creations, 0)
      <4>1. x.height = h /\ x.polls = creations
        BY <3>4 DEF FetchBlockResults
      <4>2. d \in CreationsAt(chain_params, h)
        BY <1>2, <3>2, <4>1, ListFacts
      <4>3. Wanted(d, h)
        BY <1>2, <3>2, <4>1, <4>2 DEF Wanted, Loaded, CreationsAt
      <4>4. QED
        BY <4>1, <4>3, LoadedStays
    <3>5. QED
      BY <1>1, <1>2, <3>3, <3>4
  <2>4. QED
    BY <2>2, <2>3 DEF MonitorNext, MonitorProcessingStep, MonitorFeederTick,
       MonitorIoStep, HandleBlockResultsData, HandleChainParamsData,
       HandleHeadData, PublishMetricsData, OtherStep, NoBlockStep, monitorVars
<1>3. QED
  BY <1>2 DEF WantedInv

(* The votes of a block name the chains of their polls.                    *)
LEMMA VotesVouched ==
  ASSUME AnyPolls, VotesNameTheChain, SeriesInv, HandleBlockData
  PROVE  LET open == WithVotes(polls, BlockData.votes)
         IN  /\ DOMAIN open = DOMAIN polls
             /\ \A id \in DOMAIN open : Vouched(id, open[id])
<1> DEFINE open == WithVotes(polls, BlockData.votes)
           h == Head(msgQ).height
<1>1. MonitorInv /\ history \in Histories
  BY DEF SeriesInv, MonitorInv, DataInv
<1>2. IsList(BlockData.votes) /\ h \in FirstHeight..MaxHeight
  BY <1>1, BlockDataType
<1>3. BlockData.votes = GetVotesFromTxs(GetTxs(history.blocks[h]))
  BY DEF BlockData, ProcessBlock
<1>4. \A id \in DOMAIN polls : IsPoll(polls[id])
  BY <1>1 DEF MonitorInv, DataInv, PollsInv
<1>5. /\ DOMAIN open = DOMAIN polls
      /\ \A id \in DOMAIN polls :
           /\ IsPoll(open[id]) /\ open[id].data = polls[id].data
           /\ \A v \in Range(open[id].votes) :
                \/ v \in Range(polls[id].votes)
                \/ v \in Range(BlockData.votes) /\ v.poll_id = id
  BY <1>2, <1>4, WithVotesFacts
<1> HIDE DEF open, h
<1>6. ASSUME NEW id \in DOMAIN polls PROVE Vouched(id, open[id])
  <2> DEFINE chain == polls[id].data.chain
  <2>1. /\ Loaded(chain) /\ Announces(id, chain)
        /\ \A v \in Range(polls[id].votes) : SameChain(v.chain, chain)
    BY DEF SeriesInv, PollsKnown, Vouched
  <2>2. PICK m \in FirstHeight..MaxHeight : \E r \in RequestsAt(m) :
          chain = r.chain /\ r.tx \in DOMAIN IdsAt(m) /\ IdsAt(m)[r.tx] = id
    BY <2>1 DEF Announces
  <2>3. PICK r \in RequestsAt(m) :
          chain = r.chain /\ r.tx \in DOMAIN IdsAt(m) /\ IdsAt(m)[r.tx] = id
    BY <2>2
  <2>4. ASSUME NEW v \in Range(open[id].votes) PROVE SameChain(v.chain, chain)
    <3>1. CASE v \in Range(polls[id].votes)
      BY <2>1, <3>1
    <3>2. CASE v \in Range(BlockData.votes) /\ v.poll_id = id
      <4>1. v \in Range(VotesIn(history.blocks[h]))
        BY <1>3, <3>2 DEF VotesIn
      <4>2. r \in RequestsIn(history.blocks[m])
        BY DEF RequestsAt
      <4>3. /\ r.tx \in DOMAIN TxToPollIds(history.results[m])
            /\ TxToPollIds(history.results[m])[r.tx] = v.poll_id
        BY <2>3, <3>2 DEF IdsAt
      <4>4. SameChain(v.chain, r.chain)
        BY <1>1, <1>2, <4>1, <4>2, <4>3 DEF VotesNameTheChain
      <4>5. QED
        BY <2>3, <4>4
    <3>3. QED
      BY <1>5, <3>1, <3>2
  <2>5. IsList(open[id].votes) /\ open[id].data.chain = chain
    BY <1>5 DEF IsPoll
  <2> HIDE DEF chain
  <2>6. QED
    BY <2>1, <2>4, <2>5 DEF Vouched
<1>7. QED
  BY <1>5, <1>6 DEF open

(* Every step keeps the series and the polls' chains.                      *)
LEMMA StepKeepsSeries ==
  ASSUME AnyPolls, VotesNameTheChain, SeriesInv, [MonitorNext]_monitorVars
  PROVE  SeriesRegistered' /\ PollsKnown'
<1>1. /\ MonitorInv /\ SeriesRegistered /\ WantedInv
      /\ \A id \in DOMAIN polls : Vouched(id, polls[id])
  BY DEF SeriesInv, PollsKnown
<1>2. ASSUME \A id \in DOMAIN polls' : Vouched(id, polls'[id]) PROVE PollsKnown'
  <2>1. history' = history /\ DOMAIN chain_params \subseteq DOMAIN chain_params'
    BY <1>1, LoadedStays
  <2>2. QED
    BY <1>2, <2>1 DEF PollsKnown, Vouched, Loaded, Announces, RequestsAt, IdsAt
<1>3. CASE QuietStep \/ PublishMetricsData
  <2>1. UNCHANGED <<chain_params, polls, vote_results>>
    BY <1>3, QuietData DEF PublishMetricsData, pollVars
  <2>2. QED
    BY <1>1, <1>2, <2>1 DEF SeriesRegistered
<1>4. CASE HandleChainParamsData
  <2> DEFINE c == Head(msgQ).chain
  <2>1. c \in DOMAIN Lower /\ Lower[c] \in DOMAIN Lower /\ Lower[Lower[c]] = Lower[c]
    <3>1. Head(msgQ) \in IoResult /\ Head(msgQ).kind = "ChainParams"
      BY <1>1, <1>4, HandlerMoves DEF HandleChainParamsData, HandleChainParams, MonitorInv
    <3>2. c \in Chains
      BY <3>1 DEF IoResult
    <3>3. QED
      BY <3>2, MonitorAssumption, TallyAssumption
  <2>2. /\ chain_params' = WithParams(chain_params, c)
        /\ vote_results' = Register(vote_results, c) /\ polls' = polls
    BY <1>4 DEF HandleChainParamsData
  <2> HIDE DEF c
  <2>3. DOMAIN chain_params' = DOMAIN chain_params \cup {Lower[c]}
    BY <2>2 DEF WithParams
  <2>4. DOMAIN vote_results' = DOMAIN vote_results \cup SeriesOf(Lower[c])
    <3>1. SeriesOf(c) = SeriesOf(Lower[c])
      BY <2>1, SeriesByLower
    <3>2. QED
      BY <2>2, <3>1 DEF Register
  <2>5. SeriesRegistered'
    BY <1>1, <2>3, <2>4 DEF SeriesRegistered, RegisteredSeries
  <2>6. QED
    BY <1>1, <1>2, <2>2, <2>5
<1>5. CASE HandleBlockData
  <2> DEFINE open == WithVotes(polls, BlockData.votes)
             h == Head(msgQ).height
  <2>1. /\ vote_results' = Judge(open, Expiring(open, h), vote_results)
        /\ polls' = Pruned(open, h) /\ chain_params' = chain_params
    BY <1>5 DEF HandleBlockData, BlockData
  <2>2. \A id \in DOMAIN open : Vouched(id, open[id])
    BY <1>5, VotesVouched
  <2> HIDE DEF open, h
  <2>3. \A id \in DOMAIN polls' : id \in DOMAIN open /\ polls'[id] = open[id]
    BY <2>1 DEF Pruned, Restrict
  <2>4. DOMAIN vote_results' = RegisteredSeries(DOMAIN chain_params)
    <3>1. \A id \in Expiring(open, h) : Vouched(id, open[id])
      BY <2>2 DEF Expiring
    <3>2. QED
      BY <1>1, <2>1, <3>1, JudgeKeepsSeries DEF SeriesRegistered, Vouched
  <2>5. QED
    BY <1>2, <2>1, <2>2, <2>3, <2>4 DEF SeriesRegistered
<1>6. CASE HandleBlockResultsData
  <2> DEFINE m == Head(msgQ)
             ids == TxToPollIds(history.results[m.height])
  <2>1. /\ polls' = Opened(polls, m.polls, ids)
        /\ UNCHANGED <<chain_params, vote_results>>
    BY <1>6 DEF HandleBlockResultsData
  <2>2. m \in InFlight /\ IsResultsJob(m) /\ m.height \in FirstHeight..MaxHeight
    BY <1>1, <1>6, ResultsStepData
  <2>3. m.polls \in Seq(OpenedAt(m.height))
    BY <1>1, <2>2 DEF MonitorInv, DataInv, CreationsInv
  <2>4. OpenedAs(polls', polls, m.polls, ids)
    BY <2>1, <2>3, OpenedFacts
  <2>5. PICK new \in SUBSET {ids[t] : t \in DOMAIN ids} :
          /\ DOMAIN polls' = DOMAIN polls \cup new
          /\ \A id \in DOMAIN polls : id \notin new => polls'[id] = polls[id]
          /\ \A id \in new : \E d \in Range(m.polls) :
               /\ d.tx \in DOMAIN ids /\ ids[d.tx] = id
               /\ polls'[id] = [data |-> d, votes |-> <<>>]
    BY <2>4 DEF OpenedAs
  <2>6. ASSUME NEW id \in new PROVE Vouched(id, polls'[id])
    <3>1. PICK d \in Range(m.polls) :
            /\ d.tx \in DOMAIN ids /\ ids[d.tx] = id
            /\ polls'[id] = [data |-> d, votes |-> <<>>]
      BY <2>5
    <3>2. Wanted(d, m.height)
      BY <1>1, <2>2 DEF WantedInv
    <3>3. Announces(id, d.chain)
      BY <2>2, <3>1, <3>2 DEF Announces, Wanted, IdsAt
    <3>4. polls'[id].data = d /\ polls'[id].votes = <<>>
      BY <3>1
    <3>5. IsList(polls'[id].votes) /\ Range(polls'[id].votes) = {}
      BY <3>4, SmallLists, ListFacts, ShortMembers
    <3>6. QED
      BY <3>2, <3>3, <3>4, <3>5 DEF Vouched, Wanted
  <2>7. \A id \in DOMAIN polls' : Vouched(id, polls'[id])
    BY <1>1, <2>5, <2>6
  <2>8. QED
    BY <1>1, <1>2, <2>1, <2>7 DEF SeriesRegistered
<1>7. QED
  BY <1>3, <1>4, <1>5, <1>6
     DEF MonitorNext, MonitorProcessingStep, QuietStep

(* Every outcome lands in a series that was exposed at 0 before, whatever  *)
(* spelling the config, the node, the request and the vote use.            *)
THEOREM SeriesAreRegistered ==
  ASSUME AnyPolls, VotesNameTheChain
  PROVE  MonitorSpec => []SeriesRegistered
<1>1. ASSUME MonitorInit PROVE SeriesRegistered /\ WantedInv /\ PollsKnown
  <2>1. SeriesRegistered
    BY <1>1 DEF MonitorInit, SeriesRegistered
  <2>2. WantedInv
    <3>1. InFlight = {FetchChainList}
      BY <1>1, ShortMembers DEF MonitorInit, Init, InFlight
    <3>2. QED
      BY <3>1 DEF WantedInv, IsResultsJob, FetchChainList
  <2>3. PollsKnown
    BY <1>1 DEF MonitorInit, PollsKnown
  <2>4. QED
    BY <2>1, <2>2, <2>3
<1>2. ASSUME MonitorInv, MonitorInv', [MonitorNext]_monitorVars,
             SeriesRegistered /\ WantedInv /\ PollsKnown
      PROVE  (SeriesRegistered /\ WantedInv /\ PollsKnown)'
  BY <1>2, StepKeepsWanted, StepKeepsSeries DEF SeriesInv
<1>3. QED
  BY <1>1, <1>2, MonitorInvHolds, PTL DEF MonitorSpec

----------------------------------------------------------------------------
(* Votes: what the open polls hold is what the chain took.                 *)

Accepted(id, h) == {c \in history.casts : c.poll = id /\ c.height <= h}
FoundAt(id, h) ==
  {c \in history.casts : /\ c.poll = id /\ c.height = h
                         /\ \E v \in Range(VotesAt(h)) : c = CastOf(v, h)}

(* The votes of a list are the casts of a set, one for one.                *)
Matches(v, c) == /\ v.poll_id = c.poll /\ v.sender_id = c.sender
                 /\ v.chain = c.chain /\ v.tx_id = c.tx
Traced(votes, C) ==
  \E g \in Bijection(1..Len(votes), C) : \A i \in 1..Len(votes) : Matches(votes[i], g[i])

(* The votes picked from a block are the casts found in it.                *)
LEMMA PickedTraced ==
  ASSUME VotesWereCast, history \in Histories, NEW h \in FirstHeight..MaxHeight,
         IsList(VotesAt(h)), NEW id
  PROVE  Traced(Picked(VotesAt(h), id), FoundAt(id, h))
<1> DEFINE votes == VotesAt(h)
           s == Picked(votes, id)
           N == Naming(votes, Len(votes), id)
<1>1. /\ DOMAIN votes = 1..Len(votes) /\ \A j \in 1..Len(votes) : votes[j] \in Range(votes)
  BY ListFacts
<1>2. PICK g \in Bijection(1..Len(s), N) : \A i \in 1..Len(s) : s[i] = votes[g[i]]
  BY PickedVotes DEF Picks
<1>3. /\ g \in [1..Len(s) -> N]
      /\ \A x, y \in 1..Len(s) : g[x] = g[y] => x = y
      /\ \A r \in N : \E d \in 1..Len(s) : g[d] = r
  BY <1>2, BijectionIs
<1>4. \A j \in N : j \in 1..Len(votes) /\ votes[j].poll_id = id
  BY DEF Naming
<1>5. \A i, j \in 1..Len(votes) :
         /\ CastOf(votes[i], h) \in history.casts
         /\ CastOf(votes[i], h) = CastOf(votes[j], h) => i = j
  BY <1>1 DEF VotesWereCast, VotesAt
<1>6. \A j \in N : CastOf(votes[j], h) \in FoundAt(id, h)
  BY <1>1, <1>4, <1>5 DEF FoundAt, CastOf
<1>7. \A c \in FoundAt(id, h) : \E j \in N : c = CastOf(votes[j], h)
  <2>1. SUFFICES ASSUME NEW c \in FoundAt(id, h) PROVE \E j \in N : c = CastOf(votes[j], h)
    OBVIOUS
  <2>2. PICK v \in Range(votes) : c = CastOf(v, h)
    BY <2>1 DEF FoundAt
  <2>3. PICK j \in 1..Len(votes) : v = votes[j]
    BY <1>1 DEF Range
  <2>4. votes[j].poll_id = id
    BY <2>1, <2>2, <2>3 DEF FoundAt, CastOf
  <2>5. QED
    BY <2>2, <2>3, <2>4 DEF Naming
<1> DEFINE f == [i \in 1..Len(s) |-> CastOf(votes[g[i]], h)]
           D == 1..Len(s)
           C == FoundAt(id, h)
<1>8. \A i \in D : f[i] = CastOf(votes[g[i]], h) /\ g[i] \in N
  BY <1>3
<1>9. f \in [D -> C]
  BY <1>6, <1>8
<1>10. ASSUME NEW i \in D PROVE Matches(s[i], f[i])
  <2>1. s[i] = votes[g[i]] /\ votes[g[i]].poll_id = id /\ f[i] = CastOf(votes[g[i]], h)
    BY <1>2, <1>4, <1>8
  <2> HIDE DEF f, s, votes
  <2>2. QED
    BY <2>1 DEF Matches, CastOf
<1> HIDE DEF f, D, C, N, s, votes
<1>11. \A x, y \in D : f[x] = f[y] => x = y
  BY <1>3, <1>4, <1>5, <1>8 DEF D
<1>12. \A c \in C : \E d \in D : f[d] = c
  BY <1>3, <1>7, <1>8 DEF C, D
<1>13. f \in Bijection(D, C)
  BY <1>9, <1>11, <1>12, BijectionIs
<1>14. QED
  BY <1>10, <1>13 DEF Traced, D, C, s, votes

(* Votes that are added to a list are casts added to a set.                *)
LEMMA TracedJoin ==
  ASSUME NEW S, NEW s \in Seq(S), NEW t \in Seq(S), NEW C, NEW D, C \cap D = {},
         Traced(s, C), Traced(t, D)
  PROVE  Traced(s \o t, C \cup D)
<1> DEFINE a == Len(s)
           b == Len(t)
<1>1. PICK g \in Bijection(1..a, C) : \A i \in 1..a : Matches(s[i], g[i])
  BY DEF Traced
<1>2. PICK f \in Bijection(1..b, D) : \A i \in 1..b : Matches(t[i], f[i])
  BY DEF Traced
<1> DEFINE e == [i \in 1..(a + b) |-> IF i <= a THEN g[i] ELSE f[i - a]]
           u == s \o t
<1>3. /\ a \in Nat /\ b \in Nat /\ Len(u) = a + b
      /\ \A i \in 1..(a + b) : u[i] = IF i <= a THEN s[i] ELSE t[i - a]
  OBVIOUS
<1>4. \A i \in 1..(a + b) : e[i] = IF i <= a THEN g[i] ELSE f[i - a]
  OBVIOUS
<1> HIDE DEF a, b, u
<1>5. e \in Bijection(1..(a + b), C \cup D)
  BY <1>1, <1>2, <1>3, BijectionJoined
<1> HIDE DEF e
<1>6. ASSUME NEW i \in 1..(a + b) PROVE Matches(u[i], e[i])
  <2>1. CASE i <= a
    <3>1. i \in 1..a
      BY <1>3, <2>1
    <3>2. QED
      BY <1>1, <1>3, <1>4, <2>1, <3>1
  <2>2. CASE ~(i <= a)
    <3>1. i - a \in 1..b
      BY <1>3, <2>2
    <3>2. QED
      BY <1>2, <1>3, <1>4, <2>2, <3>1
  <2>3. QED
    BY <2>1, <2>2
<1>7. QED
  BY <1>3, <1>5, <1>6 DEF Traced, u

(* A poll gets the votes that name it.                                     *)
LEMMA VotedVotes ==
  ASSUME NEW h, NEW id \in DOMAIN polls, IsPoll(polls[id])
  PROVE  Voted(h)[id].votes = polls[id].votes \o Picked(VotesAt(h), id)
<1> DEFINE s == Picked(VotesAt(h), id)
<1>1. Voted(h)[id] = [polls[id] EXCEPT !.votes = @ \o s]
  BY Zenon DEF Voted, WithVotes, Picked
<1>2. DOMAIN polls[id] = {"data", "votes"}
  BY DEF IsPoll
<1> HIDE DEF s
<1>3. Voted(h)[id].votes = polls[id].votes \o s
  BY <1>1, <1>2
<1>4. QED
  BY <1>3 DEF s

(* An empty list is no casts.                                              *)
LEMMA NoneTraced == Traced(<<>>, {})
<1> DEFINE f == [i \in {} |-> i]
<1>1. DOMAIN f = {} /\ f = [x \in DOMAIN f |-> f[x]]
  OBVIOUS
<1> HIDE DEF f
<1>2. f \in Bijection({}, {})
  BY <1>1, SmallBijections
<1>3. Len(<<>>) = 0 /\ 1..0 = {}
  OBVIOUS
<1>4. QED
  BY <1>2, <1>3 DEF Traced

(* The votes of an open poll are casts that the chain took up to the last  *)
(* processed block.                                                        *)
TracedInv ==
  \A id \in DOMAIN polls :
    \E C \in SUBSET Accepted(id, chain_height) : Traced(polls[id].votes, C)

(* Those of the next block are others.                                     *)
LEMMA VotedTraced ==
  ASSUME AnyPolls, VotesWereCast, BookInv, TracedInv, HandleBlockData,
         NEW h, h = Head(msgQ).height, NEW id \in DOMAIN polls
  PROVE  \E C \in SUBSET Accepted(id, h) : Traced(Voted(h)[id].votes, C)
<1>0. MonitorInv
  BY DEF BookInv
<1>1. h \in FirstHeight..MaxHeight /\ IsList(VotesAt(h))
  BY <1>0, BlockStepIs
<1>2. chain_height \in Nat /\ h \in Nat /\ h > chain_height
  BY BlockHeight
<1>3. PICK C \in SUBSET Accepted(id, chain_height) : Traced(polls[id].votes, C)
  BY DEF TracedInv
<1> DEFINE s == polls[id].votes
           t == Picked(VotesAt(h), id)
           D == FoundAt(id, h)
           S == Range(s) \cup Range(VotesAt(h))
<1>4. IsPoll(polls[id]) /\ history \in Histories
  BY DEF BookInv, MonitorInv, DataInv, PollsInv
<1>5. Traced(t, D)
  BY <1>1, <1>4, PickedTraced
<1>6. /\ \A c \in C : /\ c \in history.casts /\ c.poll = id
                     /\ c.height <= chain_height /\ c.height \in Nat
      /\ \A c \in D : c \in history.casts /\ c.poll = id /\ c.height = h
  BY <1>3, <1>4 DEF Accepted, FoundAt, VotesWereCast
<1> HIDE DEF D
<1>7. C \cap D = {} /\ C \cup D \in SUBSET Accepted(id, h)
  BY <1>2, <1>6 DEF Accepted
<1>8. s \in Seq(S) /\ t \in Seq(S)
  <2>1. s \in Seq(Range(s)) /\ t \in Seq(Range(VotesAt(h)))
    BY <1>1, <1>4, PickedVotes DEF IsPoll, IsList
  <2> HIDE DEF s, t
  <2>2. QED
    BY <2>1
<1>9. Voted(h)[id].votes = s \o t
  BY <1>4, VotedVotes
<1> HIDE DEF s, t, S
<1>10. Traced(s \o t, C \cup D)
  BY <1>3, <1>5, <1>7, <1>8, TracedJoin DEF s
<1>11. QED
  BY <1>7, <1>9, <1>10

(* Every step keeps the votes those the chain took.                        *)
LEMMA StepKeepsTraced ==
  ASSUME AnyPolls, LongPolls, VotesWereCast, BookInv, TracedInv,
         [MonitorNext]_monitorVars
  PROVE  TracedInv'
<1>1. history' = history
  BY HistoryConstant
<1>2. CASE HandleBlockData
  <2>1. PICK h : h = Head(msgQ).height
    OBVIOUS
  <2>2. MonitorInv
    BY DEF BookInv
  <2>3. \A id \in DOMAIN polls' : id \in DOMAIN polls /\ polls'[id] = Voted(h)[id]
    BY <1>2, <2>1, <2>2, BlockStepIs
  <2>4. chain_height' = h
    BY <1>2, <2>1, BlockHeight
  <2>5. ASSUME NEW id \in DOMAIN polls'
        PROVE  \E C \in SUBSET Accepted(id, h) : Traced(polls'[id].votes, C)
    <3>1. \E C \in SUBSET Accepted(id, h) : Traced(Voted(h)[id].votes, C)
      BY <1>2, <2>1, <2>3, VotedTraced
    <3>2. QED
      BY <2>3, <3>1
  <2>6. QED
    BY <1>1, <2>4, <2>5 DEF TracedInv, Accepted
<1>3. CASE HandleBlockResultsData
  <2>1. PICK h : h = Head(msgQ).height
    OBVIOUS
  <2>2. PICK new \in SUBSET PollIds(history.results[h]) :
          /\ DOMAIN polls' = DOMAIN polls \cup new
          /\ \A id \in DOMAIN polls : polls'[id] = polls[id]
          /\ \A id \in new : polls'[id].votes = <<>>
    BY <1>3, <2>1, NewPolls
  <2>3. chain_height' = chain_height
    BY <1>3, <2>1, NewPolls
  <2>4. ASSUME NEW id \in DOMAIN polls'
        PROVE  \E C \in SUBSET Accepted(id, chain_height) : Traced(polls'[id].votes, C)
    <3>1. CASE id \in new
      <4>1. {} \in SUBSET Accepted(id, chain_height)
        OBVIOUS
      <4>2. QED
        BY <2>2, <3>1, <4>1, NoneTraced
    <3>2. CASE id \in DOMAIN polls
      BY <2>2, <3>2 DEF TracedInv
    <3>3. QED
      BY <2>2, <3>1, <3>2
  <2>5. QED
    BY <1>1, <2>3, <2>4 DEF TracedInv, Accepted
<1>4. CASE ~HandleBlockData /\ ~HandleBlockResultsData
  BY <1>1, <1>4, OthersKeepPolls DEF TracedInv, Accepted
<1>5. QED
  BY <1>2, <1>3, <1>4

(* It holds of every behaviour of the monitor.                             *)
LEMMA TracedInvHolds ==
  ASSUME AnyPolls, SteadyNode, LongPolls, VotesWereCast
  PROVE  MonitorSpec => []TracedInv
<1>1. MonitorInit => TracedInv
  BY DEF MonitorInit, TracedInv
<1>2. BookInv /\ TracedInv /\ [MonitorNext]_monitorVars => TracedInv'
  BY StepKeepsTraced
<1>3. QED
  BY <1>1, <1>2, BookInvHolds, PTL DEF MonitorSpec

(* As many votes as casts, whatever they are counted by.                   *)
LEMMA NoMoreThanCast ==
  ASSUME NEW votes, NEW C, Traced(votes, C), NEW S, NEW T, IsFiniteSet(T),
         S \subseteq 1..Len(votes), Len(votes) \in Nat,
         \A i \in S, c \in C : Matches(votes[i], c) => c \in T
  PROVE  Cardinality(S) <= Cardinality(T)
<1> DEFINE D == 1..Len(votes)
<1>1. PICK g \in Bijection(D, C) : \A i \in D : Matches(votes[i], g[i])
  BY DEF Traced
<1>2. /\ g \in [D -> C] /\ \A x, y \in D : g[x] = g[y] => x = y
      /\ \A r \in C : \E d \in D : g[d] = r
  BY <1>1, BijectionIs
<1>3. IsFiniteSet(S)
  <2>1. IsFiniteSet(D)
    BY FS_Interval
  <2>2. QED
    BY <2>1, FS_Subset
<1> HIDE DEF D
<1>4. \A i \in S : g[i] \in T
  BY <1>1, <1>2 DEF D
<1>5. \A x, y \in S : g[x] = g[y] => x = y
  BY <1>2 DEF D
<1>6. QED
  BY <1>3, <1>4, <1>5, ImageCount

(* An open poll holds only votes that the chain accepted for it in blocks  *)
(* already processed, each at most once, however often the requests for a  *)
(* block or its results were retried.                                      *)
THEOREM NoVoteIsInvented ==
  ASSUME AnyPolls, SteadyNode, LongPolls, VotesWereCast
  PROVE  MonitorSpec => []NoInventedVotes
<1>1. ASSUME BookInv, TracedInv PROVE NoInventedVotes
  <2>1. SUFFICES ASSUME NEW id \in DOMAIN polls, NEW v
                 PROVE  Cardinality({j \in DOMAIN polls[id].votes :
                                       /\ polls[id].votes[j].sender_id = v.sender_id
                                       /\ polls[id].votes[j].tx_id = v.tx_id})
                          <= Cardinality({c \in history.casts :
                                            /\ c.poll = id /\ c.sender = v.sender_id
                                            /\ c.tx = v.tx_id /\ c.height <= chain_height})
    BY Zenon DEF NoInventedVotes
  <2> DEFINE votes == polls[id].votes
             S == {j \in DOMAIN votes : /\ votes[j].sender_id = v.sender_id
                                        /\ votes[j].tx_id = v.tx_id}
             T == {c \in history.casts : /\ c.poll = id /\ c.sender = v.sender_id
                                         /\ c.tx = v.tx_id /\ c.height <= chain_height}
  <2>2. Len(votes) \in Nat /\ DOMAIN votes = 1..Len(votes) /\ history \in Histories
    BY <1>1, ListFacts DEF BookInv, MonitorInv, DataInv, PollsInv, IsPoll
  <2>3. IsFiniteSet(history.casts)
    BY <2>2 DEF VotesWereCast
  <2>4. PICK C \in SUBSET Accepted(id, chain_height) : Traced(votes, C)
    BY <1>1 DEF TracedInv
  <2>5. C \subseteq history.casts /\ T \subseteq history.casts
    BY <2>4 DEF Accepted
  <2>6. \A i \in S, c \in C : Matches(votes[i], c) => c \in T
    BY <2>4 DEF Matches, Accepted
  <2>7. S \subseteq 1..Len(votes)
    BY <2>2
  <2> HIDE DEF votes, S, T
  <2>8. IsFiniteSet(T)
    BY <2>3, <2>5, FS_Subset
  <2>9. Cardinality(S) <= Cardinality(T)
    BY <2>2, <2>4, <2>6, <2>7, <2>8, NoMoreThanCast
  <2>10. QED
    BY <2>9 DEF S, T, votes
<1>2. QED
  BY <1>1, BookInvHolds, TracedInvHolds, PTL

----------------------------------------------------------------------------
(* The books: what the counters say of the judged polls.                   *)

(* The outcomes of the judged polls, as they were when they were judged,   *)
(* and counters that count exactly these.                                  *)
AllOutcomes(final, ids) == UNION {AnalyzePollCompletion(id, final[id]) : id \in ids}
Books(final, ids, results) ==
  /\ IsFiniteSet(ids) /\ \A id \in ids : IsList(final[id].votes)
  /\ IsFiniteSet(DOMAIN results)
  /\ \A o \in AllOutcomes(final, ids) : o.key \in DOMAIN results
  /\ \A k \in DOMAIN results :
       results[k] = Cardinality({o \in AllOutcomes(final, ids) : o.key = k})

(* The outcomes of finitely many polls are finitely many, and name them.   *)
LEMMA OutcomesOfPolls ==
  ASSUME NEW final, NEW ids, IsFiniteSet(ids), \A id \in ids : IsList(final[id].votes)
  PROVE  /\ IsFiniteSet(AllOutcomes(final, ids))
         /\ \A o \in AllOutcomes(final, ids) :
              o.poll \in ids /\ o \in AnalyzePollCompletion(o.poll, final[o.poll])
<1> DEFINE f == [id \in ids |-> AnalyzePollCompletion(id, final[id])]
           S == {f[id] : id \in ids}
<1>1. AllOutcomes(final, ids) = UNION S
  BY DEF AllOutcomes
<1>2. IsFiniteSet(S)
  BY ImageFinite
<1>3. \A id \in ids : IsFiniteSet(f[id])
  BY OutcomesFinite
<1>4. \A s \in S : \E id \in ids : s = f[id]
  OBVIOUS
<1>5. \A id \in ids : \A o \in AnalyzePollCompletion(id, final[id]) : o.poll = id
  BY DEF AnalyzePollCompletion, CountMissed, CountVotes
<1>6. \A o \in AllOutcomes(final, ids) :
         o.poll \in ids /\ o \in AnalyzePollCompletion(o.poll, final[o.poll])
  BY <1>5 DEF AllOutcomes
<1> HIDE DEF f, S
<1>7. IsFiniteSet(UNION S)
  BY <1>2, <1>3, <1>4, FS_UNION
<1>8. QED
  BY <1>1, <1>6, <1>7

(* Judging other polls adds their outcomes.                                *)
LEMMA JudgedBooks ==
  ASSUME NEW final, NEW ids, NEW results, Books(final, ids, results),
         NEW open, NEW due, IsFiniteSet(due), \A id \in due : IsList(open[id].votes),
         ids \cap due = {},
         NEW both, \A id \in ids : both[id] = final[id], \A id \in due : both[id] = open[id]
  PROVE  Books(both, ids \cup due, Judge(open, due, results))
<1> DEFINE A == AllOutcomes(final, ids)
           B == AllOutcomes(open, due)
           after == Judge(open, due, results)
           Of(X, k) == {o \in X : o.key = k}
<1>1. IsFiniteSet(ids) /\ \A id \in ids : IsList(final[id].votes)
  BY DEF Books
<1>2. /\ IsFiniteSet(A) /\ IsFiniteSet(B)
      /\ \A o \in A : o.poll \in ids
      /\ \A o \in B : o.poll \in due
  BY <1>1, OutcomesOfPolls
<1>3. /\ DOMAIN after = DOMAIN results \cup {o.key : o \in B}
      /\ \A k \in DOMAIN after : after[k] = ValueAt(results, k) + Cardinality(Of(B, k))
  BY DEF Judge, Counted, AllOutcomes
<1>4. AllOutcomes(both, ids \cup due) = A \cup B
  BY DEF AllOutcomes
<1>5. /\ \A o \in A : o.key \in DOMAIN results
      /\ \A k \in DOMAIN results : results[k] = Cardinality(Of(A, k))
  BY DEF Books
<1> HIDE DEF A, B, after
<1>6. ASSUME NEW k \in DOMAIN after
      PROVE  after[k] = Cardinality(Of(A \cup B, k))
  <2>1. Of(A \cup B, k) = Of(A, k) \cup Of(B, k) /\ Of(A, k) \cap Of(B, k) = {}
    BY <1>2
  <2>2. IsFiniteSet(Of(A, k)) /\ IsFiniteSet(Of(B, k))
    BY <1>2, FS_Subset
  <2>3. ValueAt(results, k) = Cardinality(Of(A, k))
    <3>1. CASE k \in DOMAIN results
      BY <1>5, <3>1 DEF ValueAt
    <3>2. CASE k \notin DOMAIN results
      <4>1. Of(A, k) = {}
        BY <1>5, <3>2
      <4> HIDE DEF Of
      <4>2. QED
        BY <3>2, <4>1, FS_EmptySet DEF ValueAt
    <3>3. QED
      BY <3>1, <3>2
  <2> HIDE DEF Of
  <2>4. Cardinality(Of(A \cup B, k)) = Cardinality(Of(A, k)) + Cardinality(Of(B, k))
    BY <2>1, <2>2, DisjointCount
  <2>5. QED
    BY <1>3, <2>3, <2>4
<1>7. \A o \in A \cup B : o.key \in DOMAIN after
  BY <1>3, <1>5
<1>8. IsFiniteSet(ids \cup due) /\ \A id \in ids \cup due : IsList(both[id].votes)
  BY <1>1, FS_Union
<1>9. IsFiniteSet(DOMAIN after)
  <2> DEFINE f == [o \in B |-> o.key]
  <2>1. {o.key : o \in B} = {f[o] : o \in B}
    OBVIOUS
  <2> HIDE DEF f
  <2>2. IsFiniteSet({f[o] : o \in B})
    BY <1>2, ImageFinite
  <2>3. IsFiniteSet(DOMAIN results)
    BY DEF Books
  <2>4. IsFiniteSet(DOMAIN results \cup {f[o] : o \in B})
    BY <2>2, <2>3, FS_Union, Zenon
  <2>5. QED
    BY <1>3, <2>1, <2>4
<1>10. QED
  BY <1>4, <1>6, <1>7, <1>8, <1>9 DEF Books, after

(* Registering a chain adds counters without outcomes.                     *)
LEMMA RegisteredBooks ==
  ASSUME NEW final, NEW ids, NEW results, Books(final, ids, results), NEW chain
  PROVE  Books(final, ids, Register(results, chain))
<1> DEFINE A == AllOutcomes(final, ids)
           after == Register(results, chain)
           Of(k) == {o \in A : o.key = k}
<1>1. /\ DOMAIN after = DOMAIN results \cup SeriesOf(chain)
      /\ \A k \in DOMAIN after : after[k] = ValueAt(results, k)
  BY DEF Register
<1>2. /\ \A o \in A : o.key \in DOMAIN results
      /\ \A k \in DOMAIN results : results[k] = Cardinality(Of(k))
  BY DEF Books
<1> HIDE DEF A, after
<1>3. ASSUME NEW k \in DOMAIN after PROVE after[k] = Cardinality(Of(k))
  <2>1. CASE k \in DOMAIN results
    BY <1>1, <1>2, <2>1 DEF ValueAt
  <2>2. CASE k \notin DOMAIN results
    <3>1. Of(k) = {}
      BY <1>2, <2>2
    <3> HIDE DEF Of
    <3>2. QED
      BY <1>1, <2>2, <3>1, FS_EmptySet DEF ValueAt
  <2>3. QED
    BY <2>1, <2>2
<1>4. \A o \in A : o.key \in DOMAIN after
  BY <1>1, <1>2
<1>5. IsFiniteSet(DOMAIN after)
  <2>1. IsFiniteSet(DOMAIN results) /\ IsFiniteSet(SeriesOf(chain))
    BY SeriesFinite DEF Books
  <2>2. IsFiniteSet(DOMAIN results \cup SeriesOf(chain))
    BY <2>1, FS_Union, Zenon
  <2>3. QED
    BY <1>1, <2>2
<1>6. QED
  BY <1>3, <1>4, <1>5 DEF Books, A, after

(* The counters are the outcomes of the polls judged so far, with votes    *)
(* that the chain took on them; an open poll has not been judged.          *)
CastOn(id) == {c \in history.casts : c.poll = id}
LedgerInv ==
  /\ DOMAIN polls \cap expired_poll_ids = {}
  /\ \E final :
       /\ Books(final, expired_poll_ids, vote_results)
       /\ \A id \in expired_poll_ids :
            \E C \in SUBSET CastOn(id) : Traced(final[id].votes, C)

(* A block closes the books of the polls that are due.                     *)
LEMMA BlockKeepsLedger ==
  ASSUME AnyPolls, VotesWereCast, BookInv, TracedInv, LedgerInv, HandleBlockData
  PROVE  LedgerInv'
<1>1. PICK h : h = Head(msgQ).height
  OBVIOUS
<1> DEFINE due == DueAt(h)
           open == Voted(h)
<1>2. MonitorInv
  BY DEF BookInv
<1>3. /\ due \subseteq DOMAIN polls /\ IsFiniteSet(due)
      /\ \A id \in DOMAIN polls : IsPoll(open[id])
      /\ DOMAIN polls' = DOMAIN polls \ due
      /\ vote_results' = Judge(open, due, vote_results)
      /\ expired_poll_ids' = expired_poll_ids \cup due
      /\ history' = history
  BY <1>1, <1>2, BlockStepIs
<1>4. PICK final :
        /\ Books(final, expired_poll_ids, vote_results)
        /\ \A id \in expired_poll_ids :
             \E C \in SUBSET CastOn(id) : Traced(final[id].votes, C)
  BY DEF LedgerInv
<1> DEFINE both == [id \in expired_poll_ids \cup due |->
                      IF id \in due THEN open[id] ELSE final[id]]
<1>5. DOMAIN polls \cap expired_poll_ids = {}
  BY DEF LedgerInv
<1>6. ASSUME NEW id \in due
      PROVE  \E C \in SUBSET CastOn(id) : Traced(open[id].votes, C)
  <2>1. PICK C \in SUBSET Accepted(id, h) : Traced(open[id].votes, C)
    BY <1>1, <1>3, VotedTraced
  <2>2. C \in SUBSET CastOn(id)
    BY DEF Accepted, CastOn
  <2>3. QED
    BY <2>1, <2>2
<1> HIDE DEF due, open
<1>7. /\ \A id \in expired_poll_ids : both[id] = final[id]
      /\ \A id \in due : both[id] = open[id]
  BY <1>3, <1>5
<1> HIDE DEF both
<1>8. Books(both, expired_poll_ids \cup due, Judge(open, due, vote_results))
  <2>1. expired_poll_ids \cap due = {}
    BY <1>3, <1>5
  <2>2. \A id \in due : IsList(open[id].votes)
    BY <1>3 DEF IsPoll
  <2>3. QED
    BY <1>3, <1>4, <1>7, <2>1, <2>2, JudgedBooks
<1>9. \A id \in expired_poll_ids \cup due :
         \E C \in SUBSET CastOn(id) : Traced(both[id].votes, C)
  BY <1>4, <1>6, <1>7
<1>10. DOMAIN polls' \cap expired_poll_ids' = {}
  BY <1>3, <1>5
<1>11. Books(both, expired_poll_ids', vote_results')
  BY <1>3, <1>8
<1>12. \A id \in expired_poll_ids' :
          \E C \in SUBSET {c \in history'.casts : c.poll = id} : Traced(both[id].votes, C)
  BY <1>3, <1>9 DEF CastOn
<1>13. QED
  BY <1>10, <1>11, <1>12 DEF LedgerInv, CastOn

(* So does every step.                                                     *)
LEMMA StepKeepsLedger ==
  ASSUME AnyPolls, LongPolls, VotesWereCast, BookInv, TracedInv, LedgerInv,
         [MonitorNext]_monitorVars
  PROVE  LedgerInv'
<1>1. history' = history
  BY HistoryConstant
<1>2. ASSUME expired_poll_ids' = expired_poll_ids,
             DOMAIN polls' \cap expired_poll_ids = {},
             \/ vote_results' = vote_results
             \/ \E c : vote_results' = Register(vote_results, c)
      PROVE  LedgerInv'
  <2>1. PICK final :
          /\ Books(final, expired_poll_ids, vote_results)
          /\ \A id \in expired_poll_ids :
               \E C \in SUBSET CastOn(id) : Traced(final[id].votes, C)
    BY DEF LedgerInv
  <2>2. Books(final, expired_poll_ids, vote_results')
    BY <1>2, <2>1, RegisteredBooks
  <2>3. QED
    BY <1>1, <1>2, <2>1, <2>2 DEF LedgerInv, CastOn
<1>3. CASE HandleBlockData
  BY <1>3, BlockKeepsLedger
<1>4. CASE HandleBlockResultsData
  <2>1. PICK h : h = Head(msgQ).height
    OBVIOUS
  <2>2. PICK new \in SUBSET PollIds(history.results[h]) :
          /\ DOMAIN polls' = DOMAIN polls \cup new
          /\ new \cap (DOMAIN polls \cup expired_poll_ids) = {}
    BY <1>4, <2>1, NewPolls
  <2>3. expired_poll_ids' = expired_poll_ids /\ vote_results' = vote_results
    BY <1>4 DEF HandleBlockResultsData
  <2>4. QED
    BY <1>2, <2>2, <2>3 DEF LedgerInv
<1>5. CASE HandleChainParamsData
  <2>1. /\ vote_results' = Register(vote_results, Head(msgQ).chain)
        /\ polls' = polls /\ expired_poll_ids' = expired_poll_ids
    BY <1>5 DEF HandleChainParamsData
  <2>2. QED
    BY <1>2, <2>1 DEF LedgerInv
<1>6. CASE QuietStep \/ PublishMetricsData
  <2>1. UNCHANGED <<polls, expired_poll_ids, vote_results>>
    BY <1>6, QuietData DEF PublishMetricsData, pollVars
  <2>2. QED
    BY <1>2, <2>1 DEF LedgerInv
<1>7. QED
  BY <1>3, <1>4, <1>5, <1>6
     DEF MonitorNext, MonitorProcessingStep, QuietStep

(* It holds of every behaviour of the monitor.                             *)
LEMMA LedgerHolds ==
  ASSUME AnyPolls, SteadyNode, LongPolls, VotesWereCast
  PROVE  MonitorSpec => []LedgerInv
<1>1. ASSUME MonitorInit PROVE LedgerInv
  <2>1. expired_poll_ids = {} /\ \A k \in DOMAIN vote_results : vote_results[k] = 0
    BY <1>1 DEF MonitorInit
  <2>2. \A final : AllOutcomes(final, {}) = {}
    BY DEF AllOutcomes
  <2>3. IsFiniteSet(DOMAIN vote_results)
    <3> DEFINE f == [c \in DOMAIN ConfigParams |-> SeriesOf(c)]
               S == {f[c] : c \in DOMAIN ConfigParams}
    <3>1. IsFiniteSet(S)
      <4> HIDE DEF f
      <4>1. QED
        BY MonitorAssumption, ImageFinite
    <3>2. \A s \in S : IsFiniteSet(s)
      BY SeriesFinite
    <3>3. DOMAIN vote_results = UNION S
      BY <1>1 DEF MonitorInit, RegisteredSeries
    <3> HIDE DEF S
    <3>4. QED
      BY <3>1, <3>2, <3>3, FS_UNION
  <2>4. \A final : Books(final, {}, vote_results)
    BY <2>1, <2>2, <2>3, FS_EmptySet DEF Books
  <2>5. QED
    BY <2>1, <2>4 DEF LedgerInv
<1>2. BookInv /\ TracedInv /\ LedgerInv /\ [MonitorNext]_monitorVars => LedgerInv'
  BY StepKeepsLedger
<1>3. QED
  BY <1>1, <1>2, BookInvHolds, TracedInvHolds, PTL DEF MonitorSpec

(* Whoever votes once on a poll sends one vote that is counted.            *)
LEMMA OneVoteTraced ==
  ASSUME OneVoteEach, history \in Histories, NEW id, NEW votes, IsList(votes),
         NEW C \in SUBSET CastOn(id), Traced(votes, C)
  PROVE  \A i, j \in DOMAIN votes : votes[i].sender_id = votes[j].sender_id => i = j
<1>1. DOMAIN votes = 1..Len(votes)
  BY ListFacts
<1>2. PICK g \in Bijection(1..Len(votes), C) : \A i \in 1..Len(votes) : Matches(votes[i], g[i])
  BY DEF Traced
<1>3. g \in [1..Len(votes) -> C] /\ \A x, y \in 1..Len(votes) : g[x] = g[y] => x = y
  BY <1>2, BijectionIs
<1>4. SUFFICES ASSUME NEW i \in 1..Len(votes), NEW j \in 1..Len(votes),
                      votes[i].sender_id = votes[j].sender_id
               PROVE  i = j
  BY <1>1
<1>5. /\ g[i] \in history.casts /\ g[j] \in history.casts
      /\ g[i].poll = id /\ g[j].poll = id
  BY <1>3 DEF CastOn
<1>6. g[i].sender = g[j].sender
  BY <1>2, <1>4 DEF Matches
<1>7. g[i] = g[j]
  BY <1>5, <1>6 DEF OneVoteEach
<1>8. QED
  BY <1>3, <1>7

(* Whatever fails, each judged poll gives each broadcaster one outcome: no *)
(* poll is judged twice, or dropped after it was registered, and nobody is *)
(* counted for two votes, or for none and one.                             *)
THEOREM OneOutcomeForEach ==
  ASSUME AnyPolls, SteadyNode, LongPolls, VotesWereCast, OneVoteEach, DistinctNames
  PROVE  MonitorSpec => []OneOutcomePerPoll
<1>1. ASSUME BookInv, LedgerInv, NEW n \in Names
      PROVE  OutcomesOf(n) = Cardinality(expired_poll_ids)
  <2>1. PICK final :
          /\ Books(final, expired_poll_ids, vote_results)
          /\ \A id \in expired_poll_ids :
               \E C \in SUBSET CastOn(id) : Traced(final[id].votes, C)
    BY <1>1 DEF LedgerInv
  <2> DEFINE O == AllOutcomes(final, expired_poll_ids)
             S == {k \in DOMAIN vote_results : k.broadcaster = n}
             ofN == {o \in O : o.key.broadcaster = n}
  <2>2. IsFiniteSet(expired_poll_ids) /\ \A id \in expired_poll_ids : IsList(final[id].votes)
    BY <2>1 DEF Books
  <2>3. /\ IsFiniteSet(O)
        /\ \A o \in O : /\ o.poll \in expired_poll_ids
                        /\ o \in AnalyzePollCompletion(o.poll, final[o.poll])
    BY <2>2, OutcomesOfPolls
  <2>4. /\ \A o \in O : o.key \in DOMAIN vote_results
        /\ \A k \in S : vote_results[k] = Cardinality({o \in O : o.key = k})
    BY <2>1 DEF Books
  <2>5. ASSUME NEW id \in expired_poll_ids
        PROVE  \E o \in AnalyzePollCompletion(id, final[id]) :
                 /\ o.key.broadcaster = n
                 /\ \A p \in AnalyzePollCompletion(id, final[id]) :
                      p.key.broadcaster = n => p = o
    <3>1. history \in Histories
      BY <1>1 DEF BookInv, MonitorInv, DataInv
    <3>2. PICK C \in SUBSET CastOn(id) : Traced(final[id].votes, C)
      BY <2>1
    <3>3. \A i, j \in DOMAIN final[id].votes :
             final[id].votes[i].sender_id = final[id].votes[j].sender_id => i = j
      BY <2>2, <3>1, <3>2, OneVoteTraced
    <3>4. \A i, j \in DOMAIN Broadcasters :
             Broadcasters[i].name = Broadcasters[j].name => i = j
      BY DEF DistinctNames
    <3>5. QED
      BY <3>3, <3>4, OneOutcomeEach
  <2>6. \A id \in expired_poll_ids : \A o \in AnalyzePollCompletion(id, final[id]) : o \in O
    BY DEF AllOutcomes
  <2>7. \A o \in O : o.key \in S <=> o.key.broadcaster = n
    BY <2>4
  <2> HIDE DEF O
  <2>8. S \subseteq DOMAIN vote_results /\ ofN \subseteq O
    OBVIOUS
  <2>9. IsFiniteSet(S) /\ IsFiniteSet(ofN)
    BY <2>1, <2>3, <2>8, FS_Subset DEF Books
  <2>10. OutcomesOf(n) = Cardinality({o \in O : o.key \in S})
    <3>1. OutcomesOf(n) = SumFunctionOnSet(vote_results, S)
      BY DEF OutcomesOf
    <3> HIDE DEF S
    <3>2. QED
      BY <2>3, <2>4, <2>9, <3>1, SumCounts
  <2>11. {o \in O : o.key \in S} = ofN
    BY <2>7
  <2> DEFINE f == [o \in ofN |-> o.poll]
  <2>12. \A o \in ofN : f[o] = o.poll /\ o \in O /\ o.key.broadcaster = n
    OBVIOUS
  <2>13. \A o, p \in ofN : f[o] = f[p] => o = p
    <3> HIDE DEF f, ofN
    <3>1. QED
      BY <2>3, <2>5, <2>12
  <2>14. {f[o] : o \in ofN} = expired_poll_ids
    <3>1. \A o \in ofN : f[o] \in expired_poll_ids
      BY <2>3, <2>12
    <3>2. \A id \in expired_poll_ids : \E o \in ofN : f[o] = id
      <4>1. SUFFICES ASSUME NEW id \in expired_poll_ids PROVE \E o \in ofN : f[o] = id
        OBVIOUS
      <4>2. PICK o \in AnalyzePollCompletion(id, final[id]) : o.key.broadcaster = n
        BY <2>5
      <4>3. o.poll = id
        BY DEF AnalyzePollCompletion, CountMissed, CountVotes
      <4>4. o \in ofN
        BY <2>6, <4>2
      <4>5. QED
        BY <2>12, <4>3, <4>4
    <3> HIDE DEF f, ofN
    <3>3. QED
      BY <3>1, <3>2
  <2> HIDE DEF f, ofN
  <2>15. Cardinality({f[o] : o \in ofN}) = Cardinality(ofN)
    BY <2>9, <2>13, ImageCount
  <2>16. QED
    BY <2>10, <2>11, <2>14, <2>15
<1>2. BookInv /\ LedgerInv => OneOutcomePerPoll
  BY <1>1 DEF OneOutcomePerPoll
<1>3. QED
  BY <1>2, BookInvHolds, LedgerHolds, PTL

----------------------------------------------------------------------------
(* The start: chain parameters are loaded before the first block.          *)

IsSetup(x) == x.kind \in {"FetchChainParams", "ChainParams"}
HasWork(q) == \E i \in DOMAIN q : IsJob(q[i])
HasSetup(q) == \E i \in DOMAIN q : IsSetup(q[i])
SetupFirst(q) == \A i, j \in DOMAIN q : IsJob(q[i]) /\ IsSetup(q[j]) => j < i

(* The head of a queue is x, the rest is heads or requests for them.       *)
OnlyHeads(q) == \A i \in DOMAIN q : q[i].kind \in {"FetchHead", "Head"}
ListFirst(q, x) ==
  q # <<>> /\ q[1] = x /\ \A i \in DOMAIN q : i = 1 \/ q[i].kind \in {"FetchHead", "Head"}

(* A queue that gets one more message.                                     *)
LEMMA AppendSetup ==
  ASSUME NEW S, NEW q \in Seq(S), NEW x \in S
  PROVE  /\ HasWork(Append(q, x)) <=> HasWork(q) \/ IsJob(x)
         /\ HasSetup(Append(q, x)) <=> HasSetup(q) \/ IsSetup(x)
         /\ SetupFirst(q) /\ ~(IsSetup(x) /\ HasWork(q)) => SetupFirst(Append(q, x))
         /\ OnlyHeads(q) /\ x.kind \in {"FetchHead", "Head"} => OnlyHeads(Append(q, x))
         /\ \A y : ListFirst(q, y) /\ x.kind \in {"FetchHead", "Head"}
                     => ListFirst(Append(q, x), y)
         /\ q = <<>> => ListFirst(Append(q, x), x)
<1> DEFINE t == Append(q, x)
           n == Len(q)
<1>1. /\ n \in Nat /\ DOMAIN q = 1..n /\ Len(t) = n + 1 /\ DOMAIN t = 1..(n + 1) /\ t[n + 1] = x
      /\ \A i \in 1..n : t[i] = q[i]
  BY AppendFacts
<1>2. q = <<>> => n = 0
  OBVIOUS
<1>3. q # <<>> => 1 \in 1..n
  OBVIOUS
<1>4. t # <<>>
  BY <1>1
<1>5. ~(IsJob(x) /\ IsSetup(x))
  BY DEF IsJob, IsSetup
<1> HIDE DEF t, n
<1>6. \A i \in DOMAIN t : i \in 1..n \/ i = n + 1
  BY <1>1
<1>7. HasWork(t) <=> HasWork(q) \/ IsJob(x)
  BY <1>1, <1>6 DEF HasWork
<1>8. HasSetup(t) <=> HasSetup(q) \/ IsSetup(x)
  BY <1>1, <1>6 DEF HasSetup
<1>9. SetupFirst(q) /\ ~(IsSetup(x) /\ HasWork(q)) => SetupFirst(t)
  BY <1>1, <1>5, <1>6 DEF HasWork, SetupFirst
<1>10. OnlyHeads(q) /\ x.kind \in {"FetchHead", "Head"} => OnlyHeads(t)
  BY <1>1, <1>6 DEF OnlyHeads
<1>11. \A y : ListFirst(q, y) /\ x.kind \in {"FetchHead", "Head"} => ListFirst(t, y)
  BY <1>1, <1>3, <1>4, <1>6 DEF ListFirst
<1>12. q = <<>> => ListFirst(t, x)
  BY <1>1, <1>2, <1>4 DEF ListFirst
<1>13. QED
  BY <1>7, <1>8, <1>9, <1>10, <1>11, <1>12 DEF t

(* A queue whose first message is taken.                                   *)
LEMMA TailSetup ==
  ASSUME NEW S, NEW q \in Seq(S), q # <<>>
  PROVE  /\ HasWork(Tail(q)) => HasWork(q)
         /\ HasSetup(Tail(q)) => HasSetup(q)
         /\ IsJob(Head(q)) => HasWork(q)
         /\ IsSetup(Head(q)) => HasSetup(q)
         /\ SetupFirst(q) => SetupFirst(Tail(q))
         /\ SetupFirst(q) /\ IsJob(Head(q)) => ~HasSetup(q)
         /\ OnlyHeads(q) => OnlyHeads(Tail(q)) /\ Head(q).kind \in {"FetchHead", "Head"}
         /\ \A y : ListFirst(q, y) => Head(q) = y /\ OnlyHeads(Tail(q))
<1> DEFINE t == Tail(q)
           n == Len(q)
<1>1. /\ n \in Nat /\ n # 0 /\ DOMAIN q = 1..n /\ Head(q) = q[1] /\ 1 \in DOMAIN q
      /\ DOMAIN t = 1..(n - 1)
      /\ \A i \in DOMAIN t : i + 1 \in DOMAIN q /\ t[i] = q[i + 1] /\ i \in Nat /\ i + 1 # 1
  BY TailFacts
<1> HIDE DEF t, n
<1>2. HasWork(t) => HasWork(q)
  BY <1>1 DEF HasWork
<1>3. HasSetup(t) => HasSetup(q)
  BY <1>1 DEF HasSetup
<1>4. (IsJob(Head(q)) => HasWork(q)) /\ (IsSetup(Head(q)) => HasSetup(q))
  BY <1>1 DEF HasWork, HasSetup
<1>5. SetupFirst(q) => SetupFirst(t)
  <2>1. \A i, j \in DOMAIN t : j + 1 < i + 1 => j < i
    BY <1>1
  <2>2. QED
    BY <1>1, <2>1 DEF SetupFirst
<1>6. SetupFirst(q) /\ IsJob(Head(q)) => ~HasSetup(q)
  BY <1>1 DEF SetupFirst, HasSetup
<1>7. OnlyHeads(q) => OnlyHeads(t) /\ Head(q).kind \in {"FetchHead", "Head"}
  BY <1>1 DEF OnlyHeads
<1>8. \A y : ListFirst(q, y) => Head(q) = y /\ OnlyHeads(t)
  BY <1>1 DEF ListFirst, OnlyHeads
<1>9. QED
  BY <1>2, <1>3, <1>4, <1>5, <1>6, <1>7, <1>8 DEF t

(* A command with its answer.                                              *)
Answers(c, z) ==
  \/ c.kind = "FetchBlock" /\ z = Block(c.height)
  \/ c.kind = "FetchBlockResults" /\ z = BlockResults(c.height, c.polls)
  \/ c.kind = "FetchChainList" /\ z = ChainListAnswer
  \/ c.kind = "FetchChainParams" /\ z = ChainParams(c.chain)
  \/ c.kind = "FetchHead" /\ z.kind = "Head"

(* The IO thread answers what it takes, unless the request fails.          *)
LEMMA IoAnswers ==
  ASSUME TypeOK, IoStep, faults' = faults
  PROVE  \E z \in IoResult : msgQ' = Append(msgQ, z) /\ Answers(Head(cmdQ), z)
<1> DEFINE c == Head(cmdQ)
<1>0. faults # faults + 1
  BY DEF TypeOK
<1>1. cmdQ # <<>> /\ c \in IoCommand
  BY IoStepJobs, TailFacts DEF TypeOK
<1>2. CASE IoFetchBlock
  <2>1. c.kind = "FetchBlock" /\ c.height \in Heights
    BY <1>1, <1>2, CommandFields DEF IoFetchBlock, Executes
  <2>2. msgQ' = Append(msgQ, Block(c.height))
    BY <1>0, <1>2 DEF IoFetchBlock, Yields, RequestFails
  <2>3. QED
    BY <2>1, <2>2, ResultTypes DEF Answers
<1>3. CASE IoFetchBlockResults
  <2>1. c.kind = "FetchBlockResults" /\ c.height \in Heights /\ c.polls \in PollLists
    BY <1>1, <1>3, CommandFields DEF IoFetchBlockResults, Executes
  <2>2. msgQ' = Append(msgQ, BlockResults(c.height, c.polls))
    BY <1>0, <1>3 DEF IoFetchBlockResults, Yields, RequestFails
  <2>3. QED
    BY <2>1, <2>2, ResultTypes DEF Answers
<1>4. CASE IoFetchChainList
  <2>1. c.kind = "FetchChainList" /\ msgQ' = Append(msgQ, ChainListAnswer)
    BY <1>0, <1>4 DEF IoFetchChainList, Executes, Yields, RequestFails
  <2>2. QED
    BY <2>1, ResultTypes DEF Answers
<1>5. CASE IoFetchChainParams
  <2>1. c.kind = "FetchChainParams" /\ c.chain \in Chains
    BY <1>1, <1>5, CommandFields DEF IoFetchChainParams, Executes
  <2>2. msgQ' = Append(msgQ, ChainParams(c.chain))
    BY <1>0, <1>5 DEF IoFetchChainParams, Yields, RequestFails
  <2>3. QED
    BY <2>1, <2>2, ResultTypes DEF Answers
<1>6. CASE IoFetchHead
  <2>1. PICK n \in HeadsServed : msgQ' = Append(msgQ, HeadAnswer(n))
    BY <1>0, <1>6 DEF IoFetchHead, Yields, RequestFails
  <2>2. n \in Heights
    BY PipelineAssumption DEF HeadsServed, Heights
  <2>3. c.kind = "FetchHead" /\ HeadAnswer(n).kind = "Head"
    BY <1>6 DEF IoFetchHead, Executes, HeadAnswer
  <2>4. QED
    BY <2>1, <2>2, <2>3, ResultTypes DEF Answers
<1>7. QED
  BY <1>2, <1>3, <1>4, <1>5, <1>6 DEF IoStep

(* Nothing gets lost, unless it is handled.                                *)
LEMMA FirstAndRest ==
  ASSUME NEW S, NEW q \in Seq(S), q # <<>>, NEW x \in Range(q)
  PROVE  x = Head(q) \/ x \in Range(Tail(q))
<1> DEFINE n == Len(q)
           t == Tail(q)
<1>1. PICK i \in 1..n : x = q[i]
  BY DEF Range
<1>2. CASE i = 1
  BY <1>1, <1>2
<1>3. CASE i # 1
  <2>1. i - 1 \in DOMAIN t /\ t[i - 1] = q[i]
    BY <1>3
  <2> HIDE DEF t
  <2>2. x \in Range(t)
    BY <1>1, <2>1 DEF Range
  <2>3. QED
    BY <2>2 DEF t
<1>4. QED
  BY <1>2, <1>3

(* What is on its way stays so until it is answered or handled.            *)
LEMMA NothingLost ==
  ASSUME PipelineInv, PumpStep, faults' = faults, NEW x \in InFlight
  PROVE  \/ x \in InFlight'
         \/ x = Head(cmdQ) /\ \E z \in InFlight' : Answers(x, z)
         \/ x = Head(msgQ) /\ \E kind : Receives(kind)
<1>0. /\ cmdQ \in Seq(IoCommand) /\ outbox \in Seq(IoCommand) /\ msgQ \in Seq(IoResult)
      /\ TypeOK
  BY DEF TypeOK, PipelineInv
<1>1. CASE IoStep
  <2>1. cmdQ # <<>> /\ cmdQ' = Tail(cmdQ) /\ outbox' = outbox
    BY <1>0, <1>1, IoStepJobs
  <2>2. PICK z \in IoResult : msgQ' = Append(msgQ, z) /\ Answers(Head(cmdQ), z)
    BY <1>0, <1>1, IoAnswers
  <2>3. Range(Append(msgQ, z)) = Range(msgQ) \cup {z}
    BY <1>0, QueueMembers
  <2>4. z \in InFlight' /\ Range(msgQ) \subseteq InFlight' /\ Range(outbox) \subseteq InFlight'
    BY <2>1, <2>2, <2>3 DEF InFlight
  <2>5. CASE x \in Range(cmdQ)
    <3>1. x = Head(cmdQ) \/ x \in Range(cmdQ')
      BY <1>0, <2>1, <2>5, FirstAndRest
    <3>2. QED
      BY <2>2, <2>4, <3>1 DEF InFlight
  <2>6. QED
    BY <2>4, <2>5 DEF InFlight
<1>2. CASE SendCommand
  <2>1. /\ outbox # <<>> /\ cmdQ' = Append(cmdQ, Head(outbox))
        /\ outbox' = Tail(outbox) /\ msgQ' = msgQ
    BY <1>2 DEF SendCommand
  <2>2. Head(outbox) \in IoCommand
    BY <1>0, <2>1, TailFacts
  <2>3. Range(Append(cmdQ, Head(outbox))) = Range(cmdQ) \cup {Head(outbox)}
    BY <1>0, <2>2, QueueMembers
  <2>4. CASE x \in Range(outbox)
    <3>1. x = Head(outbox) \/ x \in Range(outbox')
      BY <1>0, <2>1, <2>4, FirstAndRest
    <3>2. QED
      BY <2>1, <2>3, <3>1 DEF InFlight
  <2>5. QED
    BY <2>1, <2>3, <2>4 DEF InFlight
<1>3. CASE FeederTick
  <2>1. Range(Append(cmdQ, FetchHead)) = Range(cmdQ) \cup {FetchHead}
    BY <1>0, QueueMembers, CommandTypes
  <2>2. QED
    BY <1>3, <2>1 DEF FeederTick, InFlight
<1>4. ASSUME NEW kind, Receives(kind)
      PROVE  x = Head(msgQ) \/ x \in InFlight'
  <2>1. /\ msgQ # <<>> /\ msgQ' = Tail(msgQ) /\ cmdQ' = cmdQ /\ outbox = <<>>
    BY <1>4 DEF Receives, PipelineInv, JobsInv
  <2>2. x \in Range(msgQ) => x = Head(msgQ) \/ x \in Range(msgQ')
    BY <1>0, <2>1, FirstAndRest
  <2>3. x \notin Range(outbox)
    BY <2>1, ShortMembers
  <2>4. QED
    BY <2>1, <2>2, <2>3 DEF InFlight
<1>5. CASE PublishMetrics \/ UNCHANGED vars
  BY <1>5 DEF PublishMetrics, vars, InFlight
<1>6. (\E kind : Receives(kind)) => x = Head(msgQ) \/ x \in InFlight'
  BY <1>4
<1>7. CASE \/ HandleFetchError \/ HandleFetchBlockResultsError
           \/ HandleFetchChainListError \/ HandleChainList \/ HandleChainParams
           \/ HandleBlockResults \/ HandleHead \/ \E creations : HandleBlock(creations)
  <2>1. \E kind : Receives(kind)
    BY <1>7 DEF HandleFetchError, HandleFetchBlockResultsError, HandleHead,
       HandleFetchChainListError, HandleChainList, HandleChainParams,
       HandleBlockResults, HandleBlock
  <2>2. QED
    BY <1>6, <2>1
<1>8. QED
  BY <1>1, <1>2, <1>3, <1>5, <1>7 DEF PumpStep, NoBlockStep

(* What a handler returns for a block.                                     *)
LEMMA ResponseMembers ==
  ASSUME NEW h, NEW creations
  PROVE  /\ \A x \in Range(BlockResponses(h, creations)) :
              \/ x = FetchBlockResults(h, creations, 0) /\ creations # <<>>
              \/ x = FetchBlock(h + 1, 0)
         /\ creations # <<>>
              => FetchBlockResults(h, creations, 0) \in Range(BlockResponses(h, creations))
<1> DEFINE x == FetchBlockResults(h, creations, 0)
           y == FetchBlock(h + 1, 0)
           S == {x, y}
           p == ResultsFetch(h, creations)
           q == NextFetch(h)
<1>1. /\ p = IF creations = <<>> THEN <<>> ELSE <<x>>
      /\ q = <<>> \/ q = <<y>>
  BY DEF ResultsFetch, NextFetch
<1>2. BlockResponses(h, creations) = p \o q
  BY DEF BlockResponses
<1>3. Range(<<>>) = {} /\ Range(<<x>>) = {x} /\ Range(<<y>>) = {y}
  BY ShortMembers
<1> HIDE DEF x, y, p, q
<1>4. p \in Seq(S) /\ q \in Seq(S)
  BY <1>1, SmallLists
<1> HIDE DEF S
<1>5. Range(p \o q) = Range(p) \cup Range(q)
  BY <1>4, ConcatRange
<1>6. QED
  BY <1>1, <1>2, <1>3, <1>5 DEF x, y

(* What is new is a request for the head, an answer, or returned by the    *)
(* handler of a message.                                                   *)
LEMMA NothingNew ==
  ASSUME TypeOK, PumpStep, faults' = faults, NEW x \in InFlight'
  PROVE  \/ x \in InFlight
         \/ x = FetchHead
         \/ \E y \in InFlight : Answers(y, x)
         \/ x \in Range(outbox') /\ \E kind : Receives(kind)
<1>0. /\ cmdQ \in Seq(IoCommand) /\ outbox \in Seq(IoCommand) /\ msgQ \in Seq(IoResult)
  BY DEF TypeOK
<1>1. CASE IoStep
  <2>1. cmdQ # <<>> /\ cmdQ' = Tail(cmdQ) /\ outbox' = outbox
    BY <1>1, IoStepJobs
  <2>2. PICK z \in IoResult : msgQ' = Append(msgQ, z) /\ Answers(Head(cmdQ), z)
    BY <1>1, IoAnswers
  <2>3. /\ Range(Append(msgQ, z)) = Range(msgQ) \cup {z}
        /\ Range(Tail(cmdQ)) \subseteq Range(cmdQ) /\ Head(cmdQ) \in Range(cmdQ)
    BY <1>0, <2>1, QueueMembers
  <2>4. QED
    BY <2>1, <2>2, <2>3 DEF InFlight
<1>2. CASE SendCommand
  <2>1. /\ outbox # <<>> /\ cmdQ' = Append(cmdQ, Head(outbox))
        /\ outbox' = Tail(outbox) /\ msgQ' = msgQ
    BY <1>2 DEF SendCommand
  <2>2. Head(outbox) \in IoCommand
    BY <1>0, <2>1, TailFacts
  <2>3. /\ Range(Append(cmdQ, Head(outbox))) = Range(cmdQ) \cup {Head(outbox)}
        /\ Range(Tail(outbox)) \subseteq Range(outbox) /\ Head(outbox) \in Range(outbox)
    BY <1>0, <2>1, <2>2, QueueMembers
  <2>4. QED
    BY <2>1, <2>3 DEF InFlight
<1>3. CASE FeederTick
  <2>1. Range(Append(cmdQ, FetchHead)) = Range(cmdQ) \cup {FetchHead}
    BY <1>0, QueueMembers, CommandTypes
  <2>2. QED
    BY <1>3, <2>1 DEF FeederTick, InFlight
<1>4. ASSUME NEW kind, Receives(kind)
      PROVE  x \in InFlight \/ x \in Range(outbox')
  <2>1. Range(msgQ') \subseteq Range(msgQ) /\ cmdQ' = cmdQ
    BY <1>0, <1>4, QueueMembers DEF Receives
  <2>2. QED
    BY <2>1 DEF InFlight
<1>5. CASE PublishMetrics \/ UNCHANGED vars
  BY <1>5 DEF PublishMetrics, vars, InFlight
<1>6. CASE \/ HandleFetchError \/ HandleFetchBlockResultsError
           \/ HandleFetchChainListError \/ HandleChainList \/ HandleChainParams
           \/ HandleBlockResults \/ HandleHead \/ \E creations : HandleBlock(creations)
  <2>1. \E kind : Receives(kind)
    BY <1>6 DEF HandleFetchError, HandleFetchBlockResultsError, HandleHead,
       HandleFetchChainListError, HandleChainList, HandleChainParams,
       HandleBlockResults, HandleBlock
  <2>2. QED
    BY <1>4, <2>1
<1>7. QED
  BY <1>1, <1>2, <1>3, <1>5, <1>6 DEF PumpStep, NoBlockStep

(* While nothing fails, there are no errors to handle.                     *)
IsError(x) ==
  x.kind \in {"FetchError", "FetchBlockResultsError", "FetchChainListError"}
NoErrors == \A x \in InFlight : ~IsError(x)

(* The steps that are left when no error is on its way, and what they      *)
(* return.                                                                 *)
LEMMA Returned ==
  ASSUME TypeOK, NoErrors, PumpStep, NEW kind, Receives(kind), NEW x \in Range(outbox')
  PROVE  \/ x.kind \in {"FetchBlock", "FetchBlockResults"}
         \/ HandleChainList /\ \E c \in Chains : x = FetchChainParams(c)
<1>0. Range(<<>>) = {} /\ \A y : Range(<<y>>) = {y}
  BY ShortMembers
<1>1. Head(msgQ).kind = kind /\ Head(msgQ) \in InFlight /\ phase = "receive"
      /\ phase' = "send"
  BY HandlerMoves DEF Receives
<1>2. ~HandleFetchError /\ ~HandleFetchBlockResultsError /\ ~HandleFetchChainListError
  BY <1>1 DEF NoErrors, IsError, HandleFetchError, HandleFetchBlockResultsError,
       HandleFetchChainListError, Receives
<1>3. CASE HandleChainList
  <2>1. \E i \in DOMAIN ChainList : x = FetchChainParams(ChainList[i])
    BY <1>3 DEF HandleChainList, Range
  <2>2. QED
    BY <1>3, <2>1 DEF Chains
<1>4. CASE HandleChainParams \/ HandleBlockResults
  BY <1>0, <1>4 DEF HandleChainParams, HandleBlockResults
<1>5. CASE HandleHead
  <2>1. \E h : x = FetchBlock(h, 0)
    BY <1>0, <1>5 DEF HandleHead
  <2>2. QED
    BY <2>1 DEF FetchBlock
<1>6. ASSUME NEW creations, HandleBlock(creations)
      PROVE  x.kind \in {"FetchBlock", "FetchBlockResults"}
  <2>1. PICK h : x \in Range(BlockResponses(h, creations))
    BY <1>6 DEF HandleBlock
  <2>2. x = FetchBlockResults(h, creations, 0) \/ x = FetchBlock(h + 1, 0)
    BY <2>1, ResponseMembers
  <2>3. QED
    BY <2>2 DEF FetchBlock, FetchBlockResults
<1>7. ~FeederTick /\ ~IoStep /\ ~SendCommand /\ ~PublishMetrics /\ ~UNCHANGED vars
  <2>1. IoStep => phase' = phase
    BY IoStepJobs
  <2>2. QED
    BY <1>1, <2>1 DEF FeederTick, SendCommand, PublishMetrics, vars
<1>8. QED
  BY <1>2, <1>3, <1>4, <1>5, <1>6, <1>7 DEF PumpStep, NoBlockStep

(* A step without a failure makes no error.                                *)
LEMMA StepKeepsNoErrors ==
  ASSUME TypeOK, NoErrors, PumpStep, faults' = faults
  PROVE  NoErrors'
<1>1. ASSUME NEW x \in InFlight' PROVE ~IsError(x)
  <2>1. CASE x \in InFlight
    BY <2>1 DEF NoErrors
  <2>2. CASE x = FetchHead
    BY <2>2 DEF FetchHead, IsError
  <2>3. ASSUME NEW y, Answers(y, x) PROVE ~IsError(x)
    BY <2>3 DEF Answers, IsError, Block, BlockResults, ChainListAnswer, ChainParams
  <2>4. ASSUME x \in Range(outbox'), NEW kind, Receives(kind) PROVE ~IsError(x)
    BY <2>4, Returned DEF IsError, FetchChainParams
  <2>5. QED
    BY <2>1, <2>2, <2>3, <2>4, NothingNew
<1>2. QED
  BY <1>1 DEF NoErrors

(* Until the chain list arrives, the monitor handles nothing else.         *)
Listing ==
  /\ phase = "receive" /\ outbox = <<>>
  /\ \/ msgQ = <<>> /\ ListFirst(cmdQ, FetchChainList)
     \/ ListFirst(msgQ, ChainListAnswer) /\ OnlyHeads(cmdQ)

(* The wait for the chain list ends when the list is handled.              *)
LEMMA ListingMoves ==
  ASSUME TypeOK, Listing, PumpStep, faults' = faults
  PROVE  \/ Listing'
         \/ HandleChainList /\ OnlyHeads(msgQ') /\ OnlyHeads(cmdQ')
<1>0. /\ cmdQ \in Seq(IoCommand) /\ outbox \in Seq(IoCommand) /\ msgQ \in Seq(IoResult)
  BY DEF TypeOK
<1>1. CASE FeederTick
  <2>1. /\ cmdQ' = Append(cmdQ, FetchHead) /\ FetchHead \in IoCommand
        /\ FetchHead.kind = "FetchHead"
        /\ UNCHANGED <<msgQ, outbox, phase>>
    BY <1>1, CommandTypes DEF FeederTick, FetchHead
  <2>2. QED
    BY <1>0, <2>1, AppendSetup DEF Listing
<1>2. CASE IoStep
  <2>1. /\ cmdQ # <<>> /\ cmdQ' = Tail(cmdQ) /\ outbox' = outbox /\ phase' = phase
    BY <1>2, IoStepJobs
  <2>2. PICK z \in IoResult : msgQ' = Append(msgQ, z) /\ Answers(Head(cmdQ), z)
    BY <1>2, IoAnswers
  <2>3. CASE msgQ = <<>> /\ ListFirst(cmdQ, FetchChainList)
    <3>1. Head(cmdQ) = FetchChainList /\ OnlyHeads(cmdQ')
      BY <1>0, <2>1, <2>3, TailSetup
    <3>2. z = ChainListAnswer
      BY <2>2, <3>1 DEF Answers, FetchChainList
    <3>3. ListFirst(msgQ', ChainListAnswer)
      BY <1>0, <2>2, <2>3, <3>2, AppendSetup
    <3>4. QED
      BY <2>1, <3>1, <3>3 DEF Listing
  <2>4. CASE ListFirst(msgQ, ChainListAnswer) /\ OnlyHeads(cmdQ)
    <3>1. Head(cmdQ).kind \in {"FetchHead", "Head"} /\ OnlyHeads(cmdQ')
      BY <1>0, <2>1, <2>4, TailSetup
    <3>2. z.kind = "Head"
      BY <2>2, <3>1 DEF Answers
    <3>3. ListFirst(msgQ', ChainListAnswer)
      BY <1>0, <2>2, <2>4, <3>2, AppendSetup
    <3>4. QED
      BY <2>1, <3>1, <3>3 DEF Listing
  <2>5. QED
    BY <2>3, <2>4 DEF Listing
<1>3. ASSUME NEW kind, Receives(kind)
      PROVE  kind = "ChainList" /\ OnlyHeads(msgQ') /\ OnlyHeads(cmdQ')
  <2>1. /\ msgQ # <<>> /\ msgQ' = Tail(msgQ) /\ cmdQ' = cmdQ /\ Head(msgQ).kind = kind
    BY <1>3 DEF Receives
  <2>2. Head(msgQ) = ChainListAnswer /\ OnlyHeads(msgQ')
    BY <1>0, <2>1, TailSetup DEF Listing
  <2>3. QED
    BY <2>1, <2>2 DEF Listing, ChainListAnswer
<1>4. CASE SendCommand \/ PublishMetrics
  BY <1>4 DEF SendCommand, PublishMetrics, Listing
<1>5. CASE UNCHANGED vars
  BY <1>5 DEF vars, Listing
<1>6. CASE \/ HandleFetchError \/ HandleFetchBlockResultsError
           \/ HandleFetchChainListError \/ HandleChainParams
           \/ HandleBlockResults \/ HandleHead \/ \E creations : HandleBlock(creations)
  <2>1. PICK kind \in {"FetchError", "FetchBlockResultsError", "FetchChainListError",
                       "ChainParams", "BlockResults", "Head", "Block"} : Receives(kind)
    BY <1>6 DEF HandleFetchError, HandleFetchBlockResultsError, HandleHead,
       HandleFetchChainListError, HandleChainParams, HandleBlockResults, HandleBlock
  <2>2. QED
    BY <1>3, <2>1
<1>7. CASE HandleChainList
  BY <1>3, <1>7 DEF HandleChainList
<1>8. QED
  BY <1>1, <1>2, <1>4, <1>5, <1>6, <1>7 DEF PumpStep, NoBlockStep

(* From then on parameters are ahead of any block.                         *)
SetupOrder ==
  /\ SetupFirst(msgQ) /\ SetupFirst(cmdQ) /\ SetupFirst(outbox)
  /\ HasSetup(cmdQ) => ~HasWork(msgQ)
  /\ HasSetup(outbox) => ~HasWork(msgQ) /\ ~HasWork(cmdQ)
Listed == \A x \in InFlight : x.kind \notin {"FetchChainList", "ChainList"}

(* It is asked for once.                                                   *)
LEMMA ListedStays ==
  ASSUME TypeOK, NoErrors, Listed, PumpStep, faults' = faults
  PROVE  Listed' /\ ~HandleChainList
<1>1. ~HandleChainList
  BY HandlerMoves DEF HandleChainList, Listed
<1>2. ASSUME NEW x \in InFlight' PROVE x.kind \notin {"FetchChainList", "ChainList"}
  <2>1. CASE x \in InFlight
    BY <2>1 DEF Listed
  <2>2. CASE x = FetchHead
    BY <2>2 DEF FetchHead
  <2>3. ASSUME NEW y \in InFlight, Answers(y, x)
        PROVE  x.kind \notin {"FetchChainList", "ChainList"}
    BY <2>3 DEF Answers, Listed, Block, BlockResults, ChainListAnswer, ChainParams
  <2>4. ASSUME x \in Range(outbox'), NEW kind, Receives(kind)
        PROVE  x.kind \notin {"FetchChainList", "ChainList"}
    BY <1>1, <2>4, Returned
  <2>5. QED
    BY <2>1, <2>2, <2>3, <2>4, NothingNew
<1>3. QED
  BY <1>1, <1>2 DEF Listed

(* The queues as sets.                                                     *)
LEMMA NoSetupIn ==
  ASSUME NEW q
  PROVE  /\ HasSetup(q) <=> \E x \in Range(q) : IsSetup(x)
         /\ HasWork(q) <=> \E x \in Range(q) : IsJob(x)
         /\ ~HasSetup(q) \/ ~HasWork(q) => SetupFirst(q)
  BY DEF HasSetup, HasWork, SetupFirst, Range

(* Steps keep the order: nothing overtakes.                                *)
LEMMA OrderKept ==
  ASSUME PipelineInv, NoErrors, Listed, SetupOrder, PumpStep, faults' = faults
  PROVE  SetupOrder'
<1>0. /\ cmdQ \in Seq(IoCommand) /\ outbox \in Seq(IoCommand) /\ msgQ \in Seq(IoResult)
      /\ TypeOK
  BY DEF TypeOK, PipelineInv
<1>1. CASE FeederTick
  <2>1. /\ cmdQ' = Append(cmdQ, FetchHead) /\ FetchHead \in IoCommand
        /\ ~IsSetup(FetchHead) /\ ~IsJob(FetchHead)
        /\ UNCHANGED <<msgQ, outbox>>
    BY <1>1, CommandTypes DEF FeederTick, FetchHead, IsSetup, IsJob
  <2>2. QED
    BY <1>0, <2>1, AppendSetup DEF SetupOrder
<1>2. CASE IoStep
  <2>1. /\ cmdQ # <<>> /\ cmdQ' = Tail(cmdQ) /\ outbox' = outbox
    BY <1>0, <1>2, IoStepJobs
  <2>2. PICK z \in IoResult : msgQ' = Append(msgQ, z) /\ Answers(Head(cmdQ), z)
    BY <1>0, <1>2, IoAnswers
  <2> DEFINE c == Head(cmdQ)
  <2>3. (IsJob(z) => IsJob(c)) /\ (IsSetup(z) => IsSetup(c))
    BY <2>2 DEF Answers, IsJob, IsSetup, Block, BlockResults, ChainListAnswer, ChainParams
  <2>4. /\ HasWork(cmdQ') => HasWork(cmdQ)
        /\ HasSetup(cmdQ') => HasSetup(cmdQ)
        /\ IsJob(c) => HasWork(cmdQ)
        /\ IsSetup(c) => HasSetup(cmdQ)
        /\ SetupFirst(cmdQ')
        /\ IsJob(c) => ~HasSetup(cmdQ)
    BY <1>0, <2>1, TailSetup DEF SetupOrder
  <2>5. /\ HasWork(msgQ') <=> HasWork(msgQ) \/ IsJob(z)
        /\ SetupFirst(msgQ) /\ ~(IsSetup(z) /\ HasWork(msgQ)) => SetupFirst(msgQ')
    BY <1>0, <2>2, AppendSetup
  <2> HIDE DEF c
  <2>6. QED
    BY <2>1, <2>3, <2>4, <2>5 DEF SetupOrder
<1>3. CASE SendCommand
  <2>1. /\ outbox # <<>> /\ cmdQ' = Append(cmdQ, Head(outbox))
        /\ outbox' = Tail(outbox) /\ msgQ' = msgQ
    BY <1>3 DEF SendCommand
  <2> DEFINE x == Head(outbox)
  <2>2. x \in IoCommand
    BY <1>0, <2>1, TailFacts
  <2>3. /\ HasSetup(outbox') => HasSetup(outbox)
        /\ IsSetup(x) => HasSetup(outbox)
        /\ SetupFirst(outbox')
        /\ IsJob(x) => ~HasSetup(outbox)
    BY <1>0, <2>1, TailSetup DEF SetupOrder
  <2>4. /\ HasWork(cmdQ') <=> HasWork(cmdQ) \/ IsJob(x)
        /\ HasSetup(cmdQ') <=> HasSetup(cmdQ) \/ IsSetup(x)
        /\ SetupFirst(cmdQ) /\ ~(IsSetup(x) /\ HasWork(cmdQ)) => SetupFirst(cmdQ')
    BY <1>0, <2>1, <2>2, AppendSetup
  <2> HIDE DEF x
  <2>5. QED
    BY <2>1, <2>3, <2>4 DEF SetupOrder
<1>4. ASSUME NEW kind, Receives(kind)
      PROVE  SetupOrder'
  <2>1. /\ msgQ # <<>> /\ msgQ' = Tail(msgQ) /\ cmdQ' = cmdQ
    BY <1>4 DEF Receives
  <2>2. (HasWork(msgQ') => HasWork(msgQ)) /\ SetupFirst(msgQ')
    BY <1>0, <2>1, TailSetup DEF SetupOrder
  <2>3. ~HasSetup(outbox')
    <3>1. \A x \in Range(outbox') : ~IsSetup(x)
      BY <1>0, <1>4, ListedStays, Returned DEF IsSetup
    <3>2. QED
      BY <3>1, NoSetupIn
  <2>4. SetupFirst(outbox')
    BY <2>3, NoSetupIn
  <2>5. QED
    BY <2>1, <2>2, <2>3, <2>4 DEF SetupOrder
<1>5. CASE PublishMetrics \/ UNCHANGED vars
  BY <1>5 DEF PublishMetrics, vars, SetupOrder
<1>6. CASE \/ HandleFetchError \/ HandleFetchBlockResultsError
           \/ HandleFetchChainListError \/ HandleChainList \/ HandleChainParams
           \/ HandleBlockResults \/ HandleHead \/ \E creations : HandleBlock(creations)
  <2>1. \E kind : Receives(kind)
    BY <1>6 DEF HandleFetchError, HandleFetchBlockResultsError, HandleHead,
       HandleFetchChainListError, HandleChainList, HandleChainParams,
       HandleBlockResults, HandleBlock
  <2>2. QED
    BY <1>4, <2>1
<1>7. QED
  BY <1>1, <1>2, <1>3, <1>5, <1>6 DEF PumpStep, NoBlockStep

(* The parameters of a listed chain are loaded, or on their way.           *)
KnowsParams(c) == Lower[c] \in DOMAIN chain_params /\ chain_params[Lower[c]] = NodeParams[c]
ParamsComing ==
  \A c \in Chains : KnowsParams(c) \/ \E x \in InFlight : IsSetup(x) /\ x.chain = c

LoadInv == NoErrors /\ (Listing \/ (Listed /\ SetupOrder /\ ParamsComing))

(* The handler of a message is that of its kind.                           *)
LEMMA HandlerIs ==
  ASSUME TypeOK, [MonitorNext]_monitorVars, NEW kind, Receives(kind)
  PROVE  /\ kind = "ChainParams" => HandleChainParamsData
         /\ kind = "BlockResults" => HandleBlockResultsData
         /\ kind = "Block" => HandleBlockData
         /\ kind = "Head" => HandleHeadData
<1>1. /\ Head(msgQ).kind = kind /\ phase = "receive" /\ phase' = "send"
  BY DEF Receives
<1>2. IoStep => phase' = phase
  BY IoStepJobs
<1>3. \/ HandleBlockData \/ HandleBlockResultsData \/ HandleChainParamsData
      \/ HandleHeadData
      \/ HandleFetchError \/ HandleFetchBlockResultsError
      \/ HandleFetchChainListError \/ HandleChainList
  BY <1>1, <1>2 DEF MonitorNext, MonitorProcessingStep, MonitorFeederTick,
     MonitorIoStep, PublishMetricsData, OtherStep, monitorVars, vars,
     FeederTick, PublishMetrics, SendCommand
<1>4. QED
  BY <1>1, <1>3 DEF HandleBlockData, HandleBlockResultsData, HandleChainParamsData,
     HandleHeadData, HandleFetchError, HandleFetchBlockResultsError,
     HandleFetchChainListError, HandleChainList, HandleBlockResults,
     HandleChainParams, HandleHead, Receives

(* Loading the parameters of one chain keeps those of the others.          *)
LEMMA ParamsLoaded ==
  ASSUME SameParams, HandleChainParamsData, NEW d \in Chains, d = Head(msgQ).chain
  PROVE  KnowsParams(d)' /\ \A c \in Chains : KnowsParams(c) => KnowsParams(c)'
<1>1. chain_params' = WithParams(chain_params, d)
  BY DEF HandleChainParamsData
<1>2. /\ DOMAIN WithParams(chain_params, d) = DOMAIN chain_params \cup {Lower[d]}
      /\ \A n \in DOMAIN chain_params \cup {Lower[d]} :
           WithParams(chain_params, d)[n]
             = IF n = Lower[d] THEN NodeParams[d] ELSE chain_params[n]
  BY DEF WithParams
<1>3. \A c \in Chains : Lower[c] = Lower[d] => NodeParams[c] = NodeParams[d]
  BY DEF SameParams
<1>4. KnowsParams(d)'
  BY <1>1, <1>2 DEF KnowsParams
<1>5. \A c \in Chains : KnowsParams(c) => KnowsParams(c)'
  BY <1>1, <1>2, <1>3 DEF KnowsParams
<1>6. QED
  BY <1>4, <1>5

(* Only the handler of chain parameters loads them.                        *)
LEMMA OthersKeepParams ==
  ASSUME [MonitorNext]_monitorVars, ~HandleChainParamsData
  PROVE  chain_params' = chain_params
BY QuietData DEF MonitorNext, MonitorProcessingStep, QuietStep, HandleBlockData,
   HandleBlockResultsData, PublishMetricsData, pollVars

(* They come until they are there.                                         *)
LEMMA ParamsStayComing ==
  ASSUME SameParams, PipelineInv, ParamsComing, PumpStep,
         [MonitorNext]_monitorVars, faults' = faults
  PROVE  ParamsComing'
<1>0. TypeOK
  BY DEF PipelineInv
<1>1. ASSUME HandleChainParamsData
      PROVE  Head(msgQ).chain \in Chains
  <2>1. Head(msgQ) \in IoResult /\ Head(msgQ).kind = "ChainParams"
    BY <1>0, <1>1, HandlerMoves DEF HandleChainParamsData, HandleChainParams
  <2>2. QED
    BY <2>1 DEF IoResult
<1>2. ASSUME NEW c \in Chains, KnowsParams(c)
      PROVE  KnowsParams(c)'
  <2>1. CASE HandleChainParamsData
    BY <1>1, <1>2, <2>1, ParamsLoaded
  <2>2. CASE ~HandleChainParamsData
    BY <1>2, <2>2, OthersKeepParams DEF KnowsParams
  <2>3. QED
    BY <2>1, <2>2
<1>3. ASSUME NEW c \in Chains, NEW x \in InFlight, IsSetup(x), x.chain = c
      PROVE  KnowsParams(c)' \/ \E z \in InFlight' : IsSetup(z) /\ z.chain = c
  <2>1. CASE x \in InFlight'
    BY <1>3, <2>1
  <2>2. ASSUME NEW z \in InFlight', Answers(x, z)
        PROVE  IsSetup(z) /\ z.chain = c
    BY <1>3, <2>2 DEF Answers, IsSetup, ChainParams
  <2>3. ASSUME x = Head(msgQ), NEW kind, Receives(kind)
        PROVE  KnowsParams(c)'
    <3>1. x.kind = kind /\ x \in IoResult
      BY <1>0, <2>3, HandlerMoves
    <3>2. kind = "ChainParams"
      BY <1>3, <3>1 DEF IsSetup, IoResult
    <3>3. HandleChainParamsData
      BY <1>0, <2>3, <3>2, HandlerIs
    <3>4. c = Head(msgQ).chain
      BY <1>3, <2>3
    <3>5. QED
      BY <3>3, <3>4, ParamsLoaded
  <2>4. QED
    BY <2>1, <2>2, <2>3, NothingLost
<1>4. QED
  BY <1>2, <1>3 DEF ParamsComing

(* The chain list asks for the parameters of every chain.                  *)
LEMMA ListedChains ==
  ASSUME HandleChainList, OnlyHeads(msgQ'), OnlyHeads(cmdQ')
  PROVE  Listed' /\ SetupOrder' /\ ParamsComing'
<1>1. outbox' = [i \in DOMAIN ChainList |-> FetchChainParams(ChainList[i])]
  BY DEF HandleChainList
<1>2. \A x \in Range(outbox') :
         x.kind = "FetchChainParams" /\ IsSetup(x) /\ ~IsJob(x)
  BY <1>1 DEF Range, FetchChainParams, IsSetup, IsJob
<1>3. \A x \in Range(msgQ') \cup Range(cmdQ') :
         x.kind \in {"FetchHead", "Head"} /\ ~IsSetup(x) /\ ~IsJob(x)
  BY DEF OnlyHeads, Range, IsSetup, IsJob
<1>4. /\ ~HasSetup(msgQ') /\ ~HasSetup(cmdQ')
      /\ ~HasWork(msgQ') /\ ~HasWork(cmdQ') /\ ~HasWork(outbox')
  BY <1>2, <1>3, NoSetupIn
<1>5. SetupOrder'
  BY <1>4, NoSetupIn DEF SetupOrder
<1>6. Listed'
  BY <1>2, <1>3 DEF Listed, InFlight
<1>7. ParamsComing'
  <2>1. SUFFICES ASSUME NEW c \in Chains
                 PROVE  \E x \in InFlight' : IsSetup(x) /\ x.chain = c
    BY DEF ParamsComing
  <2>2. PICK i \in DOMAIN ChainList : c = ChainList[i]
    BY DEF Chains
  <2>3. outbox'[i] = FetchChainParams(c) /\ i \in DOMAIN outbox'
    BY <1>1, <2>2
  <2>4. FetchChainParams(c) \in Range(outbox')
    BY <2>3 DEF Range
  <2>5. IsSetup(FetchChainParams(c)) /\ FetchChainParams(c).chain = c
    BY DEF IsSetup, FetchChainParams
  <2>6. QED
    BY <2>4, <2>5 DEF InFlight
<1>8. QED
  BY <1>5, <1>6, <1>7

(* While no request fails, the parameters of every listed chain are loaded *)
(* before the first block is.                                              *)
LEMMA StepKeepsLoad ==
  ASSUME AnyPolls, SameParams, BookInv, LoadInv,
         [MonitorNext]_monitorVars, faults' = faults
  PROVE  LoadInv'
<1>1. PumpStep /\ TypeOK /\ PipelineInv /\ NoErrors
  BY MonitorPumps DEF BookInv, PipelineInv, LoadInv
<1>2. NoErrors'
  BY <1>1, StepKeepsNoErrors
<1>3. CASE Listing
  BY <1>1, <1>2, <1>3, ListingMoves, ListedChains DEF LoadInv
<1>4. CASE Listed /\ SetupOrder /\ ParamsComing
  BY <1>1, <1>2, <1>4, ListedStays, OrderKept, ParamsStayComing DEF LoadInv
<1>5. QED
  BY <1>3, <1>4 DEF LoadInv

(* At the start the chain list is asked for first.                         *)
LEMMA LoadStarts ==
  ASSUME Init
  PROVE  LoadInv
<1>1. InFlight = {FetchChainList} /\ ~IsError(FetchChainList)
  BY ShortMembers DEF Init, InFlight, IsError, FetchChainList
<1>2. cmdQ = <<FetchChainList>>
  BY DEF Init
<1>3. ListFirst(cmdQ, FetchChainList)
  BY <1>2 DEF ListFirst
<1>4. QED
  BY <1>1, <1>3 DEF Init, LoadInv, Listing, NoErrors

(* The parameters that are loaded come from the configuration or the node. *)
ParamsFrom ==
  /\ DOMAIN ConfigParams \subseteq DOMAIN chain_params
  /\ \A n \in DOMAIN chain_params :
       \/ n \in DOMAIN ConfigParams /\ chain_params[n] = ConfigParams[n]
       \/ \E c \in Chains : Lower[c] = n /\ chain_params[n] = NodeParams[c]

(* Every step keeps it so.                                                 *)
LEMMA StepKeepsParamsFrom ==
  ASSUME MonitorInv, ParamsFrom, [MonitorNext]_monitorVars
  PROVE  ParamsFrom'
<1>1. CASE HandleChainParamsData
  <2> DEFINE d == Head(msgQ).chain
  <2>1. d \in Chains
    <3>1. Head(msgQ) \in IoResult /\ Head(msgQ).kind = "ChainParams"
      BY <1>1, HandlerMoves DEF HandleChainParamsData, HandleChainParams, MonitorInv
    <3>2. QED
      BY <3>1 DEF IoResult
  <2>2. chain_params' = WithParams(chain_params, d)
    BY <1>1 DEF HandleChainParamsData
  <2>3. /\ DOMAIN WithParams(chain_params, d) = DOMAIN chain_params \cup {Lower[d]}
        /\ \A n \in DOMAIN chain_params \cup {Lower[d]} :
             WithParams(chain_params, d)[n]
               = IF n = Lower[d] THEN NodeParams[d] ELSE chain_params[n]
    BY DEF WithParams
  <2> HIDE DEF d
  <2>4. QED
    BY <2>1, <2>2, <2>3 DEF ParamsFrom
<1>2. CASE ~HandleChainParamsData
  BY <1>2, OthersKeepParams DEF ParamsFrom
<1>3. QED
  BY <1>1, <1>2

(* When a block is handled, the parameters in use are those of the node,   *)
(* and those of the configuration for the chains the node does not list.   *)
LEMMA ParamsReady ==
  ASSUME TypeOK, LoadInv, ParamsFrom, HandleBlockData
  PROVE  \A chain \in DOMAIN Lower :
           /\ Lower[chain] \in DOMAIN chain_params <=> Lower[chain] \in KnownChains
           /\ Lower[chain] \in KnownChains => chain_params[Lower[chain]] = OpenFor(chain)
<1>0. msgQ \in Seq(IoResult) /\ msgQ # <<>> /\ Head(msgQ).kind = "Block"
  BY DEF TypeOK, HandleBlockData
<1>1. ~Listing
  BY <1>0, TailSetup DEF Listing, ChainListAnswer
<1>2. SetupOrder /\ ParamsComing
  BY <1>1 DEF LoadInv
<1>3. \A x \in InFlight : ~IsSetup(x)
  <2>1. IsJob(Head(msgQ))
    BY <1>0 DEF IsJob
  <2>2. HasWork(msgQ) /\ ~HasSetup(msgQ)
    BY <1>0, <1>2, <2>1, TailSetup DEF SetupOrder
  <2>3. ~HasSetup(cmdQ) /\ ~HasSetup(outbox)
    BY <1>2, <2>2 DEF SetupOrder
  <2>4. QED
    BY <2>2, <2>3, NoSetupIn DEF InFlight
<1>4. \A c \in Chains : KnowsParams(c)
  BY <1>2, <1>3 DEF ParamsComing
<1>5. \A n : n \in DOMAIN chain_params <=> n \in KnownChains
  BY <1>4 DEF ParamsFrom, KnownChains, KnowsParams
<1>6. ASSUME NEW chain \in DOMAIN Lower, Lower[chain] \in DOMAIN chain_params
      PROVE  chain_params[Lower[chain]] = OpenFor(chain)
  <2>1. CASE \E c \in Chains : Lower[c] = Lower[chain]
    <3>1. PICK d : d \in Chains /\ Lower[d] = Lower[chain] /\ OpenFor(chain) = NodeParams[d]
      BY <2>1 DEF OpenFor
    <3>2. QED
      BY <1>4, <3>1 DEF KnowsParams
  <2>2. CASE ~\E c \in Chains : Lower[c] = Lower[chain]
    BY <1>6, <2>2 DEF OpenFor, ParamsFrom
  <2>3. QED
    BY <2>1, <2>2
<1>7. QED
  BY <1>5, <1>6

(* So the block's handler asks for all that the chain opens a poll for.    *)
DataFor(r, h) == [chain |-> r.chain, tx |-> r.tx, expiry_height |-> h + OpenFor(r.chain)]
AllWanted(creations, h) ==
  /\ \A d \in Range(creations) : \E r \in RequestsAt(h) :
       Lower[r.chain] \in KnownChains /\ d = DataFor(r, h)
  /\ \A r \in RequestsAt(h) :
       Lower[r.chain] \in KnownChains => DataFor(r, h) \in Range(creations)

(* What the handler of a block waits for is what the block requests.       *)
LEMMA BlockWants ==
  ASSUME AnyPolls, MonitorInv, LoadInv, ParamsFrom, HandleBlockData,
         NEW h, h = Head(msgQ).height
  PROVE  AllWanted(BlockData.poll_creations, h)
<1> DEFINE creations == BlockData.poll_creations
           requests == PollRequests(GetTxs(history.blocks[h]))
<1>1. /\ h \in FirstHeight..MaxHeight /\ h \in Nat
      /\ TypeOK /\ history \in Histories
  <2>1. h \in FirstHeight..MaxHeight
    BY BlockDataType
  <2>2. QED
    BY <2>1, PipelineAssumption DEF MonitorInv, DataInv
<1>2. requests \in Seq(Request) /\ RequestsAt(h) = Range(requests)
  BY <1>1, PollRequestsType, ChainAssumption DEF RequestsAt, RequestsIn
<1>3. creations = PollCreations(requests, chain_params, h)
  BY DEF BlockData, ProcessBlock
<1>4. \A c \in DOMAIN chain_params : chain_params[c] \in Nat
  BY PeriodsType DEF MonitorInv, DataInv, ParamsInv
<1>5. /\ creations \in Seq(CreationsAt(chain_params, h))
      /\ \A d \in Range(creations) : \E r \in Range(requests) :
           d.chain = r.chain /\ d.tx = r.tx
      /\ \A r \in Range(requests) : Lower[r.chain] \in DOMAIN chain_params =>
           \E d \in Range(creations) : d.chain = r.chain /\ d.tx = r.tx
  <2> HIDE DEF creations, requests
  <2>1. QED
    BY <1>1, <1>2, <1>3, <1>4, PollCreationsAre
<1>6. \A r \in Range(requests) : r.chain \in DOMAIN Lower
  <2> HIDE DEF requests
  <2>1. Range(requests) \subseteq Request
    BY <1>2, ListFacts
  <2>2. QED
    BY <2>1 DEF Request
<1>7. /\ Range(creations) \subseteq CreationsAt(chain_params, h)
  <2> HIDE DEF creations
  <2>1. QED
    BY <1>5, ListFacts
<1>8. \A chain \in DOMAIN Lower :
        /\ Lower[chain] \in DOMAIN chain_params <=> Lower[chain] \in KnownChains
        /\ Lower[chain] \in KnownChains => chain_params[Lower[chain]] = OpenFor(chain)
  BY <1>1, ParamsReady
<1> HIDE DEF creations, requests
<1>9. ASSUME NEW d \in Range(creations), NEW r, d.chain = r.chain, d.tx = r.tx
      PROVE  Lower[r.chain] \in KnownChains /\ d = DataFor(r, h)
  <2>1. /\ d \in [chain : DOMAIN Lower, tx : Nat, expiry_height : Nat]
        /\ Lower[d.chain] \in DOMAIN chain_params
        /\ d.expiry_height = h + chain_params[Lower[d.chain]]
    BY <1>7 DEF CreationsAt
  <2>2. /\ Lower[r.chain] \in KnownChains /\ chain_params[Lower[d.chain]] = OpenFor(r.chain)
    BY <1>8, <1>9, <2>1
  <2>3. QED
    BY <1>9, <2>1, <2>2 DEF DataFor
<1>10. \A r \in RequestsAt(h) :
         Lower[r.chain] \in KnownChains => DataFor(r, h) \in Range(creations)
  BY <1>2, <1>5, <1>6, <1>8, <1>9
<1>11. QED
  BY <1>2, <1>5, <1>9, <1>10 DEF AllWanted, creations

----------------------------------------------------------------------------
(* Where the monitor starts.                                               *)
StartInv ==
  /\ Starting <=> first_block = 0
  /\ faults = 0 =>
       \/ chain_height = 0 /\ (first_block # 0 => last_processed_height = first_block - 1)
       \/ /\ chain_height = last_processed_height
          /\ first_block # 0 /\ first_block <= chain_height
  /\ first_block \in Nat

(* A step without a fault, from a state without one.                       *)
LEMMA NoFaults ==
  ASSUME TypeOK, PumpStep
  PROVE  faults \in Nat /\ faults' \in {faults, faults + 1} /\ (faults' = 0 => faults = 0)
<1>1. faults \in Nat
  BY PipelineAssumption DEF TypeOK
<1>2. IoStep => faults' \in {faults, faults + 1}
  BY IoStepResults
<1>3. PumpStep /\ ~IoStep => faults' = faults
  BY DEF PumpStep, NoBlockStep, FeederTick, HandleFetchError, HandleFetchBlockResultsError,
     HandleFetchChainListError, HandleChainList, HandleChainParams,
     HandleBlockResults, HandleHead, HandleBlock, SendCommand, PublishMetrics,
     Receives, envVars, vars
<1>4. QED
  BY <1>1, <1>2, <1>3

(* While there are no errors, every step keeps it so.                      *)
LEMMA StepKeepsStart ==
  ASSUME AnyPolls, SteadyNode, BookInv, StartInv, NoErrors,
         [MonitorNext]_monitorVars
  PROVE  StartInv'
<1>0. /\ TypeOK /\ PumpStep /\ MonitorInv /\ HeadsInv /\ HeightsInv
      /\ faults' = 0 => faults = 0
  BY MonitorPumps, NoFaults DEF BookInv, PipelineInv, MonitorInv
<1>1. CASE HandleBlockData
  <2>1. /\ Head(msgQ).height = last_processed_height + 1
        /\ chain_height' = Head(msgQ).height /\ chain_height' > chain_height
        /\ chain_height \in Nat /\ chain_height' \in Nat
        /\ last_processed_height \in Nat
    BY <1>1, BlockHeight
  <2>2. first_block' = first_block /\ last_processed_height' = Head(msgQ).height
    BY <1>1 DEF HandleBlockData, HandleBlock
  <2>3. ~Starting
    <3>1. IsJob(Head(msgQ)) /\ \E kind : Receives(kind)
      BY <1>1 DEF HandleBlockData, HandleBlock, Receives, IsJob
    <3>2. chain_tip > last_processed_height
      BY <1>0, <3>1, ReceivedJobs DEF BookInv, PipelineInv
    <3>3. QED
      BY <3>2 DEF BookInv, PipelineInv, JobsInv, Starting
  <2>4. QED
    BY <1>0, <2>1, <2>2, <2>3 DEF StartInv, Starting
<1>2. CASE HandleHeadData
  <2>1. Head(msgQ).height \in Nat /\ Head(msgQ).height > 1
    <3>1. Head(msgQ) \in InFlight /\ Head(msgQ).kind = "Head"
      BY <1>0, <1>2, HandlerMoves DEF HandleHeadData, HandleHead
    <3>2. Head(msgQ).height \in FirstHeight..MaxHeight
      BY <1>0, <3>1 DEF HeightsInv, HasHeight
    <3>3. QED
      BY <3>2, PipelineAssumption DEF SteadyNode
  <2>2. /\ first_block' = IF Starting THEN Head(msgQ).height ELSE first_block
        /\ last_processed_height' = IF Starting THEN Head(msgQ).height - 1
                                                ELSE last_processed_height
        /\ chain_height' = chain_height /\ faults' = faults
    BY <1>2 DEF HandleHeadData, HandleHead, Receives, envVars
  <2>3. CASE Starting
    <3>1. first_block = 0 /\ (faults = 0 => chain_height = 0)
      BY <2>3 DEF StartInv
    <3>2. QED
      BY <2>1, <2>2, <2>3, <3>1 DEF StartInv, Starting
  <2>4. CASE ~Starting
    BY <2>2, <2>4 DEF StartInv, Starting
  <2>5. QED
    BY <2>3, <2>4
<1>3. CASE ~HandleBlockData /\ ~HandleHeadData
  <2>1. first_block' = first_block /\ chain_height' = chain_height
    BY <1>3, HeightStays DEF MonitorNext, MonitorFeederTick, MonitorIoStep,
       MonitorProcessingStep, HandleBlockResultsData, HandleChainParamsData,
       PublishMetricsData, OtherStep, dataVars, monitorVars
  <2>2. last_processed_height' = last_processed_height
    <3>1. ~HandleFetchError
      BY <1>0, HandlerMoves DEF HandleFetchError, NoErrors, IsError
    <3>2. IoStep => last_processed_height' = last_processed_height
      BY <1>0, IoStepJobs DEF procVars
    <3>3. QED
      BY <1>3, <3>1, <3>2 DEF MonitorNext, MonitorFeederTick, MonitorIoStep,
         MonitorProcessingStep, HandleBlockResultsData, HandleChainParamsData,
         PublishMetricsData, OtherStep, monitorVars, vars, procVars,
         FeederTick, HandleFetchBlockResultsError, HandleFetchChainListError,
         HandleChainList, HandleChainParams, HandleBlockResults, SendCommand,
         PublishMetrics
  <2>3. QED
    BY <1>0, <2>1, <2>2 DEF StartInv, Starting
<1>4. QED
  BY <1>1, <1>2, <1>3

----------------------------------------------------------------------------
(* Polls: while nothing fails, the results of a block are answered before  *)
(* the next block is, and ask for all the polls it opens.                  *)
AwaitedInv ==
  \A x \in InFlight : IsResultsJob(x) =>
    /\ first_block # 0 /\ first_block <= x.height /\ x.height = chain_height
    /\ AllWanted(x.polls, x.height)

(* The chain, and what is wanted of it, does not change.                   *)
LEMMA WantedStays ==
  ASSUME [MonitorNext]_monitorVars
  PROVE  /\ history' = history
         /\ \A h : RequestsAt(h)' = RequestsAt(h) /\ IdsAt(h)' = IdsAt(h)
         /\ \A creations, h : AllWanted(creations, h) => AllWanted(creations, h)'
BY HistoryConstant DEF AllWanted, RequestsAt, IdsAt

(* Without failures nothing is late.                                       *)
LEMMA NothingLate ==
  TypeOK /\ LagInv /\ LateInv /\ faults = 0
    => \A x \in InFlight : IsResultsJob(x) => x.height >= last_processed_height
<1>1. SUFFICES ASSUME TypeOK, LagInv, LateInv, faults = 0,
                      NEW x \in InFlight, IsResultsJob(x),
                      x.height < last_processed_height
               PROVE  FALSE
  <2>1. ASSUME TypeOK, NEW x \in InFlight, IsResultsJob(x)
        PROVE  x.height \in Nat /\ last_processed_height \in Nat
    <3>1. x \in Pending
      BY <2>1, PendingInFlight
    <3>2. QED
      BY <2>1, <3>1, PendingTypes DEF TypeOK
  <2>2. QED
    BY <2>1
<1>2. x.height \in LateHeights
  BY <1>1, PendingInFlight, LateMembers
<1>3. IsFiniteSet(LateHeights) /\ Cardinality(LateHeights) \in Nat
  BY <1>1, LateFinite
<1>4. Cardinality(LateHeights) = 0
  BY <1>1, <1>3 DEF LateInv
<1>5. LateHeights = {}
  BY <1>3, <1>4, FS_EmptySet
<1>6. QED
  BY <1>2, <1>5

OnTime ==
  faults = 0
    => \A x \in InFlight : IsResultsJob(x) => x.height >= last_processed_height

(* It follows from what is known of the pipeline, before and after a step. *)
LEMMA ResultsOnTime == BookInv => OnTime
BY NothingLate DEF BookInv, ResultsInv, PipelineInv, OnTime

LEMMA ResultsOnTimeNext == BookInv' => OnTime'
BY ResultsOnTime, PTL

(* The first block is set once.                                            *)
LEMMA FirstBlockStays ==
  ASSUME StartInv, [MonitorNext]_monitorVars
  PROVE  /\ first_block # 0 => first_block' = first_block
         /\ HandleBlockData => first_block' = first_block
BY DEF StartInv, MonitorNext, MonitorProcessingStep, MonitorFeederTick, MonitorIoStep,
   HandleBlockData, HandleBlockResultsData, HandleChainParamsData, HandleHeadData,
   PublishMetricsData, OtherStep, monitorVars, dataVars

(* A request for results is made at its block, and gone by the next.       *)
LEMMA StepKeepsAwaited ==
  ASSUME AnyPolls, SteadyNode, BookInv, BookInv', StartInv, AwaitedInv, LoadInv, ParamsFrom,
         [MonitorNext]_monitorVars, faults' = 0, faults = 0
  PROVE  AwaitedInv'
<1>0. MonitorInv /\ TypeOK /\ chain_height \in Nat /\ last_processed_height \in Nat
  BY DEF BookInv, MonitorInv, TypeOK
<1>1. ASSUME NEW x, FromBefore(x), IsResultsJob(x)
      PROVE  /\ first_block # 0 /\ first_block <= x.height /\ x.height = chain_height
             /\ AllWanted(x.polls, x.height)
  <2>1. PICK y \in InFlight : x = y \/ Continues(x, y)
    BY <1>1 DEF FromBefore
  <2>2. IsResultsJob(y) /\ x.height = y.height /\ x.polls = y.polls
    BY <1>1, <2>1, ResultsJobTypes DEF Continues
  <2>3. QED
    BY <2>1, <2>2 DEF AwaitedInv
<1>2. ASSUME NEW x \in InFlight', IsResultsJob(x)
      PROVE  /\ first_block' # 0 /\ first_block' <= x.height /\ x.height = chain_height'
             /\ AllWanted(x.polls, x.height)'
  <2>1. HasHeight(x) /\ ~ForNextBlock(x) /\ x.kind # "Head"
    BY <1>2 DEF HasHeight, ForNextBlock, IsResultsJob
  <2>2. CASE NoBlockStep \/ UNCHANGED vars
    <3>1. FromBefore(x)
      BY <1>0, <1>2, <2>1, <2>2, OtherMoves
    <3>2. chain_height' = chain_height
      <4>1. IoStep => chain_height' = chain_height
        BY <1>0, IoStepJobs DEF procVars
      <4>2. QED
        BY <2>2, <4>1 DEF NoBlockStep, FeederTick, HandleFetchError,
           HandleFetchBlockResultsError, HandleFetchChainListError, HandleChainList,
           HandleChainParams, HandleBlockResults, HandleHead, SendCommand,
           PublishMetrics, procVars, vars
    <3>3. QED
      BY <1>1, <1>2, <3>1, <3>2, WantedStays, FirstBlockStays
  <2>3. CASE HandleBlockData
    <3>1. PICK h : h = Head(msgQ).height
      OBVIOUS
    <3>2. /\ h = last_processed_height + 1 /\ chain_height' = h /\ chain_height' > chain_height
      BY <2>3, <3>1, BlockHeight
    <3>3. last_processed_height' = h /\ first_block' = first_block
      BY <2>3, <3>1, FirstBlockStays DEF HandleBlockData, HandleBlock
    <3>4. HandleBlock(BlockData.poll_creations)
      BY <1>0, <2>3, BlockDataType
    <3>5. FromBefore(x) \/ x = FetchBlockResults(h, BlockData.poll_creations, 0)
      BY <1>0, <1>2, <2>1, <3>1, <3>4, BlockMoves
    <3>6. ~FromBefore(x)
      <4>3. x.height >= last_processed_height'
        BY <1>2, ResultsOnTimeNext DEF OnTime
      <4>4. QED
        BY <1>0, <1>1, <1>2, <3>2, <3>3, <4>3
    <3>7. x.height = h /\ x.polls = BlockData.poll_creations
      BY <3>5, <3>6 DEF FetchBlockResults
    <3>8. AllWanted(BlockData.poll_creations, h)
      BY <1>0, <2>3, <3>1, BlockWants, Zenon
    <3>9. AllWanted(x.polls, x.height)
      BY <3>7, <3>8
    <3>10. first_block # 0 /\ first_block <= h
      <4>1. StartInv'
        BY StepKeepsStart DEF LoadInv
      <4>2. QED
        BY <1>0, <3>2, <3>3, <4>1 DEF StartInv
    <3>11. QED
      BY <3>2, <3>3, <3>7, <3>9, <3>10, WantedStays
  <2>4. QED
    BY <2>2, <2>3 DEF MonitorNext, MonitorProcessingStep, MonitorFeederTick,
       MonitorIoStep, HandleBlockResultsData, HandleChainParamsData,
       HandleHeadData, PublishMetricsData, OtherStep, NoBlockStep, monitorVars
<1>3. QED
  BY <1>2 DEF AwaitedInv

(* The polls of the processed blocks that the monitor can know of.         *)
Seen == {p \in history.creations : /\ Lower[p.chain] \in KnownChains
                                   /\ first_block # 0 /\ first_block <= p.height
                                   /\ p.height <= chain_height}
DataOf(p) == [chain |-> p.chain, tx |-> p.tx, expiry_height |-> Deadline(p)]

(* Each was requested in its block and announced in the block's results.   *)
LEMMA CreationsAreFound ==
  ASSUME PollsWereRequested, history \in Histories, NEW p \in history.creations
  PROVE  /\ p.height \in FirstHeight..MaxHeight /\ p.height \in Nat
         /\ \E r \in RequestsAt(p.height) :
              /\ r.tx \in DOMAIN IdsAt(p.height)
              /\ p = PollOf(r, p.height, IdsAt(p.height))
              /\ DataFor(r, p.height) = DataOf(p)
<1>1. PICK n \in FirstHeight..MaxHeight : \E r \in RequestsIn(history.blocks[n]) :
        /\ r.tx \in DOMAIN TxToPollIds(history.results[n])
        /\ p = PollOf(r, n, TxToPollIds(history.results[n]))
  BY Zenon DEF PollsWereRequested
<1>2. PICK r \in RequestsAt(n) : r.tx \in DOMAIN IdsAt(n) /\ p = PollOf(r, n, IdsAt(n))
  BY <1>1 DEF RequestsAt, IdsAt
<1>3. p.height = n /\ p.chain = r.chain /\ p.tx = r.tx /\ p.poll = IdsAt(n)[r.tx]
  BY <1>2 DEF PollOf
<1>4. n \in Nat
  BY PipelineAssumption
<1>5. DataFor(r, n) = DataOf(p)
  BY <1>3 DEF DataFor, DataOf, Deadline
<1>6. QED
  BY <1>2, <1>3, <1>4, <1>5

(* All that are requested and announced are polls.                         *)
LEMMA FoundAreCreations ==
  ASSUME PollsWereRequested, history \in Histories, NEW h \in FirstHeight..MaxHeight,
         NEW r \in RequestsAt(h), r.tx \in DOMAIN IdsAt(h)
  PROVE  PollOf(r, h, IdsAt(h)) \in history.creations
BY Zenon DEF PollsWereRequested, RequestsAt, IdsAt

(* They become more by a block, and only then.                             *)
LEMMA SeenMoves ==
  ASSUME AnyPolls, SteadyNode, PollsWereRequested, BookInv, StartInv, NoErrors,
         [MonitorNext]_monitorVars, faults = 0, faults' = 0
  PROVE  /\ Seen \subseteq Seen'
         /\ ~HandleBlockData => Seen' \subseteq Seen
         /\ HandleBlockData => \A p \in Seen' : p \in Seen \/ p.height = Head(msgQ).height
<1>1. /\ history' = history /\ history \in Histories /\ chain_height \in Nat
      /\ StartInv'
  BY HistoryConstant, StepKeepsStart DEF BookInv, MonitorInv, DataInv, TypeOK
<1>2. \A p \in history.creations : p.height \in Nat
  BY <1>1, CreationsAreFound
<1>3. first_block # 0 => first_block' = first_block
  BY FirstBlockStays
<1>4. CASE HandleBlockData
  <2>1. PICK h : h = Head(msgQ).height
    OBVIOUS
  <2>2. /\ h = last_processed_height + 1 /\ chain_height' = h /\ chain_height' > chain_height
        /\ h \in Nat /\ last_processed_height \in Nat
    BY <1>4, <2>1, BlockHeight
  <2>3. first_block' = first_block
    BY <1>4, FirstBlockStays
  <2>4. Seen \subseteq Seen'
    BY <1>1, <1>2, <2>2, <2>3 DEF Seen
  <2>5. ASSUME NEW p \in Seen', p.height # h
        PROVE  p \in Seen
    <3>1. /\ p \in history.creations /\ Lower[p.chain] \in KnownChains
          /\ first_block # 0 /\ first_block <= p.height /\ p.height <= h
      BY <1>1, <2>2, <2>3, <2>5 DEF Seen
    <3>2. p.height \in Nat /\ first_block \in Nat
      BY <1>2, <3>1 DEF StartInv
    <3>3. p.height <= last_processed_height
      BY <2>2, <2>5, <3>1, <3>2
    <3>4. chain_height = last_processed_height
      BY <2>2, <3>1, <3>2, <3>3 DEF StartInv
    <3>5. QED
      BY <3>1, <3>3, <3>4 DEF Seen
  <2>6. QED
    BY <1>4, <2>1, <2>4, <2>5
<1>5. CASE ~HandleBlockData
  <2>1. chain_height' = chain_height
    BY <1>5, HeightStays
  <2>2. CASE first_block # 0
    BY <1>1, <1>3, <2>1, <2>2, <1>5 DEF Seen
  <2>3. CASE first_block = 0
    <3>1. chain_height = 0
      BY <2>3 DEF StartInv
    <3>2. Seen = {}
      BY <2>3 DEF Seen
    <3>3. Seen' = {}
      <4>1. SUFFICES ASSUME NEW p \in Seen' PROVE FALSE
        OBVIOUS
      <4>2. /\ p \in history.creations /\ first_block' # 0 /\ first_block' <= p.height
            /\ p.height <= 0
        BY <1>1, <2>1, <3>1 DEF Seen
      <4>3. first_block' \in Nat
        BY <1>1 DEF StartInv
      <4>4. QED
        BY <1>2, <4>2, <4>3
    <3>4. QED
      BY <1>5, <3>2, <3>3
  <2>4. QED
    BY <2>2, <2>3
<1>6. QED
  BY <1>4, <1>5

(* A request for block results is answered, and its answer handled.        *)
LEMMA RequestStays ==
  ASSUME PipelineInv, NoErrors, PumpStep, [MonitorNext]_monitorVars, faults' = faults,
         NEW x \in InFlight, IsResultsJob(x)
  PROVE  \/ \E z \in InFlight' : IsResultsJob(z) /\ z.height = x.height
         \/ x = Head(msgQ) /\ HandleBlockResultsData
<1>0. TypeOK
  BY DEF PipelineInv
<1>1. CASE x \in InFlight'
  BY <1>1
<1>2. ASSUME NEW z \in InFlight', Answers(x, z)
      PROVE  IsResultsJob(z) /\ z.height = x.height
  BY <1>2 DEF Answers, IsResultsJob, BlockResults
<1>3. ASSUME x = Head(msgQ), NEW kind, Receives(kind)
      PROVE  HandleBlockResultsData
  <2>1. x.kind = kind /\ x \in IoResult
    BY <1>0, <1>3, HandlerMoves
  <2>2. ~IsError(x)
    BY DEF NoErrors
  <2>3. kind = "BlockResults"
    BY <2>1, <2>2 DEF IsResultsJob, IoResult, IsError
  <2>4. QED
    BY <1>0, <1>3, <2>3, HandlerIs
<1>4. QED
  BY <1>1, <1>2, <1>3, NothingLost

(* What the answer does.                                                   *)
LEMMA ResultsStepIs ==
  ASSUME MonitorInv, HandleBlockResultsData, NEW m, m = Head(msgQ)
  PROVE  /\ m \in InFlight /\ IsResultsJob(m) /\ m.height \in FirstHeight..MaxHeight
         /\ OpenedAs(polls', polls, m.polls, IdsAt(m.height))
         /\ UNCHANGED <<expired_poll_ids, vote_results>>
<1>1. m \in InFlight /\ IsResultsJob(m) /\ m.height \in FirstHeight..MaxHeight
  BY ResultsStepData
<1>2. m.polls \in Seq(OpenedAt(m.height))
  BY <1>1 DEF MonitorInv, DataInv, CreationsInv
<1>3. polls' = Opened(polls, m.polls, IdsAt(m.height))
  BY DEF HandleBlockResultsData, IdsAt
<1>4. OpenedAs(Opened(polls, m.polls, IdsAt(m.height)), polls, m.polls, IdsAt(m.height))
  BY <1>2, OpenedFacts
<1>5. QED
  BY <1>1, <1>3, <1>4 DEF HandleBlockResultsData

(* While nothing fails, a poll that was seen is open, has been judged, or  *)
(* waits for the results of its block.                                     *)
Awaited(h) == \E x \in InFlight : IsResultsJob(x) /\ x.height = h
SeenInv == \A p \in Seen : p.poll \in DOMAIN polls \cup expired_poll_ids \/ Awaited(p.height)

(* Every step without a failure keeps the seen polls accounted for.        *)
LEMMA StepKeepsSeen ==
  ASSUME AnyPolls, SteadyNode, PollsWereRequested, BookInv, StartInv, AwaitedInv,
         LoadInv, ParamsFrom, SeenInv,
         [MonitorNext]_monitorVars, faults' = 0, faults = 0
  PROVE  SeenInv'
<1>0. /\ MonitorInv /\ TypeOK /\ PipelineInv /\ NoErrors /\ PumpStep
      /\ history \in Histories
  BY MonitorPumps DEF BookInv, MonitorInv, LoadInv, DataInv
<1>1. ASSUME NEW h, Awaited(h), ~HandleBlockResultsData
      PROVE  Awaited(h)'
  BY <1>0, <1>1, RequestStays DEF Awaited
<1>2. CASE HandleBlockData
  <2>1. PICK h : h = Head(msgQ).height
    OBVIOUS
  <2>2. ~HandleBlockResultsData
    BY <1>2 DEF HandleBlockData, HandleBlockResultsData, HandleBlockResults, Receives
  <2>3. /\ DOMAIN polls' = DOMAIN polls \ DueAt(h)
        /\ expired_poll_ids' = expired_poll_ids \cup DueAt(h)
    BY <1>0, <1>2, <2>1, BlockStepIs
  <2>4. ASSUME NEW p \in Seen, p.poll \in DOMAIN polls \cup expired_poll_ids \/ Awaited(p.height)
        PROVE  p.poll \in DOMAIN polls' \cup expired_poll_ids' \/ Awaited(p.height)'
    BY <1>1, <2>2, <2>3, <2>4
  <2>5. Awaited(h)' \/ \A p \in history.creations :
                         p.height = h => Lower[p.chain] \notin KnownChains
    <3>1. SUFFICES ASSUME NEW p \in history.creations, p.height = h,
                          Lower[p.chain] \in KnownChains
                   PROVE  Awaited(h)'
      OBVIOUS
    <3>2. PICK r \in RequestsAt(h) : p.chain = r.chain
      BY <1>0, <3>1, CreationsAreFound DEF PollOf
    <3>3. AllWanted(BlockData.poll_creations, h) /\ HandleBlock(BlockData.poll_creations)
      BY <1>0, <1>2, <2>1, BlockWants, BlockDataType
    <3>4. DataFor(r, h) \in Range(BlockData.poll_creations)
      BY <3>1, <3>2, <3>3 DEF AllWanted
    <3>5. BlockData.poll_creations # <<>>
      BY <3>4, ShortMembers
    <3>6. FetchBlockResults(h, BlockData.poll_creations, 0) \in Range(outbox')
      BY <2>1, <3>3, <3>5, ResponseMembers DEF HandleBlock
    <3>7. FetchBlockResults(h, BlockData.poll_creations, 0) \in InFlight'
      BY <3>6 DEF InFlight
    <3>8. /\ IsResultsJob(FetchBlockResults(h, BlockData.poll_creations, 0))
          /\ FetchBlockResults(h, BlockData.poll_creations, 0).height = h
      BY DEF IsResultsJob, FetchBlockResults
    <3>9. QED
      BY <3>7, <3>8 DEF Awaited
  <2>6. ASSUME NEW p \in Seen'
        PROVE  p.poll \in DOMAIN polls' \cup expired_poll_ids' \/ Awaited(p.height)'
    <3>1. p \in Seen \/ p.height = h
      BY <1>0, <1>2, <2>1, SeenMoves
    <3>2. p \in history.creations /\ Lower[p.chain] \in KnownChains
      BY HistoryConstant DEF Seen
    <3>3. QED
      BY <2>4, <2>5, <3>1, <3>2 DEF SeenInv
  <2>7. QED
    BY <2>6 DEF SeenInv
<1>3. CASE HandleBlockResultsData
  <2>1. PICK m : m = Head(msgQ)
    OBVIOUS
  <2>2. /\ OpenedAs(polls', polls, m.polls, IdsAt(m.height))
        /\ expired_poll_ids' = expired_poll_ids
        /\ m \in InFlight /\ IsResultsJob(m)
    BY <1>0, <1>3, <2>1, ResultsStepIs
  <2>3. PICK new :
          /\ DOMAIN polls' = DOMAIN polls \cup new
          /\ \A d \in Range(m.polls) :
               d.tx \in DOMAIN IdsAt(m.height) => IdsAt(m.height)[d.tx] \in new
    BY <2>2 DEF OpenedAs
  <2>4. ~HandleBlockData
    BY <1>3 DEF HandleBlockData, HandleBlockResultsData, HandleBlockResults, Receives
  <2>5. ASSUME NEW p \in Seen'
        PROVE  p.poll \in DOMAIN polls' \cup expired_poll_ids' \/ Awaited(p.height)'
    <3>1. p \in Seen
      BY <1>0, <2>4, <2>5, SeenMoves
    <3>2. CASE p.poll \in DOMAIN polls \cup expired_poll_ids
      BY <2>2, <2>3, <3>2
    <3>3. ASSUME NEW x \in InFlight, IsResultsJob(x), x.height = p.height
          PROVE  p.poll \in DOMAIN polls' \/ Awaited(p.height)'
      <4>1. \/ \E z \in InFlight' : IsResultsJob(z) /\ z.height = x.height
            \/ x = Head(msgQ)
        BY <1>0, <3>3, RequestStays
      <4>2. CASE x = Head(msgQ)
        <5>1. x = m /\ AllWanted(m.polls, m.height) /\ m.height = p.height
          BY <2>1, <2>2, <3>3, <4>2 DEF AwaitedInv
        <5>2. p \in history.creations /\ Lower[p.chain] \in KnownChains
          BY <3>1 DEF Seen
        <5>3. PICK r \in RequestsAt(p.height) :
                /\ r.tx \in DOMAIN IdsAt(p.height)
                /\ p = PollOf(r, p.height, IdsAt(p.height))
          BY <1>0, <5>2, CreationsAreFound
        <5>4. r.chain = p.chain /\ p.poll = IdsAt(p.height)[r.tx]
          BY <5>3 DEF PollOf
        <5>5. DataFor(r, p.height) \in Range(m.polls) /\ DataFor(r, p.height).tx = r.tx
          BY <5>1, <5>2, <5>3, <5>4 DEF AllWanted, DataFor
        <5>6. QED
          BY <2>3, <5>1, <5>3, <5>4, <5>5
      <4>3. QED
        BY <3>3, <4>1, <4>2 DEF Awaited
    <3>4. QED
      BY <3>1, <3>2, <3>3 DEF SeenInv, Awaited
  <2>6. QED
    BY <2>5 DEF SeenInv
<1>4. CASE ~HandleBlockData /\ ~HandleBlockResultsData
  <2>1. polls' = polls /\ expired_poll_ids' = expired_poll_ids
    BY <1>4, OthersKeepPolls
  <2>2. Seen' \subseteq Seen
    BY <1>0, <1>4, SeenMoves
  <2>3. ASSUME NEW p \in Seen'
        PROVE  p.poll \in DOMAIN polls' \cup expired_poll_ids' \/ Awaited(p.height)'
    BY <1>1, <1>4, <2>1, <2>2, <2>3 DEF SeenInv
  <2>4. QED
    BY <2>3 DEF SeenInv
<1>5. QED
  BY <1>2, <1>3, <1>4

(* An open poll has the data the chain says it has, and all the votes the  *)
(* chain took on it since.                                                 *)
CastsUpTo(p, n) ==
  {c \in history.casts : c.poll = p.poll /\ p.height < c.height /\ c.height <= n}
Holds(poll, p, n) == poll.data = DataOf(p) /\ Traced(poll.votes, CastsUpTo(p, n))
OpenInv ==
  \A id \in DOMAIN polls : \E p \in Seen : p.poll = id /\ Holds(polls[id], p, chain_height)

(* All votes of a block on a poll are found.                               *)
LEMMA AllFound ==
  ASSUME CastsAreFound, history \in Histories, NEW h, NEW id
  PROVE  FoundAt(id, h) = {c \in history.casts : c.poll = id /\ c.height = h}
BY Zenon DEF CastsAreFound, FoundAt, VotesAt

(* A block adds its own.                                                   *)
LEMMA BlockFillsPoll ==
  ASSUME AnyPolls, SteadyNode, VotesWereCast, CastsAreFound, PollsWereRequested,
         BookInv, StartInv, faults = 0, HandleBlockData,
         NEW h, h = Head(msgQ).height, NEW id \in DOMAIN polls,
         NEW p \in Seen, p.poll = id, Holds(polls[id], p, chain_height)
  PROVE  Holds(Voted(h)[id], p, h) /\ chain_height = h - 1 /\ h \in Nat
<1>0. MonitorInv /\ history \in Histories
  BY DEF BookInv, MonitorInv, DataInv
<1>1. /\ h \in FirstHeight..MaxHeight /\ IsList(VotesAt(h))
      /\ Voted(h)[id].data = polls[id].data
  BY <1>0, BlockStepIs
<1>2. /\ p \in history.creations /\ p.height \in Nat /\ p.height > 0
      /\ first_block # 0 /\ p.height <= chain_height
  <2>1. p \in history.creations /\ first_block # 0 /\ p.height <= chain_height
    BY DEF Seen
  <2>2. QED
    BY <1>0, <2>1, CreationsAreFound, PipelineAssumption
<1>3. chain_height \in Nat /\ h \in Nat /\ chain_height = h - 1
  <2>1. h = last_processed_height + 1 /\ chain_height \in Nat /\ last_processed_height \in Nat
    BY BlockHeight
  <2>2. chain_height # 0
    BY <1>2, <2>1
  <2>3. QED
    BY <2>1, <2>2 DEF StartInv
<1> DEFINE s == polls[id].votes
           t == Picked(VotesAt(h), id)
           C == CastsUpTo(p, chain_height)
           D == FoundAt(id, h)
           S == Range(s) \cup Range(VotesAt(h))
<1>4. IsPoll(polls[id])
  BY <1>0 DEF MonitorInv, DataInv, PollsInv
<1>5. Traced(t, D) /\ Traced(s, C)
  BY <1>0, <1>1, PickedTraced DEF Holds
<1>6. \A c \in history.casts : c.height \in Nat
  BY <1>0 DEF VotesWereCast
<1>7. C \cap D = {} /\ C \cup D = CastsUpTo(p, h)
  <2>1. D = {c \in history.casts : c.poll = id /\ c.height = h}
    BY <1>0, AllFound
  <2> HIDE DEF D
  <2>2. \A c \in history.casts :
           /\ c.height <= h <=> c.height <= chain_height \/ c.height = h
           /\ ~(c.height <= chain_height /\ c.height = h)
           /\ c.height = h => p.height < c.height
    BY <1>2, <1>3, <1>6
  <2>3. QED
    BY <2>1, <2>2 DEF CastsUpTo
<1>8. s \in Seq(S) /\ t \in Seq(S)
  <2>1. s \in Seq(Range(s)) /\ t \in Seq(Range(VotesAt(h)))
    BY <1>1, <1>4, PickedVotes DEF IsPoll, IsList
  <2> HIDE DEF s, t
  <2>2. QED
    BY <2>1
<1>9. Voted(h)[id].votes = s \o t
  BY <1>4, VotedVotes
<1> HIDE DEF s, t, S, C, D
<1>10. Traced(s \o t, C \cup D)
  BY <1>5, <1>7, <1>8, TracedJoin
<1>11. QED
  BY <1>1, <1>3, <1>7, <1>9, <1>10 DEF Holds

(* The open polls after a step.                                            *)
LEMMA OpenNext ==
  ASSUME history' = history, Seen \subseteq Seen', NEW n, chain_height' = n,
         \A id \in DOMAIN polls' : \E p \in Seen : p.poll = id /\ Holds(polls'[id], p, n)
  PROVE  OpenInv'
<1>1. \A p : CastsUpTo(p, chain_height)' = CastsUpTo(p, n)
  BY DEF CastsUpTo
<1>2. \A p : DataOf(p)' = DataOf(p)
  BY DEF DataOf, Deadline
<1>3. ASSUME NEW id \in DOMAIN polls'
      PROVE  \E p \in Seen' : p.poll = id /\ Holds(polls[id], p, chain_height)'
  BY <1>1, <1>2 DEF Holds, Traced
<1>4. QED
  BY <1>3 DEF OpenInv

(* Every step without a failure keeps the open polls complete.             *)
LEMMA StepKeepsOpen ==
  ASSUME AnyPolls, SteadyNode, LongPolls, VotesWereCast, CastsAreFound,
         PollsWereRequested, BookInv, StartInv, AwaitedInv, LoadInv, OpenInv,
         [MonitorNext]_monitorVars, faults' = 0, faults = 0
  PROVE  OpenInv'
<1>0. MonitorInv /\ NoErrors /\ history \in Histories /\ chain_height \in Nat
  BY DEF BookInv, MonitorInv, LoadInv, DataInv, TypeOK
<1>1. Seen \subseteq Seen'
  BY <1>0, SeenMoves
<1>2. CASE HandleBlockData
  <2>1. PICK h : h = Head(msgQ).height
    OBVIOUS
  <2>2. \A id \in DOMAIN polls' : id \in DOMAIN polls /\ polls'[id] = Voted(h)[id]
    BY <1>0, <1>2, <2>1, BlockStepIs
  <2>3. chain_height' = h
    BY <1>2, <2>1, BlockHeight
  <2>4. ASSUME NEW id \in DOMAIN polls'
        PROVE  \E p \in Seen : p.poll = id /\ Holds(polls'[id], p, h)
    <3>1. id \in DOMAIN polls /\ polls'[id] = Voted(h)[id]
      BY <2>2, <2>4
    <3>2. PICK p \in Seen : p.poll = id /\ Holds(polls[id], p, chain_height)
      BY <3>1 DEF OpenInv
    <3>3. Holds(Voted(h)[id], p, h)
      BY <1>2, <2>1, <3>1, <3>2, BlockFillsPoll
    <3>4. QED
      BY <3>1, <3>2, <3>3
  <2>5. QED
    BY <1>1, <2>3, <2>4, HistoryConstant, OpenNext
<1>3. CASE HandleBlockResultsData
  <2>1. PICK m : m = Head(msgQ)
    OBVIOUS
  <2>2. /\ OpenedAs(polls', polls, m.polls, IdsAt(m.height))
        /\ m \in InFlight /\ IsResultsJob(m) /\ m.height \in FirstHeight..MaxHeight
    BY <1>0, <1>3, <2>1, ResultsStepIs
  <2>3. PICK new :
          /\ DOMAIN polls' = DOMAIN polls \cup new
          /\ \A id \in new : \E d \in Range(m.polls) :
               /\ d.tx \in DOMAIN IdsAt(m.height) /\ IdsAt(m.height)[d.tx] = id
               /\ polls'[id] = [data |-> d, votes |-> <<>>]
    BY <2>2 DEF OpenedAs
  <2>4. /\ \A id \in DOMAIN polls : polls'[id] = polls[id]
        /\ chain_height' = chain_height
    BY <1>3, NewPolls
  <2>5. /\ first_block # 0 /\ first_block <= m.height /\ m.height = chain_height
        /\ AllWanted(m.polls, m.height)
    BY <2>2 DEF AwaitedInv
  <2>6. ASSUME NEW id \in new
        PROVE  \E p \in Seen : p.poll = id /\ Holds(polls'[id], p, chain_height)
    <3>1. PICK d \in Range(m.polls) :
            /\ d.tx \in DOMAIN IdsAt(m.height) /\ IdsAt(m.height)[d.tx] = id
            /\ polls'[id] = [data |-> d, votes |-> <<>>]
      BY <2>3
    <3>2. PICK r \in RequestsAt(m.height) :
            Lower[r.chain] \in KnownChains /\ d = DataFor(r, m.height)
      BY <2>5 DEF AllWanted
    <3>3. r.tx = d.tx
      BY <3>2 DEF DataFor
    <3> DEFINE p == PollOf(r, m.height, IdsAt(m.height))
    <3>4. p \in history.creations
      BY <1>0, <2>2, <3>1, <3>3, FoundAreCreations
    <3>5. p.height = m.height /\ p.chain = r.chain /\ p.tx = r.tx /\ p.poll = id
      BY <3>1, <3>3 DEF PollOf
    <3> HIDE DEF p
    <3>6. p \in Seen
      BY <1>0, <2>5, <3>2, <3>4, <3>5 DEF Seen
    <3>7. DataOf(p) = d
      BY <3>2, <3>5 DEF DataFor, DataOf, Deadline
    <3>8. CastsUpTo(p, chain_height) = {}
      <4>1. \A c \in history.casts : c.height \in Nat
        BY <1>0 DEF VotesWereCast
      <4>2. QED
        BY <1>0, <2>5, <3>5, <4>1 DEF CastsUpTo
    <3>9. Traced(<<>>, CastsUpTo(p, chain_height))
      BY <3>8, NoneTraced
    <3>10. QED
      BY <3>1, <3>5, <3>6, <3>7, <3>9 DEF Holds
  <2>7. ASSUME NEW id \in DOMAIN polls'
        PROVE  \E p \in Seen : p.poll = id /\ Holds(polls'[id], p, chain_height)
    <3>1. CASE id \in new
      BY <2>6, <3>1
    <3>2. CASE id \in DOMAIN polls
      BY <2>4, <3>2 DEF OpenInv
    <3>3. QED
      BY <2>3, <2>7, <3>1, <3>2
  <2>8. QED
    BY <1>1, <2>4, <2>7, HistoryConstant, OpenNext
<1>4. CASE ~HandleBlockData /\ ~HandleBlockResultsData
  <2>1. polls' = polls /\ chain_height' = chain_height
    BY <1>4, OthersKeepPolls
  <2>2. QED
    BY <1>1, <2>1, HistoryConstant, OpenNext DEF OpenInv
<1>5. QED
  BY <1>2, <1>3, <1>4

(* The counters are the outcomes of polls that are due, with all the votes *)
(* the chain took up to their deadlines.                                   *)
IsJudged(poll, id, n) ==
  \E p \in Seen : p.poll = id /\ Deadline(p) <= n /\ Holds(poll, p, Deadline(p))
JudgedInv ==
  \E final : /\ Books(final, expired_poll_ids, vote_results)
             /\ \A id \in expired_poll_ids : IsJudged(final[id], id, chain_height)

(* A poll on a known chain is open for one of the periods.                 *)
LEMMA PeriodOf ==
  ASSUME NEW chain, Lower[chain] \in KnownChains
  PROVE  OpenFor(chain) \in Periods
<1>1. CASE \E c \in Chains : Lower[c] = Lower[chain]
  <2>1. PICK d : d \in Chains /\ OpenFor(chain) = NodeParams[d]
    BY <1>1 DEF OpenFor
  <2>2. QED
    BY <2>1 DEF Periods
<1>2. CASE ~\E c \in Chains : Lower[c] = Lower[chain]
  <2>1. Lower[chain] \in DOMAIN ConfigParams /\ OpenFor(chain) = ConfigParams[Lower[chain]]
    BY <1>2 DEF OpenFor, KnownChains
  <2>2. QED
    BY <2>1 DEF Periods
<1>3. QED
  BY <1>1, <1>2

(* So its deadline is after the block that opens it.                       *)
LEMMA DeadlineType ==
  ASSUME LongPolls, PollsWereRequested, history \in Histories,
         NEW p \in history.creations, Lower[p.chain] \in KnownChains
  PROVE  Deadline(p) \in Nat /\ p.height \in Nat /\ Deadline(p) > p.height
<1>1. p.height \in Nat
  BY CreationsAreFound
<1>2. OpenFor(p.chain) \in Nat /\ OpenFor(p.chain) > MAX_FETCH_RETRIES
  BY PeriodOf, PeriodsType DEF LongPolls
<1>3. QED
  BY <1>1, <1>2, PipelineAssumption DEF Deadline

(* A poll that was judged stays so.                                        *)
LEMMA JudgedStays ==
  ASSUME history' = history, Seen \subseteq Seen',
         NEW n, NEW id, NEW poll, IsJudged(poll, id, n)
  PROVE  IsJudged(poll, id, n)'
<1>1. \A p : Deadline(p)' = Deadline(p) /\ DataOf(p)' = DataOf(p)
  BY DEF Deadline, DataOf
<1>2. \A p, k : CastsUpTo(p, k)' = CastsUpTo(p, k)
  BY DEF CastsUpTo
<1>3. \A p, k : Holds(poll, p, k) => Holds(poll, p, k)'
  BY <1>1, <1>2 DEF Holds, Traced
<1>4. QED
  BY <1>1, <1>3 DEF IsJudged

(* The books after a step.                                                 *)
LEMMA JudgedNext ==
  ASSUME history' = history, Seen \subseteq Seen',
         NEW final, Books(final, expired_poll_ids', vote_results'),
         \A id \in expired_poll_ids' : IsJudged(final[id], id, chain_height')
  PROVE  JudgedInv'
<1>1. PICK n : n = chain_height'
  OBVIOUS
<1>2. PICK ids : ids = expired_poll_ids'
  OBVIOUS
<1>3. ASSUME NEW id \in ids
      PROVE  IsJudged(final[id], id, n)'
  <2>1. IsJudged(final[id], id, n)
    BY <1>1, <1>2
  <2>2. QED
    BY <2>1, JudgedStays
<1>4. \A id \in ids : IsJudged(final[id], id, chain_height)'
  BY <1>1, <1>3 DEF IsJudged
<1>5. Books(final, expired_poll_ids, vote_results)'
  BY DEF Books, AllOutcomes
<1>6. QED
  BY <1>2, <1>4, <1>5 DEF JudgedInv

(* Every step without a failure keeps the judged polls complete.           *)
LEMMA StepKeepsJudged ==
  ASSUME AnyPolls, SteadyNode, LongPolls, VotesWereCast, CastsAreFound,
         PollsWereRequested, BookInv, LedgerInv, StartInv, LoadInv, OpenInv, JudgedInv,
         [MonitorNext]_monitorVars, faults' = 0, faults = 0
  PROVE  JudgedInv'
<1>0. MonitorInv /\ NoErrors /\ history' = history /\ chain_height \in Nat
  BY HistoryConstant DEF BookInv, MonitorInv, LoadInv, TypeOK
<1>1. Seen \subseteq Seen'
  BY <1>0, SeenMoves
<1>2. PICK final : /\ Books(final, expired_poll_ids, vote_results)
                   /\ \A id \in expired_poll_ids : IsJudged(final[id], id, chain_height)
  BY DEF JudgedInv
<1>3. CASE HandleBlockData
  <2>1. PICK h : h = Head(msgQ).height
    OBVIOUS
  <2> DEFINE due == DueAt(h)
             open == Voted(h)
  <2>2. /\ due \subseteq DOMAIN polls /\ IsFiniteSet(due)
        /\ \A id \in DOMAIN polls : IsPoll(open[id])
        /\ vote_results' = Judge(open, due, vote_results)
        /\ expired_poll_ids' = expired_poll_ids \cup due
    BY <1>0, <1>3, <2>1, BlockStepIs
  <2>3. chain_height' = h /\ h > chain_height /\ h \in Nat
    BY <1>3, <2>1, BlockHeight
  <2> DEFINE both == [id \in expired_poll_ids \cup due |->
                        IF id \in due THEN open[id] ELSE final[id]]
  <2>4. expired_poll_ids \cap due = {}
    BY <2>2 DEF LedgerInv
  <2>5. /\ \A id \in expired_poll_ids : both[id] = final[id]
        /\ \A id \in due : both[id] = open[id]
    <3> HIDE DEF due, open
    <3>1. QED
      BY <2>4
  <2>6. ASSUME NEW id \in due
        PROVE  IsJudged(open[id], id, h)
    <3>1. id \in DOMAIN polls /\ polls[id].data.expiry_height <= h
      BY DEF DueAt
    <3>2. PICK p \in Seen : p.poll = id /\ Holds(polls[id], p, chain_height)
      BY <3>1 DEF OpenInv
    <3>3. Holds(open[id], p, h) /\ chain_height = h - 1
      BY <1>3, <2>1, <3>1, <3>2, BlockFillsPoll
    <3>4. polls[id].data.expiry_height \in Nat /\ polls[id].data.expiry_height > chain_height
      BY <1>0, <3>1 DEF MonitorInv, DataInv, PollsInv, IsPoll, Heights, BookInv, DeadlineKept
    <3>5. polls[id].data.expiry_height = Deadline(p)
      BY <3>2 DEF Holds, DataOf
    <3>6. Deadline(p) = h
      BY <2>3, <3>1, <3>3, <3>4, <3>5
    <3> HIDE DEF open
    <3>7. QED
      BY <2>3, <3>2, <3>3, <3>6 DEF IsJudged
  <2>7. \A id \in due : IsList(open[id].votes)
    BY <2>2 DEF IsPoll
  <2> HIDE DEF due, open, both
  <2>8. Books(both, expired_poll_ids \cup due, Judge(open, due, vote_results))
    BY <1>2, <2>2, <2>4, <2>5, <2>7, JudgedBooks
  <2>9. ASSUME NEW id \in expired_poll_ids PROVE IsJudged(final[id], id, h)
    <3>1. PICK p \in Seen : /\ p.poll = id /\ Deadline(p) <= chain_height
                            /\ Holds(final[id], p, Deadline(p))
      BY <1>2 DEF IsJudged
    <3>2. Deadline(p) \in Int
      <4>1. p \in history.creations /\ Lower[p.chain] \in KnownChains
        BY DEF Seen
      <4>2. history \in Histories
        BY <1>0 DEF MonitorInv, DataInv
      <4>3. QED
        BY <4>1, <4>2, DeadlineType
    <3>3. Deadline(p) <= h
      BY <1>0, <2>3, <3>1, <3>2
    <3>4. QED
      BY <3>1, <3>3 DEF IsJudged
  <2>10. \A id \in expired_poll_ids \cup due : IsJudged(both[id], id, h)
    BY <2>5, <2>6, <2>9
  <2>11. QED
    BY <1>0, <1>1, <2>2, <2>3, <2>8, <2>10, JudgedNext
<1>4. CASE ~HandleBlockData
  <2>1. chain_height' = chain_height
    BY <1>4, HeightStays
  <2>2. /\ expired_poll_ids' = expired_poll_ids
        /\ vote_results' = vote_results \/ \E c : vote_results' = Register(vote_results, c)
    BY <1>4, QuietData
       DEF MonitorNext, MonitorProcessingStep, QuietStep, HandleBlockResultsData,
           HandleChainParamsData, PublishMetricsData, pollVars
  <2>3. Books(final, expired_poll_ids', vote_results')
    BY <1>2, <2>2, RegisteredBooks
  <2>4. QED
    BY <1>0, <1>1, <1>2, <2>1, <2>2, <2>3, JudgedNext
<1>5. QED
  BY <1>3, <1>4

(* All of this holds while nothing fails.                                  *)
SmoothInv ==
  faults = 0 =>
    /\ LoadInv /\ ParamsFrom /\ StartInv
    /\ AwaitedInv /\ SeenInv /\ OpenInv /\ JudgedInv

(* At the start there is nothing to account for.                           *)
LEMMA SmoothStarts ==
  ASSUME MonitorInit, LedgerInv
  PROVE  SmoothInv
<1>1. LoadInv
  BY LoadStarts DEF MonitorInit
<1>2. ParamsFrom
  BY DEF MonitorInit, ParamsFrom
<1>3. StartInv /\ Seen = {}
  BY DEF MonitorInit, Init, StartInv, Starting, Seen
<1>4. AwaitedInv
  <2>1. InFlight = {FetchChainList} /\ ~IsResultsJob(FetchChainList)
    BY ShortMembers DEF MonitorInit, Init, InFlight, IsResultsJob, FetchChainList
  <2>2. QED
    BY <2>1 DEF AwaitedInv
<1>5. SeenInv /\ OpenInv
  BY <1>3 DEF SeenInv, OpenInv, MonitorInit
<1>6. JudgedInv
  BY DEF LedgerInv, JudgedInv, MonitorInit
<1>7. QED
  BY <1>1, <1>2, <1>3, <1>4, <1>5, <1>6 DEF SmoothInv

(* A step keeps all of it, or is a failure.                                *)
LEMMA StepKeepsSmooth ==
  ASSUME AnyPolls, SteadyNode, LongPolls, SameParams,
         VotesWereCast, CastsAreFound, PollsWereRequested,
         BookInv, BookInv', LedgerInv, SmoothInv, [MonitorNext]_monitorVars
  PROVE  SmoothInv'
<1>1. SUFFICES ASSUME faults' = 0 PROVE (LoadInv /\ ParamsFrom /\ StartInv
                 /\ AwaitedInv /\ SeenInv /\ OpenInv /\ JudgedInv)'
  BY DEF SmoothInv
<1>2. MonitorInv /\ TypeOK /\ PumpStep
  BY MonitorPumps DEF BookInv, MonitorInv
<1>3. faults = 0
  BY <1>1, <1>2, NoFaults
<1>4. /\ LoadInv /\ ParamsFrom /\ StartInv /\ NoErrors
      /\ AwaitedInv /\ SeenInv /\ OpenInv /\ JudgedInv
  BY <1>3 DEF SmoothInv, LoadInv
<1>5. LoadInv'
  BY <1>1, <1>3, <1>4, StepKeepsLoad
<1>6. ParamsFrom'
  BY <1>2, <1>4, StepKeepsParamsFrom
<1>7. StartInv'
  BY <1>4, StepKeepsStart
<1>8. AwaitedInv'
  BY <1>1, <1>3, <1>4, StepKeepsAwaited
<1>9. SeenInv'
  BY <1>1, <1>3, <1>4, StepKeepsSeen
<1>10. OpenInv'
  BY <1>1, <1>3, <1>4, StepKeepsOpen
<1>11. JudgedInv'
  BY <1>1, <1>3, <1>4, StepKeepsJudged
<1>12. QED
  BY <1>5, <1>6, <1>7, <1>8, <1>9, <1>10, <1>11

(* It holds of every behaviour of the monitor.                             *)
LEMMA SmoothHolds ==
  ASSUME AnyPolls, SteadyNode, LongPolls, SameParams,
         VotesWereCast, CastsAreFound, PollsWereRequested
  PROVE  MonitorSpec => []SmoothInv
<1>1. MonitorInit /\ LedgerInv => SmoothInv
  BY SmoothStarts
<1>2. BookInv /\ BookInv' /\ LedgerInv /\ SmoothInv /\ [MonitorNext]_monitorVars => SmoothInv'
  BY StepKeepsSmooth
<1>3. QED
  BY <1>1, <1>2, BookInvHolds, LedgerHolds, PTL DEF MonitorSpec

----------------------------------------------------------------------------
(* Counting.                                                               *)

(* A list of votes has as many for a tx as the set of casts it is.         *)
LEMMA TracedCounts ==
  ASSUME NEW votes, IsList(votes), NEW C, Traced(votes, C)
  PROVE  /\ \A t : VotesFor(votes, t) = Cardinality({c \in C : c.tx = t})
         /\ \A t : t \in TxIds(votes) <=> \E c \in C : c.tx = t
<1>1. Len(votes) \in Nat /\ DOMAIN votes = 1..Len(votes)
  BY ListFacts
<1>2. PICK g \in Bijection(1..Len(votes), C) : \A i \in 1..Len(votes) : Matches(votes[i], g[i])
  BY DEF Traced
<1>3. /\ g \in [1..Len(votes) -> C]
      /\ \A x, y \in 1..Len(votes) : g[x] = g[y] => x = y
      /\ \A c \in C : \E i \in 1..Len(votes) : g[i] = c
  BY <1>2, BijectionIs
<1>4. \A i \in DOMAIN votes : g[i] \in C /\ votes[i].tx_id = g[i].tx
  BY <1>1, <1>2, <1>3 DEF Matches
<1>5. \A c \in C : \E i \in DOMAIN votes : g[i] = c
  BY <1>1, <1>3
<1>6. ASSUME NEW t PROVE VotesFor(votes, t) = Cardinality({c \in C : c.tx = t})
  <2> DEFINE A == {i \in DOMAIN votes : votes[i].tx_id = t}
  <2>1. {g[i] : i \in A} = {c \in C : c.tx = t}
    BY <1>4, <1>5
  <2>2. A \subseteq 1..Len(votes)
    BY <1>1
  <2>3. \A x, y \in A : g[x] = g[y] => x = y
    BY <1>3, <2>2
  <2>4. VotesFor(votes, t) = Cardinality(A)
    BY DEF VotesFor
  <2> HIDE DEF A
  <2>5. IsFiniteSet(1..Len(votes))
    BY <1>1, FS_Interval
  <2>8. IsFiniteSet(A)
    BY <2>2, <2>5, FS_Subset
  <2>6. Cardinality({g[i] : i \in A}) = Cardinality(A)
    BY <2>3, <2>8, ImageCount
  <2>7. QED
    BY <2>1, <2>4, <2>6
<1>7. \A t : t \in TxIds(votes) <=> \E c \in C : c.tx = t
  BY <1>4, <1>5 DEF TxIds
<1>8. QED
  BY <1>6, <1>7

(* The majority is the tx the chain's votes favour.                        *)
LEMMA MajorityIsFavoured ==
  ASSUME NEW p, NEW votes, IsList(votes), Traced(votes, CastsIn(p))
  PROVE  Majority(votes) = Favoured(p)
<1> DEFINE for(t) == Cardinality({c \in CastsIn(p) : c.tx = t})
           S == {t \in TxIds(votes) :
                   \A u \in TxIds(votes) : VotesFor(votes, t) >= VotesFor(votes, u)}
           T == {c.tx : c \in {d \in CastsIn(p) :
                                 \A e \in CastsIn(p) : for(d.tx) >= for(e.tx)}}
<1>1. /\ \A t : VotesFor(votes, t) = for(t)
      /\ \A t : t \in TxIds(votes) <=> \E c \in CastsIn(p) : c.tx = t
  BY TracedCounts
<1>2. Favoured(p) = Max(T)
  BY DEF Favoured
<1>3. Majority(votes) = Max(S)
  BY DEF Majority
<1> HIDE DEF for
<1>4. S = T
  BY <1>1
<1>5. QED
  BY <1>2, <1>3, <1>4

(* The senders of the votes are those of the casts.                        *)
LEMMA TracedSenders ==
  ASSUME NEW votes, IsList(votes), NEW C, Traced(votes, C)
  PROVE  \A a : (\E i \in DOMAIN votes : votes[i].sender_id = a)
                  <=> \E c \in C : c.sender = a
<1>1. Len(votes) \in Nat /\ DOMAIN votes = 1..Len(votes)
  BY ListFacts
<1>2. PICK g \in Bijection(1..Len(votes), C) : \A i \in 1..Len(votes) : Matches(votes[i], g[i])
  BY DEF Traced
<1>3. /\ g \in [1..Len(votes) -> C]
      /\ \A c \in C : \E i \in 1..Len(votes) : g[i] = c
  BY <1>2, BijectionIs
<1>4. \A i \in DOMAIN votes : g[i] \in C /\ votes[i].sender_id = g[i].sender
  BY <1>1, <1>2, <1>3 DEF Matches
<1>5. \A c \in C : \E i \in DOMAIN votes : g[i] = c
  BY <1>1, <1>3
<1>6. QED
  BY <1>4, <1>5

(* The one poll with an id.                                                *)
PollWith(id) == CHOOSE p \in Due : p.poll = id

(* While nothing fails, the polls that were judged are those that are due, *)
(* with all the votes the chain took on them in time.                      *)
DueBooks(final) ==
  /\ Books(final, expired_poll_ids, vote_results)
  /\ \A id \in expired_poll_ids :
       /\ PollWith(id) \in Due /\ PollWith(id).poll = id
       /\ final[id].data = DataOf(PollWith(id))
       /\ Traced(final[id].votes, CastsIn(PollWith(id)))

(* The polls that are due, and no others, are in the books.                *)
LEMMA DueAreJudged ==
  ASSUME LongPolls, PollsWereRequested, BookInv, SmoothInv, faults = 0
  PROVE  /\ \A p \in Due : p.poll \in expired_poll_ids /\ PollWith(p.poll) = p
         /\ \E final : DueBooks(final)
<1>1. /\ history \in Histories /\ chain_height \in Nat
      /\ AwaitedInv /\ SeenInv /\ OpenInv /\ JudgedInv /\ DeadlineKept
  BY DEF BookInv, MonitorInv, DataInv, TypeOK, SmoothInv
<1>2. \A p, q \in history.creations : p.poll = q.poll => p = q
  BY <1>1 DEF PollsWereRequested
<1>3. /\ \A p \in Due : p \in history.creations
      /\ \A p \in Seen : p \in history.creations
  BY DEF Due, Seen
<1>4. \A p \in Due : PollWith(p.poll) = p
  <2>1. SUFFICES ASSUME NEW p \in Due PROVE PollWith(p.poll) = p
    OBVIOUS
  <2>2. PollWith(p.poll) \in Due /\ PollWith(p.poll).poll = p.poll
    BY DEF PollWith
  <2>3. QED
    BY <1>2, <1>3, <2>2
<1>5. ASSUME NEW p \in Due PROVE p \in Seen /\ p.poll \in expired_poll_ids
  <2>1. /\ p \in history.creations /\ Lower[p.chain] \in KnownChains
        /\ first_block # 0 /\ first_block <= p.height /\ Deadline(p) <= chain_height
    BY DEF Due
  <2>2. Deadline(p) \in Nat /\ p.height \in Nat /\ Deadline(p) > p.height
    BY <1>1, <2>1, DeadlineType
  <2>3. p.height < chain_height
    BY <1>1, <2>1, <2>2
  <2>4. p \in Seen
    BY <1>1, <2>1, <2>2, <2>3 DEF Seen
  <2>5. ~Awaited(p.height)
    <3>1. SUFFICES ASSUME Awaited(p.height) PROVE FALSE
      OBVIOUS
    <3>2. p.height = chain_height
      BY <1>1, <3>1 DEF Awaited, AwaitedInv
    <3>3. QED
      BY <1>1, <2>2, <2>3, <3>2
  <2>6. p.poll \notin DOMAIN polls
    <3>1. SUFFICES ASSUME p.poll \in DOMAIN polls PROVE FALSE
      OBVIOUS
    <3>2. PICK q \in Seen : q.poll = p.poll /\ polls[p.poll].data = DataOf(q)
      BY <1>1, <3>1 DEF OpenInv, Holds
    <3>3. q = p
      BY <1>2, <1>3, <2>4, <3>2
    <3>4. polls[p.poll].data.expiry_height = Deadline(p)
      BY <3>2, <3>3 DEF DataOf
    <3>5. Deadline(p) > chain_height
      BY <1>1, <3>1, <3>4 DEF DeadlineKept
    <3>6. QED
      BY <1>1, <2>1, <2>2, <3>5
  <2>7. QED
    BY <1>1, <2>4, <2>5, <2>6 DEF SeenInv
<1>6. PICK final : /\ Books(final, expired_poll_ids, vote_results)
                   /\ \A id \in expired_poll_ids : IsJudged(final[id], id, chain_height)
  BY <1>1 DEF JudgedInv
<1>7. ASSUME NEW id \in expired_poll_ids
      PROVE  /\ PollWith(id) \in Due /\ PollWith(id).poll = id
             /\ final[id].data = DataOf(PollWith(id))
             /\ Traced(final[id].votes, CastsIn(PollWith(id)))
  <2>1. PICK p \in Seen : /\ p.poll = id /\ Deadline(p) <= chain_height
                          /\ Holds(final[id], p, Deadline(p))
    BY <1>6 DEF IsJudged
  <2>2. p \in Due
    BY <2>1 DEF Seen, Due
  <2>3. PollWith(id) = p
    BY <1>4, <2>1, <2>2
  <2>4. CastsUpTo(p, Deadline(p)) = CastsIn(p)
    BY DEF CastsUpTo, CastsIn
  <2>5. QED
    BY <2>1, <2>2, <2>3, <2>4 DEF Holds
<1>8. DueBooks(final)
  BY <1>6, <1>7 DEF DueBooks
<1>9. QED
  BY <1>4, <1>5, <1>8

(* A vote names the chain of its poll.                                     *)
LEMMA CastsNameTheChain ==
  ASSUME VotesNameTheChain, CastsAreFound, PollsWereRequested, history \in Histories,
         NEW c \in history.casts, NEW p \in history.creations, c.poll = p.poll
  PROVE  Lower[c.chain] = Lower[p.chain]
<1>1. PICK v \in Range(VotesIn(history.blocks[c.height])) : c = CastOf(v, c.height)
  BY Zenon DEF CastsAreFound
<1>2. c.height \in FirstHeight..MaxHeight
  BY Zenon DEF CastsAreFound
<1>3. PICK r \in RequestsAt(p.height) : /\ r.tx \in DOMAIN IdsAt(p.height)
                                        /\ p = PollOf(r, p.height, IdsAt(p.height))
  BY CreationsAreFound
<1>4. p.height \in FirstHeight..MaxHeight
  BY CreationsAreFound
<1>5. p.poll = IdsAt(p.height)[r.tx] /\ p.chain = r.chain
  BY <1>3 DEF PollOf
<1>6. c.poll = v.poll_id /\ c.chain = v.chain
  BY <1>1 DEF CastOf
<1>7. IdsAt(p.height)[r.tx] = v.poll_id
  BY <1>5, <1>6
<1>8. SameChain(v.chain, r.chain)
  BY <1>1, <1>2, <1>3, <1>4, <1>7 DEF VotesNameTheChain, RequestsAt, IdsAt
<1>9. QED
  BY <1>5, <1>6, <1>8 DEF SameChain

(* What a poll means for one broadcaster.                                  *)
MissedOf(id, poll, i) ==
  [poll |-> id, entry |-> i,
   key |-> Key(Broadcasters[i].name, poll.data.chain, "missed")]
VotedOf(id, poll, i, j) ==
  [poll |-> id, entry |-> j,
   key |-> Key(Broadcasters[i].name, poll.votes[j].chain, Verdict(poll.votes[j], poll.votes))]

SentOn(poll, i) ==
  {j \in DOMAIN poll.votes : poll.votes[j].sender_id = Broadcasters[i].address}
OutcomeFor(o, id, poll, i) ==
  \/ SentOn(poll, i) = {} /\ o = MissedOf(id, poll, i)
  \/ \E j \in SentOn(poll, i) : o = VotedOf(id, poll, i, j)

(* Its name is that of its address.                                        *)
LEMMA NameOfOne ==
  ASSUME DistinctNames, DistinctAddresses, NEW i \in DOMAIN Broadcasters,
         NEW a \in Addresses
  PROVE  NameOf(a) = Broadcasters[i].name <=> a = Broadcasters[i].address
<1>1. PICK e \in DOMAIN Broadcasters :
        Broadcasters[e].address = a /\ NameOf(a) = Broadcasters[e].name
  BY NameIsConfigured
<1>2. QED
  BY <1>1 DEF DistinctNames, DistinctAddresses

(* It is missed if it sent no vote, and else each of its votes is counted. *)
LEMMA OutcomesForOne ==
  ASSUME DistinctNames, DistinctAddresses, NEW id, NEW poll,
         NEW i \in DOMAIN Broadcasters, NEW o
  PROVE  o \in AnalyzePollCompletion(id, poll) /\ o.key.broadcaster = Broadcasters[i].name
           <=> OutcomeFor(o, id, poll, i)
<1> DEFINE votes == poll.votes
           VoteOutcome(j) ==
             [poll |-> id, entry |-> j,
              key |-> Key(NameOf(votes[j].sender_id), votes[j].chain, Verdict(votes[j], votes))]
<1>1. /\ \A j : VoteOutcome(j).key.broadcaster = NameOf(votes[j].sender_id)
      /\ \A e : MissedOf(id, poll, e).key.broadcaster = Broadcasters[e].name
      /\ \A j : VotedOf(id, poll, i, j).key.broadcaster = Broadcasters[i].name
  BY DEF Key, MissedOf, VotedOf
<1>2. o \in AnalyzePollCompletion(id, poll)
        <=> \/ \E j \in Known(votes) : o = VoteOutcome(j)
            \/ \E e \in DOMAIN Broadcasters :
                 Broadcasters[e].name \notin Voters(votes) /\ o = MissedOf(id, poll, e)
  BY DEF AnalyzePollCompletion, CountVotes, CountMissed, MissedOf
<1>3. \A j : NameOf(votes[j].sender_id) = Broadcasters[i].name
               => VoteOutcome(j) = VotedOf(id, poll, i, j)
  BY DEF VotedOf
<1> HIDE DEF VoteOutcome
<1>4. \A j : j \in Known(votes) /\ NameOf(votes[j].sender_id) = Broadcasters[i].name
               <=> j \in DOMAIN votes /\ votes[j].sender_id = Broadcasters[i].address
  <2>1. \A j : j \in Known(votes) <=> j \in DOMAIN votes /\ votes[j].sender_id \in Addresses
    BY DEF Known
  <2>2. Broadcasters[i].address \in Addresses
    BY DEF Addresses
  <2>3. \A a \in Addresses : NameOf(a) = Broadcasters[i].name <=> a = Broadcasters[i].address
    BY NameOfOne
  <2>4. QED
    BY <2>1, <2>2, <2>3
<1>5. \A e \in DOMAIN Broadcasters : Broadcasters[e].name = Broadcasters[i].name => e = i
  BY DEF DistinctNames
<1>6. Broadcasters[i].name \in Voters(votes)
        <=> \E j \in DOMAIN votes : votes[j].sender_id = Broadcasters[i].address
  BY <1>4 DEF Voters
<1> HIDE DEF votes
<1>7. o \in AnalyzePollCompletion(id, poll) /\ o.key.broadcaster = Broadcasters[i].name
        <=> \/ \E j \in DOMAIN votes : /\ votes[j].sender_id = Broadcasters[i].address
                                       /\ o = VotedOf(id, poll, i, j)
            \/ Broadcasters[i].name \notin Voters(votes) /\ o = MissedOf(id, poll, i)
  BY <1>1, <1>2, <1>3, <1>4, <1>5
<1>8. QED
  BY <1>6, <1>7 DEF votes, OutcomeFor, SentOn

(* Which of the two it is shows in the counter.                            *)
CounterOf(i, chain, result) ==
  [broadcaster |-> Broadcasters[i].name, chain |-> chain, result |-> result]

(* An outcome names its poll, and its counter shows what it is.            *)
LEMMA CounterOfOne ==
  /\ \A i, c, d, r, s : CounterOf(i, c, r) = CounterOf(i, d, s) <=> c = d /\ r = s
  /\ \A i, c, r : CounterOf(i, c, r).broadcaster = Broadcasters[i].name
  /\ \A i, id, poll :
       /\ MissedOf(id, poll, i).key = CounterOf(i, Lower[poll.data.chain], "missed")
       /\ MissedOf(id, poll, i).poll = id
  /\ \A i, id, poll, j :
       /\ VotedOf(id, poll, i, j).key
            = CounterOf(i, Lower[poll.votes[j].chain],
                        IF poll.votes[j].tx_id = Majority(poll.votes)
                        THEN "agreed" ELSE "disagreed")
       /\ VotedOf(id, poll, i, j).poll = id /\ VotedOf(id, poll, i, j).entry = j
<1>1. ASSUME NEW i, NEW c, NEW d, NEW r, NEW s
      PROVE  /\ CounterOf(i, c, r) = CounterOf(i, d, s) <=> c = d /\ r = s
             /\ CounterOf(i, c, r).broadcaster = Broadcasters[i].name
  BY DEF CounterOf
<1>2. ASSUME NEW i, NEW id, NEW poll
      PROVE  /\ MissedOf(id, poll, i).key = CounterOf(i, Lower[poll.data.chain], "missed")
             /\ MissedOf(id, poll, i).poll = id
  BY DEF CounterOf, MissedOf, Key
<1>3. ASSUME NEW i, NEW id, NEW poll, NEW j
      PROVE  /\ VotedOf(id, poll, i, j).key
                  = CounterOf(i, Lower[poll.votes[j].chain],
                              IF poll.votes[j].tx_id = Majority(poll.votes)
                              THEN "agreed" ELSE "disagreed")
             /\ VotedOf(id, poll, i, j).poll = id /\ VotedOf(id, poll, i, j).entry = j
  BY DEF CounterOf, VotedOf, Key, Verdict
<1>4. QED
  BY <1>1, <1>2, <1>3

(* The outcomes that one counter counts.                                   *)
OutcomesAt(final, k) == {o \in AllOutcomes(final, expired_poll_ids) : o.key = k}

(* They are those of the broadcaster with the counter's name.              *)
LEMMA OutcomesAtAre ==
  ASSUME DistinctNames, DistinctAddresses, NEW final, DueBooks(final),
         NEW i \in DOMAIN Broadcasters, NEW k, k.broadcaster = Broadcasters[i].name
  PROVE  /\ IsFiniteSet(OutcomesAt(final, k))
         /\ \A o : o \in OutcomesAt(final, k)
              <=> /\ o.key = k
                  /\ \E id \in expired_poll_ids : OutcomeFor(o, id, final[id], i)
<1>1. IsFiniteSet(expired_poll_ids) /\ \A id \in expired_poll_ids : IsList(final[id].votes)
  BY DEF DueBooks, Books
<1>2. IsFiniteSet(AllOutcomes(final, expired_poll_ids))
  BY <1>1, OutcomesOfPolls
<1>3. OutcomesAt(final, k) \subseteq AllOutcomes(final, expired_poll_ids)
  BY DEF OutcomesAt
<1>4. IsFiniteSet(OutcomesAt(final, k))
  BY <1>2, <1>3, FS_Subset
<1>5. \A o : o \in OutcomesAt(final, k)
        <=> o.key = k /\ \E id \in expired_poll_ids : o \in AnalyzePollCompletion(id, final[id])
  BY DEF OutcomesAt, AllOutcomes
<1>6. \A id, o : o.key = k
        => (o \in AnalyzePollCompletion(id, final[id]) <=> OutcomeFor(o, id, final[id], i))
  <2>1. SUFFICES ASSUME NEW id, NEW o, o.key = k
                 PROVE  o \in AnalyzePollCompletion(id, final[id])
                          <=> OutcomeFor(o, id, final[id], i)
    OBVIOUS
  <2>2. o \in AnalyzePollCompletion(id, final[id]) /\ o.key.broadcaster = Broadcasters[i].name
          <=> OutcomeFor(o, id, final[id], i)
    BY OutcomesForOne
  <2>3. QED
    BY <2>1, <2>2
<1>7. QED
  BY <1>4, <1>5, <1>6

(* What the judged polls are, one by one.                                  *)
LEMMA DuePoll ==
  ASSUME NEW final, DueBooks(final), NEW id \in expired_poll_ids
  PROVE  LET p == PollWith(id)
         IN  /\ IsList(final[id].votes) /\ p \in Due /\ p.poll = id
             /\ Lower[final[id].data.chain] = Lower[p.chain]
             /\ Traced(final[id].votes, CastsIn(p))
             /\ \A i : SentOn(final[id], i) = {} <=> CastsBy(p, Broadcasters[i]) = {}
<1> DEFINE p == PollWith(id)
<1>1. /\ IsList(final[id].votes) /\ p \in Due /\ p.poll = id
      /\ final[id].data = DataOf(p) /\ Traced(final[id].votes, CastsIn(p))
  BY DEF DueBooks, Books
<1> HIDE DEF p
<1>2. final[id].data.chain = p.chain
  BY <1>1 DEF DataOf
<1>3. \A a : (\E j \in DOMAIN final[id].votes : final[id].votes[j].sender_id = a)
               <=> \E c \in CastsIn(p) : c.sender = a
  BY <1>1, TracedSenders
<1>4. \A i : SentOn(final[id], i) = {} <=> CastsBy(p, Broadcasters[i]) = {}
  BY <1>3 DEF SentOn, CastsBy
<1>5. QED
  BY <1>1, <1>2, <1>4 DEF p

(* The polls of a chain that are due.                                      *)
DueOn(chain) == {p \in Due : Lower[p.chain] = chain}

(* A broadcaster is missed for the polls it cast no vote on.               *)
LEMMA MissedCount ==
  ASSUME DistinctNames, DistinctAddresses, NEW final, DueBooks(final),
         \A p \in Due : p.poll \in expired_poll_ids /\ PollWith(p.poll) = p,
         NEW i \in DOMAIN Broadcasters, NEW chain
  PROVE  Cardinality(OutcomesAt(final, CounterOf(i, chain, "missed")))
           = Cardinality({p \in DueOn(chain) : CastsBy(p, Broadcasters[i]) = {}})
<1> DEFINE k == CounterOf(i, chain, "missed")
           A == OutcomesAt(final, k)
           f == [o \in A |-> PollWith(o.poll)]
           T == {p \in DueOn(chain) : CastsBy(p, Broadcasters[i]) = {}}
           M(id) == MissedOf(id, final[id], i)
<1>1. \A id \in expired_poll_ids :
        /\ PollWith(id) \in Due /\ PollWith(id).poll = id
        /\ Lower[final[id].data.chain] = Lower[PollWith(id).chain]
        /\ SentOn(final[id], i) = {} <=> CastsBy(PollWith(id), Broadcasters[i]) = {}
  BY DuePoll
<1>2. \A id : /\ M(id).poll = id
              /\ M(id).key = k <=> Lower[final[id].data.chain] = chain
              /\ \A j : VotedOf(id, final[id], i, j).key # k
  BY CounterOfOne
<1>3. k.broadcaster = Broadcasters[i].name
  BY CounterOfOne
<1> HIDE DEF k
<1>4. /\ IsFiniteSet(A)
      /\ \A o : o \in A
           <=> o.key = k /\ \E id \in expired_poll_ids : OutcomeFor(o, id, final[id], i)
  BY <1>3, OutcomesAtAre
<1> HIDE DEF A, M
<1>5. \A o, id : OutcomeFor(o, id, final[id], i)
        <=> \/ SentOn(final[id], i) = {} /\ o = M(id)
            \/ \E j \in SentOn(final[id], i) : o = VotedOf(id, final[id], i, j)
  BY DEF OutcomeFor, M
<1>6. \A p : p \in T <=> /\ p \in Due /\ Lower[p.chain] = chain
                         /\ CastsBy(p, Broadcasters[i]) = {}
  BY DEF DueOn
<1>7. \A o : o \in A <=> \E id \in expired_poll_ids : o = M(id) /\ PollWith(id) \in T
  <2>1. ASSUME NEW o \in A PROVE \E id \in expired_poll_ids : o = M(id) /\ PollWith(id) \in T
    <3>1. PICK id \in expired_poll_ids : OutcomeFor(o, id, final[id], i)
      BY <1>4
    <3>2. o.key = k
      BY <1>4
    <3>6. \A j : o # VotedOf(id, final[id], i, j)
      BY <1>2, <3>2
    <3>3. SentOn(final[id], i) = {} /\ o = M(id)
      BY <3>1, <3>6 DEF OutcomeFor, M
    <3>4. Lower[PollWith(id).chain] = chain
      BY <1>1, <1>2, <3>2, <3>3
    <3>5. QED
      BY <1>1, <1>6, <3>3, <3>4
  <2>2. ASSUME NEW id \in expired_poll_ids, PollWith(id) \in T PROVE M(id) \in A
    <3>1. SentOn(final[id], i) = {} /\ M(id).key = k
      BY <1>1, <1>2, <1>6, <2>2
    <3>2. OutcomeFor(M(id), id, final[id], i)
      BY <1>5, <3>1
    <3>3. QED
      BY <1>4, <3>1, <3>2
  <2>3. QED
    BY <2>1, <2>2
<1>8. \A o \in A : f[o] = PollWith(o.poll)
  OBVIOUS
<1> HIDE DEF f, T
<1>9. \A o, q \in A : f[o] = f[q] => o = q
  BY <1>1, <1>2, <1>7, <1>8
<1>10. \A o \in A : f[o] \in T
  BY <1>2, <1>7, <1>8
<1>11. \A p \in T : \E o \in A : f[o] = p
  <2>1. SUFFICES ASSUME NEW p \in T PROVE \E o \in A : f[o] = p
    OBVIOUS
  <2>2. p.poll \in expired_poll_ids /\ PollWith(p.poll) = p
    BY <1>6
  <2>3. M(p.poll) \in A
    BY <1>7, <2>2
  <2>4. QED
    BY <1>2, <1>8, <2>2, <2>3
<1>12. {f[o] : o \in A} = T
  BY <1>10, <1>11
<1>13. Cardinality({f[o] : o \in A}) = Cardinality(A)
  BY <1>4, <1>9, ImageCount
<1>14. QED
  BY <1>12, <1>13 DEF A, T, k

(* The casts a counter of agreement counts: those of the broadcaster, for  *)
(* the polls of the chain that are due.                                    *)
CastsOn(i, chain) == UNION {CastsBy(p, Broadcasters[i]) : p \in DueOn(chain)}
Agrees(c) == c.tx = Favoured(PollWith(c.poll))
ResultFor(c) == IF Agrees(c) THEN "agreed" ELSE "disagreed"
CastsWith(i, chain, result) == {c \in CastsOn(i, chain) : ResultFor(c) = result}

(* The casts behind the votes of a judged poll.                            *)
TraceOf(final, id) ==
  CHOOSE g \in Bijection(1..Len(final[id].votes), CastsIn(PollWith(id))) :
    \A j \in 1..Len(final[id].votes) : Matches(final[id].votes[j], g[j])

(* Each vote is traced to a cast that agrees or not, as the vote does.     *)
LEMMA TraceIs ==
  ASSUME VotesNameTheChain, CastsAreFound, PollsWereRequested, history \in Histories,
         NEW final, DueBooks(final), NEW id \in expired_poll_ids
  PROVE  LET g == TraceOf(final, id)
             votes == final[id].votes
             p == PollWith(id)
         IN  /\ \A j \in DOMAIN votes : /\ g[j] \in CastsIn(p) /\ g[j].poll = id
                                        /\ votes[j].sender_id = g[j].sender
                                        /\ Lower[votes[j].chain] = Lower[p.chain]
                                        /\ votes[j].tx_id = Majority(votes) <=> Agrees(g[j])
             /\ \A j, l \in DOMAIN votes : g[j] = g[l] => j = l
             /\ \A c \in CastsIn(p) : \E j \in DOMAIN votes : g[j] = c
<1> DEFINE g == TraceOf(final, id)
           votes == final[id].votes
           p == PollWith(id)
<1>1. IsList(votes) /\ p \in Due /\ p.poll = id /\ Traced(votes, CastsIn(p))
  BY DuePoll
<1>2. g \in Bijection(1..Len(votes), CastsIn(p)) /\ \A j \in 1..Len(votes) : Matches(votes[j], g[j])
  BY <1>1 DEF Traced, TraceOf
<1>3. p \in history.creations
  BY <1>1 DEF Due
<1> HIDE DEF g, votes, p
<1>4. DOMAIN votes = 1..Len(votes)
  BY <1>1, ListFacts
<1>5. /\ g \in [DOMAIN votes -> CastsIn(p)]
      /\ \A x, y \in DOMAIN votes : g[x] = g[y] => x = y
      /\ \A c \in CastsIn(p) : \E j \in DOMAIN votes : g[j] = c
  BY <1>2, <1>4, BijectionIs
<1>6. Majority(votes) = Favoured(p)
  BY <1>1, MajorityIsFavoured
<1>7. ASSUME NEW j \in DOMAIN votes
      PROVE  /\ g[j] \in CastsIn(p) /\ g[j].poll = id
             /\ votes[j].sender_id = g[j].sender
             /\ Lower[votes[j].chain] = Lower[p.chain]
             /\ votes[j].tx_id = Majority(votes) <=> Agrees(g[j])
  <2>1. g[j] \in CastsIn(p)
    BY <1>5
  <2>2. g[j] \in history.casts /\ g[j].poll = id
    BY <1>1, <2>1 DEF CastsIn
  <2>3. votes[j].sender_id = g[j].sender /\ votes[j].chain = g[j].chain /\ votes[j].tx_id = g[j].tx
    BY <1>2, <1>4 DEF Matches
  <2>4. Lower[g[j].chain] = Lower[p.chain]
    BY <1>1, <1>3, <2>2, CastsNameTheChain
  <2>5. Agrees(g[j]) <=> g[j].tx = Favoured(p)
    BY <2>2 DEF Agrees, p
  <2>6. QED
    BY <1>6, <2>1, <2>2, <2>3, <2>4, <2>5
<1>8. QED
  BY <1>5, <1>7 DEF g, votes, p

(* A broadcaster agrees, and disagrees, as often as it cast such a vote.   *)
LEMMA VotedCount ==
  ASSUME DistinctNames, DistinctAddresses,
         VotesNameTheChain, CastsAreFound, PollsWereRequested, history \in Histories,
         NEW final, DueBooks(final),
         \A p \in Due : p.poll \in expired_poll_ids /\ PollWith(p.poll) = p,
         NEW i \in DOMAIN Broadcasters, NEW chain, NEW result \in {"agreed", "disagreed"}
  PROVE  Cardinality(OutcomesAt(final, CounterOf(i, chain, result)))
           = Cardinality(CastsWith(i, chain, result))
<1> DEFINE k == CounterOf(i, chain, result)
           A == OutcomesAt(final, k)
           f == [o \in A |-> TraceOf(final, o.poll)[o.entry]]
           T == CastsWith(i, chain, result)
           V(id, j) == VotedOf(id, final[id], i, j)
           g(id, j) == TraceOf(final, id)[j]
<1>1. \A id \in expired_poll_ids :
        /\ PollWith(id) \in Due /\ PollWith(id).poll = id
        /\ \A j \in DOMAIN final[id].votes :
             /\ g(id, j) \in CastsIn(PollWith(id)) /\ g(id, j).poll = id
             /\ final[id].votes[j].sender_id = g(id, j).sender
             /\ Lower[final[id].votes[j].chain] = Lower[PollWith(id).chain]
             /\ final[id].votes[j].tx_id = Majority(final[id].votes) <=> Agrees(g(id, j))
        /\ \A j, l \in DOMAIN final[id].votes : g(id, j) = g(id, l) => j = l
        /\ \A c \in CastsIn(PollWith(id)) : \E j \in DOMAIN final[id].votes : g(id, j) = c
  <2>1. SUFFICES ASSUME NEW id \in expired_poll_ids
                 PROVE
        /\ PollWith(id) \in Due /\ PollWith(id).poll = id
        /\ \A j \in DOMAIN final[id].votes :
             /\ g(id, j) \in CastsIn(PollWith(id)) /\ g(id, j).poll = id
             /\ final[id].votes[j].sender_id = g(id, j).sender
             /\ Lower[final[id].votes[j].chain] = Lower[PollWith(id).chain]
             /\ final[id].votes[j].tx_id = Majority(final[id].votes) <=> Agrees(g(id, j))
        /\ \A j, l \in DOMAIN final[id].votes : g(id, j) = g(id, l) => j = l
        /\ \A c \in CastsIn(PollWith(id)) : \E j \in DOMAIN final[id].votes : g(id, j) = c
    OBVIOUS
  <2>2. QED
    BY DuePoll, TraceIs
<1>2. \A id, j : V(id, j).poll = id /\ V(id, j).entry = j
  BY CounterOfOne
<1>3. \A id : MissedOf(id, final[id], i).key # k
  BY CounterOfOne
<1>4. ASSUME NEW id \in expired_poll_ids, NEW j \in DOMAIN final[id].votes
      PROVE  V(id, j).key = k <=> /\ Lower[PollWith(id).chain] = chain
                                  /\ ResultFor(g(id, j)) = result
  <2>1. V(id, j).key = CounterOf(i, Lower[final[id].votes[j].chain],
                                 IF final[id].votes[j].tx_id = Majority(final[id].votes)
                                 THEN "agreed" ELSE "disagreed")
    BY CounterOfOne
  <2> HIDE DEF g
  <2>2. V(id, j).key = CounterOf(i, Lower[PollWith(id).chain], ResultFor(g(id, j)))
    BY <1>1, <2>1 DEF ResultFor
  <2> HIDE DEF V
  <2>3. QED
    BY <2>2, CounterOfOne
<1>5. k.broadcaster = Broadcasters[i].name
  BY CounterOfOne
<1> HIDE DEF k
<1>6. /\ IsFiniteSet(A)
      /\ \A o : o \in A
           <=> o.key = k /\ \E id \in expired_poll_ids : OutcomeFor(o, id, final[id], i)
  BY <1>5, OutcomesAtAre
<1>7. \A c : c \in T <=> \E p \in Due : /\ Lower[p.chain] = chain /\ c \in CastsIn(p)
                                        /\ c.sender = Broadcasters[i].address
                                        /\ ResultFor(c) = result
  BY DEF CastsWith, CastsOn, DueOn, CastsBy
<1>8. \A o \in A : f[o] = g(o.poll, o.entry)
  OBVIOUS
<1> HIDE DEF A, T, V, g, f
<1>9. \A o : o \in A <=> \E id \in expired_poll_ids : \E j \in DOMAIN final[id].votes :
                           o = V(id, j) /\ g(id, j) \in T
  <2>1. ASSUME NEW o \in A
        PROVE  \E id \in expired_poll_ids : \E j \in DOMAIN final[id].votes :
                 o = V(id, j) /\ g(id, j) \in T
    <3>1. PICK id \in expired_poll_ids : OutcomeFor(o, id, final[id], i)
      BY <1>6
    <3>2. o.key = k
      BY <1>6
    <3>3. o # MissedOf(id, final[id], i)
      BY <1>3, <3>2
    <3>4. PICK j \in SentOn(final[id], i) : o = V(id, j)
      BY <3>1, <3>3 DEF OutcomeFor, V
    <3>5. j \in DOMAIN final[id].votes /\ final[id].votes[j].sender_id = Broadcasters[i].address
      BY DEF SentOn
    <3>6. Lower[PollWith(id).chain] = chain /\ ResultFor(g(id, j)) = result
      BY <1>4, <3>2, <3>4, <3>5
    <3>7. /\ PollWith(id) \in Due /\ g(id, j) \in CastsIn(PollWith(id))
          /\ g(id, j).sender = Broadcasters[i].address
      BY <1>1, <3>5
    <3>8. g(id, j) \in T
      BY <1>7, <3>6, <3>7
    <3>9. QED
      BY <3>4, <3>5, <3>8
  <2>2. ASSUME NEW id \in expired_poll_ids, NEW j \in DOMAIN final[id].votes, g(id, j) \in T
        PROVE  V(id, j) \in A
    <3>1. PICK p \in Due : /\ Lower[p.chain] = chain /\ g(id, j) \in CastsIn(p)
                           /\ g(id, j).sender = Broadcasters[i].address
                           /\ ResultFor(g(id, j)) = result
      BY <1>7, <2>2
    <3>2. p = PollWith(id)
      <4>1. g(id, j).poll = p.poll
        BY <3>1 DEF CastsIn
      <4>2. g(id, j).poll = id
        BY <1>1
      <4>3. QED
        BY <4>1, <4>2
    <3>3. V(id, j).key = k
      BY <1>4, <3>1, <3>2
    <3>4. final[id].votes[j].sender_id = Broadcasters[i].address
      BY <1>1, <3>1
    <3>5. j \in SentOn(final[id], i)
      BY <3>4 DEF SentOn
    <3>6. OutcomeFor(V(id, j), id, final[id], i)
      BY <3>5 DEF OutcomeFor, V
    <3>7. QED
      BY <1>6, <3>3, <3>6
  <2>3. QED
    BY <2>1, <2>2
<1>10. \A o \in A : \E id \in expired_poll_ids : \E j \in DOMAIN final[id].votes :
         o = V(id, j) /\ f[o] = g(id, j) /\ f[o] \in T
  BY <1>2, <1>8, <1>9
<1>11. \A o, q \in A : f[o] = f[q] => o = q
  <2>1. SUFFICES ASSUME NEW o \in A, NEW q \in A, f[o] = f[q] PROVE o = q
    OBVIOUS
  <2>2. PICK id \in expired_poll_ids : \E j \in DOMAIN final[id].votes :
          o = V(id, j) /\ f[o] = g(id, j)
    BY <1>10
  <2>3. PICK j \in DOMAIN final[id].votes : o = V(id, j) /\ f[o] = g(id, j)
    BY <2>2
  <2>4. PICK jd \in expired_poll_ids : \E l \in DOMAIN final[jd].votes :
          q = V(jd, l) /\ f[q] = g(jd, l)
    BY <1>10
  <2>5. PICK l \in DOMAIN final[jd].votes : q = V(jd, l) /\ f[q] = g(jd, l)
    BY <2>4
  <2>6. g(id, j).poll = id /\ g(jd, l).poll = jd
    BY <1>1
  <2>7. id = jd
    BY <2>1, <2>3, <2>5, <2>6
  <2>8. g(id, j) = g(id, l) /\ l \in DOMAIN final[id].votes
    BY <2>1, <2>3, <2>5, <2>7
  <2>9. j = l
    BY <1>1, <2>8
  <2>10. QED
    BY <2>3, <2>5, <2>7, <2>9
<1>12. \A o \in A : f[o] \in T
  BY <1>10
<1>13. \A c \in T : \E o \in A : f[o] = c
  <2>1. SUFFICES ASSUME NEW c \in T PROVE \E o \in A : f[o] = c
    OBVIOUS
  <2>2. PICK p \in Due : c \in CastsIn(p)
    BY <1>7
  <2>3. p.poll \in expired_poll_ids /\ PollWith(p.poll) = p
    OBVIOUS
  <2>4. PICK j \in DOMAIN final[p.poll].votes : g(p.poll, j) = c
    BY <1>1, <2>2, <2>3
  <2>5. V(p.poll, j) \in A
    BY <1>9, <2>1, <2>3, <2>4
  <2>6. f[V(p.poll, j)] = c
    BY <1>2, <1>8, <2>4, <2>5
  <2>7. QED
    BY <2>5, <2>6
<1>14. {f[o] : o \in A} = T
  BY <1>12, <1>13
<1>15. Cardinality({f[o] : o \in A}) = Cardinality(A)
  BY <1>6, <1>11, ImageCount
<1>16. QED
  BY <1>14, <1>15 DEF A, T, k

(* Every counter is that of a broadcaster's name, with one of the results. *)
LEMMA CountersAre ==
  ASSUME SeriesRegistered, NEW k \in DOMAIN vote_results,
         NEW i \in DOMAIN Broadcasters, Broadcasters[i].name = k.broadcaster
  PROVE  k = CounterOf(i, k.chain, k.result) /\ k.result \in VoteResultType
<1>1. PICK c \in DOMAIN chain_params : k \in SeriesOf(c)
  BY DEF SeriesRegistered, RegisteredSeries
<1>2. PICK n \in Names, r \in VoteResultType : k = Key(n, c, r)
  BY <1>1 DEF SeriesOf
<1>3. k.chain = Lower[c] /\ k.result = r /\ k.broadcaster = n
  BY <1>2 DEF Key
<1>4. k = [broadcaster |-> n, chain |-> Lower[c], result |-> r]
  BY <1>2 DEF Key
<1>5. QED
  BY <1>3, <1>4 DEF CounterOf

(* What the chain says, counted the way the monitor does.                  *)
LEMMA TrueCountIs ==
  ASSUME \A p \in Due : PollWith(p.poll) = p, NEW i \in DOMAIN Broadcasters, NEW chain
  PROVE  /\ TrueCount(Broadcasters[i], chain, "missed")
              = Cardinality({p \in DueOn(chain) : CastsBy(p, Broadcasters[i]) = {}})
         /\ \A r \in {"agreed", "disagreed"} :
              TrueCount(Broadcasters[i], chain, r)
                = Cardinality(CastsWith(i, chain, r))
<1> DEFINE agreed == {c \in CastsOn(i, chain) :
                        \E p \in DueOn(chain) : c \in CastsIn(p) /\ c.tx = Favoured(p)}
<1>1. \A c \in CastsOn(i, chain) : \E p \in DueOn(chain) : c \in CastsIn(p)
  BY DEF CastsOn, CastsBy
<1>2. \A c : \A p \in DueOn(chain) : c \in CastsIn(p) => PollWith(c.poll) = p
  BY DEF DueOn, CastsIn
<1>3. agreed = CastsWith(i, chain, "agreed")
  BY <1>1, <1>2 DEF CastsWith, ResultFor, Agrees
<1>4. CastsOn(i, chain) \ agreed = CastsWith(i, chain, "disagreed")
  BY <1>3 DEF CastsWith, ResultFor
<1>5. TrueCount(Broadcasters[i], chain, "missed")
        = Cardinality({p \in DueOn(chain) : CastsBy(p, Broadcasters[i]) = {}})
  BY DEF TrueCount, DueOn
<1>6. TrueCount(Broadcasters[i], chain, "agreed") = Cardinality(agreed)
  BY DEF TrueCount, DueOn, CastsOn
<1>7. TrueCount(Broadcasters[i], chain, "disagreed")
        = Cardinality(CastsOn(i, chain) \ agreed)
  BY DEF TrueCount, DueOn, CastsOn
<1> HIDE DEF agreed
<1>8. QED
  BY <1>3, <1>4, <1>5, <1>6, <1>7

(* While every request succeeds the counters are exactly what the chain    *)
(* says of the polls opened since the start: parameters are loaded before  *)
(* the first block, a poll is registered before the first vote on it can   *)
(* arrive, votes are counted up to and including the deadline block, and   *)
(* the verdict falls at that block.                                        *)
THEOREM TallyIsTheChains ==
  ASSUME AnyPolls, SteadyNode, LongPolls, SameParams, DistinctNames, DistinctAddresses,
         VotesNameTheChain, VotesWereCast, CastsAreFound, PollsWereRequested
  PROVE  MonitorSpec => []TallyMatchesChain
<1>1. ASSUME BookInv, SmoothInv, SeriesRegistered, faults = 0,
             NEW k \in DOMAIN vote_results, NEW i \in DOMAIN Broadcasters,
             Broadcasters[i].name = k.broadcaster
      PROVE  vote_results[k] = TrueCount(Broadcasters[i], k.chain, k.result)
  <2>1. history \in Histories
    BY <1>1 DEF BookInv, MonitorInv, DataInv
  <2>2. \A p \in Due : p.poll \in expired_poll_ids /\ PollWith(p.poll) = p
    BY <1>1, DueAreJudged
  <2>3. PICK final : DueBooks(final)
    BY <1>1, DueAreJudged
  <2>4. k = CounterOf(i, k.chain, k.result) /\ k.result \in {"missed", "agreed", "disagreed"}
    BY <1>1, CountersAre DEF VoteResultType
  <2>5. PICK chain, result : /\ chain = k.chain /\ result = k.result
                             /\ k = CounterOf(i, chain, result)
    BY <2>4
  <2>6. vote_results[k] = Cardinality(OutcomesAt(final, k))
    BY <1>1, <2>3 DEF DueBooks, Books, OutcomesAt
  <2>7. \A r \in {"missed", "agreed", "disagreed"} :
          Cardinality(OutcomesAt(final, CounterOf(i, chain, r)))
            = TrueCount(Broadcasters[i], chain, r)
    <3>1. Cardinality(OutcomesAt(final, CounterOf(i, chain, "missed")))
            = TrueCount(Broadcasters[i], chain, "missed")
      <4>1. Cardinality(OutcomesAt(final, CounterOf(i, chain, "missed")))
              = Cardinality({p \in DueOn(chain) : CastsBy(p, Broadcasters[i]) = {}})
        BY <2>2, <2>3, MissedCount
      <4>2. QED
        BY <2>2, <4>1, TrueCountIs
    <3>2. \A r \in {"agreed", "disagreed"} :
            Cardinality(OutcomesAt(final, CounterOf(i, chain, r)))
              = Cardinality(CastsWith(i, chain, r))
      <4>1. SUFFICES ASSUME NEW r \in {"agreed", "disagreed"}
                     PROVE  Cardinality(OutcomesAt(final, CounterOf(i, chain, r)))
                              = Cardinality(CastsWith(i, chain, r))
        OBVIOUS
      <4>2. QED
        BY <2>1, <2>2, <2>3, VotedCount
    <3>3. \A r \in {"agreed", "disagreed"} :
            TrueCount(Broadcasters[i], chain, r)
              = Cardinality(CastsWith(i, chain, r))
      BY <2>2, TrueCountIs
    <3>4. QED
      BY <3>1, <3>2, <3>3
  <2>8. Cardinality(OutcomesAt(final, k)) = TrueCount(Broadcasters[i], chain, result)
    BY <2>4, <2>5, <2>7
  <2>9. QED
    BY <2>5, <2>6, <2>8
<1>2. BookInv /\ SmoothInv /\ SeriesRegistered => TallyMatchesChain
  BY <1>1 DEF TallyMatchesChain
<1>3. QED
  BY <1>2, BookInvHolds, SmoothHolds, SeriesAreRegistered, PTL
=============================================================================
