------------------------- MODULE FetchPipelineProofs -------------------------
(***************************************************************************)
(* Proofs about the message pump for every value of its constants.         *)
(***************************************************************************)
EXTENDS FetchPipeline, SequenceTheorems, TLAPS

USE PipelineAssumption

----------------------------------------------------------------------------
(* Queues.                                                                 *)

(* What Append does to the elements of a queue and their positions.        *)
LEMMA AppendFacts ==
  ASSUME NEW S, NEW q \in Seq(S), NEW x \in S
  PROVE  /\ Append(q, x) \in Seq(S)
         /\ Len(Append(q, x)) = Len(q) + 1
         /\ DOMAIN Append(q, x) = DOMAIN q \cup {Len(q) + 1}
         /\ Len(q) + 1 \notin DOMAIN q
         /\ Append(q, x)[Len(q) + 1] = x
         /\ \A i \in DOMAIN q : Append(q, x)[i] = q[i]
  OBVIOUS

(* What Head and Tail do to them.                                          *)
LEMMA TailFacts ==
  ASSUME NEW S, NEW q \in Seq(S), q # <<>>
  PROVE  /\ Head(q) \in S /\ Head(q) = q[1] /\ 1 \in DOMAIN q
         /\ Tail(q) \in Seq(S)
         /\ \A i \in DOMAIN Tail(q) : i + 1 \in DOMAIN q /\ Tail(q)[i] = q[i + 1]
         /\ \A i \in DOMAIN q : i # 1 => i - 1 \in DOMAIN Tail(q)
         /\ \A i \in DOMAIN q : i \in Nat
         /\ \A i \in DOMAIN Tail(q) : i \in Nat \ {0}
  OBVIOUS

(* What appending one element does to the block requests of a queue.       *)
LEMMA AppendJobs ==
  ASSUME NEW S, NEW q \in Seq(S), NEW x \in S, NEW h
  PROVE  /\ JobsIn(Append(q, x)) = {} <=> JobsIn(q) = {} /\ ~IsJob(x)
         /\ JobsIn(q) = {} /\ (IsJob(x) => x.height = h)
              => LoneJob(Append(q, x), h)
         /\ LoneJob(q, h) /\ ~IsJob(x) => LoneJob(Append(q, x), h)
<1> DEFINE a == Append(q, x)
<1>1. ~IsJob(x) => JobsIn(a) = JobsIn(q)
  BY AppendFacts DEF JobsIn
<1>2. IsJob(x) => JobsIn(a) = JobsIn(q) \cup {Len(q) + 1}
  BY AppendFacts DEF JobsIn
<1>3. \A i \in JobsIn(q) : a[i] = q[i]
  BY AppendFacts DEF JobsIn
<1>4. a[Len(q) + 1] = x
  BY AppendFacts
<1> HIDE DEF a
<1>5. QED
  BY <1>1, <1>2, <1>3, <1>4 DEF LoneJob, a

(* What receiving the first element does to them.                          *)
LEMMA TailJobs ==
  ASSUME NEW S, NEW q \in Seq(S), q # <<>>, NEW h
  PROVE  /\ JobsIn(q) = {} => JobsIn(Tail(q)) = {} /\ ~IsJob(Head(q))
         /\ LoneJob(q, h) => LoneJob(Tail(q), h)
         /\ LoneJob(q, h) /\ IsJob(Head(q))
              => JobsIn(Tail(q)) = {} /\ Head(q).height = h
         /\ JobsIn(q) # {} /\ ~IsJob(Head(q)) => JobsIn(Tail(q)) # {}
<1> DEFINE t == Tail(q)
<1>1. \A i \in JobsIn(t) : i + 1 \in JobsIn(q) /\ i + 1 # 1 /\ t[i] = q[i + 1]
                            /\ i \in Nat
  BY TailFacts DEF JobsIn
<1>2. \A i \in JobsIn(q) : i # 1 => i - 1 \in JobsIn(t)
  BY TailFacts DEF JobsIn
<1>3. IsJob(Head(q)) <=> 1 \in JobsIn(q)
  BY TailFacts DEF JobsIn
<1>4. Head(q) = q[1]
  BY TailFacts
<1> HIDE DEF t
<1>5. LoneJob(q, h) => LoneJob(t, h)
  BY <1>1 DEF LoneJob
<1>6. LoneJob(q, h) /\ IsJob(Head(q)) => JobsIn(t) = {} /\ Head(q).height = h
  BY <1>1, <1>3, <1>4 DEF LoneJob
<1>7. JobsIn(q) = {} => JobsIn(t) = {} /\ ~IsJob(Head(q))
  BY <1>1, <1>3
<1>8. JobsIn(q) # {} /\ ~IsJob(Head(q)) => JobsIn(t) # {}
  BY <1>2, <1>3
<1>9. QED
  BY <1>5, <1>6, <1>7, <1>8 DEF t

(* The short queues the handlers return.                                   *)
LEMMA ShortJobs ==
  ASSUME NEW x, NEW y, NEW h
  PROVE  /\ JobsIn(<<>>) = {} /\ LoneJob(<<>>, h)
         /\ JobsIn(<<x>>) = {} <=> ~IsJob(x)
         /\ (IsJob(x) => x.height = h) => LoneJob(<<x>>, h)
         /\ ~IsJob(x) => (JobsIn(<<x, y>>) = {} <=> ~IsJob(y))
         /\ ~IsJob(x) /\ (IsJob(y) => y.height = h) => LoneJob(<<x, y>>, h)
<1>1. JobsIn(<<>>) = {}
  BY DEF JobsIn
<1>2. JobsIn(<<x>>) = {i \in {1} : IsJob(x)}
  BY DEF JobsIn
<1>3. JobsIn(<<x, y>>) = {i \in {1, 2} : IsJob(IF i = 1 THEN x ELSE y)}
  BY DEF JobsIn
<1>4. <<x>>[1] = x /\ <<x, y>>[2] = y
  OBVIOUS
<1>5. QED
  BY <1>1, <1>2, <1>3, <1>4 DEF LoneJob

----------------------------------------------------------------------------
(* Type correctness.                                                       *)

(* Every command the handlers build is an IoCommand.                       *)
LEMMA CommandTypes ==
  /\ \A h \in Heights, r \in Retries : FetchBlock(h, r) \in IoCommand
  /\ \A h \in Heights, p \in PollLists, r \in Retries :
       FetchBlockResults(h, p, r) \in IoCommand
  /\ FetchChainList \in IoCommand /\ FetchHead \in IoCommand
  /\ \A c \in Chains : FetchChainParams(c) \in IoCommand
  BY DEF IoCommand, FetchBlock, FetchBlockResults, FetchChainList, FetchHead,
         FetchChainParams

(* Every answer the IO thread builds is an IoResult.                       *)
LEMMA ResultTypes ==
  /\ \A h \in Heights : Block(h) \in IoResult /\ HeadAnswer(h) \in IoResult
  /\ \A h \in Heights, r \in Retries : FetchError(h, r) \in IoResult
  /\ \A h \in Heights, p \in PollLists : BlockResults(h, p) \in IoResult
  /\ \A h \in Heights, p \in PollLists, r \in Retries :
       FetchBlockResultsError(h, p, r) \in IoResult
  /\ \A c \in Chains : ChainParams(c) \in IoResult
  /\ ChainListAnswer \in IoResult /\ FetchChainListError \in IoResult
  BY DEF IoResult, Block, HeadAnswer, FetchError, BlockResults,
         FetchBlockResultsError, ChainParams, ChainListAnswer,
         FetchChainListError

(* The fields of the command about to run and of the result about to be    *)
(* handled, by kind.                                                       *)
LEMMA CommandFields ==
  ASSUME NEW c \in IoCommand
  PROVE  /\ c.kind \in {"FetchBlock", "FetchBlockResults"}
              => c.height \in Heights /\ c.retries \in Retries
         /\ c.kind = "FetchBlockResults" => c.polls \in PollLists
         /\ c.kind = "FetchChainParams" => c.chain \in Chains
  BY DEF IoCommand

(* The fields of a result, by its kind.                                    *)
LEMMA ResultFields ==
  ASSUME NEW m \in IoResult
  PROVE  /\ m.kind \in {"Block", "Head", "FetchError", "BlockResults",
                        "FetchBlockResultsError"} => m.height \in Heights
         /\ m.kind \in {"FetchError", "FetchBlockResultsError"}
              => m.retries \in Retries
         /\ m.kind \in {"BlockResults", "FetchBlockResultsError"}
              => m.polls \in PollLists
  BY DEF IoResult

(* A retry that is allowed keeps the count within its range.               *)
LEMMA MoreRetries ==
  ASSUME NEW r \in Retries, MayRetry(r)
  PROVE  r + 1 \in Retries
  BY DEF Retries, MayRetry

(* The IO thread keeps the type of what it changes.                        *)
LEMMA IoStepTypes ==
  ASSUME TypeOK, IoStep
  PROVE  TypeOK'
<1> DEFINE c == Head(cmdQ)
<1>1. /\ cmdQ # <<>> /\ c \in IoCommand /\ Tail(cmdQ) \in Seq(IoCommand)
      /\ cmdQ' = Tail(cmdQ)
      /\ UNCHANGED <<outbox, phase, procVars, snapshot>>
  BY TailFacts DEF TypeOK, IoStep, IoFetchBlock, IoFetchBlockResults,
       IoFetchChainList, IoFetchChainParams, IoFetchHead, Executes
<1>2. faults' \in 0..MaxFaults /\ served' \in Heights
  BY DEF TypeOK, IoStep, IoFetchBlock, IoFetchBlockResults, IoFetchChainList,
       IoFetchChainParams, IoFetchHead, RequestFails, HeadsServed, Heights
<1>3. msgQ' = msgQ \/ \E m \in IoResult : msgQ' = Append(msgQ, m)
  <2>1. CASE IoFetchBlock
    BY <2>1, <1>1, CommandFields, ResultTypes DEF IoFetchBlock, Executes, Yields
  <2>2. CASE IoFetchBlockResults
    BY <2>2, <1>1, CommandFields, ResultTypes
       DEF IoFetchBlockResults, Executes, Yields
  <2>3. CASE IoFetchChainList
    BY <2>3, ResultTypes DEF IoFetchChainList, Yields
  <2>4. CASE IoFetchChainParams
    BY <2>4, <1>1, CommandFields, ResultTypes
       DEF IoFetchChainParams, Executes, Yields
  <2>5. CASE IoFetchHead
    BY <2>5, ResultTypes DEF IoFetchHead, Yields, HeadsServed, Heights
  <2>6. QED
    BY <2>1, <2>2, <2>3, <2>4, <2>5 DEF IoStep
<1>4. msgQ' \in Seq(IoResult)
  <2>1. msgQ \in Seq(IoResult)
    BY DEF TypeOK
  <2>2. ASSUME NEW m \in IoResult, msgQ' = Append(msgQ, m)
        PROVE  msgQ' \in Seq(IoResult)
    BY <2>1, <2>2, AppendFacts
  <2>3. QED
    BY <1>3, <2>1, <2>2
<1>5. QED
  BY <1>1, <1>2, <1>4 DEF TypeOK, procVars

(* The continuation of the chain of fetches is a list of commands.         *)
LEMMA NextFetchType ==
  ASSUME TypeOK, NEW h \in Heights
  PROVE  NextFetch(h) \in Seq(IoCommand)
  BY CommandTypes DEF TypeOK, NextFetch, Heights, Retries

(* What every handler has in common.                                       *)
LEMMA ReceivedTypes ==
  ASSUME TypeOK, NEW kind, Receives(kind)
  PROVE  /\ msgQ # <<>> /\ Head(msgQ) \in IoResult /\ Head(msgQ).kind = kind
         /\ msgQ' = Tail(msgQ) /\ msgQ' \in Seq(IoResult)
         /\ phase' \in {"receive", "send"}
         /\ UNCHANGED <<cmdQ, snapshot, served, faults>>
  BY TailFacts DEF Receives, TypeOK, envVars

(* How the handlers put an outbox together.                                *)
LEMMA SequenceTypes ==
  ASSUME NEW S
  PROVE  /\ <<>> \in Seq(S)
         /\ \A x \in S : <<x>> \in Seq(S)
         /\ \A p, q \in Seq(S) : p \o q \in Seq(S)
  OBVIOUS

(* A handler that leaves its own variables well typed leaves all of them so. *)
LEMMA HandlerTypes ==
  ASSUME TypeOK, NEW kind, Receives(kind),
         outbox' \in Seq(IoCommand), chain_tip' \in Nat,
         last_processed_height' \in Nat, chain_height' \in Nat,
         fetch_error_count' \in Nat
  PROVE  TypeOK'
  BY ReceivedTypes DEF TypeOK

(* The processing thread keeps the types.                                  *)
LEMMA ProcessingStepTypes ==
  ASSUME TypeOK, ProcessingStep
  PROVE  TypeOK'
<1> DEFINE m == Head(msgQ)
<1> USE SequenceTypes, CommandTypes
<1>0. /\ chain_tip \in Nat /\ last_processed_height \in Nat
      /\ chain_height \in Nat /\ fetch_error_count \in Nat
  BY DEF TypeOK
<1>1. CASE HandleFetchError
  <2>1. Receives("FetchError") /\ m.height \in Heights /\ m.retries \in Retries
    BY <1>1, ReceivedTypes, ResultFields DEF HandleFetchError
  <2>2. outbox' \in Seq(IoCommand)
    BY <1>1, <2>1, MoreRetries, NextFetchType DEF HandleFetchError
  <2>3. QED
    BY <1>0, <1>1, <2>1, <2>2, HandlerTypes DEF HandleFetchError, Heights
<1>2. CASE HandleFetchBlockResultsError
  <2>1. /\ Receives("FetchBlockResultsError") /\ m.height \in Heights
        /\ m.retries \in Retries /\ m.polls \in PollLists
    BY <1>2, ReceivedTypes, ResultFields DEF HandleFetchBlockResultsError
  <2>2. outbox' \in Seq(IoCommand)
    BY <1>2, <2>1, MoreRetries DEF HandleFetchBlockResultsError
  <2>3. QED
    BY <1>0, <1>2, <2>1, <2>2, HandlerTypes DEF HandleFetchBlockResultsError
<1>3. CASE HandleFetchChainListError
  BY <1>0, <1>3, HandlerTypes DEF HandleFetchChainListError
<1>4. CASE HandleChainList
  <2>1. outbox' = [i \in 1..Len(ChainList) |-> FetchChainParams(ChainList[i])]
    BY <1>4 DEF HandleChainList
  <2>2. \A i \in 1..Len(ChainList) : FetchChainParams(ChainList[i]) \in IoCommand
    BY DEF Chains
  <2>3. outbox' \in Seq(IoCommand)
    BY <2>1, <2>2
  <2>4. QED
    BY <1>0, <1>4, <2>3, HandlerTypes DEF HandleChainList, procVars
<1>5. CASE HandleChainParams \/ HandleBlockResults
  BY <1>0, <1>5, HandlerTypes
     DEF HandleChainParams, HandleBlockResults, procVars
<1>6. ASSUME NEW creations \in PollLists, HandleBlock(creations)
      PROVE  TypeOK'
  <2>1. Receives("Block") /\ m.height \in Heights
    BY <1>6, ReceivedTypes, ResultFields DEF HandleBlock
  <2>2. FetchBlockResults(m.height, creations, 0) \in IoCommand
    BY <2>1 DEF Retries
  <2>3. outbox' \in Seq(IoCommand)
    BY <1>6, <2>1, <2>2, NextFetchType DEF HandleBlock, BlockResponses, ResultsFetch
  <2>4. QED
    BY <1>0, <1>6, <2>1, <2>3, HandlerTypes DEF HandleBlock, Heights
<1>7. CASE HandleHead
  <2>1. Receives("Head") /\ m.height \in Heights
    BY <1>7, ReceivedTypes, ResultFields DEF HandleHead
  <2>2. 0 \in Retries
    BY DEF Retries
  <2>3. last_processed_height + 1 \in Heights
    BY DEF TypeOK, Heights
  <2>4. outbox' \in Seq(IoCommand)
    BY <1>7, <2>1, <2>2, <2>3 DEF HandleHead
  <2>5. QED
    BY <1>0, <1>7, <2>1, <2>4, HandlerTypes DEF HandleHead, Heights
<1>8. CASE SendCommand
  <2>1. Head(outbox) \in IoCommand /\ Tail(outbox) \in Seq(IoCommand)
    BY <1>8, TailFacts DEF SendCommand, TypeOK
  <2>2. cmdQ' \in Seq(IoCommand)
    BY <1>8, <2>1, AppendFacts DEF SendCommand, TypeOK
  <2>3. QED
    BY <1>8, <2>1, <2>2 DEF SendCommand, TypeOK, procVars, envVars
<1>9. CASE PublishMetrics
  BY <1>9 DEF PublishMetrics, TypeOK, Metrics, procVars, envVars
<1>10. QED
  BY <1>1, <1>2, <1>3, <1>4, <1>5, <1>6, <1>7, <1>8, <1>9 DEF ProcessingStep

(* So does every step.                                                     *)
LEMMA TypeKept ==
  ASSUME TypeOK, [Next]_vars
  PROVE  TypeOK'
<1>1. CASE FeederTick
  BY <1>1, AppendFacts, CommandTypes
     DEF FeederTick, TypeOK, procVars, envVars
<1>2. CASE UNCHANGED vars
  BY <1>2 DEF TypeOK, vars, procVars, envVars
<1>3. QED
  BY <1>1, <1>2, IoStepTypes, ProcessingStepTypes DEF Next

(* Whatever the constants, the node and the failures, every queue holds    *)
(* well-formed commands and results, and no counter of retries or faults   *)
(* leaves its range.                                                       *)
THEOREM TypeCorrect == Spec => []TypeOK
<1>1. Init => TypeOK
  BY SequenceTypes, CommandTypes DEF Init, TypeOK, Metrics, Heights
<1>2. TypeOK /\ [Next]_vars => TypeOK'
  BY TypeKept
<1>3. QED
  BY <1>1, <1>2, PTL DEF Spec

----------------------------------------------------------------------------
(* The inductive invariant.                                                *)

(* The node's head answers never fall, and its chain is past height 1 (a   *)
(* monitor started at height 1 keeps last_processed_height at 0, the mark  *)
(* of one that has not started).                                           *)
SteadyNode == Regress = 0 /\ FirstHeight > 1

HasJob == \/ JobsIn(msgQ) # {} \/ JobsIn(cmdQ) # {} \/ JobsIn(outbox) # {}

(* A block request is on its way exactly when a known block is missing.    *)
JobsInv ==
  /\ SingleFetch
  /\ HasJob <=> chain_tip > last_processed_height
  /\ last_processed_height <= chain_tip
  /\ Starting => chain_tip = 0
  /\ phase = "receive" => outbox = <<>>

(* Head answers still in the channel are in order and not below the tip.   *)
HeadsInv ==
  /\ chain_tip <= served /\ FirstHeight <= served
  /\ \A i \in DOMAIN msgQ : msgQ[i].kind = "Head"
       => /\ FirstHeight <= msgQ[i].height
          /\ chain_tip <= msgQ[i].height /\ msgQ[i].height <= served
  /\ \A i, j \in DOMAIN msgQ :
       i < j /\ msgQ[i].kind = "Head" /\ msgQ[j].kind = "Head"
         => msgQ[i].height <= msgQ[j].height

(* No counter is ahead of what it is published from.                       *)
CountersInv ==
  /\ chain_height <= last_processed_height
  /\ snapshot.chain_height <= chain_height
  /\ snapshot.last_processed_height <= last_processed_height
  /\ snapshot.fetch_error_count <= fetch_error_count

PipelineInv == TypeOK /\ JobsInv /\ HeadsInv /\ CountersInv

(* The IO thread turns the command it takes into at most one result, and a *)
(* block request into exactly one answer for the same height.              *)
LEMMA IoStepJobs ==
  ASSUME TypeOK, IoStep
  PROVE  /\ cmdQ # <<>> /\ cmdQ' = Tail(cmdQ)
         /\ UNCHANGED <<outbox, phase, procVars, snapshot>>
         /\ \/ /\ msgQ' = msgQ /\ ~IsJob(Head(cmdQ))
            \/ \E x \in IoResult :
                 /\ msgQ' = Append(msgQ, x)
                 /\ IsJob(x) <=> IsJob(Head(cmdQ))
                 /\ IsJob(x) => x.height = Head(cmdQ).height
<1> DEFINE c == Head(cmdQ)
<1>1. cmdQ # <<>> /\ c \in IoCommand /\ cmdQ' = Tail(cmdQ)
  BY TailFacts DEF TypeOK, IoStep, IoFetchBlock, IoFetchBlockResults,
       IoFetchChainList, IoFetchChainParams, IoFetchHead, Executes
<1>2. UNCHANGED <<outbox, phase, procVars, snapshot>>
  BY DEF IoStep, IoFetchBlock, IoFetchBlockResults,
       IoFetchChainList, IoFetchChainParams, IoFetchHead, Executes
<1>3. CASE IoFetchBlock
  <2>1. c.kind = "FetchBlock" /\ c.height \in Heights /\ c.retries \in Retries
    BY <1>1, <1>3, CommandFields DEF IoFetchBlock, Executes
  <2>2. \E x \in {Block(c.height), FetchError(c.height, c.retries)} :
           msgQ' = Append(msgQ, x)
    BY <1>3 DEF IoFetchBlock, Yields
  <2>3. \A x \in {Block(c.height), FetchError(c.height, c.retries)} :
           x \in IoResult /\ IsJob(x) /\ x.height = c.height
    BY <2>1, ResultTypes DEF IsJob, Block, FetchError
  <2>4. QED
    BY <1>1, <1>2, <2>1, <2>2, <2>3 DEF IsJob
<1>4. CASE IoFetchBlockResults
  <2>1. /\ c.kind = "FetchBlockResults" /\ c.height \in Heights
        /\ c.retries \in Retries /\ c.polls \in PollLists
    BY <1>1, <1>4, CommandFields DEF IoFetchBlockResults, Executes
  <2> DEFINE X == {BlockResults(c.height, c.polls),
                   FetchBlockResultsError(c.height, c.polls, c.retries)}
  <2>2. \E x \in X : msgQ' = Append(msgQ, x)
    BY <1>4 DEF IoFetchBlockResults, Yields
  <2>3. \A x \in X : x \in IoResult /\ ~IsJob(x)
    BY <2>1, ResultTypes DEF IsJob, BlockResults, FetchBlockResultsError
  <2>4. QED
    BY <1>1, <1>2, <2>1, <2>2, <2>3 DEF IsJob
<1>5. CASE IoFetchChainList
  <2>1. c.kind = "FetchChainList"
    BY <1>5 DEF IoFetchChainList, Executes
  <2>2. \E x \in {ChainListAnswer, FetchChainListError} : msgQ' = Append(msgQ, x)
    BY <1>5 DEF IoFetchChainList, Yields
  <2>3. \A x \in {ChainListAnswer, FetchChainListError} :
           x \in IoResult /\ ~IsJob(x)
    BY ResultTypes DEF IsJob, ChainListAnswer, FetchChainListError
  <2>4. QED
    BY <1>1, <1>2, <2>1, <2>2, <2>3 DEF IsJob
<1>6. CASE IoFetchChainParams
  <2>1. c.kind = "FetchChainParams" /\ c.chain \in Chains
    BY <1>1, <1>6, CommandFields DEF IoFetchChainParams, Executes
  <2>2. msgQ' = msgQ \/ msgQ' = Append(msgQ, ChainParams(c.chain))
    BY <1>6 DEF IoFetchChainParams, Yields
  <2>3. ChainParams(c.chain) \in IoResult /\ ~IsJob(ChainParams(c.chain))
    BY <2>1, ResultTypes DEF IsJob, ChainParams
  <2>4. QED
    BY <1>1, <1>2, <2>1, <2>2, <2>3 DEF IsJob
<1>7. CASE IoFetchHead
  <2>1. c.kind = "FetchHead"
    BY <1>7 DEF IoFetchHead, Executes
  <2>2. msgQ' = msgQ \/ \E n \in HeadsServed : msgQ' = Append(msgQ, HeadAnswer(n))
    BY <1>7 DEF IoFetchHead, Yields
  <2>3. HeadsServed \subseteq Heights
    BY DEF HeadsServed, Heights
  <2>4. \A n \in HeadsServed : HeadAnswer(n) \in IoResult /\ ~IsJob(HeadAnswer(n))
    BY <2>3, ResultTypes DEF IsJob, HeadAnswer
  <2>5. QED
    BY <1>1, <1>2, <2>1, <2>2, <2>4 DEF IsJob
<1>8. QED
  BY <1>3, <1>4, <1>5, <1>6, <1>7 DEF IoStep

(* The IO thread moves a block request from the command to the result queue. *)
LEMMA IoStepKeepsJobsInv ==
  ASSUME TypeOK, JobsInv, IoStep
  PROVE  JobsInv'
<1> DEFINE h == last_processed_height + 1
<1>1. /\ cmdQ # <<>> /\ cmdQ' = Tail(cmdQ)
      /\ UNCHANGED <<outbox, phase, chain_tip, last_processed_height>>
  BY IoStepJobs DEF procVars
<1>2. /\ LoneJob(msgQ, h) /\ LoneJob(cmdQ, h) /\ LoneJob(outbox, h)
      /\ JobsIn(msgQ) # {} => JobsIn(cmdQ) = {} /\ JobsIn(outbox) = {}
      /\ JobsIn(cmdQ) # {} => JobsIn(outbox) = {}
  BY DEF JobsInv, SingleFetch
<1>3. cmdQ \in Seq(IoCommand) /\ msgQ \in Seq(IoResult)
  BY DEF TypeOK
<1>4. /\ JobsIn(cmdQ) = {} => JobsIn(cmdQ') = {} /\ ~IsJob(Head(cmdQ))
      /\ LoneJob(cmdQ', h)
      /\ IsJob(Head(cmdQ)) => JobsIn(cmdQ') = {} /\ Head(cmdQ).height = h
      /\ JobsIn(cmdQ) # {} /\ ~IsJob(Head(cmdQ)) => JobsIn(cmdQ') # {}
  BY <1>1, <1>2, <1>3, TailJobs
<1>5. CASE msgQ' = msgQ /\ ~IsJob(Head(cmdQ))
  BY <1>1, <1>2, <1>4, <1>5 DEF JobsInv, SingleFetch, HasJob, Starting
<1>6. ASSUME NEW x \in IoResult, msgQ' = Append(msgQ, x),
             IsJob(x) <=> IsJob(Head(cmdQ)),
             IsJob(x) => x.height = Head(cmdQ).height
      PROVE  JobsInv'
  <2>1. /\ JobsIn(msgQ') = {} <=> JobsIn(msgQ) = {} /\ ~IsJob(x)
        /\ JobsIn(msgQ) = {} /\ (IsJob(x) => x.height = h) => LoneJob(msgQ', h)
        /\ LoneJob(msgQ, h) /\ ~IsJob(x) => LoneJob(msgQ', h)
    BY <1>3, <1>6, AppendJobs
  <2>2. QED
    BY <1>1, <1>2, <1>4, <1>6, <2>1 DEF JobsInv, SingleFetch, HasJob, Starting
<1>7. QED
  BY <1>5, <1>6, IoStepJobs

(* A handler starts with nothing left to send; the request it answers, if  *)
(* any, was the only one, so what it returns decides what is on its way.   *)
LEMMA ReceivedJobs ==
  ASSUME TypeOK, JobsInv, NEW kind, Receives(kind)
  PROVE  /\ outbox = <<>> /\ JobsIn(outbox) = {} /\ phase' = "send"
         /\ cmdQ' = cmdQ /\ LoneJob(cmdQ, last_processed_height + 1)
         /\ IsJob(Head(msgQ))
              => /\ JobsIn(msgQ') = {} /\ JobsIn(cmdQ) = {}
                 /\ Head(msgQ).height = last_processed_height + 1
                 /\ chain_tip > last_processed_height
         /\ ~IsJob(Head(msgQ))
              => /\ JobsIn(msgQ') = {} <=> JobsIn(msgQ) = {}
                 /\ LoneJob(msgQ', last_processed_height + 1)
                 /\ JobsIn(msgQ') # {} => JobsIn(cmdQ) = {}
                 /\ chain_tip > last_processed_height
                      <=> JobsIn(msgQ') # {} \/ JobsIn(cmdQ) # {}
<1> DEFINE h == last_processed_height + 1
<1>1. /\ msgQ # <<>> /\ msgQ' = Tail(msgQ) /\ msgQ \in Seq(IoResult)
      /\ phase = "receive" /\ phase' = "send" /\ cmdQ' = cmdQ
  BY DEF Receives, TypeOK
<1>2. /\ LoneJob(msgQ, h) /\ LoneJob(cmdQ, h)
      /\ JobsIn(msgQ) # {} => JobsIn(cmdQ) = {}
      /\ outbox = <<>>
  BY <1>1 DEF JobsInv, SingleFetch
<1>3. JobsIn(outbox) = {}
  BY <1>2, ShortJobs
<1>4. HasJob <=> JobsIn(msgQ) # {} \/ JobsIn(cmdQ) # {}
  BY <1>3 DEF HasJob
<1>5. /\ JobsIn(msgQ) = {} => JobsIn(msgQ') = {} /\ ~IsJob(Head(msgQ))
      /\ LoneJob(msgQ', h)
      /\ IsJob(Head(msgQ)) => JobsIn(msgQ') = {} /\ Head(msgQ).height = h
      /\ JobsIn(msgQ) # {} /\ ~IsJob(Head(msgQ)) => JobsIn(msgQ') # {}
  BY <1>1, <1>2, TailJobs
<1>6. QED
  BY <1>1, <1>2, <1>3, <1>4, <1>5 DEF JobsInv

(* What the handlers return.                                               *)
LEMMA ReturnedJobs ==
  ASSUME TypeOK, NEW h \in Heights
  PROVE  /\ JobsIn(NextFetch(h)) # {} <=> chain_tip > h
         /\ LoneJob(NextFetch(h), h + 1)
         /\ \A r : JobsIn(<<FetchBlock(h, r)>>) # {}
                   /\ LoneJob(<<FetchBlock(h, r)>>, h)
         /\ \A p : LET q == <<FetchBlockResults(h, p, 0)>> \o NextFetch(h)
                   IN  /\ JobsIn(q) # {} <=> chain_tip > h
                       /\ LoneJob(q, h + 1)
         /\ \A p, r : JobsIn(<<FetchBlockResults(h, p, r)>>) = {}
                      /\ LoneJob(<<FetchBlockResults(h, p, r)>>, h)
<1>1. \A g, r : IsJob(FetchBlock(g, r)) /\ FetchBlock(g, r).height = g
  BY DEF IsJob, FetchBlock
<1>2. \A p, r : ~IsJob(FetchBlockResults(h, p, r))
  BY DEF IsJob, FetchBlockResults
<1>3. ASSUME NEW x, NEW y
      PROVE  <<x>> \o <<>> = <<x>> /\ <<x>> \o <<y>> = <<x, y>>
  <2>1. <<x>> \in Seq({x, y}) /\ <<y>> \in Seq({x, y}) /\ <<>> \in Seq({x, y})
    OBVIOUS
  <2>2. <<x>> \o <<>> = <<x>>
    BY <2>1, ConcatEmptySeq
  <2>3. \A i \in 1..2 : (<<x>> \o <<y>>)[i] = <<x, y>>[i]
    BY <2>1, ConcatProperties
  <2>4. <<x>> \o <<y>> = <<x, y>>
    <3> DEFINE s == <<x>> \o <<y>>
               t == <<x, y>>
    <3>1. s \in Seq({x, y}) /\ Len(s) = 2
      BY <2>1, ConcatProperties
    <3>2. t \in Seq({x, y}) /\ Len(t) = 2
      OBVIOUS
    <3>3. \A i \in 1..Len(s) : s[i] = t[i]
      BY <2>3, <3>1
    <3> HIDE DEF s, t
    <3>4. s = t
      BY <3>1, <3>2, <3>3, SeqEqual
    <3>5. QED
      BY <3>4 DEF s, t
  <2>5. QED
    BY <2>2, <2>4
<1>4. \/ chain_tip > h /\ NextFetch(h) = <<FetchBlock(h + 1, 0)>>
      \/ ~(chain_tip > h) /\ NextFetch(h) = <<>>
  BY DEF NextFetch
<1>5. JobsIn(NextFetch(h)) # {} <=> chain_tip > h
  <2>1. JobsIn(<<FetchBlock(h + 1, 0)>>) # {} /\ JobsIn(<<>>) = {}
    BY <1>1, ShortJobs
  <2>2. QED
    BY <1>4, <2>1
<1>6. LoneJob(NextFetch(h), h + 1)
  <2>1. FetchBlock(h + 1, 0).height = h + 1
    BY <1>1
  <2>2. LoneJob(<<FetchBlock(h + 1, 0)>>, h + 1) /\ LoneJob(<<>>, h + 1)
    BY <2>1, ShortJobs
  <2>3. QED
    BY <1>4, <2>2
<1>7. ASSUME NEW r
      PROVE  JobsIn(<<FetchBlock(h, r)>>) # {} /\ LoneJob(<<FetchBlock(h, r)>>, h)
  BY <1>1, ShortJobs
<1>8. ASSUME NEW p
      PROVE  LET q == <<FetchBlockResults(h, p, 0)>> \o NextFetch(h)
             IN  /\ JobsIn(q) # {} <=> chain_tip > h
                 /\ LoneJob(q, h + 1)
  <2> DEFINE x == FetchBlockResults(h, p, 0)
             y == FetchBlock(h + 1, 0)
             q == <<x>> \o NextFetch(h)
  <2>1. ~IsJob(x) /\ IsJob(y) /\ y.height = h + 1
    BY <1>1, <1>2
  <2>2. \/ chain_tip > h /\ q = <<x, y>>
        \/ ~(chain_tip > h) /\ q = <<x>>
    BY <1>3, <1>4
  <2> HIDE DEF x, y, q
  <2>3. (JobsIn(q) # {} <=> chain_tip > h) /\ LoneJob(q, h + 1)
    BY <2>1, <2>2, ShortJobs
  <2>4. QED
    BY <2>3 DEF q, x
<1>9. ASSUME NEW p, NEW r
      PROVE  /\ JobsIn(<<FetchBlockResults(h, p, r)>>) = {}
             /\ LoneJob(<<FetchBlockResults(h, p, r)>>, h)
  BY <1>2, ShortJobs
<1>10. QED
  BY <1>5, <1>6, <1>7, <1>8, <1>9

(* Once the commands a handler returns are known, JobsInv is a matter of   *)
(* counting.                                                               *)
LEMMA JobHandled ==
  ASSUME TypeOK, JobsInv, NEW kind, Receives(kind), IsJob(Head(msgQ)),
         LoneJob(outbox', last_processed_height' + 1),
         JobsIn(outbox') # {} <=> chain_tip > last_processed_height',
         last_processed_height' \in
           {last_processed_height, last_processed_height + 1},
         chain_tip' = chain_tip
  PROVE  JobsInv'
<1>1. LoneJob(msgQ', last_processed_height' + 1)
      /\ LoneJob(cmdQ', last_processed_height' + 1)
  BY ReceivedJobs DEF LoneJob
<1>2. SingleFetch'
  BY <1>1, ReceivedJobs DEF SingleFetch
<1>3. chain_tip > last_processed_height
  BY ReceivedJobs
<1>4. HasJob' <=> JobsIn(outbox') # {}
  BY ReceivedJobs DEF HasJob
<1>5. chain_tip \in Nat /\ last_processed_height \in Nat
  BY DEF TypeOK
<1>6. Starting => chain_tip = 0
  BY DEF JobsInv
<1>7. phase' = "send"
  BY ReceivedJobs
<1>8. Starting' => chain_tip' = 0
  BY <1>3, <1>5, <1>6 DEF Starting
<1>9. QED
  BY <1>2, <1>3, <1>4, <1>5, <1>7, <1>8 DEF JobsInv

(* A handler that neither receives nor returns a block request, nor moves  *)
(* the cursor or the tip.                                                  *)
LEMMA OtherHandled ==
  ASSUME TypeOK, JobsInv, NEW kind, Receives(kind), ~IsJob(Head(msgQ)),
         JobsIn(outbox') = {},
         UNCHANGED <<chain_tip, last_processed_height>>
  PROVE  JobsInv'
<1>1. LoneJob(outbox', last_processed_height' + 1)
  BY DEF LoneJob
<1>2. SingleFetch'
  BY <1>1, ReceivedJobs DEF SingleFetch
<1>3. HasJob' <=> chain_tip > last_processed_height
  BY ReceivedJobs DEF HasJob
<1>4. QED
  BY <1>2, <1>3, ReceivedJobs DEF JobsInv, Starting

(* A head starts the chain of fetches exactly when none is under way.      *)
LEMMA HandleHeadKeepsJobsInv ==
  ASSUME TypeOK, JobsInv, HeadsInv, FirstHeight > 1, HandleHead
  PROVE  JobsInv'
<1> DEFINE n == Head(msgQ).height
<1>1. Receives("Head") /\ ~IsJob(Head(msgQ)) /\ n \in Heights
  BY ReceivedTypes, ResultFields DEF HandleHead, Receives, IsJob
<1>2. n >= FirstHeight /\ n >= chain_tip
  BY <1>1, ReceivedTypes, TailFacts DEF HeadsInv, Receives, TypeOK
<1>3. chain_tip \in Nat /\ last_processed_height \in Nat /\ n \in Nat
      /\ last_processed_height <= chain_tip
  BY <1>1 DEF TypeOK, Heights, JobsInv
<1>4. chain_tip' = n
  BY DEF HandleHead
<1>5. CASE Starting \/ CaughtUpBefore(n)
  <2>1. chain_tip = last_processed_height
    BY <1>3, <1>5 DEF JobsInv, Starting, CaughtUpBefore
  <2>2. JobsIn(msgQ') = {} /\ JobsIn(cmdQ') = {}
    BY <1>1, <1>3, <2>1, ReceivedJobs
  <2>3. /\ last_processed_height' \in Nat /\ last_processed_height' # 0
        /\ n > last_processed_height'
        /\ outbox' = <<FetchBlock(last_processed_height' + 1, 0)>>
    BY <1>2, <1>3, <1>5 DEF HandleHead, Starting, CaughtUpBefore, JobsInv
  <2>4. JobsIn(outbox') # {} /\ LoneJob(outbox', last_processed_height' + 1)
    BY <2>3, ReturnedJobs DEF Heights
  <2>5. LoneJob(msgQ', last_processed_height' + 1)
        /\ LoneJob(cmdQ', last_processed_height' + 1)
    BY <2>2 DEF LoneJob
  <2>6. SingleFetch'
    BY <2>2, <2>4, <2>5 DEF SingleFetch
  <2>7. HasJob'
    BY <2>4 DEF HasJob
  <2>8. phase' = "send"
    BY <1>1, ReceivedJobs
  <2>9. QED
    BY <1>3, <1>4, <2>3, <2>6, <2>7, <2>8 DEF JobsInv, Starting
<1>6. CASE ~Starting /\ ~CaughtUpBefore(n)
  <2>1. outbox' = <<>> /\ last_processed_height' = last_processed_height
    BY <1>6 DEF HandleHead
  <2>2. JobsIn(outbox') = {} /\ LoneJob(outbox', last_processed_height' + 1)
    BY <2>1, ShortJobs
  <2>3. SingleFetch'
    BY <1>1, <2>1, <2>2, ReceivedJobs DEF SingleFetch
  <2>4. n > last_processed_height <=> chain_tip > last_processed_height
    BY <1>2, <1>3, <1>6 DEF CaughtUpBefore
  <2>5. HasJob' <=> chain_tip > last_processed_height
    BY <1>1, <2>2, ReceivedJobs DEF HasJob
  <2>6. n >= last_processed_height /\ phase' = "send"
    BY <1>1, <1>2, <1>3, ReceivedJobs
  <2>7. QED
    BY <1>3, <1>4, <1>6, <2>1, <2>3, <2>4, <2>5, <2>6 DEF JobsInv, Starting
<1>7. QED
  BY <1>5, <1>6 DEF HandleHead

(* Every handler continues the chain of fetches or ends it at the tip.     *)
LEMMA ProcessingStepKeepsJobsInv ==
  ASSUME TypeOK, JobsInv, HeadsInv, FirstHeight > 1, ProcessingStep
  PROVE  JobsInv'
<1> DEFINE m == Head(msgQ)
<1>0. chain_tip \in Nat /\ last_processed_height \in Nat
  BY DEF TypeOK
<1>1. CASE HandleFetchError
  <2>1. Receives("FetchError") /\ IsJob(m) /\ m.height \in Heights
    BY <1>1, ReceivedTypes, ResultFields DEF HandleFetchError, IsJob
  <2>2. /\ m.height = last_processed_height + 1
        /\ chain_tip > last_processed_height /\ chain_tip' = chain_tip
    BY <1>1, <2>1, ReceivedJobs DEF HandleFetchError
  <2>3. CASE MayRetry(m.retries)
    <3>1. /\ outbox' = <<FetchBlock(m.height, m.retries + 1)>>
          /\ last_processed_height' = last_processed_height
      BY <1>1, <2>3 DEF HandleFetchError
    <3>2. JobsIn(outbox') # {} /\ LoneJob(outbox', m.height)
      BY <2>1, <3>1, ReturnedJobs
    <3>3. QED
      BY <2>1, <2>2, <3>1, <3>2, JobHandled
  <2>4. CASE ~MayRetry(m.retries)
    <3>1. /\ outbox' = NextFetch(m.height)
          /\ last_processed_height' = m.height
      BY <1>1, <2>4 DEF HandleFetchError
    <3>2. /\ JobsIn(outbox') # {} <=> chain_tip > m.height
          /\ LoneJob(outbox', m.height + 1)
      BY <2>1, <3>1, ReturnedJobs
    <3>3. QED
      BY <2>1, <2>2, <3>1, <3>2, JobHandled
  <2>5. QED
    BY <2>3, <2>4
<1>2. CASE HandleFetchBlockResultsError
  <2>1. /\ Receives("FetchBlockResultsError") /\ ~IsJob(m)
        /\ m.height \in Heights
    BY <1>2, ReceivedTypes, ResultFields
       DEF HandleFetchBlockResultsError, IsJob
  <2>2. JobsIn(outbox') = {}
    BY <1>2, <2>1, ReturnedJobs, ShortJobs DEF HandleFetchBlockResultsError
  <2>3. QED
    BY <1>2, <2>1, <2>2, OtherHandled DEF HandleFetchBlockResultsError
<1>3. CASE HandleFetchChainListError
  <2>1. Receives("FetchChainListError") /\ ~IsJob(m)
    BY <1>3 DEF HandleFetchChainListError, Receives, IsJob
  <2>2. ~IsJob(FetchChainList)
    BY DEF IsJob, FetchChainList
  <2>3. JobsIn(outbox') = {}
    BY <1>3, <2>2, ShortJobs DEF HandleFetchChainListError
  <2>4. QED
    BY <1>3, <2>1, <2>3, OtherHandled DEF HandleFetchChainListError
<1>4. CASE HandleChainList
  <2>1. Receives("ChainList") /\ ~IsJob(m)
    BY <1>4 DEF HandleChainList, Receives, IsJob
  <2>2. \A i \in DOMAIN outbox' : ~IsJob(outbox'[i])
    BY <1>4 DEF HandleChainList, IsJob, FetchChainParams
  <2>3. JobsIn(outbox') = {}
    BY <2>2 DEF JobsIn
  <2>4. QED
    BY <1>4, <2>1, <2>3, OtherHandled DEF HandleChainList, procVars
<1>5. CASE HandleChainParams \/ HandleBlockResults
  <2>1. PICK kind \in {"ChainParams", "BlockResults"} : Receives(kind)
    BY <1>5 DEF HandleChainParams, HandleBlockResults
  <2>2. ~IsJob(m)
    BY <2>1 DEF Receives, IsJob
  <2>3. JobsIn(outbox') = {} /\ UNCHANGED <<chain_tip, last_processed_height>>
    BY <1>5, ShortJobs DEF HandleChainParams, HandleBlockResults, procVars
  <2>4. QED
    BY <2>1, <2>2, <2>3, OtherHandled
<1>6. ASSUME NEW creations \in PollLists, HandleBlock(creations)
      PROVE  JobsInv'
  <2>1. Receives("Block") /\ IsJob(m) /\ m.height \in Heights
    BY <1>6, ReceivedTypes, ResultFields DEF HandleBlock, IsJob
  <2>2. /\ m.height = last_processed_height + 1
        /\ last_processed_height' = m.height
        /\ chain_tip > last_processed_height /\ chain_tip' = chain_tip
    BY <1>6, <2>1, ReceivedJobs DEF HandleBlock
  <2>3. \/ outbox' = <<>> \o NextFetch(m.height)
        \/ outbox' = <<FetchBlockResults(m.height, creations, 0)>>
                       \o NextFetch(m.height)
    BY <1>6 DEF HandleBlock, BlockResponses, ResultsFetch
  <2>4. <<>> \o NextFetch(m.height) = NextFetch(m.height)
    BY <2>1, NextFetchType, ConcatEmptySeq
  <2>5. /\ JobsIn(outbox') # {} <=> chain_tip > m.height
        /\ LoneJob(outbox', m.height + 1)
    BY <2>1, <2>3, <2>4, ReturnedJobs
  <2>6. QED
    BY <2>1, <2>2, <2>5, JobHandled
<1>7. CASE HandleHead
  BY <1>7, HandleHeadKeepsJobsInv
<1>8. CASE SendCommand
  <2> DEFINE h == last_processed_height + 1
             x == Head(outbox)
  <2>1. /\ cmdQ \in Seq(IoCommand) /\ outbox \in Seq(IoCommand)
        /\ outbox # <<>> /\ x \in IoCommand
        /\ cmdQ' = Append(cmdQ, x) /\ outbox' = Tail(outbox)
        /\ UNCHANGED <<msgQ, phase, chain_tip, last_processed_height>>
        /\ phase = "send"
    BY <1>8, TailFacts DEF SendCommand, TypeOK, procVars
  <2>2. /\ LoneJob(msgQ, h) /\ LoneJob(cmdQ, h) /\ LoneJob(outbox, h)
        /\ JobsIn(msgQ) # {} => JobsIn(cmdQ) = {} /\ JobsIn(outbox) = {}
        /\ JobsIn(cmdQ) # {} => JobsIn(outbox) = {}
    BY DEF JobsInv, SingleFetch
  <2>3. /\ JobsIn(outbox) = {} => JobsIn(outbox') = {} /\ ~IsJob(x)
        /\ LoneJob(outbox', h)
        /\ IsJob(x) => JobsIn(outbox') = {} /\ x.height = h
        /\ JobsIn(outbox) # {} /\ ~IsJob(x) => JobsIn(outbox') # {}
    BY <2>1, <2>2, TailJobs
  <2>4. /\ JobsIn(cmdQ') = {} <=> JobsIn(cmdQ) = {} /\ ~IsJob(x)
        /\ JobsIn(cmdQ) = {} /\ (IsJob(x) => x.height = h) => LoneJob(cmdQ', h)
        /\ LoneJob(cmdQ, h) /\ ~IsJob(x) => LoneJob(cmdQ', h)
    BY <2>1, AppendJobs
  <2>5. QED
    BY <2>1, <2>2, <2>3, <2>4 DEF JobsInv, SingleFetch, HasJob, Starting
<1>9. CASE PublishMetrics
  BY <1>9 DEF PublishMetrics, procVars, JobsInv, SingleFetch, HasJob, Starting
<1>10. QED
  BY <1>1, <1>2, <1>3, <1>4, <1>5, <1>6, <1>7, <1>8, <1>9 DEF ProcessingStep

(* A head the IO thread appends is not below the ones that wait before it. *)
LEMMA HeadAnswersRise ==
  ASSUME TypeOK, Regress = 0, IoStep
  PROVE  /\ UNCHANGED chain_tip
         /\ \/ msgQ' = msgQ /\ served' = served
            \/ \E x \in IoResult :
                 /\ msgQ' = Append(msgQ, x)
                 /\ \/ x.kind # "Head" /\ served' = served
                    \/ /\ x.height = served' /\ served' \in Nat
                       /\ served' >= served /\ served' >= FirstHeight
<1>1. UNCHANGED chain_tip
  BY IoStepJobs DEF procVars
<1>2. msgQ' = msgQ \/ \E x \in IoResult : msgQ' = Append(msgQ, x)
  BY IoStepJobs
<1>3. CASE IoFetchHead
  <2>1. CASE UNCHANGED <<msgQ, served>>
    BY <1>1, <2>1
  <2>2. ASSUME NEW n \in HeadsServed, Yields(HeadAnswer(n)),
               served' = IF n > served THEN n ELSE served
        PROVE  \E x \in IoResult :
                 /\ msgQ' = Append(msgQ, x)
                 /\ x.height = served' /\ served' \in Nat
                 /\ served' >= served /\ served' >= FirstHeight
    <3>1. n \in Nat /\ n >= FirstHeight /\ n >= served /\ n \in Heights
      BY DEF HeadsServed, TypeOK, Heights
    <3>2. served' = n
      BY <2>2, <3>1 DEF TypeOK, Heights
    <3>3. HeadAnswer(n) \in IoResult /\ HeadAnswer(n).height = n
      BY <3>1, ResultTypes DEF HeadAnswer
    <3>4. QED
      BY <2>2, <3>1, <3>2, <3>3 DEF Yields
  <2>3. QED
    BY <1>1, <1>3, <2>1, <2>2 DEF IoFetchHead
<1>4. CASE ~IoFetchHead
  <2>1. served' = served
    BY <1>4 DEF IoStep, IoFetchBlock, IoFetchBlockResults, IoFetchChainList,
         IoFetchChainParams
  <2>2. ASSUME NEW x, msgQ' = Append(msgQ, x)
        PROVE  x.kind # "Head"
    <3> DEFINE c == Head(cmdQ)
               X == {Block(c.height), FetchError(c.height, c.retries),
                     BlockResults(c.height, c.polls),
                     FetchBlockResultsError(c.height, c.polls, c.retries),
                     ChainListAnswer, FetchChainListError, ChainParams(c.chain)}
    <3>1. msgQ' = msgQ \/ \E y \in X : msgQ' = Append(msgQ, y)
      BY <1>4 DEF IoStep, IoFetchBlock, IoFetchBlockResults, IoFetchChainList,
           IoFetchChainParams, Yields
    <3>2. \A y \in X : y.kind # "Head"
      BY DEF Block, FetchError, BlockResults, FetchBlockResultsError,
           ChainListAnswer, FetchChainListError, ChainParams
    <3>3. msgQ \in Seq(IoResult)
      BY DEF TypeOK
    <3> HIDE DEF X
    <3>4. QED
      BY <2>2, <3>1, <3>2, <3>3
  <2>3. QED
    BY <1>1, <1>2, <2>1, <2>2
<1>5. QED
  BY <1>3, <1>4

(* No step puts the head answers out of order.                             *)
LEMMA NextKeepsHeadsInv ==
  ASSUME TypeOK, HeadsInv, Regress = 0, Next
  PROVE  HeadsInv'
<1>0. /\ served \in Nat /\ chain_tip \in Nat /\ msgQ \in Seq(IoResult)
      /\ \A i \in DOMAIN msgQ : i \in Nat /\ i <= Len(msgQ)
           /\ (msgQ[i].kind = "Head" => msgQ[i].height \in Nat)
  BY ResultFields DEF TypeOK, Heights
<1>1. CASE UNCHANGED <<msgQ, chain_tip, served>>
  BY <1>1 DEF HeadsInv
<1>2. CASE IoStep
  <2>1. CASE msgQ' = msgQ /\ served' = served
    BY <1>1, <1>2, <2>1, HeadAnswersRise
  <2>2. ASSUME NEW x \in IoResult, msgQ' = Append(msgQ, x),
               x.kind # "Head", served' = served
        PROVE  HeadsInv'
    BY <1>0, <1>2, <2>2, HeadAnswersRise, AppendFacts DEF HeadsInv
  <2>3. ASSUME NEW x \in IoResult, msgQ' = Append(msgQ, x),
               x.height = served', served' \in Nat,
               served' >= served, served' >= FirstHeight
        PROVE  HeadsInv'
    <3>1. /\ DOMAIN msgQ' = DOMAIN msgQ \cup {Len(msgQ) + 1}
          /\ msgQ'[Len(msgQ) + 1] = x
          /\ \A i \in DOMAIN msgQ : msgQ'[i] = msgQ[i]
          /\ chain_tip' = chain_tip
          /\ Len(msgQ) \in Nat
      BY <1>0, <1>2, <2>3, HeadAnswersRise, AppendFacts
    <3>2. chain_tip' <= served' /\ FirstHeight <= served'
      BY <1>0, <2>3, <3>1 DEF HeadsInv
    <3>3. \A i \in DOMAIN msgQ' : msgQ'[i].kind = "Head"
            => /\ FirstHeight <= msgQ'[i].height
               /\ chain_tip' <= msgQ'[i].height /\ msgQ'[i].height <= served'
      BY <1>0, <2>3, <3>1, <3>2 DEF HeadsInv
    <3>4. \A i, j \in DOMAIN msgQ' :
            i < j /\ msgQ'[i].kind = "Head" /\ msgQ'[j].kind = "Head"
              => msgQ'[i].height <= msgQ'[j].height
      BY <1>0, <2>3, <3>1, <3>3 DEF HeadsInv
    <3>5. QED
      BY <3>2, <3>3, <3>4 DEF HeadsInv
  <2>4. QED
    BY <1>2, <2>1, <2>2, <2>3, HeadAnswersRise
<1>3. ASSUME NEW kind, Receives(kind),
             \/ chain_tip' = chain_tip
             \/ chain_tip' = Head(msgQ).height /\ kind = "Head"
      PROVE  HeadsInv'
  <2>1. /\ msgQ # <<>> /\ msgQ' = Tail(msgQ) /\ Head(msgQ) = msgQ[1]
        /\ 1 \in DOMAIN msgQ /\ msgQ[1].kind = kind /\ served' = served
        /\ \A i \in DOMAIN msgQ' : /\ i + 1 \in DOMAIN msgQ /\ i \in Nat \ {0}
                                   /\ msgQ'[i] = msgQ[i + 1]
    BY <1>0, <1>3, TailFacts DEF Receives, envVars
  <2>2. /\ chain_tip' <= served
        /\ \A i \in DOMAIN msgQ' : msgQ'[i].kind = "Head"
             => chain_tip' <= msgQ'[i].height
    <3>1. CASE chain_tip' = chain_tip
      BY <1>0, <2>1, <3>1 DEF HeadsInv
    <3>2. CASE chain_tip' = msgQ[1].height /\ msgQ[1].kind = "Head"
      <4>1. chain_tip' <= served
        BY <1>0, <2>1, <3>2 DEF HeadsInv
      <4>2. ASSUME NEW i \in DOMAIN msgQ', msgQ'[i].kind = "Head"
            PROVE  chain_tip' <= msgQ'[i].height
        <5>1. i + 1 \in DOMAIN msgQ /\ 1 < i + 1 /\ msgQ'[i] = msgQ[i + 1]
          BY <2>1
        <5>2. QED
          BY <2>1, <3>2, <4>2, <5>1 DEF HeadsInv
      <4>3. QED
        BY <4>1, <4>2
    <3>3. QED
      BY <1>3, <2>1, <3>1, <3>2
  <2>3. /\ \A i \in DOMAIN msgQ' : msgQ'[i].kind = "Head"
             => FirstHeight <= msgQ'[i].height /\ msgQ'[i].height <= served
        /\ \A i, j \in DOMAIN msgQ' :
             i < j /\ msgQ'[i].kind = "Head" /\ msgQ'[j].kind = "Head"
               => msgQ'[i].height <= msgQ'[j].height
    BY <1>0, <2>1 DEF HeadsInv
  <2>4. QED
    BY <2>1, <2>2, <2>3 DEF HeadsInv
<1>4. CASE ProcessingStep /\ ~HandleHead
  <2>1. CASE SendCommand \/ PublishMetrics
    BY <1>1, <2>1 DEF SendCommand, PublishMetrics, procVars, envVars
  <2>2. CASE ~(SendCommand \/ PublishMetrics)
    <3>1. \E kind \in {"FetchError", "FetchBlockResultsError", "Block",
                       "FetchChainListError", "ChainList", "ChainParams",
                       "BlockResults"} : Receives(kind)
      BY <1>4, <2>2 DEF ProcessingStep, HandleFetchError,
           HandleFetchBlockResultsError, HandleFetchChainListError,
           HandleChainList, HandleChainParams, HandleBlock, HandleBlockResults
    <3>2. chain_tip' = chain_tip
      BY <1>4, <2>2 DEF ProcessingStep, HandleFetchError,
           HandleFetchBlockResultsError, HandleFetchChainListError,
           HandleChainList, HandleChainParams, HandleBlock, HandleBlockResults,
           procVars
    <3>3. QED
      BY <1>3, <3>1, <3>2
  <2>3. QED
    BY <2>1, <2>2
<1>5. CASE HandleHead
  BY <1>3, <1>5 DEF HandleHead
<1>6. CASE FeederTick
  BY <1>1, <1>6 DEF FeederTick, procVars, envVars
<1>7. QED
  BY <1>2, <1>4, <1>5, <1>6 DEF Next

(* Every step keeps the counters in order, and none of them falls.         *)
LEMMA NextKeepsCountersInv ==
  ASSUME TypeOK, JobsInv, HeadsInv, CountersInv, FirstHeight > 1, Next
  PROVE  /\ CountersInv'
         /\ chain_height' >= chain_height
         /\ last_processed_height' >= last_processed_height
         /\ fetch_error_count' >= fetch_error_count
<1>0. /\ chain_tip \in Nat /\ last_processed_height \in Nat
      /\ chain_height \in Nat /\ fetch_error_count \in Nat
      /\ snapshot.chain_height \in Nat
      /\ snapshot.last_processed_height \in Nat
      /\ snapshot.fetch_error_count \in Nat
  BY DEF TypeOK
<1>1. CASE UNCHANGED <<procVars, snapshot>>
  BY <1>0, <1>1 DEF procVars, CountersInv
<1>2. CASE PublishMetrics
  BY <1>0, <1>2 DEF PublishMetrics, Metrics, procVars, CountersInv
<1>3. ASSUME UNCHANGED snapshot,
             chain_height' \in Nat, chain_height' <= last_processed_height',
             chain_height' >= chain_height,
             last_processed_height' \in Nat,
             last_processed_height' >= last_processed_height,
             fetch_error_count' \in {fetch_error_count, fetch_error_count + 1}
      PROVE  CountersInv' /\ fetch_error_count' >= fetch_error_count
  BY <1>0, <1>3 DEF CountersInv
<1>4. CASE HandleFetchError
  <2>1. Receives("FetchError") /\ IsJob(Head(msgQ))
    BY <1>4 DEF HandleFetchError, Receives, IsJob
  <2>2. last_processed_height' \in
          {last_processed_height, last_processed_height + 1}
    BY <1>4, <2>1, ReceivedJobs DEF HandleFetchError
  <2>3. QED
    BY <1>0, <1>3, <1>4, <2>1, <2>2
       DEF HandleFetchError, Receives, CountersInv
<1>5. CASE HandleFetchBlockResultsError \/ HandleFetchChainListError
  BY <1>0, <1>3, <1>5 DEF HandleFetchBlockResultsError,
     HandleFetchChainListError, Receives, CountersInv
<1>6. ASSUME NEW creations \in PollLists, HandleBlock(creations)
      PROVE  /\ CountersInv'
             /\ chain_height' >= chain_height
             /\ last_processed_height' >= last_processed_height
             /\ fetch_error_count' >= fetch_error_count
  <2>1. Receives("Block") /\ IsJob(Head(msgQ))
    BY <1>6 DEF HandleBlock, Receives, IsJob
  <2>2. /\ last_processed_height' = last_processed_height + 1
        /\ chain_height' = last_processed_height + 1
        /\ UNCHANGED <<snapshot, fetch_error_count>>
    BY <1>0, <1>6, <2>1, ReceivedJobs DEF HandleBlock, Receives, CountersInv
  <2>3. QED
    BY <1>0, <1>3, <2>2 DEF CountersInv
<1>7. CASE HandleHead
  <2>1. Receives("Head") /\ Head(msgQ).height \in Nat
    BY <1>7, ReceivedTypes, ResultFields DEF HandleHead, Heights
  <2>2. last_processed_height' \in Nat
        /\ last_processed_height' >= last_processed_height
    BY <1>0, <1>7, <2>1, ReceivedTypes, ResultFields
       DEF HandleHead, Starting, Heights
  <2>3. UNCHANGED <<snapshot, chain_height, fetch_error_count>>
    BY <1>7, <2>1 DEF HandleHead, Receives
  <2>4. QED
    BY <1>0, <1>3, <2>2, <2>3 DEF CountersInv
<1>8. UNCHANGED <<procVars, snapshot>> \/ PublishMetrics \/ HandleFetchError
      \/ HandleFetchBlockResultsError \/ HandleFetchChainListError
      \/ (\E creations \in PollLists : HandleBlock(creations)) \/ HandleHead
  BY DEF Next, FeederTick, IoStep, IoFetchBlock, IoFetchBlockResults,
         IoFetchChainList, IoFetchChainParams, IoFetchHead, Executes,
         ProcessingStep, HandleChainList, HandleChainParams,
         HandleBlockResults, SendCommand, Receives
<1>9. QED
  BY <1>0, <1>1, <1>2, <1>4, <1>5, <1>6, <1>7, <1>8

----------------------------------------------------------------------------
(* The theorems.                                                           *)

(* PipelineInv is inductive, whatever fails, for a steady node.            *)
LEMMA InvariantHolds ==
  ASSUME SteadyNode
  PROVE  Spec => []PipelineInv
<1>1. Regress = 0 /\ FirstHeight > 1
  BY DEF SteadyNode
<1>2. Init => PipelineInv
  <2> SUFFICES ASSUME Init PROVE PipelineInv
    OBVIOUS
  <2>1. TypeOK
    BY SequenceTypes, CommandTypes DEF Init, TypeOK, Metrics, Heights
  <2>2. JobsIn(msgQ) = {} /\ JobsIn(cmdQ) = {} /\ JobsIn(outbox) = {}
    BY ShortJobs DEF Init, IsJob, FetchChainList
  <2>3. JobsInv
    BY <2>2 DEF Init, JobsInv, SingleFetch, LoneJob, HasJob, Starting
  <2>4. HeadsInv
    BY DEF Init, HeadsInv
  <2>5. CountersInv
    BY DEF Init, CountersInv, Metrics
  <2>6. QED
    BY <2>1, <2>3, <2>4, <2>5 DEF PipelineInv
<1>3. PipelineInv /\ [Next]_vars => PipelineInv'
  <2> SUFFICES ASSUME PipelineInv, [Next]_vars PROVE PipelineInv'
    OBVIOUS
  <2> USE DEF PipelineInv
  <2>1. CASE Next
    <3>1. TypeOK'
      <4>1. CASE FeederTick
        BY <4>1, AppendFacts, CommandTypes
           DEF FeederTick, TypeOK, procVars, envVars
      <4>2. QED
        BY <2>1, <4>1, IoStepTypes, ProcessingStepTypes DEF Next
    <3>2. JobsInv'
      <4>1. CASE FeederTick
        <5>1. /\ cmdQ \in Seq(IoCommand) /\ cmdQ' = Append(cmdQ, FetchHead)
              /\ UNCHANGED <<msgQ, outbox, phase, chain_tip,
                             last_processed_height>>
          BY <4>1 DEF FeederTick, TypeOK, procVars
        <5>2. FetchHead \in IoCommand /\ ~IsJob(FetchHead)
          BY CommandTypes DEF IsJob, FetchHead
        <5>3. /\ JobsIn(cmdQ') = {} <=> JobsIn(cmdQ) = {}
              /\ LoneJob(cmdQ, last_processed_height + 1)
                   => LoneJob(cmdQ', last_processed_height + 1)
          BY <5>1, <5>2, AppendJobs
        <5>4. QED
          BY <5>1, <5>3 DEF JobsInv, SingleFetch, HasJob, Starting
      <4>2. QED
        BY <1>1, <2>1, <4>1, IoStepKeepsJobsInv, ProcessingStepKeepsJobsInv
           DEF Next
    <3>3. HeadsInv' /\ CountersInv'
      BY <1>1, <2>1, NextKeepsHeadsInv, NextKeepsCountersInv
    <3>4. QED
      BY <3>1, <3>2, <3>3
  <2>2. CASE UNCHANGED vars
    BY <2>2 DEF vars, procVars, envVars, TypeOK, JobsInv, SingleFetch, HasJob,
         Starting, HeadsInv, CountersInv
  <2>3. QED
    BY <2>1, <2>2
<1>4. QED
  BY <1>2, <1>3, PTL DEF Spec

(* However the threads interleave and whatever fails, at most one block    *)
(* request is outstanding, and it is for the next block.                   *)
THEOREM AtMostOneFetch ==
  ASSUME SteadyNode
  PROVE  Spec => []SingleFetch
<1>1. PipelineInv => SingleFetch
  BY DEF PipelineInv, JobsInv
<1>2. QED
  BY <1>1, InvariantHolds, PTL

(* The fetch loop never loses its thread: a known unprocessed block is     *)
(* always being fetched.                                                   *)
THEOREM FollowerNeverStranded ==
  ASSUME SteadyNode
  PROVE  Spec => []NeverStranded
<1>1. PipelineInv => NeverStranded
  BY DEF PipelineInv, JobsInv, HasJob, NeverStranded
<1>2. QED
  BY <1>1, InvariantHolds, PTL

(* Blocks reach the handler in order, none twice.                          *)
THEOREM BlocksInOrder ==
  ASSUME SteadyNode
  PROVE  Spec => InOrderOnce
<1>1. PipelineInv /\ [Next]_vars
        => [\A h \in 0..MaxHeight :
              BlockArrives(h) => last_processed_height = h - 1
                                 /\ last_processed_height' = h]_vars
  <2> SUFFICES ASSUME PipelineInv, Next, NEW h \in 0..MaxHeight,
                      BlockArrives(h)
               PROVE  last_processed_height = h - 1
                      /\ last_processed_height' = h
    OBVIOUS
  <2>1. Head(msgQ).kind = "Block" /\ Head(msgQ).height = h
    BY DEF BlockArrives, Block
  <2>2. \E creations \in PollLists : HandleBlock(creations)
    BY <2>1 DEF BlockArrives, Next, FeederTick, IoStep, IoFetchBlock,
       IoFetchBlockResults, IoFetchChainList, IoFetchChainParams, IoFetchHead,
       Executes, ProcessingStep, HandleFetchError,
       HandleFetchBlockResultsError, HandleFetchChainListError,
       HandleChainList, HandleChainParams, HandleBlockResults, HandleHead,
       Receives, SendCommand, PublishMetrics
  <2>3. Receives("Block") /\ IsJob(Head(msgQ)) /\ last_processed_height' = h
    BY <2>1, <2>2 DEF HandleBlock, IsJob
  <2>4. h = last_processed_height + 1
    BY <2>1, <2>3, ReceivedJobs DEF PipelineInv
  <2>5. QED
    BY <2>3, <2>4 DEF PipelineInv, TypeOK
<1>2. QED
  BY <1>1, InvariantHolds, PTL DEF Spec, InOrderOnce

(* The published counters never fall.                                      *)
THEOREM PublishedCountersRise ==
  ASSUME SteadyNode
  PROVE  Spec => CountersNeverFall
<1>1. PipelineInv /\ [Next]_vars
        => [\A f \in DOMAIN snapshot : snapshot'[f] >= snapshot[f]]_snapshot
  <2> SUFFICES ASSUME PipelineInv, [Next]_vars, snapshot' # snapshot,
                      NEW f \in DOMAIN snapshot
               PROVE  snapshot'[f] >= snapshot[f]
    OBVIOUS
  <2>1. PublishMetrics
    BY DEF Next, FeederTick, IoStep, IoFetchBlock, IoFetchBlockResults,
       IoFetchChainList, IoFetchChainParams, IoFetchHead, Executes,
       ProcessingStep, HandleFetchError, HandleFetchBlockResultsError,
       HandleFetchChainListError, HandleChainList, HandleChainParams,
       HandleBlock, HandleBlockResults, HandleHead, Receives, SendCommand, vars
  <2>2. f \in {"chain_height", "last_processed_height", "fetch_error_count"}
    BY DEF PipelineInv, TypeOK
  <2>3. QED
    BY <2>1, <2>2 DEF PublishMetrics, Metrics, PipelineInv, CountersInv
<1>2. QED
  BY <1>1, InvariantHolds, PTL DEF Spec, CountersNeverFall

(* The pump implements the abstract stream: tips rise, the first one fixes *)
(* the start, and blocks are taken one at a time up to the tip.            *)
THEOREM PipelineImplementsBlockStream ==
  ASSUME SteadyNode
  PROVE  Spec => Stream!Spec
<1>1. Init => Stream!Init
  BY DEF Init, Stream!Init
<1>2. PipelineInv /\ [Next]_vars => [Stream!Next]_Stream!vars
  <2> SUFFICES ASSUME PipelineInv, [Next]_vars
               PROVE  Stream!Next
                      \/ UNCHANGED <<chain_tip, last_processed_height>>
    BY DEF Stream!vars
  <2>0. /\ chain_tip \in Nat /\ last_processed_height \in Nat
        /\ last_processed_height <= chain_tip
        /\ last_processed_height = 0 => chain_tip = 0
    BY DEF PipelineInv, TypeOK, JobsInv, Starting
  <2>1. CASE \/ HandleFetchError
             \/ \E creations \in PollLists : HandleBlock(creations)
    <3>1. PICK kind \in {"FetchError", "Block"} : Receives(kind)
      BY <2>1 DEF HandleFetchError, HandleBlock
    <3>2. IsJob(Head(msgQ))
      BY <3>1 DEF Receives, IsJob
    <3>3. /\ Head(msgQ).height = last_processed_height + 1
          /\ last_processed_height < chain_tip
      BY <2>0, <3>1, <3>2, ReceivedJobs DEF PipelineInv
    <3>4. /\ chain_tip' = chain_tip
          /\ last_processed_height' \in
               {last_processed_height, last_processed_height + 1}
      BY <2>1, <3>3 DEF HandleFetchError, HandleBlock
    <3>5. QED
      BY <3>3, <3>4 DEF Stream!Next, Stream!Take
  <2>2. CASE HandleHead
    <3> DEFINE n == Head(msgQ).height
    <3>1. /\ Receives("Head") /\ msgQ # <<>> /\ Head(msgQ).kind = "Head"
          /\ Head(msgQ) = msgQ[1] /\ 1 \in DOMAIN msgQ
      BY <2>2, TailFacts DEF HandleHead, Receives, PipelineInv, TypeOK
    <3>2. n \in Nat /\ n > 1 /\ n >= chain_tip
      BY <2>0, <3>1, ReceivedTypes, ResultFields
         DEF PipelineInv, HeadsInv, SteadyNode, Heights
    <3>3. CASE Starting
      BY <2>0, <2>2, <3>2, <3>3
         DEF HandleHead, Starting, Stream!Next, Stream!Start
    <3>4. CASE ~Starting
      BY <2>0, <2>2, <3>2, <3>4
         DEF HandleHead, Starting, Stream!Next, Stream!Learn
    <3>5. QED
      BY <3>3, <3>4
  <2>3. QED
    BY <2>1, <2>2 DEF Next, FeederTick, IoStep, IoFetchBlock,
       IoFetchBlockResults, IoFetchChainList, IoFetchChainParams, IoFetchHead,
       Executes, ProcessingStep, HandleFetchBlockResultsError,
       HandleFetchChainListError, HandleChainList, HandleChainParams,
       HandleBlockResults, SendCommand, PublishMetrics, vars, procVars
<1>3. QED
  BY <1>1, <1>2, InvariantHolds, PTL DEF Spec, Stream!Spec
=============================================================================
