---------------------------- MODULE ThreadsProofs ----------------------------
(***************************************************************************)
(* Proofs about the life of the threads, for every value of the constants: *)
(* whatever the node answers and whichever thread dies, the process is a   *)
(* pump that may stop.                                                     *)
(***************************************************************************)
EXTENDS Threads, FetchPipelineProofs

----------------------------------------------------------------------------
(* Start-up.                                                               *)

(* The order of the steps, as numbers.                                     *)
LEMMA StepNumbers ==
  /\ Len(StartOrder) = 6
  /\ \A i \in 1..6 : StartOrder[i] = "config" <=> i = 1
  /\ \A i \in 1..6 : StartOrder[i] = "io" <=> i = 2
  /\ \A i \in 1..6 : StartOrder[i] = "chain_list" <=> i = 3
  /\ \A i \in 1..6 : StartOrder[i] = "feeder" <=> i = 4
  /\ \A i \in 1..6 : StartOrder[i] = "server" <=> i = 5
  /\ \A i \in 1..6 : StartOrder[i] = "loop" <=> i = 6
<1>1. /\ Len(StartOrder) = 6
      /\ StartOrder[1] = "config" /\ StartOrder[2] = "io"
      /\ StartOrder[3] = "chain_list" /\ StartOrder[4] = "feeder"
      /\ StartOrder[5] = "server" /\ StartOrder[6] = "loop"
  BY DEF StartOrder
<1>2. QED
  BY <1>1

(* A step with number k is done after n steps exactly when k <= n.         *)
LEMMA StepsDone ==
  ASSUME NEW n \in 0..6, NEW k \in 1..6, NEW step,
         \A i \in 1..6 : StartOrder[i] = step <=> i = k
  PROVE  step \in {StartOrder[i] : i \in 1..n} <=> k <= n
<1>1. step \in {StartOrder[i] : i \in 1..n} <=> \E i \in 1..n : StartOrder[i] = step
  BY Zenon
<1>2. \A i \in 1..n : i \in 1..6
  OBVIOUS
<1>3. k <= n <=> k \in 1..n
  OBVIOUS
<1>4. QED
  BY <1>1, <1>2, <1>3

(* How far main is: which step comes next, and whether the request for the *)
(* chain list and the loop are behind it.                                  *)
LEMMA StartOrderFacts ==
  /\ \A n \in 0..6 : "chain_list" \in {StartOrder[i] : i \in 1..n} <=> 3 <= n
  /\ booted \in 0..6 => /\ Done("chain_list") <=> booted >= 3
                        /\ Looping <=> booted = 6
                        /\ Starts("config") => booted = 0
                        /\ Starts("io") => booted = 1
                        /\ Starts("chain_list") => booted = 2
                        /\ Starts("feeder") => booted = 3
                        /\ Starts("server") => booted = 4
                        /\ Starts("loop") => booted = 5
<1>1. \A n \in 0..6 : "chain_list" \in {StartOrder[i] : i \in 1..n} <=> 3 <= n
  BY StepNumbers, StepsDone
<1>2. \A n \in 0..6 : "loop" \in {StartOrder[i] : i \in 1..n} <=> 6 <= n
  BY StepNumbers, StepsDone
<1>3. ASSUME booted \in 0..6
      PROVE  /\ Done("chain_list") <=> booted >= 3
             /\ Looping <=> booted = 6
  BY <1>1, <1>2, <1>3 DEF Looping, Done
<1>4. ASSUME booted \in 0..6, NEW step, Starts(step)
      PROVE  booted + 1 \in 1..6 /\ StartOrder[booted + 1] = step
  BY <1>4, StepNumbers DEF Starts
<1>5. QED
  BY <1>1, <1>3, <1>4, StepNumbers

----------------------------------------------------------------------------
(* The IO thread.                                                          *)

(* A queue and what is put behind it.                                      *)
LEMMA PutBehind ==
  ASSUME NEW S, NEW q \in Seq(S), NEW x \in S
  PROVE  q \o <<x>> = Append(q, x) /\ q \o <<>> = q
<1>1. q \o <<>> = q
  BY ConcatEmptySeq
<1>2. q \o <<x>> = Append(q, x)
  OBVIOUS
<1>3. QED
  BY <1>1, <1>2

(* What the node's answer makes of a request, by kind.                     *)
LEMMA RequestYields ==
  ASSUME NEW cmd \in IoCommand, NEW answer \in AnswersTo(cmd),
         Request(cmd, answer).ok
  PROVE  /\ cmd.kind = "FetchBlock" => Request(cmd, answer).value = cmd.height
         /\ cmd.kind = "FetchHead" => Request(cmd, answer).value \in HeadsServed
         /\ cmd.kind = "FetchChainParams"
              => Request(cmd, answer).value.chain = cmd.chain
<1> USE RpcAssumption DEF AnswersTo, Request, HeightOf, OkUnless, Ok, Err
<1>1. CASE cmd.kind = "FetchBlock"
  <2>1. answer = NoBody \/ answer \in [height : {cmd.height, Garbled}]
    BY <1>1
  <2>2. Request(cmd, answer) = GetBlock(answer)
    BY <1>1
  <2>3. QED
    BY <1>1, <2>1, <2>2 DEF GetBlock
<1>2. CASE cmd.kind = "FetchHead"
  <2>1. answer = NoBody \/ answer \in [height : HeadsServed \cup {Garbled}]
    BY <1>2
  <2>2. Request(cmd, answer) = GetHead(answer)
    BY <1>2
  <2>3. QED
    BY <1>2, <2>1, <2>2 DEF GetHead
<1>3. CASE cmd.kind = "FetchChainParams"
  <2>1. \/ answer = NoBody
        \/ answer \in [chain : {cmd.chain}, revote : Periods, grace : Periods]
    BY <1>3
  <2>2. Request(cmd, answer) = GetChainParams(answer)
    BY <1>3
  <2>3. QED
    BY <1>3, <2>1, <2>2 DEF GetChainParams
<1>4. QED
  BY <1>1, <1>2, <1>3

(* Whatever the node answers, what a living IO thread makes of it is a     *)
(* step of the pump.                                                       *)
LEMMA AnswerIsPumpStep ==
  ASSUME TypeOK, cmdQ # <<>>, NEW answer \in AnswersTo(Head(cmdQ)),
         IoAnswered(Head(cmdQ), answer)
  PROVE  IoStep
<1> DEFINE c == Head(cmdQ)
           r == Request(c, answer)
<1>1. /\ c \in IoCommand /\ msgQ \in Seq(IoResult) /\ served \in Nat
      /\ \A x \in IoResult : msgQ \o <<x>> = Append(msgQ, x)
      /\ msgQ \o <<>> = msgQ
  BY TailFacts, PutBehind, ResultTypes DEF TypeOK, Heights
<1>2. /\ cmdQ' = Tail(cmdQ)
      /\ UNCHANGED <<outbox, phase, procVars, snapshot>>
      /\ \/ /\ r.ok
            /\ msgQ' = msgQ \o OnSuccess(c, r.value)
            /\ served' = IF c.kind = "FetchHead" /\ r.value > served
                         THEN r.value ELSE served
            /\ UNCHANGED faults
         \/ /\ ~r.ok
            /\ RequestFails
            /\ msgQ' = msgQ \o OnError(c)
            /\ UNCHANGED served
  BY DEF IoAnswered, pumpData
<1>3. r.ok => /\ c.kind = "FetchBlock" => r.value = c.height
              /\ c.kind = "FetchHead" => r.value \in HeadsServed
              /\ c.kind = "FetchChainParams" => r.value.chain = c.chain
  BY <1>1, RequestYields
<1>4. c.kind \in {"FetchBlock", "FetchBlockResults", "FetchChainList",
                  "FetchChainParams", "FetchHead"}
  BY <1>1 DEF IoCommand
<1> HIDE DEF r
<1>5. \A kind : c.kind = kind => Executes(kind)
  BY <1>2 DEF Executes
<1>6. CASE c.kind = "FetchBlock"
  <2>1. c.height \in Heights /\ c.retries \in Retries
    BY <1>1, <1>6, CommandFields
  <2>2. /\ r.ok => OnSuccess(c, r.value) = <<Block(c.height)>>
        /\ OnError(c) = <<FetchError(c.height, c.retries)>>
    BY <1>3, <1>6 DEF OnSuccess, OnError
  <2>3. IoFetchBlock
    BY <1>1, <1>2, <1>5, <1>6, <2>1, <2>2, ResultTypes DEF IoFetchBlock, Yields
  <2>4. QED
    BY <2>3 DEF IoStep
<1>7. CASE c.kind = "FetchBlockResults"
  <2>1. c.height \in Heights /\ c.retries \in Retries /\ c.polls \in PollLists
    BY <1>1, <1>7, CommandFields
  <2>2. /\ OnSuccess(c, r.value) = <<BlockResults(c.height, c.polls)>>
        /\ OnError(c) = <<FetchBlockResultsError(c.height, c.polls, c.retries)>>
    BY <1>7 DEF OnSuccess, OnError
  <2>3. IoFetchBlockResults
    BY <1>1, <1>2, <1>5, <1>7, <2>1, <2>2, ResultTypes
       DEF IoFetchBlockResults, Yields
  <2>4. QED
    BY <2>3 DEF IoStep
<1>8. CASE c.kind = "FetchChainList"
  <2>1. /\ OnSuccess(c, r.value) = <<ChainListAnswer>>
        /\ OnError(c) = <<FetchChainListError>>
    BY <1>8 DEF OnSuccess, OnError
  <2>2. IoFetchChainList
    BY <1>1, <1>2, <1>5, <1>8, <2>1, ResultTypes DEF IoFetchChainList, Yields
  <2>3. QED
    BY <2>2 DEF IoStep
<1>9. CASE c.kind = "FetchChainParams"
  <2>1. c.chain \in Chains
    BY <1>1, <1>9, CommandFields
  <2>2. /\ r.ok => OnSuccess(c, r.value) = <<ChainParams(c.chain)>>
        /\ OnError(c) = <<>>
    BY <1>3, <1>9 DEF OnSuccess, OnError
  <2>3. IoFetchChainParams
    BY <1>1, <1>2, <1>5, <1>9, <2>1, <2>2, ResultTypes
       DEF IoFetchChainParams, Yields
  <2>4. QED
    BY <2>3 DEF IoStep
<1>10. CASE c.kind = "FetchHead"
  <2>1. HeadsServed \subseteq Heights
    BY PipelineAssumption DEF HeadsServed, Heights
  <2>2. /\ OnSuccess(c, r.value) = <<HeadAnswer(r.value)>>
        /\ OnError(c) = <<>>
    BY <1>10 DEF OnSuccess, OnError
  <2>3. CASE r.ok
    <3>1. r.value \in HeadsServed /\ HeadAnswer(r.value) \in IoResult
      BY <1>3, <1>10, <2>1, <2>3, ResultTypes
    <3>2. Yields(HeadAnswer(r.value))
      BY <1>1, <1>2, <2>2, <2>3, <3>1 DEF Yields
    <3>3. IoFetchHead
      BY <1>2, <1>5, <1>10, <2>3, <3>1, <3>2 DEF IoFetchHead
    <3>4. QED
      BY <3>3 DEF IoStep
  <2>4. CASE ~r.ok
    <3>1. IoFetchHead
      BY <1>1, <1>2, <1>5, <1>10, <2>2, <2>4 DEF IoFetchHead
    <3>2. QED
      BY <3>1 DEF IoStep
  <2>5. QED
    BY <2>3, <2>4
<1>11. QED
  BY <1>4, <1>6, <1>7, <1>8, <1>9, <1>10

----------------------------------------------------------------------------
(* The inductive invariant.                                                *)

(* Nothing is asked of the node before main has asked for the chain list.  *)
BootInv ==
  /\ booted < 3 => cmdQ = <<>>
  /\ feeder # "unborn" => booted >= 4

ThreadsInv == ThreadsTypeOK /\ BootInv

(* What a step of the process is for the pump: nothing, the request for    *)
(* the chain list, or, once main has made that, a step of the pump.        *)
LEMMA StepOfTheProcess ==
  ASSUME ThreadsInv, [ThreadsNext]_threadsVars
  PROVE  /\ ThreadsInv'
         /\ \/ /\ UNCHANGED vars
               /\ booted' >= 3 <=> booted >= 3
            \/ /\ booted = 2 /\ booted' = 3 /\ cmdQ' = <<FetchChainList>>
               /\ UNCHANGED <<msgQ, outbox, phase, procVars, snapshot, envVars>>
            \/ booted >= 3 /\ booted' = booted /\ Next
<1>1. /\ TypeOK /\ booted \in 0..6
      /\ main \in {"running", "panicked", "returned"}
      /\ io \in {"unborn", "running", "panicked"}
      /\ feeder \in {"unborn", "running", "panicked"}
      /\ server \in {"unborn", "running", "panicked", "listening"}
  BY StepNumbers DEF ThreadsInv, ThreadsTypeOK
<1>2. BootInv
  BY DEF ThreadsInv
<1>3. ASSUME UNCHANGED vars
      PROVE  TypeOK'
  BY <1>1, <1>3 DEF vars, procVars, envVars, TypeOK
<1>4. ASSUME UNCHANGED vars, booted' \in 0..6, booted' >= booted,
             feeder' = feeder \/ booted' >= 4,
             main' \in {"running", "panicked", "returned"},
             io' \in {"unborn", "running", "panicked"},
             feeder' \in {"unborn", "running", "panicked"},
             server' \in {"unborn", "running", "panicked", "listening"}
      PROVE  ThreadsInv'
  BY <1>1, <1>2, <1>3, <1>4, StepNumbers
     DEF ThreadsInv, ThreadsTypeOK, BootInv, vars
<1>5. ASSUME Next, booted >= 3, UNCHANGED threadVars
      PROVE  ThreadsInv'
  <2>1. TypeOK'
    <3>1. CASE FeederTick
      BY <1>1, <3>1, AppendFacts, CommandTypes
         DEF FeederTick, TypeOK, procVars, envVars
    <3>2. QED
      BY <1>1, <1>5, <3>1, IoStepTypes, ProcessingStepTypes DEF Next
  <2>2. QED
    BY <1>1, <1>2, <1>5, <2>1, StepNumbers
       DEF ThreadsInv, ThreadsTypeOK, BootInv, threadVars
<1>6. CASE Boot
  <2>1. CASE RequestChainList
    <3>1. booted = 2 /\ booted' = 3 /\ cmdQ = <<>>
      BY <1>1, <1>2, <2>1, StartOrderFacts DEF RequestChainList, Starts, BootInv
    <3>2. cmdQ' = <<FetchChainList>>
      BY <2>1, <3>1 DEF RequestChainList
    <3>3. TypeOK'
      BY <1>1, <2>1, <3>2, CommandTypes, SequenceTypes
         DEF RequestChainList, pumpData, procVars, envVars, TypeOK
    <3>4. ThreadsInv'
      BY <1>1, <1>2, <2>1, <3>1, <3>3, StepNumbers
         DEF RequestChainList, ThreadsInv, ThreadsTypeOK, BootInv
    <3>5. QED
      BY <2>1, <3>1, <3>2, <3>4 DEF RequestChainList, pumpData
  <2>2. CASE Boot /\ ~RequestChainList
    <3>1. UNCHANGED vars /\ booted' = booted + 1
      BY <2>2 DEF Boot, LoadConfig, SpawnIo, SpawnFeeder, SpawnServer,
           EnterLoop, Starts
    <3>2. booted < 6 /\ booted # 2
      <4>1. booted < 6
        BY <1>1, <2>2, StepNumbers DEF Boot, LoadConfig, SpawnIo, SpawnFeeder,
           SpawnServer, EnterLoop, Starts
      <4>2. booted # 2
        BY <1>1, <2>2, StartOrderFacts DEF Boot, LoadConfig, SpawnIo,
           SpawnFeeder, SpawnServer, EnterLoop
      <4>3. QED
        BY <4>1, <4>2
    <3>3. feeder' = feeder \/ booted' >= 4
      BY <1>1, <2>2, <3>1, StartOrderFacts DEF Boot, LoadConfig, SpawnIo,
         SpawnFeeder, SpawnServer, EnterLoop
    <3>4. /\ main' \in {"running", "panicked", "returned"}
          /\ io' \in {"unborn", "running", "panicked"}
          /\ feeder' \in {"unborn", "running", "panicked"}
          /\ server' \in {"unborn", "running", "panicked", "listening"}
      BY <1>1, <2>2 DEF Boot, LoadConfig, SpawnIo, SpawnFeeder, SpawnServer,
         EnterLoop, Starts
    <3>5. ThreadsInv'
      BY <1>1, <1>4, <3>1, <3>2, <3>3, <3>4
    <3>6. QED
      BY <1>1, <3>1, <3>2, <3>5
  <2>3. QED
    BY <1>6, <2>1, <2>2
<1>7. CASE IoThread
  <2>1. booted >= 3 /\ cmdQ # <<>>
    BY <1>1, <1>2, <1>7 DEF IoThread, BootInv
  <2>2. PICK answer \in AnswersTo(Head(cmdQ)) :
          \/ IoAnswered(Head(cmdQ), answer)
          \/ IoPanics(Head(cmdQ), answer)
    BY <1>7 DEF IoThread
  <2>3. CASE IoAnswered(Head(cmdQ), answer)
    <3>1. Next /\ UNCHANGED threadVars
      BY <1>1, <2>1, <2>3, AnswerIsPumpStep DEF IoAnswered, Next
    <3>2. QED
      BY <1>5, <2>1, <3>1 DEF threadVars
  <2>4. CASE IoPanics(Head(cmdQ), answer)
    BY <1>1, <1>4, <2>4 DEF IoPanics
  <2>5. QED
    BY <2>2, <2>3, <2>4
<1>8. CASE FeederThread
  <2>1. booted >= 3
    BY <1>1, <1>2, <1>8 DEF FeederThread, BootInv
  <2>2. CASE FeederTick /\ UNCHANGED threadVars
    BY <1>5, <2>1, <2>2 DEF Next, threadVars
  <2>3. CASE feeder' = "panicked" /\ UNCHANGED <<vars, booted, main, io, server>>
    BY <1>1, <1>2, <1>4, <1>8, <2>3 DEF FeederThread, BootInv
  <2>4. QED
    BY <1>8, <2>2, <2>3 DEF FeederThread
<1>9. CASE ServerThread
  BY <1>1, <1>4, <1>9 DEF ServerThread
<1>10. CASE ProcessingLoop
  <2>1. booted >= 3
    BY <1>1, <1>10, StartOrderFacts DEF ProcessingLoop
  <2>2. CASE ProcessingStep /\ UNCHANGED threadVars
    BY <1>5, <2>1, <2>2 DEF Next, threadVars
  <2>3. CASE main' = "panicked" /\ UNCHANGED <<vars, booted, io, feeder, server>>
    BY <1>1, <1>4, <2>3
  <2>4. QED
    BY <1>10, <2>2, <2>3 DEF ProcessingLoop
<1>11. CASE UNCHANGED threadsVars
  BY <1>1, <1>4, <1>11 DEF threadsVars, threadVars
<1>12. QED
  BY <1>6, <1>7, <1>8, <1>9, <1>10, <1>11 DEF ThreadsNext

(* ThreadsInv holds of every process.                                      *)
LEMMA ThreadsInvHolds == ThreadsSpec => []ThreadsInv
<1>1. ThreadsInit => ThreadsInv
  BY PipelineAssumption, SequenceTypes, StepNumbers
     DEF ThreadsInit, ThreadsInv, ThreadsTypeOK, BootInv, TypeOK, Metrics, Heights
<1>2. ThreadsInv /\ [ThreadsNext]_threadsVars => ThreadsInv'
  BY StepOfTheProcess
<1>3. QED
  BY <1>1, <1>2, PTL DEF ThreadsSpec

(* Seen through the refinement mapping, a step of the pump is one once the *)
(* chain list has been requested.                                          *)
LEMMA MappedStep ==
  ASSUME Done("chain_list"), Done("chain_list")', Next
  PROVE  Pump!Next
<1>1. CASE FeederTick
  <2>0. \A S : Pump!Cardinality(S) = Cardinality(S)
    BY DEF Cardinality, Pump!Cardinality
  <2>1. Pump!FeederTick
    BY <1>1, <2>0 DEF FeederTick, Pump!FeederTick, HeadsWaiting,
         Pump!HeadsWaiting, FetchHead, Pump!FetchHead, procVars, Pump!procVars, envVars, Pump!envVars
  <2>2. QED
    BY <2>1 DEF Pump!Next
<1>2. CASE IoStep
  <2>0. /\ \A kind : Executes(kind) => Pump!Executes(kind)
        /\ \A result : Yields(result) => Pump!Yields(result)
        /\ RequestFails => Pump!RequestFails
        /\ HeadsServed = Pump!HeadsServed
    BY DEF Executes, Pump!Executes, Yields, Pump!Yields, RequestFails,
       Pump!RequestFails, HeadsServed, Pump!HeadsServed, procVars, Pump!procVars
  <2>1. CASE IoFetchBlock
    <3>1. Pump!IoFetchBlock
      BY <2>0, <2>1 DEF IoFetchBlock, Pump!IoFetchBlock, Block, Pump!Block,
           FetchError, Pump!FetchError
    <3>2. QED
      BY <3>1 DEF Pump!Next, Pump!IoStep
  <2>2. CASE IoFetchBlockResults
    <3>1. Pump!IoFetchBlockResults
      BY <2>0, <2>2 DEF IoFetchBlockResults, Pump!IoFetchBlockResults,
           BlockResults, Pump!BlockResults, FetchBlockResultsError,
           Pump!FetchBlockResultsError
    <3>2. QED
      BY <3>1 DEF Pump!Next, Pump!IoStep
  <2>3. CASE IoFetchChainList
    <3>1. Pump!IoFetchChainList
      BY <2>0, <2>3 DEF IoFetchChainList, Pump!IoFetchChainList,
           ChainListAnswer, Pump!ChainListAnswer, FetchChainListError,
           Pump!FetchChainListError
    <3>2. QED
      BY <3>1 DEF Pump!Next, Pump!IoStep
  <2>4. CASE IoFetchChainParams
    <3>1. Pump!IoFetchChainParams
      BY <2>0, <2>4 DEF IoFetchChainParams, Pump!IoFetchChainParams,
           ChainParams, Pump!ChainParams
    <3>2. QED
      BY <3>1 DEF Pump!Next, Pump!IoStep
  <2>5. CASE IoFetchHead
    <3>1. Pump!IoFetchHead
      BY <2>0, <2>5 DEF IoFetchHead, Pump!IoFetchHead, HeadAnswer, Pump!HeadAnswer
    <3>2. QED
      BY <3>1 DEF Pump!Next, Pump!IoStep
  <2>6. QED
    BY <1>2, <2>1, <2>2, <2>3, <2>4, <2>5 DEF IoStep
<1>3. CASE ProcessingStep
  <2>0. /\ \A kind : Receives(kind) => Pump!Receives(kind)
        /\ \A h : NextFetch(h) = Pump!NextFetch(h)
        /\ \A r : MayRetry(r) <=> Pump!MayRetry(r)
        /\ procVars = Pump!procVars
    BY DEF Receives, Pump!Receives, envVars, Pump!envVars, NextFetch,
       Pump!NextFetch, FetchBlock, Pump!FetchBlock, MayRetry, Pump!MayRetry,
       procVars, Pump!procVars
  <2>1. CASE HandleFetchError
    <3>1. Pump!HandleFetchError
      BY <2>0, <2>1 DEF HandleFetchError, Pump!HandleFetchError, FetchBlock,
           Pump!FetchBlock
    <3>2. QED
      BY <3>1 DEF Pump!Next, Pump!ProcessingStep
  <2>2. CASE HandleFetchBlockResultsError
    <3>1. Pump!HandleFetchBlockResultsError
      BY <2>0, <2>2 DEF HandleFetchBlockResultsError,
           Pump!HandleFetchBlockResultsError, FetchBlockResults,
           Pump!FetchBlockResults
    <3>2. QED
      BY <3>1 DEF Pump!Next, Pump!ProcessingStep
  <2>3. CASE HandleFetchChainListError
    <3>1. Pump!HandleFetchChainListError
      BY <2>0, <2>3 DEF HandleFetchChainListError,
           Pump!HandleFetchChainListError, FetchChainList, Pump!FetchChainList
    <3>2. QED
      BY <3>1 DEF Pump!Next, Pump!ProcessingStep
  <2>4. CASE HandleChainList
    <3>1. Pump!HandleChainList
      BY <2>0, <2>4 DEF HandleChainList, Pump!HandleChainList,
           FetchChainParams, Pump!FetchChainParams, procVars, Pump!procVars
    <3>2. QED
      BY <3>1 DEF Pump!Next, Pump!ProcessingStep
  <2>5. CASE HandleChainParams \/ HandleBlockResults
    <3>1. Pump!HandleChainParams \/ Pump!HandleBlockResults
      BY <2>0, <2>5 DEF HandleChainParams, Pump!HandleChainParams,
           HandleBlockResults, Pump!HandleBlockResults, procVars, Pump!procVars
    <3>2. QED
      BY <3>1 DEF Pump!Next, Pump!ProcessingStep
  <2>6. ASSUME NEW creations \in PollLists, HandleBlock(creations)
        PROVE  Pump!Next
    <3>1. BlockResponses(Head(msgQ).height, creations)
            = Pump!BlockResponses(Head(msgQ).height, creations)
      BY <2>0 DEF BlockResponses, Pump!BlockResponses, ResultsFetch,
           Pump!ResultsFetch, FetchBlockResults, Pump!FetchBlockResults
    <3>2. Pump!HandleBlock(creations)
      BY <2>0, <2>6, <3>1 DEF HandleBlock, Pump!HandleBlock
    <3>3. QED
      BY <3>2 DEF Pump!Next, Pump!ProcessingStep
  <2>7. CASE HandleHead
    <3>1. Pump!HandleHead
      BY <2>0, <2>7 DEF HandleHead, Pump!HandleHead, Starting, Pump!Starting,
           CaughtUpBefore, Pump!CaughtUpBefore, FetchBlock, Pump!FetchBlock
    <3>2. QED
      BY <3>1 DEF Pump!Next, Pump!ProcessingStep
  <2>8. CASE SendCommand
    <3>1. Pump!SendCommand
      BY <2>8 DEF SendCommand, Pump!SendCommand, procVars, Pump!procVars,
           envVars, Pump!envVars
    <3>2. QED
      BY <3>1 DEF Pump!Next, Pump!ProcessingStep
  <2>9. CASE PublishMetrics
    <3>1. Pump!PublishMetrics
      BY <2>9 DEF PublishMetrics, Pump!PublishMetrics, Metrics, Pump!Metrics,
           procVars, Pump!procVars, envVars, Pump!envVars
    <3>2. QED
      BY <3>1 DEF Pump!Next, Pump!ProcessingStep
  <2>10. QED
    BY <1>3, <2>1, <2>2, <2>3, <2>4, <2>5, <2>6, <2>7, <2>8, <2>9
       DEF ProcessingStep
<1>4. QED
  BY <1>1, <1>2, <1>3 DEF Next

----------------------------------------------------------------------------
(* The theorems.                                                           *)

(* Through start-up, unusable answers of the node and panics, the queues   *)
(* hold well-formed commands and results and every thread is in one of its *)
(* states.                                                                 *)
THEOREM ThreadsTypeCorrect == ThreadsSpec => []ThreadsTypeOK
<1>1. ThreadsInv => ThreadsTypeOK
  BY DEF ThreadsInv
<1>2. QED
  BY <1>1, ThreadsInvHolds, PTL

(* The process is a pump that may stop: main asks for the chain list ahead *)
(* of every head although the feeder runs beside it, each answer of the    *)
(* node becomes a result the pump knows, and a panic is a stutter.  What   *)
(* is proved of the pump's Spec therefore holds of the process.            *)
THEOREM ThreadsImplementPump == ThreadsSpec => ImplementsPump
<1>1. ThreadsInit => Pump!Init
  <2> SUFFICES ASSUME ThreadsInit PROVE Pump!Init
    OBVIOUS
  <2>1. booted = 0
    BY DEF ThreadsInit
  <2>2. ~Done("chain_list")
    BY <2>1, StartOrderFacts
  <2>3. QED
    BY <2>2 DEF ThreadsInit, Pump!Init, Pump!Metrics, Metrics, FetchChainList,
       Pump!FetchChainList
<1>2. ThreadsInv /\ ThreadsInv' /\ [ThreadsNext]_threadsVars
        => [Pump!Next]_Pump!vars
  <2> SUFFICES ASSUME ThreadsInv, ThreadsInv', [ThreadsNext]_threadsVars
               PROVE  Pump!Next \/ UNCHANGED Pump!vars
    OBVIOUS
  <2>1. booted \in 0..6 /\ booted' \in 0..6
    BY StepNumbers DEF ThreadsInv, ThreadsTypeOK
  <2>2. /\ Done("chain_list") <=> booted >= 3
        /\ Done("chain_list")' <=> booted' >= 3
    BY <2>1, StartOrderFacts DEF Done
  <2>3. CASE UNCHANGED vars /\ (booted' >= 3 <=> booted >= 3)
    BY <2>2, <2>3 DEF vars, procVars, envVars, Pump!vars, Pump!procVars,
         Pump!envVars
  <2>4. CASE /\ booted = 2 /\ booted' = 3 /\ cmdQ' = <<FetchChainList>>
             /\ UNCHANGED <<msgQ, outbox, phase, procVars, snapshot, envVars>>
    BY <2>2, <2>4 DEF procVars, envVars, Pump!vars, Pump!procVars, Pump!envVars
  <2>5. CASE booted >= 3 /\ booted' = booted /\ Next
    BY <2>2, <2>5, MappedStep
  <2>6. QED
    BY <2>3, <2>4, <2>5, StepOfTheProcess
<1>3. QED
  BY <1>1, <1>2, ThreadsInvHolds, PTL DEF ThreadsSpec, ImplementsPump, Pump!Spec
=============================================================================
