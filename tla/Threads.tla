------------------------------ MODULE Threads ------------------------------
(***************************************************************************)
(* The life of the threads of axelar-monitor around the message pump: the  *)
(* order in which main starts them, what each answer of the node makes of  *)
(* the IO thread, and what is left of the process when a thread panics.    *)
(*                                                                         *)
(* A panic drops what the thread owns.  Without the IO thread the command  *)
(* channel has no receiver and every send on it fails, which is a panic    *)
(* too (unwrap).  The result channel never closes: main keeps the sender   *)
(* it cloned for the IO thread.  A panic of main, or its return, ends the  *)
(* process and every thread in it.                                         *)
(***************************************************************************)
EXTENDS FetchPipeline, Rpc

CONSTANTS
  Periods,      \* what the node may answer as a voting period
  Undecodable   \* the heights of the blocks with a Confirm no one can decode

VARIABLES
  booted,   \* how many steps of StartOrder main has done
  main,     \* "running", "panicked", or "returned" (main returned an error)
  io,       \* "unborn", "running" or "panicked"
  feeder,   \* likewise
  server    \* likewise, or "listening"

threadVars  == <<booted, main, io, feeder, server>>
threadsVars == <<vars, threadVars>>

pumpData == <<outbox, phase, procVars, snapshot>>

----------------------------------------------------------------------------
(* main, up to its own loop.                                               *)

StartOrder_FeederFirst ==
  <<"config", "io", "feeder", "chain_list", "server", "loop">>
StartOrder == <<"config", "io", "chain_list", "feeder", "server", "loop">>

Done(step) == step \in {StartOrder[i] : i \in 1..booted}
Looping == Done("loop")

Starts(step) ==
  /\ main = "running"
  /\ booted < Len(StartOrder) /\ StartOrder[booted + 1] = step
  /\ booted' = booted + 1

(* Unreadable, not TOML, a field that is missing or out of range.          *)
LoadConfig ==
  /\ Starts("config")
  /\ main' \in {"running", "returned"}
  /\ UNCHANGED <<vars, io, feeder, server>>

SpawnIo ==
  /\ Starts("io") /\ io' = "running"
  /\ UNCHANGED <<vars, main, feeder, server>>

RequestChainList ==
  /\ Starts("chain_list")
  /\ cmdQ' = Append(cmdQ, FetchChainList)
  /\ UNCHANGED <<msgQ, pumpData, envVars, main, io, feeder, server>>

SpawnFeeder ==
  /\ Starts("feeder") /\ feeder' = "running"
  /\ UNCHANGED <<vars, main, io, server>>

SpawnServer ==
  /\ Starts("server") /\ server' = "running"
  /\ UNCHANGED <<vars, main, io, feeder>>

EnterLoop == Starts("loop") /\ UNCHANGED <<vars, main, io, feeder, server>>

Boot ==
  \/ LoadConfig \/ SpawnIo \/ RequestChainList
  \/ SpawnFeeder \/ SpawnServer \/ EnterLoop

----------------------------------------------------------------------------
(* The IO thread: the node's answers, and the results they become.         *)

AnswersTo(cmd) ==
  {NoBody} \cup
    CASE cmd.kind = "FetchBlock" -> [height : {cmd.height, Garbled}]
      [] cmd.kind = "FetchHead" -> [height : HeadsServed \cup {Garbled}]
      [] cmd.kind = "FetchBlockResults" -> [results : {cmd.polls}]
      [] cmd.kind = "FetchChainList" -> [chains : {ChainList}]
      [] cmd.kind = "FetchChainParams" ->
           [chain : {cmd.chain}, revote : Periods, grace : Periods]

Request(cmd, answer) ==
  CASE cmd.kind = "FetchBlock" -> GetBlock(answer)
    [] cmd.kind = "FetchHead" -> GetHead(answer)
    [] cmd.kind = "FetchBlockResults" -> GetBlockResults(answer)
    [] cmd.kind = "FetchChainList" -> GetChainList(answer)
    [] cmd.kind = "FetchChainParams" -> GetChainParams(answer)

(* Of the five requests only the conversion of chain parameters panics.    *)
RequestPanics(cmd, answer) ==
  /\ cmd.kind = "FetchChainParams"
  /\ Request(cmd, answer).ok
  /\ FromPanics(Request(cmd, answer).value)

OnSuccess(cmd, value) ==
  CASE cmd.kind = "FetchBlock" -> <<Block(value)>>
    [] cmd.kind = "FetchHead" -> <<HeadAnswer(value)>>
    [] cmd.kind = "FetchBlockResults" -> <<BlockResults(cmd.height, cmd.polls)>>
    [] cmd.kind = "FetchChainList" -> <<ChainListAnswer>>
    [] cmd.kind = "FetchChainParams" -> <<ChainParams(value.chain)>>

OnError(cmd) ==
  CASE cmd.kind = "FetchBlock" -> <<FetchError(cmd.height, cmd.retries)>>
    [] cmd.kind = "FetchBlockResults" ->
         <<FetchBlockResultsError(cmd.height, cmd.polls, cmd.retries)>>
    [] cmd.kind = "FetchChainList" -> <<FetchChainListError>>
    [] OTHER -> <<>>

IoAnswered(cmd, answer) ==
  LET r == Request(cmd, answer)
  IN  /\ ~RequestPanics(cmd, answer)
      /\ cmdQ' = Tail(cmdQ)
      /\ \/ /\ r.ok
            /\ msgQ' = msgQ \o OnSuccess(cmd, r.value)
            /\ served' = IF cmd.kind = "FetchHead" /\ r.value > served
                         THEN r.value ELSE served
            /\ UNCHANGED faults
         \/ /\ ~r.ok
            /\ RequestFails
            /\ msgQ' = msgQ \o OnError(cmd)
            /\ UNCHANGED served
      /\ UNCHANGED <<pumpData, threadVars>>

(* The commands that still wait are lost with the receiver.                *)
IoPanics(cmd, answer) ==
  /\ RequestPanics(cmd, answer)
  /\ io' = "panicked"
  /\ UNCHANGED <<vars, booted, main, feeder, server>>

IoThread ==
  /\ main = "running" /\ io = "running" /\ cmdQ # <<>>
  /\ \E answer \in AnswersTo(Head(cmdQ)) :
       IoAnswered(Head(cmdQ), answer) \/ IoPanics(Head(cmdQ), answer)

----------------------------------------------------------------------------
(* The others.  CommandsLost: there is no receiver for a command any more. *)

CommandsLost_Never == FALSE
CommandsLost == io = "panicked"

FeederThread ==
  /\ main = "running" /\ feeder = "running"
  /\ \/ ~CommandsLost /\ FeederTick /\ UNCHANGED threadVars
     \/ /\ CommandsLost /\ feeder' = "panicked"
        /\ UNCHANGED <<vars, booted, main, io, server>>

(* The port may be taken; nobody notices.                                  *)
ServerThread ==
  /\ main = "running" /\ server = "running"
  /\ server' \in {"listening", "panicked"}
  /\ UNCHANGED <<vars, booted, main, io, feeder>>

MainPanics ==
  \/ /\ phase = "receive" /\ msgQ # <<>>
     /\ Head(msgQ).kind = "Block" /\ Head(msgQ).height \in Undecodable
  \/ phase = "send" /\ outbox # <<>> /\ CommandsLost

ProcessingLoop ==
  /\ main = "running" /\ Looping
  /\ \/ ~MainPanics /\ ProcessingStep /\ UNCHANGED threadVars
     \/ /\ MainPanics /\ main' = "panicked"
        /\ UNCHANGED <<vars, booted, io, feeder, server>>

----------------------------------------------------------------------------
(* The pump's Init has the chain list requested; here main does it.        *)
ThreadsInit ==
  /\ cmdQ = <<>> /\ msgQ = <<>> /\ outbox = <<>> /\ phase = "receive"
  /\ chain_tip = 0 /\ last_processed_height = 0
  /\ chain_height = 0 /\ fetch_error_count = 0
  /\ snapshot = Metrics(0, 0, 0)
  /\ served = FirstHeight /\ faults = 0
  /\ booted = 0 /\ main = "running"
  /\ io = "unborn" /\ feeder = "unborn" /\ server = "unborn"

ThreadsNext == Boot \/ IoThread \/ FeederThread \/ ServerThread \/ ProcessingLoop

ThreadsSpec == ThreadsInit /\ [][ThreadsNext]_threadsVars

(* The operating system runs every thread.                                 *)
ThreadsFairSpec ==
  /\ ThreadsSpec
  /\ WF_threadsVars(Boot) /\ WF_threadsVars(ProcessingLoop)
  /\ WF_threadsVars(IoThread) /\ WF_threadsVars(FeederThread)

----------------------------------------------------------------------------
ThreadsTypeOK ==
  /\ TypeOK
  /\ booted \in 0..Len(StartOrder)
  /\ main \in {"running", "panicked", "returned"}
  /\ {io, feeder} \subseteq {"unborn", "running", "panicked"}
  /\ server \in {"unborn", "running", "panicked", "listening"}

(* Whatever the node answers and whichever thread dies, at start or later, *)
(* the process never does anything the pump does not do: the chain list is *)
(* requested ahead of every head, and a panic is a pump that stops.        *)
Pump == INSTANCE FetchPipeline
          WITH cmdQ <- IF Done("chain_list") THEN cmdQ ELSE <<FetchChainList>>

ImplementsPump == Pump!Spec

(* What is left after a panic of the IO thread: the feeder goes with its   *)
(* next request, and main either with its next command or, if it has none, *)
(* waits for a result that no thread can send.                             *)
Ended == main # "running"
Waiting == Looping /\ phase = "receive" /\ msgQ = <<>>

Aftermath == io = "panicked" ~> Ended \/ (feeder = "panicked" /\ Waiting)

(* Panics are the only way the monitor stops: a tip it has learned is      *)
(* processed and published unless the IO thread or main panicked.          *)
StopsOnlyOnPanic ==
  \A n \in FirstHeight..MaxHeight :
    chain_tip = n ~> \/ snapshot.last_processed_height >= n
                     \/ io = "panicked" \/ Ended

(* The loop's `Err(_) => break` and the "processing loop done" after it: a *)
(* monitor whose IO thread is gone leaves its loop.                        *)
ProcessingLoopEnds == io = "panicked" ~> Ended
=============================================================================
