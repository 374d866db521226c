# Verification of axelar-monitor

`axelar-monitor` follows the Axelar chain block by block, finds the EVM polls
that its transactions open and the votes cast on them, and when a poll expires
counts for every configured broadcaster whether it agreed with the majority,
disagreed or did not vote. The counts are served as Prometheus metrics.

This directory holds TLA+ models of it, the TLC configurations that check them
and TLAPS proofs. File and line references are to the repository; the crate's
sources are in `src/` of the repository (`src/src/` in `PROJECT.json`).

## 1. The system

### Parts

| Part | Code | State | Operations |
|---|---|---|---|
| Feeder thread | `main.rs` 79-85 | none | `FetchHead` at start, then one per poll interval |
| IO thread | `main.rs` 12-29, `lib.rs` 496-541, `rpc.rs` | none | receive an `IoCommand`, do its HTTP request, send at most one `IoResult` |
| Processing thread (main) | `main.rs` 31-51, `lib.rs` 237-494 | `ProcessingState` | one handler per `IoResult`, send the commands it returns, publish the snapshot |
| Channels | `main.rs` | two unbounded `mpsc` queues | commands come from the feeder and the processing thread, results from the IO thread |
| Block contents | `blocks.rs` | none, pure | `process_block`: poll requests, poll creations, votes |
| Block results | `polls.rs` | none, pure | `extract_all_poll_events`: the poll ids, by tx |
| Verdict | `lib.rs` 168-235 | none, pure | `analyze_poll_completion` |
| Metrics server | `metrics.rs` | a snapshot behind a mutex | serve it |
| Configuration | `config.rs` | read once | broadcasters, chain parameters, URLs |

`ProcessingState` has a half that drives fetching (`chain_tip`,
`last_processed_height`, `chain_height`, `fetch_error_count`) and a half that
holds the polls (`chain_params`, `polls`, `expired_poll_ids`, `vote_results`).

### How they interact

    feeder --FetchHead--> command queue --> IO thread --> result queue --> processing thread
                               ^                                              |       |
                               +------------------ commands ------------------+   snapshot --> metrics server

There is no loop over heights. Each handler of a fetched (or skipped) block
returns the command for the next block if it is behind the tip; at the tip the
chain of fetches ends, and the handler of the next higher head starts it again.
Block results are a second request made for blocks that open polls; both kinds
of request are retried by sending them again, at the end of the queue.

### What is hard

* **Ordering.** The chain of fetches is kept alive by two handlers that must
  neither both continue (a block fetched twice) nor both stop (stranded), with
  head answers that queue anywhere between. Results of a block are handled
  after later blocks when they are retried.
* **Failure.** A block is retried `MAX_FETCH_RETRIES` times and then skipped;
  block results are then dropped; chain parameters are not retried at all.
* **Boundaries.** Expiry (`<=`), pruning (`>`), the retry count (`<`), a height
  of 0 that stands for "not started".
* **Names.** Config, node, requests and votes spell chains in their own way;
  counters are keyed by the lower-case name.
* **Counting.** Majority over votes, ties, votes with several events.
* **Identity.** A poll request carries a tx and no poll id; the id comes with
  the block results, matched by tx alone, whatever else the block holds.
* **Panics.** Every thread unwraps: a value out of range from the node, a message
  that does not decode, a channel whose other end is gone, a port that is taken.

`PROJECT.json` lists each hazard at its line with the properties that cover it.

### What makes each part correct

* Message pump: one block request at a time, never stranded behind the tip,
  every block in order and once, skips only after the retries, bounded lag of
  block results, published counters that never fall.
* Poll lifecycle: each registered poll is judged exactly once, at its deadline
  or the next processed block; the votes it is judged on are those of the
  chain; counters exist before they count, whatever the spelling.
* Block contents: each accepted vote is read once, each poll found under its own
  id, none invented.
* Verdict: everybody is accounted for, popularity decides, order does not.
* Threads: the process is never anything but a pump that may stop, it stops only
  on a panic, and what is left after one is known.

## 2. The modules

| Module | Models | Extends |
|---|---|---|
| `FetchPipeline` | the three threads, the channels, every command, result and handler; contents of blocks abstracted to the list of polls they create | |
| `BlockStream` | what the pump promises: an in-order stream of blocks up to a rising tip | |
| `Rpc` | `rpc.rs`: what each call makes of the node's answer | |
| `Threads` | start-up, panics and what they leave, around the pump | `FetchPipeline`, `Rpc` |
| `VoteTally` | `analyze_poll_completion` and the vote counters | |
| `PollVerdict` | an environment for `VoteTally`: one poll that collects votes and is judged after each | `VoteTally` |
| `BlockContents` | `process_block`, `extract_all_poll_events`, the tx to poll id map, the polls they open | `VoteTally` |
| `BlockReading` | an environment for `BlockContents`: the chain fills one block | `BlockContents` |
| `Monitor` | the whole monitor: the pump with the data | `FetchPipeline`, `BlockContents` |
| `ChainRecord` | what the theorems about `Monitor` take for granted of the chain, the node and the configuration | `Monitor` |
| `PollBook` | what the poll lifecycle promises: a book of open polls, their deadlines and votes | |
| `MCFetchPipeline`, `MCThreads`, `MCVoteTally`, `MCBlockContents`, `MCMonitor` | the instances TLC checks | |
| `FetchPipelineProofs`, `PipelineLagProofs` | theorems about `FetchPipeline` | `FetchPipeline`, `TLAPS` |
| `ThreadsProofs` | theorems about `Threads` | `Threads`, `FetchPipelineProofs` |
| `TallyProofs`, `ContentsProofs` | lemmas about the operators of `VoteTally` and `BlockContents` | those, `TLAPS` |
| `VerdictProofs`, `ReadingProofs` | theorems about `PollVerdict` and `BlockReading` | those, with the lemmas |
| `MonitorProofs` | theorems about `Monitor` | `ChainRecord`, `PipelineLagProofs`, `ContentsProofs` |

Two compositions stand on `FetchPipeline`: `Monitor` adds the data its messages
carry, `Threads` the life of the threads that run it. Each has an abstract
specification it is checked against: `FetchPipeline` implements `BlockStream`,
`Monitor` implements `PollBook`, `Threads` implements `FetchPipeline`.

### FetchPipeline

| Variable | Code |
|---|---|
| `cmdQ`, `msgQ` | the `mpsc` channels of `main.rs` 60-61 |
| `outbox` | what is left of the vector `process_single_message` returned (`main.rs` 44) |
| `phase` | where `processing_loop` is: at `recv` or after it |
| `chain_tip`, `last_processed_height`, `chain_height`, `fetch_error_count` | the fields of `ProcessingState` |
| `snapshot` | the `MetricsSnapshot` behind the mutex |
| `served`, `faults` | environment: highest head answered, requests failed so far |

Each `IoCommand` has its `Io...` action: the request succeeds or fails. Receive,
request and send are one step, since only the IO thread takes from `cmdQ` and
adds to `msgQ`, and nobody can see the command while the request runs; what
differs in a longer step is when the answer is chosen, and the other threads do
not change what the node answers. Each `IoResult` has its `Handle...` action,
which is the whole match arm of `process_single_message`; sending the commands
(`SendCommand`, one each, so the feeder may slip in between) and publishing
(`PublishMetrics`) are steps of their own as in `processing_loop`.

Left out because production code does not reach it: `Height::Latest` (no
command is made with it) and the error branch of the `Block` handler (`get_txs`
always returns `Ok`). Closed channels and panics are in `Threads`.

### Threads

| Variable | Code |
|---|---|
| `booted` | how far `main` (53-95) is, as a position in `StartOrder` |
| `main` | the main thread: running, panicked, or returned with the error of `Config::load` |
| `io`, `feeder`, `server` | the threads `main` spawns (71, 79, 90) |

`main` starts with an empty command queue and puts `FetchChainList` in it
itself. The IO thread's step is written from `process_single_io_command` and
`Rpc`, not with the actions of `FetchPipeline`: the node's answer is chosen from
good ones, unusable bodies and bodies with a field that does not parse, and what
becomes of it follows from `rpc.rs`. A garbled height is an `Err`, hence a
result like any failed request; a voting period out of `u16` passes
`get_chain_params` as a string and panics in the conversion (`rpc.rs` 52). That the
result is always a step of the pump is what `ImplementsPump` checks.

A panicked IO thread drops the receiver of commands (`CommandsLost`): the next
`send(..).unwrap()` of the feeder or of main panics in turn. A panic of main, also
on a Confirm message that does not decode (`blocks.rs` 138-162), ends the process:
every action has `main = "running"`. The server thread binds its port or dies;
answering a scrape reads the snapshot and changes no state.

### Monitor

`Monitor` strengthens the actions of `FetchPipeline` that touch data:
`HandleBlockData` is `HandleBlock` with the creations `ProcessBlock` finds,
after which the votes go to open polls, expired polls are judged and pruned;
`HandleBlockResultsData`, `HandleChainParamsData`, `HandleHeadData` and
`PublishMetricsData` likewise; all other steps leave the data alone.

The node's chain is a constant of a behaviour, `history`: blocks and results as
the node serves them, and next to them `creations` and `casts`, what they mean.
The handlers read the former; the properties compare the outcome with the
latter. `first_block` records the height at which the monitor started.

`ChainAssumption` says what every history is: blocks that the decoder can be
given (`WellFormedBlock`: decoded lists are lists, a confirm message names a chain
and txs), poll ids that are numbers, and no id
announced by two blocks. The chain numbers its polls with one counter, and
`extract_all_poll_events` drops ids that do not parse as `u64`. `MonitorAssumption`
says of chains and parameters what `config.rs` and `rpc.rs` make of them: configured
names are lower-cased and finitely many, periods are sums of unsigned numbers.
`ChainRecord` has the hypotheses that only some theorems need, such as that the chain
took the votes its blocks hold; `MCHypotheses` has TLC check that the chains of
`MCMonitor` satisfy them.

Data is abstracted to what matters: a tx id is a number (only its order matters,
0 is the empty string), undecodable bytes are `Unreadable`, `Lower` maps each
spelling of a chain to its lower case, the sum of the two voting periods of a
chain is one number, a poll's kind and a vote's payload hash (never read for a
decision) are dropped.

### BlockReading: the contents of one block

The chain appends txs to one block, with the results they leave, and records
beside them what it did: `opened`, the polls by their id, and `cast`, the entries
of accepted votes in order. A request may be accepted, come inside a batch, or fail
(the tx stays in the block, there is no event); one message may open several
polls; two requests may name the same tx on different chains. The properties
compare what `ProcessBlock`, `TxToPollIds` and `Opened` make of the block with
that record. `ReadingAssumption` types the parameters.

### PollVerdict: one poll

A poll collects up to `MaxVotes` votes, in any spelling of its chain, from
configured senders and strangers, and may be replaced by a fresh one. Each state
is judged by `AnalyzePollCompletion` on counters registered at 0; the properties
count voters with cardinalities, and `OrderIrrelevant` compares the verdict with
that on every permutation of the votes.

## 3. The runs

| Run | Expect | What it shows |
|---|---|---|
| `pipeline_safety` | pass | All interleavings with up to four failed requests, heads 2 to 6 |
| `pipeline_liveness` | pass | Every learned tip is processed and published without further heads; refinement of `BlockStream` with its fairness |
| `pipeline_stale_head` | violation | a stale head strands the monitor |
| `pipeline_counter_falls` | violation | a stale head makes a counter fall |
| `threads` | pass | start-up, every kind of answer, panics of all four threads; refinement of `FetchPipeline` |
| `threads_silent_hang` | violation | after a panic of the IO thread main waits for ever |
| `contents` | pass | every block of up to three txs: polls and votes found, colliding txs, several polls of one message, failed requests, batches |
| `tally` | pass | the verdict on every sequence of at most three votes, and on all its permutations |
| `tally_voters` | violation | one vote with several events outweighs several voters |
| `monitor_safety` | pass | two overlapping polls, all interleavings, up to three failures; refinement of `PollBook` |
| `monitor_liveness` | pass | registered polls are judged |
| `monitor_startup_noise` | violation | votes dropped as "never seen" on a poll opened while running |

### Properties

* `SingleFetch`, `NeverStranded`, `InOrderOnce` say together that the chain of
  fetches works: not two, not none, and the handler sees the next block.
* `ResultsInTime` bounds the lag of retried block results by
  `MAX_FETCH_RETRIES` blocks, which is what makes a poll registered before its
  deadline (live chains keep polls open for more than ten blocks).
* `SkipsExhaustRetries`: each skipped block cost `MAX_FETCH_RETRIES + 1` failed
  requests, however failures spread over blocks, results and heads.
* `ResultsBacklog`: retried results do not pile up: at most one more than there
  were failures, and never more than a block can be retried over. It depends on
  results being requested ahead of the next block.
* `ImplementsPump`, `Aftermath`, `StopsOnlyOnPanic`: the chain list is ahead of
  every head although the feeder races with main; a panic anywhere is a pump that
  stops; after a panic of the IO thread the feeder follows, and main ends with its next
  command or waits; without a panic every learned tip is published.
* `PollsFound`, `PollsReal`, `VotesOnceEach`: which polls and votes of a block
  the monitor finds. `PollsFound` says exactly what a collision of two polls on
  one tx costs: the earlier id, and the chain only if the requests name different ones.
* `ImplementsPollBook`: a poll opens once and before its deadline, only gains
  votes, is judged at the first processed block that reaches the deadline, and never returns.
* `CountersNeverFall`, `VoteCountersNeverFall`: what a Prometheus counter means.
* `TallyMatchesChain`: with no failure the counters equal what the chain says,
  computed from `creations` and `casts` with no reference to the handlers.
* `OneOutcomePerPoll`, `DeadlineKept`, `NoInventedVotes`, `SeriesRegistered`:
  what remains true when requests fail.
* `EveryoneAccountedFor`, `AgreementIsPopularity`, `OrderIrrelevant`: the verdict.

### Findings

1. **A stale head strands the monitor** (`pipeline_stale_head`, `lib.rs` 481).
   The `Head` handler stores every answer as `chain_tip`, also a lower one, and
   resumes only if the old tip *equals* `last_processed_height`. Processed 3,
   head 2, head 4: the old tip is 2, so nothing is fetched, nor for 5, 6, ...
   It takes one answer that is one block older than the one before, as two nodes
   behind one URL give. Ignoring answers below `chain_tip` would do: that heads
   never fall is the assumption under which the theorems below hold.
2. **A stale head makes a counter fall** (`pipeline_counter_falls`, `lib.rs`
   320, 481). Head falls back to the processed height while the next block is in
   flight; the next rise fetches that block again; two chains of fetches run,
   and `last_processed_height` goes back with the slower one.
3. **A dead IO thread goes unnoticed** (`threads_silent_hang`, `main.rs` 70,
   `rpc.rs` 52). `processing_loop` breaks when its channel closes, which it never
   does: main keeps the sender it cloned for the IO thread. One chain
   parameter that is no `u16` leaves a process that serves its last snapshot for ever.
4. **Events, not voters** (`tally_voters`, `README.md` 6, `blocks.rs` 207).
5. **Not start-up noise** (`monitor_startup_noise`, `lib.rs` 366). One failed
   `FetchBlockResults` is retried behind the next block, whose votes on the new
   poll are dropped; a broadcaster who voted is counted as missed.

### Bounds, and why they are enough

* `MAX_FETCH_RETRIES` is 3, its value in the code, in the pipeline runs; 1 in
  the monitor and thread runs, where the lag bound and skips are then reached with fewer blocks.
* `MaxFaults` is one more than `MAX_FETCH_RETRIES`: enough to skip a block, to
  drop block results, and to mix retries of both. `monitor_safety` allows three
  with one retry, which also lets the chain list fail, come late, and a skip happen after it.
* `MaxHeight` 6 with `FirstHeight` 2: results of block 2 may lag to block 5 and
  the mutated lag of 4 would show at 6. In `monitor_safety` heights go to 7: polls
  open at 2 and 3 for 3 blocks, a vote after the deadline, a block after it. The
  configured period of the first chain is 2: until the node's arrives a poll would
  expire early, the bug that `tests/integration_tests.rs` 381 describes.
* `MaxBacklog`: head requests and answers that wait. 2 in `pipeline_safety`: two
  head answers in a row, one on either side of a block answer. The proofs hold
  for every bound. In the code there is no bound.
* `Regress` 0 is a node whose head never falls; 1 (the smallest fall) in the runs about stale heads.
* Three votes, two configured names (one with two addresses) and a stranger, three
  tx ids with the empty one, two spellings: ties, split votes, repeated voters.
* Three txs in a block, two tx ids, three chain spellings: a failed request, an
  accepted one and a colliding one, in every order.
* `Periods` has both ends of `u16`, the first value past it and no number;
  `Undecodable` is the last block, so that a tip of 4 may end the process and tips 2 and 3 may not.

Deadlock is checked in every run but those of `Threads`, where the process really
stops; none of the other instances does: the feeder can always ask once its requests are through.

### Fairness

`FairSpec` and `MonitorFairSpec` assume weak fairness of the IO thread and of the
processing thread: each loops on a blocking `recv` and is scheduled by the OS. It
also says that an HTTP request ends; the client sets no timeout, so this is an
assumption on the node. Nothing is assumed of the feeder, so what these runs
show is that learned tips are dealt with by the two threads alone. `FedSpec`, used by
`pipeline_stale_head`, adds a fair feeder: even with it the monitor is stuck.
`ThreadsFairSpec` assumes it of all
threads but the server: the operating system runs them, and the feeder sleeps and sends for ever.
That failures are bounded (`MaxFaults`) is needed: a chain list that fails for
ever is requested for ever, and parameters never load.

## 4. What is proved

### The pump: one fetch, in order

`FetchPipelineProofs`, for every value of the constants that satisfies
`PipelineAssumption` (any number of retries, chains, heights, failures, backlog):

| Theorem | Statement |
|---|---|
| `TypeCorrect` | `Spec => []TypeOK`, with heads that may fall too |
| `AtMostOneFetch` | `SteadyNode` implies `Spec => []SingleFetch` |
| `FollowerNeverStranded` | ... `Spec => []NeverStranded` |
| `BlocksInOrder` | ... `Spec => InOrderOnce` |
| `PublishedCountersRise` | ... `Spec => CountersNeverFall` |
| `PipelineImplementsBlockStream` | ... `Spec => Stream!Spec` |

`SteadyNode` is `Regress = 0 /\ FirstHeight > 1`. Both parts are needed: with
`Regress = 1` TLC refutes the conclusions (findings 1 and 2), and a monitor started at
height 1 leaves `last_processed_height` at 0, the mark of one not started, and
fetches block 1 again with the next head.

None of these invariants is inductive alone. `PipelineInv` has four parts:

* `TypeOK`;
* `JobsInv`: a block request is on its way *exactly when* a known block is
  missing, there is at most one, and it is for `last_processed_height + 1`. The
  equivalence is what both halves need: the `Head` handler starts a request only
  when none is on its way, the others stop only at the tip;
* `HeadsInv`: head answers in the result queue are in order and not below
  `chain_tip`, so the tip never falls. It rests on the FIFO channels and on `Regress = 0`;
* `CountersInv`: `chain_height` is not ahead of `last_processed_height`, the
  snapshot not ahead of either.

The proof goes by thread: lemmas on what `Append` and `Tail` do to the block
requests of a queue; the IO thread moves one from queue to queue
(`IoStepKeepsJobsInv`); each handler consumes one and returns one or stops at the tip
(`ProcessingStepKeepsJobsInv`, one step per handler); `NextKeepsHeadsInv`,
`NextKeepsCountersInv`; `InvariantHolds` puts them together. `PipelineInv` was
checked with TLC on the instance of `pipeline_safety` before it was proved.

### The pump: lag, backlog, skips

`PipelineLagProofs`, under the same two assumptions:

| Theorem | Statement |
|---|---|
| `ResultsHandledInTime` | `Spec => []ResultsInTime` |
| `SkippedBlocksWereTried` | `Spec => []SkipsExhaustRetries` |
| `ResultsDoNotPileUp` | `Spec => []ResultsBacklog` |

What bounds the lag is a place in the pipeline: a request for block results lets a
block pass only when it is sent again *behind* the block request, and each time it
is, it has lost a retry. So `LagInv` bounds the lag by the retries used (`Tries`), and
by one less for the requests in `Behind`, those that come after the block request
in the same queue or in one further back. `ResultsInTime` is the case of an
answer that is handled; without the bound on `Behind` the next block would break
it. `DistinctInv` says that no block's results are requested twice at a time,
and `LateInv` that each late request was paid for by a failure of its own: the backlog
is then a set of heights in an interval (the lag bound), each but one paid for.
`SkipInv` charges failures to the skipped blocks and to the one being tried:
without the latter a skip could not be paid for.

### The threads

| Theorem of `ThreadsProofs` | Statement |
|---|---|
| `ThreadsTypeCorrect` | `ThreadsSpec => []ThreadsTypeOK` |
| `ThreadsImplementPump` | `ThreadsSpec => ImplementsPump` |

`ThreadsInv` adds to the types that the command queue is empty until main has put
the chain list in it, and that the feeder is not born before that: that is why no
head request overtakes it. A step of the process is then a stutter (start-up, a
panic, the server), that first request, or a step of the pump, for every answer
the node can give; what is proved of `Spec` holds of the process.

### The whole monitor

`MonitorProofs`, for every set of histories that satisfies `ChainAssumption`, every
configuration and node that satisfy `MonitorAssumption`:

| Theorem | Hypotheses | Statement |
|---|---|---|
| `MonitorIsThePump` | `AnyPolls` | `MonitorSpec => Spec` |
| `MonitorTypeCorrect` | `AnyPolls` | `MonitorSpec => []MonitorTypeOK` |
| `VoteCountersRise` | `AnyPolls` | `MonitorSpec => VoteCountersNeverFall` |
| `SeriesAreRegistered` | `AnyPolls`, `VotesNameTheChain` | `MonitorSpec => []SeriesRegistered` |
| `DeadlinesAreKept` | `AnyPolls`, `SteadyNode`, `LongPolls` | `MonitorSpec => []DeadlineKept` |
| `MonitorImplementsPollBook` | `AnyPolls`, `SteadyNode`, `LongPolls` | `MonitorSpec => ImplementsPollBook` |
| `NoVoteIsInvented` | those three, `VotesWereCast` | `MonitorSpec => []NoInventedVotes` |
| `OneOutcomeForEach` | those four, `OneVoteEach`, `DistinctNames` | `MonitorSpec => []OneOutcomePerPoll` |
| `TallyIsTheChains` | those of `NoVoteIsInvented`, `CastsAreFound`, `PollsWereRequested`, `VotesNameTheChain`, `SameParams`, `DistinctNames`, `DistinctAddresses` | `MonitorSpec => []TallyMatchesChain` |

* `AnyPolls`: the pump carries any list of creations (`PollLists` is
  `Seq(PollData)`). The constant exists so that TLC has a finite set to take the lists from.
* `LongPolls`: polls stay open for more than `MAX_FETCH_RETRIES` blocks. A poll
  that does not can be registered after its deadline (hazard at `blocks.rs` 332).
* `VotesNameTheChain`: a vote names, in some spelling, the chain of the request
  that opened its poll. The verdict keys its counters by the chain of each vote
  (`lib.rs` 221), so the code relies on it; the Axelar chain rejects other votes.
  The histories of `MCMonitor` satisfy it, with votes and requests that differ in spelling.
* `VotesWereCast`: each vote found in a block is one of `casts`, at that height,
  and no two found in one block are the same cast. It says of the chain what
  `VotesAreReadOnce` needs no hypothesis for, where the block is built vote by vote.
  The vote of a failed tx breaks it (hazard at `blocks.rs` 207): the code
  reads it like one that was accepted, so without this hypothesis the conclusion is false.
* `OneVoteEach`: nobody votes twice on a poll or for two of its events. Without it
  an outcome is an event, not a voter (finding 4).
* `DistinctNames`: no two entries of the configuration share a name; the counters
  of such two are the same, and a poll neither votes on is missed twice.
* `CastsAreFound`, the converse of `VotesWereCast`: a vote the chain took is found in its
  block. `PollsWereRequested`: the polls of the chain (`creations`) are those
  requested in a block and announced in its results, each with its own id.
  They say that the code finds in a block what the chain did in it, which
  `PollsAreFound`, `FoundPollsAreReal` and `VotesAreReadOnce` show for a
  block built request by request and vote by vote. They exclude the block that opens two
  polls on one tx: of the two ids the code keeps the later one, and the other poll is never
  judged.
* `DistinctAddresses`: no two entries share an address. `SameParams`: if the node lists a
  chain under two spellings, it gives them one period; if not, the period in use
  is that of the last answer, and the chain itself has no single deadline to compare with.

`MonitorIsThePump` is what lets every theorem about the pump be used here, and it is not free:
`HandleBlockData` is a step of the pump only if the creations it computes are in
`PollLists` and its block exists. `MonitorInv` says so: `TypeOK`, `HeightsInv` (each height
in the pipeline is one of the chain) and `DataInv` (types of the parameters, polls,
votes and creations in flight; published counters are registered ones and no higher).

Deadlines and the book rest on `BookInv`: `MonitorInv`, `PipelineInv`, `ResultsInv`,
`DeadlineKept` itself, and `IdsInv`: each id the monitor has used, open or judged,
was announced by a block whose results have been answered, i.e. a processed block
with no results request outstanding. An answer to a request that is still out can
therefore bring only new ids, as blocks announce different ones: a poll never
opens twice. That the results are handled in time (`LagInv`) and polls are long gives that a
poll is registered before its deadline.

`SeriesInv` adds where polls come from: each creation in flight was requested in its
block on a loaded chain (`WantedInv`), each open poll was requested in the
block that announced its id, and its votes name its chain (`PollsKnown`). The
counters of a verdict are then those that loading the chain's parameters registered.

**Votes.** `NoInventedVotes` compares cardinalities, which do not add up from step to
step: what is inductive is that the votes of an open poll *are* casts.
`TracedInv` says that the positions of its list are in one-to-one correspondence
with a set of casts on it up to `chain_height` (`Traced`). A block's handler appends
the votes of the next block, whose casts have that very height, hence are new:
`InOrderOnce`, by way of `BlockAtHand`, is what keeps a block from being counted twice,
and `PickedVotes` (in `ContentsProofs`) describes the list that is appended by
the increasing positions of the votes picked. Two bijections with disjoint images make one
(`BijectionJoined`), and an injection never lowers a cardinality (`ImageCount`).

**Outcomes.** The counters forget which polls they count. `LedgerInv` says that they could
tell: there is a function `final`, the judged polls as they were, such that
each counter is the number of outcomes of those polls with its key (`Books`), and
the votes of `final` are traced to casts on the poll. It also says that open and judged
ids are disjoint, from `IdsInv`: a poll judged twice would add outcomes to
polls that already have theirs. A block's handler extends `final` by the polls
that are due (`JudgedBooks`), chain parameters add counters of no outcome
(`RegisteredBooks`). With one vote each, an outcome determines
its broadcaster's poll (`OneOutcomeEach`), so the outcomes of a name are as many as the
polls. That the counters of a name, summed with a fold, are the cardinality of the union
of their outcomes is `SumCounts` (in `TallyProofs`): the prover does no induction over
data, so it is proved from the least counterexample to the recursive
definition of the fold.

**The tally.** `TallyMatchesChain` compares with the chain itself, so it needs the other
direction: nothing is missing. `SmoothInv` holds as long as no request has failed, and
is a chain of orders. `LoadInv`: the chain list is handled before anything else, and no
parameters are behind a block in any queue (`SetupOrder`), so each listed chain's period
is loaded when the first block is handled (`ParamsReady`) and what the block's
handler wants is what the chain opens polls for (`AllWanted`). `StartInv`:
`chain_height` is `last_processed_height` from the first block on. `AwaitedInv`: a
request for results that is still out is for the block last processed, which is
`LagInv` without a failure: it is answered before the next block is. `SeenInv`: every poll
of a processed block is open, judged, or waits for such an answer. `OpenInv`: an open poll
has the data of the chain's poll and *all* casts on it up to `chain_height`, because
it is registered in the block that opens it and votes come later. `JudgedInv` is `LedgerInv`
with all the casts up to the deadline, and the judged polls past theirs.

The judged polls are then those that are `Due` (`DueAreJudged`); a vote of a
judged poll is a cast whose tx is the majority's exactly if the chain's casts favour it
(`MajorityIsFavoured`, `TraceIs`); and a counter counts outcomes that
correspond one to one to the polls, or the casts, that `TrueCount` counts
(`MissedCount`, `VotedCount`).

`MonitorInv`, `DeadlineKept` and `IdsInv` were checked with TLC on the instance of
`monitor_safety` (heights up to 6, 486292 states) before they were proved.

### A block, a verdict

| Theorem | Hypotheses | Statement, of a block or poll of any size |
|---|---|---|
| `ReadingProofs!PollsAreFound` | `ReadingAssumption` | `Spec => []PollsFound` |
| `ReadingProofs!FoundPollsAreReal` | `ReadingAssumption` | `Spec => []PollsReal` |
| `ReadingProofs!VotesAreReadOnce` | `ReadingAssumption` | `Spec => []VotesOnceEach` |
| `VerdictProofs!EveryoneIsCounted` | `VerdictAssumption`, `OneNamePerAddress` | `Spec => []EveryoneAccountedFor` |
| `VerdictProofs!AgreementFollowsPopularity` | `VerdictAssumption`, `OneNamePerAddress` | `Spec => []AgreementIsPopularity` |
| `VerdictProofs!OrderDoesNotMatter` | `VerdictAssumption` | `Spec => []OrderIrrelevant` |

`OneNamePerAddress`: no two entries of the configuration give one address to
different names; the code gives the votes of a shared address to the last of them,
and the others count as missed.

`ReadingInv` relates the block to the chain's record one tx at a time:
`EventsInv`, the pairs of tx and id that `extract_all_poll_events` returns are those
of the opened polls in order (that the later of two colliding ids wins is then a fact
about the map made of a list); `RequestsInv`, each direct request is among the
requests found; `VotesOnceEach` is inductive as it stands. For the verdict the
work is in lemmas: the majority is the tx with most votes and of those the
last in order, whatever order the votes came in; an outcome is a vote or an entry of the
configuration, so counters are cardinalities.

`TallyProofs` and `ContentsProofs` hold what those proofs share: the concatenation of lists
(`Joined`, a recursive function, with existence and uniqueness from the least
counterexample), ids and creations of a block, majority, what adding outcomes
does to counters.

### What is only model-checked

* Liveness: `LearnedTipPublished`, `PollsSettle`, `Aftermath`, `StopsOnlyOnPanic` and the
  fairness of `ImplementsBlockStream`. The prover does not reason about `ENABLED`, hence not about
  fairness. The safety part of `BlockStream` is proved.
* The properties of the runs that expect a violation, which are false.

## 5. What is not modelled

* Chains that start at height 1 (see above), and a node that answers a block
  with another height than the requested one.
* HTTP, JSON, protobuf, base64, bech32: a value decodes or does not.
* The text of the metrics, logging, the TOML file, `RUST_LOG`, generated types.
* A poll whose periods add up to no more than `MAX_FETCH_RETRIES` blocks: its
  results can come after its deadline. Live chains keep polls open for longer.
* Votes of failed txs, which the code takes for accepted ones: the histories hold
  accepted votes only.
* Two configured names with one address: the operators give it to the last of
  them, as the code does; no run has it, and the theorems about names exclude it
  (`OneNamePerAddress`).

## 6. Plan

Done, in this order: `FetchPipeline` with its runs; `BlockStream` and the
refinement; `FetchPipelineProofs`; `VoteTally`; `BlockContents`; `Monitor`; `Rpc`
and `Threads`; the block of `BlockReading`; `PollBook` and the refinement; the lag
and skip bounds; `Threads` and `Monitor` as pumps; deadlines and `PollBook`; the
verdict and the block for every size; the registered series; votes traced to
casts, counters traced to outcomes, and the tally of a run without failures.

Next, proofs:

1. `PollBook`'s own invariant: an open poll is never judged and never past its
   deadline, so that it holds of whatever implements the book.
2. `PollsWereRequested` and `CastsAreFound` for the chains that `BlockReading` builds, block by
   block, so that the tally's theorem rests on how blocks are made.
