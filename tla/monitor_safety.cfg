CONSTANTS
  alice = alice
  bob = bob
  addrA = addrA
  addrB = addrB
  addrX = addrX
  ava = ava
  Ava = Ava
  eth = eth
  NotAVote = NotAVote
  Unreadable = Unreadable
  ChainList <- MCChainList
  Lower <- MCLower
  Broadcasters <- MCBroadcasters
  ConfigParams <- MCConfigParams
  NodeParams <- MCNodeParams
  PollLists <- MCPollLists
  Histories <- MCHistories
  MAX_FETCH_RETRIES = 1
  FirstHeight = 2
  MaxHeight = 7
  Regress = 0
  MaxFaults = 3
  MaxBacklog = 1
SPECIFICATION MonitorSpec
INVARIANTS MonitorTypeOK TallyMatchesChain OneOutcomePerPoll DeadlineKept NoInventedVotes SeriesRegistered
PROPERTIES VoteCountersNeverFall ImplementsPollBook
