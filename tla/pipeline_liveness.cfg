CONSTANTS
  ethereum = ethereum
  base = base
  poll = poll
  ChainList <- MCChainList
  PollLists <- MCPollLists
  MAX_FETCH_RETRIES = 3
  FirstHeight = 2
  MaxHeight = 4
  Regress = 0
  MaxFaults = 4
  MaxBacklog = 1
SPECIFICATION FairSpec
PROPERTIES LearnedTipPublished ImplementsBlockStream
