CONSTANTS
  ethereum = ethereum
  base = base
  poll = poll
  ChainList <- MCChainList
  PollLists <- MCPollLists
  MAX_FETCH_RETRIES = 3
  FirstHeight = 2
  MaxHeight = 6
  Regress = 0
  MaxFaults = 4
  MaxBacklog = 2
SPECIFICATION Spec
INVARIANTS TypeOK SingleFetch NeverStranded ResultsInTime SkipsExhaustRetries ResultsBacklog
PROPERTIES InOrderOnce CountersNeverFall
