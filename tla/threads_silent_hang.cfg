CONSTANTS
  ethereum = ethereum
  base = base
  poll = poll
  NoBody = NoBody
  Garbled = Garbled
  ChainList <- MCChainList
  PollLists <- MCPollLists
  Periods <- MCPeriods
  Undecodable = {}
  MAX_FETCH_RETRIES = 1
  FirstHeight = 2
  MaxHeight = 3
  Regress = 0
  MaxFaults = 0
  MaxBacklog = 1
CHECK_DEADLOCK FALSE
SPECIFICATION ThreadsFairSpec
PROPERTIES ProcessingLoopEnds
