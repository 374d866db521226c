CONSTANTS
  ethereum = ethereum
  base = base
  poll = poll
  NoBody = NoBody
  Garbled = Garbled
  ChainList <- MCChainList
  PollLists <- MCPollLists
  Periods <- MCPeriods
  Undecodable = {4}
  MAX_FETCH_RETRIES = 1
  FirstHeight = 2
  MaxHeight = 4
  Regress = 0
  MaxFaults = 2
  MaxBacklog = 1
CHECK_DEADLOCK FALSE
SPECIFICATION ThreadsFairSpec
INVARIANTS ThreadsTypeOK
PROPERTIES ImplementsPump Aftermath StopsOnlyOnPanic
