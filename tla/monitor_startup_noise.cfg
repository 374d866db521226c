CONSTANTS
  alice = alice
  bob = bob
  addrA = addrA
  addrB = addrB
  addrX = addrX
  ava = ava
  Ava = Ava
  eth = eth
  NotAVote = NotAVote
  Unreadable = Unreadable
  ChainList <- MCChainList
  Lower <- MCLower
  Broadcasters <- MCBroadcasters
  ConfigParams <- MCConfigParams
  NodeParams <- MCNodeParams
  PollLists <- MCPollLists
  Histories <- MCOnePoll
  MAX_FETCH_RETRIES = 1
  FirstHeight = 2
  MaxHeight = 7
  Regress = 0
  MaxFaults = 1
  MaxBacklog = 1
SPECIFICATION MonitorSpec
PROPERTIES UnknownOnlyAtStartup
