CONSTANTS
  alice = alice
  bob = bob
  addrA = addrA
  addrB = addrB
  addrC = addrC
  addrX = addrX
  eth = eth
  Eth = Eth
  Broadcasters <- MCBroadcasters
  Lower <- MCLower
  Chain = eth
  Txs = {0, 1, 2}
  Senders = {addrA, addrB, addrC, addrX}
  MaxVotes = 4
SPECIFICATION Spec
INVARIANTS MajorityIsOfVoters
