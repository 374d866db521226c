CONSTANTS
  alice = alice
  bob = bob
  addrA = addrA
  addrB = addrB
  addrC = addrC
  addrX = addrX
  eth = eth
  Eth = Eth
  Broadcasters <- MCBroadcasters
  Lower <- MCLower
  Chain = eth
  Txs = {0, 1, 2}
  Senders = {addrA, addrB, addrC, addrX}
  MaxVotes = 3
SPECIFICATION Spec
INVARIANTS EveryoneAccountedFor AgreementIsPopularity OrderIrrelevant
