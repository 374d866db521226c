CONSTANTS
  NotAVote = NotAVote
  Unreadable = Unreadable
  addrA = addrA
  addrB = addrB
  eth = eth
  Eth = Eth
  base = base
  Broadcasters <- MCBroadcasters
  Lower <- MCLower
  Params <- MCParams
  Height = 1
  Chains = {eth, Eth, base}
  VoteChains = {eth}
  TxLists <- MCTxLists
  Senders = {addrA, addrB}
  Voted <- MCVoted
  MaxTxs = 3
SPECIFICATION Spec
INVARIANTS PollsFound PollsReal VotesOnceEach
