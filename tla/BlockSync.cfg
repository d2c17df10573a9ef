\* Two blocks, two peers, one block per request; a queue that two copies fill.
SPECIFICATION FairSpec
CONSTANTS
  Peers = {p1, p2}
  MaxNumber = 2
  RequestSizes = {1}
  MaxRequestShards = 2
  QueueLimit = 2
  BufferLimit = 3
  PacketSize = 1
  MaxFaults = 1
  MaxProposals = 1
INVARIANTS TypeOK ChainIsCanonical
PROPERTIES NothingForgotten CatchesUp
