\* Two peers, two sockets to each, one from elsewhere.
SPECIFICATION FairSpec
CONSTANTS
  Peer = {p1, p2}
  Slot = {s1, s2}
  Inbound = {in}
INVARIANT TypeOK
INVARIANT OpenListed
INVARIANT NeverGivenUp
PROPERTY Reconnects
