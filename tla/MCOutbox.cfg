SPECIFICATION FairSpec
CONSTANTS
  k1 = k1
  k2 = k2
  NoKey = NoKey
  Keys = {k1, k2}
  MaxRows = 3
  BatchSize = 2
  BrokenKeys = {k1}
INVARIANTS
  PublisherTypeOK
  DeliveryFollowsCommit
PROPERTIES
  OrderedPerKey
  PublishedUnlessCrowdedOut
