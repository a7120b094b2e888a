SPECIFICATION FairSpec
CONSTANTS
  a1 = a1
  a2 = a2
  p1 = p1
  p2 = p2
  c1 = c1
  c2 = c2
  w1 = w1
  w2 = w2
  Aggregates = {a1, a2}
  Partitions = {p1, p2}
  Consumers = {c1, c2}
  Publishers = {w1, w2}
  Scenes <- MCScenes
  MaxSequence = 2
CHECK_DEADLOCK FALSE
INVARIANTS
    ConsumedInOrder
    PublishedInOrder
PROPERTIES
    EventsApplied
    ReplaysTakeEffect
