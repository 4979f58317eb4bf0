SPECIFICATION FairSpec
CONSTANTS
  m1 = m1  m2 = m2  s1 = s1  s2 = s2
  Nobody = Nobody
  Emitters = {m1}
  Streams = {s1, s2}
  Kinds = {"stage", "finished"}
  Statuses = {"clean", "incomplete", "excluded"}
  Ordered = {"clean", "incomplete"}
  Paths <- MCPaths
  PageSize = 1
  Rendered = 1
  MaxFrames = 2
  MaxDrops = 1
  Backlog = 0
INVARIANT TypeOK
INVARIANT CountersMatchFeed
PROPERTY FeedSpec
PROPERTY PageSettles
CHECK_DEADLOCK FALSE
