SPECIFICATION Spec
CONSTANTS
  Names <- MCNames
  Rank <- MCRank
  Files <- MCFiles
  Slack = 1
  Orders = {"natural", "reverse", "count", "name"}
  Suppose <- MCSuppose
  Limits <- MCLimits
  MaxNews = 2
  MaxInputs = 2
  id1 = id1
  id2 = id2
  id3 = id3
  s1 = s1
  s2 = s2
  s3 = s3
  Junk = Junk
  None = None
  MaxReplies = 1
  Ids <- MCIds
  Subjects <- MCSubjects
  Dates <- MCDates
  Posts <- MCPosts
  Prefix <- MCPrefix
CHECK_DEADLOCK FALSE
INVARIANTS
  PointersAreLive
  OrderIsComplete
  ForestIsSound
  NamedParentKept
  WalkMeetsEveryone
PROPERTIES
  CleanupKeepsOrder
  ComesToPrompt
