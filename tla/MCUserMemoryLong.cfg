SPECIFICATION MemFairSpec
CONSTANTS
  Clients = {c1}
  Sessions = {s1}
  Messages = {"intro", "talk"}
  Batches = {1, 50}
  Facts = {"Likes Go", "likes go", "Uses Vim"}
  Folded <- MCFolded
  FactsIn <- MCFactsIn
  Mentions <- MCMentions
  Queries = {"i"}
  Named = {"i"}
  Hits <- MCHits
  Hops = {1, 3}
  TopK = 1
  NoTalk = NoTalk
  MaxRequests = 2
PROPERTY LongTalksShrink
CHECK_DEADLOCK FALSE
