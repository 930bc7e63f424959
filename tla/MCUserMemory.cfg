\* No symmetry: a liveness property is checked.
SPECIFICATION MemFairSpec
CONSTANTS
  Clients = {c1, c2}
  Sessions = {s1}
  Messages = {"intro", "talk"}
  Batches = {1, 50}
  Facts = {"Likes Go", "likes go", "Uses Vim"}
  Folded <- MCFolded
  FactsIn <- MCFactsIn
  Mentions <- MCMentions
  Queries = {"i"}
  Named = {"i"}
  Hits <- MCHits
  Hops = {3}
  TopK = 1
  NoTalk = NoTalk
  MaxRequests = 3
INVARIANTS CountsAreOfMessages QueryMissesNothing
PROPERTIES CallsAnswered
CHECK_DEADLOCK FALSE
