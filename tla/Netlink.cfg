\* Two processes of the C client, which compete for port 50, and one of the Go
\* client, each started up to two times.
SPECIFICATION FairSpec
CONSTANTS
  CClients = {c1, c2}
  GoClients = {g1}
  Port50 = Port50
  None = None
  Runs = 2
INVARIANTS
  AnswerReachesAsker
  RequestsGivenBack
PROPERTY
  AnsweredUnlessNoMemory
