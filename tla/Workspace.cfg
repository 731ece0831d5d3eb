CONSTANTS
  t1 = t1
  t2 = t2
  u1 = u1
  u2 = u2
  Threads <- MCThreads
  Found <- MCFound
  Home <- MCHome
  Slots = {1, 2}
  Capabilities = {"workspace.write", "network.read", "mcp"}
  NoThread = NoThread
  NoTurn = NoTurn
  MaxAsks = 2
  MaxRuntime = 1
  MaxFaults = 2
SPECIFICATION FairSpec
CHECK_DEADLOCK FALSE
INVARIANTS AuthorityFollowsThread NoRecoveryForgotten
PROPERTIES ConsentGiven RecoveriesSettle
