SPECIFICATION FairSpec
CONSTANTS
  t1 = t1
  t2 = t2
  t3 = t3
  t4 = t4
  server = server
  script = script
  chat = chat
  other = other
  Turns <- MCTurns
  Threads = {chat, other}
  Processes = {server, script}
  ThreadOf <- MCThreadOf
  ProcessOf <- MCProcessOf
  NoTurn = NoTurn
  PoolSize = 4
  MaxQueries = 1
INVARIANT TypeOK
INVARIANT MutualExclusion
INVARIANT HeldByTheLiving
INVARIANT NoConnectionLeaks
PROPERTY TurnsSettle
