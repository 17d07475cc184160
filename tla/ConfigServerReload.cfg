\* Brokers that answer, under fairness: the file is served, transactions end, clusters reconnect.
SPECIFICATION FairServerSpec
CONSTANTS
  i1 = i1
  s1 = s1
  s2 = s2
  Ids = {i1}
  Conns = {s1, s2}
  NoConn = NoConn
  Clients = {c1, c2, c3}
  NoClient = NoClient
  Callers = {w1, watcher, sampler}
  MaxGeneration = 7
  Writers = {w1}
  Watcher = watcher
  Sampler = sampler
  Handlers = {}
  Configs <- OnOff
  Torn = Torn
  Nobody = Nobody
  Flaky = {}
  BindMounted = FALSE
  BootEdits = FALSE
  BackEdits = FALSE
  MaxWrites = 2
PROPERTIES FileIsServed ClustersReconnect TransactionsEnd EventuallyReleased
CHECK_DEADLOCK FALSE
