\* One writer, the watcher, the sampler and a request: safety of the transactions.
SPECIFICATION ServerSpec
CONSTANTS
  i1 = i1
  s1 = s1
  s2 = s2
  Ids = {i1}
  Conns = {s1, s2}
  NoConn = NoConn
  Clients = {c1, c2, c3}
  NoClient = NoClient
  Callers = {w1, watcher, sampler}
  MaxGeneration = 7
  Writers = {w1}
  Watcher = watcher
  Sampler = sampler
  Handlers = {h1}
  Configs <- TwoBrokers
  Torn = Torn
  Nobody = Nobody
  Flaky = {s2}
  BindMounted = TRUE
  BootEdits = FALSE
  BackEdits = TRUE
  MaxWrites = 2
SYMMETRY Symmetry
INVARIANTS TransactionsAreAtomic HandlersArePaired ApplyNeverStale
CHECK_DEADLOCK FALSE
