\* A reload whose broker does not answer at first.
SPECIFICATION FairServerSpec
CONSTANTS
  i1 = i1
  s1 = s1
  s2 = s2
  Ids = {i1}
  Conns = {s1, s2}
  NoConn = NoConn
  Clients = {c1, c2, c3}
  NoClient = NoClient
  Callers = {w1, watcher, sampler}
  MaxGeneration = 7
  Writers = {w1}
  Watcher = watcher
  Sampler = sampler
  Handlers = {}
  Configs <- TwoBrokers
  Torn = Torn
  Nobody = Nobody
  Flaky = {s2}
  BindMounted = FALSE
  BootEdits = FALSE
  BackEdits = FALSE
  MaxWrites = 1
PROPERTIES ReloadIsRetried
CHECK_DEADLOCK FALSE
