\* Every page of the console; the bounds are explained in README.md.
SPECIFICATION Spec
CONSTANTS
  Clusters = {c1, c2}
  Groups = {g1, g2}
  Topics = {t1, t2}
  Searches = {"", "x"}
  ReadOnly = {c2}
  None = None
  MaxAsked = 2
  MaxResets = 2
  MaxDialogs = 1
  MaxEntries = 2
  MaxQueries = 2
  MaxStreams = 2
  Texts = {"", "x", " x "}
  Operators = {"contains", "exact"}
  JSONOperators = {"eq"}
  Typed = {3, 7}
  MaxConditions = 2
  MaxScan = 2
  DefaultScan = 1
  Start = 3
  Counts = {1, 2}
  MaxAdds = 2
  MaxVersions = 3
  MaxLoads = 2
  MaxShown = 4
  MaxNotices = 6
  Limit = 2
  Window = 2
  MaxHandlers = 2
  MaxTime = 3
  MaxCalls = 2
INVARIANTS SpinnersEnd StreamIsHeld SharedLinkAsksSame  PageBehindIsLocked FailuresBounded
PROPERTIES OldestGoesFirst
CHECK_DEADLOCK FALSE
