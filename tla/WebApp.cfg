\* Two clusters, of which the first or both may go, and one topic; a poll may be overtaken by another.
SPECIFICATION FairSpec
CONSTANTS
  c1 = c1
  c2 = c2
  t1 = t1
  t2 = t2
  Clusters = {c1, c2}
  Lists <- MCLists
  Topics = {t1}
  Matches <- MCMatches
  Pages = {"dashboard", "topics"}
  Tabs = {"overview"}
  None = None
  MaxVersions = 2
  MaxHistory = 2
  MaxRequests = 2
INVARIANTS AddressShowsRoute BlankOnlyWithoutClusters
PROPERTIES DashboardNeverGoesBack DashboardCatchesUp
