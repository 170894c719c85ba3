CONSTANTS
  Requesters = {q1, q2}
  Repliers = {r1}
  Infos = {i1, i2, i3}
  Statuses <- MCStatuses
  NULL = NULL
  ClusterPfns = {0, 1, 2, 3}
  ClusterMaxPages = 4
  JiffyBits = 4
  Afters = {0, 1, 3}
  PageSize = 4096
  ObjSizes = {64, 96, 128, 192}
  SgSizes = {16, 24, 32, 40}
  TtSizes = {4, 8}
  PoolElements = 11
SPECIFICATION Spec
VIEW MCView
INVARIANT TypeOK
INVARIANT NoUseAfterFree
PROPERTY WaitReturns
PROPERTY ImplementsUserEvents
INVARIANT MCSgEntriesCoverPages
INVARIANT MCClusteringMatchesReference
INVARIANT MCTransTblPrefix
INVARIANT MCOutOfMemFreesAll
INVARIANT MCPurgeAgeWrapSafe
INVARIANT MCArrayLayoutSound
INVARIANT MCParsePathResolves
INVARIANT MCLunsMgmtEffect
INVARIANT MCIniGroupsMgmtSafe
INVARIANT MCInitiatorsMgmtEffect
INVARIANT MCLegacyLunsStayUnique
INVARIANT MCTraceRoundTrip
INVARIANT MCRelTgtIdsStayValid
INVARIANT MCTgAttrsRoundTrip
