SPECIFICATION PluginsSpec
CONSTANTS
  s1 = s1
  s2 = s2
  s3 = s3
  s4 = s4
  Stream = {s1, s2}
  TotalDispatchNum = 4
  Postponed = {s1, s2, s3, s4}
  Authorized = {s1, s2, s3}
  p1 = p1
  p2 = p2
  Plugin = {p1, p2}
  Timeout = 2
  MaxCalls = 3
  MaxParts = 3
  id = id
  token = token
  Key = {id, token}
  NoKey = NoKey
  v1 = v1
  v2 = v2
  v3 = v3
  v4 = v4
  VM = {v1, v2, v3, v4}
  Network = {v3, v4}
  foo = foo
  bar = bar
  Value = {foo, bar}
  Connections = Connections
  MaxWork = 3
INVARIANT TypeOK
INVARIANT PendingIsOutstanding
INVARIANT PluginTypes
INVARIANT PostponeQueue
INVARIANT HeldByItsCall
INVARIANT CountsOwnCalls
INVARIANT WholeOrHeld
INVARIANT EditsFit
INVARIANT VerdictIsRight
INVARIANT CountersAreExact
INVARIANT FailsSafely
PROPERTY ImplementsPaused
PROPERTY PostponeImplementsPaused
PROPERTY AuthImplementsPaused
CHECK_DEADLOCK FALSE
