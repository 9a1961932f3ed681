SPECIFICATION FairSpec
CONSTANTS
  h1 = h1
  h2 = h2
  h3 = h3
  t1 = t1
  t2 = t2
  Threads = {h1, h2, h3}
  Tenants = {t1, t2}
  MaxSpawnFailures = 1
  None = None
INVARIANTS TypeOK OneEnginePerTenant
PROPERTIES NoShardLost CallsReturn
