SPECIFICATION Spec
CONSTANTS
  None = None
  s1 = s1
  b1 = b1
  p1 = p1
  c1 = c1
  t1 = t1
  i1 = i1
  Subdomains = {s1}
  Backends = {b1}
  Ports = {p1}
  Secrets = {c1}
  Tokens = {t1}
  Images = {i1}
  ExitCodes = {1, 13}
  SecretFailures = {}
  ServiceFailures = {}
  CacheLag = TRUE
  Faults = {"getTunnel", "getPod", "getSecret", "getService", "listSlices",
            "create", "delete", "patch", "domain", "index", "crash", "evict"}
  MaxGeneration = 1
  MaxIncarnations = 1
  MaxDisturbances = 1
CHECK_DEADLOCK FALSE
INVARIANTS
  NoLostWakeup
PROPERTIES
  AgentsAreContainers
