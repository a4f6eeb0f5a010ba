SPECIFICATION Spec
CONSTANTS
  None = None
  s1 = s1
  b1 = b1
  p1 = p1
  c1 = c1
  t1 = t1
  i1 = i1
  Subdomains = {s1}
  Backends = {b1}
  Ports = {p1}
  Secrets = {c1}
  Tokens = {t1}
  Images = {i1}
  ExitCodes = {10}
  SecretFailures = {}
  ServiceFailures = {}
  CacheLag = FALSE
  Faults = {}
  MaxGeneration = 2
  MaxIncarnations = 1
  MaxDisturbances = 2
CHECK_DEADLOCK FALSE
PROPERTIES
  WorkingTunnelIsNotFailed
