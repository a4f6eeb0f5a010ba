SPECIFICATION Spec
CONSTANTS
  None = None
  s1 = s1
  b1 = b1
  p1 = p1
  p2 = p2
  c1 = c1
  t1 = t1
  t2 = t2
  i1 = i1
  Subdomains = {s1}
  Backends = {b1}
  Ports = {p1, p2}
  Secrets = {c1}
  Tokens = {t1, t2}
  Images = {i1}
  ExitCodes = {1, 10}
  SecretFailures = {}
  ServiceFailures = {}
  CacheLag = FALSE
  Faults = {"patch", "crash"}
  MaxGeneration = 2
  MaxIncarnations = 1
  MaxDisturbances = 2
CHECK_DEADLOCK FALSE
SYMMETRY Symmetry
INVARIANTS
  TypeOK
  NoLostWakeup
  FailureIsExplained
  FailureStopsAgent
  PhaseIsDerived
  SettledPodIsCurrent
  SettledStatusIsHonest
PROPERTIES
  StickyFailure
