SPECIFICATION FairSpec
CONSTANTS
  None = None
  w1 = w1
  w2 = w2
  t1 = t1
  t2 = t2
  s1 = s1
  s2 = s2
  d1 = d1
  d2 = d2
  Workers = {w1, w2}
  Tunnels = {t1, t2}
  Subdomains = {s1, s2}
  Domains = {d1, d2}
  MaxChanges = 2
INVARIANTS
  ResolverTypeOK
  UrlsAgree
PROPERTIES
  PodsAreMade
  UrlsConverge
