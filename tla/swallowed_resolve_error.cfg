SPECIFICATION Spec
CONSTANTS
  w1 = w1  w2 = w2  a = a  b = b  p = p  q = q  iss = iss  pol = pol  pol2 = pol2  role = role
  nm = nm  x = x  y = y  None = None  Wildcard = Wildcard  NoIssuer = NoIssuer
  Workers = {w1}
  K8sSAs = {a}
  IdPs = {p}
  Issuers = {iss}
  IssuerOf <- OneIssuer
  Targets = {pol, role}
  KindOf <- MCKindOf
  Names = {}
  Attrs = {x}
  Allowlist <- MCAllowlist
  JobsOf <- IdentityJobs
  MaxId = 8
INVARIANTS DeleteRemovesBindings
CHECK_DEADLOCK FALSE
