SPECIFICATION Spec
CONSTANTS
  w1 = w1  w2 = w2  a = a  b = b  p = p  q = q  iss = iss  pol = pol  pol2 = pol2  role = role
  nm = nm  x = x  y = y  None = None  Wildcard = Wildcard  NoIssuer = NoIssuer
  Workers = {w1, w2}
  K8sSAs = {a, b}
  IdPs = {p}
  Issuers = {iss}
  IssuerOf <- OneIssuer
  Targets = {pol}
  KindOf <- MCKindOf
  Names = {}
  Attrs = {x}
  Allowlist <- MCAllowlist
  JobsOf <- TwoWorkerJobs
  MaxId = 5
CONSTRAINT NotYetCalm
INVARIANTS UniqueIdentity FederatedIdentityBacked
PROPERTIES RemovesOnlyOwn ImplementsIdentityStore
CHECK_DEADLOCK FALSE
SYMMETRY Swap
