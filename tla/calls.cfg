SPECIFICATION Spec
CONSTANTS
  w1 = w1  w2 = w2  a = a  b = b  p = p  q = q  iss = iss  pol = pol  pol2 = pol2  role = role
  nm = nm  x = x  y = y  None = None  Wildcard = Wildcard  NoIssuer = NoIssuer
  Workers = {w1}
  K8sSAs = {a}
  IdPs = {p, q}
  Issuers = {iss}
  IssuerOf <- MCIssuerOf
  Targets = {pol, pol2, role}
  KindOf <- MCKindOf
  Names = {nm}
  Attrs = {x, y}
  Allowlist <- AllowPol
  JobsOf <- OneWorkerJobs
  MaxId = 5
CONSTRAINT NotYetCalm
INVARIANTS TypeOK UniqueIdentity UniqueGrant FederatedIdentityBacked EnsureComplete DeleteComplete AllowlistRespected
PROPERTIES RemovesOnlyOwn
CHECK_DEADLOCK FALSE
