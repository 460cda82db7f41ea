SPECIFICATION FairSpec
CONSTANTS
  b1 = b1  a = a  b = b  p = p  q = q  iss = iss  pol = pol  pol2 = pol2  role = role
  nm = nm  x = x  y = y  None = None  Wildcard = Wildcard  NoIssuer = NoIssuer  wib = wib
  Workers = {wib}
  K8sSAs = {a}
  IdPs = {p}
  Issuers = {iss}
  IssuerOf <- MCIssuerOf
  Targets = {pol}
  KindOf <- MCKindOf
  Names = {}
  Attrs = {x, y}
  Allowlist <- MCAllowlist
  JobsOf <- MCJobsOf
  MaxId = 30
  Bindings = {b1}
  SpecsOf <- CorrectedBinding
  BadAttrs = {y}
  WantsOf <- NoWants
  MaxOps = 2
PROPERTIES EventuallyProvisioned DeletionCompletes
CHECK_DEADLOCK FALSE
