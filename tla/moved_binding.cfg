SPECIFICATION BSpec
CONSTANTS
  b1 = b1  a = a  b = b  p = p  q = q  iss = iss  pol = pol  pol2 = pol2  role = role
  nm = nm  x = x  y = y  None = None  Wildcard = Wildcard  NoIssuer = NoIssuer  wib = wib
  Workers = {wib}
  K8sSAs = {a, b}
  IdPs = {p}
  Issuers = {iss}
  IssuerOf <- MCIssuerOf
  Targets = {pol}
  KindOf <- MCKindOf
  Names = {}
  Attrs = {x}
  Allowlist <- MCAllowlist
  JobsOf <- MCJobsOf
  MaxId = 30
  Bindings = {b1}
  SpecsOf <- MovedBinding
  BadAttrs = {}
  WantsOf <- NoWants
  MaxOps = 3
INVARIANTS DeleteResourcesLeavesNothing
CHECK_DEADLOCK FALSE
