SPECIFICATION MSpec
CONSTANTS
  b1 = b1  a = a  p = p  iss = iss  pol = pol  x = x
  None = None  Wildcard = Wildcard  NoIssuer = NoIssuer  wib = wib  wsa = wsa
  Workers = {wib, wsa}
  K8sSAs = {a}
  IdPs = {p}
  Issuers = {iss}
  IssuerOf <- MCIssuerOf
  Targets = {pol}
  KindOf <- MCKindOf
  Names = {}
  Attrs = {x}
  Allowlist <- MCAllowlist
  JobsOf <- MCJobsOf
  MaxId = 3
  Bindings = {b1}
  SpecsOf <- MCSpecsOf
  BadAttrs = {}
  WantsOf <- SamePolicy
  MaxOps = 1
CONSTRAINT NotYetCalm
INVARIANT KeyIdentifiesOne
CHECK_DEADLOCK FALSE
