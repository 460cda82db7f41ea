SPECIFICATION FairAnnSpec
CONSTANTS
  a = a  p = p  q = q  iss = iss  pol = pol  x = x
  None = None  Wildcard = Wildcard  NoIssuer = NoIssuer  wsa = wsa
  Workers = {wsa}
  K8sSAs = {a}
  IdPs = {p}
  Issuers = {iss}
  IssuerOf <- MCIssuerOf
  Targets = {pol}
  KindOf <- MCKindOf
  Names = {}
  Attrs = {x}
  Allowlist <- MCAllowlist
  JobsOf <- MCJobsOf
  MaxId = 12
  BadAttrs = {}
  WantsOf <- Switched
  MaxOps = 2
INVARIANTS STypeOK FinalizerGuardsCloud
PROPERTIES ReadyWhenWritten NoLostUpdate EventuallyProvisionedSA ReadyRecurs CleanupCompletes
CHECK_DEADLOCK FALSE
