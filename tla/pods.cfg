SPECIFICATION PSpec
CONSTANTS
  None = None  TokenFile = TokenFile  Audience = Audience  org = org  a1 = a1  a2 = a2  proj = proj  own = own
  Identities <- MCIdentities
  Templates <- MCTemplates
  FailurePolicy = "Ignore"
INVARIANTS PTypeOK TemplateKept InjectedPodsUpdatable InjectedWhole
PROPERTY OnlyUnmountedRefused
