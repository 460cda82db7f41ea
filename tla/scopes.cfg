SPECIFICATION SSpec
CONSTANTS
  Known = {"openid", "api:read", "api:write"}
  OpenID = "openid"  Empty = ""  Wildcard = "*"  Unknown = "other"
  MaxParts = 3
  NoFI = NoFI
INVARIANT CarriesMeaning
PROPERTY WritesOnlyChanges
