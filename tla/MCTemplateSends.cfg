SPECIFICATION SendsSpec
SYMMETRY Symmetry
VIEW View
CONSTANTS
  flow = flow
  phone = phone
  NoRequest = NoRequest
  NoId = NoId
  Recipients = {phone}
  RecipientOf <- MCRecipientOf
  Scopes = {flow}
  Requests <- MCRequests
  ScopeOf <- MCScopeOf
  Callers = {c1, c2}
  Ids = {i1, i2}
  Recoverers = {j1}
  RecoveryLimit = 1
  MinAge = 0
  MaxTime = 0
  CallBound = 0
  UniqueScope = TRUE
  Faults = {"crash"}
  Text = {}
  Sensitive <- MCSensitive
  HasKey = TRUE
  Unregistered = {}
  PolicyMoves = {phone}
  SessionMoves = {}
  Keys = {"greet"}
  Aliases = {"letter", "swapped", "login"}
  TemplateOf <- Templates
  NoAlias = "no alias"
  Editors = {e1}
  MaxRevision = 2
  Supplied <- Mappings
  Schemas = {2, 3}
  Values <- AllValues
  References = {"hello", "login"}
  Redaction = "redacted"
  Secrets = {"S"}
CHECK_DEADLOCK FALSE
INVARIANTS SendsTypeOK PostedOnce RecordsMatchMeta RetryIsSafe SentIsAsked SnapshotsRestore SecretsAreNotStored EventsAgree
