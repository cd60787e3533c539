SPECIFICATION Spec
SYMMETRY Symmetry
CONSTANTS
  flow = flow
  other = other
  a = a
  b = b
  text = text
  code = code
  phone = phone
  NoRequest = NoRequest
  NoId = NoId
  Recipients = {phone}
  RecipientOf <- OneRecipient
  Scopes = {flow}
  Requests = {a}
  ScopeOf <- OneScope
  Callers = {c1, c2}
  Ids = {i1, i2}
  Recoverers = {j1}
  RecoveryLimit = 1
  MinAge = 0
  MaxTime = 0
  CallBound = 0
  UniqueScope = TRUE
  Faults = {"lost"}
  Text = {}
  Sensitive = {}
  HasKey = FALSE
  Unregistered = {}
  PolicyMoves = {}
  SessionMoves = {}
INVARIANT PostDispatchMeansUnrecorded
