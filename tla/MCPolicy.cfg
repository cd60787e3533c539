SPECIFICATION Spec
SYMMETRY Symmetry
CONSTANTS
  flow = flow
  other = other
  a = a
  b = b
  text = text
  code = code
  phone = phone
  NoRequest = NoRequest
  NoId = NoId
  Recipients = {phone}
  RecipientOf <- OneRecipient
  Scopes = {flow}
  Requests = {text, code}
  ScopeOf <- OneScope
  Callers = {c1, c2}
  Ids = {i1, i2}
  Recoverers = {j1}
  RecoveryLimit = 1
  MinAge = 0
  MaxTime = 0
  CallBound = 0
  UniqueScope = TRUE
  Faults = {"lost", "policy", "crash"}
  Text = {text}
  Sensitive = {code}
  HasKey = TRUE
  Unregistered = {}
  PolicyMoves = {phone}
  SessionMoves = {text}
INVARIANTS PolicyRespected OneFreshResult IInv
PROPERTIES SensitiveFailsClosed OutcomesAreFinal ImplementsLedger
