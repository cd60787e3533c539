SPECIFICATION Spec
SYMMETRY Symmetry
CONSTANTS
  flow = flow
  other = other
  a = a
  b = b
  text = text
  code = code
  phone = phone
  NoRequest = NoRequest
  NoId = NoId
  Recipients = {phone}
  RecipientOf <- OneRecipient
  Scopes = {flow, other}
  Requests = {a, b, code}
  ScopeOf <- TwoScopes
  Callers = {c1, c2}
  Ids = {i1, i2}
  Recoverers = {j1}
  RecoveryLimit = 2
  MinAge = 2
  MaxTime = 2
  CallBound = 1
  UniqueScope = FALSE
  Faults = {"crash", "lost"}
  Text = {}
  Sensitive = {code}
  HasKey = FALSE
  Unregistered = {}
  PolicyMoves = {}
  SessionMoves = {}
INVARIANTS NeverOvertaken IntentSentAtMostOnce Recoverable
