SPECIFICATION Spec
SYMMETRY Symmetry
CONSTANTS
  flow = flow
  other = other
  a = a
  b = b
  text = text
  code = code
  phone = phone
  NoRequest = NoRequest
  NoId = NoId
  Recipients = {phone}
  RecipientOf <- OneRecipient
  Scopes = {flow}
  Requests = {a, b, code}
  ScopeOf <- OneScope
  Callers = {c1, c2, c3}
  Ids = {i1, i2, i3}
  Recoverers = {j1}
  RecoveryLimit = 1
  MinAge = 0
  MaxTime = 0
  CallBound = 0
  UniqueScope = TRUE
  Faults = {"fails", "lost", "policy", "crash"}
  Text = {}
  Sensitive = {code}
  HasKey = TRUE
  Unregistered = {b}
  PolicyMoves = {}
  SessionMoves = {}
INVARIANTS AttemptsCoherent ScopeSentAtMostOnce OutcomeIsTrue ResultsAreDurable RepliesAreHonest NoStateError UpdatesMatch
