SPECIFICATION Spec
SYMMETRY Symmetry
CONSTANTS
  welcome = welcome
  plain = plain
  picture = picture
  login = login
  secret = secret
  NoAlias = NoAlias
  Keys = {welcome}
  Aliases = {plain, secret}
  FeaturesOf <- FeaturesByName
  Editors = {e1, e2}
  MaxRevision = 4
  Faults = {}
INVARIANT RegisteredIsRead
