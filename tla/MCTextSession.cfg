SPECIFICATION SessionSpec
SYMMETRY Symmetry
CONSTANTS
  phone = phone
  care = care
  claims = claims
  wide = wide
  short = short
  altered = altered
  Keys = {phone}
  Events = {wide, short, altered}
  KeyOf <- OneSession
  IdOf <- EventIds
  Purposes = {care, claims}
  PurposesOf <- EventPurposes
  OpensAt <- EventOpens
  ExpiresAt <- EventExpires
  Fields <- SessionFields
  Values <- Sessions
  Default <- SessionDefault
  Sets <- SessionSets
  Writers = {w1, w2}
  Readers = {q1}
  LastTime = 2
  Evaluates = FALSE
  Faults = {"fails", "lost", "crash"}
INVARIANTS ActiveIsBacked AnswersAreTrue
