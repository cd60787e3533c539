SPECIFICATION LogSpec
SYMMETRY Symmetry
CONSTANTS
  phone = phone
  grant = grant
  regrant = regrant
  revoke = revoke
  suppress = suppress
  clear = clear
  Keys = {phone}
  Events = {grant, regrant, revoke, suppress, clear}
  KeyOf <- OnePhone
  IdOf <- EventIds
  OperationOf <- EventOperations
  Fields <- PolicyFields
  Values <- Booleans
  Default <- PolicyDefault
  Sets <- PolicySets
  Writers = {w1, w2, w3}
  Evaluates = TRUE
  Faults = {"fails", "lost", "crash"}
INVARIANTS LogTypeOK RecordedOnce FieldsAreLatest AnswersAreTrue
PROPERTY NoResurrection
