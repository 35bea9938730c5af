\* Objects in all encodings, up to the count that means shared.
SPECIFICATION Spec
CONSTANTS
  NULL = NULL
  Base = 2
  Minus = Minus
  LlValues = 16
  SHARED_INTEGERS = 3
  SHARED_REFCOUNT = 3
  EMBSTR_MAX_LENGTH = 2
  LongMin <- NarrowMin
  LongMax = 3
  Numbers <- NarrowNumbers
  Texts <- FewTexts
  Ids <- FewIds
  SharedAt <- SharedFirst
  MaxHeld = 4
INVARIANTS ObjTypeOK CountsAreHeld SdsHaveOneOwner ReturnsWhatWasAsked
PROPERTY HeldStays
