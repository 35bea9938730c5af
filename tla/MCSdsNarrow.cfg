\* Fields of 2, 4 and 6 bits; every length and index up to half the widest.
SPECIFICATION Spec
CONSTANTS
  Six = 4
  Eight = 16
  Sixteen = 64
  MaxPrealloc = 64
  MaxLength = 31
  Lengths <- AllLengths
  Indexes <- AllIndexes
  AvoidNew <- Wrapping
  AvoidGrown <- WrappingGrown
  PastEnd = FALSE
INVARIANTS LengthIsTrue WritesFit AllocIsHonest
