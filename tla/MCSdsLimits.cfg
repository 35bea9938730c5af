\* The fields of the code, and lengths around the limits of its headers.
SPECIFICATION Spec
CONSTANTS
  Six = 64
  Eight = 256
  Sixteen = 65536
  MaxPrealloc = 1048576
  MaxLength = 1024
  Lengths <- LimitLengths
  Indexes = {}
  AvoidNew = {}
  AvoidGrown = {}
  PastEnd = TRUE
INVARIANT LengthIsTrue
