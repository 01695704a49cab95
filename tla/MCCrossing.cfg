SPECIFICATION MCSpec
CONSTANTS
  Unset = Unset
  Bytes <- MCBytes
  Units16 <- MCUnits16
  Units32 <- MCUnits32
  MaxLength = 3
  MaxBytes = 4
  BufferSize = 8
  Corners = {}
  IntegerBits = 6
  MantissaBits = 4
  Overflow <- MCOverflow
  Enum <- MCEnum
  Bases <- MCBases
  Offset <- MCOffset
  Sent <- MCSent
  Found <- MCFound
  Programs <- MCPrograms
  ValueCorners = {}
  Menu <- Calls
  CallCorners = {}
INVARIANTS
  WithinRoom
  Transcoded
  RoundTrips
  AnswersFit
  LeftAlone
  FirstMatchRuns
  ArgumentsInPlace
  AnswersAsPromised
  ObjectsSound
  DependenciesKept
PROPERTY ConversionEnds
