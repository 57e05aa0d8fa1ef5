SPECIFICATION RuntimeSpec
CONSTANTS
  MaxIndexRK = 3
  FieldsPerFlush = 3
  Compiled <- MCCompiled
  Meant <- MCMeant
  MaxInt = 4
  StrKeys = {"a", "b"}
  Inputs <- MCInputs
  MaxStores = 5
  Hash <- MCHash
  Orders <- MCOrders
  SortLists <- MCSortLists
  Signatures <- MCSignatures
  UiType <- MCUiType
  Isa <- MCIsa
  TypeId <- MCTypeId
  Coerced <- MCCoerced
  Numeral <- MCNumeral
  EnumValues <- MCEnum
  ByteRank <- MCByte
  FoldedRank <- MCFold
  Units <- MCUnits
  Addons <- MCAddons
  GlobalFonts <- MCFonts
  Sandboxed <- MCSandboxed
  Hosted <- MCHosted
  MaxExtra = 1
  Subjects <- MCSubjects
  Patterns <- MCPatterns
  Replacements <- MCReplacements
  MaxCaptures = 2
  Tainted = {"addon"}
  Callee = "callee"
  MaxFree = 3
INVARIANTS RunsAsMeant AssertsHold TableMeans Traversal LibraryMeans ArgumentsMeant RoundTrip PatternsMean Spreads Barriers
CHECK_DEADLOCK FALSE
