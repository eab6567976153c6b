SPECIFICATION DataSpec
CONSTANTS
  Block = 64
  LengthAt = 56
  MaxLength = 130
  CsvCharacters <- MCCsvCharacters
  JsonlCharacters <- MCJsonlCharacters
  MaxFile = 5
  ByteLimits = {0, 3, 9}
  RowLimits = {1, 9}
  Delimiters <- MCDelimiters
  ErrorLimits <- MCErrorLimits
  JsonDocuments <- MCDocuments
  JsonPointers <- MCPointers
  JsonByteLimits = {0, 3, 30}
  ChildLimits = {0, 2, 9}
  Sources = {"a.cpp", "b.cpp"}
  Directories = {"x", "y"}
  MaxEntries = 3
  MaxSpace = 1
  SampleLimits <- MCErrorLimits
  ResultLimits = {0, 2, 9}
  LargestBytes = 4
  LargestRows = 2
  LargestErrors = 2
  JsonLargestBytes = 25
  LargestOutput = 4
  LargestChildren = 3
  LargestIndex = 10
  LargestSample = 2
  LargestResult = 2
  Sextets = {19, 48}
  MaxPayload = 8
  Literals <- MCLiterals
INVARIANTS
  CsvRepliesAreTheFiles
  JsonlRepliesAreTheFiles
  JsonRepliesAreTheFiles
  CompileCommandsRepliesAreTheFiles
  HeadersAreDecoded
  HashesThePaddedMessage
CHECK_DEADLOCK FALSE
