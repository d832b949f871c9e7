SPECIFICATION LinesSpec
CONSTANTS
  InternalErrors <- SomeInternalErrors
  OtherErrors <- SomeErrors
  ImageCodes = 10
  LocalCodes = 78
  ErrorCodes = 146
  Occurrences <- KnownTypes
  OfInstance <- WithInstance
INVARIANT EntriesTellTheError
