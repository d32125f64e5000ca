SPECIFICATION Spec
CONSTANTS
  MemSize = 4
  Byte <- Bytes
  Nul = "NUL"
  Binary <- Binaries
  Options <- AllOptions
  Preloaded <- Runtimes
  Clients <- Requests
  Inputs <- GuestInputs
  Body <- ThreeBytes
  Offsets = {0, 1, 3}
  Limits = {0, 2, 3, 4}
  ProtocolVersion <- TwoBytes
  SourceAddr <- FourBytes
  MaxSets = 1
INVARIANTS
  TypeOK
  NoRuntimeLeaks
  ImportsProvided
  ReadyIsServable
  StringsArrive
  ListsArrive
  BodyInOrder
  UriReadBack
PROPERTY
  NothingElseWritten
