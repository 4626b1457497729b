SPECIFICATION Spec
CONSTANTS
  Clients = {c1, c2}
  Pieces <- PiecesValue
  Messages <- MessagesValue
  Memory <- MemoryValue
  RxSize = 6
  MaxArgs = 3
  Reads <- ReadsValue
  MaxRequests <- MaxRequestsValue
INVARIANTS
  AnswersAreTrue
  ReadyForNext
PROPERTY
  RequestsAnswered
CHECK_DEADLOCK FALSE
