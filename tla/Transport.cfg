CONSTANTS
  Client = client
  Server = server
  Messages <- MCMessages
  Base = 2
  LenBytes = 2
  Capacity = 3
  Nothing = nothing
SPECIFICATION FairSpec
PROPERTIES
  ImplementsExchange
  ExchangeCompletes
CHECK_DEADLOCK FALSE
