SPECIFICATION FairConnSpec
CONSTANTS
  c1 = c1
  c2 = c2
  Client = {c1}
  Listener = Listener
  Other = Other
  NoToken = NoToken
  MaxMessage = 2
  FlushFds = 1
  MaxFds = 1
  InSize = 2
  OutSize = 1
  MaxIn <- MCIn
  MaxOut <- MCOut
INVARIANTS
  OutputInOrder
  FdsInTime
  NothingForgotten
PROPERTIES
  RequestsHandled
  OutputDelivered
