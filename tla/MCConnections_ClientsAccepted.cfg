SPECIFICATION FairConnSpec
CONSTANTS
  c1 = c1
  c2 = c2
  Client = {c1, c2}
  Listener = Listener
  Other = Other
  NoToken = NoToken
  MaxMessage = 1
  FlushFds = 1
  MaxFds = 1
  InSize = 2
  OutSize = 1
  MaxIn <- MCNoneIn
  MaxOut <- MCNoneOut
PROPERTY ClientsAccepted
