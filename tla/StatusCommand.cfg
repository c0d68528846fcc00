SPECIFICATION FairSpec
CONSTANTS
  owner = owner
  guest = guest
  Owner = owner
  Private = Private
  None = None
  Error = Error
  User <- mcUser
  Peers <- mcPeers
  Prefix = 3
  pingMongoTimeout = 1
  statusLookupTimeout = 1
  statusCountTimeout = 2
INVARIANTS
  TypeOK
  ChatsKeptApart
  CountsAreTrue
  AnsweredInTime
PROPERTY
  CommandsAnswered
CHECK_DEADLOCK FALSE
