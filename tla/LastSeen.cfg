SPECIFICATION Spec
CONSTANTS
  u1 = u1
  u2 = u2
  g = g
  title = title
  h1 = h1
  h2 = h2
  NoTitle = NoTitle
  NoID = NoID
  Main = Main
  UserID <- mcUserID
  ChatID <- mcChatID
  Title <- mcTitle
  Thread <- mcThread
  MaxStarts = 2
  MaxCalls = 3
  MaxTime = 2
PROPERTY
  LastSeenMovesForward
CHECK_DEADLOCK FALSE
