SPECIFICATION Spec
CONSTANTS
  owner = owner
  bot = bot
  human = human
  basic = basic
  mega = mega
  cast = cast
  private = private
  NoUser = NoUser
  AsChannel = AsChannel
  Common = Common
  User <- mcUser
  Owner <- owner
  Bot <- mcBot
  Chat <- mcGroups
  ChatKind <- mcKind
  MirrorBotMessages = TRUE
  Grace = 0
  Samples <- mcOrders
  Faults = {"mongo"}
  MaxPosts = 1
  MaxStarts = 1
  MaxTime = 1
INVARIANT
  MongoErrorAbortsHandler
CHECK_DEADLOCK FALSE
