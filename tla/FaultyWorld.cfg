SPECIFICATION Spec
CONSTANTS
  owner = owner
  bot = bot
  human = human
  basic = basic
  mega = mega
  cast = cast
  private = private
  NoUser = NoUser
  AsChannel = AsChannel
  Common = Common
  User <- mcUser
  Owner <- owner
  Bot <- mcBot
  Chat <- mcMany
  ChatKind <- mcKind
  MirrorBotMessages = TRUE
  Grace = 0
  Samples <- mcWide
  Faults = {"sender", "reply", "mongo", "send", "anonymous"}
  MaxPosts = 2
  MaxStarts = 2
  MaxTime = 2
INVARIANTS
  MirrorsOnlyBotOrders
  RegisteredBeforeAnswer
  MirroredRepliesAreExplained
PROPERTY
  KeepsService
CHECK_DEADLOCK FALSE
