SPECIFICATION Spec
CONSTANTS
  owner = owner
  bot = bot
  human = human
  basic = basic
  mega = mega
  cast = cast
  private = private
  NoUser = NoUser
  AsChannel = AsChannel
  Common = Common
  User <- mcUser
  Owner <- owner
  Bot <- mcBot
  Chat <- mcGroups
  ChatKind <- mcKind
  MirrorBotMessages = TRUE
  Grace = 0
  Samples <- mcGroupTalk
  Faults = {"anonymous"}
  MaxPosts = 2
  MaxStarts = 1
  MaxTime = 1
INVARIANT
  NeverMirrorsRepliesToUserbot
CHECK_DEADLOCK FALSE
