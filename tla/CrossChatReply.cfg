SPECIFICATION Spec
CONSTANTS
  owner = owner
  bot = bot
  human = human
  basic = basic
  mega = mega
  cast = cast
  private = private
  NoUser = NoUser
  AsChannel = AsChannel
  Common = Common
  User <- mcUser
  Owner <- owner
  Bot <- mcBot
  Chat <- mcGroups
  ChatKind <- mcKind
  MirrorBotMessages = TRUE
  Grace = 0
  Samples <- mcGroupTalk
  Faults = {"crosschat"}
  MaxPosts = 3
  MaxStarts = 1
  MaxTime = 1
INVARIANT
  CopiesReplyToTheOriginal
CHECK_DEADLOCK FALSE
