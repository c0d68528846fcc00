SPECIFICATION FairSpec
CONSTANTS
  owner = owner
  bot = bot
  human = human
  basic = basic
  mega = mega
  cast = cast
  private = private
  NoUser = NoUser
  AsChannel = AsChannel
  Common = Common
  User <- mcUser
  Owner <- owner
  Bot <- mcBot
  Chat <- mcSelf
  ChatKind <- mcKind
  MirrorBotMessages = TRUE
  Grace = 0
  Samples <- mcSelfTalk
  Faults = {"send"}
  MaxPosts = 2
  MaxStarts = 2
  MaxTime = 2
INVARIANTS
  SelfTrafficSettles
  RepeatsOnlyWithinGrace
  TalkIsBounded
PROPERTY
  AllHandled
CHECK_DEADLOCK FALSE
