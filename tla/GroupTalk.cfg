SPECIFICATION Spec
CONSTANTS
  owner = owner
  bot = bot
  human = human
  basic = basic
  mega = mega
  cast = cast
  private = private
  NoUser = NoUser
  AsChannel = AsChannel
  Common = Common
  User <- mcUser
  Owner <- owner
  Bot <- mcBot
  Chat <- mcGroups
  ChatKind <- mcKind
  MirrorBotMessages = TRUE
  Grace = 0
  Samples <- mcGroupTalk
  Faults = {}
  MaxPosts = 3
  MaxStarts = 2
  MaxTime = 1
INVARIANTS
  TypeOK
  SenderVerdictsAreTrue
  NeverMirrorsRepliesToUserbot
  OwedIsPosted
CHECK_DEADLOCK FALSE
