---------------------------- MODULE MessagePolicy ----------------------------
(***************************************************************************)
(* What internal/userbot decides about one Telegram message, without       *)
(* calling anything: the metadata extractMessageMeta computes, the         *)
(* predicates that say which look-ups a message needs, whether it is       *)
(* mirrored and whether it is an owner command.                            *)
(*                                                                         *)
(* Data is abstracted to what these decisions tell apart.  A text is the   *)
(* shape of its first word and the set of classes of the candidates the    *)
(* order pattern finds in it; a chat is a peer with a kind; a user is a    *)
(* model value.                                                            *)
(***************************************************************************)
EXTENDS Naturals

CONSTANTS
  User,               \* Telegram users, the owner among them
  Owner,              \* cfg.UserbotOwnerID
  Bot,                \* the users whose tg.User has its Bot flag set
  NoUser,             \* the zero user id; as a FromID: the field is absent
  AsChannel,          \* a FromID that is not a tg.PeerUser (posted as a chat)
  Chat,               \* the peers messages are posted to
  ChatKind,           \* what each peer is
  MirrorBotMessages,  \* cfg.MirrorBotMessages
  Grace               \* historyCutoffGrace, in ticks of the clock

PeerKind  == {"user", "basic", "megagroup", "broadcast"}
Candidate == {"order", "word", "date", "address"}
Lead      == {"none", "plain", "ping", "status", "unknown"}

(***************************************************************************)
(* Text.lead is "none" for a text that is empty after TrimSpace, "plain"   *)
(* when it does not start with a dot, and otherwise the command its first  *)
(* word names.  Text.cands are the classes of FindAllString's candidates:  *)
(* a "word" has no digit, an "order" has one and is no date or address.    *)
(***************************************************************************)
Text == {t \in [lead : Lead, cands : SUBSET Candidate] :
            t.lead = "none" => t.cands = {}}

Message == [chat       : Chat,
            from       : User \cup {NoUser, AsChannel},  \* msg.FromID
            out        : BOOLEAN,
            text       : Text,
            media      : BOOLEAN,
            replyTo    : Nat,         \* replied-to message id, 0 for none
            date       : Nat,
            userEntity : BOOLEAN,     \* entities.Users has the sender
            chatEntity : BOOLEAN]     \* entities resolve the peer

ASSUME PolicyAssumption ==
  /\ Owner \in User
  /\ Bot \subseteq User \ {Owner}
  /\ NoUser \notin User /\ AsChannel \notin User /\ NoUser # AsChannel
  /\ ChatKind \in [Chat -> PeerKind]
  /\ MirrorBotMessages \in BOOLEAN
  /\ Grace \in Nat

-----------------------------------------------------------------------------
(* Order numbers.                                                          *)

containsASCIIDigit(c) == c # "word"

isIgnoredOrderCandidate(c) == c \in {"date", "address"}

\* Slip: the filter is lost, any candidate with a digit counts.
MutHasOrderNumber(t) == \E c \in t.cands : containsASCIIDigit(c)

hasOrderNumber(t) ==
  \E c \in t.cands : containsASCIIDigit(c) /\ ~isIgnoredOrderCandidate(c)

-----------------------------------------------------------------------------
(* Message metadata.                                                       *)

\* meta.userID: the sender, or the owner for an outgoing message without one.
SenderID(m) ==
  IF m.from \in User THEN m.from ELSE IF m.out THEN Owner ELSE NoUser

\* meta.senderIsBot as the update's own entities tell it.
SenderIsBotEntity(m) == m.userEntity /\ SenderID(m) \in Bot

\* meta.chatType: a channel is a group only when its entity says megagroup.
ChatType(m) ==
  CASE ChatKind[m.chat] = "user"  -> "private"
    [] ChatKind[m.chat] = "basic" -> "group"
    [] ChatKind[m.chat] = "megagroup" /\ m.chatEntity -> "group"
    [] OTHER -> "channel"

hasMirrorableContent(m) == m.text.lead # "none" \/ m.media

\* The author getMessageByID's answer is credited to: unlike SenderID, a FromID
\* that is not a user is credited to nobody even when the message is outgoing.
messageAuthorUserID(m) ==
  CASE m.from \in User   -> m.from
    [] m.from = AsChannel -> NoUser
    [] OTHER -> IF m.out THEN Owner ELSE NoUser

\* inputPeerFromPeer: a basic group needs no entity, every other peer does.
PeerResolves(m) == ChatKind[m.chat] = "basic" \/ m.chatEntity

-----------------------------------------------------------------------------
(* The decisions.                                                          *)

\* Slip: the cutoff is one tick further back than the grace period.
MutIsHistoricalMessage(m, processStart) ==
  m.date # 0 /\ m.date + Grace + 1 < processStart

isHistoricalMessage(m, processStart) ==
  m.date # 0 /\ m.date + Grace < processStart

\* The conjuncts shouldMirrorBotMessage and both look-up predicates share.
MirrorCandidate(m) ==
  /\ MirrorBotMessages
  /\ ChatType(m) = "group"
  /\ hasOrderNumber(m.text)
  /\ ~m.out
  /\ hasMirrorableContent(m)

shouldLookupMessageSenderBot(m, senderIsBot) ==
  MirrorCandidate(m) /\ ~senderIsBot /\ SenderID(m) # NoUser

shouldLookupReplyToUserbot(m, senderIsBot) ==
  MirrorCandidate(m) /\ senderIsBot /\ m.replyTo # 0

shouldMirrorBotMessage(m, senderIsBot, replyToUserbot) ==
  MirrorCandidate(m) /\ senderIsBot /\ ~replyToUserbot

isOwnerCommand(m) ==
  m.out /\ SenderID(m) = Owner /\ m.text.lead \in {"ping", "status", "unknown"}

\* commandResponse: the names it handles.
CommandHandled(m) == m.text.lead \in {"ping", "status"}

\* Slip: the answer quotes the command it answers.
MutResponseText == [lead |-> "status", cands |-> {}]

\* pingResponse and statusResponse start with a word of their own, never a dot.
ResponseText == [lead |-> "plain", cands |-> {}]

=============================================================================
