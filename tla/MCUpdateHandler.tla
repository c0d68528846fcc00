--------------------------- MODULE MCUpdateHandler ---------------------------
(***************************************************************************)
(* Small instances of UpdateHandler: one bot, one human and the owner; a   *)
(* basic group, a supergroup, a broadcast channel and a private chat.      *)
(***************************************************************************)
EXTENDS UpdateHandler

CONSTANTS owner, bot, human, basic, mega, cast, private

mcUser     == {owner, bot, human}
mcBot      == {bot}
mcChat     == {basic, mega, cast, private}
mcGroups   == {basic, mega}
mcSelf     == {mega, private}
mcMany     == {mega, cast}
mcKind     == [c \in Chat |-> CASE c = basic -> "basic" [] c = mega -> "megagroup"
                                [] c = cast -> "broadcast" [] OTHER -> "user"]

order  == [lead |-> "plain", cands |-> {"order", "word"}]
noise  == [lead |-> "plain", cands |-> {"date", "address", "word"}]
dotted == [lead |-> "ping", cands |-> {"order"}]
ping   == [lead |-> "ping", cands |-> {}]
other  == [lead |-> "unknown", cands |-> {}]

\* A message with complete entities, and the same without one of them.
In(c, from, text) ==
  [chat |-> c, from |-> from, out |-> FALSE, text |-> text, media |-> FALSE,
   replyTo |-> 0, date |-> 0, userEntity |-> TRUE, chatEntity |-> TRUE]
ByOwner(c, text)  == [In(c, owner, text) EXCEPT !.out = TRUE]
Unsigned(m)       == [m EXCEPT !.from = NoUser]
NoSender(m)       == [m EXCEPT !.userEntity = FALSE]
NoChat(m)         == [m EXCEPT !.chatEntity = FALSE]

\* A bot, unknown until looked up, and a human post orders in two groups, the
\* owner posts a command that holds one, and everything may be a reply to
\* everything before it.
mcGroupTalk == {NoSender(In(basic, bot, order)), NoSender(In(mega, bot, order)),
                NoSender(In(mega, human, order)), In(mega, AsChannel, order),
                ByOwner(mega, dotted), [In(basic, bot, noise) EXCEPT !.media = TRUE]}
\* A bot's order that reads like a command, and a command in a private chat.
mcSelfTalk == {In(mega, bot, dotted), Unsigned(ByOwner(private, ping))}
\* Orders and commands in a supergroup and a channel, entities missing or no
\* sender, and a command this process does not know.
mcWide     == {NoSender(In(mega, bot, order)), NoChat(In(mega, bot, order)),
               In(cast, NoUser, order), NoChat(Unsigned(ByOwner(cast, ping))),
               ByOwner(mega, other), In(mega, bot, noise)}
mcOrders   == {In(mega, bot, order)}

=============================================================================
