------------------------------ MODULE ChatIds ------------------------------
(***************************************************************************)
(* The ids chats are stored under.  Telegram counts basic groups and       *)
(* channels separately; both are stored in one collection under negative   *)
(* ids, those of channels set off by a prefix.  Telegram's own ids stay    *)
(* below the prefix, 10^12 in the code, so 64 bits are wide enough.        *)
(***************************************************************************)
EXTENDS Integers

CONSTANT Prefix

ASSUME PrefixAssumption == Prefix \in Nat \ {0}

RawID == 1 .. (Prefix - 1)

canonicalBasicGroupID(id) == IF id < 0 THEN id ELSE -id

\* Slip: a channel's id is only negated, as a basic group's is.
MutCanonicalChannelID(id) == IF id < 0 THEN id ELSE -id

canonicalChannelID(id) ==
  CASE id <= -Prefix           -> id
    [] -Prefix < id /\ id < 0  -> -(Prefix - id)
    [] OTHER                   -> -(Prefix + id)

\* The chats there are to be registered; private chats are not.
Peer == [kind : {"chat", "channel"}, id : RawID]

ChatID(p) ==
  IF p.kind = "chat" THEN canonicalBasicGroupID(p.id) ELSE canonicalChannelID(p.id)

=============================================================================
