---------------------------- MODULE MirrorService ----------------------------
(***************************************************************************)
(* What the userbot promises to those who read its chats, with no workers, *)
(* look-ups, cache or registry: now and then it copies a bot's order into  *)
(* the same chat or answers a command of its owner, each at one stroke, at *)
(* most once per process, in the order of the chat, and only for messages  *)
(* no older than the process and its grace period.                         *)
(***************************************************************************)
EXTENDS MessagePolicy, Sequences

CONSTANTS Common, Samples

VARIABLES
  chats,    \* every message of every chat: what it is, and what it answers
  now, started, starts

promise == <<chats, now, started, starts>>

Init == chats = <<>> /\ now = 1 /\ started = 1 /\ starts = 1

\* Chats that one thread of answers covers: each channel is one, the rest another.
Thread(c) == IF ChatKind[c] \in {"megagroup", "broadcast"} THEN c ELSE Common

Post ==
  /\ \E m \in Samples, r \in 0..Len(chats) :
       chats' = Append(chats,
         [msg |-> [m EXCEPT !.date = now, !.replyTo = r],
          via |-> "outside", src |-> 0, start |-> starts])
  /\ UNCHANGED <<now, started, starts>>

Tick == now' = now + 1 /\ UNCHANGED <<chats, started, starts>>

Restart == starts' = starts + 1 /\ started' = now /\ UNCHANGED <<chats, now>>

Recent(m) == m.date + Grace >= started

\* This process has posted nothing for message i nor for a later one of its thread.
NotPassed(i) ==
  \A j \in DOMAIN chats :
    /\ chats[j].via # "outside" /\ chats[j].start = starts
    /\ Thread(chats[j].msg.chat) = Thread(chats[i].msg.chat)
    => chats[j].src < i

IsBotOrder(m) ==
  /\ ChatKind[m.chat] \in {"basic", "megagroup"}
  /\ m.from \in Bot /\ ~m.out
  /\ "order" \in m.text.cands

\* A command is what the account itself posted, by hand or as a copy.
IsCommand(m) == m.out /\ m.text.lead \in {"ping", "status"}

\* Post, at the account's name, a message of chat c.
Publish(i, via, text, media, replyTo) ==
  \E f \in {Owner, NoUser, AsChannel} :
    chats' = Append(chats,
      [msg |-> [chat |-> chats[i].msg.chat, from |-> f, out |-> TRUE, text |-> text,
                media |-> media, replyTo |-> replyTo, date |-> now,
                userEntity |-> TRUE, chatEntity |-> chats[i].msg.chatEntity],
       via |-> via, src |-> i, start |-> starts])

CopyOrder(i) ==
  LET m == chats[i].msg IN
  /\ IsBotOrder(m) /\ Recent(m) /\ NotPassed(i)
  /\ Publish(i, "mirror", m.text, m.media, m.replyTo)
  /\ UNCHANGED <<now, started, starts>>

AnswerCommand(i) ==
  LET m == chats[i].msg IN
  /\ IsCommand(m) /\ Recent(m) /\ NotPassed(i)
  /\ Publish(i, "command", ResponseText, FALSE, 0)
  /\ UNCHANGED <<now, started, starts>>

Next ==
  \/ Post \/ Tick \/ Restart
  \/ \E i \in DOMAIN chats : CopyOrder(i) \/ AnswerCommand(i)

Spec == Init /\ [][Next]_promise

=============================================================================
