---------------------------- MODULE UpdateHandler ----------------------------
(***************************************************************************)
(* The running userbot: Client.handleMessage and everything it calls,      *)
(* driven by gotd's update workers over the chats of one Telegram account. *)
(*                                                                         *)
(* One worker serves all private chats and basic groups, and each channel  *)
(* has a worker of its own; a worker handles one message at a time, the    *)
(* workers run concurrently and share the sender cache and the registry.   *)
(* What the userbot posts comes back to it as an outgoing message of the   *)
(* same chat.  A restart forgets the cache and the calls in flight, and    *)
(* may deliver any suffix of a chat's messages again.  An error handleMessage *)
(* returns is logged by gotd and the message is not tried again.           *)
(***************************************************************************)
EXTENDS MessagePolicy, Sequences, FiniteSetsExt

CONSTANTS
  Common,      \* the worker of private chats and basic groups
  Samples,     \* the messages others, or the owner by hand, may post
  Faults,      \* what goes wrong outside: a subset of FaultKind
  MaxPosts,    \* bound: messages posted by others or by the owner's own hand
  MaxStarts,   \* bound: starts of the process
  MaxTime      \* bound: ticks of the clock

FaultKind == {"sender",     \* users.getUsers fails or does not name the sender
              "reply",      \* the reply target cannot be read, or is deleted
              "mongo",      \* a registrar returns an error
              "send",       \* sending or forwarding fails
              "crosschat",  \* messages may reply to messages of other chats
              "anonymous"}  \* the account posts to a megagroup as a channel

ASSUME HandlerAssumption ==
  /\ Common \notin Chat
  /\ Samples \subseteq Message
  /\ Faults \subseteq FaultKind
  /\ MaxPosts \in Nat /\ MaxStarts \in Nat \ {0} /\ MaxTime \in Nat \ {0}

VARIABLES
  log,      \* every message of every chat, in the order Telegram numbers them
  now,      \* the clock Telegram dates messages by and time.Now reads
  started,  \* processStart
  starts,   \* how often the process was started
  pos,      \* pos[w]: worker w has yet to handle its messages from here on
  job,      \* job[w]: the handleMessage call worker w is in
  cache,    \* senderBotCache
  users,    \* user ids in the users collection
  groups    \* chats in the groups collection

vars    == <<log, now, started, starts, pos, job, cache, users, groups>>
process == <<started, starts>>

Channels    == {c \in Chat : ChatKind[c] \in {"megagroup", "broadcast"}}
Worker      == {Common} \cup Channels
WorkerOf(c) == IF c \in Channels THEN c ELSE Common

(***************************************************************************)
(* A log entry is a message and where it came from: "outside", or          *)
(* "mirror" or "command" when the call that handled message src in the     *)
(* start-th process posted it.  target tells what that call had learnt of  *)
(* the author of the message src replies to, registered whether registerSeen *)
(* had succeeded.  original is the message a reader sees it reply to, which *)
(* msg.replyTo, read as a number of the message's own chat, may miss.      *)
(***************************************************************************)
Target == {"none", "userbot", "other", "failed"}
Entry  == [msg : Message, via : {"outside", "mirror", "command"}, src : Nat,
           target : Target, registered : BOOLEAN, start : Nat, original : Nat]

Outside(m, o) == [msg |-> m, via |-> "outside", src |-> 0, target |-> "none",
                  registered |-> FALSE, start |-> starts, original |-> o]

PC  == {"idle", "sender", "reply", "user", "group", "act"}
Job == [pc : PC, id : Nat, senderIsBot : BOOLEAN, target : Target, registered : BOOLEAN]

Idle == [pc |-> "idle", id |-> 0, senderIsBot |-> FALSE, target |-> "none",
         registered |-> FALSE]

Msg(w)            == log[job[w].id].msg
replyToUserbot(w) == job[w].target = "userbot"

Init ==
  /\ log = <<>> /\ now = 1 /\ started = 1 /\ starts = 1
  /\ pos = [w \in Worker |-> 1]
  /\ job = [w \in Worker |-> Idle]
  /\ cache = [u \in User |-> "unknown"]
  /\ users = {Owner} /\ groups = {}

-----------------------------------------------------------------------------
(* The world around the process.                                           *)

PostedByHand == Cardinality({i \in DOMAIN log : log[i].via = "outside"})

\* What a reply that bears the number r may be a reply to.  Channels number
\* their messages each by itself, so of two number spaces either may have an r.
Originals(c, r) ==
  {r} \cup {o \in DOMAIN log : /\ "crosschat" \in Faults /\ r # 0
                              /\ WorkerOf(log[o].msg.chat) # WorkerOf(c)}

\* Someone posts a message, perhaps in reply to another one.
Post ==
  /\ PostedByHand < MaxPosts
  /\ \E m \in Samples :
       \E r \in {0} \cup {i \in DOMAIN log : log[i].msg.chat = m.chat} :
         \E o \in Originals(m.chat, r) :
           log' = Append(log, Outside([m EXCEPT !.date = now, !.replyTo = r], o))
  /\ UNCHANGED <<now, process, pos, job, cache, users, groups>>

Tick ==
  /\ now < MaxTime
  /\ now' = now + 1
  /\ UNCHANGED <<log, process, pos, job, cache, users, groups>>

\* The process ends, wherever its handlers are, and NewClient and Start run
\* again: empty cache, new processStart, the owner registered, any backlog.
Restart ==
  /\ starts < MaxStarts
  /\ starts' = starts + 1
  /\ started' = now
  /\ pos' \in [Worker -> 1..(Len(log) + 1)]
  /\ \A w \in Worker, i \in DOMAIN log : pos'[w] = i => WorkerOf(log[i].msg.chat) = w
  /\ job' = [w \in Worker |-> Idle]
  /\ cache' = [u \in User |-> "unknown"]
  /\ users' = users \cup {Owner}
  /\ UNCHANGED <<log, now, groups>>

-----------------------------------------------------------------------------
(* handleMessage, up to the first call out of the process.                 *)

Pending(w) == {i \in DOMAIN log : i >= pos[w] /\ WorkerOf(log[i].msg.chat) = w}

\* handleMessage returns: the worker is free for the chat's next message.
Done(w) == job' = [job EXCEPT ![w] = Idle]

Goto(w, pc) == job' = [job EXCEPT ![w].pc = pc]

Advance(w, i) == pos' = [pos EXCEPT ![w] = i + 1]

\* Slip: only channels are registered.
MutAfterUser(m) == IF ChatType(m) = "channel" THEN "group" ELSE "act"

\* registerSeen, the step after the user: only private chats are left out.
AfterUser(m) == IF ChatType(m) # "private" THEN "group" ELSE "act"

\* Slip: the zero user id is registered too.
MutAfterReply(m) == "user"

AfterReply(m) == IF SenderID(m) # NoUser THEN "user" ELSE AfterUser(m)

\* Slip: the reply look-up is decided before the sender look-up has answered.
MutAfterSender(m, isBot) ==
  IF shouldLookupReplyToUserbot(m, SenderIsBotEntity(m)) THEN "reply" ELSE AfterReply(m)

AfterSender(m, isBot) ==
  IF shouldLookupReplyToUserbot(m, isBot) THEN "reply" ELSE AfterReply(m)

\* Slip: an ignored message is not acknowledged and is handed over for ever.
MutIgnoreHistorical(w) ==
  /\ job[w].pc = "idle" /\ Pending(w) # {}
  /\ isHistoricalMessage(log[Min(Pending(w))].msg, started)
  /\ UNCHANGED vars

IgnoreHistorical(w) ==
  /\ job[w].pc = "idle" /\ Pending(w) # {}
  /\ LET i == Min(Pending(w)) IN
       /\ isHistoricalMessage(log[i].msg, started)
       /\ Advance(w, i)
  /\ UNCHANGED <<log, now, process, job, cache, users, groups>>

\* Slip: a verdict in the cache spares the look-up, but is not used.
MutKnownBot(m) == SenderIsBotEntity(m)

\* resolveMessageSenderBot as far as it needs no call: the update's entities
\* decide first and are remembered, then the cache.
KnownBot(m) == SenderIsBotEntity(m) \/ (SenderID(m) \in User /\ cache[SenderID(m)] = "bot")

SenderUnknown(m) ==
  /\ shouldLookupMessageSenderBot(m, SenderIsBotEntity(m))
  /\ cache[SenderID(m)] = "unknown"

cacheEntity(m) ==
  IF SenderIsBotEntity(m) THEN [cache EXCEPT ![SenderID(m)] = "bot"] ELSE cache

HandleMessage(w) ==
  /\ job[w].pc = "idle" /\ Pending(w) # {}
  /\ LET i == Min(Pending(w))
         m == log[i].msg
     IN /\ ~isHistoricalMessage(m, started)
        /\ Advance(w, i)
        /\ cache' = cacheEntity(m)
        /\ job' = [job EXCEPT ![w] =
             [Idle EXCEPT !.id = i, !.senderIsBot = KnownBot(m),
                          !.pc = IF SenderUnknown(m) THEN "sender"
                                 ELSE AfterSender(m, KnownBot(m))]]
  /\ UNCHANGED <<log, now, process, users, groups>>

-----------------------------------------------------------------------------
(* The look-ups.  A failed one is logged and the message handled as if it  *)
(* had said no.                                                            *)

\* Slip: whoever was looked up is remembered as a bot.
MutCacheSenderBot(u) == [cache EXCEPT ![u] = "bot"]

cacheSenderBot(u) == [cache EXCEPT ![u] = IF u \in Bot THEN "bot" ELSE "human"]

ResolveMessageSenderBot(w) ==
  /\ job[w].pc = "sender"
  /\ LET m == Msg(w)
         u == SenderID(m)
     IN \/ /\ cache' = cacheSenderBot(u)
           /\ job' = [job EXCEPT ![w].senderIsBot = u \in Bot,
                                 ![w].pc = AfterSender(m, u \in Bot)]
        \/ /\ "sender" \in Faults
           /\ Goto(w, AfterReply(m))
           /\ UNCHANGED cache
  /\ UNCHANGED <<log, now, process, pos, users, groups>>

targetOf(m) ==
  IF messageAuthorUserID(log[m.replyTo].msg) = Owner THEN "userbot" ELSE "other"

ResolveReplyToUserbot(w) ==
  /\ job[w].pc = "reply"
  /\ \E t \in {targetOf(Msg(w))} \cup (IF "reply" \in Faults THEN {"failed"} ELSE {}) :
       job' = [job EXCEPT ![w].target = t, ![w].pc = AfterReply(Msg(w))]
  /\ UNCHANGED <<log, now, process, pos, cache, users, groups>>

-----------------------------------------------------------------------------
(* registerSeen: the user, then the chat.  An error ends it, applied or    *)
(* not, and is only logged.                                                *)

EnsureUser(w) ==
  /\ job[w].pc = "user"
  /\ LET m == Msg(w) IN
       \/ /\ users' = users \cup {SenderID(m)}
          /\ job' = [job EXCEPT ![w].pc = AfterUser(m),
                                ![w].registered = (AfterUser(m) = "act")]
       \/ /\ "mongo" \in Faults
          /\ users' \in {users, users \cup {SenderID(m)}}
          /\ Goto(w, "act")
  /\ UNCHANGED <<log, now, process, pos, cache, groups>>

EnsureGroup(w) ==
  /\ job[w].pc = "group"
  /\ \/ /\ groups' = groups \cup {Msg(w).chat}
        /\ job' = [job EXCEPT ![w].pc = "act", ![w].registered = TRUE]
     \/ /\ "mongo" \in Faults
        /\ groups' \in {groups, groups \cup {Msg(w).chat}}
        /\ Goto(w, "act")
  /\ UNCHANGED <<log, now, process, pos, cache, users>>

-----------------------------------------------------------------------------
(* What the call does for the message: a copy, an answer or nothing.       *)

\* Telegram numbers, dates and attributes what the account sends: in a private
\* chat or a broadcast channel the message names no user, and a supergroup may
\* be set up to show the account as a channel.
PostedAs(c) ==
  CASE ChatKind[c] = "basic" -> {Owner}
    [] ChatKind[c] = "megagroup" ->
         IF "anonymous" \in Faults THEN {Owner, AsChannel} ELSE {Owner}
    [] OTHER -> {NoUser}

Send(w, via, text, media, replyTo) ==
  \E f \in PostedAs(Msg(w).chat) :
    log' = Append(log,
      [msg |-> [chat |-> Msg(w).chat, from |-> f, out |-> TRUE, text |-> text,
                media |-> media, replyTo |-> replyTo, date |-> now,
                userEntity |-> TRUE, chatEntity |-> Msg(w).chatEntity],
       via |-> via, src |-> job[w].id, target |-> job[w].target,
       registered |-> job[w].registered, start |-> starts, original |-> replyTo])

SendFails(w) ==
  /\ "send" \in Faults \/ ~PeerResolves(Msg(w))
  /\ UNCHANGED log

Mirrors(w) == shouldMirrorBotMessage(Msg(w), job[w].senderIsBot, replyToUserbot(w))

\* The text is sent again, or the media forwarded without its author; both
\* keep the reply target.
MirrorMessageToSamePeer(w) ==
  /\ job[w].pc = "act" /\ Mirrors(w)
  /\ Send(w, "mirror", Msg(w).text, Msg(w).media, Msg(w).replyTo) \/ SendFails(w)
  /\ Done(w)
  /\ UNCHANGED <<now, process, pos, cache, users, groups>>

Answers(w) == ~Mirrors(w) /\ isOwnerCommand(Msg(w)) /\ CommandHandled(Msg(w))

ReplyToCommand(w) ==
  /\ job[w].pc = "act" /\ Answers(w)
  /\ \/ PeerResolves(Msg(w)) /\ Send(w, "command", ResponseText, FALSE, 0)
     \/ SendFails(w)
  /\ Done(w)
  /\ UNCHANGED <<now, process, pos, cache, users, groups>>

IgnoreMessage(w) ==
  /\ job[w].pc = "act" /\ ~Mirrors(w) /\ ~Answers(w)
  /\ Done(w)
  /\ UNCHANGED <<log, now, process, pos, cache, users, groups>>

-----------------------------------------------------------------------------
Handle(w) ==
  \/ IgnoreHistorical(w) \/ HandleMessage(w)
  \/ ResolveMessageSenderBot(w) \/ ResolveReplyToUserbot(w)
  \/ EnsureUser(w) \/ EnsureGroup(w)
  \/ MirrorMessageToSamePeer(w) \/ ReplyToCommand(w) \/ IgnoreMessage(w)

Next == Post \/ Tick \/ Restart \/ \E w \in Worker : Handle(w)

Spec == Init /\ [][Next]_vars

\* Every call out of the process returns, with an answer or an error, and gotd
\* calls the handler for the next message: each worker goes on.
FairSpec == Spec /\ \A w \in Worker : WF_vars(Handle(w))

-----------------------------------------------------------------------------
(* Properties.                                                             *)

\* Every variable keeps the shape its Go counterpart has; a call in flight is
\* about a message its worker has taken.
TypeOK ==
  /\ log \in Seq(Entry)
  /\ now \in Nat /\ started \in Nat /\ starts \in Nat
  /\ pos \in [Worker -> Nat \ {0}]
  /\ job \in [Worker -> Job]
  /\ cache \in [User -> {"unknown", "bot", "human"}]
  /\ users \subseteq User /\ groups \subseteq Chat
  /\ \A w \in Worker : job[w].pc # "idle" => job[w].id \in DOMAIN log

Posted == {i \in DOMAIN log : log[i].via # "outside"}
Mirror == {i \in DOMAIN log : log[i].via = "mirror"}
Src(i) == log[log[i].src].msg

\* Whatever the look-ups answer and however the workers interleave, a copy is
\* only ever made of an order-bearing message that a Telegram bot posted in
\* the same group or supergroup, and says the same (shouldMirrorBotMessage).
MirrorsOnlyBotOrders ==
  \A i \in Mirror :
    /\ Src(i).from \in Bot /\ ~Src(i).out
    /\ "order" \in Src(i).text.cands
    /\ ChatKind[Src(i).chat] \in {"basic", "megagroup"}
    /\ log[i].msg.chat = Src(i).chat
    /\ log[i].msg.text = Src(i).text /\ log[i].msg.replyTo = Src(i).replyTo

\* A bot's reply to something this account posted is never mirrored, so a
\* mirror does not feed the chain of replies it caused (README.md:42).
NeverMirrorsRepliesToUserbot ==
  \A i \in Mirror :
    LET o == log[log[i].src].original IN o # 0 => ~log[o].msg.out

\* Where one is mirrored all the same, it is for one of three reasons and no
\* other: the look-up failed, the message it replies to shows another author
\* than the account, or the number it bears was given in another chat.
MirroredRepliesAreExplained ==
  \A i \in Mirror :
    LET o == log[log[i].src].original IN
    o # 0 /\ log[o].msg.out
    => \/ log[i].target = "failed"
       \/ log[o].msg.from \notin {Owner, NoUser}
       \/ o # Src(i).replyTo

\* What the sender cache says of a user is what Telegram says, and a call that
\* takes its sender for a bot is right: two workers that look the same user up
\* at once, and a restart in between, never leave a wrong verdict
\* (cacheSenderBot).  A call that does not may just not have been told.
SenderVerdictsAreTrue ==
  /\ \A u \in User : cache[u] # "unknown" => (cache[u] = "bot" <=> u \in Bot)
  /\ \A w \in Worker :
       job[w].pc # "idle" /\ job[w].senderIsBot => SenderID(Msg(w)) \in Bot

\* What the userbot posts comes back to it and does not keep it talking: a copy
\* is never copied, and an answer to a command never answered.
SelfTrafficSettles ==
  \A i \in Posted :
    /\ log[log[i].src].via # "command"
    /\ log[i].via = "mirror" => log[log[i].src].via = "outside"

\* A restart may deliver old messages again; one is answered a second time only
\* by another process, and only if the first answer came within the grace
\* period of the message (isHistoricalMessage).
RepeatsOnlyWithinGrace ==
  \A i, j \in Posted :
    i < j /\ log[i].src = log[j].src
    => /\ log[i].start < log[j].start
       /\ log[i].msg.date <= Src(i).date + Grace

\* However often the process restarts, what it has posted is bounded by what
\* others have: each process copies a message of theirs once, and answers each
\* of those messages and copies once.  Its own posts never set it going.
TalkIsBounded ==
  /\ Cardinality(Mirror) <= PostedByHand * starts
  /\ Cardinality(Posted) <= (PostedByHand + Cardinality(Mirror)) * starts

\* What a message is owed whatever the look-ups meet: a bot's order in a group
\* that answers nothing of the account's a copy, if Telegram can name the bot;
\* the owner's command an answer.
OwedCopy(m) ==
  /\ MirrorBotMessages /\ m.from \in Bot /\ ~m.out
  /\ ChatType(m) = "group" /\ "order" \in m.text.cands
  /\ m.replyTo # 0 => targetOf(m) = "other"
  /\ m.userEntity \/ "sender" \notin Faults

OwedAnswer(m) == isOwnerCommand(m) /\ CommandHandled(m) /\ PeerResolves(m)

\* Nothing owed is dropped: once a worker is past a message that came while
\* this process was up, the process has posted for it, whatever the cache, the
\* other workers and the registrars did meanwhile.
OwedIsPosted ==
  "send" \notin Faults =>
    \A i \in DOMAIN log :
      LET m == log[i].msg
          w == WorkerOf(m.chat)
      IN /\ log[i].start = starts /\ i < pos[w]
         /\ job[w].pc = "idle" \/ job[w].id # i
         /\ OwedCopy(m) \/ OwedAnswer(m)
         => \E j \in Posted : log[j].src = i /\ log[j].start = starts

\* By the time the userbot posts, registerSeen has stored the sender and the
\* chat it posts for, unless it reported an error.
RegisteredBeforeAnswer ==
  \A i \in Posted :
    log[i].registered \/ "mongo" \notin Faults
    => /\ SenderID(Src(i)) \in users
       /\ ChatKind[Src(i).chat] # "user" => Src(i).chat \in groups

\* Once nobody else posts and the process stays up, every worker gets through
\* its messages, those the userbot itself caused included, and rests.
AllHandled == <>[](\A w \in Worker : job[w].pc = "idle" /\ Pending(w) = {})

\* All of it amounts to the service MirrorService promises: look-ups, workers,
\* cache and registry are stutters of it, and each post one atomic answer.
Service == INSTANCE MirrorService WITH
  chats <- [i \in DOMAIN log |-> [msg |-> log[i].msg, via |-> log[i].via,
                                  src |-> log[i].src, start |-> log[i].start]]

KeepsService == Service!Spec

-----------------------------------------------------------------------------
(* What the documents say and the code does not keep.                      *)

\* error-handling-guidelines.md:25: an unavailable Mongo aborts the handler,
\* so nothing is posted for a message that could not be registered.
MongoErrorAbortsHandler == \A i \in Posted : log[i].registered

\* README.md:44: text replies are mirrored as replies to the same original
\* message.
CopiesReplyToTheOriginal ==
  \A i \in Mirror : ~Src(i).media => log[i].original = log[log[i].src].original

=============================================================================
