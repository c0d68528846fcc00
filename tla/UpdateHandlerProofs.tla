------------------------- MODULE UpdateHandlerProofs -------------------------
(***************************************************************************)
(* Proofs about UpdateHandler, for every set of users, chats, samples and  *)
(* faults and every bound: its state keeps its type, what it believes      *)
(* about senders is true, and only bot orders are mirrored.                *)
(***************************************************************************)
EXTENDS UpdateHandler, SequenceTheorems, WellFoundedInduction, TLAPS

-----------------------------------------------------------------------------
(* Facts about the decisions on one message.                               *)

\* A sender is a user or nobody.
LEMMA SenderType ==
  ASSUME NEW m \in Message
  PROVE  SenderID(m) \in User \cup {NoUser}
BY PolicyAssumption DEF SenderID

\* The entities call a sender a bot only if Telegram does.
LEMMA EntityTellsTruth ==
  ASSUME NEW m \in Message, SenderIsBotEntity(m)
  PROVE  SenderID(m) \in Bot /\ SenderID(m) \in User
BY PolicyAssumption DEF SenderIsBotEntity

\* What hasOrderNumber accepts holds an order: the other classes have no
\* digit, or are dates and addresses.
LEMMA OrderNumberIsOrder ==
  ASSUME NEW m \in Message, hasOrderNumber(m.text)
  PROVE  "order" \in m.text.cands
<1>1. m.text.cands \subseteq Candidate
  BY DEF Message, Text
<1>2. PICK c \in m.text.cands : containsASCIIDigit(c) /\ ~isIgnoredOrderCandidate(c)
  BY DEF hasOrderNumber
<1> QED
  BY <1>1, <1>2 DEF Candidate, containsASCIIDigit, isIgnoredOrderCandidate

\* A chat whose type reads "group" is a basic group or a supergroup.
LEMMA GroupIsGroup ==
  ASSUME NEW m \in Message, ChatType(m) = "group"
  PROVE  ChatKind[m.chat] \in {"basic", "megagroup"}
BY DEF ChatType

\* A message shouldMirrorBotMessage accepts is a bot's order in a group,
\* provided what the call believes about its sender is true.
LEMMA MirroredIsBotOrder ==
  ASSUME NEW m \in Message, NEW isBot \in BOOLEAN, NEW isReply \in BOOLEAN,
         shouldMirrorBotMessage(m, isBot, isReply),
         isBot => SenderID(m) \in Bot
  PROVE  /\ m.from \in Bot /\ ~m.out
         /\ "order" \in m.text.cands
         /\ ChatKind[m.chat] \in {"basic", "megagroup"}
<1>1. hasOrderNumber(m.text) /\ ~m.out /\ ChatType(m) = "group" /\ isBot
  BY DEF shouldMirrorBotMessage, MirrorCandidate
<1>2. m.from \in Bot
  BY <1>1, PolicyAssumption DEF SenderID
<1> QED
  BY <1>1, <1>2, OrderNumberIsOrder, GroupIsGroup

-----------------------------------------------------------------------------
(* Facts about the log and the workers.                                    *)

\* A worker with something to do has a first message, and it is its own.
LEMMA FirstPending ==
  ASSUME TypeOK, NEW w \in Worker, Pending(w) # {}
  PROVE  /\ Min(Pending(w)) \in DOMAIN log
         /\ Min(Pending(w)) \in Nat \ {0}
         /\ Min(Pending(w)) >= pos[w]
         /\ WorkerOf(log[Min(Pending(w))].msg.chat) = w
         /\ \A i \in Pending(w) : Min(Pending(w)) =< i
<1> DEFINE P == Pending(w)
           less == {ss \in Nat \X Nat : ss[1] < ss[2]}
<1>1. P \subseteq Nat /\ P \subseteq DOMAIN log /\ 0 \notin P
  BY LenProperties DEF TypeOK, Pending
<1>2. IsWellFoundedOn(less, Nat)
  BY NatLessThanWellFounded DEF OpToRel
<1>3. PICK x \in P : \A y \in P : ~(<<y, x>> \in less)
  <2> HIDE DEF less
  <2> QED BY <1>1, <1>2, WFMin
<1>4. \A y \in P : x =< y
  <2>1. \A a, b \in Nat : a < b => <<a, b>> \in less
    OBVIOUS
  <2>2. x \in Nat /\ \A y \in P : y \in Nat
    BY <1>1
  <2> HIDE DEF less, P
  <2>3. \A y \in P : ~(y < x)
    BY <1>3, <2>1, <2>2
  <2> QED
    BY <2>2, <2>3
<1>5. Min(P) \in P /\ \A y \in P : Min(P) =< y
  BY <1>4 DEF Min
<1> QED
  BY <1>1, <1>5 DEF Pending

\* The messages in the log are messages.
LEMMA LoggedIsMessage ==
  ASSUME TypeOK, NEW i \in DOMAIN log
  PROVE  log[i] \in Entry /\ log[i].msg \in Message
<1>1. log \in [1..Len(log) -> Entry]
  BY LenProperties DEF TypeOK
<1> QED
  BY <1>1 DEF Entry

\* A call in flight is about a logged message.
LEMMA InFlightIsMessage ==
  ASSUME TypeOK, NEW w \in Worker, job[w].pc # "idle"
  PROVE  Msg(w) \in Message /\ job[w].id \in DOMAIN log
BY LoggedIsMessage DEF TypeOK, Msg

\* Appending keeps what is there.
LEMMA AppendToLog ==
  ASSUME TypeOK, NEW e \in Entry
  PROVE  /\ Append(log, e) \in Seq(Entry)
         /\ DOMAIN Append(log, e) = 1..(Len(log) + 1)
         /\ DOMAIN log = 1..Len(log) /\ Len(log) \in Nat
         /\ Len(log) + 1 \in DOMAIN Append(log, e)
         /\ DOMAIN log \subseteq DOMAIN Append(log, e)
         /\ \A i \in DOMAIN log : Append(log, e)[i] = log[i]
         /\ Append(log, e)[Len(log) + 1] = e
<1>1. log \in Seq(Entry) /\ DOMAIN log = 1..Len(log) /\ Len(log) \in Nat
  BY LenProperties DEF TypeOK
<1>2. /\ Append(log, e) \in Seq(Entry)
      /\ Len(Append(log, e)) = Len(log) + 1
      /\ \A i \in 1..Len(log) : Append(log, e)[i] = log[i]
      /\ Append(log, e)[Len(log) + 1] = e
  BY <1>1, AppendProperties
<1>3. DOMAIN Append(log, e) = 1..(Len(log) + 1)
  BY <1>1, <1>2
<1> QED
  BY <1>1, <1>2, <1>3

-----------------------------------------------------------------------------
(* The inductive invariant.  That only bot orders are mirrored rests on    *)
(* what the call that mirrors believes about the sender, hence on the      *)
(* cache; and a copy stays a copy of a bot order because the log only      *)
(* grows.                                                                  *)

CacheIsTrue ==
  \A u \in User : cache[u] # "unknown" => (cache[u] = "bot" <=> u \in Bot)

\* What is known of a call in flight when it is about to take its next step.
CallOK(w) ==
  job[w].pc # "idle" =>
    /\ job[w].id \in DOMAIN log
    /\ job[w].pc = "user" => SenderID(Msg(w)) \in User
    /\ job[w].senderIsBot => SenderID(Msg(w)) \in Bot

SourcesAreLogged == \A i \in Posted : log[i].src \in DOMAIN log

IInv ==
  /\ TypeOK
  /\ CacheIsTrue
  /\ \A w \in Worker : CallOK(w)
  /\ SourcesAreLogged
  /\ MirrorsOnlyBotOrders

\* The log keeps every entry it has.
LogGrows == DOMAIN log \subseteq DOMAIN log' /\ \A i \in DOMAIN log : log'[i] = log[i]

\* A call nobody touches stays as it was known.
LEMMA OtherCall ==
  ASSUME NEW v \in Worker, CallOK(v), LogGrows, job'[v] = job[v]
  PROVE  CallOK(v)'
BY DEF CallOK, LogGrows, Msg

\* An idle call is fine.
LEMMA IdleCall ==
  ASSUME NEW v \in Worker, job'[v] = Idle
  PROVE  CallOK(v)'
BY DEF CallOK, Idle

\* Moving a call changes where it is and nothing else.
LEMMA GotoMoves ==
  ASSUME TypeOK, NEW w \in Worker, NEW pc \in PC, Goto(w, pc)
  PROVE  /\ job' \in [Worker -> Job]
         /\ job'[w] = [job[w] EXCEPT !.pc = pc]
         /\ \A v \in Worker \ {w} : job'[v] = job[v]
BY DEF Goto, TypeOK, Job

\* Finishing a call frees its worker and touches no other.
LEMMA DoneFrees ==
  ASSUME TypeOK, NEW w \in Worker, Done(w)
  PROVE  /\ job' \in [Worker -> Job]
         /\ job'[w] = Idle
         /\ \A v \in Worker \ {w} : job'[v] = job[v]
BY DEF Done, TypeOK, Job, Idle, PC, Target

\* A step that leaves the log alone keeps what is said of posts.
LEMMA SameLog ==
  ASSUME IInv, UNCHANGED log
  PROVE  LogGrows /\ SourcesAreLogged' /\ MirrorsOnlyBotOrders' /\ (log \in Seq(Entry))'
BY DEF IInv, TypeOK, LogGrows, SourcesAreLogged, MirrorsOnlyBotOrders, Posted, Mirror, Src

\* A step that appends an entry keeps it too, if the entry is sound.
LEMMA LongerLog ==
  ASSUME IInv, NEW e \in Entry, log' = Append(log, e),
         e.via # "outside" => e.src \in DOMAIN log,
         e.via = "mirror" =>
           LET m == log[e.src].msg IN
             /\ m.from \in Bot /\ ~m.out
             /\ "order" \in m.text.cands
             /\ ChatKind[m.chat] \in {"basic", "megagroup"}
             /\ e.msg.chat = m.chat
             /\ e.msg.text = m.text /\ e.msg.replyTo = m.replyTo
  PROVE  LogGrows /\ SourcesAreLogged' /\ MirrorsOnlyBotOrders' /\ (log \in Seq(Entry))'
<1>1. TypeOK
  BY DEF IInv
<1>2. /\ log' \in Seq(Entry)
      /\ DOMAIN log = 1..Len(log) /\ Len(log) \in Nat
      /\ DOMAIN log' = 1..(Len(log) + 1)
      /\ \A i \in DOMAIN log : log'[i] = log[i]
      /\ log'[Len(log) + 1] = e
  BY <1>1, AppendToLog
<1>3. \A i \in DOMAIN log' : i \in DOMAIN log \/ i = Len(log) + 1
  BY <1>2
<1>4. LogGrows
  BY <1>2 DEF LogGrows
<1>5. SourcesAreLogged'
  BY <1>2, <1>3, <1>4 DEF IInv, SourcesAreLogged, Posted, LogGrows
<1>6. MirrorsOnlyBotOrders'
  <2> SUFFICES ASSUME NEW i \in Mirror'
               PROVE  (/\ Src(i).from \in Bot /\ ~Src(i).out
                       /\ "order" \in Src(i).text.cands
                       /\ ChatKind[Src(i).chat] \in {"basic", "megagroup"}
                       /\ log[i].msg.chat = Src(i).chat
                       /\ log[i].msg.text = Src(i).text
                       /\ log[i].msg.replyTo = Src(i).replyTo)'
    BY DEF MirrorsOnlyBotOrders
  <2>1. CASE i \in DOMAIN log
    <3>1. i \in Mirror /\ log[i].src \in DOMAIN log /\ log'[i] = log[i]
      BY <2>1, <1>2 DEF IInv, SourcesAreLogged, Posted, Mirror
    <3> QED
      BY <3>1, <1>4 DEF IInv, MirrorsOnlyBotOrders, Src, LogGrows
  <2>2. CASE i = Len(log) + 1
    <3>1. e.via = "mirror" /\ log'[i] = e
      BY <2>2, <1>2 DEF Mirror
    <3>2. log'[e.src] = log[e.src]
      BY <3>1, <1>2
    <3> QED
      BY <3>1, <3>2 DEF Src
  <2> QED
    BY <1>3, <2>1, <2>2 DEF Mirror
<1> QED
  BY <1>2, <1>4, <1>5, <1>6

-----------------------------------------------------------------------------
(* The parts of the next invariant, put together.                          *)

LEMMA Assemble ==
  ASSUME (log \in Seq(Entry))', SourcesAreLogged', MirrorsOnlyBotOrders',
         (now \in Nat /\ started \in Nat /\ starts \in Nat)',
         (pos \in [Worker -> Nat \ {0}])', (job \in [Worker -> Job])',
         (cache \in [User -> {"unknown", "bot", "human"}])', CacheIsTrue',
         (users \subseteq User /\ groups \subseteq Chat)',
         \A v \in Worker : CallOK(v)'
  PROVE  IInv'
BY DEF IInv, TypeOK, CallOK

LEMMA InitIInv == Init => IInv
<1> SUFFICES ASSUME Init PROVE IInv
  OBVIOUS
<1>1. log = <<>> /\ DOMAIN log = {} /\ log \in Seq(Entry)
  BY EmptySeq DEF Init
<1>2. TypeOK
  BY <1>1, PolicyAssumption DEF Init, TypeOK, Job, PC, Target, Idle
<1>3. CacheIsTrue /\ \A w \in Worker : CallOK(w)
  BY DEF Init, CacheIsTrue, CallOK, Idle
<1>4. SourcesAreLogged /\ MirrorsOnlyBotOrders
  BY <1>1 DEF SourcesAreLogged, MirrorsOnlyBotOrders, Posted, Mirror
<1> QED
  BY <1>2, <1>3, <1>4 DEF IInv

\* A message anybody posts is logged, and no call is touched.
LEMMA PostStep == IInv /\ Post => IInv'
<1> SUFFICES ASSUME IInv, Post PROVE IInv'
  OBVIOUS
<1>1. TypeOK /\ DOMAIN log \subseteq Nat
  BY LenProperties DEF IInv, TypeOK
<1>2. PICK m \in Samples, r \in {0} \cup DOMAIN log, o \in {0} \cup DOMAIN log :
        log' = Append(log, Outside([m EXCEPT !.date = now, !.replyTo = r], o))
  BY DEF Post, Originals
<1> DEFINE e == Outside([m EXCEPT !.date = now, !.replyTo = r], o)
<1>3. [m EXCEPT !.date = now, !.replyTo = r] \in Message
  <2>1. m \in Message /\ now \in Nat /\ r \in Nat
    BY <1>1, HandlerAssumption DEF TypeOK
  <2>2. [m EXCEPT !.date = now] \in Message
    BY <2>1 DEF Message
  <2>3. [[m EXCEPT !.date = now] EXCEPT !.replyTo = r] \in Message
    BY <2>1, <2>2 DEF Message
  <2> QED
    BY <2>3
<1>4. e \in Entry /\ e.via = "outside"
  BY <1>1, <1>2, <1>3 DEF Outside, Entry, Target, TypeOK
<1>5. LogGrows /\ SourcesAreLogged' /\ MirrorsOnlyBotOrders' /\ (log \in Seq(Entry))'
  BY <1>2, <1>4, LongerLog
<1>6. \A v \in Worker : CallOK(v)'
  BY <1>5, OtherCall DEF IInv, Post
<1>7. CacheIsTrue'
  BY DEF IInv, CacheIsTrue, Post
<1> QED
  BY <1>5, <1>6, <1>7, Assemble DEF IInv, TypeOK, Post, process

LEMMA TickStep == IInv /\ Tick => IInv'
<1> SUFFICES ASSUME IInv, Tick PROVE IInv'
  OBVIOUS
<1>1. LogGrows /\ SourcesAreLogged' /\ MirrorsOnlyBotOrders' /\ (log \in Seq(Entry))'
  BY SameLog DEF Tick
<1>2. \A v \in Worker : CallOK(v)'
  BY <1>1, OtherCall DEF IInv, Tick
<1>3. CacheIsTrue'
  BY DEF IInv, CacheIsTrue, Tick
<1> QED
  BY <1>1, <1>2, <1>3, Assemble DEF IInv, TypeOK, Tick, process

\* A new process knows nothing, so nothing it knows is wrong.
LEMMA RestartStep == IInv /\ Restart => IInv'
<1> SUFFICES ASSUME IInv, Restart PROVE IInv'
  OBVIOUS
<1>1. LogGrows /\ SourcesAreLogged' /\ MirrorsOnlyBotOrders' /\ (log \in Seq(Entry))'
  BY SameLog DEF Restart
<1>2. \A v \in Worker : CallOK(v)'
  BY IdleCall DEF Restart
<1>3. CacheIsTrue'
  BY DEF CacheIsTrue, Restart
<1>4. (pos \in [Worker -> Nat \ {0}])'
  <2>1. 1..(Len(log) + 1) \subseteq Nat \ {0}
    BY LenProperties DEF IInv, TypeOK
  <2> QED
    BY <2>1 DEF Restart
<1>5. (job \in [Worker -> Job])'
  BY DEF Restart, Job, Idle, PC, Target
<1> QED
  BY <1>1, <1>2, <1>3, <1>4, <1>5, PolicyAssumption, Assemble DEF IInv, TypeOK, Restart

-----------------------------------------------------------------------------
(* The steps of a call.                                                    *)

LEMMA NextPC ==
  ASSUME NEW m \in Message, NEW isBot \in BOOLEAN
  PROVE  /\ AfterUser(m) \in {"group", "act"}
         /\ AfterReply(m) \in {"user", "group", "act"}
         /\ AfterReply(m) = "user" => SenderID(m) \in User
         /\ AfterSender(m, isBot) \in {"reply", "user", "group", "act"}
         /\ AfterSender(m, isBot) = "user" => SenderID(m) \in User
BY SenderType DEF AfterUser, AfterReply, AfterSender

\* Ignoring a message moves the worker on.
LEMMA IgnoreHistoricalStep ==
  ASSUME IInv, NEW w \in Worker, IgnoreHistorical(w)
  PROVE  IInv'
<1>1. LogGrows /\ SourcesAreLogged' /\ MirrorsOnlyBotOrders' /\ (log \in Seq(Entry))'
  BY SameLog DEF IgnoreHistorical
<1>2. \A v \in Worker : CallOK(v)'
  BY <1>1, OtherCall DEF IInv, IgnoreHistorical
<1>3. CacheIsTrue'
  BY DEF IInv, CacheIsTrue, IgnoreHistorical
<1>4. (pos \in [Worker -> Nat \ {0}])'
  BY FirstPending DEF IgnoreHistorical, Advance, IInv, TypeOK
<1> QED
  BY <1>1, <1>2, <1>3, <1>4, Assemble DEF IInv, TypeOK, IgnoreHistorical, process

\* A call starts with what the entities and the cache say of the sender.
LEMMA HandleMessageStep ==
  ASSUME IInv, NEW w \in Worker, HandleMessage(w)
  PROVE  IInv'
<1> DEFINE i == Min(Pending(w))
           m == log[i].msg
           pc == IF SenderUnknown(m) THEN "sender" ELSE AfterSender(m, KnownBot(m))
           call == [Idle EXCEPT !.id = i, !.senderIsBot = KnownBot(m), !.pc = pc]
<1>1. i \in DOMAIN log /\ i \in Nat \ {0} /\ m \in Message
  BY FirstPending, LoggedIsMessage DEF IInv, HandleMessage
<1>2. KnownBot(m) \in BOOLEAN /\ (KnownBot(m) => SenderID(m) \in Bot)
  BY <1>1, EntityTellsTruth DEF KnownBot, IInv, CacheIsTrue
<1>3. pc \in PC /\ (pc = "user" => SenderID(m) \in User)
  BY <1>1, <1>2, NextPC DEF PC
<1> HIDE DEF pc
<1>4. call \in Job /\ call.id = i /\ call.senderIsBot = KnownBot(m) /\ call.pc = pc
  BY <1>1, <1>2, <1>3 DEF Job, Idle, Target
<1>5. job' = [job EXCEPT ![w] = call]
  BY DEF HandleMessage, pc
<1> HIDE DEF call, m, i
<1>6. LogGrows /\ SourcesAreLogged' /\ MirrorsOnlyBotOrders' /\ (log \in Seq(Entry))'
  BY SameLog DEF HandleMessage
<1>7. job' \in [Worker -> Job] /\ job'[w] = call /\ \A v \in Worker \ {w} : job'[v] = job[v]
  BY <1>4, <1>5 DEF IInv, TypeOK
<1>8. \A v \in Worker : CallOK(v)'
  <2>1. CallOK(w)'
    <3>1. log' = log
      BY DEF HandleMessage
    <3>2. Msg(w)' = m
      BY <1>4, <1>7, <3>1 DEF Msg, m
    <3> QED
      BY <1>1, <1>2, <1>3, <1>4, <1>7, <3>1, <3>2 DEF CallOK
  <2> QED
    BY <2>1, <1>6, <1>7, OtherCall DEF IInv
<1>9. (cache \in [User -> {"unknown", "bot", "human"}])' /\ CacheIsTrue'
  <2>1. cache' = cacheEntity(m)
    BY DEF HandleMessage, m, i
  <2> QED
    BY <1>1, <2>1, EntityTellsTruth DEF cacheEntity, IInv, TypeOK, CacheIsTrue
<1>10. (pos \in [Worker -> Nat \ {0}])'
  BY <1>1 DEF HandleMessage, Advance, IInv, TypeOK, i
<1> QED
  BY <1>6, <1>7, <1>8, <1>9, <1>10, Assemble DEF IInv, TypeOK, HandleMessage, process

\* A call that moves to its next place, with the log as it is, and is fine
\* there, leaves every call fine.
LEMMA CallMoves ==
  ASSUME IInv, NEW w \in Worker, LogGrows, NEW c \in Job, job' = [job EXCEPT ![w] = c],
         c.pc = "idle" \/
           /\ c.id = job[w].id /\ job[w].pc # "idle"
           /\ c.pc = "user" => SenderID(Msg(w)) \in User
           /\ c.senderIsBot => SenderID(Msg(w)) \in Bot
  PROVE  job' \in [Worker -> Job] /\ \A v \in Worker : CallOK(v)'
<1>1. job' \in [Worker -> Job] /\ job'[w] = c /\ \A v \in Worker \ {w} : job'[v] = job[v]
  BY DEF IInv, TypeOK
<1>2. CallOK(w)'
  <2>1. CASE c.pc = "idle"
    BY <1>1, <2>1 DEF CallOK
  <2>2. CASE c.pc # "idle"
    <3>1. job[w].id \in DOMAIN log
      BY <2>2 DEF IInv, CallOK
    <3>2. Msg(w)' = Msg(w) /\ c.id \in DOMAIN log'
      BY <1>1, <2>2, <3>1 DEF Msg, LogGrows
    <3> QED
      BY <1>1, <2>2, <3>2 DEF CallOK
  <2> QED
    BY <2>1, <2>2
<1> QED
  BY <1>1, <1>2, OtherCall DEF IInv

LEMMA ResolveMessageSenderBotStep ==
  ASSUME IInv, NEW w \in Worker, ResolveMessageSenderBot(w)
  PROVE  IInv'
<1> DEFINE m == Msg(w)
           u == SenderID(m)
<1>1. job[w] \in Job /\ job[w].pc = "sender" /\ m \in Message
  BY InFlightIsMessage DEF IInv, TypeOK, ResolveMessageSenderBot
<1>2. LogGrows /\ SourcesAreLogged' /\ MirrorsOnlyBotOrders' /\ (log \in Seq(Entry))'
  BY SameLog DEF ResolveMessageSenderBot
<1>3. (cache \in [User -> {"unknown", "bot", "human"}])' /\ CacheIsTrue'
  BY DEF ResolveMessageSenderBot, cacheSenderBot, IInv, TypeOK, CacheIsTrue
<1>4. job' \in [Worker -> Job] /\ \A v \in Worker : CallOK(v)'
  <2>1. CASE job' = [job EXCEPT ![w].senderIsBot = u \in Bot,
                                ![w].pc = AfterSender(m, u \in Bot)]
    <3>1. PICK isBot \in BOOLEAN :
            /\ isBot => u \in Bot
            /\ job' = [job EXCEPT ![w].senderIsBot = isBot,
                                  ![w].pc = AfterSender(m, isBot)]
      <4>1. CASE u \in Bot
        <5>1. (u \in Bot) = TRUE
          BY <4>1
        <5> QED
          BY <2>1, <4>1, <5>1, Zenon
      <4>2. CASE u \notin Bot
        <5>1. (u \in Bot) = FALSE
          BY <4>2
        <5> QED
          BY <2>1, <5>1, Zenon
      <4> QED
        BY <4>1, <4>2
    <3> DEFINE c == [job[w] EXCEPT !.senderIsBot = isBot, !.pc = AfterSender(m, isBot)]
    <3>2. AfterSender(m, isBot) \in PC
          /\ (AfterSender(m, isBot) = "user" => u \in User)
      BY <1>1, NextPC DEF PC
    <3>3. c \in Job /\ c.id = job[w].id /\ c.senderIsBot = isBot
          /\ c.pc = AfterSender(m, isBot)
      BY <1>1, <3>2 DEF Job
    <3>4. job' = [job EXCEPT ![w] = c]
      BY <3>1 DEF IInv, TypeOK
    <3> HIDE DEF c
    <3> QED
      BY <1>1, <1>2, <3>1, <3>2, <3>3, <3>4, CallMoves
  <2>2. CASE Goto(w, AfterReply(m))
    <3> DEFINE c == [job[w] EXCEPT !.pc = AfterReply(m)]
    <3>1. AfterReply(m) \in PC /\ (AfterReply(m) = "user" => u \in User)
      BY <1>1, NextPC DEF PC
    <3>2. c \in Job /\ c.id = job[w].id /\ c.senderIsBot = job[w].senderIsBot
          /\ c.pc = AfterReply(m)
      BY <1>1, <3>1 DEF Job
    <3>3. job' = [job EXCEPT ![w] = c]
      BY <2>2 DEF Goto, IInv, TypeOK
    <3>4. c.senderIsBot => u \in Bot
      BY <1>1, <3>2 DEF IInv, CallOK
    <3> HIDE DEF c
    <3> QED
      BY <1>1, <1>2, <3>1, <3>2, <3>3, <3>4, CallMoves
  <2> QED
    BY <2>1, <2>2 DEF ResolveMessageSenderBot
<1> QED
  BY <1>2, <1>3, <1>4, Assemble DEF IInv, TypeOK, ResolveMessageSenderBot, process

LEMMA ResolveReplyToUserbotStep ==
  ASSUME IInv, NEW w \in Worker, ResolveReplyToUserbot(w)
  PROVE  IInv'
<1>1. job[w] \in Job /\ job[w].pc = "reply" /\ Msg(w) \in Message
  BY InFlightIsMessage DEF IInv, TypeOK, ResolveReplyToUserbot
<1>2. LogGrows /\ SourcesAreLogged' /\ MirrorsOnlyBotOrders' /\ (log \in Seq(Entry))'
  BY SameLog DEF ResolveReplyToUserbot
<1>3. PICK t \in Target : job' = [job EXCEPT ![w].target = t, ![w].pc = AfterReply(Msg(w))]
  BY DEF ResolveReplyToUserbot, targetOf, Target
<1> DEFINE c == [job[w] EXCEPT !.target = t, !.pc = AfterReply(Msg(w))]
<1>4. AfterReply(Msg(w)) \in PC /\ (AfterReply(Msg(w)) = "user" => SenderID(Msg(w)) \in User)
  BY <1>1, NextPC DEF PC
<1>5. c \in Job /\ c.id = job[w].id /\ c.senderIsBot = job[w].senderIsBot
      /\ c.pc = AfterReply(Msg(w))
  BY <1>1, <1>4 DEF Job
<1>6. job' = [job EXCEPT ![w] = c]
  BY <1>3 DEF IInv, TypeOK
<1>7. c.senderIsBot => SenderID(Msg(w)) \in Bot
  BY <1>1, <1>5 DEF IInv, CallOK
<1>8. job' \in [Worker -> Job] /\ \A v \in Worker : CallOK(v)'
  <2> HIDE DEF c
  <2> QED BY <1>1, <1>2, <1>4, <1>5, <1>6, <1>7, CallMoves
<1> QED
  BY <1>2, <1>8, Assemble DEF IInv, TypeOK, ResolveReplyToUserbot, process, CacheIsTrue

\* registerSeen moves the call and touches nothing it knows.
LEMMA RegisterStep ==
  ASSUME IInv, NEW w \in Worker, EnsureUser(w) \/ EnsureGroup(w)
  PROVE  IInv'
<1>1. job[w] \in Job /\ job[w].pc \in {"user", "group"} /\ Msg(w) \in Message
  BY InFlightIsMessage DEF IInv, TypeOK, EnsureUser, EnsureGroup
<1>2. LogGrows /\ SourcesAreLogged' /\ MirrorsOnlyBotOrders' /\ (log \in Seq(Entry))'
  BY SameLog DEF EnsureUser, EnsureGroup
<1>3. \E r \in BOOLEAN, pc \in {"group", "act"} :
        job' = [job EXCEPT ![w] = [job[w] EXCEPT !.pc = pc, !.registered = r]]
  <2>1. AfterUser(Msg(w)) \in {"group", "act"}
    BY DEF AfterUser
  <2>2. job[w].registered \in BOOLEAN
    BY <1>1 DEF Job
  <2>3. [job[w] EXCEPT !.pc = "act"] =
        [job[w] EXCEPT !.pc = "act", !.registered = job[w].registered]
    BY <1>1 DEF Job
  <2>4. CASE job' = [job EXCEPT ![w].pc = AfterUser(Msg(w)),
                                ![w].registered = (AfterUser(Msg(w)) = "act")]
    BY <2>1, <2>4 DEF IInv, TypeOK
  <2>5. CASE job' = [job EXCEPT ![w].pc = "act", ![w].registered = TRUE]
    BY <2>5 DEF IInv, TypeOK
  <2>6. CASE Goto(w, "act")
    BY <2>2, <2>3, <2>6 DEF Goto, IInv, TypeOK
  <2> QED
    BY <2>4, <2>5, <2>6 DEF EnsureUser, EnsureGroup
<1>4. PICK r \in BOOLEAN, pc \in {"group", "act"} :
        job' = [job EXCEPT ![w] = [job[w] EXCEPT !.pc = pc, !.registered = r]]
  BY <1>3
<1> DEFINE c == [job[w] EXCEPT !.pc = pc, !.registered = r]
<1>5. c \in Job /\ c.id = job[w].id /\ c.senderIsBot = job[w].senderIsBot /\ c.pc = pc
  BY <1>1 DEF Job, PC
<1>6. c.senderIsBot => SenderID(Msg(w)) \in Bot
  BY <1>1, <1>5 DEF IInv, CallOK
<1>7. job' \in [Worker -> Job] /\ \A v \in Worker : CallOK(v)'
  <2>1. job' = [job EXCEPT ![w] = c]
    BY <1>4
  <2> HIDE DEF c
  <2> QED BY <1>1, <1>2, <1>5, <1>6, <2>1, CallMoves
<1>8. (users \subseteq User /\ groups \subseteq Chat)'
  <2>1. CASE EnsureUser(w)
    <3>1. SenderID(Msg(w)) \in User
      BY <2>1 DEF IInv, CallOK, EnsureUser
    <3> QED
      BY <2>1, <3>1 DEF EnsureUser, IInv, TypeOK
  <2>2. CASE EnsureGroup(w)
    <3>1. Msg(w).chat \in Chat
      BY <1>1 DEF Message
    <3> QED
      BY <2>2, <3>1 DEF EnsureGroup, IInv, TypeOK
  <2> QED
    BY <2>1, <2>2
<1> QED
  BY <1>2, <1>7, <1>8, Assemble DEF IInv, TypeOK, EnsureUser, EnsureGroup, process, CacheIsTrue

-----------------------------------------------------------------------------
(* The end of a call.                                                      *)

\* What the log tells of a post: the call that made it, and what it says.
SentBy(w, e, via, text, replyTo) ==
  /\ e.via = via /\ e.src = job[w].id /\ e.target = job[w].target
  /\ e.start = starts /\ e.registered = job[w].registered /\ e.original = replyTo
  /\ e.msg.chat = Msg(w).chat /\ e.msg.text = text /\ e.msg.replyTo = replyTo
  /\ e.msg.out = TRUE /\ e.msg.date = now /\ e.msg.from \in PostedAs(Msg(w).chat)

\* What a call sends becomes the last entry of the log, named after it.
LEMMA SendAppends ==
  ASSUME IInv, NEW w \in Worker, job[w].pc # "idle",
         NEW via \in {"mirror", "command"}, NEW text \in Text, NEW media \in BOOLEAN,
         NEW replyTo \in Nat, Send(w, via, text, media, replyTo)
  PROVE  \E e \in Entry : log' = Append(log, e) /\ SentBy(w, e, via, text, replyTo)
<1>1. PICK f \in PostedAs(Msg(w).chat) :
        log' = Append(log,
          [msg |-> [chat |-> Msg(w).chat, from |-> f, out |-> TRUE, text |-> text,
                    media |-> media, replyTo |-> replyTo, date |-> now,
                    userEntity |-> TRUE, chatEntity |-> Msg(w).chatEntity],
           via |-> via, src |-> job[w].id, target |-> job[w].target,
           registered |-> job[w].registered, start |-> starts, original |-> replyTo])
  BY DEF Send
<1>2. job[w] \in Job /\ Msg(w) \in Message /\ now \in Nat /\ starts \in Nat
  BY InFlightIsMessage DEF IInv, TypeOK
<1>3. f \in User \cup {NoUser, AsChannel}
  BY PolicyAssumption DEF PostedAs
<1> DEFINE sent == [chat |-> Msg(w).chat, from |-> f, out |-> TRUE, text |-> text,
                    media |-> media, replyTo |-> replyTo, date |-> now,
                    userEntity |-> TRUE, chatEntity |-> Msg(w).chatEntity]
           e == [msg |-> sent, via |-> via, src |-> job[w].id, target |-> job[w].target,
                 registered |-> job[w].registered, start |-> starts, original |-> replyTo]
<1>4. sent \in Message
  <2>1. Msg(w).chat \in Chat /\ Msg(w).chatEntity \in BOOLEAN
    BY <1>2 DEF Message
  <2> QED
    BY <1>2, <1>3, <2>1 DEF Message
<1>5. /\ sent.chat = Msg(w).chat /\ sent.text = text /\ sent.replyTo = replyTo
      /\ sent.out = TRUE /\ sent.date = now /\ sent.from \in PostedAs(Msg(w).chat)
  BY <1>1
<1> HIDE DEF sent
<1>6. e \in Entry
  BY <1>2, <1>4 DEF Entry, Job
<1>7. /\ e.msg = sent /\ e.via = via /\ e.src = job[w].id /\ e.target = job[w].target
      /\ e.start = starts /\ e.registered = job[w].registered /\ e.original = replyTo
  OBVIOUS
<1>8. log' = Append(log, e)
  BY <1>1 DEF sent
<1> HIDE DEF e
<1> QED
  BY <1>5, <1>6, <1>7, <1>8 DEF SentBy

\* The step that matters: the copy is of a bot's order, since the call is
\* about a logged message and what it believes of its sender is true.
LEMMA MirrorStep ==
  ASSUME IInv, NEW w \in Worker, MirrorMessageToSamePeer(w)
  PROVE  IInv'
<1> DEFINE m == Msg(w)
<1>1. job[w] \in Job /\ job[w].pc = "act" /\ m \in Message /\ job[w].id \in DOMAIN log
  BY InFlightIsMessage DEF IInv, TypeOK, MirrorMessageToSamePeer
<1>2. /\ m.from \in Bot /\ ~m.out
      /\ "order" \in m.text.cands
      /\ ChatKind[m.chat] \in {"basic", "megagroup"}
  <2>1. shouldMirrorBotMessage(m, job[w].senderIsBot, replyToUserbot(w))
    BY DEF MirrorMessageToSamePeer, Mirrors
  <2>2. job[w].senderIsBot \in BOOLEAN /\ replyToUserbot(w) \in BOOLEAN
    BY <1>1 DEF Job, replyToUserbot
  <2>3. job[w].senderIsBot => SenderID(m) \in Bot
    BY <1>1 DEF IInv, CallOK
  <2> HIDE DEF m
  <2> QED BY <1>1, <2>1, <2>2, <2>3, MirroredIsBotOrder
<1>3. LogGrows /\ SourcesAreLogged' /\ MirrorsOnlyBotOrders' /\ (log \in Seq(Entry))'
  <2>1. CASE UNCHANGED log
    BY <2>1, SameLog
  <2>2. CASE Send(w, "mirror", m.text, m.media, m.replyTo)
    <3>1. m.text \in Text /\ m.media \in BOOLEAN /\ m.replyTo \in Nat
      BY <1>1 DEF Message
    <3>2. PICK e \in Entry :
            log' = Append(log, e) /\ SentBy(w, e, "mirror", m.text, m.replyTo)
      BY <1>1, <2>2, <3>1, SendAppends
    <3>3. /\ e.via = "mirror" /\ e.src = job[w].id
          /\ e.msg.chat = m.chat /\ e.msg.text = m.text /\ e.msg.replyTo = m.replyTo
      BY <3>2 DEF SentBy
    <3>4. log[e.src].msg = m
      BY <3>3 DEF Msg
    <3> QED
      BY <1>1, <1>2, <3>2, <3>3, <3>4, LongerLog
  <2> QED
    BY <2>1, <2>2 DEF MirrorMessageToSamePeer, SendFails
<1>4. job' \in [Worker -> Job] /\ \A v \in Worker : CallOK(v)'
  BY <1>3, DoneFrees, IdleCall, OtherCall DEF MirrorMessageToSamePeer, IInv
<1> QED
  BY <1>3, <1>4, Assemble DEF IInv, TypeOK, MirrorMessageToSamePeer, process, CacheIsTrue

LEMMA ReplyStep ==
  ASSUME IInv, NEW w \in Worker, ReplyToCommand(w)
  PROVE  IInv'
<1>1. job[w].pc # "idle" /\ job[w].id \in DOMAIN log
  BY InFlightIsMessage DEF IInv, ReplyToCommand
<1>2. LogGrows /\ SourcesAreLogged' /\ MirrorsOnlyBotOrders' /\ (log \in Seq(Entry))'
  <2>1. CASE UNCHANGED log
    BY <2>1, SameLog
  <2>2. CASE Send(w, "command", ResponseText, FALSE, 0)
    <3>1. ResponseText \in Text
      BY DEF ResponseText, Text, Lead, Candidate
    <3>2. PICK media \in BOOLEAN : Send(w, "command", ResponseText, media, 0)
      <4> WITNESS FALSE \in BOOLEAN
      <4> QED BY <2>2
    <3>3. PICK e \in Entry :
            log' = Append(log, e) /\ SentBy(w, e, "command", ResponseText, 0)
      BY <1>1, <3>1, <3>2, SendAppends
    <3>4. e.via = "command" /\ e.src = job[w].id
      BY <3>3 DEF SentBy
    <3> QED
      BY <1>1, <3>3, <3>4, LongerLog
  <2> QED
    BY <2>1, <2>2 DEF ReplyToCommand, SendFails
<1>3. job' \in [Worker -> Job] /\ \A v \in Worker : CallOK(v)'
  BY <1>2, DoneFrees, IdleCall, OtherCall DEF ReplyToCommand, IInv
<1> QED
  BY <1>2, <1>3, Assemble DEF IInv, TypeOK, ReplyToCommand, process, CacheIsTrue

LEMMA IgnoreStep ==
  ASSUME IInv, NEW w \in Worker, IgnoreMessage(w)
  PROVE  IInv'
<1>1. LogGrows /\ SourcesAreLogged' /\ MirrorsOnlyBotOrders' /\ (log \in Seq(Entry))'
  BY SameLog DEF IgnoreMessage
<1>2. job' \in [Worker -> Job] /\ \A v \in Worker : CallOK(v)'
  BY <1>1, DoneFrees, IdleCall, OtherCall DEF IgnoreMessage, IInv
<1> QED
  BY <1>1, <1>2, Assemble DEF IInv, TypeOK, IgnoreMessage, process, CacheIsTrue

-----------------------------------------------------------------------------
(* The theorems.                                                           *)

LEMMA StepIInv == IInv /\ [Next]_vars => IInv'
<1> SUFFICES ASSUME IInv, [Next]_vars PROVE IInv'
  OBVIOUS
<1>1. CASE Post
  BY <1>1, PostStep
<1>2. CASE Tick
  BY <1>2, TickStep
<1>3. CASE Restart
  BY <1>3, RestartStep
<1>4. CASE \E w \in Worker : Handle(w)
  <2>1. PICK w \in Worker : Handle(w)
    BY <1>4
  <2> QED
    BY <2>1, IgnoreHistoricalStep, HandleMessageStep, ResolveMessageSenderBotStep,
       ResolveReplyToUserbotStep, RegisterStep, MirrorStep, ReplyStep, IgnoreStep
       DEF Handle
<1>5. CASE UNCHANGED vars
  BY <1>5 DEF vars, process, IInv, TypeOK, CacheIsTrue, CallOK, Msg, SourcesAreLogged,
              MirrorsOnlyBotOrders, Posted, Mirror, Src
<1> QED
  BY <1>1, <1>2, <1>3, <1>4, <1>5 DEF Next

\* The inductive invariant holds in every reachable state.
THEOREM Invariant == Spec => []IInv
BY InitIInv, StepIInv, PTL DEF Spec

\* Whatever is posted, fails or restarts, every variable keeps its type: no
\* worker is ever in a call about a message that is not there, and nothing but
\* users and chats is registered.
THEOREM TypeCorrect == Spec => []TypeOK
<1>1. IInv => TypeOK
  BY DEF IInv
<1> QED
  BY <1>1, Invariant, PTL

\* The cache and every call in flight are right about senders, for any number
\* of workers asking at once and any failures.
THEOREM VerdictsAreTrue == Spec => []SenderVerdictsAreTrue
<1>1. IInv => SenderVerdictsAreTrue
  BY DEF IInv, SenderVerdictsAreTrue, CacheIsTrue, CallOK
<1> QED
  BY <1>1, Invariant, PTL

\* Only orders that bots post in groups and supergroups are ever mirrored, in
\* the same chat, with the same text and reply target.
THEOREM OnlyBotOrdersMirrored == Spec => []MirrorsOnlyBotOrders
<1>1. IInv => MirrorsOnlyBotOrders
  BY DEF IInv
<1> QED
  BY <1>1, Invariant, PTL

=============================================================================
