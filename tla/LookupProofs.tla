---------------------------- MODULE LookupProofs ----------------------------
(***************************************************************************)
(* Proofs about what a call of UpdateHandler has stored and learnt by the  *)
(* time it posts, and that it posts what is owed: the sender and the chat  *)
(* are registered unless an error was reported; a bot's reply to the       *)
(* account is not mirrored unless the look-up failed, its target hides its *)
(* author, or it replies to a message of another chat; and no order or     *)
(* command that is owed a post is passed over.                             *)
(***************************************************************************)
EXTENDS ServiceProofs

-----------------------------------------------------------------------------
(* The inductive invariant.                                                *)

SenderStored(m) == SenderID(m) # NoUser => SenderID(m) \in users
ChatStored(m)   == ChatType(m) # "private" => m.chat \in groups

\* How far registerSeen has come for a call, where that is still to matter.
Stored(w) ==
  /\ job[w].registered => job[w].pc = "act"
  /\ job[w].pc = "group" => SenderStored(Msg(w))
  /\ job[w].pc = "act" /\ (job[w].registered \/ "mongo" \notin Faults)
     => SenderStored(Msg(w)) /\ ChatStored(Msg(w))

\* A world in which every outgoing message shows that the account wrote it, and
\* the target of a reply is in the same chat and can be read.
Clean ==
  /\ "reply" \notin Faults /\ "anonymous" \notin Faults /\ "crosschat" \notin Faults
  /\ \A m \in Samples : m.out => m.from \in {Owner, NoUser}

\* What a call that could mirror a bot's reply knows of the message replied to:
\* who wrote it, or that the look-up failed.
Learnt(w) ==
  /\ job[w].pc = "sender" => ~job[w].senderIsBot
  /\ job[w].target = "failed" => "reply" \in Faults
  /\ job[w].pc \in {"user", "group", "act"} /\ job[w].senderIsBot
     /\ MirrorCandidate(Msg(w)) /\ Msg(w).replyTo # 0
     => job[w].target \in {targetOf(Msg(w)), "failed"}

RepliesLogged == \A i \in DOMAIN log : log[i].msg.replyTo # 0 => log[i].msg.replyTo \in DOMAIN log

\* Without replies across chats a number means the message it was given to.
NumbersAreTrue ==
  "crosschat" \notin Faults => \A i \in DOMAIN log : log[i].original = log[i].msg.replyTo

\* Where a message was copied whose reply's number is that of an outgoing one,
\* the look-up failed or that one does not show that the account wrote it.
CopiesExplained ==
  \A i \in Mirror :
    /\ log[i].target = "failed" => "reply" \in Faults
    /\ Src(i).replyTo # 0 /\ log[Src(i).replyTo].msg.out
       => log[i].target = "failed" \/ log[Src(i).replyTo].msg.from \notin {Owner, NoUser}

Signed == \A i \in DOMAIN log : log[i].msg.out => log[i].msg.from \in {Owner, NoUser}

\* What is said of the log, and of the calls.
LogTells ==
  /\ RepliesLogged /\ NumbersAreTrue /\ RegisteredBeforeAnswer /\ CopiesExplained
  /\ Clean => Signed

CallsKnow == \A w \in Worker : Stored(w) /\ Learnt(w)

KInv == IInv /\ LogTells /\ CallsKnow

-----------------------------------------------------------------------------
(* The log.                                                                *)

\* The collections keep what they have.
Grows == users \subseteq users' /\ groups \subseteq groups'

LEMMA SameLogTells ==
  ASSUME KInv, UNCHANGED log, Grows
  PROVE  LogTells' /\ LogGrows
<1>1. LogGrows
  BY DEF LogGrows
<1>2. RegisteredBeforeAnswer'
  BY DEF KInv, LogTells, RegisteredBeforeAnswer, Posted, Src, Grows
<1>3. RepliesLogged' /\ NumbersAreTrue' /\ CopiesExplained' /\ (Clean => Signed')
  BY DEF KInv, LogTells, RepliesLogged, NumbersAreTrue, Signed, CopiesExplained, Mirror, Src
<1> QED
  BY <1>1, <1>2, <1>3 DEF LogTells, Clean

\* What must be true of an appended entry.
Told(e) ==
  /\ e.msg.replyTo # 0 => e.msg.replyTo \in DOMAIN log
  /\ "crosschat" \notin Faults => e.original = e.msg.replyTo
  /\ Clean /\ e.msg.out => e.msg.from \in {Owner, NoUser}
  /\ e.via # "outside" /\ (e.registered \/ "mongo" \notin Faults)
     => LET m == log[e.src].msg IN
          SenderID(m) \in users /\ (ChatKind[m.chat] # "user" => m.chat \in groups)
  /\ e.via = "mirror"
     => LET r == log[e.src].msg.replyTo IN
          /\ e.target = "failed" => "reply" \in Faults
          /\ r # 0 /\ log[r].msg.out
             => e.target = "failed" \/ log[r].msg.from \notin {Owner, NoUser}

LEMMA LongerLogTells ==
  ASSUME KInv, NEW e \in Entry, log' = Append(log, e), Grows,
         e.via # "outside" => e.src \in DOMAIN log, Told(e)
  PROVE  LogTells' /\ LogGrows
<1>0. PICK n : n = Len(log) + 1
  OBVIOUS
<1>1. /\ DOMAIN log \subseteq DOMAIN log' /\ n \in DOMAIN log'
      /\ \A i \in DOMAIN log : log'[i] = log[i]
      /\ log'[n] = e
      /\ \A i \in DOMAIN log' : i \in DOMAIN log \/ i = n
  <2>1. /\ DOMAIN log = 1..Len(log) /\ Len(log) \in Nat /\ DOMAIN log' = 1..n
        /\ DOMAIN log \subseteq DOMAIN log' /\ n \in DOMAIN log'
        /\ \A i \in DOMAIN log : log'[i] = log[i]
        /\ log'[n] = e
    BY <1>0, AppendToLog DEF KInv, IInv
  <2> QED
    BY <1>0, <2>1
<1>2. LogGrows
  BY <1>1 DEF LogGrows
<1>3. \A i \in Posted : i \in DOMAIN log /\ log'[i] = log[i] /\ Src(i)' = Src(i)
  BY <1>1 DEF KInv, IInv, SourcesAreLogged, Posted, Src
<1>4. \A i \in Posted' : i \in Posted \/ (i = n /\ e.via # "outside")
  BY <1>1 DEF Posted
<1>5. e.via # "outside" => Src(n)' = log[e.src].msg
  BY <1>1 DEF Src
<1>6. RepliesLogged'
  <2> SUFFICES ASSUME NEW i \in DOMAIN log', (log[i].msg.replyTo # 0)'
               PROVE  (log[i].msg.replyTo \in DOMAIN log)'
    BY DEF RepliesLogged
  <2>1. CASE i \in DOMAIN log
    BY <1>1, <2>1 DEF KInv, LogTells, RepliesLogged
  <2>2. CASE i = n
    BY <1>1, <2>2 DEF Told
  <2> QED
    BY <1>1, <2>1, <2>2
<1>7. RegisteredBeforeAnswer'
  <2> SUFFICES ASSUME NEW i \in Posted', (log[i].registered)' \/ "mongo" \notin Faults
               PROVE  (/\ SenderID(Src(i)) \in users
                       /\ ChatKind[Src(i).chat] # "user" => Src(i).chat \in groups)'
    BY DEF RegisteredBeforeAnswer
  <2>1. CASE i \in Posted
    <3>1. /\ SenderID(Src(i)) \in users
          /\ ChatKind[Src(i).chat] # "user" => Src(i).chat \in groups
      BY <1>3, <2>1 DEF KInv, LogTells, RegisteredBeforeAnswer
    <3>2. SenderID(Src(i))' = SenderID(Src(i))
      BY <1>3, <2>1 DEF SenderID
    <3> QED
      BY <1>3, <2>1, <3>1, <3>2 DEF Grows
  <2>2. CASE i = n /\ e.via # "outside"
    <3>1. Src(i)' = log[e.src].msg /\ log'[i] = e
      BY <1>1, <1>5, <2>2
    <3>2. SenderID(Src(i))' = SenderID(log[e.src].msg)
      BY <3>1 DEF SenderID
    <3> QED
      BY <2>2, <3>1, <3>2 DEF Told, Grows
  <2> QED
    BY <1>4, <2>1, <2>2
<1>8. ASSUME Clean PROVE Signed'
  <2> SUFFICES ASSUME NEW i \in DOMAIN log', (log[i].msg.out)'
               PROVE  (log[i].msg.from \in {Owner, NoUser})'
    BY DEF Signed
  <2>1. CASE i \in DOMAIN log
    BY <1>1, <1>8, <2>1 DEF KInv, LogTells, Signed
  <2>2. CASE i = n
    BY <1>1, <1>8, <2>2 DEF Told
  <2> QED
    BY <1>1, <2>1, <2>2
<1>10. CopiesExplained'
  <2> SUFFICES ASSUME NEW i \in Mirror'
               PROVE  (/\ log[i].target = "failed" => "reply" \in Faults
                       /\ Src(i).replyTo # 0 /\ log[Src(i).replyTo].msg.out
                          => \/ log[i].target = "failed"
                             \/ log[Src(i).replyTo].msg.from \notin {Owner, NoUser})'
    BY DEF CopiesExplained
  <2>1. i \in Posted'
    BY DEF Mirror, Posted
  <2>2. CASE i \in Posted
    <3>1. /\ i \in Mirror /\ Src(i)' = Src(i) /\ log'[i] = log[i]
          /\ log[i].src \in DOMAIN log
      BY <1>3, <2>2 DEF Mirror, Posted, KInv, IInv, SourcesAreLogged
    <3>2. Src(i).replyTo # 0 => log'[Src(i).replyTo] = log[Src(i).replyTo]
      BY <1>1, <3>1 DEF KInv, LogTells, RepliesLogged, Src
    <3> QED
      BY <3>1, <3>2 DEF KInv, LogTells, CopiesExplained
  <2>3. CASE i = n /\ e.via # "outside"
    <3>1. Src(i)' = log[e.src].msg /\ log'[i] = e /\ e.via = "mirror"
      BY <1>1, <1>5, <2>3 DEF Mirror
    <3>2. log[e.src].msg.replyTo # 0 => log'[log[e.src].msg.replyTo] = log[log[e.src].msg.replyTo]
      BY <1>1, <2>3 DEF KInv, LogTells, RepliesLogged
    <3> QED
      BY <3>1, <3>2 DEF Told
  <2> QED
    BY <1>4, <2>1, <2>2, <2>3
<1>9. NumbersAreTrue'
  BY <1>1 DEF KInv, LogTells, NumbersAreTrue, Told
<1> QED
  BY <1>2, <1>6, <1>7, <1>8, <1>9, <1>10 DEF LogTells, Clean

-----------------------------------------------------------------------------
(* The calls.                                                              *)

\* An idle call knows nothing and need not.
LEMMA IdleKnows ==
  ASSUME NEW w \in Worker, job'[w] = Idle
  PROVE  Stored(w)' /\ Learnt(w)'
BY DEF Stored, Learnt, Idle

\* What a message in the log is a reply to stays what it is.
LEMMA TargetStays ==
  ASSUME KInv, LogGrows, NEW m, NEW i \in DOMAIN log, log[i].msg = m, m.replyTo # 0
  PROVE  targetOf(m)' = targetOf(m)
<1>1. log[m.replyTo] = log'[m.replyTo]
  BY DEF KInv, LogTells, RepliesLogged, LogGrows
<1> QED
  BY <1>1 DEF targetOf, messageAuthorUserID

\* A call nobody touches knows what it knew.
LEMMA OtherKnows ==
  ASSUME KInv, NEW v \in Worker, job'[v] = job[v], LogGrows, Grows
  PROVE  Stored(v)' /\ Learnt(v)'
<1>1. CASE job[v].pc = "idle"
  BY <1>1 DEF KInv, CallsKnow, Stored, Learnt
<1>2. CASE job[v].pc # "idle"
  <2>1. job[v].id \in DOMAIN log /\ Msg(v)' = Msg(v) /\ Msg(v) = log[job[v].id].msg
    BY <1>2 DEF KInv, IInv, CallOK, LogGrows, Msg
  <2>2. Stored(v)'
    BY <2>1 DEF KInv, CallsKnow, Stored, SenderStored, ChatStored, Grows, SenderID, ChatType
  <2>3. Learnt(v)'
    <3>1. Msg(v).replyTo # 0 => targetOf(Msg(v))' = targetOf(Msg(v))
      <4>1. PICK m : m = Msg(v)
        OBVIOUS
      <4>2. m.replyTo # 0 => targetOf(m)' = targetOf(m)
        BY <2>1, <4>1, TargetStays
      <4>3. targetOf(Msg(v))' = targetOf(m)'
        BY <2>1, <4>1 DEF targetOf, messageAuthorUserID
      <4>4. targetOf(Msg(v)) = targetOf(m)
        BY <4>1
      <4> QED
        BY <4>1, <4>2, <4>3, <4>4
    <3>2. MirrorCandidate(Msg(v))' = MirrorCandidate(Msg(v))
      BY <2>1 DEF MirrorCandidate, ChatType, hasOrderNumber, hasMirrorableContent
    <3> QED
      BY <2>1, <3>1, <3>2 DEF KInv, CallsKnow, Learnt
  <2> QED
    BY <2>2, <2>3
<1> QED
  BY <1>1, <1>2

\* A call that is at pc with verdict isBot and target t, and what it must know.
KnowsAt(m, pc, isBot, t) ==
  /\ pc = "sender" => ~isBot
  /\ t = "failed" => "reply" \in Faults
  /\ pc \in {"user", "group", "act"} /\ isBot /\ MirrorCandidate(m) /\ m.replyTo # 0
     => t \in {targetOf(m), "failed"}

StoredAt(m, pc, r) ==
  /\ r => pc = "act"
  /\ pc = "group" => SenderStored(m)
  /\ pc = "act" /\ (r \/ "mongo" \notin Faults) => SenderStored(m) /\ ChatStored(m)

\* The steps of a call that leave the log alone: what the call itself knows
\* afterwards, and that the others know what they knew.
LEMMA CallsStillKnow ==
  ASSUME KInv, NEW w \in Worker, UNCHANGED log, Grows, NEW m, Msg(w)' = m,
         \A v \in Worker \ {w} : job'[v] = job[v],
         NEW pc, NEW isBot, NEW t, NEW r,
         job'[w].pc = pc, job'[w].senderIsBot = isBot, job'[w].target = t,
         job'[w].registered = r,
         StoredAt(m, pc, r)', KnowsAt(m, pc, isBot, t)'
  PROVE  LogTells' /\ CallsKnow'
<1>1. LogTells' /\ LogGrows
  BY SameLogTells
<1>2. Stored(w)'
  BY DEF Stored, StoredAt, SenderStored, ChatStored, SenderID, ChatType
<1>3. Learnt(w)'
  BY DEF Learnt, KnowsAt, targetOf, messageAuthorUserID, MirrorCandidate, ChatType,
     hasOrderNumber, hasMirrorableContent
<1>4. \A v \in Worker : Stored(v)' /\ Learnt(v)'
  BY <1>1, <1>2, <1>3, OtherKnows
<1> QED
  BY <1>1, <1>4 DEF CallsKnow, Worker, Channels

-----------------------------------------------------------------------------
(* The steps.                                                              *)

LEMMA InitKInv == Init => KInv
<1> SUFFICES ASSUME Init PROVE LogTells /\ CallsKnow
  BY InitIInv DEF KInv
<1>1. DOMAIN log = {}
  BY DEF Init
<1>2. LogTells
  BY <1>1 DEF LogTells, RepliesLogged, NumbersAreTrue, RegisteredBeforeAnswer, Signed,
     CopiesExplained, Posted, Mirror
<1>3. CallsKnow
  BY DEF Init, CallsKnow, Stored, Learnt, Idle
<1> QED
  BY <1>2, <1>3

LEMMA PostKnows ==
  ASSUME KInv, Post
  PROVE  LogTells' /\ CallsKnow'
<1>1. PICK m \in Samples, r \in {0} \cup DOMAIN log, o \in {0} \cup DOMAIN log :
        /\ log' = Append(log, Outside([m EXCEPT !.date = now, !.replyTo = r], o))
        /\ "crosschat" \notin Faults => o = r
  BY DEF Post, Originals
<1> DEFINE e == Outside([m EXCEPT !.date = now, !.replyTo = r], o)
<1>2. e \in Entry /\ e.via = "outside" /\ e.msg.replyTo = r /\ e.msg.out = m.out
      /\ e.msg.from = m.from /\ e.original = o
  <2>1. m \in Message /\ now \in Nat /\ starts \in Nat /\ r \in Nat /\ o \in Nat
    BY HandlerAssumption, LenProperties DEF KInv, IInv, TypeOK
  <2>2. /\ [m EXCEPT !.date = now, !.replyTo = r] \in Message
        /\ [m EXCEPT !.date = now, !.replyTo = r].replyTo = r
        /\ [m EXCEPT !.date = now, !.replyTo = r].out = m.out
        /\ [m EXCEPT !.date = now, !.replyTo = r].from = m.from
    BY <2>1 DEF Message
  <2> QED
    BY <2>1, <2>2 DEF Outside, Entry, Target
<1>3. log' = Append(log, e) /\ UNCHANGED job /\ Grows
  BY <1>1 DEF Post, Grows
<1> HIDE DEF e
<1>4. Told(e)
  BY <1>1, <1>2 DEF Told, Clean
<1>5. LogTells' /\ LogGrows
  BY <1>2, <1>3, <1>4, LongerLogTells
<1>6. \A v \in Worker : Stored(v)' /\ Learnt(v)'
  BY <1>3, <1>5, OtherKnows
<1> QED
  BY <1>5, <1>6 DEF CallsKnow, Worker, Channels

LEMMA QuietKnows ==
  ASSUME KInv, UNCHANGED <<log, job>>, Grows
  PROVE  LogTells' /\ CallsKnow'
<1>1. LogTells' /\ LogGrows
  BY SameLogTells
<1>2. \A v \in Worker : Stored(v)' /\ Learnt(v)'
  BY <1>1, OtherKnows
<1> QED
  BY <1>1, <1>2 DEF CallsKnow, Worker, Channels

LEMMA RestartKnows ==
  ASSUME KInv, Restart
  PROVE  LogTells' /\ CallsKnow'
<1>1. UNCHANGED log /\ Grows /\ \A v \in Worker : job'[v] = Idle
  BY DEF Restart, Grows
<1>2. \A v \in Worker : Stored(v)' /\ Learnt(v)'
  BY <1>1, IdleKnows
<1> QED
  BY <1>1, <1>2, SameLogTells DEF CallsKnow, Worker, Channels

\* Who skips the registrars has nobody, or nothing, to register.
LEMMA SkipsNothing ==
  ASSUME NEW m \in Message
  PROVE  /\ AfterReply(m) \in {"group", "act"} => SenderID(m) = NoUser
         /\ AfterReply(m) = "act" => ChatType(m) = "private"
         /\ AfterReply(m) \notin {"sender", "reply", "idle"}
         /\ AfterUser(m) \in {"group", "act"}
         /\ AfterUser(m) = "act" => ChatType(m) = "private"
BY DEF AfterReply, AfterUser

\* After the sender is known a call goes to the reply look-up if it needs one.
LEMMA AsksWhenNeeded ==
  ASSUME NEW m \in Message, NEW isBot \in BOOLEAN
  PROVE  \/ AfterSender(m, isBot) = "reply"
         \/ /\ AfterSender(m, isBot) = AfterReply(m)
            /\ ~(isBot /\ MirrorCandidate(m) /\ m.replyTo # 0)
BY DEF AfterSender, shouldLookupReplyToUserbot

LEMMA HandleMessageKnows ==
  ASSUME KInv, NEW w \in Worker, HandleMessage(w)
  PROVE  LogTells' /\ CallsKnow'
<1>1. PICK i \in DOMAIN log, m \in Message : i = Min(Pending(w)) /\ m = log[i].msg
  BY FirstPending, LoggedIsMessage DEF KInv, IInv, HandleMessage
<1>2. PICK isBot \in BOOLEAN, pc \in PC :
        /\ isBot = KnownBot(m)
        /\ pc = IF SenderUnknown(m) THEN "sender" ELSE AfterSender(m, isBot)
  <2>1. KnownBot(m) \in BOOLEAN
    BY DEF KnownBot, SenderIsBotEntity
  <2>2. AfterSender(m, KnownBot(m)) \in PC
    BY <2>1, NextPC DEF PC
  <2> QED
    BY <2>1, <2>2 DEF PC
<1> DEFINE c == [Idle EXCEPT !.id = i, !.senderIsBot = isBot, !.pc = pc]
<1>3. /\ job' = [job EXCEPT ![w] = c] /\ UNCHANGED log /\ Grows
  BY <1>1, <1>2 DEF HandleMessage, Grows
<1>4. c.id = i /\ c.senderIsBot = isBot /\ c.pc = pc /\ c.target = "none" /\ c.registered = FALSE
  BY DEF Idle
<1> HIDE DEF c
<1>5. job'[w] = c /\ \A v \in Worker \ {w} : job'[v] = job[v]
  BY <1>3 DEF KInv, IInv, TypeOK
<1>6. Msg(w)' = m
  BY <1>1, <1>3, <1>4, <1>5 DEF Msg
<1>7. StoredAt(m, pc, FALSE)'
  BY <1>2, SkipsNothing, AsksWhenNeeded DEF StoredAt, SenderStored, ChatStored
<1>8. KnowsAt(m, pc, isBot, "none")'
  <2>1. CASE SenderUnknown(m)
    BY <1>2, <2>1 DEF KnowsAt, SenderUnknown, shouldLookupMessageSenderBot, KnownBot
  <2>2. CASE ~SenderUnknown(m)
    BY <1>2, <2>2, SkipsNothing, AsksWhenNeeded DEF KnowsAt
  <2> QED
    BY <2>1, <2>2
<1> QED
  BY <1>3, <1>4, <1>5, <1>6, <1>7, <1>8, CallsStillKnow

\* The message of a call that moves and stays about it.
LEMMA SameMessage ==
  ASSUME KInv, NEW w \in Worker, job[w].pc # "idle", UNCHANGED log, job'[w].id = job[w].id
  PROVE  Msg(w)' = Msg(w) /\ Msg(w) \in Message /\ job[w] \in Job
BY InFlightIsMessage DEF KInv, IInv, TypeOK, Msg

LEMMA ResolveSenderKnows ==
  ASSUME KInv, NEW w \in Worker, ResolveMessageSenderBot(w)
  PROVE  LogTells' /\ CallsKnow'
<1>1. PICK m, t : m = Msg(w) /\ t = job[w].target
  OBVIOUS
<1>2. /\ UNCHANGED log /\ Grows /\ job[w].pc = "sender" /\ job[w].registered = FALSE
      /\ job[w] \in Job /\ m \in Message
  BY <1>1, InFlightIsMessage DEF ResolveMessageSenderBot, Grows, KInv, IInv, TypeOK,
     CallsKnow, Stored, Job
<1>3. PICK isBot \in BOOLEAN, pc \in PC :
        /\ job' = [job EXCEPT ![w] = [job[w] EXCEPT !.senderIsBot = isBot, !.pc = pc]]
        /\ \/ pc = AfterSender(m, isBot)
           \/ pc = AfterReply(m) /\ isBot = job[w].senderIsBot
  <2>1. CASE job' = [job EXCEPT ![w].senderIsBot = SenderID(m) \in Bot,
                                ![w].pc = AfterSender(m, SenderID(m) \in Bot)]
    <3>1. \A isBot \in BOOLEAN : AfterSender(m, isBot) \in PC
      BY <1>2, NextPC DEF PC
    <3>2. CASE SenderID(m) \in Bot
      <4>1. (SenderID(m) \in Bot) = TRUE
        BY <3>2
      <4>2. job' = [job EXCEPT ![w].senderIsBot = TRUE, ![w].pc = AfterSender(m, TRUE)]
        BY <2>1, <4>1, Zenon
      <4>3. job' = [job EXCEPT ![w] = [job[w] EXCEPT !.senderIsBot = TRUE,
                                                     !.pc = AfterSender(m, TRUE)]]
        BY <4>2 DEF KInv, IInv, TypeOK
      <4> QED
        BY <3>1, <4>3
    <3>3. CASE SenderID(m) \notin Bot
      <4>1. (SenderID(m) \in Bot) = FALSE
        BY <3>3
      <4>2. job' = [job EXCEPT ![w].senderIsBot = FALSE, ![w].pc = AfterSender(m, FALSE)]
        BY <2>1, <4>1, Zenon
      <4>3. job' = [job EXCEPT ![w] = [job[w] EXCEPT !.senderIsBot = FALSE,
                                                     !.pc = AfterSender(m, FALSE)]]
        BY <4>2 DEF KInv, IInv, TypeOK
      <4> QED
        BY <3>1, <4>3
    <3> QED
      BY <3>2, <3>3
  <2>2. CASE Goto(w, AfterReply(m))
    <3>1. AfterReply(m) \in PC /\ job[w].senderIsBot \in BOOLEAN
      BY <1>2, NextPC DEF PC, Job
    <3>2. job' = [job EXCEPT ![w] = [job[w] EXCEPT !.senderIsBot = job[w].senderIsBot,
                                                   !.pc = AfterReply(m)]]
      BY <1>2, <2>2 DEF Goto, KInv, IInv, TypeOK, Job
    <3> QED
      BY <3>1, <3>2
  <2> QED
    BY <1>1, <2>1, <2>2 DEF ResolveMessageSenderBot
<1> DEFINE c == [job[w] EXCEPT !.senderIsBot = isBot, !.pc = pc]
<1>4. c.id = job[w].id /\ c.senderIsBot = isBot /\ c.pc = pc /\ c.target = t /\ c.registered = FALSE
  BY <1>1, <1>2 DEF Job
<1>5. job'[w] = c /\ \A v \in Worker \ {w} : job'[v] = job[v]
  BY <1>3 DEF KInv, IInv, TypeOK
<1> HIDE DEF c
<1>6. Msg(w)' = m
  BY <1>1, <1>2, <1>4, <1>5, SameMessage
<1>7. StoredAt(m, pc, FALSE)'
  BY <1>2, <1>3, SkipsNothing, AsksWhenNeeded DEF StoredAt, SenderStored, ChatStored
<1>8. KnowsAt(m, pc, isBot, t)'
  <2>1. ~job[w].senderIsBot /\ (t = "failed" => "reply" \in Faults)
    BY <1>1, <1>2 DEF KInv, CallsKnow, Learnt
  <2> QED
    BY <1>2, <1>3, <2>1, SkipsNothing, AsksWhenNeeded DEF KnowsAt
<1> QED
  BY <1>2, <1>4, <1>5, <1>6, <1>7, <1>8, CallsStillKnow

LEMMA ResolveReplyKnows ==
  ASSUME KInv, NEW w \in Worker, ResolveReplyToUserbot(w)
  PROVE  LogTells' /\ CallsKnow'
<1>1. PICK m, isBot : m = Msg(w) /\ isBot = job[w].senderIsBot
  OBVIOUS
<1>2. /\ UNCHANGED log /\ Grows /\ job[w].pc = "reply" /\ job[w].registered = FALSE
      /\ job[w] \in Job /\ m \in Message
  BY <1>1, InFlightIsMessage DEF ResolveReplyToUserbot, Grows, KInv, IInv, TypeOK,
     CallsKnow, Stored, Job
<1>3. PICK t \in Target, pc \in PC :
        /\ job' = [job EXCEPT ![w].target = t, ![w].pc = pc]
        /\ pc = AfterReply(m)
        /\ t \in {targetOf(m), "failed"}
        /\ t = "failed" => "reply" \in Faults
  <2>1. AfterReply(m) \in PC
    BY <1>2, NextPC DEF PC
  <2>2. targetOf(m) \in Target /\ "failed" \in Target /\ targetOf(m) # "failed"
    BY DEF targetOf, Target
  <2> QED
    BY <1>1, <2>1, <2>2 DEF ResolveReplyToUserbot
<1> DEFINE c == [job[w] EXCEPT !.target = t, !.pc = pc]
<1>4. c.id = job[w].id /\ c.senderIsBot = isBot /\ c.pc = pc /\ c.target = t /\ c.registered = FALSE
  BY <1>1, <1>2 DEF Job
<1>5. job'[w] = c /\ \A v \in Worker \ {w} : job'[v] = job[v]
  BY <1>3 DEF KInv, IInv, TypeOK
<1> HIDE DEF c
<1>6. Msg(w)' = m
  BY <1>1, <1>2, <1>4, <1>5, SameMessage
<1>7. StoredAt(m, pc, FALSE)'
  BY <1>2, <1>3, SkipsNothing DEF StoredAt, SenderStored, ChatStored
<1>8. KnowsAt(m, pc, isBot, t)'
  <2>1. t \in {targetOf(m)', "failed"}
    BY <1>2, <1>3 DEF targetOf, messageAuthorUserID
  <2> QED
    BY <1>2, <1>3, <2>1, SkipsNothing DEF KnowsAt
<1> QED
  BY <1>2, <1>4, <1>5, <1>6, <1>7, <1>8, CallsStillKnow

\* registerSeen: the registrar that succeeds has stored what it was given, and
\* the one that fails leaves the call marked as not registered.
LEMMA RegisterKnows ==
  ASSUME KInv, NEW w \in Worker, EnsureUser(w) \/ EnsureGroup(w)
  PROVE  LogTells' /\ CallsKnow'
<1>1. PICK m, t, isBot : m = Msg(w) /\ t = job[w].target /\ isBot = job[w].senderIsBot
  OBVIOUS
<1>2. /\ UNCHANGED log /\ Grows /\ job[w].pc \in {"user", "group"} /\ job[w].registered = FALSE
      /\ job[w] \in Job /\ m \in Message
      /\ job[w].pc = "group" => SenderStored(m)
  <2>1. job[w].pc \in {"user", "group"} /\ m \in Message /\ job[w] \in Job
    BY <1>1, InFlightIsMessage DEF EnsureUser, EnsureGroup, KInv, IInv, TypeOK
  <2>2. job[w].registered = FALSE /\ (job[w].pc = "group" => SenderStored(m))
    BY <1>1, <2>1 DEF KInv, CallsKnow, Stored, Job
  <2>3. UNCHANGED log /\ Grows
    BY DEF EnsureUser, EnsureGroup, Grows
  <2> QED
    BY <2>1, <2>2, <2>3
<1>3. PICK pc \in PC, r \in BOOLEAN :
        /\ job' = [job EXCEPT ![w] = [job[w] EXCEPT !.pc = pc, !.registered = r]]
        /\ pc \in {"group", "act"}
        /\ StoredAt(m, pc, r)'
  <2>1. AfterUser(m) \in {"group", "act"} /\ {"group", "act"} \subseteq PC
    BY <1>2, SkipsNothing DEF PC
  <2>2. [job[w] EXCEPT !.pc = "act"] = [job[w] EXCEPT !.pc = "act", !.registered = FALSE]
    BY <1>2 DEF Job
  <2>3. CASE job' = [job EXCEPT ![w].pc = "act"] /\ "mongo" \in Faults
    <3>1. job' = [job EXCEPT ![w] = [job[w] EXCEPT !.pc = "act", !.registered = FALSE]]
      BY <2>2, <2>3 DEF KInv, IInv, TypeOK
    <3>2. StoredAt(m, "act", FALSE)'
      BY <2>3 DEF StoredAt
    <3> QED
      BY <2>1, <3>1, <3>2
  <2>4. CASE /\ users' = users \cup {SenderID(m)}
             /\ job' = [job EXCEPT ![w].pc = AfterUser(m),
                                   ![w].registered = (AfterUser(m) = "act")]
    <3>1. SenderStored(m)' /\ (AfterUser(m) = "act" => ChatStored(m)')
      BY <1>2, <2>4, SkipsNothing DEF SenderStored, ChatStored, SenderID, ChatType
    <3>2. CASE AfterUser(m) = "act"
      <4>1. job' = [job EXCEPT ![w] = [job[w] EXCEPT !.pc = "act", !.registered = TRUE]]
        BY <2>4, <3>2 DEF KInv, IInv, TypeOK
      <4>2. StoredAt(m, "act", TRUE)'
        BY <3>1, <3>2 DEF StoredAt
      <4> QED
        BY <2>1, <4>1, <4>2
    <3>3. CASE AfterUser(m) = "group"
      <4>1. job' = [job EXCEPT ![w] = [job[w] EXCEPT !.pc = "group", !.registered = FALSE]]
        BY <2>4, <3>3 DEF KInv, IInv, TypeOK
      <4>2. StoredAt(m, "group", FALSE)'
        BY <3>1 DEF StoredAt
      <4> QED
        BY <2>1, <4>1, <4>2
    <3> QED
      BY <2>1, <3>2, <3>3
  <2>5. CASE /\ groups' = groups \cup {m.chat} /\ job[w].pc = "group"
             /\ job' = [job EXCEPT ![w].pc = "act", ![w].registered = TRUE]
    <3>1. job' = [job EXCEPT ![w] = [job[w] EXCEPT !.pc = "act", !.registered = TRUE]]
      BY <2>5 DEF KInv, IInv, TypeOK
    <3>2. SenderStored(m)' /\ ChatStored(m)'
      BY <1>2, <2>5 DEF SenderStored, ChatStored, SenderID, ChatType, Grows
    <3>3. StoredAt(m, "act", TRUE)'
      BY <3>2 DEF StoredAt
    <3> QED
      BY <2>1, <3>1, <3>3
  <2> QED
    BY <1>1, <2>3, <2>4, <2>5 DEF EnsureUser, EnsureGroup, Goto
<1> DEFINE c == [job[w] EXCEPT !.pc = pc, !.registered = r]
<1>4. c.id = job[w].id /\ c.senderIsBot = isBot /\ c.pc = pc /\ c.target = t /\ c.registered = r
  BY <1>1, <1>2 DEF Job
<1>5. job'[w] = c /\ \A v \in Worker \ {w} : job'[v] = job[v]
  BY <1>3 DEF KInv, IInv, TypeOK
<1> HIDE DEF c
<1>6. Msg(w)' = m
  BY <1>1, <1>2, <1>4, <1>5, SameMessage
<1>7. KnowsAt(m, pc, isBot, t)'
  <2>1. /\ t = "failed" => "reply" \in Faults
        /\ isBot /\ MirrorCandidate(m) /\ m.replyTo # 0 => t \in {targetOf(m), "failed"}
    BY <1>1, <1>2 DEF KInv, CallsKnow, Learnt
  <2>2. targetOf(m)' = targetOf(m)
    BY <1>2 DEF targetOf, messageAuthorUserID
  <2> QED
    BY <1>3, <2>1, <2>2 DEF KnowsAt
<1> QED
  BY <1>2, <1>3, <1>4, <1>5, <1>6, <1>7, CallsStillKnow

\* Ending a call: with a post that is as it must be, or without one.
LEMMA EndKnows ==
  ASSUME KInv, NEW w \in Worker, Done(w), LogTells', LogGrows, Grows
  PROVE  LogTells' /\ CallsKnow'
<1>1. job'[w] = Idle /\ \A v \in Worker \ {w} : job'[v] = job[v]
  BY DoneFrees DEF KInv, IInv
<1>2. \A v \in Worker : Stored(v)' /\ Learnt(v)'
  BY <1>1, IdleKnows, OtherKnows
<1> QED
  BY <1>2 DEF CallsKnow, Worker, Channels

\* Under what is assumed of the world, posts show that the account made them.
LEMMA PostsAreSigned ==
  ASSUME Clean, NEW c \in Chat, NEW f \in PostedAs(c)
  PROVE  f \in {Owner, NoUser}
BY DEF Clean, PostedAs

LEMMA MirrorKnows ==
  ASSUME KInv, NEW w \in Worker, MirrorMessageToSamePeer(w)
  PROVE  LogTells' /\ CallsKnow'
<1>1. PICK m : m = Msg(w)
  OBVIOUS
<1>2. /\ job[w] \in Job /\ job[w].pc = "act" /\ job[w].id \in DOMAIN log
      /\ m \in Message /\ m = log[job[w].id].msg /\ Done(w) /\ Grows
  BY <1>1, InFlightIsMessage DEF MirrorMessageToSamePeer, KInv, IInv, TypeOK, Msg, Grows
<1>3. CASE UNCHANGED log
  BY <1>2, <1>3, SameLogTells, EndKnows
<1>4. CASE Send(w, "mirror", m.text, m.media, m.replyTo)
  <2>1. m.text \in Text /\ m.media \in BOOLEAN /\ m.replyTo \in Nat /\ m.chat \in Chat
    BY <1>2 DEF Message
  <2>2. IInv
    BY DEF KInv
  <2>3. PICK e \in Entry : log' = Append(log, e) /\ SentBy(w, e, "mirror", m.text, m.replyTo)
    BY <1>2, <1>4, <2>1, <2>2, SendAppends
  <2>4. /\ e.via = "mirror" /\ e.src = job[w].id /\ e.registered = job[w].registered
        /\ e.target = job[w].target
        /\ e.msg.replyTo = m.replyTo /\ e.original = m.replyTo
        /\ e.msg.from \in PostedAs(m.chat)
        /\ log[e.src].msg = m
    BY <1>1, <1>2, <2>3 DEF SentBy
  <2>5. MirrorCandidate(m) /\ job[w].senderIsBot /\ job[w].target # "userbot"
    BY <1>1 DEF MirrorMessageToSamePeer, Mirrors, shouldMirrorBotMessage, replyToUserbot
  <2>6. m.replyTo # 0 => m.replyTo \in DOMAIN log
    BY <1>2 DEF KInv, LogTells, RepliesLogged
  <2>7. e.registered \/ "mongo" \notin Faults =>
          SenderID(m) \in users /\ (ChatKind[m.chat] # "user" => m.chat \in groups)
    <3>1. SenderID(m) # NoUser
      <4>1. SenderID(m) \in Bot
        BY <1>1, <1>2, <2>5 DEF KInv, IInv, CallOK
      <4> QED
        BY <4>1, PolicyAssumption
    <3>2. ChatKind[m.chat] # "user" => ChatType(m) # "private"
      BY DEF ChatType
    <3> QED
      BY <1>1, <1>2, <2>4, <3>1, <3>2 DEF KInv, CallsKnow, Stored, SenderStored, ChatStored
  <2>8. /\ job[w].target = "failed" => "reply" \in Faults
        /\ m.replyTo # 0 /\ log[m.replyTo].msg.out
           => job[w].target = "failed" \/ log[m.replyTo].msg.from \notin {Owner, NoUser}
    <3>1. /\ job[w].target = "failed" => "reply" \in Faults
          /\ m.replyTo # 0 => job[w].target \in {targetOf(m), "failed"}
      BY <1>1, <1>2, <2>5 DEF KInv, CallsKnow, Learnt
    <3> SUFFICES ASSUME m.replyTo # 0, log[m.replyTo].msg.out, job[w].target # "failed"
                 PROVE  log[m.replyTo].msg.from \notin {Owner, NoUser}
      BY <3>1
    <3>2. messageAuthorUserID(log[m.replyTo].msg) # Owner
      BY <2>5, <3>1 DEF targetOf
    <3> QED
      BY <3>2, PolicyAssumption DEF messageAuthorUserID
  <2>9. Clean => e.msg.from \in {Owner, NoUser}
    BY <2>1, <2>4, PostsAreSigned
  <2>10. Told(e)
    BY <2>4, <2>6, <2>7, <2>8, <2>9 DEF Told
  <2>11. LogTells' /\ LogGrows
    BY <1>2, <2>3, <2>4, <2>10, LongerLogTells
  <2> QED
    BY <1>2, <2>11, EndKnows
<1> QED
  BY <1>1, <1>3, <1>4 DEF MirrorMessageToSamePeer, SendFails

LEMMA ReplyKnows ==
  ASSUME KInv, NEW w \in Worker, ReplyToCommand(w)
  PROVE  LogTells' /\ CallsKnow'
<1>1. PICK m : m = Msg(w)
  OBVIOUS
<1>2. /\ job[w] \in Job /\ job[w].pc = "act" /\ job[w].id \in DOMAIN log
      /\ m \in Message /\ m = log[job[w].id].msg /\ Done(w) /\ Grows
  BY <1>1, InFlightIsMessage DEF ReplyToCommand, KInv, IInv, TypeOK, Msg, Grows
<1>3. CASE UNCHANGED log
  BY <1>2, <1>3, SameLogTells, EndKnows
<1>4. CASE Send(w, "command", ResponseText, FALSE, 0)
  <2>1. ResponseText \in Text /\ m.chat \in Chat
    BY <1>2 DEF ResponseText, Text, Lead, Candidate, Message
  <2>2. PICK media \in BOOLEAN : Send(w, "command", ResponseText, media, 0)
    <3> WITNESS FALSE \in BOOLEAN
    <3> QED BY <1>4
  <2>3. IInv
    BY DEF KInv
  <2>4. PICK e \in Entry : log' = Append(log, e) /\ SentBy(w, e, "command", ResponseText, 0)
    BY <1>2, <2>1, <2>2, <2>3, SendAppends
  <2>5. /\ e.via = "command" /\ e.src = job[w].id /\ e.registered = job[w].registered
        /\ e.msg.replyTo = 0 /\ e.original = 0
        /\ e.msg.from \in PostedAs(m.chat) /\ log[e.src].msg = m
    BY <1>1, <1>2, <2>4 DEF SentBy
  <2>6. e.registered \/ "mongo" \notin Faults =>
          SenderID(m) \in users /\ (ChatKind[m.chat] # "user" => m.chat \in groups)
    <3>1. SenderID(m) # NoUser
      BY <1>1, PolicyAssumption DEF ReplyToCommand, Answers, isOwnerCommand
    <3>2. ChatKind[m.chat] # "user" => ChatType(m) # "private"
      BY DEF ChatType
    <3> QED
      BY <1>1, <1>2, <2>5, <3>1, <3>2 DEF KInv, CallsKnow, Stored, SenderStored, ChatStored
  <2>7. Clean => e.msg.from \in {Owner, NoUser}
    BY <2>1, <2>5, PostsAreSigned
  <2>8. Told(e)
    BY <2>5, <2>6, <2>7 DEF Told
  <2>9. LogTells' /\ LogGrows
    BY <1>2, <2>4, <2>5, <2>8, LongerLogTells
  <2> QED
    BY <1>2, <2>9, EndKnows
<1> QED
  BY <1>3, <1>4 DEF ReplyToCommand, SendFails

-----------------------------------------------------------------------------
(* The theorems.                                                           *)

LEMMA StepKInv == KInv /\ [Next]_vars => KInv'
<1> SUFFICES ASSUME KInv, [Next]_vars PROVE LogTells' /\ CallsKnow'
  BY StepIInv DEF KInv
<1>1. CASE Post
  BY <1>1, PostKnows
<1>2. CASE Restart
  BY <1>2, RestartKnows
<1>3. CASE Tick \/ UNCHANGED vars
  BY <1>3, QuietKnows DEF Tick, vars, Grows
<1>4. CASE \E w \in Worker : Handle(w)
  <2>1. PICK w \in Worker : Handle(w)
    BY <1>4
  <2>2. CASE IgnoreHistorical(w)
    BY <2>2, QuietKnows DEF IgnoreHistorical, Grows
  <2>3. CASE IgnoreMessage(w)
    <3>1. Done(w) /\ UNCHANGED log /\ Grows
      BY <2>3 DEF IgnoreMessage, Grows
    <3> QED
      BY <3>1, SameLogTells, EndKnows
  <2> QED
    BY <2>1, <2>2, <2>3, HandleMessageKnows, ResolveSenderKnows, ResolveReplyKnows,
       RegisterKnows, MirrorKnows, ReplyKnows DEF Handle
<1> QED
  BY <1>1, <1>2, <1>3, <1>4 DEF Next

\* The inductive invariant holds in every reachable state.
THEOREM KnowledgeInvariant == Spec => []KInv
BY InitKInv, StepKInv, PTL DEF Spec

\* A post whose call saw no error of a registrar finds its sender and its chat
\* in the collections, whatever other workers and restarts did meanwhile.
THEOREM RegisteredFirst == Spec => []RegisteredBeforeAnswer
<1>1. KInv => RegisteredBeforeAnswer
  BY DEF KInv, LogTells
<1> QED
  BY <1>1, KnowledgeInvariant, PTL

\* In every world, a bot's reply to the account is mirrored only if the look-up
\* failed, the target names another author, or the number is of another chat.
THEOREM RepliesExplained == Spec => []MirroredRepliesAreExplained
<1>1. KInv => MirroredRepliesAreExplained
  BY DEF KInv, LogTells, CopiesExplained, MirroredRepliesAreExplained
<1> QED
  BY <1>1, KnowledgeInvariant, PTL

\* As long as reply targets can be read and outgoing messages name the account
\* or nobody, no bot's reply to the account is mirrored, in any interleaving.
THEOREM RepliesStayUnmirrored == Spec => [](Clean => NeverMirrorsRepliesToUserbot)
<1>1. KInv => (Clean => NeverMirrorsRepliesToUserbot)
  <2> SUFFICES ASSUME KInv, Clean, NEW i \in Mirror, log[log[i].src].original # 0
               PROVE  ~log[log[log[i].src].original].msg.out
    BY DEF NeverMirrorsRepliesToUserbot
  <2>1. log[i].src \in DOMAIN log
    BY DEF KInv, IInv, SourcesAreLogged, Mirror, Posted
  <2>2. log[log[i].src].original = Src(i).replyTo /\ Src(i).replyTo \in DOMAIN log
    BY <2>1 DEF KInv, LogTells, NumbersAreTrue, RepliesLogged, Clean, Src
  <2> QED
    BY <2>2 DEF KInv, LogTells, CopiesExplained, Signed, Clean
<1> QED
  BY <1>1, KnowledgeInvariant, PTL

-----------------------------------------------------------------------------
(* Nothing owed is dropped.  A worker passes a message by ignoring it,     *)
(* which it does only with one older than the process, or by ending the    *)
(* call about it; and a call about one that is owed a copy knows the       *)
(* sender for a bot by the time it decides, whoever told.                  *)

Answered(i) == \E j \in Posted : log[j].src = i /\ log[j].start = starts

Owed(i) == OwedCopy(log[i].msg) \/ OwedAnswer(log[i].msg)

\* The worker of a message has it behind it.
Passed(i) ==
  LET w == WorkerOf(log[i].msg.chat)
  IN  i < pos[w] /\ (job[w].pc = "idle" \/ job[w].id # i)

\* What is posted to this process is not older than it.
Fresh ==
  /\ started =< now
  /\ \A i \in DOMAIN log : log[i].start = starts => started =< log[i].msg.date

InBounds == \A w \in Worker : pos[w] =< Len(log) + 1

\* What a call about a message m that is owed a copy has learnt when it is at
\* pc, with verdict isBot and target t.
ReadyAt(m, pc, isBot, t) ==
  OwedCopy(m) =>
    /\ pc = "sender" => ~m.userEntity
    /\ pc # "sender" => isBot
    /\ pc = "reply" => m.replyTo # 0
    /\ t # "userbot"

Ready(w) ==
  job[w].pc # "idle" => ReadyAt(Msg(w), job[w].pc, job[w].senderIsBot, job[w].target)

AInv == OInv /\ KInv /\ Fresh /\ InBounds /\ (\A w \in Worker : Ready(w)) /\ OwedIsPosted

\* What a logged message is owed does not change.
LEMMA OwedStays ==
  ASSUME KInv, LogGrows, NEW i \in DOMAIN log, NEW m, log[i].msg = m
  PROVE  OwedCopy(m)' = OwedCopy(m) /\ OwedAnswer(m)' = OwedAnswer(m)
<1>1. m.replyTo # 0 => targetOf(m)' = targetOf(m)
  BY TargetStays
<1>2. OwedCopy(m)' = OwedCopy(m)
  BY <1>1 DEF OwedCopy, ChatType
<1>3. OwedAnswer(m)' = OwedAnswer(m)
  BY DEF OwedAnswer, isOwnerCommand, CommandHandled, PeerResolves, SenderID
<1> QED
  BY <1>2, <1>3

\* What this process has posted it has posted.
LEMMA AnswersStay ==
  ASSUME LogGrows, UNCHANGED starts, NEW i, Answered(i)
  PROVE  Answered(i)'
BY DEF Answered, Posted, LogGrows

\* A step of the process: no message it is past is left out if those it passes
\* now are answered, too old or not owed anything, and new ones are ahead of it.
LEMMA StillPosted ==
  ASSUME AInv, LogGrows, UNCHANGED starts,
         \A i \in DOMAIN log : "send" \notin Faults /\ log[i].start = starts /\ Owed(i) /\ Passed(i)'
                               => Passed(i) \/ Answered(i)',
         \A i \in DOMAIN log' \ DOMAIN log : ~Passed(i)'
  PROVE  OwedIsPosted'
<1> SUFFICES ASSUME "send" \notin Faults, NEW i \in DOMAIN log',
                    (log[i].start = starts)', Passed(i)', Owed(i)'
             PROVE  Answered(i)'
  BY DEF OwedIsPosted, Passed, Owed, Answered
<1>1. i \in DOMAIN log /\ log'[i] = log[i]
  BY DEF LogGrows
<1>2. Owed(i)
  <2>1. PICK m : m = log[i].msg
    OBVIOUS
  <2>2. OwedCopy(m)' = OwedCopy(m) /\ OwedAnswer(m)' = OwedAnswer(m)
    BY <1>1, <2>1, OwedStays DEF AInv
  <2>3. Owed(i)' = (OwedCopy(m)' \/ OwedAnswer(m)')
    BY <1>1, <2>1 DEF Owed, OwedCopy, OwedAnswer, targetOf, messageAuthorUserID, ChatType,
       isOwnerCommand, CommandHandled, PeerResolves, SenderID
  <2> QED
    BY <2>1, <2>2, <2>3 DEF Owed
<1>3. CASE Passed(i)
  <2>1. Answered(i)
    BY <1>1, <1>2, <1>3 DEF AInv, OwedIsPosted, Passed, Owed, Answered
  <2> QED
    BY <2>1, AnswersStay
<1>4. CASE ~Passed(i)
  BY <1>1, <1>2, <1>4
<1> QED
  BY <1>3, <1>4

\* A call nobody touches is as ready as it was.
LEMMA OtherReady ==
  ASSUME AInv, NEW v \in Worker, job'[v] = job[v], LogGrows
  PROVE  Ready(v)'
<1> SUFFICES ASSUME job[v].pc # "idle" PROVE Ready(v)'
  BY DEF Ready
<1>1. job[v].id \in DOMAIN log /\ Msg(v)' = Msg(v) /\ Msg(v) = log[job[v].id].msg
  BY DEF AInv, KInv, IInv, CallOK, LogGrows, Msg
<1>2. PICK m : m = Msg(v)
  OBVIOUS
<1>3. OwedCopy(m)' = OwedCopy(m)
  BY <1>1, <1>2, OwedStays DEF AInv
<1>4. OwedCopy(Msg(v))' = OwedCopy(m)'
  BY <1>1, <1>2 DEF OwedCopy, targetOf, messageAuthorUserID, ChatType
<1> QED
  BY <1>1, <1>2, <1>3, <1>4 DEF AInv, Ready, ReadyAt

LEMMA WorkerOfType ==
  ASSUME NEW c
  PROVE  WorkerOf(c) \in Worker
BY DEF WorkerOf, Worker

\* Time goes on, and the log stays as it is or gets one entry of now.
LEMMA SameLogFresh ==
  ASSUME AInv, UNCHANGED <<log, starts, started>>, now' \in Nat, now =< now'
  PROVE  Fresh' /\ LogGrows
<1>1. now \in Nat /\ started \in Nat
  BY DEF AInv, KInv, IInv, TypeOK
<1> QED
  BY <1>1 DEF AInv, Fresh, LogGrows

LEMMA LongerLogFresh ==
  ASSUME AInv, NEW e \in Entry, log' = Append(log, e), e.msg.date = now,
         UNCHANGED <<starts, started, now, pos>>
  PROVE  /\ Fresh' /\ InBounds' /\ LogGrows
         /\ \A i \in DOMAIN log' \ DOMAIN log : log'[i] = e /\ ~Passed(i)'
         /\ \E i \in DOMAIN log' : log'[i] = e
<1>1. /\ DOMAIN log = 1..Len(log) /\ Len(log) \in Nat
      /\ DOMAIN log' = 1..(Len(log) + 1) /\ Len(log') = Len(log) + 1
      /\ \A i \in DOMAIN log : log'[i] = log[i]
      /\ log'[Len(log) + 1] = e
  BY AppendToLog, LenProperties, AppendProperties DEF AInv, KInv, IInv, TypeOK
<1>2. now \in Nat /\ started \in Nat /\ \A w \in Worker : pos[w] \in Nat
  BY DEF AInv, KInv, IInv, TypeOK
<1>3. LogGrows
  BY <1>1 DEF LogGrows
<1>4. Fresh'
  BY <1>1, <1>2 DEF AInv, Fresh
<1>5. InBounds'
  BY <1>1, <1>2 DEF AInv, InBounds, Worker, Channels
<1>6. ASSUME NEW i \in DOMAIN log' \ DOMAIN log
      PROVE  log'[i] = e /\ ~Passed(i)'
  <2>1. i = Len(log) + 1 /\ log'[i] = e
    BY <1>1
  <2>2. WorkerOf(e.msg.chat) \in Worker
    BY WorkerOfType
  <2>3. pos[WorkerOf(e.msg.chat)] =< i /\ pos[WorkerOf(e.msg.chat)] \in Nat /\ i \in Nat
    BY <1>1, <1>2, <2>1, <2>2 DEF AInv, InBounds
  <2>4. ~(i < pos'[WorkerOf(e.msg.chat)])
    BY <2>3
  <2> QED
    BY <2>1, <2>4 DEF Passed, WorkerOf, Channels
<1> QED
  BY <1>1, <1>3, <1>4, <1>5, <1>6

\* What the steps show of the next state.
OwesNext == Fresh' /\ InBounds' /\ (\A w \in Worker : Ready(w)') /\ OwedIsPosted'

LEMMA InitOwes == Init => Fresh /\ InBounds /\ (\A w \in Worker : Ready(w)) /\ OwedIsPosted
<1> SUFFICES ASSUME Init
             PROVE  Fresh /\ InBounds /\ (\A w \in Worker : Ready(w)) /\ OwedIsPosted
  OBVIOUS
<1>1. DOMAIN log = {} /\ Len(log) = 0
  BY DEF Init
<1> QED
  BY <1>1 DEF Init, Fresh, InBounds, Ready, Idle, OwedIsPosted

LEMMA PostOwes ==
  ASSUME AInv, Post
  PROVE  OwesNext
<1>1. PICK m \in Samples, r \in {0} \cup DOMAIN log, o \in {0} \cup DOMAIN log :
        log' = Append(log, Outside([m EXCEPT !.date = now, !.replyTo = r], o))
  BY DEF Post, Originals
<1> DEFINE e == Outside([m EXCEPT !.date = now, !.replyTo = r], o)
<1>2. e \in Entry /\ e.msg.date = now
  <2>1. m \in Message /\ now \in Nat /\ starts \in Nat /\ r \in Nat /\ o \in Nat
    BY HandlerAssumption, LenProperties DEF AInv, KInv, IInv, TypeOK
  <2>2. [m EXCEPT !.date = now, !.replyTo = r] \in Message
        /\ [m EXCEPT !.date = now, !.replyTo = r].date = now
    BY <2>1 DEF Message
  <2> QED
    BY <2>1, <2>2 DEF Outside, Entry, Target
<1>3. log' = Append(log, e) /\ UNCHANGED <<starts, started, now, pos, job>>
  BY <1>1 DEF Post, process
<1> HIDE DEF e
<1>4. /\ Fresh' /\ InBounds' /\ LogGrows
      /\ \A i \in DOMAIN log' \ DOMAIN log : ~Passed(i)'
  BY <1>2, <1>3, LongerLogFresh
<1>5. \A i \in DOMAIN log : Passed(i)' => Passed(i)
  BY <1>3, <1>4 DEF LogGrows, Passed, WorkerOf, Channels
<1>6. OwedIsPosted'
  BY <1>3, <1>4, <1>5, StillPosted
<1> QED
  BY <1>3, <1>4, <1>6, OtherReady DEF OwesNext

LEMMA QuietOwes ==
  ASSUME AInv, UNCHANGED <<log, process, pos, job>>, now' \in Nat, now =< now'
  PROVE  OwesNext
<1>1. Fresh' /\ LogGrows
  BY SameLogFresh DEF process
<1>2. InBounds'
  BY DEF AInv, InBounds, Worker, Channels
<1>3. \A i \in DOMAIN log : Passed(i)' => Passed(i)
  BY DEF Passed, WorkerOf, Channels
<1>4. OwedIsPosted'
  BY <1>1, <1>3, StillPosted DEF process
<1> QED
  BY <1>1, <1>2, <1>4, OtherReady DEF OwesNext

\* The next process has been sent nothing yet.
LEMMA RestartOwes ==
  ASSUME AInv, Restart
  PROVE  OwesNext
<1>1. /\ UNCHANGED <<log, now>> /\ starts' = starts + 1 /\ started' = now
      /\ pos' \in [Worker -> 1..(Len(log) + 1)] /\ \A w \in Worker : job'[w] = Idle
  BY DEF Restart
<1>2. now \in Nat /\ starts \in Nat /\ Len(log) \in Nat
  BY LenProperties DEF AInv, KInv, IInv, TypeOK
<1>3. \A i \in DOMAIN log : log'[i].start # starts'
  <2>1. \A i \in DOMAIN log : log[i].start \in Nat /\ log[i].start =< starts
    BY EntryNumbers DEF AInv, KInv, IInv, OInv, LogOK, Dated
  <2> QED
    BY <1>1, <1>2, <2>1
<1>4. Fresh' /\ OwedIsPosted'
  BY <1>1, <1>2, <1>3 DEF Fresh, OwedIsPosted
<1>5. InBounds'
  BY <1>1, <1>2 DEF InBounds, Worker, Channels
<1>6. \A w \in Worker : Ready(w)'
  BY <1>1 DEF Ready, Idle
<1> QED
  BY <1>4, <1>5, <1>6 DEF OwesNext

\* What is owed a copy could be mirrored, and its sender is a bot; what it is
\* posted to can be told.
LEMMA OwedIsCandidate ==
  ASSUME NEW m \in Message, OwedCopy(m)
  PROVE  MirrorCandidate(m) /\ SenderID(m) \in Bot /\ SenderID(m) \in User /\ PeerResolves(m)
<1>1. m.text \in Text /\ "order" \in m.text.cands /\ m.from \in Bot /\ ~m.out
      /\ MirrorBotMessages /\ ChatType(m) = "group"
  BY DEF OwedCopy, Message
<1>2. hasOrderNumber(m.text)
  BY <1>1 DEF hasOrderNumber, containsASCIIDigit, isIgnoredOrderCandidate
<1>3. hasMirrorableContent(m)
  BY <1>1 DEF hasMirrorableContent, Text
<1>4. SenderID(m) \in Bot /\ SenderID(m) \in User
  BY <1>1, PolicyAssumption DEF SenderID
<1>5. PeerResolves(m)
  BY <1>1 DEF PeerResolves, ChatType
<1> QED
  BY <1>1, <1>2, <1>3, <1>4, <1>5 DEF MirrorCandidate

\* A worker that takes its next message passes that one and no other.
LEMMA PassesOne ==
  ASSUME AInv, NEW w \in Worker, job[w].pc = "idle", Pending(w) # {}, UNCHANGED log,
         Advance(w, Min(Pending(w))), \A v \in Worker \ {w} : job'[v] = job[v],
         NEW i \in DOMAIN log, Passed(i)'
  PROVE  Passed(i) \/ (i = Min(Pending(w)) /\ WorkerOf(log[i].msg.chat) = w)
<1>1. /\ Min(Pending(w)) \in Nat /\ \A k \in Pending(w) : Min(Pending(w)) =< k
      /\ i \in Nat /\ pos \in [Worker -> Nat \ {0}]
  BY FirstPending, EntryNumbers DEF AInv, KInv, IInv, TypeOK
<1>2. PICK v \in Worker : v = WorkerOf(log[i].msg.chat)
  BY WorkerOfType
<1>3. i < pos'[v] /\ (job'[v].pc = "idle" \/ job'[v].id # i)
  BY <1>2 DEF Passed, WorkerOf, Channels
<1>4. CASE v # w
  BY <1>1, <1>2, <1>3, <1>4 DEF Passed, Advance
<1>5. CASE v = w
  <2>1. i =< Min(Pending(w))
    BY <1>1, <1>3, <1>5 DEF Advance
  <2>2. CASE i < pos[w]
    BY <1>2, <1>5, <2>2 DEF Passed
  <2>3. CASE ~(i < pos[w])
    <3>1. i \in Pending(w)
      <4>1. pos[w] \in Nat /\ i \in Nat
        BY <1>1
      <4>2. i >= pos[w]
        BY <2>3, <4>1
      <4> QED
        BY <1>2, <1>5, <4>2 DEF Pending
    <3> QED
      BY <1>1, <1>2, <1>5, <2>1, <3>1
  <2> QED
    BY <2>2, <2>3
<1> QED
  BY <1>4, <1>5

LEMMA AdvanceInBounds ==
  ASSUME AInv, NEW w \in Worker, Pending(w) # {}, UNCHANGED log, Advance(w, Min(Pending(w)))
  PROVE  InBounds'
<1>1. /\ Min(Pending(w)) \in DOMAIN log /\ DOMAIN log = 1..Len(log) /\ Len(log) \in Nat
      /\ pos \in [Worker -> Nat \ {0}]
  BY FirstPending, LenProperties DEF AInv, KInv, IInv, TypeOK
<1> QED
  BY <1>1 DEF AInv, InBounds, Advance, Worker, Channels

\* Only what is older than the process is ignored.
LEMMA IgnoreOwes ==
  ASSUME AInv, NEW w \in Worker, IgnoreHistorical(w)
  PROVE  OwesNext
<1>1. /\ job[w].pc = "idle" /\ Pending(w) # {} /\ Advance(w, Min(Pending(w)))
      /\ isHistoricalMessage(log[Min(Pending(w))].msg, started)
      /\ UNCHANGED <<log, starts, started, now, job>>
  BY DEF IgnoreHistorical, process
<1>2. now \in Nat /\ started \in Nat /\ Grace \in Nat
  BY PolicyAssumption DEF AInv, KInv, IInv, TypeOK
<1>3. Fresh' /\ LogGrows
  BY <1>1, <1>2, SameLogFresh
<1>4. InBounds'
  BY <1>1, AdvanceInBounds
<1>5. ASSUME NEW i \in DOMAIN log, log[i].start = starts, Passed(i)'
      PROVE  Passed(i)
  <2>1. i # Min(Pending(w))
    <3>1. started =< log[i].msg.date /\ log[i].msg.date \in Nat
      BY <1>5, EntryNumbers DEF AInv, Fresh, KInv, IInv
    <3> QED
      BY <1>1, <1>2, <3>1 DEF isHistoricalMessage
  <2> QED
    BY <1>1, <1>5, <2>1, PassesOne
<1>6. OwedIsPosted'
  BY <1>1, <1>3, <1>5, StillPosted
<1> QED
  BY <1>1, <1>3, <1>4, <1>6, OtherReady DEF OwesNext

\* A call that has not ended has learnt what it must if that can be seen now.
LEMMA SetsReady ==
  ASSUME NEW w \in Worker, UNCHANGED log, NEW m, Msg(w)' = m,
         ReadyAt(m, job'[w].pc, job'[w].senderIsBot, job'[w].target)
  PROVE  Ready(w)'
<1>1. OwedCopy(Msg(w))' = OwedCopy(m)
  BY DEF OwedCopy, targetOf, messageAuthorUserID, ChatType
<1> QED
  BY <1>1 DEF Ready, ReadyAt

\* The sender a call starts out with: the entities or the cache tell a bot for
\* one, or it is looked up.
LEMMA HandleOwes ==
  ASSUME AInv, NEW w \in Worker, HandleMessage(w)
  PROVE  OwesNext
<1>1. PICK i \in DOMAIN log, m \in Message : i = Min(Pending(w)) /\ m = log[i].msg
  BY FirstPending, LoggedIsMessage DEF AInv, KInv, IInv, HandleMessage
<1>2. PICK isBot, pc :
        /\ isBot = KnownBot(m)
        /\ pc = IF SenderUnknown(m) THEN "sender" ELSE AfterSender(m, isBot)
  OBVIOUS
<1> DEFINE c == [Idle EXCEPT !.id = i, !.senderIsBot = isBot, !.pc = pc]
<1>3. /\ job[w].pc = "idle" /\ Pending(w) # {} /\ Advance(w, i)
      /\ UNCHANGED <<log, starts, started, now>> /\ job' = [job EXCEPT ![w] = c]
  BY <1>1, <1>2 DEF HandleMessage, process
<1>4. c.id = i /\ c.senderIsBot = isBot /\ c.pc = pc /\ c.target = "none"
  BY DEF Idle
<1> HIDE DEF c
<1>5. job'[w] = c /\ \A v \in Worker \ {w} : job'[v] = job[v]
  BY <1>3 DEF AInv, KInv, IInv, TypeOK
<1>6. now \in Nat
  BY DEF AInv, KInv, IInv, TypeOK
<1>7. Fresh' /\ LogGrows /\ InBounds'
  BY <1>1, <1>3, <1>6, SameLogFresh, AdvanceInBounds
<1>8. isBot \in BOOLEAN /\ pc # "idle"
  <2>1. isBot \in BOOLEAN
    BY <1>2 DEF KnownBot, SenderIsBotEntity
  <2> QED
    BY <1>2, <2>1, NextPC
<1>9. ASSUME NEW k \in DOMAIN log, Passed(k)'
      PROVE  Passed(k)
  <2>1. ~(k = i /\ WorkerOf(log[k].msg.chat) = w)
    BY <1>3, <1>4, <1>5, <1>8, <1>9 DEF Passed, WorkerOf, Channels
  <2> QED
    BY <1>1, <1>3, <1>5, <1>9, <2>1, PassesOne
<1>10. OwedIsPosted'
  BY <1>3, <1>7, <1>9, StillPosted
<1>11. ReadyAt(m, pc, isBot, "none")
  <2> SUFFICES ASSUME OwedCopy(m)
               PROVE  /\ pc = "sender" => ~m.userEntity
                      /\ pc # "sender" => isBot
                      /\ pc = "reply" => m.replyTo # 0
    BY DEF ReadyAt
  <2>1. MirrorCandidate(m) /\ SenderID(m) \in Bot /\ SenderID(m) \in User
    BY OwedIsCandidate
  <2>2. CASE SenderUnknown(m)
    BY <1>2, <2>1, <2>2
       DEF SenderUnknown, shouldLookupMessageSenderBot, SenderIsBotEntity, Message
  <2>3. CASE ~SenderUnknown(m)
    <3>1. SenderIsBotEntity(m) \/ cache[SenderID(m)] # "unknown"
      BY <2>1, <2>3, PolicyAssumption DEF SenderUnknown, shouldLookupMessageSenderBot
    <3>2. isBot
      BY <1>2, <2>1, <3>1 DEF KnownBot, AInv, KInv, IInv, CacheIsTrue
    <3>3. pc = AfterSender(m, isBot)
      BY <1>2, <2>3
    <3>4. pc # "sender" /\ (pc = "reply" => m.replyTo # 0)
      BY <1>8, <3>3, SkipsNothing DEF AfterSender, shouldLookupReplyToUserbot
    <3> QED
      BY <3>2, <3>4
  <2> QED
    BY <2>2, <2>3
<1>12. Ready(w)'
  <2>1. Msg(w)' = m
    BY <1>1, <1>3, <1>4, <1>5 DEF Msg
  <2> QED
    BY <1>3, <1>4, <1>5, <1>11, <2>1, SetsReady
<1> QED
  BY <1>5, <1>7, <1>10, <1>12, OtherReady DEF OwesNext

\* A look-up that says no leaves a bot's order undecided only where the entities
\* had not told its sender; and who asks about a reply is told.
LEMMA WaitReady ==
  ASSUME AInv, NEW w \in Worker, Waits(w)
  PROVE  Ready(w)' /\ job'[w].pc # "idle"
<1>1. PICK m \in Message : m = Msg(w) /\ m = log[job[w].id].msg
  BY InFlightIsMessage DEF AInv, KInv, IInv, Msg, Waits, ResolveMessageSenderBot,
     ResolveReplyToUserbot, EnsureUser, EnsureGroup
<1>2. /\ UNCHANGED log /\ job[w].pc # "idle" /\ job'[w].id = job[w].id
  BY WaitingMoves DEF AInv, KInv, IInv
<1>3. Msg(w)' = m
  BY <1>1, <1>2 DEF Msg
<1>4. ReadyAt(m, job[w].pc, job[w].senderIsBot, job[w].target) /\ job \in [Worker -> Job]
  BY <1>1, <1>2 DEF AInv, KInv, IInv, TypeOK, Ready
<1>5. \A isBot \in BOOLEAN : /\ AfterSender(m, isBot) \in {"reply", "user", "group", "act"}
                             /\ AfterReply(m) \in {"user", "group", "act"}
                             /\ AfterUser(m) \in {"group", "act"}
  BY NextPC
<1>6. /\ job'[w].pc # "idle"
      /\ ReadyAt(m, job'[w].pc, job'[w].senderIsBot, job'[w].target)
  <2>1. CASE ResolveMessageSenderBot(w)
    <3>1. job[w].pc = "sender"
      BY <2>1 DEF ResolveMessageSenderBot
    <3>2. CASE job' = [job EXCEPT ![w].senderIsBot = SenderID(m) \in Bot,
                                  ![w].pc = AfterSender(m, SenderID(m) \in Bot)]
      <4>1. PICK isBot \in BOOLEAN : isBot = (SenderID(m) \in Bot)
        <5>1. CASE SenderID(m) \in Bot
          <6>1. (SenderID(m) \in Bot) = TRUE
            BY <5>1
          <6> QED
            BY <6>1
        <5>2. CASE SenderID(m) \notin Bot
          <6>1. (SenderID(m) \in Bot) = FALSE
            BY <5>2
          <6> QED
            BY <6>1
        <5> QED
          BY <5>1, <5>2
      <4>2. job' = [job EXCEPT ![w].senderIsBot = isBot, ![w].pc = AfterSender(m, isBot)]
        BY <3>2, <4>1, Zenon
      <4>3. /\ job'[w].pc = AfterSender(m, isBot) /\ job'[w].senderIsBot = isBot
            /\ job'[w].target = job[w].target
        BY <1>4, <4>2 DEF Job
      <4>4. OwedCopy(m) => isBot
        BY <4>1, OwedIsCandidate
      <4>5. AfterSender(m, isBot) = "reply" => m.replyTo # 0
        BY <1>5 DEF AfterSender, shouldLookupReplyToUserbot
      <4> QED
        BY <1>4, <1>5, <4>3, <4>4, <4>5 DEF ReadyAt
    <3>3. CASE "sender" \in Faults /\ Goto(w, AfterReply(m))
      <4>1. ~OwedCopy(m)
        BY <1>4, <3>1, <3>3 DEF ReadyAt, OwedCopy
      <4>2. job'[w].pc = AfterReply(m)
        BY <1>4, <3>3 DEF Goto, Job
      <4> QED
        BY <1>5, <4>1, <4>2 DEF ReadyAt
    <3> QED
      BY <1>1, <2>1, <3>2, <3>3 DEF ResolveMessageSenderBot
  <2>2. CASE ResolveReplyToUserbot(w)
    <3>1. PICK t : /\ job' = [job EXCEPT ![w].target = t, ![w].pc = AfterReply(m)]
                   /\ t = targetOf(m) \/ t = "failed"
      BY <1>1, <2>2 DEF ResolveReplyToUserbot
    <3>2. /\ job'[w].pc = AfterReply(m) /\ job'[w].senderIsBot = job[w].senderIsBot
          /\ job'[w].target = t
      BY <1>4, <3>1 DEF Job
    <3>3. job[w].pc = "reply"
      BY <2>2 DEF ResolveReplyToUserbot
    <3>4. OwedCopy(m) => job[w].senderIsBot /\ t # "userbot"
      BY <1>4, <3>1, <3>3 DEF ReadyAt, OwedCopy
    <3> QED
      BY <1>5, <3>2, <3>4 DEF ReadyAt
  <2>3. CASE EnsureUser(w) \/ EnsureGroup(w)
    <3>1. /\ job'[w].pc \in {"group", "act"} /\ job'[w].senderIsBot = job[w].senderIsBot
          /\ job'[w].target = job[w].target /\ job[w].pc \in {"user", "group"}
      <4>1. CASE EnsureUser(w)
        BY <1>1, <1>4, <1>5, <4>1 DEF EnsureUser, Goto, Job
      <4>2. CASE EnsureGroup(w)
        BY <1>4, <4>2 DEF EnsureGroup, Goto, Job
      <4> QED
        BY <2>3, <4>1, <4>2
    <3> QED
      BY <1>4, <3>1 DEF ReadyAt
  <2> QED
    BY <2>1, <2>2, <2>3 DEF Waits
<1> QED
  BY <1>2, <1>3, <1>6, SetsReady

LEMMA WaitOwes ==
  ASSUME AInv, NEW w \in Worker, Waits(w)
  PROVE  OwesNext
<1>1. /\ UNCHANGED <<log, now, started, starts, pos>> /\ now \in Nat
      /\ job[w].pc # "idle" /\ job'[w].id = job[w].id
      /\ \A v \in Worker \ {w} : job'[v] = job[v]
  BY WaitingMoves DEF AInv, KInv, IInv, TypeOK
<1>2. Ready(w)' /\ job'[w].pc # "idle"
  BY WaitReady
<1>3. Fresh' /\ LogGrows /\ InBounds'
  <2>1. InBounds'
    BY <1>1 DEF AInv, InBounds, Worker, Channels
  <2> QED
    BY <1>1, <2>1, SameLogFresh
<1>4. ASSUME NEW i \in DOMAIN log, Passed(i)' PROVE Passed(i)
  BY <1>1, <1>2, <1>4, WorkerOfType DEF Passed, WorkerOf, Channels
<1>5. OwedIsPosted'
  BY <1>1, <1>3, <1>4, StillPosted
<1> QED
  BY <1>1, <1>2, <1>3, <1>5, OtherReady DEF OwesNext

\* A call that ends has posted for its message if that was owed anything.
LEMMA EndOwes ==
  ASSUME AInv, NEW w \in Worker, job[w].pc # "idle", Done(w), UNCHANGED <<starts, pos>>,
         Fresh', LogGrows, InBounds', \A i \in DOMAIN log' \ DOMAIN log : ~Passed(i)',
         NEW id, id = job[w].id, "send" \notin Faults /\ Owed(id) => Answered(id)'
  PROVE  OwesNext
<1>1. job'[w] = Idle /\ \A v \in Worker \ {w} : job'[v] = job[v]
  BY DoneFrees DEF AInv, KInv, IInv
<1>2. Ready(w)'
  BY <1>1 DEF Ready, Idle
<1>3. ASSUME NEW i \in DOMAIN log, Passed(i)', i # id PROVE Passed(i)
  <2>1. PICK v \in Worker : v = WorkerOf(log[i].msg.chat)
    BY WorkerOfType
  <2>2. i < pos[v] /\ (job'[v].pc = "idle" \/ job'[v].id # i)
    BY <1>3, <2>1 DEF Passed, WorkerOf, Channels, LogGrows
  <2> QED
    BY <1>1, <1>3, <2>1, <2>2 DEF Passed
<1>4. ASSUME NEW i \in DOMAIN log, "send" \notin Faults, Owed(i), Passed(i)'
      PROVE  Passed(i) \/ Answered(i)'
  <2>1. CASE i = id
    <3>1. Owed(id)
      BY <1>4, <2>1
    <3>2. Answered(id)'
      BY <1>4, <3>1
    <3> QED
      BY <2>1, <3>2
  <2>2. CASE i # id
    BY <1>3, <1>4, <2>2
  <2> QED
    BY <2>1, <2>2
<1>5. OwedIsPosted'
  BY <1>4, StillPosted
<1> QED
  BY <1>1, <1>2, <1>5, OtherReady DEF OwesNext

\* A call that acts mirrors what is owed a copy, and answers what is owed that.
LEMMA ActsOnOwed ==
  ASSUME AInv, NEW w \in Worker, job[w].pc = "act"
  PROVE  /\ OwedCopy(Msg(w)) => Mirrors(w)
         /\ OwedAnswer(Msg(w)) => Mirrors(w) \/ Answers(w)
         /\ OwedCopy(Msg(w)) \/ OwedAnswer(Msg(w)) => PeerResolves(Msg(w))
<1>1. Msg(w) \in Message
  BY InFlightIsMessage DEF AInv, KInv, IInv
<1>2. ReadyAt(Msg(w), "act", job[w].senderIsBot, job[w].target)
  BY DEF AInv, Ready
<1>3. OwedCopy(Msg(w)) => Mirrors(w) /\ PeerResolves(Msg(w))
  BY <1>1, <1>2, OwedIsCandidate
     DEF ReadyAt, Mirrors, shouldMirrorBotMessage, replyToUserbot
<1>4. OwedAnswer(Msg(w)) => (Mirrors(w) \/ Answers(w)) /\ PeerResolves(Msg(w))
  BY DEF OwedAnswer, Answers
<1> QED
  BY <1>3, <1>4

LEMMA SilentOwes ==
  ASSUME AInv, NEW w \in Worker, job[w].pc = "act", Done(w), UNCHANGED <<log, now, process, pos>>,
         "send" \in Faults \/ ~PeerResolves(Msg(w)) \/ (~Mirrors(w) /\ ~Answers(w))
  PROVE  OwesNext
<1>1. PICK id : id = job[w].id /\ ~("send" \notin Faults /\ Owed(id))
  BY ActsOnOwed DEF Owed, Msg
<1>2. now \in Nat
  BY DEF AInv, KInv, IInv, TypeOK
<1>3. Fresh' /\ LogGrows /\ InBounds'
  <2>1. InBounds'
    BY DEF AInv, InBounds, Worker, Channels
  <2> QED
    BY <1>2, <2>1, SameLogFresh DEF process
<1> QED
  BY <1>1, <1>3, EndOwes DEF process

LEMMA SendOwes ==
  ASSUME AInv, NEW w \in Worker, job[w].pc = "act", Done(w), UNCHANGED <<now, process, pos>>,
         NEW via \in {"mirror", "command"}, NEW text \in Text, NEW media \in BOOLEAN,
         NEW replyTo \in Nat, Send(w, via, text, media, replyTo)
  PROVE  OwesNext
<1>1. IInv /\ job[w].pc # "idle"
  BY DEF AInv, KInv
<1>2. PICK e \in Entry : log' = Append(log, e) /\ SentBy(w, e, via, text, replyTo)
  BY <1>1, SendAppends
<1>3. /\ e.msg.date = now /\ e.via # "outside" /\ e.src = job[w].id /\ e.start = starts
      /\ UNCHANGED <<starts, started>>
  BY <1>2 DEF SentBy, process
<1>4. /\ Fresh' /\ InBounds' /\ LogGrows
      /\ \A i \in DOMAIN log' \ DOMAIN log : ~Passed(i)'
      /\ \E i \in DOMAIN log' : log'[i] = e
  BY <1>2, <1>3, LongerLogFresh
<1>5. PICK id : id = job[w].id /\ Answered(id)'
  BY <1>3, <1>4 DEF Answered, Posted
<1> QED
  BY <1>1, <1>3, <1>4, <1>5, EndOwes

LEMMA ActOwes ==
  ASSUME AInv, NEW w \in Worker,
         MirrorMessageToSamePeer(w) \/ ReplyToCommand(w) \/ IgnoreMessage(w)
  PROVE  OwesNext
<1>1. job[w].pc = "act" /\ Done(w) /\ UNCHANGED <<now, process, pos>>
  BY DEF MirrorMessageToSamePeer, ReplyToCommand, IgnoreMessage, process
<1>2. Msg(w) \in Message
  BY <1>1, InFlightIsMessage DEF AInv, KInv, IInv
<1>3. CASE SendFails(w) \/ IgnoreMessage(w)
  BY <1>1, <1>3, SilentOwes DEF SendFails, IgnoreMessage
<1>4. CASE Send(w, "mirror", Msg(w).text, Msg(w).media, Msg(w).replyTo)
  <2>1. Msg(w).text \in Text /\ Msg(w).media \in BOOLEAN /\ Msg(w).replyTo \in Nat
    BY <1>2 DEF Message
  <2> QED
    BY <1>1, <1>4, <2>1, SendOwes
<1>5. CASE Send(w, "command", ResponseText, FALSE, 0)
  <2>1. ResponseText \in Text
    BY DEF ResponseText, Text, Lead, Candidate
  <2>2. PICK media \in BOOLEAN : Send(w, "command", ResponseText, media, 0)
    <3> WITNESS FALSE \in BOOLEAN
    <3> QED BY <1>5
  <2> QED
    BY <1>1, <2>1, <2>2, SendOwes
<1> QED
  BY <1>3, <1>4, <1>5 DEF MirrorMessageToSamePeer, ReplyToCommand

LEMMA StepAInv == AInv /\ [Next]_vars => AInv'
<1> SUFFICES ASSUME AInv, [Next]_vars PROVE AInv'
  OBVIOUS
<1>1. OInv' /\ KInv'
  BY StepOInv, StepKInv DEF AInv
<1>2. OwesNext
  <2>1. CASE Post
    BY <2>1, PostOwes
  <2>2. CASE Restart
    BY <2>2, RestartOwes
  <2>3. CASE Tick \/ UNCHANGED vars
    <3>1. now \in Nat
      BY DEF AInv, KInv, IInv, TypeOK
    <3> QED
      BY <2>3, <3>1, QuietOwes DEF Tick, vars, process
  <2>4. CASE \E w \in Worker : Handle(w)
    BY <2>4, IgnoreOwes, HandleOwes, WaitOwes, ActOwes DEF Handle, Waits
  <2> QED
    BY <2>1, <2>2, <2>3, <2>4 DEF Next
<1> QED
  BY <1>1, <1>2 DEF AInv, OwesNext, Worker, Channels

\* Whatever the cache held, whoever answered and however the workers interleave,
\* no order that is owed a copy and no command that is owed an answer is passed
\* over by the process it came to, as long as Telegram takes what it posts.
THEOREM NothingOwedIsDropped == Spec => []OwedIsPosted
<1>1. Init => AInv
  BY InitOInv, InitIInv, InitKInv, InitOwes DEF AInv
<1>2. AInv => OwedIsPosted
  BY DEF AInv
<1> QED
  BY <1>1, <1>2, StepAInv, PTL DEF Spec

=============================================================================
