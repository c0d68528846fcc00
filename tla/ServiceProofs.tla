---------------------------- MODULE ServiceProofs ----------------------------
(***************************************************************************)
(* Proofs about what UpdateHandler posts, for every set of users, chats,   *)
(* samples and faults and every bound: a repeated answer is recent,        *)
(* nothing it posts keeps it talking, and all it posts is the service of   *)
(* MirrorService.                                                          *)
(***************************************************************************)
EXTENDS UpdateHandlerProofs, FiniteSetTheorems

-----------------------------------------------------------------------------
(* The inductive invariant.  A worker only moves on, so what it answers    *)
(* next is later than all it has answered; and what an earlier process     *)
(* posted is older than this one, whose messages are not historical.       *)

\* Entries are dated, and those of earlier processes older than this one.
Dated ==
  /\ now # 0 /\ starts # 0
  /\ \A i \in DOMAIN log :
       /\ log[i].msg.date # 0 /\ log[i].msg.date =< now
       /\ log[i].start # 0 /\ log[i].start =< starts
       /\ log[i].start < starts => log[i].msg.date =< started

\* A post is the account's, goes to the chat of the message it is for, and an
\* answer to a command says what such answers say.
PostsAreOwn ==
  \A i \in Posted :
    /\ log[i].msg.out
    /\ log[i].msg.chat = Src(i).chat
    /\ log[i].via = "command" => log[i].msg.text = ResponseText

\* Of the messages of a worker this process has answered, all are before n.
AnsweredBefore(w, n) ==
  \A i \in Posted :
    log[i].start = starts /\ WorkerOf(log[i].msg.chat) = w => log[i].src < n

\* A call is about a recent message of its worker, later than all answered.
InTurn(w) ==
  job[w].pc # "idle" =>
    /\ job[w].id < pos[w] /\ WorkerOf(Msg(w).chat) = w
    /\ ~isHistoricalMessage(Msg(w), started)
    /\ AnsweredBefore(w, job[w].id)

StartsInOrder == \A i, j \in DOMAIN log : i < j => log[i].start =< log[j].start

\* One process posts for the messages of a worker in the order gotd hands them
\* over, and at most once for each.
AnswersInOrder ==
  \A i, j \in Posted :
    /\ i < j /\ log[i].start = log[j].start
    /\ WorkerOf(log[i].msg.chat) = WorkerOf(log[j].msg.chat)
    => log[i].src < log[j].src

\* What is said of the log alone.
LogOK ==
  /\ Dated /\ PostsAreOwn /\ StartsInOrder
  /\ AnswersInOrder /\ SelfTrafficSettles /\ RepeatsOnlyWithinGrace

\* What is said of the workers.
TurnsOK == \A w \in Worker : AnsweredBefore(w, pos[w]) /\ InTurn(w)

OInv == IInv /\ LogOK /\ TurnsOK

-----------------------------------------------------------------------------
(* The log.                                                                *)

\* A step of the running process that leaves the log alone.
LEMMA LogStays ==
  ASSUME OInv, UNCHANGED <<log, starts, started>>, now' \in Nat, now =< now'
  PROVE  LogOK'
<1>1. Dated'
  <2>1. now \in Nat /\ \A i \in DOMAIN log : log[i].msg.date \in Nat
    <3>1. \A i \in DOMAIN log : log[i].msg \in Message
      BY LoggedIsMessage DEF OInv, IInv
    <3> QED
      BY <3>1 DEF OInv, IInv, TypeOK, Message
  <2> QED
    BY <2>1 DEF OInv, LogOK, Dated
<1> QED
  BY <1>1 DEF OInv, LogOK, PostsAreOwn, StartsInOrder, AnswersInOrder, SelfTrafficSettles,
     RepeatsOnlyWithinGrace, Posted, Src

\* The numbers in a log entry are numbers.
LEMMA EntryNumbers ==
  ASSUME TypeOK, NEW i \in DOMAIN log
  PROVE  /\ log[i].msg.date \in Nat /\ log[i].start \in Nat /\ log[i].src \in Nat
         /\ i \in Nat
<1>1. log[i] \in Entry /\ log[i].msg \in Message /\ DOMAIN log \subseteq Nat
  BY LoggedIsMessage, LenProperties DEF TypeOK
<1> QED
  BY <1>1 DEF Entry, Message

\* What an appended entry must be like.  Its source is src, and nothing this
\* process has posted for the same worker is for a message after that.
Sound(e) ==
  /\ e.start = starts /\ e.msg.date = now
  /\ e.via # "outside" =>
       /\ e.src \in DOMAIN log
       /\ e.msg.out /\ e.msg.chat = log[e.src].msg.chat
       /\ e.via = "command" => e.msg.text = ResponseText
       /\ ~isHistoricalMessage(log[e.src].msg, started)
       /\ AnsweredBefore(WorkerOf(e.msg.chat), e.src)
       /\ log[e.src].via # "command"
       /\ e.via = "mirror" => log[e.src].via = "outside"

LEMMA LogGrowsOK ==
  ASSUME OInv, NEW e \in Entry, log' = Append(log, e), UNCHANGED <<starts, started, now>>,
         Sound(e)
  PROVE  LogOK' /\ LogGrows /\ Posted' \subseteq Posted \cup {Len(log) + 1}
         /\ Posted \subseteq DOMAIN log /\ log'[Len(log) + 1] = e
<1> DEFINE n == Len(log) + 1
<1>1. /\ DOMAIN log = 1..Len(log) /\ Len(log) \in Nat
      /\ DOMAIN log' = 1..n /\ DOMAIN log \subseteq DOMAIN log'
      /\ \A i \in DOMAIN log : log'[i] = log[i]
      /\ log'[n] = e
      /\ \A i \in DOMAIN log' : i \in DOMAIN log \/ i = n
      /\ \A i \in DOMAIN log : i < n /\ i \in Nat
  BY AppendToLog DEF OInv, IInv
<1>2. now \in Nat /\ started \in Nat /\ starts \in Nat /\ TypeOK
  BY DEF OInv, IInv, TypeOK
<1> HIDE DEF n
<1>3. LogGrows
  BY <1>1 DEF LogGrows
<1>4. \A i \in Posted : i \in DOMAIN log /\ log[i].src \in DOMAIN log /\ log'[i] = log[i]
                        /\ log'[log[i].src] = log[log[i].src]
  BY <1>1 DEF OInv, IInv, SourcesAreLogged, Posted
<1>5. \A i \in Posted' : i \in Posted \/ (i = n /\ e.via # "outside")
  BY <1>1 DEF Posted
<1>6. e.via # "outside" => /\ e.src \in DOMAIN log /\ log'[e.src] = log[e.src]
  BY <1>1 DEF Sound
<1>7. Dated'
  BY <1>1, <1>2 DEF OInv, LogOK, Dated, Sound
<1>8. PostsAreOwn'
  <2> SUFFICES ASSUME NEW i \in Posted'
               PROVE  (/\ log[i].msg.out
                       /\ log[i].msg.chat = Src(i).chat
                       /\ log[i].via = "command" => log[i].msg.text = ResponseText)'
    BY DEF PostsAreOwn
  <2>1. CASE i \in Posted
    <3>1. log'[i] = log[i] /\ Src(i)' = Src(i)
      BY <1>4, <2>1 DEF Src
    <3> QED
      BY <2>1, <3>1 DEF OInv, LogOK, PostsAreOwn
  <2>2. CASE i = n /\ e.via # "outside"
    <3>1. log'[i] = e /\ Src(i)' = log[e.src].msg
      BY <1>1, <1>6, <2>2 DEF Src
    <3> QED
      BY <2>2, <3>1 DEF Sound
  <2> QED
    BY <1>5, <2>1, <2>2
<1>9. StartsInOrder'
  <2>1. \A i \in DOMAIN log : log[i].start =< e.start /\ log[i].start \in Nat
    BY <1>2, EntryNumbers DEF OInv, LogOK, Dated, Sound
  <2>2. n \in Nat
    BY <1>1 DEF n
  <2> QED
    BY <1>1, <1>2, <2>1, <2>2 DEF OInv, LogOK, StartsInOrder, Sound
<1>10. AnswersInOrder'
  <2> SUFFICES ASSUME NEW i \in Posted', NEW j \in Posted', i < j,
                      (log[i].start = log[j].start)',
                      (WorkerOf(log[i].msg.chat) = WorkerOf(log[j].msg.chat))'
               PROVE  (log[i].src < log[j].src)'
    BY DEF AnswersInOrder, WorkerOf, Channels
  <2>1. i # n
    BY <1>1, <1>4, <1>5 DEF n
  <2>2. i \in Posted /\ log'[i] = log[i]
    BY <1>4, <1>5, <2>1
  <2>3. CASE j \in Posted
    <3>1. log'[j] = log[j]
      BY <1>4, <2>3
    <3> QED
      BY <2>2, <2>3, <3>1 DEF OInv, LogOK, AnswersInOrder, WorkerOf, Channels
  <2>4. CASE j = n /\ e.via # "outside"
    BY <1>1, <2>2, <2>4 DEF Sound, AnsweredBefore, WorkerOf, Channels
  <2> QED
    BY <1>5, <2>3, <2>4
<1>11. SelfTrafficSettles'
  <2> SUFFICES ASSUME NEW i \in Posted'
               PROVE  (/\ log[log[i].src].via # "command"
                       /\ log[i].via = "mirror" => log[log[i].src].via = "outside")'
    BY DEF SelfTrafficSettles
  <2>1. CASE i \in Posted
    <3>1. log'[i] = log[i] /\ log'[log'[i].src] = log[log[i].src]
      BY <1>4, <2>1
    <3> QED
      BY <2>1, <3>1 DEF OInv, LogOK, SelfTrafficSettles
  <2>2. CASE i = n /\ e.via # "outside"
    <3>1. log'[i] = e /\ log'[log'[i].src] = log[e.src]
      BY <1>1, <1>6, <2>2
    <3> QED
      BY <2>2, <3>1 DEF Sound
  <2> QED
    BY <1>5, <2>1, <2>2
<1>12. RepeatsOnlyWithinGrace'
  <2> SUFFICES ASSUME NEW i \in Posted', NEW j \in Posted', i < j, (log[i].src = log[j].src)'
               PROVE  (/\ log[i].start < log[j].start
                       /\ log[i].msg.date =< Src(i).date + Grace)'
    BY DEF RepeatsOnlyWithinGrace
  <2>1. i # n
    BY <1>1, <1>4, <1>5 DEF n
  <2>2. i \in Posted /\ log'[i] = log[i] /\ Src(i)' = Src(i) /\ i \in DOMAIN log
    BY <1>4, <1>5, <2>1 DEF Src
  <2>3. CASE j \in Posted
    <3>1. log'[j] = log[j]
      BY <1>4, <2>3
    <3> QED
      BY <2>2, <2>3, <3>1 DEF OInv, LogOK, RepeatsOnlyWithinGrace
  <2>4. CASE j = n /\ e.via # "outside"
    <3>1. log'[j] = e /\ log[i].src = e.src /\ Src(i) = log[e.src].msg /\ e.src \in DOMAIN log
      BY <1>1, <1>6, <2>2, <2>4 DEF Src
    <3>2. log[i].msg.chat = e.msg.chat
      BY <2>2, <2>4, <3>1 DEF OInv, LogOK, PostsAreOwn, Sound
    <3>3. log[i].start # starts
      <4>1. log[i].src \in Nat
        BY <1>2, <2>2, EntryNumbers
      <4> QED
        BY <2>2, <2>4, <3>1, <3>2, <4>1 DEF Sound, AnsweredBefore
    <3>4. log[i].start < starts /\ log[i].msg.date =< started
      BY <1>2, <2>2, <3>3, EntryNumbers DEF OInv, LogOK, Dated
    <3>5. started =< log[e.src].msg.date + Grace
      <4>1. log[e.src].msg.date \in Nat /\ log[e.src].msg.date # 0 /\ Grace \in Nat
        BY <1>2, <3>1, EntryNumbers, PolicyAssumption DEF OInv, LogOK, Dated
      <4> QED
        BY <1>2, <2>4, <4>1 DEF Sound, isHistoricalMessage
    <3>6. log[i].msg.date \in Nat /\ log[e.src].msg.date \in Nat /\ Grace \in Nat
      BY <1>2, <2>2, <3>1, EntryNumbers, PolicyAssumption
    <3>7. log[i].msg.date =< log[e.src].msg.date + Grace
      BY <1>2, <3>4, <3>5, <3>6
    <3> QED
      BY <2>2, <2>4, <3>1, <3>4, <3>7 DEF Sound
  <2> QED
    BY <1>5, <2>3, <2>4
<1> QED
  BY <1>1, <1>3, <1>4, <1>5, <1>7, <1>8, <1>9, <1>10, <1>11, <1>12 DEF LogOK, n

-----------------------------------------------------------------------------
(* The workers.                                                            *)

\* Answering no message beyond n, a worker answers none beyond a later one.
LEMMA LaterBound ==
  ASSUME IInv, UNCHANGED <<log, starts>>, NEW w \in Worker, NEW m \in Nat, NEW n \in Nat,
         m =< n, AnsweredBefore(w, m)
  PROVE  AnsweredBefore(w, n)'
<1>1. \A i \in Posted : i \in DOMAIN log /\ log[i].src \in Nat
  BY EntryNumbers DEF IInv, Posted
<1> QED
  BY <1>1 DEF AnsweredBefore, Posted, WorkerOf, Channels

\* The turn of a worker is kept by every step of the process that takes no new
\* message of it, whatever it appends for other workers; a step that answers
\* for it ends its call.
LEMMA Turn ==
  ASSUME OInv, NEW w \in Worker, UNCHANGED <<starts, started>>, LogGrows,
         pos'[w] \in Nat, pos[w] =< pos'[w],
         job'[w].pc = "idle" \/ (job[w].pc # "idle" /\ job'[w].id = job[w].id),
         \A i \in Posted' : \/ i \in Posted
                            \/ WorkerOf(log'[i].msg.chat) # w
                            \/ job'[w].pc = "idle" /\ log'[i].src < pos'[w]
  PROVE  (AnsweredBefore(w, pos[w]) /\ InTurn(w))'
<1>1. \A i \in Posted : i \in DOMAIN log /\ log'[i] = log[i] /\ log[i].src \in Nat
  BY EntryNumbers DEF OInv, IInv, Posted, LogGrows
<1>2. pos[w] \in Nat /\ AnsweredBefore(w, pos[w]) /\ InTurn(w)
  BY DEF OInv, IInv, TypeOK, TurnsOK
<1>3. AnsweredBefore(w, pos[w])'
  <2> SUFFICES ASSUME NEW i \in Posted', (log[i].start = starts)',
                      (WorkerOf(log[i].msg.chat) = w)'
               PROVE  (log[i].src < pos[w])'
    BY DEF AnsweredBefore, WorkerOf, Channels
  <2>1. CASE i \in Posted
    BY <1>1, <1>2, <2>1 DEF AnsweredBefore, WorkerOf, Channels
  <2>2. CASE i \notin Posted
    BY <2>2 DEF WorkerOf, Channels
  <2> QED
    BY <2>1, <2>2
<1>4. InTurn(w)'
  <2>1. CASE job'[w].pc = "idle"
    BY <2>1 DEF InTurn
  <2>2. CASE job'[w].pc # "idle"
    <3>1. job[w].pc # "idle" /\ job'[w].id = job[w].id /\ job[w].id \in DOMAIN log
      BY <2>2 DEF OInv, IInv, CallOK
    <3>2. Msg(w)' = Msg(w)
      BY <3>1 DEF Msg, LogGrows
    <3>3. job[w].id \in Nat
      BY <3>1, EntryNumbers DEF OInv, IInv
    <3>4. (job[w].id < pos[w] /\ WorkerOf(Msg(w).chat) = w
            /\ ~isHistoricalMessage(Msg(w), started))'
      BY <1>2, <3>1, <3>2, <3>3 DEF InTurn, WorkerOf, Channels, isHistoricalMessage
    <3>5. AnsweredBefore(w, job[w].id)'
      <4> SUFFICES ASSUME NEW i \in Posted', (log[i].start = starts)',
                          (WorkerOf(log[i].msg.chat) = w)'
                   PROVE  (log[i].src < job[w].id)'
        BY DEF AnsweredBefore, WorkerOf, Channels
      <4>1. i \in Posted
        BY <2>2 DEF WorkerOf, Channels
      <4>2. AnsweredBefore(w, job[w].id)
        BY <1>2, <3>1 DEF InTurn
      <4> QED
        BY <1>1, <3>1, <4>1, <4>2 DEF AnsweredBefore, WorkerOf, Channels
    <3> QED
      BY <3>4, <3>5 DEF InTurn
  <2> QED
    BY <2>1, <2>2
<1> QED
  BY <1>3, <1>4

-----------------------------------------------------------------------------
(* The steps.                                                              *)

LEMMA InitOInv == Init => OInv
<1> SUFFICES ASSUME Init PROVE OInv
  OBVIOUS
<1>1. DOMAIN log = {} /\ Posted = {}
  BY DEF Init, Posted
<1>2. LogOK
  BY <1>1 DEF Init, LogOK, Dated, PostsAreOwn, StartsInOrder, AnswersInOrder,
     SelfTrafficSettles, RepeatsOnlyWithinGrace
<1>3. TurnsOK
  BY <1>1 DEF Init, TurnsOK, AnsweredBefore, InTurn, Idle
<1> QED
  BY <1>2, <1>3, InitIInv DEF OInv

\* What others post is nobody's answer.
LEMMA PostKeepsOrder ==
  ASSUME OInv, Post
  PROVE  LogOK' /\ TurnsOK'
<1>1. PICK m \in Samples, r \in {0} \cup DOMAIN log, o \in {0} \cup DOMAIN log :
        log' = Append(log, Outside([m EXCEPT !.date = now, !.replyTo = r], o))
  BY DEF Post, Originals
<1> DEFINE e == Outside([m EXCEPT !.date = now, !.replyTo = r], o)
<1>2. e \in Entry /\ e.via = "outside" /\ e.start = starts /\ e.msg.date = now
  <2>1. m \in Message /\ now \in Nat /\ starts \in Nat /\ r \in Nat /\ o \in Nat
    BY HandlerAssumption, EntryNumbers DEF OInv, IInv, TypeOK
  <2>2. [m EXCEPT !.date = now, !.replyTo = r] \in Message
        /\ [m EXCEPT !.date = now, !.replyTo = r].date = now
    BY <2>1 DEF Message
  <2> QED
    BY <2>1, <2>2 DEF Outside, Entry, Target
<1>3. log' = Append(log, e) /\ UNCHANGED <<starts, started, now, pos, job>>
  BY <1>1 DEF Post, process
<1> HIDE DEF e
<1>4. Sound(e)
  BY <1>2 DEF Sound
<1>5. LogOK' /\ LogGrows /\ Posted' \subseteq Posted \cup {Len(log) + 1} /\ log'[Len(log) + 1] = e
  BY <1>2, <1>3, <1>4, LogGrowsOK
<1>6. Posted' \subseteq Posted
  BY <1>2, <1>5 DEF Posted
<1>7. TurnsOK'
  <2> SUFFICES ASSUME NEW w \in Worker
               PROVE  (AnsweredBefore(w, pos[w]) /\ InTurn(w))'
    BY DEF TurnsOK, Worker, Channels
  <2>1. pos[w] \in Nat
    BY DEF OInv, IInv, TypeOK
  <2> QED
    BY <1>3, <1>5, <1>6, <2>1, Turn
<1> QED
  BY <1>5, <1>7

LEMMA TickKeepsOrder ==
  ASSUME OInv, Tick
  PROVE  LogOK' /\ TurnsOK'
<1>1. UNCHANGED <<log, starts, started, pos, job>> /\ now \in Nat /\ now' = now + 1
  BY DEF Tick, process, OInv, IInv, TypeOK
<1>2. LogOK' /\ LogGrows /\ Posted' = Posted
  BY <1>1, LogStays DEF LogGrows, Posted
<1>3. TurnsOK'
  <2> SUFFICES ASSUME NEW w \in Worker
               PROVE  (AnsweredBefore(w, pos[w]) /\ InTurn(w))'
    BY DEF TurnsOK, Worker, Channels
  <2>1. pos[w] \in Nat
    BY DEF OInv, IInv, TypeOK
  <2> QED
    BY <1>1, <1>2, <2>1, Turn
<1> QED
  BY <1>2, <1>3

\* The next process has answered nothing yet, and everything is older than it.
LEMMA RestartKeepsOrder ==
  ASSUME OInv, Restart
  PROVE  LogOK' /\ TurnsOK'
<1>1. /\ UNCHANGED <<log, now>> /\ starts' = starts + 1 /\ started' = now
      /\ \A w \in Worker : job'[w] = Idle
  BY DEF Restart
<1>2. starts' \in Nat /\ \A i \in DOMAIN log : log[i].start \in Nat /\ log[i].start < starts'
  BY <1>1, EntryNumbers DEF OInv, LogOK, Dated, IInv, TypeOK
<1>3. Dated'
  <2>1. \A i \in DOMAIN log : log[i].start =< starts'
    BY <1>2
  <2>2. starts' # 0
    BY <1>1 DEF OInv, IInv, TypeOK
  <2> QED
    BY <1>1, <2>1, <2>2 DEF OInv, LogOK, Dated
<1>4. LogOK'
  BY <1>1, <1>3 DEF OInv, LogOK, PostsAreOwn, StartsInOrder, AnswersInOrder,
     SelfTrafficSettles, RepeatsOnlyWithinGrace, Posted, Src, WorkerOf, Channels
<1>5. TurnsOK'
  <2>1. \A i \in Posted' : log'[i].start # starts'
    <3>1. starts' \in Nat
      BY <1>1 DEF OInv, IInv, TypeOK
    <3> QED
      BY <1>1, <1>2, <3>1 DEF Posted
  <2> QED
    BY <1>1, <2>1 DEF TurnsOK, AnsweredBefore, InTurn, Idle
<1> QED
  BY <1>4, <1>5

\* A worker that takes its next message takes one it has not yet answered.
LEMMA TakeKeepsOrder ==
  ASSUME OInv, NEW w \in Worker, IgnoreHistorical(w) \/ HandleMessage(w)
  PROVE  LogOK' /\ TurnsOK'
<1>1. PICK i \in Nat :
        /\ i = Min(Pending(w)) /\ i \in DOMAIN log /\ pos[w] =< i
        /\ WorkerOf(log[i].msg.chat) = w /\ pos[w] \in Nat
  BY FirstPending DEF OInv, IInv, TypeOK, IgnoreHistorical, HandleMessage
<1>2. /\ UNCHANGED <<log, starts, started, now>> /\ pos' = [pos EXCEPT ![w] = i + 1]
      /\ \/ UNCHANGED job
         \/ /\ job' = [job EXCEPT ![w] = job'[w]] /\ job'[w].id = i
            /\ ~isHistoricalMessage(log[i].msg, started)
  <2>1. CASE IgnoreHistorical(w)
    BY <1>1, <2>1 DEF IgnoreHistorical, Advance, process
  <2>2. CASE HandleMessage(w)
    <3> DEFINE m == log[i].msg
               c == [Idle EXCEPT !.id = i, !.senderIsBot = KnownBot(m),
                                 !.pc = IF SenderUnknown(m) THEN "sender"
                                        ELSE AfterSender(m, KnownBot(m))]
    <3>1. /\ UNCHANGED <<log, starts, started, now>> /\ pos' = [pos EXCEPT ![w] = i + 1]
          /\ job' = [job EXCEPT ![w] = c] /\ ~isHistoricalMessage(m, started)
      BY <1>1, <2>2 DEF HandleMessage, Advance, process
    <3>2. c.id = i
      BY DEF Idle
    <3> HIDE DEF c
    <3>3. job'[w] = c
      BY <3>1 DEF OInv, IInv, TypeOK
    <3> QED
      BY <3>1, <3>2, <3>3
  <2> QED
    BY <2>1, <2>2
<1>3. LogOK' /\ LogGrows /\ Posted' = Posted
  <2>1. now \in Nat
    BY DEF OInv, IInv, TypeOK
  <2> QED
    BY <1>2, <2>1, LogStays DEF LogGrows, Posted
<1>4. \A v \in Worker : (AnsweredBefore(v, pos[v]) /\ InTurn(v))'
  <2> TAKE v \in Worker
  <2>1. pos[v] \in Nat /\ pos'[v] \in Nat /\ pos[v] =< pos'[v]
        /\ pos'[v] = IF v = w THEN i + 1 ELSE pos[v]
    BY <1>1, <1>2 DEF OInv, IInv, TypeOK
  <2>2. CASE job'[v] = job[v]
    BY <1>2, <1>3, <2>1, <2>2, Turn
  <2>3. CASE job'[v] # job[v]
    <3>1. v = w /\ job'[w].id = i /\ ~isHistoricalMessage(log[i].msg, started)
      BY <1>2, <2>3 DEF OInv, IInv, TypeOK
    <3>2. AnsweredBefore(w, pos[w]) /\ i + 1 \in Nat /\ pos[w] =< i + 1 /\ i < i + 1
      BY <1>1 DEF OInv, TurnsOK
    <3>3. AnsweredBefore(w, i)' /\ AnsweredBefore(w, i + 1)'
      BY <1>1, <1>2, <3>2, LaterBound DEF OInv
    <3>4. pos'[w] = i + 1 /\ Msg(w)' = log[i].msg
      BY <1>2, <2>1, <3>1 DEF Msg
    <3>5. AnsweredBefore(w, pos[w])' /\ AnsweredBefore(w, job[w].id)'
      BY <3>1, <3>3, <3>4 DEF AnsweredBefore
    <3> QED
      BY <1>1, <1>2, <3>1, <3>2, <3>4, <3>5
         DEF InTurn, WorkerOf, Channels, isHistoricalMessage
  <2> QED
    BY <2>2, <2>3
<1>5. TurnsOK'
  BY <1>4 DEF TurnsOK, Worker, Channels
<1> QED
  BY <1>3, <1>5

\* Look-ups and registrars neither answer nor take a message.
Waits(w) ==
  \/ ResolveMessageSenderBot(w) \/ ResolveReplyToUserbot(w)
  \/ EnsureUser(w) \/ EnsureGroup(w)

LEMMA WaitingMoves ==
  ASSUME TypeOK, NEW w \in Worker, Waits(w)
  PROVE  /\ UNCHANGED <<log, now, started, starts, pos>>
         /\ job[w].pc # "idle" /\ job'[w].id = job[w].id
         /\ \A v \in Worker \ {w} : job'[v] = job[v]
<1>1. CASE ResolveMessageSenderBot(w)
  BY <1>1 DEF ResolveMessageSenderBot, Goto, TypeOK, Job, process
<1>2. CASE ResolveReplyToUserbot(w)
  BY <1>2 DEF ResolveReplyToUserbot, TypeOK, Job, process
<1>3. CASE EnsureUser(w)
  BY <1>3 DEF EnsureUser, Goto, TypeOK, Job, process
<1>4. CASE EnsureGroup(w)
  BY <1>4 DEF EnsureGroup, Goto, TypeOK, Job, process
<1> QED
  BY <1>1, <1>2, <1>3, <1>4 DEF Waits

LEMMA WaitKeepsOrder ==
  ASSUME OInv, NEW w \in Worker, Waits(w)
  PROVE  LogOK' /\ TurnsOK'
<1>1. /\ UNCHANGED <<log, now, started, starts, pos>>
      /\ job[w].pc # "idle" /\ job'[w].id = job[w].id
      /\ \A v \in Worker \ {w} : job'[v] = job[v]
  BY WaitingMoves DEF OInv, IInv
<1>2. LogOK' /\ LogGrows /\ Posted' = Posted
  <2>1. now \in Nat
    BY DEF OInv, IInv, TypeOK
  <2> QED
    BY <1>1, <2>1, LogStays DEF LogGrows, Posted
<1>3. \A v \in Worker : (AnsweredBefore(v, pos[v]) /\ InTurn(v))'
  <2> TAKE v \in Worker
  <2>1. pos[v] \in Nat
    BY DEF OInv, IInv, TypeOK
  <2>2. job'[v].pc = "idle" \/ (job[v].pc # "idle" /\ job'[v].id = job[v].id)
    BY <1>1
  <2> QED
    BY <1>1, <1>2, <2>1, <2>2, Turn
<1> QED
  BY <1>2, <1>3 DEF TurnsOK, Worker, Channels

\* Ending a call without a post.
LEMMA SilentEnd ==
  ASSUME OInv, NEW w \in Worker, Done(w), UNCHANGED <<log, now, process, pos>>
  PROVE  LogOK' /\ TurnsOK'
<1>1. job'[w] = Idle /\ \A v \in Worker \ {w} : job'[v] = job[v]
  BY DoneFrees DEF OInv, IInv
<1>2. LogOK' /\ LogGrows /\ Posted' = Posted
  <2>1. now \in Nat
    BY DEF OInv, IInv, TypeOK
  <2> QED
    BY <2>1, LogStays DEF LogGrows, Posted, process
<1>3. \A v \in Worker : (AnsweredBefore(v, pos[v]) /\ InTurn(v))'
  <2> TAKE v \in Worker
  <2>1. pos[v] \in Nat
    BY DEF OInv, IInv, TypeOK
  <2>2. job'[v].pc = "idle" \/ (job[v].pc # "idle" /\ job'[v].id = job[v].id)
    BY <1>1 DEF Idle
  <2> QED
    BY <1>2, <2>1, <2>2, Turn DEF process
<1> QED
  BY <1>2, <1>3 DEF TurnsOK, Worker, Channels

\* What this process has posted for a worker is for messages before the one
\* the worker now answers, and the worker is past that.
LEMMA PostingEnd ==
  ASSUME OInv, NEW w \in Worker, job[w].pc # "idle", Done(w), UNCHANGED <<now, process, pos>>,
         NEW via \in {"mirror", "command"}, NEW text \in Text, NEW replyTo \in Nat,
         NEW e \in Entry, log' = Append(log, e), SentBy(w, e, via, text, replyTo),
         via = "command" => text = ResponseText,
         log[job[w].id].via # "command", via = "mirror" => log[job[w].id].via = "outside"
  PROVE  LogOK' /\ TurnsOK'
<1>1. /\ job[w].id \in DOMAIN log /\ job[w].id < pos[w] /\ WorkerOf(Msg(w).chat) = w
      /\ ~isHistoricalMessage(Msg(w), started) /\ AnsweredBefore(w, job[w].id)
      /\ Msg(w) = log[job[w].id].msg
  BY DEF OInv, IInv, CallOK, TurnsOK, InTurn, Msg
<1>2. /\ e.via = via /\ e.src = job[w].id /\ e.start = starts
      /\ e.msg.chat = Msg(w).chat /\ e.msg.text = text /\ e.msg.out /\ e.msg.date = now
  BY DEF SentBy
<1>3. Sound(e)
  BY <1>1, <1>2 DEF Sound
<1>4. LogOK' /\ LogGrows /\ Posted' \subseteq Posted \cup {Len(log) + 1} /\ log'[Len(log) + 1] = e
  BY <1>3, LogGrowsOK DEF process
<1>5. job'[w] = Idle /\ \A v \in Worker \ {w} : job'[v] = job[v]
  BY DoneFrees DEF OInv, IInv
<1>6. \A v \in Worker : (AnsweredBefore(v, pos[v]) /\ InTurn(v))'
  <2> TAKE v \in Worker
  <2>1. pos[v] \in Nat
    BY DEF OInv, IInv, TypeOK
  <2>2. job'[v].pc = "idle" \/ (job[v].pc # "idle" /\ job'[v].id = job[v].id)
    BY <1>5 DEF Idle
  <2>3. \A i \in Posted' : \/ i \in Posted
                           \/ WorkerOf(log'[i].msg.chat) # v
                           \/ job'[v].pc = "idle" /\ log'[i].src < pos'[v]
    <3> SUFFICES ASSUME NEW i \in Posted', i \notin Posted, v = w
                 PROVE  job'[v].pc = "idle" /\ log'[i].src < pos'[v]
      BY <1>1, <1>2, <1>4
    <3> QED
      BY <1>1, <1>2, <1>4, <1>5 DEF Idle
  <2> QED
    BY <1>4, <2>1, <2>2, <2>3, Turn DEF process
<1> QED
  BY <1>4, <1>6 DEF TurnsOK, Worker, Channels

\* A copy is not of a post: posts are outgoing, and no outgoing message is
\* mirrored.
LEMMA MirrorKeepsOrder ==
  ASSUME OInv, NEW w \in Worker, MirrorMessageToSamePeer(w)
  PROVE  LogOK' /\ TurnsOK'
<1> DEFINE m == Msg(w)
<1>1. /\ job[w].pc # "idle" /\ m \in Message /\ job[w].id \in DOMAIN log
      /\ m = log[job[w].id].msg
  BY InFlightIsMessage DEF OInv, IInv, MirrorMessageToSamePeer, Msg
<1>2. log[job[w].id].via = "outside"
  <2>1. ~m.out
    BY DEF MirrorMessageToSamePeer, Mirrors, shouldMirrorBotMessage, MirrorCandidate
  <2> QED
    BY <1>1, <2>1 DEF OInv, LogOK, PostsAreOwn, Posted
<1>3. Done(w) /\ UNCHANGED <<now, process, pos>>
  BY DEF MirrorMessageToSamePeer
<1>4. CASE UNCHANGED log
  BY <1>3, <1>4, SilentEnd
<1>5. CASE Send(w, "mirror", m.text, m.media, m.replyTo)
  <2>1. m.text \in Text /\ m.media \in BOOLEAN /\ m.replyTo \in Nat
    BY <1>1 DEF Message
  <2>2. IInv
    BY DEF OInv
  <2>3. PICK e \in Entry : log' = Append(log, e) /\ SentBy(w, e, "mirror", m.text, m.replyTo)
    BY <1>1, <1>5, <2>1, <2>2, SendAppends
  <2> HIDE DEF m
  <2> QED
    BY <1>1, <1>2, <1>3, <2>1, <2>3, PostingEnd
<1> QED
  BY <1>4, <1>5 DEF MirrorMessageToSamePeer, SendFails

\* An answer to a command is not answered: it says what no command says.
LEMMA ReplyKeepsOrder ==
  ASSUME OInv, NEW w \in Worker, ReplyToCommand(w)
  PROVE  LogOK' /\ TurnsOK'
<1>1. /\ job[w].pc # "idle" /\ job[w].id \in DOMAIN log /\ Msg(w) = log[job[w].id].msg
      /\ Done(w) /\ UNCHANGED <<now, process, pos>>
  BY InFlightIsMessage DEF OInv, IInv, ReplyToCommand, Msg
<1>2. log[job[w].id].via # "command"
  <2>1. Msg(w).text.lead # "plain"
    BY DEF ReplyToCommand, Answers, isOwnerCommand
  <2>2. Msg(w).text # ResponseText
    BY <2>1 DEF ResponseText
  <2> QED
    BY <1>1, <2>2 DEF OInv, LogOK, PostsAreOwn, Posted
<1>3. CASE UNCHANGED log
  BY <1>1, <1>3, SilentEnd
<1>4. CASE Send(w, "command", ResponseText, FALSE, 0)
  <2>1. ResponseText \in Text
    BY DEF ResponseText, Text, Lead, Candidate
  <2>2. PICK media \in BOOLEAN : Send(w, "command", ResponseText, media, 0)
    <3> WITNESS FALSE \in BOOLEAN
    <3> QED BY <1>4
  <2>3. IInv
    BY DEF OInv
  <2>4. PICK e \in Entry : log' = Append(log, e) /\ SentBy(w, e, "command", ResponseText, 0)
    BY <1>1, <2>1, <2>2, <2>3, SendAppends
  <2> QED
    BY <1>1, <1>2, <2>1, <2>4, PostingEnd
<1> QED
  BY <1>3, <1>4 DEF ReplyToCommand, SendFails

-----------------------------------------------------------------------------
(* The theorems about the order of answers.                                *)

LEMMA StepOInv == OInv /\ [Next]_vars => OInv'
<1> SUFFICES ASSUME OInv, [Next]_vars PROVE LogOK' /\ TurnsOK'
  BY StepIInv DEF OInv
<1>1. CASE Post
  BY <1>1, PostKeepsOrder
<1>2. CASE Tick
  BY <1>2, TickKeepsOrder
<1>3. CASE Restart
  BY <1>3, RestartKeepsOrder
<1>4. CASE \E w \in Worker : Handle(w)
  <2>1. PICK w \in Worker : Handle(w)
    BY <1>4
  <2>2. CASE IgnoreMessage(w)
    BY <2>2, SilentEnd DEF IgnoreMessage
  <2> QED
    BY <2>1, <2>2, TakeKeepsOrder, WaitKeepsOrder, MirrorKeepsOrder, ReplyKeepsOrder
       DEF Handle, Waits
<1>5. CASE UNCHANGED vars
  BY <1>5 DEF vars, process, OInv, LogOK, TurnsOK, Dated, PostsAreOwn, StartsInOrder,
     AnswersInOrder, SelfTrafficSettles, RepeatsOnlyWithinGrace, AnsweredBefore, InTurn,
     Posted, Src, Msg, Worker, WorkerOf, Channels, isHistoricalMessage
<1> QED
  BY <1>1, <1>2, <1>3, <1>4, <1>5 DEF Next

\* The inductive invariant holds in every reachable state.
THEOREM OrderInvariant == Spec => []OInv
BY InitOInv, InitIInv, StepOInv, PTL DEF Spec

\* No copy is copied and no answer answered, for any texts the chats hold: the
\* userbot's own messages coming back cannot keep it posting.
THEOREM SelfTalkEnds == Spec => []SelfTrafficSettles
<1>1. OInv => SelfTrafficSettles
  BY DEF OInv, LogOK
<1> QED
  BY <1>1, OrderInvariant, PTL

\* Whatever backlog a restart delivers again, a message is answered twice only
\* by two processes, and only if the first answer came within its grace.
THEOREM RepeatsAreRecent == Spec => []RepeatsOnlyWithinGrace
<1>1. OInv => RepeatsOnlyWithinGrace
  BY DEF OInv, LogOK
<1> QED
  BY <1>1, OrderInvariant, PTL

-----------------------------------------------------------------------------
(* How much the userbot says.  A post is known by the message it is for and *)
(* the process that made it, and a copy is for a message of somebody else: *)
(* there are only so many pairs.                                           *)

OthersPosts == {i \in DOMAIN log : log[i].via = "outside"}

\* Which message a post is for, and by which process.
Cause(i) == <<log[i].src, log[i].start>>

LEMMA CausesDiffer ==
  ASSUME OInv, NEW i \in Posted, NEW j \in Posted, Cause(i) = Cause(j)
  PROVE  i = j
<1>1. /\ i \in DOMAIN log /\ j \in DOMAIN log
      /\ i \in Nat /\ j \in Nat /\ log[i].src \in Nat /\ log[j].src \in Nat
  BY EntryNumbers DEF OInv, IInv, Posted
<1>2. log[i].src = log[j].src /\ log[i].start = log[j].start
  BY DEF Cause
<1>3. log[i].msg.chat = log[j].msg.chat
  BY <1>2 DEF OInv, LogOK, PostsAreOwn, Src
<1>4. ~(i < j) /\ ~(j < i)
  <2>1. AnswersInOrder /\ ~(log[i].src < log[j].src) /\ ~(log[j].src < log[i].src)
    BY <1>1, <1>2 DEF OInv, LogOK
  <2> QED
    BY <1>2, <1>3, <2>1 DEF AnswersInOrder
<1> QED
  BY <1>1, <1>4

\* Posts that are all for messages of a finite set S are at most one per
\* message and process.
LEMMA AtMostOnePerCause ==
  ASSUME OInv, NEW P \in SUBSET Posted, NEW S, IsFiniteSet(S), \A i \in P : log[i].src \in S
  PROVE  Cardinality(P) =< Cardinality(S) * starts
<1> DEFINE f == [i \in P |-> Cause(i)]
           T == S \X (1..starts)
<1>1. starts \in Nat
  BY DEF OInv, IInv, TypeOK
<1>2. IsFiniteSet(1..starts) /\ Cardinality(1..starts) = starts
  <2>1. starts # 0
    BY DEF OInv, LogOK, Dated
  <2> QED
    BY <1>1, <2>1, FS_Interval
<1>3. IsFiniteSet(T) /\ Cardinality(T) = Cardinality(S) * starts
  BY <1>2, FS_Product
<1>4. \A i \in P : Cause(i) \in T
  <2>1. \A i \in P : log[i].start \in 1..starts
    BY <1>1, EntryNumbers DEF OInv, IInv, LogOK, Dated, Posted
  <2> QED
    BY <2>1 DEF Cause
<1>5. f \in Injection(P, T)
  <2>1. \A i, j \in P : Cause(i) = Cause(j) => i = j
    BY CausesDiffer
  <2> HIDE DEF T
  <2>2. f \in [P -> T]
    BY <1>4
  <2>3. \A i, j \in P : f[i] = f[j] => i = j
    BY <2>1
  <2> QED
    BY <2>2, <2>3 DEF Injection, IsInjective
<1> HIDE DEF f, T
<1>6. Cardinality(P) =< Cardinality(T)
  BY <1>3, <1>5, FS_Injection
<1> QED
  BY <1>3, <1>6

\* Restarts and the account's own messages coming back multiply what it posts
\* by no more than the number of processes, once for copies and once for
\* answers, whatever the texts, the chats and the backlogs.
THEOREM TalkBound == Spec => []TalkIsBounded
<1>1. ASSUME OInv PROVE TalkIsBounded
  <2>1. IsFiniteSet(DOMAIN log)
    <3>1. DOMAIN log = 1..Len(log) /\ Len(log) \in Nat
      BY <1>1, LenProperties DEF OInv, IInv, TypeOK
    <3> QED
      BY <3>1, FS_Interval
  <2>2. /\ IsFiniteSet(OthersPosts) /\ IsFiniteSet(Mirror)
        /\ PostedByHand = Cardinality(OthersPosts)
    BY <2>1, FS_Subset DEF OthersPosts, Mirror, PostedByHand
  <2>3. Mirror \subseteq Posted /\ OthersPosts \cap Mirror = {}
    BY DEF Mirror, Posted, OthersPosts
  <2>4. \A i \in Posted : log[i].src \in DOMAIN log
    BY <1>1 DEF OInv, IInv, SourcesAreLogged, Posted
  <2>5. \A i \in Mirror : log[i].src \in OthersPosts
    BY <1>1, <2>3, <2>4 DEF OInv, LogOK, SelfTrafficSettles, OthersPosts, Mirror
  <2>6. \A i \in Posted : log[i].src \in OthersPosts \cup Mirror
    <3>1. \A i \in DOMAIN log : log[i].via \in {"outside", "mirror", "command"}
      BY <1>1, LoggedIsMessage DEF OInv, IInv, TypeOK, Entry
    <3> QED
      BY <1>1, <2>4, <3>1 DEF OInv, LogOK, SelfTrafficSettles, OthersPosts, Mirror
  <2>7. /\ IsFiniteSet(OthersPosts \cup Mirror)
        /\ Cardinality(OthersPosts \cup Mirror) = PostedByHand + Cardinality(Mirror)
    <3>1. Cardinality(OthersPosts \cap Mirror) = 0
      BY <2>3, FS_EmptySet
    <3>2. Cardinality(OthersPosts) \in Nat /\ Cardinality(Mirror) \in Nat
      BY <2>2, FS_CardinalityType
    <3>3. /\ IsFiniteSet(OthersPosts \cup Mirror)
          /\ Cardinality(OthersPosts \cup Mirror) =
               Cardinality(OthersPosts) + Cardinality(Mirror) - Cardinality(OthersPosts \cap Mirror)
      BY <2>2, FS_Union
    <3> QED
      BY <2>2, <3>1, <3>2, <3>3
  <2>8. Cardinality(Mirror) =< PostedByHand * starts
    BY <1>1, <2>2, <2>3, <2>5, AtMostOnePerCause
  <2>9. Cardinality(Posted) =< (PostedByHand + Cardinality(Mirror)) * starts
    BY <1>1, <2>6, <2>7, AtMostOnePerCause
  <2> QED
    BY <2>8, <2>9 DEF TalkIsBounded
<1> QED
  BY <1>1, OrderInvariant, PTL

-----------------------------------------------------------------------------
(* The refinement.  Every step of the handlers is a stutter of the service *)
(* but the one that sends, and at that one the service's guards hold: it   *)
(* is a bot's order or a command, recent, and not passed.                  *)

\* What the service sees of an entry, and of the log.
Seen(e) == [msg |-> e.msg, via |-> e.via, src |-> e.src, start |-> e.start]
View    == [i \in DOMAIN log |-> Seen(log[i])]

LEMMA ViewIs ==
  ASSUME TypeOK
  PROVE  /\ View \in Seq({Seen(e) : e \in Entry}) /\ Len(View) = Len(log)
         /\ DOMAIN View = DOMAIN log /\ \A i \in DOMAIN log : View[i] = Seen(log[i])
<1>1. DOMAIN log = 1..Len(log) /\ Len(log) \in Nat /\ \A i \in DOMAIN log : log[i] \in Entry
  BY LenProperties, LoggedIsMessage DEF TypeOK
<1>2. View \in [1..Len(log) -> {Seen(e) : e \in Entry}]
  BY <1>1 DEF View
<1>3. View \in Seq({Seen(e) : e \in Entry})
  BY <1>1, <1>2
<1> QED
  BY <1>1, <1>3, LenProperties DEF View

\* Appending to the log appends to the view.
LEMMA ViewAppends ==
  ASSUME TypeOK, NEW e \in Entry, log' = Append(log, e)
  PROVE  View' = Append(View, Seen(e))
<1> DEFINE S == {Seen(d) : d \in Entry}
           n == Len(log)
<1>1. /\ View \in Seq(S) /\ Len(View) = n /\ n \in Nat /\ DOMAIN log = 1..n
      /\ \A i \in DOMAIN log : View[i] = Seen(log[i])
  BY ViewIs, AppendToLog
<1>2. /\ DOMAIN log' = 1..(n + 1) /\ log' \in Seq(Entry)
      /\ \A i \in DOMAIN log : log'[i] = log[i]
      /\ log'[n + 1] = e
  BY AppendToLog
<1>3. Seen(e) \in S
  OBVIOUS
<1>4. /\ Append(View, Seen(e)) \in Seq(S) /\ Len(Append(View, Seen(e))) = n + 1
      /\ \A i \in 1..n : Append(View, Seen(e))[i] = View[i]
      /\ Append(View, Seen(e))[n + 1] = Seen(e)
  BY <1>1, <1>3, AppendProperties
<1>5. /\ View' = [i \in 1..(n + 1) |-> Seen(log'[i])]
  BY <1>2 DEF View
<1>6. \A i \in 1..(n + 1) : View'[i] = Append(View, Seen(e))[i]
  <2> SUFFICES ASSUME NEW i \in 1..(n + 1)
               PROVE  Seen(log'[i]) = Append(View, Seen(e))[i]
    BY <1>5
  <2>1. CASE i = n + 1
    BY <1>2, <1>4, <2>1
  <2>2. CASE i # n + 1
    <3>1. i \in 1..n
      BY <1>1, <2>2
    <3> QED
      BY <1>1, <1>2, <1>4, <3>1
  <2> QED
    BY <2>1, <2>2
<1>7. View' \in Seq(S) /\ Len(View') = n + 1
  <2>1. \A i \in 1..(n + 1) : log'[i] \in Entry
    BY <1>2, ElementOfSeq, LenProperties
  <2>2. View' \in [1..(n + 1) -> S] /\ n + 1 \in Nat
    BY <1>1, <1>5, <2>1
  <2>3. View' \in Seq(S)
    BY <2>2
  <2> QED
    BY <2>2, <2>3, LenProperties
<1> HIDE DEF S, n
<1> QED
  BY <1>4, <1>6, <1>7, SeqEqual

LEMMA InitRefines == Init => Service!Init
<1> SUFFICES ASSUME Init PROVE Service!Init
  OBVIOUS
<1>1. DOMAIN log = {} /\ now = 1 /\ started = 1 /\ starts = 1
  BY DEF Init
<1>2. [i \in DOMAIN log |-> [msg |-> log[i].msg, via |-> log[i].via,
                             src |-> log[i].src, start |-> log[i].start]] = <<>>
  BY <1>1
<1> QED
  BY <1>1, <1>2 DEF Service!Init

LEMMA ViewIsChats ==
  View = [i \in DOMAIN log |-> [msg |-> log[i].msg, via |-> log[i].via,
                                src |-> log[i].src, start |-> log[i].start]]
BY DEF View, Seen

\* A step that leaves the log and the process alone does nothing to see.
LEMMA Stutters ==
  ASSUME UNCHANGED <<log, now, started, starts>>
  PROVE  UNCHANGED Service!promise
BY DEF Service!promise

LEMMA PostRefines ==
  ASSUME IInv, Post
  PROVE  Service!Post
<1>1. PICK m \in Samples, r \in {0} \cup DOMAIN log, o \in {0} \cup DOMAIN log :
        log' = Append(log, Outside([m EXCEPT !.date = now, !.replyTo = r], o))
  BY DEF Post, Originals
<1> DEFINE msg == [m EXCEPT !.date = now, !.replyTo = r]
           e == Outside(msg, o)
<1>2. e \in Entry
  <2>1. m \in Message /\ now \in Nat /\ starts \in Nat /\ r \in Nat /\ o \in Nat
    BY HandlerAssumption, EntryNumbers DEF IInv, TypeOK
  <2>2. msg \in Message
    BY <2>1 DEF Message
  <2> QED
    BY <2>1, <2>2 DEF Outside, Entry, Target
<1>3. Seen(e) = [msg |-> msg, via |-> "outside", src |-> 0, start |-> starts]
  BY DEF Seen, Outside
<1>4. View' = Append(View, [msg |-> msg, via |-> "outside", src |-> 0, start |-> starts])
  BY <1>1, <1>2, <1>3, ViewAppends DEF IInv
<1>5. r \in 0..Len(View)
  <2>1. DOMAIN log = 1..Len(log) /\ Len(log) \in Nat
    BY LenProperties DEF IInv, TypeOK
  <2> QED
    BY <2>1, ViewIs DEF IInv
<1>6. UNCHANGED <<now, started, starts>>
  BY DEF Post, process
<1> QED
  BY <1>4, <1>5, <1>6, ViewIsChats DEF Service!Post, View, Seen

LEMMA RestartRefines ==
  ASSUME Restart
  PROVE  Service!Restart
BY DEF Restart, Service!Restart

LEMMA TickRefines ==
  ASSUME Tick
  PROVE  Service!Tick
BY DEF Tick, Service!Tick, process

\* A call in its turn is about a message the service has not passed, and that
\* is recent for it.
LEMMA InTurnRefines ==
  ASSUME OInv, NEW w \in Worker, job[w].pc # "idle"
  PROVE  /\ job[w].id \in DOMAIN View /\ View[job[w].id].msg = Msg(w)
         /\ Service!Recent(Msg(w)) /\ Service!NotPassed(job[w].id)
<1>1. /\ job[w].id \in DOMAIN log /\ WorkerOf(Msg(w).chat) = w
      /\ ~isHistoricalMessage(Msg(w), started) /\ AnsweredBefore(w, job[w].id)
      /\ Msg(w) = log[job[w].id].msg
  BY DEF OInv, IInv, CallOK, TurnsOK, InTurn, Msg
<1>2. job[w].id \in DOMAIN View /\ View[job[w].id].msg = Msg(w)
  BY <1>1 DEF View, Seen
<1>3. Service!Recent(Msg(w))
  <2>1. Msg(w).date \in Nat /\ Msg(w).date # 0 /\ Grace \in Nat /\ started \in Nat
    BY <1>1, EntryNumbers, PolicyAssumption DEF OInv, IInv, TypeOK, LogOK, Dated
  <2> QED
    BY <1>1, <2>1 DEF Service!Recent, isHistoricalMessage
<1>4. Service!NotPassed(job[w].id)
  <2>1. \A j \in DOMAIN log :
          log[j].via # "outside" /\ log[j].start = starts /\ WorkerOf(log[j].msg.chat) = w
          => log[j].src < job[w].id
    BY <1>1 DEF AnsweredBefore, Posted
  <2>2. \A c : c \in Chat => Service!Thread(c) = WorkerOf(c)
    BY DEF Service!Thread, WorkerOf, Channels
  <2>3. \A j \in DOMAIN log : log[j].msg.chat \in Chat
    <3>1. \A j \in DOMAIN log : log[j].msg \in Message
      BY LoggedIsMessage DEF OInv, IInv
    <3> QED
      BY <3>1 DEF Message
  <2> QED
    BY <1>1, <2>1, <2>2, <2>3 DEF Service!NotPassed
<1> QED
  BY <1>2, <1>3, <1>4

\* What the service sees of a post for m, the message numbered src.
Made(src, m, f, via, text, media, replyTo) ==
  [msg |-> [chat |-> m.chat, from |-> f, out |-> TRUE, text |-> text,
            media |-> media, replyTo |-> replyTo, date |-> now,
            userEntity |-> TRUE, chatEntity |-> m.chatEntity],
   via |-> via, src |-> src, start |-> starts]

\* What a call sends is what the service publishes.
LEMMA SendRefines ==
  ASSUME OInv, NEW w \in Worker, job[w].pc # "idle",
         NEW via \in {"mirror", "command"}, NEW text \in Text, NEW media \in BOOLEAN,
         NEW replyTo \in Nat, Send(w, via, text, media, replyTo)
  PROVE  \E f \in {Owner, NoUser, AsChannel} :
           View' = Append(View, Made(job[w].id, Msg(w), f, via, text, media, replyTo))
<1> DEFINE m == Msg(w)
<1>1. PICK f \in PostedAs(m.chat) :
        log' = Append(log,
          [msg |-> [chat |-> m.chat, from |-> f, out |-> TRUE, text |-> text,
                    media |-> media, replyTo |-> replyTo, date |-> now,
                    userEntity |-> TRUE, chatEntity |-> m.chatEntity],
           via |-> via, src |-> job[w].id, target |-> job[w].target,
           registered |-> job[w].registered, start |-> starts, original |-> replyTo])
  BY DEF Send
<1>2. f \in {Owner, NoUser, AsChannel} /\ f \in User \cup {NoUser, AsChannel}
  BY PolicyAssumption DEF PostedAs
<1>3. /\ job[w] \in Job /\ m \in Message /\ job[w].id \in DOMAIN log
      /\ m = log[job[w].id].msg /\ now \in Nat /\ starts \in Nat
  BY InFlightIsMessage DEF OInv, IInv, TypeOK, Msg
<1> DEFINE sent == [chat |-> m.chat, from |-> f, out |-> TRUE, text |-> text,
                    media |-> media, replyTo |-> replyTo, date |-> now,
                    userEntity |-> TRUE, chatEntity |-> m.chatEntity]
           e == [msg |-> sent, via |-> via, src |-> job[w].id, target |-> job[w].target,
                 registered |-> job[w].registered, start |-> starts, original |-> replyTo]
           seen == [msg |-> sent, via |-> via, src |-> job[w].id, start |-> starts]
<1>4. sent \in Message
  <2>1. m.chat \in Chat /\ m.chatEntity \in BOOLEAN
    BY <1>3 DEF Message
  <2> QED
    BY <1>2, <1>3, <2>1 DEF Message
<1>5. log' = Append(log, e)
  BY <1>1
<1> HIDE DEF sent
<1>6. e \in Entry /\ Seen(e) = seen
  BY <1>3, <1>4 DEF Entry, Job, Seen
<1> HIDE DEF e
<1>7. View' = Append(View, seen)
  BY <1>5, <1>6, ViewAppends DEF OInv, IInv
<1>8. seen = Made(job[w].id, m, f, via, text, media, replyTo)
  BY DEF Made, sent
<1> QED
  BY <1>2, <1>7, <1>8

\* The two actions of the service, and its next-state relation, over the view.
LEMMA ServiceActs ==
  ASSUME NEW i \in DOMAIN View, NEW m, View[i].msg = m, UNCHANGED <<now, started, starts>>,
         Service!Recent(m), Service!NotPassed(i), NEW f \in {Owner, NoUser, AsChannel},
         \/ /\ Service!IsBotOrder(m)
            /\ View' = Append(View, Made(i, m, f, "mirror", m.text, m.media, m.replyTo))
         \/ /\ Service!IsCommand(m)
            /\ View' = Append(View, Made(i, m, f, "command", ResponseText, FALSE, 0))
  PROVE  Service!Next
<1>1. i \in DOMAIN log /\ log[i].msg = m
  BY DEF View, Seen
<1>2. CASE /\ Service!IsBotOrder(m)
           /\ View' = Append(View, Made(i, m, f, "mirror", m.text, m.media, m.replyTo))
  <2>1. Service!CopyOrder(i)
    BY <1>1, <1>2 DEF Service!CopyOrder, Service!Publish, View, Seen, Made
  <2> QED
    BY <2>1, ViewIsChats DEF Service!Next
<1>3. CASE /\ Service!IsCommand(m)
           /\ View' = Append(View, Made(i, m, f, "command", ResponseText, FALSE, 0))
  <2>1. Service!AnswerCommand(i)
    BY <1>1, <1>3 DEF Service!AnswerCommand, Service!Publish, View, Seen, Made,
       ResponseText, Service!ResponseText
  <2> QED
    BY <2>1, ViewIsChats DEF Service!Next
<1> QED
  BY <1>2, <1>3

LEMMA MirrorRefines ==
  ASSUME OInv, NEW w \in Worker, MirrorMessageToSamePeer(w)
  PROVE  Service!Next \/ UNCHANGED Service!promise
<1>1. PICK i, m : i = job[w].id /\ m = Msg(w)
  OBVIOUS
<1>2. /\ job[w] \in Job /\ job[w].pc # "idle" /\ m \in Message
      /\ UNCHANGED <<now, started, starts>>
  BY <1>1, InFlightIsMessage DEF OInv, IInv, TypeOK, MirrorMessageToSamePeer, process
<1>3. CASE UNCHANGED log
  BY <1>2, <1>3, Stutters
<1>4. CASE Send(w, "mirror", m.text, m.media, m.replyTo)
  <2>1. m.text \in Text /\ m.media \in BOOLEAN /\ m.replyTo \in Nat
    BY <1>2 DEF Message
  <2>2. PICK f \in {Owner, NoUser, AsChannel} :
          View' = Append(View, Made(i, m, f, "mirror", m.text, m.media, m.replyTo))
    <3>1. \E f \in {Owner, NoUser, AsChannel} :
            View' = Append(View, Made(job[w].id, Msg(w), f, "mirror", m.text, m.media, m.replyTo))
      BY <1>2, <1>4, <2>1, SendRefines
    <3> QED
      BY <1>1, <3>1
  <2>3. Service!IsBotOrder(m)
    <3>1. shouldMirrorBotMessage(m, job[w].senderIsBot, replyToUserbot(w))
      BY <1>1 DEF MirrorMessageToSamePeer, Mirrors
    <3>2. job[w].senderIsBot \in BOOLEAN /\ replyToUserbot(w) \in BOOLEAN
      BY <1>2 DEF Job, replyToUserbot
    <3>3. job[w].senderIsBot => SenderID(m) \in Bot
      BY <1>1, <1>2 DEF OInv, IInv, CallOK
    <3>4. /\ m.from \in Bot /\ ~m.out /\ "order" \in m.text.cands
          /\ ChatKind[m.chat] \in {"basic", "megagroup"}
      BY <1>2, <3>1, <3>2, <3>3, MirroredIsBotOrder
    <3> QED
      BY <3>4 DEF Service!IsBotOrder
  <2>4. i \in DOMAIN View /\ View[i].msg = m /\ Service!Recent(m) /\ Service!NotPassed(i)
    BY <1>1, <1>2, InTurnRefines
  <2> QED
    BY <1>2, <2>2, <2>3, <2>4, ServiceActs
<1> QED
  BY <1>1, <1>3, <1>4 DEF MirrorMessageToSamePeer, SendFails

LEMMA ReplyRefines ==
  ASSUME OInv, NEW w \in Worker, ReplyToCommand(w)
  PROVE  Service!Next \/ UNCHANGED Service!promise
<1>1. PICK i, m : i = job[w].id /\ m = Msg(w)
  OBVIOUS
<1>2. job[w].pc # "idle" /\ UNCHANGED <<now, started, starts>>
  BY DEF ReplyToCommand, process
<1>3. CASE UNCHANGED log
  BY <1>2, <1>3, Stutters
<1>4. CASE Send(w, "command", ResponseText, FALSE, 0)
  <2>1. ResponseText \in Text
    BY DEF ResponseText, Text, Lead, Candidate
  <2>2. PICK f \in {Owner, NoUser, AsChannel} :
          View' = Append(View, Made(i, m, f, "command", ResponseText, FALSE, 0))
    <3>1. \A media \in BOOLEAN : Send(w, "command", ResponseText, media, 0) =>
            \E f \in {Owner, NoUser, AsChannel} :
              View' = Append(View, Made(job[w].id, Msg(w), f, "command", ResponseText, media, 0))
      BY <1>2, <2>1, SendRefines
    <3>2. FALSE \in BOOLEAN
      OBVIOUS
    <3>3. \E f \in {Owner, NoUser, AsChannel} :
            View' = Append(View, Made(job[w].id, Msg(w), f, "command", ResponseText, FALSE, 0))
      BY <1>4, <3>1, <3>2, Zenon
    <3> QED
      BY <1>1, <3>3
  <2>3. Service!IsCommand(m)
    BY <1>1 DEF ReplyToCommand, Answers, isOwnerCommand, CommandHandled, Service!IsCommand
  <2>4. i \in DOMAIN View /\ View[i].msg = m /\ Service!Recent(m) /\ Service!NotPassed(i)
    BY <1>1, <1>2, InTurnRefines
  <2> QED
    BY <1>2, <2>2, <2>3, <2>4, ServiceActs
<1> QED
  BY <1>3, <1>4 DEF ReplyToCommand, SendFails

LEMMA StepRefines == OInv /\ [Next]_vars => [Service!Next]_(Service!promise)
<1> SUFFICES ASSUME OInv, [Next]_vars
             PROVE  Service!Next \/ UNCHANGED Service!promise
  OBVIOUS
<1>1. CASE Post
  BY <1>1, PostRefines DEF OInv, Service!Next
<1>2. CASE Tick
  BY <1>2, TickRefines DEF Service!Next
<1>3. CASE Restart
  BY <1>3, RestartRefines DEF Service!Next
<1>4. CASE \E w \in Worker : Handle(w)
  <2>1. PICK w \in Worker : Handle(w)
    BY <1>4
  <2>2. CASE IgnoreHistorical(w) \/ HandleMessage(w) \/ IgnoreMessage(w)
    BY <2>2, Stutters DEF IgnoreHistorical, HandleMessage, IgnoreMessage, process
  <2>3. CASE Waits(w)
    BY <2>3, WaitingMoves, Stutters DEF OInv, IInv
  <2> QED
    BY <2>1, <2>2, <2>3, MirrorRefines, ReplyRefines DEF Handle, Waits
<1>5. CASE UNCHANGED vars
  BY <1>5, Stutters DEF vars, process
<1> QED
  BY <1>1, <1>2, <1>3, <1>4, <1>5 DEF Next

\* The handlers, with their look-ups, cache, registry, workers, restarts and
\* failures, implement the service: each post is one atomic copy of a bot's
\* order or answer to a command, recent, in order and at most once.
THEOREM ServiceIsKept == Spec => KeepsService
<1>1. Init => Service!Init
  BY InitRefines
<1>2. OInv /\ [Next]_vars => [Service!Next]_(Service!promise)
  BY StepRefines
<1> QED
  BY <1>1, <1>2, OrderInvariant, PTL DEF Spec, KeepsService, Service!Spec

=============================================================================
