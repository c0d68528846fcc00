------------------------ MODULE StatusCommandProofs ------------------------
(***************************************************************************)
(* Proofs about StatusCommand, for any chats, users and timeouts: its      *)
(* state keeps its type, chats keep ids of their own, the counts answered  *)
(* are true, and a command waits no longer than its timeouts.              *)
(***************************************************************************)
EXTENDS StatusCommand, FiniteSetTheorems, TLAPS

-----------------------------------------------------------------------------
(* What the stored ids of chats guarantee, for any prefix.                 *)

\* Two chats never share an id: basic groups have those above -Prefix, channels
\* those below (canonicalBasicGroupID, canonicalChannelID).
THEOREM IdsAreDistinct ==
  ASSUME NEW p \in Peer, NEW q \in Peer, ChatID(p) = ChatID(q)
  PROVE  p = q
<1>1. /\ p.kind \in {"chat", "channel"} /\ p.id \in Int /\ 0 < p.id /\ p.id < Prefix
      /\ q.kind \in {"chat", "channel"} /\ q.id \in Int /\ 0 < q.id /\ q.id < Prefix
  BY PrefixAssumption DEF Peer, RawID
<1>2. p.kind = q.kind /\ p.id = q.id
  BY <1>1, PrefixAssumption
  DEF ChatID, canonicalBasicGroupID, canonicalChannelID
<1> QED
  BY <1>2 DEF Peer

\* An id that has been converted is negative, so never a user's, and converting
\* it again, by the function for its kind, leaves it as it is.
THEOREM IdsAreCanonical ==
  ASSUME NEW p \in Peer
  PROVE  /\ ChatID(p) \in Int /\ ChatID(p) < 0
         /\ p.kind = "chat" => canonicalBasicGroupID(ChatID(p)) = ChatID(p)
         /\ p.kind = "channel" => canonicalChannelID(ChatID(p)) = ChatID(p)
<1>1. p.kind \in {"chat", "channel"} /\ p.id \in Int /\ 0 < p.id /\ Prefix \in Int /\ 0 < Prefix
  BY PrefixAssumption DEF Peer, RawID
<1>2. CASE p.kind = "chat"
  BY <1>1, <1>2 DEF ChatID, canonicalBasicGroupID
<1>3. CASE p.kind = "channel"
  <2>1. ChatID(p) = -(Prefix + p.id)
    BY <1>1, <1>3 DEF ChatID, canonicalChannelID
  <2>2. ChatID(p) \in Int /\ ChatID(p) <= -Prefix /\ ChatID(p) < 0
    BY <1>1, <2>1
  <2>3. ASSUME NEW x \in Int, x <= -Prefix PROVE canonicalChannelID(x) = x
    BY <1>1, <2>3 DEF canonicalChannelID
  <2>4. canonicalChannelID(ChatID(p)) = ChatID(p)
    BY <2>2, <2>3
  <2> QED
    BY <1>3, <2>2, <2>4
<1> QED
  BY <1>1, <1>2, <1>3

-----------------------------------------------------------------------------
(* The inductive invariant.  Counts are true because the collections only  *)
(* grow and a reply is one the server gave while the call was pending; the *)
(* time is bounded because what a timer has left and what has been spent   *)
(* add up.                                                                 *)

Stored == groups = {ChatID(p) : p \in met}

Typed(j) ==
  /\ j \in Job
  /\ j.pc \in Timed \cup {"send"} => j.cmd # "none"
  /\ j.cmd # "none" => j.from = Owner
  /\ j.pc = "group" => j.peer \in Peers

\* The counts j has, or has been sent, in terms of how many u users and g chats
\* there are.
True(j, u, g) ==
  /\ j.pc \in {"idle", "user", "group", "ping"} => j.userCount = None
  /\ j.pc # "send" => j.groupCount = None
  /\ j.pc \in Timed \cup {"send"} => j.baseUsers <= u /\ j.baseGroups <= g
  /\ j.pc = "users" /\ j.reply # None => j.baseUsers <= j.reply /\ j.reply <= u
  /\ j.pc = "groups" /\ j.reply # None => j.baseGroups <= j.reply /\ j.reply <= g
  /\ j.userCount \in Nat => j.baseUsers <= j.userCount /\ j.userCount <= u
  /\ j.groupCount \in Nat => j.baseGroups <= j.groupCount /\ j.groupCount <= g

Prompt(j) ==
  /\ j.pc = "ping" /\ j.cmd = "ping" => j.spent + j.left <= pingMongoTimeout
  /\ j.pc = "ping" /\ j.cmd = "status" => j.spent + j.left <= statusLookupTimeout
  /\ j.pc \in {"users", "groups"} =>
       j.cmd = "status" /\ j.spent + j.left <= statusLookupTimeout + statusCountTimeout
  /\ j.pc = "send" => j.spent <= Allowed(j.cmd)

Good(j) == Typed(j) /\ True(j, Cardinality(users), Cardinality(met)) /\ Prompt(j)

IInv ==
  /\ users \subseteq User /\ met \subseteq Peers
  /\ Stored /\ ChatsKeptApart
  /\ job \in [Worker -> Job]
  /\ \A w \in Worker : Good(job[w])

-----------------------------------------------------------------------------
(* The collections.                                                        *)

LEMMA Finite ==
  ASSUME users \subseteq User, met \subseteq Peers, Stored, ChatsKeptApart
  PROVE  /\ IsFiniteSet(users) /\ Cardinality(users) \in Nat
         /\ IsFiniteSet(met) /\ Cardinality(met) \in Nat
         /\ Cardinality(groups) = Cardinality(met)
BY StatusAssumption, FS_Subset, FS_CardinalityType DEF ChatsKeptApart

LEMMA GroupsFinite ==
  ASSUME met \subseteq Peers, Stored
  PROVE  IsFiniteSet(groups) /\ groups \subseteq Int
<1>1. IsFiniteSet(met)
  BY StatusAssumption, FS_Subset
<1> DEFINE f == [p \in met |-> ChatID(p)]
<1>2. f \in Surjection(met, groups)
  BY DEF Stored, Surjection
<1>3. met \subseteq Peer
  BY StatusAssumption
<1> QED
  BY <1>1, <1>2, <1>3, FS_Surjection, IdsAreCanonical DEF Stored

\* Every worker's job is still good when users and chats have become more.
LEMMA MoreIsGood ==
  ASSUME NEW j, NEW u \in Nat, NEW g \in Nat, NEW u2 \in Nat, NEW g2 \in Nat,
         u <= u2, g <= g2, Typed(j), True(j, u, g)
  PROVE  True(j, u2, g2)
BY DEF True, Typed, Job

\* One worker's step.
LEMMA OneJob ==
  ASSUME IInv, NEW w \in Worker, NEW j, Set(w, j), Typed(j), Prompt(j),
         True(j, Cardinality(users'), Cardinality(met')),
         users \subseteq users', met \subseteq met',
         users' \subseteq User, met' \subseteq Peers, Stored', ChatsKeptApart'
  PROVE  IInv'
<1>1. job' \in [Worker -> Job] /\ job'[w] = j /\ \A v \in Worker \ {w} : job'[v] = job[v]
  BY DEF IInv, Set, Typed
<1>2. /\ Cardinality(users) \in Nat /\ Cardinality(met) \in Nat
      /\ Cardinality(users') \in Nat /\ Cardinality(met') \in Nat
      /\ Cardinality(users) <= Cardinality(users') /\ Cardinality(met) <= Cardinality(met')
  BY StatusAssumption, FS_Subset, FS_CardinalityType DEF IInv
<1>3. ASSUME NEW v \in Worker PROVE Good(job[v])'
  <2>1. CASE v = w
    BY <1>1, <2>1 DEF Good, Typed, Prompt, True, Allowed
  <2>2. CASE v # w
    <3>1. Typed(job[v]) /\ Prompt(job[v]) /\ True(job[v], Cardinality(users), Cardinality(met))
      BY DEF IInv, Good
    <3>2. True(job[v], Cardinality(users'), Cardinality(met'))
      BY <1>2, <3>1, MoreIsGood
    <3> QED
      BY <1>1, <2>2, <3>1, <3>2 DEF Good, Typed, Prompt, True, Allowed
  <2> QED
    BY <2>1, <2>2
<1> QED
  BY <1>1, <1>3 DEF IInv

-----------------------------------------------------------------------------
(* One lemma per action.                                                   *)

LEMMA InitGood == Init => IInv
<1> SUFFICES ASSUME Init PROVE IInv
  OBVIOUS
<1>1. IsFiniteSet(users) /\ Cardinality(users) \in Nat
  BY FS_Singleton DEF Init
<1>2. Cardinality(groups) = Cardinality(met) /\ Cardinality(met) = 0
  BY FS_EmptySet DEF Init
<1>3. Idle \in Job
  BY StatusAssumption DEF Idle, Job, PC
<1> QED
  BY <1>1, <1>2, <1>3, StatusAssumption
  DEF Init, IInv, Stored, ChatsKeptApart, Good, Typed, True, Prompt, Idle, Timed

\* The server answers with r and stores nothing.
LEMMA ServedGood ==
  ASSUME IInv, NEW w \in Worker, NEW r \in Nat, Serve(w, r), job[w].pc \in Call,
         job[w].pc = "users" => r = Cardinality(users),
         job[w].pc = "groups" => r = Cardinality(met),
         UNCHANGED <<groups, met>>, users \subseteq users', users' \subseteq User
  PROVE  IInv'
<1> DEFINE j == [job[w] EXCEPT !.reply = r]
<1>1. /\ Cardinality(users) \in Nat /\ Cardinality(met) \in Nat
      /\ Cardinality(users') \in Nat
      /\ Cardinality(users) <= Cardinality(users')
  BY StatusAssumption, FS_Subset, FS_CardinalityType DEF IInv
<1>2. Typed(job[w]) /\ Prompt(job[w]) /\ True(job[w], Cardinality(users), Cardinality(met))
  BY DEF IInv, Good
<1>3. Typed(j)
  BY <1>2 DEF Typed, Job
<1>4. Prompt(j)
  BY <1>2 DEF Typed, Job, Prompt
<1>5. True(j, Cardinality(users), Cardinality(met))
  BY <1>1, <1>2 DEF Typed, Job, True, Timed, Call
<1>6. True(j, Cardinality(users'), Cardinality(met'))
  BY <1>1, <1>3, <1>5, MoreIsGood
<1> QED
  BY <1>3, <1>4, <1>6, OneJob DEF IInv, Serve, Stored, ChatsKeptApart

LEMMA ServerGood ==
  ASSUME IInv, NEW w \in Worker, Server(w)
  PROVE  IInv'
<1>1. Typed(job[w]) /\ Prompt(job[w]) /\ True(job[w], Cardinality(users), Cardinality(met))
  BY DEF IInv, Good
<1>2. Cardinality(users) \in Nat /\ Cardinality(met) \in Nat /\ IsFiniteSet(met)
      /\ Cardinality(groups) = Cardinality(met)
  BY Finite DEF IInv
<1>3. CASE UpsertUser(w)
  BY <1>1, <1>3, ServedGood DEF UpsertUser, Asked, IInv, Typed, Job, Call
<1>4. CASE UpsertGroup(w)
  <2> DEFINE p == job[w].peer
             j == [job[w] EXCEPT !.reply = 0]
  <2>1. /\ job[w].pc = "group" /\ p \in Peers /\ p \in Peer
        /\ met' = met \cup {p} /\ groups' = groups \cup {ChatID(p)} /\ users' = users
    BY <1>1, <1>4, StatusAssumption DEF UpsertGroup, Asked, Typed
  <2>2. ChatID(p) \in groups <=> p \in met
    BY <2>1, IdsAreDistinct, StatusAssumption DEF IInv, Stored
  <2>3. Stored' /\ met' \subseteq Peers
    BY <2>1 DEF IInv, Stored
  <2>4. /\ IsFiniteSet(met') /\ Cardinality(met') \in Nat
        /\ Cardinality(met) <= Cardinality(met')
    BY <2>1, <2>3, StatusAssumption, FS_Subset, FS_CardinalityType
  <2>5. ChatsKeptApart'
    <3>1. IsFiniteSet(groups)
      BY GroupsFinite DEF IInv
    <3>2. Cardinality(met') = IF p \in met THEN Cardinality(met) ELSE Cardinality(met) + 1
      BY <1>2, <2>1, FS_AddElement
    <3>3. Cardinality(groups') = IF ChatID(p) \in groups THEN Cardinality(groups)
                                 ELSE Cardinality(groups) + 1
      BY <2>1, <3>1, FS_AddElement
    <3> QED
      BY <1>2, <2>2, <3>2, <3>3 DEF ChatsKeptApart
  <2>6. Typed(j) /\ Prompt(j) /\ True(j, Cardinality(users), Cardinality(met))
    BY <1>1, <2>1 DEF Typed, Job, Prompt, True, Timed
  <2>7. True(j, Cardinality(users'), Cardinality(met'))
    BY <1>2, <2>1, <2>4, <2>6, MoreIsGood
  <2> QED
    BY <1>4, <2>1, <2>3, <2>5, <2>6, <2>7, OneJob DEF UpsertGroup, Serve, IInv
<1>5. CASE Ping(w)
  BY <1>5, ServedGood DEF Ping, Asked, IInv, Call, Timed
<1>6. CASE CountUsers(w)
  BY <1>2, <1>6, ServedGood DEF CountUsers, Asked, IInv, Call, Timed
<1>7. CASE CountGroups(w)
  BY <1>2, <1>7, ServedGood DEF CountGroups, Asked, IInv, Call, Timed
<1> QED
  BY <1>3, <1>4, <1>5, <1>6, <1>7 DEF Server

LEMMA IdleGood ==
  Typed(Idle) /\ Prompt(Idle) /\ \A u, g \in Nat : True(Idle, u, g)
BY StatusAssumption DEF Idle, Typed, Job, PC, Prompt, True, Timed

\* The handler moves on, the collections stay as they are.
LEMMA MovedOn ==
  ASSUME IInv, NEW w \in Worker, NEW j, Set(w, j), UNCHANGED <<users, groups, met>>,
         Typed(j), Prompt(j), True(j, Cardinality(users), Cardinality(met))
  PROVE  IInv'
BY OneJob DEF IInv, Stored, ChatsKeptApart

LEMMA TakeGood ==
  ASSUME IInv, NEW w \in Worker, Take(w)
  PROVE  IInv'
<1>1. PICK u \in User, p \in Peers \cup {Private}, c \in {"none", "ping", "status"} :
        /\ c # "none" => u = Owner
        /\ Set(w, [Idle EXCEPT !.pc = "user", !.from = u, !.peer = p, !.cmd = c])
  BY DEF Take
<1> DEFINE j == [Idle EXCEPT !.pc = "user", !.from = u, !.peer = p, !.cmd = c]
<1>2. Typed(j) /\ Prompt(j)
  <2>1. Idle \in Job /\ j \in Job /\ j.pc = "user" /\ j.cmd = c /\ j.from = u
    BY IdleGood DEF Typed, Job, PC, Call
  <2> HIDE DEF j
  <2> QED
    BY <1>1, <2>1 DEF Typed, Prompt, Timed
<1>3. True(j, Cardinality(users), Cardinality(met))
  BY StatusAssumption DEF Idle, True, Timed
<1> QED
  BY <1>1, <1>2, <1>3, MovedOn DEF Take

LEMMA BeginGood ==
  ASSUME IInv, NEW w \in Worker, job[w].pc \in {"user", "group"}
  PROVE  LET j == Begin(job[w]) IN
         Typed(j) /\ Prompt(j) /\ True(j, Cardinality(users), Cardinality(met))
<1>1. Typed(job[w]) /\ True(job[w], Cardinality(users), Cardinality(met))
  BY DEF IInv, Good
<1>2. Cardinality(users) \in Nat /\ Cardinality(met) \in Nat
  BY Finite DEF IInv
<1>3. CASE job[w].cmd = "none"
  BY <1>2, <1>3, IdleGood DEF Begin
<1>4. CASE job[w].cmd # "none"
  <2> DEFINE j == Begin(job[w])
  <2>1. j = [job[w] EXCEPT !.pc = "ping", !.reply = None, !.spent = 0,
                 !.left = IF job[w].cmd = "ping" THEN pingMongoTimeout ELSE statusLookupTimeout,
                 !.baseUsers = Cardinality(users), !.baseGroups = Cardinality(met)]
    BY <1>4 DEF Begin
  <2> HIDE DEF j
  <2>2. Typed(j)
    BY <1>1, <1>2, <1>4, <2>1, StatusAssumption DEF Typed, Job, PC, Call, Timed
  <2>3. Prompt(j)
    BY <1>1, <1>4, <2>1, StatusAssumption DEF Typed, Job, Prompt
  <2>4. True(j, Cardinality(users), Cardinality(met))
    BY <1>1, <1>2, <2>1, StatusAssumption DEF Typed, Job, True, Timed
  <2> QED
    BY <2>2, <2>3, <2>4 DEF j
<1> QED
  BY <1>3, <1>4

LEMMA OverGood ==
  ASSUME IInv, NEW w \in Worker, NEW r, r \in {job[w].reply, Error} \ {None},
         job[w].pc \in Call, Over(w, r)
  PROVE  IInv'
<1> DEFINE u == Cardinality(users)
           g == Cardinality(met)
           j == job[w]
           Moved(k) == Typed(k) /\ Prompt(k) /\ True(k, u, g)
<1>1. Typed(j) /\ Prompt(j) /\ True(j, u, g)
  BY DEF IInv, Good
<1>2. u \in Nat /\ g \in Nat
  BY Finite DEF IInv
<1>3. r \in Nat \cup {Error} /\ None # Error /\ None \notin Nat /\ Error \notin Nat
  BY <1>1, StatusAssumption DEF Typed, Job
<1>4. CASE j.pc = "user"
  <2>1. Moved(UserRegistered(j, r))
    <3>1. CASE r = Error \/ j.peer = Private
      BY <1>4, <3>1, BeginGood DEF UserRegistered
    <3>2. CASE ~(r = Error \/ j.peer = Private)
      BY <1>1, <1>4, <3>2, StatusAssumption
      DEF UserRegistered, Typed, Job, PC, Call, Prompt, True, Timed
    <3> QED
      BY <3>1, <3>2
  <2>2. Set(w, UserRegistered(j, r)) /\ UNCHANGED <<users, groups, met>>
    BY <1>4 DEF Over
  <2> QED
    BY <2>1, <2>2, MovedOn
<1>5. CASE j.pc = "group"
  <2>1. Moved(Begin(j))
    BY <1>5, BeginGood
  <2>2. Set(w, Begin(j)) /\ UNCHANGED <<users, groups, met>>
    BY <1>5 DEF Over
  <2> QED
    BY <2>1, <2>2, MovedOn
<1>6. CASE j.pc = "ping"
  <2>1. j.cmd \in {"ping", "status"} /\ j.spent \in Nat /\ j.left \in Nat
    BY <1>1, <1>6 DEF Typed, Job, Timed
  <2>2. Typed(Pinged(j))
    BY <1>1, <1>6, StatusAssumption DEF Pinged, Typed, Job, PC, Call, Timed
  <2>3. Prompt(Pinged(j))
    BY <1>1, <1>6, <2>1, StatusAssumption DEF Pinged, Typed, Job, Prompt, Allowed
  <2>4. True(Pinged(j), u, g)
    BY <1>1, <1>2, <1>3, <1>6 DEF Pinged, Typed, Job, True, Timed
  <2>5. Set(w, Pinged(j)) /\ UNCHANGED <<users, groups, met>>
    BY <1>6 DEF Over
  <2> QED
    BY <2>2, <2>3, <2>4, <2>5, MovedOn
<1>7. CASE j.pc = "users"
  <2>1. Typed(UsersCounted(j, r))
    BY <1>1, <1>3, <1>7 DEF UsersCounted, Typed, Job, PC, Call, Timed
  <2>2. Prompt(UsersCounted(j, r))
    BY <1>1, <1>7 DEF UsersCounted, Typed, Job, Prompt
  <2>3. True(UsersCounted(j, r), u, g)
    BY <1>1, <1>2, <1>3, <1>7 DEF UsersCounted, Typed, Job, True, Timed
  <2>4. Set(w, UsersCounted(j, r)) /\ UNCHANGED <<users, groups, met>>
    BY <1>7 DEF Over
  <2> QED
    BY <2>1, <2>2, <2>3, <2>4, MovedOn
<1>8. CASE j.pc = "groups"
  <2>1. Typed(GroupsCounted(j, r))
    BY <1>1, <1>3, <1>8 DEF GroupsCounted, Typed, Job, PC, Call, Timed
  <2>2. Prompt(GroupsCounted(j, r))
    BY <1>1, <1>8, StatusAssumption DEF GroupsCounted, Typed, Job, Prompt, Allowed
  <2>3. True(GroupsCounted(j, r), u, g)
    BY <1>1, <1>2, <1>3, <1>8 DEF GroupsCounted, Typed, Job, True, Timed
  <2>4. Set(w, GroupsCounted(j, r)) /\ UNCHANGED <<users, groups, met>>
    BY <1>8 DEF Over
  <2> QED
    BY <2>1, <2>2, <2>3, <2>4, MovedOn
<1> QED
  BY <1>4, <1>5, <1>6, <1>7, <1>8 DEF Call, Timed

LEMMA TickGood ==
  ASSUME IInv, Tick
  PROVE  IInv'
<1>1. Cardinality(users) \in Nat /\ Cardinality(met) \in Nat
  BY Finite DEF IInv
<1>2. ASSUME NEW w \in Worker PROVE job'[w] \in Job /\ Good(job[w])'
  <2>1. Typed(job[w]) /\ Prompt(job[w]) /\ True(job[w], Cardinality(users), Cardinality(met))
    BY DEF IInv, Good
  <2>2. CASE job[w].pc \notin Timed
    <3>1. job'[w] = job[w] /\ users' = users /\ met' = met
      BY <2>2 DEF Tick
    <3> QED
      BY <2>1, <3>1 DEF Good, Typed, Prompt, True, Allowed
  <2>3. CASE job[w].pc \in Timed
    <3> DEFINE j == [job[w] EXCEPT !.left = @ - 1, !.spent = @ + 1]
    <3>1. job'[w] = j /\ users' = users /\ met' = met
      BY <2>3 DEF Tick
    <3>2. job[w].left \in Nat /\ job[w].left > 0 /\ job[w].spent \in Nat
      BY <2>1, <2>3 DEF Tick, InTime, Typed, Job
    <3>3. Typed(j)
      <4>1. job[w].left - 1 \in Nat /\ job[w].spent + 1 \in Nat
        BY <3>2
      <4> QED
        BY <2>1, <4>1 DEF Typed, Job
    <3>4. Prompt(j)
      BY <2>1, <2>3, <3>2 DEF Typed, Job, Prompt, Timed
    <3>5. True(j, Cardinality(users), Cardinality(met))
      BY <2>1 DEF Typed, Job, True
    <3> HIDE DEF j
    <3> QED
      BY <3>1, <3>3, <3>4, <3>5 DEF Good, Typed, Prompt, True, Allowed
  <2> QED
    BY <2>2, <2>3
<1>3. job' \in [Worker -> Job]
  BY <1>2 DEF Tick
<1> QED
  BY <1>2, <1>3 DEF IInv, Tick, Stored, ChatsKeptApart

LEMMA NextGood == IInv /\ [Next]_vars => IInv'
<1> SUFFICES ASSUME IInv, [Next]_vars PROVE IInv'
  OBVIOUS
<1>1. CASE Tick
  BY <1>1, TickGood
<1>2. ASSUME NEW w \in Worker, Take(w) PROVE IInv'
  BY <1>2, TakeGood
<1>3. ASSUME NEW w \in Worker, Server(w) PROVE IInv'
  BY <1>3, ServerGood
<1>4. ASSUME NEW w \in Worker, Answered(w) PROVE IInv'
  BY <1>4, OverGood DEF Answered
<1>5. ASSUME NEW w \in Worker, Fails(w) PROVE IInv'
  BY <1>5, OverGood, StatusAssumption DEF Fails
<1>6. ASSUME NEW w \in Worker, Expires(w) PROVE IInv'
  BY <1>6, OverGood, StatusAssumption DEF Expires, Call
<1>7. ASSUME NEW w \in Worker, Reply(w) PROVE IInv'
  <2>1. True(Idle, Cardinality(users), Cardinality(met))
    BY Finite, IdleGood DEF IInv
  <2> QED
    BY <1>7, <2>1, IdleGood, MovedOn DEF Reply
<1>8. CASE UNCHANGED vars
  BY <1>8 DEF vars, IInv, Stored, ChatsKeptApart, Good, Typed, True, Prompt, Allowed
<1> QED
  BY <1>1, <1>2, <1>3, <1>4, <1>5, <1>6, <1>7, <1>8 DEF Next

LEMMA Inductive == Spec => []IInv
BY InitGood, NextGood, PTL DEF Spec

-----------------------------------------------------------------------------
(* The theorems.                                                           *)

\* The collections hold ids, and MongoDB is only asked after for the owner.
THEOREM TypeCorrect == Spec => []TypeOK
<1>1. IInv => TypeOK
  BY GroupsFinite DEF IInv, TypeOK, Good, Typed
<1> QED
  BY <1>1, Inductive, PTL

\* Whichever basic groups and channels are registered, and in whatever order,
\* there are as many ids as chats (canonicalChannelID).
THEOREM NoTwoChatsShareAnId == Spec => []ChatsKeptApart
<1>1. IInv => ChatsKeptApart
  BY DEF IInv
<1> QED
  BY <1>1, Inductive, PTL

\* Whatever the other workers register meanwhile, a count .status gives is one
\* the collection had while the command ran.
THEOREM StatusIsTrue == Spec => []CountsAreTrue
<1>1. IInv => CountsAreTrue
  BY DEF IInv, Good, True, CountsAreTrue
<1> QED
  BY <1>1, Inductive, PTL

\* For any timeouts, a command waits for MongoDB no longer than they allow.
THEOREM AlwaysInTime == Spec => []AnsweredInTime
<1>1. ASSUME IInv PROVE AnsweredInTime
  <2> SUFFICES ASSUME NEW w \in Worker, job[w].pc \in Timed \cup {"send"}
               PROVE  job[w].spent <= Allowed(job[w].cmd)
    BY DEF AnsweredInTime
  <2>1. Typed(job[w]) /\ Prompt(job[w])
    BY <1>1 DEF IInv, Good
  <2> QED
    BY <2>1, StatusAssumption DEF Typed, Job, Prompt, Timed, Allowed
<1> QED
  BY <1>1, Inductive, PTL

=============================================================================
