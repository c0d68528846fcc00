--------------------------- MODULE StatusCommand ---------------------------
(***************************************************************************)
(* .ping and .status, and the time they take.  Each worker of gotd takes a *)
(* message, registers who wrote it and where, and answers a command after  *)
(* asking MongoDB: a ping, and for .status two counts that share one       *)
(* timeout.  Every call to MongoDB is answered, fails or hangs, at will;   *)
(* registrations have no timeout.                                          *)
(*                                                                         *)
(* A call is carried out on the server in one step (Registry has the       *)
(* upserts in detail), and its answer comes in another.  Time is counted   *)
(* by timers that tick together; what the process does by itself takes no  *)
(* time, so a tick does not pass a timer that is over.                     *)
(***************************************************************************)
EXTENDS ChatIds, FiniteSets

CONSTANTS
  User, Owner,
  Peers,                \* the groups and channels of the account
  Private,              \* stands for the private chats
  None, Error,          \* no answer yet; a call that failed
  pingMongoTimeout, statusLookupTimeout, statusCountTimeout

ASSUME StatusAssumption ==
  /\ Owner \in User /\ IsFiniteSet(User)
  /\ Peers \subseteq Peer /\ IsFiniteSet(Peers) /\ Private \notin Peers
  /\ None \notin Nat /\ Error \notin Nat /\ None # Error
  /\ pingMongoTimeout \in Nat \ {0} /\ statusLookupTimeout \in Nat \ {0}
  /\ statusCountTimeout \in Nat \ {0}

VARIABLES
  users,   \* the ids in the users collection
  groups,  \* the ids in the groups collection
  met,     \* the chats that were registered there
  job      \* job[w]: what worker w is doing

vars == <<users, groups, met, job>>

\* One worker serves the private chats and basic groups, one each channel.
Channels    == {p \in Peers : p.kind = "channel"}
Worker      == {Private} \cup Channels
WorkerOf(p) == IF p \in Channels THEN p ELSE Private

Timed == {"ping", "users", "groups"}
Call  == {"user", "group"} \cup Timed
PC    == {"idle", "send"} \cup Call

\* left is what is left of the timeout of a timed call, spent the time since
\* the command was begun; baseUsers and baseGroups are how many there were then.
Job == [pc : PC, from : User, peer : Peers \cup {Private},
        cmd : {"none", "ping", "status"},
        reply : Nat \cup {None}, left : Nat, spent : Nat,
        userCount : Nat \cup {None, Error}, groupCount : Nat \cup {None, Error},
        baseUsers : Nat, baseGroups : Nat]

Idle == [pc |-> "idle", from |-> Owner, peer |-> Private, cmd |-> "none",
         reply |-> None, left |-> 0, spent |-> 0,
         userCount |-> None, groupCount |-> None, baseUsers |-> 0, baseGroups |-> 0]

Set(w, j) == job' = [job EXCEPT ![w] = j]

Init ==
  /\ users = {Owner} /\ groups = {} /\ met = {}
  /\ job = [w \in Worker |-> Idle]

-----------------------------------------------------------------------------
(* MongoDB.                                                                *)

Serve(w, r) == Set(w, [job[w] EXCEPT !.reply = r])

Asked(w, call) == job[w].pc = call /\ job[w].reply = None

UpsertUser(w) ==
  /\ Asked(w, "user") /\ Serve(w, 0)
  /\ users' = users \cup {job[w].from}
  /\ UNCHANGED <<groups, met>>

UpsertGroup(w) ==
  /\ Asked(w, "group") /\ Serve(w, 0)
  /\ groups' = groups \cup {ChatID(job[w].peer)}
  /\ met' = met \cup {job[w].peer}
  /\ UNCHANGED users

Ping(w) == Asked(w, "ping") /\ Serve(w, 0) /\ UNCHANGED <<users, groups, met>>

CountUsers(w) ==
  /\ Asked(w, "users") /\ Serve(w, Cardinality(users))
  /\ UNCHANGED <<users, groups, met>>

\* Slip: the provider was given the collections the wrong way round.
MutCountGroups(w) ==
  /\ Asked(w, "groups") /\ Serve(w, Cardinality(users))
  /\ UNCHANGED <<users, groups, met>>

CountGroups(w) ==
  /\ Asked(w, "groups") /\ Serve(w, Cardinality(groups))
  /\ UNCHANGED <<users, groups, met>>

Server(w) ==
  UpsertUser(w) \/ UpsertGroup(w) \/ Ping(w) \/ CountUsers(w) \/ CountGroups(w)

-----------------------------------------------------------------------------
(* The handler.                                                            *)

\* handleMessage, up to registerSeen; only the owner commands.
Take(w) ==
  /\ job[w].pc = "idle"
  /\ \E u \in User, p \in Peers \cup {Private}, c \in {"none", "ping", "status"} :
       /\ WorkerOf(p) = w /\ (c # "none" => u = Owner)
       /\ Set(w, [Idle EXCEPT !.pc = "user", !.from = u, !.peer = p, !.cmd = c])
  /\ UNCHANGED <<users, groups, met>>

\* Slip: whatever is not a ping is given the status.
MutBegin(j) ==
  [j EXCEPT !.pc = "ping", !.reply = None, !.spent = 0,
            !.left = IF j.cmd = "ping" THEN pingMongoTimeout ELSE statusLookupTimeout,
            !.baseUsers = Cardinality(users), !.baseGroups = Cardinality(met)]

\* commandResponse begins, with the ping both commands begin with.
Begin(j) ==
  IF j.cmd = "none" THEN Idle
  ELSE [j EXCEPT !.pc = "ping", !.reply = None, !.spent = 0,
                 !.left = IF j.cmd = "ping" THEN pingMongoTimeout ELSE statusLookupTimeout,
                 !.baseUsers = Cardinality(users), !.baseGroups = Cardinality(met)]

\* registerSeen: after an error the chat is not tried.
UserRegistered(j, r) ==
  IF r = Error \/ j.peer = Private THEN Begin(j)
  ELSE [j EXCEPT !.pc = "group", !.reply = None]

Pinged(j) ==
  IF j.cmd = "ping" THEN [j EXCEPT !.pc = "send", !.reply = None]
  ELSE [j EXCEPT !.pc = "users", !.reply = None, !.left = statusCountTimeout]

\* Slip: the second count gets a timeout of its own.
MutUsersCounted(j, r) ==
  [j EXCEPT !.pc = "groups", !.reply = None, !.userCount = r, !.left = statusCountTimeout]

\* The second count has what the first has left of their timeout.
UsersCounted(j, r) == [j EXCEPT !.pc = "groups", !.reply = None, !.userCount = r]

GroupsCounted(j, r) == [j EXCEPT !.pc = "send", !.reply = None, !.groupCount = r]

\* The call worker w waits for is over, with answer r or an error.
Over(w, r) ==
  LET j == job[w] IN
  /\ Set(w, CASE j.pc = "user"   -> UserRegistered(j, r)
              [] j.pc = "group"  -> Begin(j)
              [] j.pc = "ping"   -> Pinged(j)
              [] j.pc = "users"  -> UsersCounted(j, r)
              [] j.pc = "groups" -> GroupsCounted(j, r))
  /\ UNCHANGED <<users, groups, met>>

InTime(w) == job[w].pc \in Timed => job[w].left > 0

Answered(w) == job[w].pc \in Call /\ InTime(w) /\ job[w].reply # None /\ Over(w, job[w].reply)

\* The driver gives up before the context does, carried out or not.
Fails(w) == job[w].pc \in Call /\ Over(w, Error)

\* Slip: the ping is given the handler's context, which has no deadline.
MutExpires(w) == job[w].pc \in Timed \ {"ping"} /\ ~InTime(w) /\ Over(w, Error)

\* The deadline of the context has passed.
Expires(w) == job[w].pc \in Timed /\ ~InTime(w) /\ Over(w, Error)

\* The reply is sent, or sending it fails.
Reply(w) ==
  /\ job[w].pc = "send"
  /\ Set(w, Idle)
  /\ UNCHANGED <<users, groups, met>>

Tick ==
  /\ \E w \in Worker : job[w].pc \in Timed
  /\ \A w \in Worker : InTime(w)
  /\ job' = [w \in Worker |->
               IF job[w].pc \in Timed
               THEN [job[w] EXCEPT !.left = @ - 1, !.spent = @ + 1] ELSE job[w]]
  /\ UNCHANGED <<users, groups, met>>

Next ==
  \/ Tick
  \/ \E w \in Worker :
       Take(w) \/ Server(w) \/ Answered(w) \/ Fails(w) \/ Expires(w) \/ Reply(w)

Spec == Init /\ [][Next]_vars

\* Time passes, and a context whose deadline has passed ends its call.  That
\* MongoDB ever answers, or the driver gives up by itself, is not assumed.
FairSpec == Spec /\ WF_vars(Tick) /\ \A w \in Worker : WF_vars(Expires(w))

-----------------------------------------------------------------------------
(* Properties.                                                             *)

\* The collections hold ids and every worker's job has its shape; MongoDB is
\* asked after for the owner's commands alone.
TypeOK ==
  /\ users \subseteq User /\ groups \subseteq Int /\ met \subseteq Peers
  /\ job \in [Worker -> Job]
  /\ \A w \in Worker :
       job[w].pc \in Timed \cup {"send"} => job[w].cmd # "none" /\ job[w].from = Owner

\* known_chats counts chats: no two of them ever share an id, whichever of
\* Telegram's two counts they come from (canonicalChannelID).
ChatsKeptApart == Cardinality(groups) = Cardinality(met)

\* The counts of .status are taken one after the other, while other workers
\* register: each lies between what was known when the command was begun and
\* what is known when it is answered, and neither is mistaken for the other.
CountsAreTrue ==
  \A w \in Worker :
    /\ job[w].userCount \in Nat
         => job[w].baseUsers <= job[w].userCount /\ job[w].userCount <= Cardinality(users)
    /\ job[w].groupCount \in Nat
         => job[w].baseGroups <= job[w].groupCount /\ job[w].groupCount <= Cardinality(met)

Allowed(cmd) ==
  IF cmd = "ping" THEN pingMongoTimeout ELSE statusLookupTimeout + statusCountTimeout

\* However MongoDB spreads its slowness over the three calls, a command waits
\* for it no longer than its two timeouts (statusResponse).
AnsweredInTime ==
  \A w \in Worker : job[w].pc \in Timed \cup {"send"} => job[w].spent <= Allowed(job[w].cmd)

\* A command that has been begun gets its answer, even if MongoDB hangs for
\* ever and whatever other workers wait for.
CommandsAnswered ==
  \A w \in Worker : job[w].pc \in Timed ~> job[w].pc = "send"

=============================================================================
