------------------------------ MODULE Registry ------------------------------
(***************************************************************************)
(* The users and groups collections and everybody who writes to them: the  *)
(* start of the process (EnsureBaseIndexes, then EnsureOwner in two        *)
(* writes), and the handlers, which call EnsureUser and EnsureGroup        *)
(* concurrently.                                                           *)
(*                                                                         *)
(* An UpdateOne with upsert is what MongoDB makes of it: the server looks  *)
(* for a match, and later modifies the document it found or inserts a new  *)
(* one; when an insert meets a unique index that has the key by then, the  *)
(* server starts over.  Each registrar reads the clock before it sends.    *)
(* The process may die, or a call fail, between any two of these steps,    *)
(* and the next process may be configured with another owner.              *)
(***************************************************************************)
EXTENDS Naturals, Sequences

CONSTANTS
  UserID, ChatID,
  NoID,        \* the key of no call
  Title,       \* titles a group may have
  NoTitle,     \* the empty title: the update does not tell it
  Thread,      \* handler goroutines
  Main,        \* the goroutine that starts the process
  MaxStarts,   \* bound: starts of the process
  MaxCalls,    \* bound: registrar calls made by handlers
  MaxTime      \* bound: ticks of the clock

ASSUME RegistryAssumption ==
  /\ Main \notin Thread /\ NoTitle \notin Title
  /\ NoID \notin UserID \cup ChatID /\ UserID \cap ChatID = {}
  /\ MaxStarts \in Nat /\ MaxCalls \in Nat /\ MaxTime \in Nat \ {0}

VARIABLES
  users,    \* the documents of the users collection, in the order inserted
  groups,   \* the documents of the groups collection
  unique,   \* the unique indexes on user_id and chat_id exist
  phase,    \* how far the process has come
  owner,    \* cfg.UserbotOwnerID of the process
  call,     \* call[p]: the upsert goroutine p is waiting for
  now,      \* the clock
  starts, made

store == <<users, groups, unique>>
vars  == <<users, groups, unique, phase, owner, call, now, starts, made>>

RoleOwner == "owner"
RoleAdmin == "admin"
RoleUser  == "user"

\* Times start at 1; 0 is a field the document does not have yet.
UserDoc  == [user_id : UserID, role : {RoleOwner, RoleAdmin, RoleUser},
             created_at : Nat, updated_at : Nat, last_seen_at : Nat]
GroupDoc == [chat_id : ChatID, title : Title \cup {NoTitle},
             joined_at : Nat, last_seen_at : Nat]

Phase == {"down", "indexes", "demote", "bootstrap", "ready"}

(***************************************************************************)
(* op is the registrar a call belongs to and key the id it upserts; at is  *)
(* the time it read; found is the place of the document the server matched, *)
(* 0 for none.                                                             *)
(***************************************************************************)
Goroutine == Thread \cup {Main}
Call == [op : {"none", "owner", "user", "group"}, stage : {"match", "write"},
         key : UserID \cup ChatID \cup {NoID}, title : Title \cup {NoTitle}, at : Nat, found : Nat]

NoCall == [op |-> "none", stage |-> "match", key |-> NoID, title |-> NoTitle,
           at |-> 0, found |-> 0]
Busy(p) == call[p].op # "none"

Init ==
  /\ users = <<>> /\ groups = <<>> /\ unique = FALSE
  /\ phase = "down" /\ owner \in UserID
  /\ call = [p \in Goroutine |-> NoCall]
  /\ now = 1 /\ starts = 0 /\ made = 0

-----------------------------------------------------------------------------
(* The process.                                                            *)

Start ==
  /\ phase = "down" /\ starts < MaxStarts
  /\ starts' = starts + 1
  /\ phase' = "indexes"
  /\ owner' \in UserID
  /\ UNCHANGED <<store, call, now, made>>

\* The process exits or is killed, and the calls it was waiting for are lost.
Down == phase' = "down" /\ call' = [p \in Goroutine |-> NoCall]

Crash == phase # "down" /\ Down /\ UNCHANGED <<store, owner, now, starts, made>>

\* Slip: the indexes are created, but not as unique ones.
MutEnsureBaseIndexes ==
  /\ phase = "indexes"
  /\ unique' = unique /\ phase' = "demote"
  /\ UNCHANGED <<users, groups, owner, call, now, starts, made>>

\* One index after the other; an index that is not created ends the process.
EnsureBaseIndexes ==
  /\ phase = "indexes"
  /\ unique' = TRUE /\ phase' = "demote"
  /\ UNCHANGED <<users, groups, owner, call, now, starts, made>>

Issue(p, op, key, title) ==
  call' = [call EXCEPT ![p] = [op |-> op, stage |-> "match", key |-> key,
                               title |-> title, at |-> now, found |-> 0]]

\* Slip: the new owner is stored, and no previous owner demoted.
MutDemoted(d) == d

Demoted(d) ==
  IF d.role = RoleOwner /\ d.user_id # owner
  THEN [d EXCEPT !.role = RoleAdmin, !.updated_at = now] ELSE d

\* EnsureOwner: UpdateMany demotes every other owner, then the upsert is sent.
DemotePreviousOwners ==
  /\ phase = "demote"
  /\ users' = [i \in DOMAIN users |-> Demoted(users[i])]
  /\ phase' = "bootstrap"
  /\ Issue(Main, "owner", owner, NoTitle)
  /\ UNCHANGED <<groups, unique, owner, now, starts, made>>

-----------------------------------------------------------------------------
(* The registrars, called by the handlers of a process that has started.   *)

EnsureUser(p) ==
  /\ phase = "ready" /\ p \in Thread /\ ~Busy(p) /\ made < MaxCalls
  /\ made' = made + 1
  /\ \E u \in UserID : Issue(p, "user", u, NoTitle)
  /\ UNCHANGED <<store, phase, owner, now, starts>>

\* Slip: private chats are registered too, under the id of their user.
MutEnsureGroup(p) ==
  /\ phase = "ready" /\ p \in Thread /\ ~Busy(p) /\ made < MaxCalls
  /\ made' = made + 1
  /\ \E c \in ChatID \cup UserID : Issue(p, "group", c, NoTitle)
  /\ UNCHANGED <<store, phase, owner, now, starts>>

EnsureGroup(p) ==
  /\ phase = "ready" /\ p \in Thread /\ ~Busy(p) /\ made < MaxCalls
  /\ made' = made + 1
  /\ \E c \in ChatID, t \in Title \cup {NoTitle} : Issue(p, "group", c, t)
  /\ UNCHANGED <<store, phase, owner, now, starts>>

-----------------------------------------------------------------------------
(* The server's side of an upsert.                                         *)

Places(k) ==
  IF k.op = "group" THEN {i \in DOMAIN groups : groups[i].chat_id = k.key}
                    ELSE {i \in DOMAIN users : users[i].user_id = k.key}

Match(p) ==
  /\ Busy(p) /\ call[p].stage = "match"
  /\ \E i \in Places(call[p]) \cup {0} :
       /\ i = 0 <=> Places(call[p]) = {}
       /\ call' = [call EXCEPT ![p].found = i, ![p].stage = "write"]
  /\ UNCHANGED <<store, phase, owner, now, starts, made>>

\* Slip: the default role is set on every call.
MutSetUser(d, k) ==
  IF k.op = "owner"
  THEN [d EXCEPT !.role = RoleOwner, !.updated_at = k.at]
  ELSE [d EXCEPT !.updated_at = k.at, !.last_seen_at = k.at, !.role = RoleUser]

\* Slip: a known user's created_at is refreshed as well.
MutSetCreated(d, k) ==
  [d EXCEPT !.updated_at = k.at, !.created_at = k.at,
            !.role = IF k.op = "owner" THEN RoleOwner ELSE d.role]

\* The $set part of the two updates to users.
SetUser(d, k) ==
  IF k.op = "owner"
  THEN [d EXCEPT !.role = RoleOwner, !.updated_at = k.at]
  ELSE [d EXCEPT !.updated_at = k.at, !.last_seen_at = k.at]

\* Slip: the title is set even when the update does not tell it.
MutSetGroup(d, k) == [d EXCEPT !.last_seen_at = k.at, !.title = k.title]

SetGroup(d, k) ==
  IF k.title = NoTitle THEN [d EXCEPT !.last_seen_at = k.at]
  ELSE [d EXCEPT !.last_seen_at = k.at, !.title = k.title]

\* The document an upsert inserts: $setOnInsert, then $set.
NewUser(k) ==
  SetUser([user_id |-> k.key, role |-> RoleUser, created_at |-> k.at,
           updated_at |-> 0, last_seen_at |-> 0], k)
NewGroup(k) ==
  SetGroup([chat_id |-> k.key, title |-> NoTitle, joined_at |-> k.at,
            last_seen_at |-> 0], k)

\* The call returns; EnsureOwner's makes the process ready.
Return(p) ==
  /\ call' = [call EXCEPT ![p] = NoCall]
  /\ phase' = IF p = Main THEN "ready" ELSE phase

Modify(p) ==
  LET k == call[p] IN
  /\ Busy(p) /\ k.stage = "write" /\ k.found # 0
  /\ IF k.op = "group"
     THEN groups' = [groups EXCEPT ![k.found] = SetGroup(@, k)] /\ UNCHANGED users
     ELSE users' = [users EXCEPT ![k.found] = SetUser(@, k)] /\ UNCHANGED groups
  /\ Return(p)
  /\ UNCHANGED <<unique, owner, now, starts, made>>

Insert(p) ==
  LET k == call[p] IN
  /\ Busy(p) /\ k.stage = "write" /\ k.found = 0
  /\ ~(unique /\ Places(k) # {})
  /\ IF k.op = "group" THEN groups' = Append(groups, NewGroup(k)) /\ UNCHANGED users
                       ELSE users' = Append(users, NewUser(k)) /\ UNCHANGED groups
  /\ Return(p)
  /\ UNCHANGED <<unique, owner, now, starts, made>>

\* Another call has inserted the key: the server looks for a match again.
DuplicateKey(p) ==
  /\ Busy(p) /\ call[p].stage = "write" /\ call[p].found = 0
  /\ unique /\ Places(call[p]) # {}
  /\ call' = [call EXCEPT ![p].stage = "match"]
  /\ UNCHANGED <<store, phase, owner, now, starts, made>>

\* Slip: the start of the process goes on when its call has failed.
MutCallFails(p) ==
  /\ Busy(p)
  /\ call' = [call EXCEPT ![p] = NoCall]
  /\ phase' = IF p = Main THEN "ready" ELSE phase
  /\ UNCHANGED <<store, owner, now, starts, made>>

\* The call returns an error, before or after the server has done its part: a
\* handler logs it and goes on, the start of the process fails.
CallFails(p) ==
  /\ Busy(p)
  /\ IF p = Main THEN Down ELSE call' = [call EXCEPT ![p] = NoCall] /\ UNCHANGED phase
  /\ UNCHANGED <<store, owner, now, starts, made>>

Tick ==
  /\ now < MaxTime /\ now' = now + 1
  /\ UNCHANGED <<store, phase, owner, call, starts, made>>

Upsert(p) == Match(p) \/ Modify(p) \/ Insert(p) \/ DuplicateKey(p)

Next ==
  \/ Start \/ EnsureBaseIndexes \/ DemotePreviousOwners \/ Crash \/ Tick
  \/ \E p \in Goroutine : EnsureUser(p) \/ EnsureGroup(p) \/ Upsert(p) \/ CallFails(p)

Spec == Init /\ [][Next]_vars

-----------------------------------------------------------------------------
(* Properties.                                                             *)

\* Documents and calls have the fields their Go counterparts have, and a call
\* writes to the document it matched.
TypeOK ==
  /\ users \in Seq(UserDoc) /\ groups \in Seq(GroupDoc) /\ unique \in BOOLEAN
  /\ phase \in Phase /\ owner \in UserID
  /\ call \in [Goroutine -> Call]
  /\ now \in Nat \ {0} /\ starts \in Nat /\ made \in Nat

\* However upserts of the same id interleave, no user and no chat ever has two
\* documents (EnsureBaseIndexes comes before the first upsert).
OneDocumentEach ==
  /\ \A i, j \in DOMAIN users : users[i].user_id = users[j].user_id => i = j
  /\ \A i, j \in DOMAIN groups : groups[i].chat_id = groups[j].chat_id => i = j

\* No crash between the two writes of EnsureOwner, no change of the configured
\* owner and no concurrent EnsureUser ever leaves two owners.
AtMostOneOwner ==
  \A i, j \in DOMAIN users :
    users[i].role = RoleOwner /\ users[j].role = RoleOwner => i = j

\* While handlers run, the owner on record is the configured one: messages of
\* the owner that are registered do not demote it (role is set on insert only).
OwnerWhileReady ==
  phase = "ready" => \E i \in DOMAIN users :
                       users[i].user_id = owner /\ users[i].role = RoleOwner

\* Nothing ever deletes a document or rewrites what was recorded first: the id
\* and the time of creation.
FirstSightIsKept ==
  [][/\ \A i \in DOMAIN users :
          /\ i \in DOMAIN users'
          /\ users'[i].user_id = users[i].user_id
          /\ users'[i].created_at = users[i].created_at
     /\ \A i \in DOMAIN groups :
          /\ i \in DOMAIN groups'
          /\ groups'[i].chat_id = groups[i].chat_id
          /\ groups'[i].joined_at = groups[i].joined_at]_vars

\* A title once known is never lost to an update that comes without the chat's
\* entity: EnsureGroup writes a title only if it has one.
TitleIsKept ==
  [][\A i \in DOMAIN groups :
       groups[i].title # NoTitle => groups'[i].title # NoTitle]_vars

\* The one document of an id, as a reader of the collection sees it.
Person(docs, u) ==
  LET at == {i \in DOMAIN docs : docs[i].user_id = u}
      d  == docs[CHOOSE i \in at : TRUE]
  IN IF at = {} THEN [role |-> "none", since |-> 0]
                ELSE [role |-> d.role, since |-> d.created_at]

Group(docs, c) ==
  LET at == {i \in DOMAIN docs : docs[i].chat_id = c}
      d  == docs[CHOOSE i \in at : TRUE]
  IN IF at = {} THEN [title |-> NoTitle, since |-> 0]
                ELSE [title |-> d.title, since |-> d.joined_at]

\* All of it amounts to the directory: whatever upserts meet on the server and
\* wherever calls and processes end, a document changes at one stroke, and the
\* role of owner changes hands with no handler running.
Readers == INSTANCE Directory WITH
  people  <- [u \in UserID |-> Person(users, u)],
  chats   <- [c \in ChatID |-> Group(groups, c)],
  serving <- phase = "ready"

KeepsDirectory == Readers!Spec

\* user/registrar.go:23: the registrar keeps the last-seen time up to date on
\* every interaction, so it only moves forward.
LastSeenMovesForward ==
  [][\A i \in DOMAIN users : users'[i].last_seen_at >= users[i].last_seen_at]_vars

=============================================================================
