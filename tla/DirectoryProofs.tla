--------------------------- MODULE DirectoryProofs ---------------------------
(***************************************************************************)
(* The registrars implement the directory, for any number of users, chats, *)
(* handler threads, restarts and calls: every step of Registry is a step   *)
(* of Directory as a reader of the two collections sees it, or none.       *)
(***************************************************************************)
EXTENDS RegistryProofs

-----------------------------------------------------------------------------
(* What a reader sees of one id, which needs its document to be the only   *)
(* one.                                                                    *)

KeyedUsers(docs)  == \A i, j \in DOMAIN docs : docs[i].user_id = docs[j].user_id => i = j
KeyedGroups(docs) == \A i, j \in DOMAIN docs : docs[i].chat_id = docs[j].chat_id => i = j

People(docs) == [u \in UserID |-> Person(docs, u)]
Chats(docs)  == [c \in ChatID |-> Group(docs, c)]

LEMMA PersonIs ==
  ASSUME NEW docs, KeyedUsers(docs), NEW i \in DOMAIN docs, NEW u, docs[i].user_id = u
  PROVE  Person(docs, u) = [role |-> docs[i].role, since |-> docs[i].created_at]
<1> DEFINE at == {j \in DOMAIN docs : docs[j].user_id = u}
<1>1. at = {i}
  BY DEF KeyedUsers
<1>2. (CHOOSE j \in at : TRUE) = i
  BY <1>1
<1> QED
  BY <1>1, <1>2 DEF Person

LEMMA GroupIs ==
  ASSUME NEW docs, KeyedGroups(docs), NEW i \in DOMAIN docs, NEW c, docs[i].chat_id = c
  PROVE  Group(docs, c) = [title |-> docs[i].title, since |-> docs[i].joined_at]
<1> DEFINE at == {j \in DOMAIN docs : docs[j].chat_id = c}
<1>1. at = {i}
  BY DEF KeyedGroups
<1>2. (CHOOSE j \in at : TRUE) = i
  BY <1>1
<1> QED
  BY <1>1, <1>2 DEF Group

LEMMA PersonIsNobody ==
  ASSUME NEW docs, NEW u, \A i \in DOMAIN docs : docs[i].user_id # u
  PROVE  Person(docs, u) = Readers!Stranger
BY DEF Person, Readers!Stranger

LEMMA GroupIsNothing ==
  ASSUME NEW docs, NEW c, \A i \in DOMAIN docs : docs[i].chat_id # c
  PROVE  Group(docs, c) = Readers!Unseen
BY DEF Group, Readers!Unseen

\* A document appears, or says something else: a reader of any other id sees
\* what it saw before.
LEMMA OthersUnchanged ==
  ASSUME NEW old, NEW new, KeyedUsers(old), KeyedUsers(new), NEW u,
         \A i \in DOMAIN old : old[i].user_id # u => i \in DOMAIN new /\ new[i] = old[i],
         \A i \in DOMAIN new : new[i].user_id # u => i \in DOMAIN old /\ new[i] = old[i],
         NEW v, v # u
  PROVE  Person(new, v) = Person(old, v)
<1>1. CASE \E i \in DOMAIN old : old[i].user_id = v
  BY <1>1, PersonIs
<1>2. CASE \A i \in DOMAIN old : old[i].user_id # v
  <2>1. \A i \in DOMAIN new : new[i].user_id # v
    BY <1>2
  <2> QED
    BY <1>2, <2>1, PersonIsNobody
<1> QED
  BY <1>1, <1>2

LEMMA OtherChatsUnchanged ==
  ASSUME NEW old, NEW new, KeyedGroups(old), KeyedGroups(new), NEW c,
         \A i \in DOMAIN old : old[i].chat_id # c => i \in DOMAIN new /\ new[i] = old[i],
         \A i \in DOMAIN new : new[i].chat_id # c => i \in DOMAIN old /\ new[i] = old[i],
         NEW v, v # c
  PROVE  Group(new, v) = Group(old, v)
<1>1. CASE \E i \in DOMAIN old : old[i].chat_id = v
  BY <1>1, GroupIs
<1>2. CASE \A i \in DOMAIN old : old[i].chat_id # v
  <2>1. \A i \in DOMAIN new : new[i].chat_id # v
    BY <1>2
  <2> QED
    BY <1>2, <2>1, GroupIsNothing
<1> QED
  BY <1>1, <1>2

\* So a write to the document of one id is one stroke for the readers.
LEMMA OneStroke ==
  ASSUME NEW old, NEW new, KeyedUsers(old), KeyedUsers(new), NEW u \in UserID,
         \A i \in DOMAIN old : old[i].user_id # u => i \in DOMAIN new /\ new[i] = old[i],
         \A i \in DOMAIN new : new[i].user_id # u => i \in DOMAIN old /\ new[i] = old[i],
         NEW j \in DOMAIN new, new[j].user_id = u
  PROVE  People(new) =
           [People(old) EXCEPT ![u] = [role |-> new[j].role, since |-> new[j].created_at]]
<1>1. Person(new, u) = [role |-> new[j].role, since |-> new[j].created_at]
  BY PersonIs
<1>2. \A v \in UserID : v # u => Person(new, v) = Person(old, v)
  BY OthersUnchanged
<1> QED
  BY <1>1, <1>2 DEF People

LEMMA OneStrokeOfChat ==
  ASSUME NEW old, NEW new, KeyedGroups(old), KeyedGroups(new), NEW c \in ChatID,
         \A i \in DOMAIN old : old[i].chat_id # c => i \in DOMAIN new /\ new[i] = old[i],
         \A i \in DOMAIN new : new[i].chat_id # c => i \in DOMAIN old /\ new[i] = old[i],
         NEW j \in DOMAIN new, new[j].chat_id = c
  PROVE  Chats(new) =
           [Chats(old) EXCEPT ![c] = [title |-> new[j].title, since |-> new[j].joined_at]]
<1>1. Group(new, c) = [title |-> new[j].title, since |-> new[j].joined_at]
  BY GroupIs
<1>2. \A v \in ChatID : v # c => Group(new, v) = Group(old, v)
  BY OtherChatsUnchanged
<1> QED
  BY <1>1, <1>2 DEF Chats

\* Who is owner can be read off the documents.
LEMMA OwnersSeen ==
  ASSUME NEW docs \in Seq(UserDoc), KeyedUsers(docs), NEW u
  PROVE  Person(docs, u).role = RoleOwner <=>
           \E i \in DOMAIN docs : docs[i].user_id = u /\ docs[i].role = RoleOwner
<1>1. CASE \E i \in DOMAIN docs : docs[i].user_id = u
  <2>1. PICK i \in DOMAIN docs : docs[i].user_id = u
    BY <1>1
  <2>2. Person(docs, u).role = docs[i].role
    BY <2>1, PersonIs
  <2> QED
    BY <2>1, <2>2 DEF KeyedUsers
<1>2. CASE \A i \in DOMAIN docs : docs[i].user_id # u
  <2>1. Person(docs, u).role = "none"
    BY <1>2, PersonIsNobody DEF Readers!Stranger
  <2> QED
    BY <1>2, <2>1 DEF RoleOwner
<1> QED
  BY <1>1, <1>2

\* A user that is met is none that is not, whatever its document says.
LEMMA MetIsNoStranger ==
  ASSUME NEW docs \in Seq(UserDoc), KeyedUsers(docs), NEW i \in DOMAIN docs
  PROVE  Person(docs, docs[i].user_id) # Readers!Stranger
<1>1. docs[i] \in UserDoc
  BY LenProperties, ElementOfSeq
<1>2. Person(docs, docs[i].user_id).role = docs[i].role
  BY PersonIs
<1>3. docs[i].role # "none"
  BY <1>1 DEF UserDoc, RoleOwner, RoleAdmin, RoleUser
<1> QED
  BY <1>2, <1>3 DEF Readers!Stranger

-----------------------------------------------------------------------------
(* What the invariant of Registry lacks: a call has read the clock, so that *)
(* a document it inserts is known since some time, and seen to be there.   *)

Dated ==
  /\ \A p \in Goroutine : Busy(p) => call[p].at \in 1..now
  /\ \A i \in DOMAIN groups : groups[i].joined_at # 0

\* What the two parts of an upsert tell a reader.
LEMMA SetTellsReaders ==
  ASSUME NEW k \in Call
  PROVE  /\ \A d \in UserDoc : /\ SetUser(d, k).created_at = d.created_at
                               /\ SetUser(d, k).role = IF k.op = "owner" THEN RoleOwner ELSE d.role
         /\ \A d \in GroupDoc : /\ SetGroup(d, k).joined_at = d.joined_at
                                /\ SetGroup(d, k).title = IF k.title = NoTitle THEN d.title ELSE k.title
BY DEF SetUser, SetGroup, UserDoc, GroupDoc, Call

LEMMA NewTellsReaders ==
  ASSUME NEW k \in Call
  PROVE  /\ k.key \in UserID =>
              /\ NewUser(k).created_at = k.at
              /\ NewUser(k).role = IF k.op = "owner" THEN RoleOwner ELSE RoleUser
         /\ k.key \in ChatID =>
              /\ NewGroup(k).joined_at = k.at
              /\ NewGroup(k).title = k.title
<1> DEFINE user == [user_id |-> k.key, role |-> RoleUser, created_at |-> k.at,
                    updated_at |-> 0, last_seen_at |-> 0]
           chat == [chat_id |-> k.key, title |-> NoTitle, joined_at |-> k.at,
                    last_seen_at |-> 0]
<1>1. ASSUME k.key \in UserID
      PROVE  user \in UserDoc /\ user.created_at = k.at /\ user.role = RoleUser
  BY <1>1 DEF UserDoc, Call, RoleUser
<1>2. ASSUME k.key \in ChatID
      PROVE  chat \in GroupDoc /\ chat.joined_at = k.at /\ chat.title = NoTitle
  BY <1>2 DEF GroupDoc, Call
<1> HIDE DEF user, chat
<1>3. NewUser(k) = SetUser(user, k) /\ NewGroup(k) = SetGroup(chat, k)
  BY DEF NewUser, NewGroup, user, chat
<1> QED
  BY <1>1, <1>2, <1>3, SetTellsReaders

LEMMA InitDated == Init => Dated
BY DEF Init, Dated, Busy, NoCall

\* A call keeps the time it has read, and the clock does not go back.
LEMMA CallsStayDated ==
  ASSUME IInv, Dated, [Next]_vars
  PROVE  \A p \in Goroutine : Busy(p)' => call'[p].at \in 1..now'
<1>1. call \in [Goroutine -> Call] /\ now \in Nat \ {0} /\ Main \in Goroutine
  BY DEF IInv, TypeOK, Goroutine
<1>2. SUFFICES ASSUME NEW p \in Goroutine, Busy(p)' PROVE call'[p].at \in 1..now'
  OBVIOUS
<1>3. ASSUME UNCHANGED <<call, now>> PROVE call'[p].at \in 1..now'
  BY <1>2, <1>3 DEF Dated, Busy
<1>4. ASSUME Down PROVE FALSE
  BY <1>2, <1>4 DEF Down, Busy, NoCall
<1>5. ASSUME NEW q \in Goroutine, NEW op, NEW key, NEW title, Issue(q, op, key, title), now' = now
      PROVE  call'[p].at \in 1..now'
  <2>1. CASE p = q
    BY <1>1, <1>5, <2>1 DEF Issue
  <2>2. CASE p # q
    BY <1>1, <1>2, <1>5, <2>2 DEF Issue, Busy, Dated
  <2> QED
    BY <2>1, <2>2
<1>6. ASSUME NEW q \in Goroutine, call' = [call EXCEPT ![q] = NoCall], now' = now
      PROVE  call'[p].at \in 1..now'
  <2>1. p # q /\ call'[p] = call[p]
    BY <1>1, <1>2, <1>6 DEF Busy, NoCall
  <2> QED
    BY <1>2, <1>6, <2>1 DEF Busy, Dated
<1>7. CASE Start \/ EnsureBaseIndexes
  BY <1>3, <1>7 DEF Start, EnsureBaseIndexes
<1>8. CASE DemotePreviousOwners
  BY <1>1, <1>5, <1>8 DEF DemotePreviousOwners
<1>9. CASE Crash
  BY <1>4, <1>9 DEF Crash
<1>10. CASE Tick
  <2>1. now' = now + 1 /\ call' = call
    BY <1>10 DEF Tick
  <2> QED
    BY <1>1, <1>2, <2>1 DEF Dated, Busy
<1>11. ASSUME NEW q \in Goroutine, EnsureUser(q) \/ EnsureGroup(q)
       PROVE  call'[p].at \in 1..now'
  BY <1>5, <1>11 DEF EnsureUser, EnsureGroup
<1>12. ASSUME NEW q \in Goroutine, Match(q) \/ DuplicateKey(q)
       PROVE  call'[p].at \in 1..now'
  <2>1. call[q] \in Call /\ now' = now /\ Busy(q)
    BY <1>1, <1>12 DEF Match, DuplicateKey
  <2>2. call'[q].at = call[q].at /\ \A r \in Goroutine \ {q} : call'[r] = call[r]
    BY <1>1, <1>12, <2>1 DEF Match, DuplicateKey, Call
  <2> QED
    BY <1>2, <2>1, <2>2 DEF Dated, Busy
<1>13. ASSUME NEW q \in Goroutine, Modify(q) \/ Insert(q)
       PROVE  call'[p].at \in 1..now'
  BY <1>6, <1>13 DEF Modify, Insert, Return
<1>14. ASSUME NEW q \in Goroutine, CallFails(q)
       PROVE  call'[p].at \in 1..now'
  BY <1>4, <1>6, <1>14 DEF CallFails
<1>15. CASE UNCHANGED vars
  BY <1>3, <1>15 DEF vars
<1> QED
  BY <1>7, <1>8, <1>9, <1>10, <1>11, <1>12, <1>13, <1>14, <1>15 DEF Next, Upsert

\* What one write does to the collections, for both kinds of it: the document
\* of one id is there afterwards, and every other is what it was.
LEMMA WriteIs ==
  ASSUME IInv, NEW p \in Goroutine, Modify(p) \/ Insert(p)
  PROVE  LET k == call[p] IN
         /\ k \in Call /\ Busy(p)
         /\ k.op = "group" =>
              /\ users' = users /\ k.key \in ChatID
              /\ \A i \in DOMAIN groups : groups[i].chat_id # k.key => i \in DOMAIN groups' /\ groups'[i] = groups[i]
              /\ \A i \in DOMAIN groups' : groups'[i].chat_id # k.key => i \in DOMAIN groups /\ groups'[i] = groups[i]
              /\ \E j \in DOMAIN groups' :
                   /\ groups'[j].chat_id = k.key
                   /\ \/ /\ Modify(p) /\ j \in DOMAIN groups /\ groups[j].chat_id = k.key
                         /\ groups[j] \in GroupDoc /\ groups'[j] = SetGroup(groups[j], k)
                      \/ /\ Insert(p) /\ groups'[j] = NewGroup(k)
                         /\ \A i \in DOMAIN groups : groups[i].chat_id # k.key
         /\ k.op # "group" =>
              /\ groups' = groups /\ k.key \in UserID
              /\ \A i \in DOMAIN users : users[i].user_id # k.key => i \in DOMAIN users' /\ users'[i] = users[i]
              /\ \A i \in DOMAIN users' : users'[i].user_id # k.key => i \in DOMAIN users /\ users'[i] = users[i]
              /\ \E j \in DOMAIN users' :
                   /\ users'[j].user_id = k.key
                   /\ \/ /\ Modify(p) /\ j \in DOMAIN users /\ users[j].user_id = k.key
                         /\ users[j] \in UserDoc /\ users'[j] = SetUser(users[j], k)
                      \/ /\ Insert(p) /\ users'[j] = NewUser(k)
                         /\ \A i \in DOMAIN users : users[i].user_id # k.key
<1> DEFINE k == call[p]
<1>1. k \in Call /\ Busy(p) /\ k.stage = "write" /\ CallOK(p)
      /\ users \in Seq(UserDoc) /\ groups \in Seq(GroupDoc)
  BY DEF IInv, TypeOK, Modify, Insert
<1>2. /\ k.op = "group" => k.key \in ChatID
      /\ k.op # "group" => k.key \in UserID
  BY <1>1 DEF CallOK
<1>3. CASE Modify(p) /\ k.op = "group"
  <2>1. users' = users /\ groups' = [groups EXCEPT ![k.found] = SetGroup(groups[k.found], k)]
    BY <1>3 DEF Modify
  <2>2. k.found \in DOMAIN groups /\ groups[k.found] \in GroupDoc /\ groups[k.found].chat_id = k.key
    BY <1>1, <1>3, LenProperties, ElementOfSeq DEF CallOK, Places, Modify
  <2>3. /\ DOMAIN groups' = DOMAIN groups
        /\ groups'[k.found] = SetGroup(groups[k.found], k)
        /\ \A i \in DOMAIN groups : i # k.found => groups'[i] = groups[i]
    BY <2>1, <2>2
  <2>4. groups'[k.found].chat_id = k.key
    BY <1>1, <2>2, <2>3, SetGroupKeeps
  <2> QED
    BY <1>1, <1>2, <1>3, <2>1, <2>2, <2>3, <2>4
<1>4. CASE Modify(p) /\ k.op # "group"
  <2>1. groups' = groups /\ users' = [users EXCEPT ![k.found] = SetUser(users[k.found], k)]
    BY <1>4 DEF Modify
  <2>2. k.found \in DOMAIN users /\ users[k.found] \in UserDoc /\ users[k.found].user_id = k.key
    BY <1>1, <1>4, LenProperties, ElementOfSeq DEF CallOK, Places, Modify
  <2>3. /\ DOMAIN users' = DOMAIN users
        /\ users'[k.found] = SetUser(users[k.found], k)
        /\ \A i \in DOMAIN users : i # k.found => users'[i] = users[i]
    BY <2>1, <2>2
  <2>4. users'[k.found].user_id = k.key
    BY <1>1, <2>2, <2>3, SetUserKeeps
  <2> QED
    BY <1>1, <1>2, <1>4, <2>1, <2>2, <2>3, <2>4
<1>5. ASSUME Insert(p) PROVE Places(k) = {}
  BY <1>1, <1>5 DEF IInv, CallsFitPhase, Insert
<1>6. CASE Insert(p) /\ k.op = "group"
  <2>1. users' = users /\ groups' = Append(groups, NewGroup(k))
    BY <1>6 DEF Insert
  <2>2. NewGroup(k) \in GroupDoc /\ NewGroup(k).chat_id = k.key
    BY <1>1, <1>2, <1>6, NewGroupIs
  <2>3. \A i \in DOMAIN groups : groups[i].chat_id # k.key
    BY <1>5, <1>6 DEF Places
  <2>4. /\ \A i \in DOMAIN groups : i \in DOMAIN groups' /\ groups'[i] = groups[i]
        /\ \A i \in DOMAIN groups' : \/ i \in DOMAIN groups /\ groups'[i] = groups[i]
                                     \/ groups'[i] = NewGroup(k)
        /\ \E j \in DOMAIN groups' : groups'[j] = NewGroup(k)
    BY <1>1, <2>1, <2>2, Appended
  <2> QED
    BY <1>1, <1>2, <1>6, <2>1, <2>2, <2>3, <2>4
<1>7. CASE Insert(p) /\ k.op # "group"
  <2>1. groups' = groups /\ users' = Append(users, NewUser(k))
    BY <1>7 DEF Insert
  <2>2. NewUser(k) \in UserDoc /\ NewUser(k).user_id = k.key
    BY <1>1, <1>2, <1>7, NewUserIs
  <2>3. \A i \in DOMAIN users : users[i].user_id # k.key
    BY <1>5, <1>7 DEF Places
  <2>4. /\ \A i \in DOMAIN users : i \in DOMAIN users' /\ users'[i] = users[i]
        /\ \A i \in DOMAIN users' : \/ i \in DOMAIN users /\ users'[i] = users[i]
                                    \/ users'[i] = NewUser(k)
        /\ \E j \in DOMAIN users' : users'[j] = NewUser(k)
    BY <1>1, <2>1, <2>2, Appended
  <2> QED
    BY <1>1, <1>2, <1>7, <2>1, <2>2, <2>3, <2>4
<1> QED
  BY <1>3, <1>4, <1>6, <1>7

LEMMA StepDated ==
  ASSUME IInv, Dated, [Next]_vars
  PROVE  Dated'
<1>1. \A p \in Goroutine : Busy(p)' => call'[p].at \in 1..now'
  BY CallsStayDated
<1>2. CASE UNCHANGED groups
  BY <1>1, <1>2 DEF Dated
<1>3. CASE \E p \in Goroutine : Modify(p) \/ Insert(p)
  <2>1. PICK p \in Goroutine : Modify(p) \/ Insert(p)
    BY <1>3
  <2> DEFINE k == call[p]
  <2>2. k \in Call /\ k.at # 0 /\ now \in Nat
    BY <2>1, WriteIs DEF Dated, IInv, TypeOK
  <2>3. CASE k.op = "group"
    <3>1. PICK j \in DOMAIN groups' :
            /\ groups'[j].chat_id = k.key
            /\ \/ /\ Modify(p) /\ j \in DOMAIN groups /\ groups[j].chat_id = k.key
                  /\ groups[j] \in GroupDoc /\ groups'[j] = SetGroup(groups[j], k)
               \/ /\ Insert(p) /\ groups'[j] = NewGroup(k)
                  /\ \A i \in DOMAIN groups : groups[i].chat_id # k.key
      BY <2>1, <2>3, WriteIs
    <3>2. groups'[j].joined_at # 0
      BY <2>1, <2>2, <2>3, <3>1, WriteIs, SetTellsReaders, NewTellsReaders DEF Dated
    <3>3. OneDocumentEach'
      BY StepIInv DEF IInv
    <3>4. \A i \in DOMAIN groups' : i # j => i \in DOMAIN groups /\ groups'[i] = groups[i]
      BY <2>1, <2>3, <3>1, <3>3, WriteIs DEF OneDocumentEach
    <3> QED
      BY <1>1, <3>2, <3>4 DEF Dated
  <2>4. CASE k.op # "group"
    BY <1>2, <2>1, <2>4, WriteIs
  <2> QED
    BY <2>3, <2>4
<1>4. Start \/ EnsureBaseIndexes \/ DemotePreviousOwners \/ Crash \/ Tick => UNCHANGED groups
  BY DEF Start, EnsureBaseIndexes, DemotePreviousOwners, Crash, Tick, store
<1>5. \A p \in Goroutine :
        EnsureUser(p) \/ EnsureGroup(p) \/ Match(p) \/ DuplicateKey(p) \/ CallFails(p)
        => UNCHANGED groups
  BY DEF EnsureUser, EnsureGroup, Match, DuplicateKey, CallFails, store
<1> QED
  BY <1>2, <1>3, <1>4, <1>5 DEF Next, Upsert, vars

-----------------------------------------------------------------------------
(* Every step as the readers see it.                                       *)

\* The registrars start with an empty directory.
LEMMA InitIsEmpty == Init => Readers!Init
<1> SUFFICES ASSUME Init PROVE Readers!Init
  OBVIOUS
<1>1. DOMAIN users = {} /\ DOMAIN groups = {}
  BY DEF Init
<1>2. /\ \A u \in UserID : Person(users, u) = Readers!Stranger
      /\ \A c \in ChatID : Group(groups, c) = Readers!Unseen
  BY <1>1, PersonIsNobody, GroupIsNothing
<1>3. owner \in UserID /\ (phase = "ready") = FALSE /\ now = 1
  BY DEF Init
<1> QED
  BY <1>2, <1>3 DEF Readers!Init

LEMMA Keyed ==
  ASSUME IInv
  PROVE  /\ users \in Seq(UserDoc) /\ groups \in Seq(GroupDoc)
         /\ KeyedUsers(users) /\ KeyedGroups(groups)
         /\ owner \in UserID /\ now \in Nat \ {0}
BY DEF IInv, TypeOK, OneDocumentEach, KeyedUsers, KeyedGroups

\* Demoting every previous owner is one stroke.
LEMMA DemoteDeposes ==
  ASSUME IInv, IInv', DemotePreviousOwners
  PROVE  Readers!Depose
<1>1. /\ users \in Seq(UserDoc) /\ KeyedUsers(users) /\ KeyedUsers(users')
  BY Keyed DEF IInv, OneDocumentEach, KeyedUsers
<1>2. /\ DOMAIN users' = DOMAIN users
      /\ \A i \in DOMAIN users : users'[i] = Demoted(users[i])
  BY DEF DemotePreviousOwners
<1>3. \A d \in UserDoc :
        /\ Demoted(d).user_id = d.user_id /\ Demoted(d).created_at = d.created_at
        /\ Demoted(d).role = IF d.role = RoleOwner /\ d.user_id # owner
                             THEN RoleAdmin ELSE d.role
  BY DEF Demoted, UserDoc
<1>4. ASSUME NEW u \in UserID
      PROVE  Person(users', u) =
               IF Person(users, u).role = "owner" /\ u # owner
               THEN [Person(users, u) EXCEPT !.role = "admin"] ELSE Person(users, u)
  <2>1. CASE \A i \in DOMAIN users : users[i].user_id # u
    <3>1. \A i \in DOMAIN users' : users'[i].user_id # u
      BY <1>1, <1>2, <1>3, <2>1, LenProperties, ElementOfSeq
    <3>2. Person(users, u) = Readers!Stranger /\ Person(users', u) = Readers!Stranger
      BY <2>1, <3>1, PersonIsNobody
    <3> QED
      BY <3>2 DEF Readers!Stranger
  <2>2. CASE \E i \in DOMAIN users : users[i].user_id = u
    <3>1. PICK i \in DOMAIN users : users[i].user_id = u
      BY <2>2
    <3>2. users[i] \in UserDoc
      BY <1>1, LenProperties, ElementOfSeq
    <3>3. /\ i \in DOMAIN users' /\ users'[i].user_id = u
          /\ users'[i].created_at = users[i].created_at
          /\ users'[i].role = IF users[i].role = RoleOwner /\ u # owner
                              THEN RoleAdmin ELSE users[i].role
      BY <1>2, <1>3, <3>1, <3>2
    <3>4. /\ Person(users, u) = [role |-> users[i].role, since |-> users[i].created_at]
          /\ Person(users', u) = [role |-> users'[i].role, since |-> users'[i].created_at]
      BY <1>1, <3>1, <3>3, PersonIs
    <3> QED
      BY <3>3, <3>4 DEF RoleOwner, RoleAdmin
  <2> QED
    BY <2>1, <2>2
<1>5. /\ phase # "ready" /\ phase' # "ready"
      /\ UNCHANGED <<groups, owner, now>>
  BY DEF DemotePreviousOwners
<1> QED
  BY <1>4, <1>5 DEF Readers!Depose

\* The end and the start of a process touch no document.
LEMMA ProcessStandsDown ==
  ASSUME IInv, IInv', UNCHANGED <<users, groups, now>>, phase' # "ready"
  PROVE  Readers!StandDown
BY Keyed DEF Readers!StandDown, IInv, TypeOK

\* What is on the way to the server, or back, readers do not see.
LEMMA NothingSeen ==
  ASSUME UNCHANGED <<users, groups, owner, now>>, (phase' = "ready") <=> (phase = "ready")
  PROVE  UNCHANGED Readers!directory
BY DEF Readers!directory

LEMMA TickIsTick == ASSUME Tick PROVE Readers!Tick
BY DEF Tick, Readers!Tick, store

\* A call of the start that succeeds crowns the configured owner.
LEMMA OwnerIsCrowned ==
  ASSUME IInv, IInv', Dated, NEW p \in Goroutine, Modify(p) \/ Insert(p), call[p].op = "owner"
  PROVE  Readers!Crown
<1> DEFINE k == call[p]
<1>1. /\ p = Main /\ phase = "bootstrap" /\ k.key = owner
      /\ k \in Call /\ k.at \in 1..now
  BY WriteIs DEF IInv, CallsFitPhase, Goroutine, Dated
<1>2. phase' = "ready" /\ UNCHANGED <<groups, owner, now>>
  BY <1>1, WriteIs DEF Modify, Insert, Return
<1>3. KeyedUsers(users) /\ KeyedUsers(users') /\ users \in Seq(UserDoc)
  BY Keyed DEF IInv, OneDocumentEach, KeyedUsers
<1>4. PICK j \in DOMAIN users' :
        /\ users'[j].user_id = k.key
        /\ \/ /\ Modify(p) /\ j \in DOMAIN users /\ users[j].user_id = k.key
              /\ users[j] \in UserDoc /\ users'[j] = SetUser(users[j], k)
           \/ /\ Insert(p) /\ users'[j] = NewUser(k)
              /\ \A i \in DOMAIN users : users[i].user_id # k.key
  BY WriteIs
<1>5. k.key \in UserID
  BY WriteIs
<1>6. People(users') =
        [People(users) EXCEPT ![owner] = [role |-> users'[j].role, since |-> users'[j].created_at]]
  <2>1. /\ \A i \in DOMAIN users : users[i].user_id # k.key => i \in DOMAIN users' /\ users'[i] = users[i]
        /\ \A i \in DOMAIN users' : users'[i].user_id # k.key => i \in DOMAIN users /\ users'[i] = users[i]
    BY WriteIs
  <2> QED
    BY <1>1, <1>3, <1>4, <1>5, <2>1, OneStroke
<1>7. /\ users'[j].role = "owner"
      /\ \E t \in 1..now : users'[j].created_at =
           IF Person(users, owner) = Readers!Stranger THEN t ELSE Person(users, owner).since
  <2>1. CASE Insert(p)
    <3>1. /\ users'[j] = NewUser(k)
          /\ \A i \in DOMAIN users : users[i].user_id # owner
      BY <1>1, <1>4, <2>1 DEF Insert, Modify
    <3>2. Person(users, owner) = Readers!Stranger
      BY <3>1, PersonIsNobody
    <3> QED
      BY <1>1, <1>5, <3>1, <3>2, NewTellsReaders DEF RoleOwner
  <2>2. CASE Modify(p)
    <3>1. /\ j \in DOMAIN users /\ users[j].user_id = owner
          /\ users[j] \in UserDoc /\ users'[j] = SetUser(users[j], k)
      BY <1>1, <1>4, <2>2 DEF Insert, Modify
    <3>2. /\ Person(users, owner) # Readers!Stranger
          /\ Person(users, owner).since = users[j].created_at
      BY <1>3, <3>1, PersonIs, MetIsNoStranger
    <3> QED
      BY <1>1, <3>1, <3>2, SetTellsReaders DEF RoleOwner
  <2> QED
    BY <2>1, <2>2
<1>8. \A u \in UserID : Person(users, u).role = "owner" => u = owner
  BY <1>1, <1>3, OwnersSeen DEF IInv, OthersDemoted, RoleOwner
<1>9. \E t \in 1..now : People(users') = [People(users) EXCEPT ![owner] =
         [role |-> "owner", since |-> IF Person(users, owner) = Readers!Stranger
                                      THEN t ELSE Person(users, owner).since]]
  BY <1>6, <1>7
<1>10. People(users)[owner] = Person(users, owner)
  BY <1>1, <1>5 DEF People
<1>11. \E t \in 1..now : People(users') = [People(users) EXCEPT ![owner] =
         [role |-> "owner", since |-> IF @ = Readers!Stranger THEN t ELSE @.since]]
  BY <1>9, <1>10
<1> QED
  BY <1>1, <1>2, <1>8, <1>11 DEF Readers!Crown, People

\* A handler's call inserts a user nobody knew, or changes nothing that is seen.
LEMMA UserIsMet ==
  ASSUME IInv, IInv', Dated, NEW p \in Goroutine, Modify(p) \/ Insert(p), call[p].op = "user"
  PROVE  Readers!MeetUser(call[p].key) \/ UNCHANGED Readers!directory
<1> DEFINE k == call[p]
<1>1. /\ p # Main /\ phase = "ready" /\ k \in Call /\ k.at \in 1..now /\ k.key \in UserID
  BY WriteIs DEF IInv, CallsFitPhase, Goroutine, Dated
<1>2. phase' = "ready" /\ UNCHANGED <<groups, owner, now>>
  BY <1>1, WriteIs DEF Modify, Insert, Return
<1>3. KeyedUsers(users) /\ KeyedUsers(users') /\ users \in Seq(UserDoc)
  BY Keyed DEF IInv, OneDocumentEach, KeyedUsers
<1>4. PICK j \in DOMAIN users' :
        /\ users'[j].user_id = k.key
        /\ \/ /\ Modify(p) /\ j \in DOMAIN users /\ users[j].user_id = k.key
              /\ users[j] \in UserDoc /\ users'[j] = SetUser(users[j], k)
           \/ /\ Insert(p) /\ users'[j] = NewUser(k)
              /\ \A i \in DOMAIN users : users[i].user_id # k.key
  BY WriteIs
<1>5. People(users') =
        [People(users) EXCEPT ![k.key] = [role |-> users'[j].role, since |-> users'[j].created_at]]
  <2>1. /\ \A i \in DOMAIN users : users[i].user_id # k.key => i \in DOMAIN users' /\ users'[i] = users[i]
        /\ \A i \in DOMAIN users' : users'[i].user_id # k.key => i \in DOMAIN users /\ users'[i] = users[i]
    BY WriteIs
  <2> QED
    BY <1>1, <1>3, <1>4, <2>1, OneStroke
<1>6. CASE Insert(p)
  <2>1. /\ users'[j] = NewUser(k) /\ \A i \in DOMAIN users : users[i].user_id # k.key
    BY <1>4, <1>6 DEF Insert, Modify
  <2>2. People(users)[k.key] = Readers!Stranger
    BY <1>1, <2>1, PersonIsNobody DEF People
  <2>3. users'[j].role = "user" /\ users'[j].created_at \in 1..now
    BY <1>1, <2>1, NewTellsReaders DEF RoleUser
  <2>4. \E t \in 1..now :
          People(users') = [People(users) EXCEPT ![k.key] = [role |-> "user", since |-> t]]
    BY <1>5, <2>3
  <2> QED
    BY <1>1, <1>2, <2>2, <2>4 DEF Readers!MeetUser, People
<1>7. CASE Modify(p)
  <2>1. /\ j \in DOMAIN users /\ users[j].user_id = k.key
        /\ users[j] \in UserDoc /\ users'[j] = SetUser(users[j], k)
    BY <1>4, <1>7 DEF Insert, Modify
  <2>2. Person(users, k.key) = [role |-> users[j].role, since |-> users[j].created_at]
    BY <1>3, <2>1, PersonIs
  <2>3. users'[j].role = users[j].role /\ users'[j].created_at = users[j].created_at
    BY <1>1, <2>1, SetTellsReaders
  <2>4. People(users') = People(users)
    BY <1>1, <1>5, <2>2, <2>3 DEF People
  <2> QED
    BY <1>1, <1>2, <2>4 DEF Readers!directory, People
<1> QED
  BY <1>6, <1>7

\* A handler's call meets a chat, gives it a title, or changes nothing seen.
LEMMA ChatIsMet ==
  ASSUME IInv, IInv', Dated, NEW p \in Goroutine, Modify(p) \/ Insert(p), call[p].op = "group"
  PROVE  \/ Readers!MeetChat(call[p].key) \/ Readers!Name(call[p].key)
         \/ UNCHANGED Readers!directory
<1> DEFINE k == call[p]
<1>1. /\ p # Main /\ phase = "ready" /\ k \in Call /\ k.at \in 1..now /\ k.key \in ChatID
  BY WriteIs DEF IInv, CallsFitPhase, Goroutine, Dated
<1>2. phase' = "ready" /\ UNCHANGED <<users, owner, now>>
  BY <1>1, WriteIs DEF Modify, Insert, Return
<1>3. KeyedGroups(groups) /\ KeyedGroups(groups') /\ groups \in Seq(GroupDoc)
  BY Keyed DEF IInv, OneDocumentEach, KeyedGroups
<1>4. PICK j \in DOMAIN groups' :
        /\ groups'[j].chat_id = k.key
        /\ \/ /\ Modify(p) /\ j \in DOMAIN groups /\ groups[j].chat_id = k.key
              /\ groups[j] \in GroupDoc /\ groups'[j] = SetGroup(groups[j], k)
           \/ /\ Insert(p) /\ groups'[j] = NewGroup(k)
              /\ \A i \in DOMAIN groups : groups[i].chat_id # k.key
  BY WriteIs
<1>5. Chats(groups') =
        [Chats(groups) EXCEPT ![k.key] = [title |-> groups'[j].title, since |-> groups'[j].joined_at]]
  <2>1. /\ \A i \in DOMAIN groups : groups[i].chat_id # k.key => i \in DOMAIN groups' /\ groups'[i] = groups[i]
        /\ \A i \in DOMAIN groups' : groups'[i].chat_id # k.key => i \in DOMAIN groups /\ groups'[i] = groups[i]
    BY WriteIs
  <2> QED
    BY <1>1, <1>3, <1>4, <2>1, OneStrokeOfChat
<1>6. k.title \in Title \cup {NoTitle}
  BY <1>1 DEF Call
<1>7. CASE Insert(p)
  <2>1. /\ groups'[j] = NewGroup(k) /\ \A i \in DOMAIN groups : groups[i].chat_id # k.key
    BY <1>4, <1>7 DEF Insert, Modify
  <2>2. Chats(groups)[k.key] = Readers!Unseen
    BY <1>1, <2>1, GroupIsNothing DEF Chats
  <2>3. groups'[j].title \in Title \cup {NoTitle} /\ groups'[j].joined_at \in 1..now
    BY <1>1, <1>6, <2>1, NewTellsReaders
  <2>4. \E t \in 1..now, name \in Title \cup {NoTitle} :
          Chats(groups') = [Chats(groups) EXCEPT ![k.key] = [title |-> name, since |-> t]]
    BY <1>5, <2>3
  <2> QED
    BY <1>1, <1>2, <2>2, <2>4 DEF Readers!MeetChat, Chats
<1>8. CASE Modify(p)
  <2>1. /\ j \in DOMAIN groups /\ groups[j].chat_id = k.key
        /\ groups[j] \in GroupDoc /\ groups'[j] = SetGroup(groups[j], k)
    BY <1>4, <1>8 DEF Insert, Modify
  <2>2. Chats(groups)[k.key] = [title |-> groups[j].title, since |-> groups[j].joined_at]
    BY <1>1, <1>3, <2>1, GroupIs DEF Chats
  <2>3. /\ groups'[j].joined_at = groups[j].joined_at
        /\ groups'[j].title = IF k.title = NoTitle THEN groups[j].title ELSE k.title
    BY <1>1, <2>1, SetTellsReaders
  <2>4. CASE k.title = NoTitle
    <3>1. Chats(groups') = Chats(groups)
      BY <1>1, <1>5, <2>2, <2>3, <2>4 DEF Chats
    <3> QED
      BY <1>1, <1>2, <3>1 DEF Readers!directory, Chats
  <2>5. CASE k.title # NoTitle
    <3>1. k.title \in Title /\ groups'[j].title = k.title
      BY <1>6, <2>3, <2>5
    <3>2. Chats(groups)[k.key] # Readers!Unseen
      BY <2>1, <2>2 DEF Dated, Readers!Unseen
    <3>3. Chats(groups') = [Chats(groups) EXCEPT ![k.key].title = k.title]
      <4>1. [Chats(groups)[k.key] EXCEPT !.title = k.title] =
              [title |-> groups'[j].title, since |-> groups'[j].joined_at]
        BY <2>2, <2>3, <3>1
      <4> QED
        BY <1>5, <4>1
    <3> QED
      BY <1>1, <1>2, <3>1, <3>2, <3>3 DEF Readers!Name, Chats
  <2> QED
    BY <2>4, <2>5
<1> QED
  BY <1>7, <1>8

LEMMA WriteIsSeen ==
  ASSUME IInv, IInv', Dated, NEW p \in Goroutine, Modify(p) \/ Insert(p)
  PROVE  [Readers!Next]_Readers!directory
<1>1. call[p].op \in {"owner", "user", "group"}
  BY DEF IInv, TypeOK, Call, Modify, Insert, Busy
<1>2. CASE call[p].op = "owner"
  BY <1>2, OwnerIsCrowned DEF Readers!Next
<1>3. CASE call[p].op = "user"
  <2>1. call[p].key \in UserID
    BY <1>3, WriteIs
  <2> QED
    BY <1>3, <2>1, UserIsMet DEF Readers!Next
<1>4. CASE call[p].op = "group"
  <2>1. call[p].key \in ChatID
    BY <1>4, WriteIs
  <2> QED
    BY <1>4, <2>1, ChatIsMet DEF Readers!Next
<1> QED
  BY <1>1, <1>2, <1>3, <1>4

LEMMA StepIsSeen ==
  ASSUME IInv, IInv', Dated, [Next]_vars
  PROVE  [Readers!Next]_Readers!directory
<1>1. CASE Start \/ Crash
  <2>1. UNCHANGED <<users, groups, now>> /\ phase' # "ready"
    BY <1>1 DEF Start, Crash, Down, store
  <2> QED
    BY <2>1, ProcessStandsDown DEF Readers!Next
<1>2. CASE EnsureBaseIndexes
  BY <1>2, NothingSeen DEF EnsureBaseIndexes
<1>3. CASE DemotePreviousOwners
  BY <1>3, DemoteDeposes DEF Readers!Next
<1>4. CASE Tick
  BY <1>4, TickIsTick DEF Readers!Next
<1>5. ASSUME NEW p \in Goroutine,
             EnsureUser(p) \/ EnsureGroup(p) \/ Match(p) \/ DuplicateKey(p)
      PROVE  [Readers!Next]_Readers!directory
  BY <1>5, NothingSeen DEF EnsureUser, EnsureGroup, Match, DuplicateKey, store
<1>6. ASSUME NEW p \in Goroutine, Modify(p) \/ Insert(p)
      PROVE  [Readers!Next]_Readers!directory
  BY <1>6, WriteIsSeen
<1>7. ASSUME NEW p \in Goroutine, CallFails(p)
      PROVE  [Readers!Next]_Readers!directory
  <2>1. CASE p = Main
    <3>1. UNCHANGED <<users, groups, now>> /\ phase' # "ready"
      BY <1>7, <2>1 DEF CallFails, Down, store
    <3> QED
      BY <3>1, ProcessStandsDown DEF Readers!Next
  <2>2. CASE p # Main
    BY <1>7, <2>2, NothingSeen DEF CallFails, store
  <2> QED
    BY <2>1, <2>2
<1>8. CASE UNCHANGED vars
  BY <1>8, NothingSeen DEF vars
<1> QED
  BY <1>1, <1>2, <1>3, <1>4, <1>5, <1>6, <1>7, <1>8 DEF Next, Upsert

-----------------------------------------------------------------------------
(* The theorem.                                                            *)

\* However upserts, failures, crashes and restarts interleave on the server,
\* what readers of users and groups see is a directory: each id is met once
\* and for all by a process that serves, and the role of owner changes hands in
\* two strokes with nobody served in between.
THEOREM ImplementsDirectory == Spec => KeepsDirectory
<1>1. Init => IInv /\ Dated /\ Readers!Init
  BY InitIInv, InitDated, InitIsEmpty
<1>2. IInv /\ Dated /\ [Next]_vars => IInv' /\ Dated' /\ [Readers!Next]_Readers!directory
  BY StepIInv, StepDated, StepIsSeen
<1> QED
  BY <1>1, <1>2, PTL DEF Spec, KeepsDirectory, Readers!Spec

=============================================================================
