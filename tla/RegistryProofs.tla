--------------------------- MODULE RegistryProofs ---------------------------
(***************************************************************************)
(* Proofs about Registry, for any number of users, chats, handler threads, *)
(* restarts and calls: its state keeps its type, no id ever has two        *)
(* documents, there are never two owners, while handlers run the           *)
(* configured owner is the owner on record, and what a document first said *)
(* of its creation, and a known title, are never lost.                     *)
(***************************************************************************)
EXTENDS Registry, SequenceTheorems, TLAPS

-----------------------------------------------------------------------------
(* The inductive invariant.  An insert cannot duplicate a key because the  *)
(* unique index is there before the first call, and a second owner cannot  *)
(* appear because the owner's upsert only runs when every other owner has  *)
(* been demoted and no handler is running.                                 *)

\* What a call writes to is what it matched.
CallOK(p) ==
  Busy(p) =>
    /\ call[p].op = "group" => call[p].key \in ChatID
    /\ call[p].op # "group" => call[p].key \in UserID
    /\ call[p].stage = "write" /\ call[p].found # 0 => call[p].found \in Places(call[p])

\* Who may be in a call, and when.
CallsFitPhase ==
  /\ \A p \in Goroutine : Busy(p) => phase \in {"bootstrap", "ready"}
  /\ \A p \in Thread : Busy(p) => phase = "ready" /\ call[p].op \in {"user", "group"}
  /\ Busy(Main) => phase = "bootstrap" /\ call[Main].op = "owner" /\ call[Main].key = owner
  /\ phase \in {"demote", "bootstrap", "ready"} => unique

OthersDemoted ==
  phase = "bootstrap" => \A i \in DOMAIN users :
                           users[i].role = RoleOwner => users[i].user_id = owner

IInv ==
  /\ TypeOK
  /\ \A p \in Goroutine : CallOK(p)
  /\ CallsFitPhase
  /\ OthersDemoted
  /\ OneDocumentEach
  /\ AtMostOneOwner
  /\ OwnerWhileReady

-----------------------------------------------------------------------------
(* Sequences of documents.                                                 *)

LEMMA Modified ==
  ASSUME NEW S, NEW s \in Seq(S), NEW i \in DOMAIN s, NEW d \in S
  PROVE  /\ [s EXCEPT ![i] = d] \in Seq(S)
         /\ DOMAIN [s EXCEPT ![i] = d] = DOMAIN s
         /\ [s EXCEPT ![i] = d][i] = d
         /\ \A j \in DOMAIN s : j # i => [s EXCEPT ![i] = d][j] = s[j]
<1>1. DOMAIN s = 1..Len(s)
  BY LenProperties
<1> QED
  BY <1>1, ExceptSeq

LEMMA Appended ==
  ASSUME NEW S, NEW s \in Seq(S), NEW d \in S
  PROVE  /\ Append(s, d) \in Seq(S)
         /\ DOMAIN s \subseteq DOMAIN Append(s, d)
         /\ \A j \in DOMAIN Append(s, d) :
              \/ j \in DOMAIN s /\ Append(s, d)[j] = s[j]
              \/ j = Len(s) + 1 /\ Append(s, d)[j] = d
         /\ Len(s) + 1 \in DOMAIN Append(s, d) /\ Append(s, d)[Len(s) + 1] = d
         /\ \A j \in DOMAIN s : Append(s, d)[j] = s[j]
<1>1. DOMAIN s = 1..Len(s) /\ Len(s) \in Nat
  BY LenProperties
<1>2. /\ Append(s, d) \in Seq(S) /\ Len(Append(s, d)) = Len(s) + 1
      /\ \A j \in 1..Len(s) : Append(s, d)[j] = s[j]
      /\ Append(s, d)[Len(s) + 1] = d
  BY AppendProperties
<1>3. DOMAIN Append(s, d) = 1..(Len(s) + 1)
  BY <1>2, LenProperties
<1> QED
  BY <1>1, <1>2, <1>3

\* Setting the fields of a document leaves its key and its type alone.
LEMMA SetUserKeeps ==
  ASSUME NEW d \in UserDoc, NEW k \in Call
  PROVE  /\ SetUser(d, k) \in UserDoc
         /\ SetUser(d, k).user_id = d.user_id
         /\ SetUser(d, k).role = IF k.op = "owner" THEN RoleOwner ELSE d.role
BY DEF SetUser, UserDoc, Call, RoleOwner

LEMMA SetGroupKeeps ==
  ASSUME NEW d \in GroupDoc, NEW k \in Call
  PROVE  SetGroup(d, k) \in GroupDoc /\ SetGroup(d, k).chat_id = d.chat_id
BY DEF SetGroup, GroupDoc, Call

LEMMA NewUserIs ==
  ASSUME NEW k \in Call, k.key \in UserID
  PROVE  /\ NewUser(k) \in UserDoc /\ NewUser(k).user_id = k.key
         /\ NewUser(k).role = IF k.op = "owner" THEN RoleOwner ELSE RoleUser
<1> DEFINE blank == [user_id |-> k.key, role |-> RoleUser, created_at |-> k.at,
                     updated_at |-> 0, last_seen_at |-> 0]
<1>1. blank \in UserDoc /\ blank.user_id = k.key /\ blank.role = RoleUser
  BY DEF UserDoc, Call, RoleUser
<1> HIDE DEF blank
<1>2. NewUser(k) = SetUser(blank, k)
  BY DEF NewUser, blank
<1> QED
  BY <1>1, <1>2, SetUserKeeps

LEMMA NewGroupIs ==
  ASSUME NEW k \in Call, k.key \in ChatID
  PROVE  NewGroup(k) \in GroupDoc /\ NewGroup(k).chat_id = k.key
<1> DEFINE blank == [chat_id |-> k.key, title |-> NoTitle, joined_at |-> k.at,
                     last_seen_at |-> 0]
<1>1. blank \in GroupDoc /\ blank.chat_id = k.key
  BY DEF GroupDoc, Call
<1> HIDE DEF blank
<1>2. NewGroup(k) = SetGroup(blank, k)
  BY DEF NewGroup, blank
<1> QED
  BY <1>1, <1>2, SetGroupKeeps

\* A document keeps its place and its key: what a call has found stays found.
LEMMA CallStaysOK ==
  ASSUME NEW p \in Goroutine, CallOK(p), call'[p] = call[p],
         \A i \in DOMAIN users : i \in DOMAIN users' /\ users'[i].user_id = users[i].user_id,
         \A i \in DOMAIN groups : i \in DOMAIN groups' /\ groups'[i].chat_id = groups[i].chat_id
  PROVE  CallOK(p)'
BY DEF CallOK, Busy, Places

LEMMA NoCallIsOK ==
  ASSUME NEW p \in Goroutine, call'[p] = NoCall
  PROVE  CallOK(p)' /\ ~Busy(p)'
BY DEF CallOK, Busy, NoCall

LEMMA NoCallType == NoCall \in Call
BY DEF NoCall, Call

-----------------------------------------------------------------------------
(* The steps of the process.                                               *)

LEMMA InitIInv == Init => IInv
<1> SUFFICES ASSUME Init PROVE IInv
  OBVIOUS
<1>1. TypeOK
  <2>1. users \in Seq(UserDoc) /\ groups \in Seq(GroupDoc)
    BY EmptySeq DEF Init
  <2>2. call \in [Goroutine -> Call]
    BY NoCallType DEF Init
  <2>3. unique \in BOOLEAN
    BY DEF Init
  <2>4. phase \in Phase /\ owner \in UserID /\ now \in Nat \ {0} /\ starts \in Nat /\ made \in Nat
    BY DEF Init, Phase
  <2> QED
    BY <2>1, <2>2, <2>3, <2>4 DEF TypeOK
<1>2. \A p \in Goroutine : CallOK(p) /\ ~Busy(p)
  BY DEF Init, CallOK, Busy, NoCall
<1>3. Main \in Goroutine /\ \A p \in Thread : p \in Goroutine
  BY DEF Goroutine
<1>4. DOMAIN users = {} /\ DOMAIN groups = {}
  BY DEF Init
<1> QED
  BY <1>1, <1>2, <1>3, <1>4 DEF IInv, Init, CallsFitPhase, OthersDemoted, OneDocumentEach,
     AtMostOneOwner, OwnerWhileReady

\* Steps that leave the collections alone: what is left to show of them.
LEMMA SameStore ==
  ASSUME IInv, UNCHANGED <<users, groups>>,
         (call \in [Goroutine -> Call])', (phase \in Phase)', (owner \in UserID)',
         (unique \in BOOLEAN)', (now \in Nat \ {0} /\ starts \in Nat /\ made \in Nat)',
         \A p \in Goroutine : CallOK(p)', CallsFitPhase', OthersDemoted', OwnerWhileReady'
  PROVE  IInv'
BY DEF IInv, TypeOK, OneDocumentEach, AtMostOneOwner

\* Ending the process forgets its calls and keeps the collections.
LEMMA DownStep ==
  ASSUME IInv, Down, UNCHANGED <<store, owner, now, starts, made>>
  PROVE  IInv'
<1>1. \A p \in Goroutine : CallOK(p)' /\ ~Busy(p)'
  BY NoCallIsOK DEF Down
<1>2. (call \in [Goroutine -> Call])'
  BY NoCallType DEF Down
<1>3. CallsFitPhase'
  BY <1>1 DEF CallsFitPhase, Goroutine, Down
<1> QED
  BY <1>1, <1>2, <1>3, SameStore
     DEF IInv, TypeOK, Down, store, OthersDemoted, OwnerWhileReady, Phase

\* Steps of the start of the process before its first write.
LEMMA StartStep ==
  ASSUME IInv, Start \/ EnsureBaseIndexes
  PROVE  IInv'
<1>1. \A p \in Goroutine : CallOK(p)' /\ ~Busy(p)' /\ ~Busy(p)
  <2>1. \A p \in Goroutine : ~Busy(p)
    BY DEF IInv, CallsFitPhase, Start, EnsureBaseIndexes
  <2> QED
    BY <2>1 DEF CallOK, Busy, Start, EnsureBaseIndexes
<1>2. CallsFitPhase'
  BY <1>1 DEF CallsFitPhase, Goroutine, Start, EnsureBaseIndexes
<1>3. /\ UNCHANGED <<users, groups, call, now, made>>
      /\ phase' \in {"indexes", "demote"} /\ (owner \in UserID)' /\ (starts \in Nat)'
  BY DEF IInv, TypeOK, Start, EnsureBaseIndexes, store
<1>5. (unique \in BOOLEAN)'
  <2>1. CASE Start
    BY <2>1 DEF Start, store, IInv, TypeOK
  <2>2. CASE EnsureBaseIndexes
    BY <2>2 DEF EnsureBaseIndexes
  <2> QED
    BY <2>1, <2>2
<1>4. OthersDemoted' /\ OwnerWhileReady'
  BY <1>3 DEF OthersDemoted, OwnerWhileReady
<1> QED
  BY <1>1, <1>2, <1>3, <1>4, <1>5, SameStore DEF IInv, TypeOK, Phase

\* The goroutine that issues a call is the only one whose call changes.
LEMMA IssueIs ==
  ASSUME TypeOK, NEW p \in Goroutine, NEW op \in {"owner", "user", "group"},
         NEW key \in UserID \cup ChatID, NEW title \in Title \cup {NoTitle},
         Issue(p, op, key, title)
  PROVE  /\ (call \in [Goroutine -> Call])'
         /\ call'[p].op = op /\ call'[p].key = key /\ call'[p].stage = "match"
         /\ \A q \in Goroutine \ {p} : call'[q] = call[q]
BY DEF Issue, TypeOK, Call

\* Demoting leaves no other owner, and no document loses its key.
LEMMA DemoteStep ==
  ASSUME IInv, DemotePreviousOwners
  PROVE  IInv'
<1>1. users \in Seq(UserDoc) /\ DOMAIN users = 1..Len(users) /\ now \in Nat /\ owner \in UserID
  BY LenProperties DEF IInv, TypeOK
<1>2. \A i \in DOMAIN users :
        /\ Demoted(users[i]) \in UserDoc /\ Demoted(users[i]).user_id = users[i].user_id
        /\ Demoted(users[i]).role = RoleOwner =>
             users[i].role = RoleOwner /\ users[i].user_id = owner
  <2> SUFFICES ASSUME NEW d \in UserDoc
               PROVE  /\ Demoted(d) \in UserDoc /\ Demoted(d).user_id = d.user_id
                      /\ Demoted(d).role = RoleOwner => d.role = RoleOwner /\ d.user_id = owner
    BY <1>1, ElementOfSeq
  <2> QED
    BY <1>1 DEF Demoted, UserDoc, RoleOwner, RoleAdmin
<1>3. /\ DOMAIN users' = DOMAIN users
      /\ \A i \in DOMAIN users : users'[i] = Demoted(users[i])
  BY DEF DemotePreviousOwners
<1>4. users' \in Seq(UserDoc)
  <2>1. users' \in [1..Len(users) -> UserDoc] /\ Len(users) \in Nat
    BY <1>1, <1>2, <1>3, LenProperties DEF DemotePreviousOwners
  <2> QED
    BY <2>1
<1>5. Main \in Goroutine /\ Issue(Main, "owner", owner, NoTitle)
  BY DEF DemotePreviousOwners, Goroutine
<1>6. /\ (call \in [Goroutine -> Call])'
      /\ call'[Main].op = "owner" /\ call'[Main].key = owner /\ call'[Main].stage = "match"
      /\ \A q \in Goroutine \ {Main} : call'[q] = call[q]
  BY <1>1, <1>5, IssueIs DEF IInv
<1>7. \A q \in Goroutine \ {Main} : ~Busy(q)'
  BY <1>6 DEF IInv, CallsFitPhase, DemotePreviousOwners, Busy
<1>8. \A q \in Goroutine : CallOK(q)'
  BY <1>1, <1>6, <1>7 DEF CallOK, DemotePreviousOwners
<1>9. CallsFitPhase'
  BY <1>6, <1>7, RegistryAssumption
     DEF IInv, CallsFitPhase, DemotePreviousOwners, Goroutine
<1>10. OthersDemoted' /\ OneDocumentEach' /\ AtMostOneOwner' /\ OwnerWhileReady'
  BY <1>2, <1>3 DEF IInv, OthersDemoted, OneDocumentEach, AtMostOneOwner, OwnerWhileReady,
     DemotePreviousOwners
<1> QED
  BY <1>4, <1>6, <1>8, <1>9, <1>10 DEF IInv, TypeOK, DemotePreviousOwners, Phase

\* A handler calls a registrar.
LEMMA EnsureStep ==
  ASSUME IInv, NEW p \in Goroutine, EnsureUser(p) \/ EnsureGroup(p)
  PROVE  IInv'
<1>1. PICK op \in {"user", "group"}, key \in UserID \cup ChatID, title \in Title \cup {NoTitle} :
        /\ Issue(p, op, key, title)
        /\ op = "group" => key \in ChatID
        /\ op = "user" => key \in UserID
  <2>1. CASE EnsureUser(p)
    <3>1. PICK u \in UserID : Issue(p, "user", u, NoTitle)
      BY <2>1 DEF EnsureUser
    <3> QED
      BY <3>1
  <2>2. CASE EnsureGroup(p)
    <3>1. PICK c \in ChatID, t \in Title \cup {NoTitle} : Issue(p, "group", c, t)
      BY <2>2 DEF EnsureGroup
    <3> QED
      BY <3>1
  <2> QED
    BY <2>1, <2>2
<1>2. /\ p \in Thread /\ phase = "ready" /\ made \in Nat
      /\ UNCHANGED <<users, groups, unique, phase, owner, now, starts>> /\ made' = made + 1
  BY DEF EnsureUser, EnsureGroup, store, IInv, TypeOK
<1>3. /\ (call \in [Goroutine -> Call])'
      /\ call'[p].op = op /\ call'[p].key = key /\ call'[p].stage = "match"
      /\ \A q \in Goroutine \ {p} : call'[q] = call[q]
  BY <1>1, IssueIs DEF IInv
<1>4. \A q \in Goroutine : CallOK(q)'
  <2>1. CallOK(p)'
    BY <1>1, <1>3 DEF CallOK
  <2>2. \A q \in Goroutine \ {p} : CallOK(q)'
    BY <1>2, <1>3, CallStaysOK DEF IInv
  <2> QED
    BY <2>1, <2>2
<1>5. CallsFitPhase'
  BY <1>2, <1>3, RegistryAssumption DEF IInv, CallsFitPhase, Busy, Goroutine
<1> QED
  BY <1>2, <1>3, <1>4, <1>5, SameStore DEF IInv, TypeOK, OthersDemoted, OwnerWhileReady

-----------------------------------------------------------------------------
(* The server's side.                                                      *)

\* Looking for a match, once more or for the first time, writes nothing.
LEMMA MatchStep ==
  ASSUME IInv, NEW p \in Goroutine, Match(p) \/ DuplicateKey(p)
  PROVE  IInv'
<1>1. call[p] \in Call /\ Busy(p) /\ DOMAIN users \subseteq Nat /\ DOMAIN groups \subseteq Nat
  BY LenProperties DEF IInv, TypeOK, Match, DuplicateKey
<1>2. UNCHANGED <<users, groups, unique, phase, owner, now, starts, made>>
  BY DEF Match, DuplicateKey, store
<1>3. \E i \in Nat, stage \in {"match", "write"} :
        /\ stage = "write" /\ i # 0 => i \in Places(call[p])
        /\ call' = [call EXCEPT ![p] = [call[p] EXCEPT !.found = i, !.stage = stage]]
  <2>1. CASE Match(p)
    <3>1. PICK i \in Places(call[p]) \cup {0} :
            call' = [call EXCEPT ![p].found = i, ![p].stage = "write"]
      BY <2>1 DEF Match
    <3>2. i \in Nat
      BY <1>1, <3>1 DEF Places
    <3> QED
      BY <1>1, <3>1, <3>2 DEF IInv, TypeOK
  <2>2. CASE DuplicateKey(p)
    <3>1. call[p].found \in Nat
          /\ [call[p] EXCEPT !.stage = "match"] =
             [call[p] EXCEPT !.found = call[p].found, !.stage = "match"]
      BY <1>1 DEF Call
    <3> QED
      BY <2>2, <3>1 DEF DuplicateKey, IInv, TypeOK
  <2> QED
    BY <2>1, <2>2
<1>4. PICK i \in Nat, stage \in {"match", "write"} :
        /\ stage = "write" /\ i # 0 => i \in Places(call[p])
        /\ call' = [call EXCEPT ![p] = [call[p] EXCEPT !.found = i, !.stage = stage]]
  BY <1>3
<1> DEFINE k == [call[p] EXCEPT !.found = i, !.stage = stage]
<1>5. k \in Call /\ k.op = call[p].op /\ k.key = call[p].key /\ k.found = i /\ k.stage = stage
  BY <1>1 DEF Call
<1>6. call' \in [Goroutine -> Call] /\ call'[p] = k /\ \A q \in Goroutine \ {p} : call'[q] = call[q]
  BY <1>4, <1>5 DEF IInv, TypeOK
<1> HIDE DEF k
<1>7. \A q \in Goroutine : Busy(q)' <=> Busy(q)
  BY <1>5, <1>6 DEF Busy
<1>8. \A q \in Goroutine : CallOK(q)'
  <2>1. CallOK(p)'
    <3>1. Places(call[p])' = Places(call[p])
      BY <1>2, <1>5, <1>6 DEF Places
    <3> QED
      BY <1>1, <1>4, <1>5, <1>6, <3>1 DEF IInv, CallOK
  <2>2. \A q \in Goroutine \ {p} : CallOK(q)'
    BY <1>2, <1>6, CallStaysOK DEF IInv
  <2> QED
    BY <2>1, <2>2
<1>9. CallsFitPhase'
  BY <1>2, <1>5, <1>6, <1>7 DEF IInv, CallsFitPhase, Goroutine
<1> QED
  BY <1>2, <1>6, <1>8, <1>9, SameStore DEF IInv, TypeOK, OthersDemoted, OwnerWhileReady

\* Whoever returns, its call is over and the calls of the others go on: they
\* are handlers of a process that is ready, or there are none.
LEMMA ReturnLeaves ==
  ASSUME IInv, NEW p \in Goroutine, Busy(p), Return(p),
         UNCHANGED <<unique, owner>>,
         \A i \in DOMAIN users : i \in DOMAIN users' /\ users'[i].user_id = users[i].user_id,
         \A i \in DOMAIN groups : i \in DOMAIN groups' /\ groups'[i].chat_id = groups[i].chat_id
  PROVE  /\ (call \in [Goroutine -> Call])' /\ phase' = "ready"
         /\ \A q \in Goroutine : CallOK(q)'
         /\ CallsFitPhase' /\ OthersDemoted'
<1>1. call' \in [Goroutine -> Call] /\ call'[p] = NoCall /\ \A q \in Goroutine \ {p} : call'[q] = call[q]
  BY NoCallType DEF Return, IInv, TypeOK
<1>2. phase' = "ready"
  BY DEF Return, IInv, CallsFitPhase, Goroutine
<1>3. \A q \in Goroutine : CallOK(q)'
  BY <1>1, NoCallIsOK, CallStaysOK DEF IInv
<1>4. CallsFitPhase'
  <2>1. unique' /\ ~Busy(p)'
    BY <1>1, NoCallIsOK DEF IInv, CallsFitPhase
  <2>2. \A q \in Goroutine \ {p} : Busy(q)' => Busy(q) /\ call'[q] = call[q]
    BY <1>1 DEF Busy
  <2>3. \A q \in Thread : Busy(q)' => phase' = "ready" /\ call'[q].op \in {"user", "group"}
    BY <1>2, <2>1, <2>2 DEF IInv, CallsFitPhase, Goroutine
  <2>4. ~Busy(Main)'
    <3>1. CASE p = Main
      BY <2>1, <3>1
    <3>2. CASE p \in Thread
      <4>1. ~Busy(Main)
        BY <3>2 DEF IInv, CallsFitPhase
      <4> QED
        BY <2>2, <3>2, <4>1, RegistryAssumption DEF Goroutine
    <3> QED
      BY <3>1, <3>2 DEF Goroutine
  <2> QED
    BY <1>2, <2>1, <2>3, <2>4 DEF CallsFitPhase, Goroutine
<1> QED
  BY <1>1, <1>2, <1>3, <1>4 DEF OthersDemoted

\* What a write to users does to the owners: the owner's upsert makes the
\* configured owner one, a handler's makes nobody one.
LEMMA OwnersAfter ==
  ASSUME IInv, NEW p \in Goroutine, Busy(p), phase' = "ready", owner' = owner,
         NEW j \in DOMAIN users', users'[j].user_id = call[p].key,
         \A i \in DOMAIN users' \ {j} :
           i \in DOMAIN users /\ users'[i] = users[i] /\ users[i].user_id # call[p].key,
         \A i \in DOMAIN users : i \in DOMAIN users',
         call[p].op = "owner" => users'[j].role = RoleOwner,
         call[p].op = "user" =>
           IF j \in DOMAIN users
           THEN users[j].user_id = call[p].key /\ users'[j].role = users[j].role
           ELSE users'[j].role # RoleOwner,
         call[p].op # "group"
  PROVE  AtMostOneOwner' /\ OwnerWhileReady'
<1>1. call[p].op \in {"owner", "user"}
  BY DEF IInv, TypeOK, Call, Busy
<1>2. CASE call[p].op = "owner"
  <2>1. p = Main
    BY <1>2 DEF IInv, CallsFitPhase, Goroutine
  <2>2. phase = "bootstrap" /\ call[p].key = owner
    BY <2>1 DEF IInv, CallsFitPhase
  <2>3. \A i \in DOMAIN users' \ {j} : users'[i].role # RoleOwner
    BY <2>2 DEF IInv, OthersDemoted
  <2> QED
    BY <1>2, <2>2, <2>3 DEF AtMostOneOwner, OwnerWhileReady
<1>3. CASE call[p].op = "user"
  <2>1. phase = "ready"
    BY <1>3 DEF IInv, CallsFitPhase, Goroutine
  <2>2. \A i \in DOMAIN users' : users'[i].role = RoleOwner =>
          i \in DOMAIN users /\ users[i].role = RoleOwner
    BY <1>3
  <2>3. \A i \in DOMAIN users : users[i].role = RoleOwner =>
          users'[i].role = RoleOwner /\ users'[i].user_id = users[i].user_id
    BY <1>3
  <2>4. AtMostOneOwner'
    BY <2>2 DEF IInv, AtMostOneOwner
  <2> QED
    BY <2>1, <2>3, <2>4 DEF IInv, OwnerWhileReady
<1> QED
  BY <1>1, <1>2, <1>3

LEMMA ModifyStep ==
  ASSUME IInv, NEW p \in Goroutine, Modify(p)
  PROVE  IInv'
<1> DEFINE k == call[p]
<1>1. k \in Call /\ Busy(p) /\ k.stage = "write" /\ k.found # 0 /\ Return(p)
      /\ UNCHANGED <<unique, owner, now, starts, made>>
  BY DEF IInv, TypeOK, Modify
<1>2. k.found \in Places(k)
  BY <1>1 DEF IInv, CallOK
<1>3. users \in Seq(UserDoc) /\ groups \in Seq(GroupDoc)
  BY DEF IInv, TypeOK
<1>4. CASE k.op = "group"
  <2>1. /\ users' = users
        /\ groups' = [groups EXCEPT ![k.found] = SetGroup(groups[k.found], k)]
    BY <1>4 DEF Modify
  <2>2. /\ k.found \in DOMAIN groups /\ groups[k.found] \in GroupDoc
    BY <1>2, <1>3, <1>4, LenProperties, ElementOfSeq DEF Places
  <2>3. /\ groups' \in Seq(GroupDoc) /\ DOMAIN groups' = DOMAIN groups
        /\ \A i \in DOMAIN groups : groups'[i].chat_id = groups[i].chat_id
    BY <1>1, <1>3, <2>1, <2>2, SetGroupKeeps, Modified
  <2>4. /\ (call \in [Goroutine -> Call])' /\ phase' = "ready"
        /\ \A q \in Goroutine : CallOK(q)' /\ CallsFitPhase' /\ OthersDemoted'
    BY <1>1, <2>1, <2>3, ReturnLeaves
  <2>5. phase = "ready"
    BY <1>1, <1>4 DEF IInv, CallsFitPhase, Goroutine
  <2> QED
    BY <1>1, <1>3, <2>1, <2>3, <2>4, <2>5
       DEF IInv, TypeOK, OneDocumentEach, AtMostOneOwner, OwnerWhileReady
<1>5. CASE k.op # "group"
  <2>1. /\ groups' = groups
        /\ users' = [users EXCEPT ![k.found] = SetUser(users[k.found], k)]
    BY <1>5 DEF Modify
  <2>2. /\ k.found \in DOMAIN users /\ users[k.found] \in UserDoc
        /\ users[k.found].user_id = k.key
    BY <1>2, <1>3, <1>5, LenProperties, ElementOfSeq DEF Places
  <2>3. /\ users' \in Seq(UserDoc) /\ DOMAIN users' = DOMAIN users
        /\ users'[k.found] = SetUser(users[k.found], k)
        /\ \A i \in DOMAIN users : i # k.found => users'[i] = users[i]
        /\ \A i \in DOMAIN users : users'[i].user_id = users[i].user_id
    BY <1>1, <1>3, <2>1, <2>2, SetUserKeeps, Modified
  <2>4. /\ (call \in [Goroutine -> Call])' /\ phase' = "ready"
        /\ \A q \in Goroutine : CallOK(q)' /\ CallsFitPhase' /\ OthersDemoted'
    BY <1>1, <2>1, <2>3, ReturnLeaves
  <2>5. OneDocumentEach'
    BY <2>1, <2>3 DEF IInv, OneDocumentEach
  <2>6. AtMostOneOwner' /\ OwnerWhileReady'
    <3>1. users'[k.found].role = IF k.op = "owner" THEN RoleOwner ELSE users[k.found].role
      BY <1>1, <2>2, <2>3, SetUserKeeps
    <3>2. \A i \in DOMAIN users : i # k.found => users[i].user_id # k.key
      BY <2>2 DEF IInv, OneDocumentEach
    <3> QED
      BY <1>1, <1>5, <2>2, <2>3, <2>4, <3>1, <3>2, OwnersAfter
  <2> QED
    BY <1>1, <1>3, <2>1, <2>3, <2>4, <2>5, <2>6 DEF IInv, TypeOK, Phase
<1> QED
  BY <1>4, <1>5

LEMMA InsertStep ==
  ASSUME IInv, NEW p \in Goroutine, Insert(p)
  PROVE  IInv'
<1> DEFINE k == call[p]
<1>1. k \in Call /\ Busy(p) /\ Return(p) /\ UNCHANGED <<unique, owner, now, starts, made>>
  BY DEF IInv, TypeOK, Insert
<1>2. Places(k) = {}
  BY <1>1 DEF IInv, CallsFitPhase, Insert
<1>3. users \in Seq(UserDoc) /\ groups \in Seq(GroupDoc)
  BY DEF IInv, TypeOK
<1>4. CASE k.op = "group"
  <2>1. users' = users /\ groups' = Append(groups, NewGroup(k))
    BY <1>4 DEF Insert
  <2>2. NewGroup(k) \in GroupDoc /\ NewGroup(k).chat_id = k.key
    BY <1>1, <1>4, NewGroupIs DEF IInv, CallOK
  <2>3. /\ groups' \in Seq(GroupDoc) /\ DOMAIN groups \subseteq DOMAIN groups'
        /\ \A i \in DOMAIN groups : groups'[i] = groups[i]
        /\ \A i \in DOMAIN groups' :
             \/ i \in DOMAIN groups /\ groups'[i] = groups[i]
             \/ i = Len(groups) + 1 /\ groups'[i] = NewGroup(k)
    BY <1>3, <2>1, <2>2, Appended
  <2>4. /\ (call \in [Goroutine -> Call])' /\ phase' = "ready"
        /\ \A q \in Goroutine : CallOK(q)' /\ CallsFitPhase' /\ OthersDemoted'
    BY <1>1, <2>1, <2>3, ReturnLeaves
  <2>5. phase = "ready"
    BY <1>1, <1>4 DEF IInv, CallsFitPhase, Goroutine
  <2>6. \A i \in DOMAIN groups : groups[i].chat_id # k.key
    BY <1>2, <1>4 DEF Places
  <2>7. OneDocumentEach'
    BY <2>1, <2>2, <2>3, <2>6 DEF IInv, OneDocumentEach
  <2> QED
    BY <1>1, <1>3, <2>1, <2>3, <2>4, <2>5, <2>7
       DEF IInv, TypeOK, AtMostOneOwner, OwnerWhileReady
<1>5. CASE k.op # "group"
  <2>1. groups' = groups /\ users' = Append(users, NewUser(k))
    BY <1>5 DEF Insert
  <2>2. /\ NewUser(k) \in UserDoc /\ NewUser(k).user_id = k.key
        /\ NewUser(k).role = IF k.op = "owner" THEN RoleOwner ELSE RoleUser
    BY <1>1, <1>5, NewUserIs DEF IInv, CallOK
  <2> DEFINE j == Len(users) + 1
  <2>3. /\ users' \in Seq(UserDoc) /\ DOMAIN users \subseteq DOMAIN users'
        /\ \A i \in DOMAIN users : users'[i] = users[i]
        /\ \A i \in DOMAIN users' :
             \/ i \in DOMAIN users /\ users'[i] = users[i]
             \/ i = j /\ users'[i] = NewUser(k)
        /\ j \in DOMAIN users' /\ users'[j] = NewUser(k)
    BY <1>3, <2>1, <2>2, Appended
  <2>4. /\ (call \in [Goroutine -> Call])' /\ phase' = "ready"
        /\ \A q \in Goroutine : CallOK(q)' /\ CallsFitPhase' /\ OthersDemoted'
    BY <1>1, <2>1, <2>3, ReturnLeaves
  <2>5. \A i \in DOMAIN users : users[i].user_id # k.key
    BY <1>2, <1>5 DEF Places
  <2>6. OneDocumentEach'
    BY <2>1, <2>2, <2>3, <2>5 DEF IInv, OneDocumentEach
  <2>7. AtMostOneOwner' /\ OwnerWhileReady'
    <3>1. j \notin DOMAIN users
      BY <1>3, LenProperties
    <3>2. k.op = "user" => users'[j].role # RoleOwner
      BY <2>2, <2>3 DEF RoleUser, RoleOwner
    <3> HIDE DEF j
    <3> QED
      BY <1>1, <1>5, <2>2, <2>3, <2>4, <2>5, <3>1, <3>2, OwnersAfter
  <2> QED
    BY <1>1, <1>3, <2>1, <2>3, <2>4, <2>6, <2>7 DEF IInv, TypeOK, Phase
<1> QED
  BY <1>4, <1>5

LEMMA CallFailsStep ==
  ASSUME IInv, NEW p \in Goroutine, CallFails(p)
  PROVE  IInv'
<1>1. CASE p = Main
  BY <1>1, DownStep DEF CallFails
<1>2. CASE p # Main
  <2>1. /\ call' = [call EXCEPT ![p] = NoCall] /\ p \in Thread
        /\ UNCHANGED <<users, groups, unique, phase, owner, now, starts, made>>
    BY <1>2 DEF CallFails, store, Goroutine
  <2>2. call' \in [Goroutine -> Call] /\ call'[p] = NoCall /\ \A q \in Goroutine \ {p} : call'[q] = call[q]
    BY <2>1, NoCallType DEF IInv, TypeOK
  <2>3. \A q \in Goroutine : CallOK(q)'
    BY <2>1, <2>2, NoCallIsOK, CallStaysOK DEF IInv
  <2>4. \A q \in Goroutine : Busy(q)' => Busy(q) /\ call'[q] = call[q]
    BY <2>2, NoCallIsOK DEF Busy
  <2>5. CallsFitPhase'
    BY <2>1, <2>4 DEF IInv, CallsFitPhase, Goroutine
  <2> QED
    BY <2>1, <2>2, <2>3, <2>5, SameStore DEF IInv, TypeOK, OthersDemoted, OwnerWhileReady
<1> QED
  BY <1>1, <1>2

LEMMA TickStep ==
  ASSUME IInv, Tick
  PROVE  IInv'
<1>1. UNCHANGED <<users, groups, unique, phase, owner, call, starts, made>> /\ (now \in Nat \ {0})'
  BY DEF Tick, store, IInv, TypeOK
<1>2. \A q \in Goroutine : CallOK(q)'
  BY <1>1, CallStaysOK DEF IInv
<1>3. CallsFitPhase'
  BY <1>1 DEF IInv, CallsFitPhase, Busy
<1> QED
  BY <1>1, <1>2, <1>3, SameStore DEF IInv, TypeOK, OthersDemoted, OwnerWhileReady

-----------------------------------------------------------------------------
(* The theorems.                                                           *)

LEMMA StepIInv == IInv /\ [Next]_vars => IInv'
<1> SUFFICES ASSUME IInv, [Next]_vars PROVE IInv'
  OBVIOUS
<1>1. CASE Start \/ EnsureBaseIndexes
  BY <1>1, StartStep
<1>2. CASE DemotePreviousOwners
  BY <1>2, DemoteStep
<1>3. CASE Crash
  BY <1>3, DownStep DEF Crash
<1>4. CASE Tick
  BY <1>4, TickStep
<1>5. CASE \E p \in Goroutine : EnsureUser(p) \/ EnsureGroup(p) \/ Upsert(p) \/ CallFails(p)
  BY <1>5, EnsureStep, MatchStep, ModifyStep, InsertStep, CallFailsStep DEF Upsert
<1>6. CASE UNCHANGED vars
  <2>1. \A q \in Goroutine : CallOK(q)'
    BY <1>6, CallStaysOK DEF vars, IInv
  <2> QED
    BY <1>6, <2>1 DEF vars, IInv, TypeOK, CallsFitPhase, Busy, OthersDemoted, OneDocumentEach,
       AtMostOneOwner, OwnerWhileReady
<1> QED
  BY <1>1, <1>2, <1>3, <1>4, <1>5, <1>6 DEF Next

\* The inductive invariant holds in every reachable state.
THEOREM Invariant == Spec => []IInv
BY InitIInv, StepIInv, PTL DEF Spec

\* Documents, calls and counters keep their types under any interleaving of
\* registrar calls, crashes and restarts.
THEOREM TypeCorrect == Spec => []TypeOK
<1>1. IInv => TypeOK
  BY DEF IInv
<1> QED
  BY <1>1, Invariant, PTL

\* No user and no chat ever has two documents, whatever number of upserts of
\* the same id the server interleaves.
THEOREM NoDuplicates == Spec => []OneDocumentEach
<1>1. IInv => OneDocumentEach
  BY DEF IInv
<1> QED
  BY <1>1, Invariant, PTL

\* There are never two owners, although EnsureOwner is two separate writes, the
\* process may die between them and the configured owner may change.
THEOREM NeverTwoOwners == Spec => []AtMostOneOwner
<1>1. IInv => AtMostOneOwner
  BY DEF IInv
<1> QED
  BY <1>1, Invariant, PTL

\* While handlers run the configured owner has the role on record, whatever the
\* handlers register.
THEOREM OwnerOnRecord == Spec => []OwnerWhileReady
<1>1. IInv => OwnerWhileReady
  BY DEF IInv
<1> QED
  BY <1>1, Invariant, PTL

-----------------------------------------------------------------------------
(* What no step may do to a document.                                      *)

\* A step of the process or of a caller writes to no group, and to a user only
\* to demote it; a step of the server modifies or appends one document.
UsersKept ==
  \A i \in DOMAIN users :
    /\ i \in DOMAIN users'
    /\ users'[i].user_id = users[i].user_id
    /\ users'[i].created_at = users[i].created_at

GroupsKept ==
  \A i \in DOMAIN groups :
    /\ i \in DOMAIN groups'
    /\ groups'[i].chat_id = groups[i].chat_id
    /\ groups'[i].joined_at = groups[i].joined_at
    /\ groups[i].title # NoTitle => groups'[i].title # NoTitle

\* The $set parts tell neither the time of creation nor an empty title.
LEMMA SetTells ==
  ASSUME NEW k \in Call
  PROVE  /\ \A d \in UserDoc : /\ SetUser(d, k).user_id = d.user_id
                               /\ SetUser(d, k).created_at = d.created_at
         /\ \A d \in GroupDoc : /\ SetGroup(d, k).chat_id = d.chat_id
                                /\ SetGroup(d, k).joined_at = d.joined_at
                                /\ d.title # NoTitle => SetGroup(d, k).title # NoTitle
BY DEF SetUser, SetGroup, UserDoc, GroupDoc, Call

\* Demoting an owner changes its role and the time of the change.
LEMMA DemoteKeeps ==
  ASSUME IInv, DemotePreviousOwners
  PROVE  UsersKept
<1>1. \A d \in UserDoc : /\ Demoted(d).user_id = d.user_id
                         /\ Demoted(d).created_at = d.created_at
  BY DEF Demoted, UserDoc
<1>2. \A i \in DOMAIN users : users[i] \in UserDoc
  BY LenProperties, ElementOfSeq DEF IInv, TypeOK
<1>3. /\ DOMAIN users' = DOMAIN users
      /\ \A i \in DOMAIN users : users'[i] = Demoted(users[i])
  BY DEF DemotePreviousOwners
<1> QED
  BY <1>1, <1>2, <1>3 DEF UsersKept

LEMMA ModifyKeeps ==
  ASSUME IInv, NEW p \in Goroutine, Modify(p)
  PROVE  UsersKept /\ GroupsKept
<1> DEFINE k == call[p]
<1>1. k \in Call /\ k.found \in Places(k)
  BY DEF IInv, TypeOK, CallOK, Modify
<1>2. users \in Seq(UserDoc) /\ groups \in Seq(GroupDoc)
  BY DEF IInv, TypeOK
<1>3. CASE k.op = "group"
  <2>1. users' = users /\ groups' = [groups EXCEPT ![k.found] = SetGroup(groups[k.found], k)]
    BY <1>3 DEF Modify
  <2>2. k.found \in DOMAIN groups /\ groups[k.found] \in GroupDoc
    BY <1>1, <1>2, <1>3, LenProperties, ElementOfSeq DEF Places
  <2>3. /\ DOMAIN groups' = DOMAIN groups
        /\ groups'[k.found] = SetGroup(groups[k.found], k)
        /\ \A i \in DOMAIN groups : i # k.found => groups'[i] = groups[i]
    BY <2>1, <2>2
  <2> QED
    BY <1>1, <2>1, <2>2, <2>3, SetTells DEF UsersKept, GroupsKept
<1>4. CASE k.op # "group"
  <2>1. groups' = groups /\ users' = [users EXCEPT ![k.found] = SetUser(users[k.found], k)]
    BY <1>4 DEF Modify
  <2>2. k.found \in DOMAIN users /\ users[k.found] \in UserDoc
    BY <1>1, <1>2, <1>4, LenProperties, ElementOfSeq DEF Places
  <2>3. /\ DOMAIN users' = DOMAIN users
        /\ users'[k.found] = SetUser(users[k.found], k)
        /\ \A i \in DOMAIN users : i # k.found => users'[i] = users[i]
    BY <2>1, <2>2
  <2> QED
    BY <1>1, <2>1, <2>2, <2>3, SetTells DEF UsersKept, GroupsKept
<1> QED
  BY <1>3, <1>4

LEMMA InsertKeeps ==
  ASSUME IInv, NEW p \in Goroutine, Insert(p)
  PROVE  UsersKept /\ GroupsKept
<1> DEFINE k == call[p]
<1>1. k \in Call /\ users \in Seq(UserDoc) /\ groups \in Seq(GroupDoc) /\ CallOK(p) /\ Busy(p)
  BY DEF IInv, TypeOK, Insert
<1>2. CASE k.op = "group"
  <2>1. users' = users /\ groups' = Append(groups, NewGroup(k)) /\ NewGroup(k) \in GroupDoc
    BY <1>1, <1>2, NewGroupIs DEF Insert, CallOK
  <2>2. DOMAIN groups \subseteq DOMAIN groups' /\ \A i \in DOMAIN groups : groups'[i] = groups[i]
    BY <1>1, <2>1, Appended
  <2> QED
    BY <2>1, <2>2 DEF UsersKept, GroupsKept
<1>3. CASE k.op # "group"
  <2>1. groups' = groups /\ users' = Append(users, NewUser(k)) /\ NewUser(k) \in UserDoc
    BY <1>1, <1>3, NewUserIs DEF Insert, CallOK
  <2>2. DOMAIN users \subseteq DOMAIN users' /\ \A i \in DOMAIN users : users'[i] = users[i]
    BY <1>1, <2>1, Appended
  <2> QED
    BY <2>1, <2>2 DEF UsersKept, GroupsKept
<1> QED
  BY <1>2, <1>3

LEMMA EveryStepKeeps ==
  ASSUME IInv, [Next]_vars
  PROVE  UsersKept /\ GroupsKept
<1>1. CASE UNCHANGED <<users, groups>>
  BY <1>1 DEF UsersKept, GroupsKept
<1>2. CASE DemotePreviousOwners
  BY <1>2, DemoteKeeps DEF DemotePreviousOwners, GroupsKept
<1>3. CASE \E p \in Goroutine : Modify(p) \/ Insert(p)
  BY <1>3, ModifyKeeps, InsertKeeps
<1>4. Start \/ EnsureBaseIndexes \/ Crash \/ Tick => UNCHANGED <<users, groups>>
  BY DEF Start, EnsureBaseIndexes, Crash, Tick, store
<1>5. \A p \in Goroutine :
        EnsureUser(p) \/ EnsureGroup(p) \/ Match(p) \/ DuplicateKey(p) \/ CallFails(p)
        => UNCHANGED <<users, groups>>
  BY DEF EnsureUser, EnsureGroup, Match, DuplicateKey, CallFails, store
<1> QED
  BY <1>1, <1>2, <1>3, <1>4, <1>5 DEF Next, Upsert, vars

\* However registrars, restarts and failures interleave, no document is ever
\* deleted or moved, and its id and time of creation are never rewritten.
THEOREM HistoryIsKept == Spec => FirstSightIsKept
<1>1. IInv /\ [Next]_vars =>
        [/\ \A i \in DOMAIN users :
              /\ i \in DOMAIN users'
              /\ users'[i].user_id = users[i].user_id
              /\ users'[i].created_at = users[i].created_at
         /\ \A i \in DOMAIN groups :
              /\ i \in DOMAIN groups'
              /\ groups'[i].chat_id = groups[i].chat_id
              /\ groups'[i].joined_at = groups[i].joined_at]_vars
  BY EveryStepKeeps DEF UsersKept, GroupsKept
<1> QED
  BY <1>1, Invariant, PTL DEF Spec, FirstSightIsKept

\* An update that comes without the chat's entity never erases a known title,
\* whatever other updates of the chat are in flight.
THEOREM TitlesStay == Spec => TitleIsKept
<1>1. IInv /\ [Next]_vars =>
        [\A i \in DOMAIN groups :
           groups[i].title # NoTitle => groups'[i].title # NoTitle]_vars
  BY EveryStepKeeps DEF GroupsKept
<1> QED
  BY <1>1, Invariant, PTL DEF Spec, TitleIsKept

=============================================================================
