------------------------------ MODULE Directory ------------------------------
(***************************************************************************)
(* What the registrars promise to those who read the two collections, with *)
(* no server, no upsert and no call that may fail half way: every user and *)
(* chat is met once, at one stroke, is never forgotten, and keeps the time *)
(* of that meeting.  The role of owner is handed over in two strokes, with *)
(* nobody served in between, and nobody is met but by a process that has   *)
(* its owner on record.                                                    *)
(***************************************************************************)
EXTENDS Naturals

CONSTANTS UserID, ChatID, Title, NoTitle

VARIABLES
  people,   \* people[u]: the role of user u, and since when it is known
  chats,    \* chats[c]: the title of chat c, and since when it is known
  owner,    \* who is configured as the owner
  serving,  \* handlers run
  now       \* the clock

directory == <<people, chats, owner, serving, now>>

\* A user, or a chat, that has not been met is known since 0.
Stranger == [role |-> "none", since |-> 0]
Unseen   == [title |-> NoTitle, since |-> 0]

Init ==
  /\ people = [u \in UserID |-> Stranger] /\ chats = [c \in ChatID |-> Unseen]
  /\ owner \in UserID /\ serving = FALSE /\ now = 1

Tick == now' = now + 1 /\ UNCHANGED <<people, chats, owner, serving>>

\* The process ends or starts, and the next may be configured otherwise.
StandDown ==
  /\ serving' = FALSE /\ owner' \in UserID
  /\ UNCHANGED <<people, chats, now>>

\* Every owner but the configured one becomes an admin.
Depose ==
  /\ ~serving
  /\ people' = [u \in UserID |-> IF people[u].role = "owner" /\ u # owner
                                 THEN [people[u] EXCEPT !.role = "admin"] ELSE people[u]]
  /\ UNCHANGED <<chats, owner, serving, now>>

\* Where nobody else is owner, the configured user becomes it and is served.
Crown ==
  /\ ~serving /\ serving' = TRUE
  /\ \A u \in UserID : people[u].role = "owner" => u = owner
  /\ \E t \in 1..now :
       people' = [people EXCEPT ![owner] =
         [role |-> "owner", since |-> IF @ = Stranger THEN t ELSE @.since]]
  /\ UNCHANGED <<chats, owner, now>>

MeetUser(u) ==
  /\ serving /\ people[u] = Stranger
  /\ \E t \in 1..now : people' = [people EXCEPT ![u] = [role |-> "user", since |-> t]]
  /\ UNCHANGED <<chats, owner, serving, now>>

MeetChat(c) ==
  /\ serving /\ chats[c] = Unseen
  /\ \E t \in 1..now, name \in Title \cup {NoTitle} :
       chats' = [chats EXCEPT ![c] = [title |-> name, since |-> t]]
  /\ UNCHANGED <<people, owner, serving, now>>

\* A chat that is known has a title, perhaps another one than before.
Name(c) ==
  /\ serving /\ chats[c] # Unseen
  /\ \E name \in Title : chats' = [chats EXCEPT ![c].title = name]
  /\ UNCHANGED <<people, owner, serving, now>>

Next ==
  \/ Tick \/ StandDown \/ Depose \/ Crown
  \/ \E u \in UserID : MeetUser(u)
  \/ \E c \in ChatID : MeetChat(c) \/ Name(c)

Spec == Init /\ [][Next]_directory

=============================================================================
