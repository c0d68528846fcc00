---------------------------- MODULE SessionStore ----------------------------
(***************************************************************************)
(* EncryptedFileSessionStorage: the session is sealed into a temporary     *)
(* file of the session's directory, which is then renamed over the session *)
(* file; whatever happened, the temporary name is removed last.  Several   *)
(* goroutines, also of different processes (a login beside the running     *)
(* container), load and store at once, and any of them may be killed.      *)
(*                                                                         *)
(* A file is its inode; a name that is renamed or removed leaves readers   *)
(* of the old inode undisturbed.  os.CreateTemp never hands out a name     *)
(* that is in use, and its random names do not repeat; os.Remove of a      *)
(* temporary name works, and the machine does not lose power: nothing is   *)
(* fsynced, and the error of the deferred Remove is dropped.               *)
(***************************************************************************)
EXTENDS Naturals, Sequences

CONSTANTS
  Actor,
  Passphrase, Pass,  \* Pass[a]: the passphrase of actor a's process
  Data,              \* what gotd may store
  NoSession,
  MaxStores,         \* bound: StoreSession calls that create a file
  MaxLoads           \* bound: LoadSession calls that open a file

ASSUME SessionAssumption ==
  /\ Pass \in [Actor -> Passphrase]
  /\ NoSession \notin [pass : Passphrase, data : Data]
  /\ MaxStores \in Nat /\ MaxLoads \in Nat

VARIABLES
  file,    \* the inode at s.path, 0 for none
  body,    \* body[n]: what the n-th inode created holds
  temps,   \* the inodes under temporary names
  job,     \* job[a]: the call actor a is in
  answer,  \* answer[a]: what its last LoadSession returned
  killed,  \* the inodes of stores that were killed
  loads

vars == <<file, body, temps, job, answer, killed, loads>>

Inode  == DOMAIN body
Sealed == [pass : Passphrase, data : Data]
Body   == [sealed : Sealed, written : {"nothing", "part", "all"}]
PC     == {"idle", "write", "close", "rename", "remove", "decrypt"}
Job    == [pc : PC, inode : Nat]

\* "failed" says that the context was cancelled or the file could not be read,
\* "refused" that what was read is no session for this passphrase.
Result == [kind : {"none", "not_found", "failed", "refused"}] \cup [kind : {"ok"}, data : Data]

Idle    == [pc |-> "idle", inode |-> 0]
Mine(a) == body[job[a].inode]

Init ==
  /\ file = 0 /\ body = <<>> /\ temps = {}
  /\ job = [a \in Actor |-> Idle]
  /\ answer = [a \in Actor |-> [kind |-> "none"]]
  /\ killed = {} /\ loads = 0

Goto(a, pc)  == job' = [job EXCEPT ![a].pc = pc]
Answer(a, r) == answer' = [answer EXCEPT ![a] = r]

-----------------------------------------------------------------------------
(* StoreSession.  A cancelled context, and whatever else fails before the   *)
(* temporary file exists, changes nothing and is a stutter.                *)

CreateTemp(a) ==
  /\ job[a].pc = "idle" /\ Len(body) < MaxStores
  /\ \E d \in Data :
       body' = Append(body, [sealed |-> [pass |-> Pass[a], data |-> d], written |-> "nothing"])
  /\ temps' = temps \cup {Len(body) + 1}
  /\ job' = [job EXCEPT ![a] = [pc |-> "write", inode |-> Len(body) + 1]]
  /\ UNCHANGED <<file, answer, killed, loads>>

\* Slip: the rename comes before the write.
MutWrite(a) ==
  /\ job[a].pc = "write"
  /\ Goto(a, "rename")
  /\ UNCHANGED <<file, body, temps, answer, killed, loads>>

\* tmp.Write reaches the file piece by piece, and may fail after any.
Write(a) ==
  /\ job[a].pc = "write"
  /\ \/ /\ Mine(a).written = "nothing"
        /\ body' = [body EXCEPT ![job[a].inode].written = "part"]
        /\ UNCHANGED job
     \/ body' = [body EXCEPT ![job[a].inode].written = "all"] /\ Goto(a, "close")
     \/ Goto(a, "remove") /\ UNCHANGED body
  /\ UNCHANGED <<file, temps, answer, killed, loads>>

\* Chmod and Close: one of them may fail.
Close(a) ==
  /\ job[a].pc = "close"
  /\ \E pc \in {"rename", "remove"} : Goto(a, pc)
  /\ UNCHANGED <<file, body, temps, answer, killed, loads>>

Rename(a) ==
  /\ job[a].pc = "rename"
  /\ \/ file' = job[a].inode /\ temps' = temps \ {job[a].inode}
     \/ UNCHANGED <<file, temps>>
  /\ Goto(a, "remove")
  /\ UNCHANGED <<body, answer, killed, loads>>

\* Slip: the temporary file is removed only by a store that succeeded.
MutRemove(a) ==
  /\ job[a].pc = "remove"
  /\ job' = [job EXCEPT ![a] = Idle]
  /\ UNCHANGED <<file, body, temps, answer, killed, loads>>

\* The deferred os.Remove: after the rename there is nothing left to remove.
Remove(a) ==
  /\ job[a].pc = "remove"
  /\ temps' = temps \ {job[a].inode}
  /\ job' = [job EXCEPT ![a] = Idle]
  /\ UNCHANGED <<file, body, answer, killed, loads>>

-----------------------------------------------------------------------------
(* LoadSession.                                                            *)

\* Slip: a file that is not there is taken for one that can be read.
MutOpen(a) ==
  /\ job[a].pc = "idle" /\ loads < MaxLoads
  /\ loads' = loads + 1
  /\ job' = [job EXCEPT ![a] = [pc |-> "decrypt", inode |-> file]]
  /\ UNCHANGED <<answer, file, body, temps, killed>>

\* Slip: whatever keeps the file from being opened is taken for its absence.
MutReadFile(a) ==
  /\ job[a].pc = "idle" /\ loads < MaxLoads
  /\ loads' = loads + 1
  /\ \/ /\ file # 0
        /\ job' = [job EXCEPT ![a] = [pc |-> "decrypt", inode |-> file]]
        /\ UNCHANGED answer
     \/ Answer(a, [kind |-> "not_found"]) /\ UNCHANGED job
  /\ UNCHANGED <<file, body, temps, killed>>

\* The context is refused if it is cancelled, and os.ReadFile opens the file, does
\* not find it or fails in another way, whether it is there or not.
Open(a) ==
  /\ job[a].pc = "idle" /\ loads < MaxLoads
  /\ loads' = loads + 1
  /\ \/ /\ file # 0
        /\ job' = [job EXCEPT ![a] = [pc |-> "decrypt", inode |-> file]]
        /\ UNCHANGED answer
     \/ file = 0 /\ Answer(a, [kind |-> "not_found"]) /\ UNCHANGED job
     \/ Answer(a, [kind |-> "failed"]) /\ UNCHANGED job
  /\ UNCHANGED <<file, body, temps, killed>>

\* gcm.Open succeeds on a complete file sealed with the same passphrase.
Opens(a) == Mine(a).written = "all" /\ Mine(a).sealed.pass = Pass[a]

\* The opened inode is read, which may fail, parsed and decrypted.
Decrypt(a) ==
  /\ job[a].pc = "decrypt"
  /\ \/ Opens(a) /\ Answer(a, [kind |-> "ok", data |-> Mine(a).sealed.data])
     \/ ~Opens(a) /\ Answer(a, [kind |-> "refused"])
     \/ Answer(a, [kind |-> "failed"])
  /\ job' = [job EXCEPT ![a] = Idle]
  /\ UNCHANGED <<file, body, temps, killed, loads>>

-----------------------------------------------------------------------------
\* The process of the actor is killed: its call ends where it is.
Kill(a) ==
  /\ job[a].pc # "idle"
  /\ killed' = IF job[a].pc = "decrypt" THEN killed ELSE killed \cup {job[a].inode}
  /\ job' = [job EXCEPT ![a] = Idle]
  /\ UNCHANGED <<file, body, temps, answer, loads>>

Next ==
  \E a \in Actor :
    \/ CreateTemp(a) \/ Write(a) \/ Close(a) \/ Rename(a) \/ Remove(a)
    \/ Open(a) \/ Decrypt(a) \/ Kill(a)

Spec == Init /\ [][Next]_vars

-----------------------------------------------------------------------------
(* Properties.                                                             *)

\* Every file is an inode some call created, and every call is in one.
TypeOK ==
  /\ body \in Seq(Body)
  /\ file \in Inode \cup {0}
  /\ temps \subseteq Inode /\ killed \subseteq Inode
  /\ job \in [Actor -> Job]
  /\ \A a \in Actor : job[a].pc # "idle" => job[a].inode \in Inode
  /\ answer \in [Actor -> Result]
  /\ loads \in Nat

Writing == {"write", "close", "rename"}

\* Wherever stores overlap, fail or are killed, the session file is never the
\* half of a session, and never one that a store is still writing.
FileIsComplete ==
  file # 0 => /\ body[file].written = "all"
              /\ \A a \in Actor : job[a].inode = file => job[a].pc \notin Writing

\* Files left behind belong to a store under way or to one that was killed: a
\* store that returns, with or without an error, cleans up after itself.
OnlyKilledLeaveTemps ==
  \A n \in temps : n \in killed \/ \E a \in Actor :
                      job[a].inode = n /\ job[a].pc \in Writing \cup {"remove"}

\* The storage is a register: stores take effect at one stroke or not at all.
\* A load may fail at any time for reasons that lie outside, a cancelled context
\* or an unreadable file, and says so; otherwise its answer is true of the session
\* that was there when it opened the file: "not found" only if there was none,
\* "passphrase is invalid or file is corrupted" only if that session has another
\* passphrase, never because of a store, and else that session.
Content(n) == IF body[n].written = "all" THEN body[n].sealed ELSE [torn |-> n]

Register == INSTANCE SessionRegister WITH
  value <- IF file = 0 THEN NoSession ELSE Content(file),
  bound <- [a \in Actor |-> IF job[a].pc = "decrypt" THEN Content(job[a].inode) ELSE NoSession]

IsRegister == Register!Spec

=============================================================================
