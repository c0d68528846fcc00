------------------------- MODULE SessionStoreProofs -------------------------
(***************************************************************************)
(* Proofs about SessionStore, for any number of processes, passphrases,    *)
(* sessions, stores and loads: its state keeps its type, the session file  *)
(* is always complete, only killed stores leave temporary files behind,    *)
(* and the storage implements the register of SessionRegister.             *)
(***************************************************************************)
EXTENDS SessionStore, SequenceTheorems, TLAPS

-----------------------------------------------------------------------------
(* The inductive invariant.  An inode is written by the one store that     *)
(* created it and reaches the session's path, and so a reader, only after  *)
(* that store has written all of it and stopped writing.                   *)

\* A store that is not done has its inode for itself.
StoreOK(a) ==
  job[a].pc \in Writing =>
    /\ job[a].inode # file
    /\ \A b \in Actor \ {a} : job[b].pc # "idle" => job[b].inode # job[a].inode

\* What is about to be renamed, or has been opened, is complete.
CallOK(a) ==
  job[a].pc \in {"close", "rename", "decrypt"} => body[job[a].inode].written = "all"

FileOK == file # 0 => body[file].written = "all"

IInv ==
  /\ TypeOK
  /\ \A a \in Actor : StoreOK(a)
  /\ \A a \in Actor : CallOK(a)
  /\ FileOK
  /\ OnlyKilledLeaveTemps

-----------------------------------------------------------------------------
(* Lemmas.                                                                 *)

LEMMA Bodies ==
  ASSUME TypeOK
  PROVE  /\ Inode = 1..Len(body) /\ Len(body) \in Nat
         /\ \A n \in Inode : body[n] \in Body
<1>1. body \in Seq(Body)
  BY DEF TypeOK
<1>2. Inode = 1..Len(body) /\ Len(body) \in Nat
  BY <1>1, LenProperties DEF Inode
<1>3. \A n \in 1..Len(body) : body[n] \in Body
  BY <1>1, ElementOfSeq
<1> QED
  BY <1>2, <1>3

LEMMA JobsDiffer ==
  ASSUME TypeOK, NEW a \in Actor, NEW j, job' = [job EXCEPT ![a] = j]
  PROVE  job'[a] = j /\ \A b \in Actor \ {a} : job'[b] = job[b]
BY DEF TypeOK

LEMMA PCChanges ==
  ASSUME TypeOK, NEW a \in Actor, NEW pc \in PC, Goto(a, pc)
  PROVE  /\ job' \in [Actor -> Job]
         /\ job'[a].pc = pc /\ job'[a].inode = job[a].inode
         /\ \A b \in Actor \ {a} : job'[b] = job[b]
BY DEF TypeOK, Goto, Job

LEMMA GoesIdle ==
  ASSUME TypeOK, NEW a \in Actor, job' = [job EXCEPT ![a] = Idle]
  PROVE  /\ job' \in [Actor -> Job]
         /\ job'[a].pc = "idle"
         /\ \A b \in Actor \ {a} : job'[b] = job[b]
BY DEF TypeOK, Idle, Job, PC

LEMMA Answered ==
  ASSUME TypeOK, NEW a \in Actor, NEW r \in Result, Answer(a, r)
  PROVE  answer' \in [Actor -> Result]
BY DEF TypeOK, Answer

LEMMA InitIInv == Init => IInv
<1> SUFFICES ASSUME Init PROVE IInv
  OBVIOUS
<1> USE DEF Init
<1>1. body \in Seq(Body) /\ Inode = {}
  BY EmptySeq DEF Inode
<1>2. job \in [Actor -> Job] /\ \A a \in Actor : job[a].pc = "idle"
  BY DEF Idle, Job, PC
<1>3. answer \in [Actor -> Result]
  BY DEF Result
<1>4. TypeOK
  BY <1>1, <1>2, <1>3 DEF TypeOK
<1> QED
  BY <1>2, <1>4 DEF IInv, StoreOK, CallOK, FileOK, OnlyKilledLeaveTemps, Writing

-----------------------------------------------------------------------------
(* One lemma per action of an actor.                                       *)

LEMMA CreateTempStep ==
  ASSUME SessionAssumption, IInv, NEW a \in Actor, CreateTemp(a)
  PROVE  IInv'
<1> DEFINE n == Len(body) + 1
<1>0. TypeOK /\ Inode = 1..Len(body) /\ Len(body) \in Nat
  BY Bodies DEF IInv
<1>1. PICK d \in Data : body' = Append(body, [sealed |-> [pass |-> Pass[a], data |-> d],
                                               written |-> "nothing"])
  BY DEF CreateTemp
<1> DEFINE new == [sealed |-> [pass |-> Pass[a], data |-> d], written |-> "nothing"]
<1>2. new \in Body
  BY DEF Body, Sealed, SessionAssumption
<1>3. /\ body' \in Seq(Body) /\ Len(body') = n
      /\ \A i \in Inode : body'[i] = body[i]
  BY <1>0, <1>1, <1>2, AppendProperties DEF TypeOK
<1>4. Inode' = 1..n /\ n \notin Inode /\ n \in Inode' /\ Inode \subseteq Inode'
  BY <1>0, <1>3, LenProperties DEF Inode
<1>5. /\ job'[a] = [pc |-> "write", inode |-> n]
      /\ \A b \in Actor \ {a} : job'[b] = job[b]
      /\ job' \in [Actor -> Job]
  BY <1>0 DEF CreateTemp, TypeOK, Job, PC
<1>6. file' = file /\ answer' = answer /\ killed' = killed /\ loads' = loads
      /\ temps' = temps \cup {n} /\ job[a].pc = "idle"
  BY DEF CreateTemp
<1> HIDE DEF n, new
<1>7. TypeOK'
  <2>1. \A b \in Actor : job'[b].pc # "idle" => job'[b].inode \in Inode'
    BY <1>0, <1>4, <1>5 DEF TypeOK
  <2>2. file' \in Inode' \cup {0} /\ temps' \subseteq Inode' /\ killed' \subseteq Inode'
    BY <1>0, <1>4, <1>6 DEF TypeOK
  <2> QED
    BY <1>0, <1>3, <1>5, <1>6, <2>1, <2>2 DEF TypeOK
<1>8. \A b \in Actor : StoreOK(b)'
  BY <1>0, <1>4, <1>5, <1>6 DEF IInv, TypeOK, StoreOK, Writing
<1>9. \A b \in Actor : CallOK(b)'
  BY <1>0, <1>3, <1>5 DEF IInv, TypeOK, CallOK
<1>10. FileOK'
  BY <1>0, <1>3, <1>6 DEF IInv, TypeOK, FileOK
<1>11. OnlyKilledLeaveTemps'
  BY <1>5, <1>6 DEF IInv, OnlyKilledLeaveTemps, Writing
<1> QED
  BY <1>7, <1>8, <1>9, <1>10, <1>11 DEF IInv

\* A store changes how much of its own inode is written, or nothing.
LEMMA Written ==
  ASSUME TypeOK, NEW n \in Inode, NEW w \in {"part", "all"},
         body' = [body EXCEPT ![n].written = w]
  PROVE  /\ body' \in Seq(Body) /\ Inode' = Inode
         /\ body'[n].written = w
         /\ \A i \in Inode \ {n} : body'[i] = body[i]
<1>1. Inode = 1..Len(body) /\ body[n] \in Body
  BY Bodies
<1>2. [body[n] EXCEPT !.written = w] \in Body
  BY <1>1 DEF Body
<1>3. body' = [body EXCEPT ![n] = [body[n] EXCEPT !.written = w]]
  OBVIOUS
<1>4. body' \in Seq(Body) /\ Inode' = Inode
  BY <1>1, <1>2, <1>3, ExceptSeq DEF TypeOK, Inode
<1>5. body'[n] = [body[n] EXCEPT !.written = w]
  BY <1>3 DEF Inode
<1>6. body'[n].written = w
  BY <1>1, <1>5 DEF Body
<1> QED
  BY <1>3, <1>4, <1>6 DEF Inode

LEMMA WriteStep ==
  ASSUME IInv, NEW a \in Actor, Write(a)
  PROVE  IInv'
<1> DEFINE n == job[a].inode
<1>0. TypeOK /\ n \in Inode /\ job[a].pc = "write"
  BY DEF IInv, TypeOK, Write
<1>1. file' = file /\ temps' = temps /\ answer' = answer /\ killed' = killed /\ loads' = loads
  BY DEF Write
<1>2. /\ n # file
      /\ \A b \in Actor \ {a} : job[b].pc # "idle" => job[b].inode # n
  BY <1>0 DEF IInv, StoreOK, Writing
<1>3. CASE body' = [body EXCEPT ![n].written = "part"] /\ job' = job
  <2>1. /\ body' \in Seq(Body) /\ Inode' = Inode
        /\ \A i \in Inode \ {n} : body'[i] = body[i]
    BY <1>0, <1>3, Written
  <2> HIDE DEF n
  <2>2. TypeOK'
    BY <1>0, <1>1, <1>3, <2>1 DEF TypeOK
  <2>3. \A b \in Actor : StoreOK(b)'
    BY <1>1, <1>3 DEF IInv, StoreOK
  <2>4. \A b \in Actor : CallOK(b)'
    BY <1>0, <1>2, <1>3, <2>1 DEF IInv, CallOK, TypeOK
  <2>5. FileOK' /\ OnlyKilledLeaveTemps'
    BY <1>0, <1>1, <1>2, <1>3, <2>1 DEF IInv, FileOK, TypeOK, OnlyKilledLeaveTemps
  <2> QED
    BY <2>2, <2>3, <2>4, <2>5 DEF IInv
<1>4. CASE body' = [body EXCEPT ![n].written = "all"] /\ Goto(a, "close")
  <2>1. /\ body' \in Seq(Body) /\ Inode' = Inode /\ body'[n].written = "all"
        /\ \A i \in Inode \ {n} : body'[i] = body[i]
    BY <1>0, <1>4, Written
  <2>2. /\ job' \in [Actor -> Job] /\ job'[a].pc = "close" /\ job'[a].inode = n
        /\ \A b \in Actor \ {a} : job'[b] = job[b]
    BY <1>0, <1>4, PCChanges DEF PC
  <2>3. TypeOK'
    BY <1>0, <1>1, <2>1, <2>2 DEF TypeOK
  <2>4. \A b \in Actor : StoreOK(b)'
    BY <1>0, <1>1, <1>2, <2>2 DEF IInv, StoreOK, Writing
  <2>5. \A b \in Actor : CallOK(b)'
    BY <1>0, <1>2, <2>1, <2>2 DEF IInv, CallOK, TypeOK
  <2>6. FileOK'
    BY <1>0, <1>1, <1>2, <2>1 DEF IInv, FileOK, TypeOK
  <2>7. OnlyKilledLeaveTemps'
    BY <1>0, <1>1, <2>2 DEF IInv, OnlyKilledLeaveTemps, Writing
  <2> QED
    BY <2>3, <2>4, <2>5, <2>6, <2>7 DEF IInv
<1>5. CASE Goto(a, "remove") /\ body' = body
  <2>1. /\ job' \in [Actor -> Job] /\ job'[a].pc = "remove" /\ job'[a].inode = n
        /\ \A b \in Actor \ {a} : job'[b] = job[b]
    BY <1>0, <1>5, PCChanges DEF PC
  <2>2. TypeOK'
    BY <1>0, <1>1, <1>5, <2>1 DEF TypeOK, Inode
  <2>3. \A b \in Actor : StoreOK(b)' /\ CallOK(b)'
    BY <1>0, <1>1, <1>2, <1>5, <2>1 DEF IInv, StoreOK, CallOK, Writing
  <2>4. FileOK' /\ OnlyKilledLeaveTemps'
    BY <1>0, <1>1, <1>5, <2>1 DEF IInv, FileOK, OnlyKilledLeaveTemps, Writing
  <2> QED
    BY <2>2, <2>3, <2>4 DEF IInv
<1> QED
  BY <1>3, <1>4, <1>5 DEF Write

LEMMA CloseStep ==
  ASSUME IInv, NEW a \in Actor, Close(a)
  PROVE  IInv'
<1> DEFINE n == job[a].inode
<1>0. TypeOK /\ job[a].pc = "close"
  BY DEF IInv, Close
<1>1. UNCHANGED <<file, body, temps, answer, killed, loads>>
  BY DEF Close
<1>2. PICK pc \in {"rename", "remove"} : Goto(a, pc)
  BY DEF Close
<1>3. /\ job' \in [Actor -> Job] /\ job'[a].pc = pc /\ job'[a].inode = n
      /\ \A b \in Actor \ {a} : job'[b] = job[b]
  BY <1>0, <1>2, PCChanges DEF PC
<1>4. TypeOK'
  BY <1>0, <1>1, <1>3 DEF TypeOK, Inode
<1>5. \A b \in Actor : StoreOK(b)'
  BY <1>0, <1>1, <1>3 DEF IInv, StoreOK, Writing
<1>6. \A b \in Actor : CallOK(b)'
  BY <1>0, <1>1, <1>3 DEF IInv, CallOK
<1>7. FileOK' /\ OnlyKilledLeaveTemps'
  BY <1>0, <1>1, <1>3 DEF IInv, FileOK, OnlyKilledLeaveTemps, Writing
<1> QED
  BY <1>4, <1>5, <1>6, <1>7 DEF IInv

LEMMA RenameStep ==
  ASSUME IInv, NEW a \in Actor, Rename(a)
  PROVE  IInv'
<1> DEFINE n == job[a].inode
<1>0. TypeOK /\ n \in Inode /\ job[a].pc = "rename"
  BY DEF IInv, TypeOK, Rename
<1>1. UNCHANGED <<body, answer, killed, loads>>
      /\ file' \in {file, n} /\ temps' \in {temps, temps \ {n}}
  BY DEF Rename
<1>2. /\ job' \in [Actor -> Job] /\ job'[a].pc = "remove" /\ job'[a].inode = n
      /\ \A b \in Actor \ {a} : job'[b] = job[b]
  BY <1>0, PCChanges DEF PC, Rename
<1>3. /\ \A b \in Actor \ {a} : job[b].pc # "idle" => job[b].inode # n
      /\ body[n].written = "all"
  BY <1>0 DEF IInv, StoreOK, CallOK, Writing
<1>4. TypeOK'
  BY <1>0, <1>1, <1>2 DEF TypeOK, Inode
<1>5. \A b \in Actor : StoreOK(b)'
  BY <1>0, <1>1, <1>2, <1>3 DEF IInv, StoreOK, Writing
<1>6. \A b \in Actor : CallOK(b)'
  BY <1>1, <1>2 DEF IInv, CallOK
<1>7. FileOK'
  BY <1>1, <1>3 DEF IInv, FileOK
<1>8. OnlyKilledLeaveTemps'
  BY <1>0, <1>1, <1>2 DEF IInv, OnlyKilledLeaveTemps, Writing
<1> QED
  BY <1>4, <1>5, <1>6, <1>7, <1>8 DEF IInv

\* Remove, Decrypt and Kill end the call.
LEMMA CallEnds ==
  ASSUME IInv, NEW a \in Actor, job' = [job EXCEPT ![a] = Idle],
         UNCHANGED <<file, body>>
  PROVE  /\ \A b \in Actor : StoreOK(b)'
         /\ \A b \in Actor : CallOK(b)'
         /\ FileOK'
<1>1. /\ job'[a].pc = "idle"
      /\ \A b \in Actor \ {a} : job'[b] = job[b]
  BY GoesIdle DEF IInv
<1>2. \A b \in Actor : StoreOK(b)'
  BY <1>1 DEF IInv, StoreOK, Writing
<1>3. \A b \in Actor : CallOK(b)'
  BY <1>1 DEF IInv, CallOK
<1> QED
  BY <1>2, <1>3 DEF IInv, FileOK

LEMMA RemoveStep ==
  ASSUME IInv, NEW a \in Actor, Remove(a)
  PROVE  IInv'
<1>0. TypeOK /\ job[a].pc = "remove"
  BY DEF IInv, Remove
<1>1. /\ temps' = temps \ {job[a].inode} /\ job' = [job EXCEPT ![a] = Idle]
      /\ UNCHANGED <<file, body, answer, killed, loads>>
  BY DEF Remove
<1>2. /\ job' \in [Actor -> Job] /\ job'[a].pc = "idle"
      /\ \A b \in Actor \ {a} : job'[b] = job[b]
  BY <1>0, <1>1, GoesIdle
<1>3. TypeOK'
  BY <1>0, <1>1, <1>2 DEF TypeOK, Inode
<1>4. OnlyKilledLeaveTemps'
  BY <1>1, <1>2 DEF IInv, OnlyKilledLeaveTemps
<1> QED
  BY <1>1, <1>3, <1>4, CallEnds DEF IInv

LEMMA OpenStep ==
  ASSUME IInv, NEW a \in Actor, Open(a)
  PROVE  IInv'
<1>0. TypeOK /\ job[a].pc = "idle"
  BY DEF IInv, Open
<1>1. UNCHANGED <<file, body, temps, killed>> /\ loads' = loads + 1
  BY DEF Open
<1>2. CASE job' = job /\ answer' \in [Actor -> Result]
  <2>1. TypeOK'
    BY <1>0, <1>1, <1>2 DEF TypeOK, Inode
  <2> QED
    BY <1>1, <1>2, <2>1 DEF IInv, StoreOK, CallOK, FileOK, OnlyKilledLeaveTemps
<1>3. CASE file # 0 /\ job' = [job EXCEPT ![a] = [pc |-> "decrypt", inode |-> file]]
           /\ answer' = answer
  <2>1. file \in Inode /\ file \in Nat
    BY <1>0, <1>3, Bodies DEF TypeOK
  <2>2. /\ job' \in [Actor -> Job]
        /\ job'[a].pc = "decrypt" /\ job'[a].inode = file
        /\ \A b \in Actor \ {a} : job'[b] = job[b]
    BY <1>0, <1>3, <2>1 DEF TypeOK, Job, PC
  <2>3. TypeOK'
    BY <1>0, <1>1, <1>3, <2>1, <2>2 DEF TypeOK, Inode
  <2>4. \A b \in Actor : StoreOK(b)'
    BY <1>0, <1>1, <2>2 DEF IInv, StoreOK, Writing
  <2>5. \A b \in Actor : CallOK(b)'
    BY <1>1, <1>3, <2>2 DEF IInv, CallOK, FileOK
  <2>6. FileOK' /\ OnlyKilledLeaveTemps'
    BY <1>0, <1>1, <2>2 DEF IInv, FileOK, OnlyKilledLeaveTemps, Writing
  <2> QED
    BY <2>3, <2>4, <2>5, <2>6 DEF IInv
<1>4. \A r \in Result : Answer(a, r) => answer' \in [Actor -> Result]
  BY <1>0, Answered
<1>5. [kind |-> "not_found"] \in Result /\ [kind |-> "failed"] \in Result
  BY DEF Result
<1> QED
  BY <1>2, <1>3, <1>4, <1>5 DEF Open

LEMMA DecryptStep ==
  ASSUME IInv, NEW a \in Actor, Decrypt(a)
  PROVE  IInv'
<1>0. TypeOK /\ job[a].pc = "decrypt" /\ job[a].inode \in Inode
  BY DEF IInv, Decrypt, TypeOK
<1>1. /\ job' = [job EXCEPT ![a] = Idle]
      /\ UNCHANGED <<file, body, temps, killed, loads>>
  BY DEF Decrypt
<1>2. /\ job' \in [Actor -> Job] /\ job'[a].pc = "idle"
      /\ \A b \in Actor \ {a} : job'[b] = job[b]
  BY <1>0, <1>1, GoesIdle
<1>3. Mine(a).sealed.data \in Data
  BY <1>0, Bodies DEF Mine, Body, Sealed
<1>4. answer' \in [Actor -> Result]
  <2>1. /\ [kind |-> "ok", data |-> Mine(a).sealed.data] \in Result
        /\ [kind |-> "refused"] \in Result /\ [kind |-> "failed"] \in Result
    BY <1>3 DEF Result
  <2> QED
    BY <1>0, <2>1, Answered DEF Decrypt
<1>5. TypeOK'
  BY <1>0, <1>1, <1>2, <1>4 DEF TypeOK, Inode
<1>6. OnlyKilledLeaveTemps'
  BY <1>0, <1>1, <1>2 DEF IInv, OnlyKilledLeaveTemps, Writing
<1> QED
  BY <1>1, <1>5, <1>6, CallEnds DEF IInv

LEMMA KillStep ==
  ASSUME IInv, NEW a \in Actor, Kill(a)
  PROVE  IInv'
<1>0. TypeOK /\ job[a].pc # "idle" /\ job[a].inode \in Inode
  BY DEF IInv, Kill, TypeOK
<1>1. /\ job' = [job EXCEPT ![a] = Idle]
      /\ UNCHANGED <<file, body, temps, answer, loads>>
      /\ killed' = IF job[a].pc = "decrypt" THEN killed ELSE killed \cup {job[a].inode}
  BY DEF Kill
<1>2. /\ job' \in [Actor -> Job] /\ job'[a].pc = "idle"
      /\ \A b \in Actor \ {a} : job'[b] = job[b]
  BY <1>0, <1>1, GoesIdle
<1>3. TypeOK'
  BY <1>0, <1>1, <1>2 DEF TypeOK, Inode
<1>4. OnlyKilledLeaveTemps'
  BY <1>1, <1>2 DEF IInv, OnlyKilledLeaveTemps, Writing
<1> QED
  BY <1>1, <1>3, <1>4, CallEnds DEF IInv

LEMMA StepIInv ==
  ASSUME SessionAssumption, IInv, [Next]_vars
  PROVE  IInv'
<1>1. CASE UNCHANGED vars
  BY <1>1 DEF vars, IInv, TypeOK, Inode, StoreOK, CallOK, FileOK, OnlyKilledLeaveTemps
<1>2. CASE Next
  <2>1. PICK a \in Actor :
          \/ CreateTemp(a) \/ Write(a) \/ Close(a) \/ Rename(a) \/ Remove(a)
          \/ Open(a) \/ Decrypt(a) \/ Kill(a)
    BY <1>2 DEF Next
  <2> QED
    BY <2>1, CreateTempStep, WriteStep, CloseStep, RenameStep, RemoveStep,
       OpenStep, DecryptStep, KillStep
<1> QED
  BY <1>1, <1>2

\* The inductive invariant holds of the specification.
THEOREM Invariant == Spec => []IInv
<1>1. Init => IInv
  BY InitIInv
<1>2. IInv /\ [Next]_vars => IInv'
  BY SessionAssumption, StepIInv
<1> QED
  BY <1>1, <1>2, PTL DEF Spec

-----------------------------------------------------------------------------
(* Its consequences.                                                       *)

\* The state keeps its type: every call in flight is about an existing inode.
THEOREM TypeCorrect == Spec => []TypeOK
<1>1. IInv => TypeOK
  BY DEF IInv
<1> QED
  BY <1>1, Invariant, PTL

\* No overlap, failure or kill of stores leaves half a session at the path.
THEOREM NeverHalfASession == Spec => []FileIsComplete
<1>1. IInv => FileIsComplete
  BY DEF IInv, FileOK, StoreOK, FileIsComplete
<1> QED
  BY <1>1, Invariant, PTL

\* A store that returns leaves no temporary file behind.
THEOREM StoresCleanUp == Spec => []OnlyKilledLeaveTemps
<1>1. IInv => OnlyKilledLeaveTemps
  BY DEF IInv
<1> QED
  BY <1>1, Invariant, PTL

-----------------------------------------------------------------------------
(* The refinement: a store is the register's at its Rename, a load is bound *)
(* to the register's value or fails at its Open, is answered or fails at   *)
(* its Decrypt, and all else is a stutter.                                 *)

value == IF file = 0 THEN NoSession ELSE Content(file)
bound == [a \in Actor |-> IF job[a].pc = "decrypt" THEN Content(job[a].inode) ELSE NoSession]

LEMMA InitRegister == Init => Register!Init
BY DEF Init, Register!Init, Idle

\* A step that changes neither the path, nor the loads, nor any complete inode
\* is a stutter of the register.
LEMMA Stutters ==
  ASSUME IInv, UNCHANGED <<file, answer>>,
         \A n \in Inode : body[n].written = "all" => Content(n)' = Content(n),
         \A a \in Actor :
           /\ job[a].pc = "decrypt" <=> job'[a].pc = "decrypt"
           /\ job[a].pc = "decrypt" => job'[a].inode = job[a].inode
  PROVE  UNCHANGED <<value, bound, answer>>
<1>1. value' = value
  BY DEF value, IInv, TypeOK, FileOK
<1>2. \A a \in Actor : (IF job[a].pc = "decrypt" THEN Content(job[a].inode) ELSE NoSession)'
                       = IF job[a].pc = "decrypt" THEN Content(job[a].inode) ELSE NoSession
  BY DEF IInv, TypeOK, CallOK, Content
<1>3. bound' = bound
  BY <1>2 DEF bound
<1> QED
  BY <1>1, <1>3

\* What the register is told a load in flight is bound to.
LEMMA BoundIs ==
  ASSUME IInv, NEW a \in Actor, job[a].pc = "decrypt"
  PROVE  /\ bound[a] = Mine(a).sealed /\ bound[a] \in Sealed
         /\ Mine(a).written = "all"
<1>1. job[a].inode \in Inode /\ Mine(a).written = "all"
  BY DEF IInv, TypeOK, CallOK, Mine
<1>2. Mine(a) \in Body
  BY <1>1, Bodies DEF IInv, Mine
<1> QED
  BY <1>1, <1>2 DEF bound, Content, Mine, Body

LEMMA QuietStep ==
  ASSUME SessionAssumption, IInv, NEW a \in Actor,
         CreateTemp(a) \/ Write(a) \/ Close(a) \/ Remove(a)
  PROVE  UNCHANGED <<value, bound, answer>>
<1> USE DEF IInv
<1>1. CASE CreateTemp(a)
  <2>1. \A n \in Inode : body'[n] = body[n]
    BY <1>1, Bodies, AppendProperties DEF CreateTemp, TypeOK
  <2>2. \A b \in Actor : /\ job[b].pc = "decrypt" <=> job'[b].pc = "decrypt"
                         /\ job[b].pc = "decrypt" => job'[b].inode = job[b].inode
    BY <1>1, JobsDiffer DEF CreateTemp
  <2> QED
    BY <1>1, <2>1, <2>2, Stutters DEF CreateTemp, Content
<1>2. CASE Write(a)
  <2>1. job[a].inode \in Inode
    BY <1>2 DEF Write, TypeOK
  <2>2. \A n \in Inode : body[n].written = "all" => body'[n] = body[n]
    BY <1>2, <2>1, Bodies DEF Write, Mine, Body
  <2>3. \A b \in Actor : /\ job[b].pc = "decrypt" <=> job'[b].pc = "decrypt"
                         /\ job[b].pc = "decrypt" => job'[b].inode = job[b].inode
    BY <1>2, PCChanges DEF Write, PC
  <2> QED
    BY <1>2, <2>2, <2>3, Stutters DEF Write, Content
<1>3. CASE Close(a)
  <2>1. \A b \in Actor : /\ job[b].pc = "decrypt" <=> job'[b].pc = "decrypt"
                         /\ job[b].pc = "decrypt" => job'[b].inode = job[b].inode
    BY <1>3, PCChanges DEF Close, PC
  <2> QED
    BY <1>3, <2>1, Stutters DEF Close, Content
<1>4. CASE Remove(a)
  <2>1. \A b \in Actor : /\ job[b].pc = "decrypt" <=> job'[b].pc = "decrypt"
                         /\ job[b].pc = "decrypt" => job'[b].inode = job[b].inode
    BY <1>4, GoesIdle DEF Remove
  <2> QED
    BY <1>4, <2>1, Stutters DEF Remove, Content
<1> QED
  BY <1>1, <1>2, <1>3, <1>4

LEMMA RenameIsStore ==
  ASSUME IInv, NEW a \in Actor, Rename(a)
  PROVE  Register!StoreSession \/ UNCHANGED <<value, bound, answer>>
<1>0. TypeOK /\ job[a].inode \in Inode /\ Mine(a).written = "all" /\ Mine(a) \in Body
  BY Bodies DEF IInv, TypeOK, Rename, CallOK, Mine
<1>1. body' = body /\ answer' = answer
  BY DEF Rename
<1>2. \A b \in Actor : /\ job[b].pc = "decrypt" <=> job'[b].pc = "decrypt"
                       /\ job[b].pc = "decrypt" => job'[b].inode = job[b].inode
  BY <1>0, PCChanges DEF Rename, PC
<1>3. bound' = bound
  BY <1>1, <1>2 DEF bound, Content
<1>4. CASE file' = file
  BY <1>1, <1>3, <1>4 DEF value, Content
<1>5. CASE file' = job[a].inode
  <2>1. file' # 0
    BY <1>0, <1>5, Bodies
  <2>2. value' = Mine(a).sealed
    BY <1>0, <1>1, <1>5, <2>1 DEF value, Content, Mine
  <2>3. value' \in Sealed
    BY <1>0, <2>2 DEF Body
  <2> QED
    BY <1>1, <1>3, <2>3 DEF Register!StoreSession, value, bound
<1> QED
  BY <1>4, <1>5 DEF Rename

LEMMA OpenIsLoad ==
  ASSUME IInv, NEW a \in Actor, Open(a)
  PROVE  Register!NotFound(a) \/ Register!LoadSession(a) \/ Register!Fail(a)
<1>0. TypeOK
  BY DEF IInv
<1>1. UNCHANGED <<file, body>> /\ value' = value
  BY DEF Open, value, Content
<1>2. CASE file = 0 /\ Answer(a, [kind |-> "not_found"]) /\ job' = job
  <2>1. bound' = bound /\ value = NoSession
    BY <1>1, <1>2 DEF bound, value, Content
  <2> QED
    BY <1>1, <1>2, <2>1 DEF Register!NotFound, Answer, value, bound
<1>3. CASE Answer(a, [kind |-> "failed"]) /\ job' = job
  <2>1. bound[a] = NoSession
    BY DEF Open, bound
  <2>2. bound' = bound /\ bound = [bound EXCEPT ![a] = NoSession]
    BY <1>1, <1>3, <2>1 DEF bound, Content
  <2> QED
    BY <1>1, <1>3, <2>2 DEF Register!Fail, Answer, value, bound
<1>4. CASE file # 0 /\ job' = [job EXCEPT ![a] = [pc |-> "decrypt", inode |-> file]]
           /\ answer' = answer
  <2>1. job'[a] = [pc |-> "decrypt", inode |-> file] /\ \A b \in Actor \ {a} : job'[b] = job[b]
    BY <1>0, <1>4, JobsDiffer
  <2>2. \A b \in Actor : bound'[b] = IF b = a THEN value ELSE bound[b]
    BY <1>1, <1>4, <2>1 DEF bound, value, Content
  <2>3. bound' = [bound EXCEPT ![a] = value]
    BY <2>2 DEF bound
  <2> QED
    BY <1>1, <1>4, <2>3 DEF Register!LoadSession, value, bound
<1> QED
  BY <1>2, <1>3, <1>4 DEF Open

\* A load that is over is bound to nothing any more.
LEMMA Unbound ==
  ASSUME IInv, NEW a \in Actor, job' = [job EXCEPT ![a] = Idle], UNCHANGED <<file, body>>
  PROVE  value' = value /\ bound' = [bound EXCEPT ![a] = NoSession]
<1>1. job'[a].pc = "idle" /\ \A b \in Actor \ {a} : job'[b] = job[b]
  BY GoesIdle DEF IInv
<1>2. \A b \in Actor : bound'[b] = IF b = a THEN NoSession ELSE bound[b]
  BY <1>1 DEF bound, Content
<1>3. bound' = [bound EXCEPT ![a] = NoSession]
  BY <1>2 DEF bound
<1> QED
  BY <1>3 DEF value, Content

LEMMA DecryptIsReply ==
  ASSUME IInv, NEW a \in Actor, Decrypt(a)
  PROVE  Register!Reply(a) \/ Register!Fail(a)
<1>1. bound[a] = Mine(a).sealed /\ bound[a] \in Sealed /\ Mine(a).written = "all"
  BY BoundIs DEF Decrypt
<1>2. value' = value /\ bound' = [bound EXCEPT ![a] = NoSession]
  BY Unbound DEF Decrypt
<1>3. CASE Answer(a, [kind |-> "failed"])
  BY <1>2, <1>3 DEF Register!Fail, Answer, value, bound
<1>4. CASE \/ Opens(a) /\ Answer(a, [kind |-> "ok", data |-> Mine(a).sealed.data])
           \/ ~Opens(a) /\ Answer(a, [kind |-> "refused"])
  <2>1. answer' = [answer EXCEPT ![a] =
          IF bound[a].pass = Pass[a] THEN [kind |-> "ok", data |-> bound[a].data]
                                     ELSE [kind |-> "refused"]]
    BY <1>1, <1>4 DEF Answer, Opens
  <2> QED
    BY <1>1, <1>2, <2>1 DEF Register!Reply, value, bound
<1> QED
  BY <1>3, <1>4 DEF Decrypt

LEMMA KillIsForget ==
  ASSUME IInv, NEW a \in Actor, Kill(a)
  PROVE  Register!Forget(a)
<1>1. value' = value /\ bound' = [bound EXCEPT ![a] = NoSession]
  BY Unbound DEF Kill
<1> QED
  BY <1>1 DEF Register!Forget, Kill, value, bound

LEMMA RegisterStep ==
  ASSUME SessionAssumption, IInv, [Next]_vars
  PROVE  [Register!Next]_(Register!register)
<1>1. CASE UNCHANGED vars
  BY <1>1 DEF vars, Register!register, Content
<1>2. CASE Next
  <2>1. PICK a \in Actor :
          \/ CreateTemp(a) \/ Write(a) \/ Close(a) \/ Rename(a) \/ Remove(a)
          \/ Open(a) \/ Decrypt(a) \/ Kill(a)
    BY <1>2 DEF Next
  <2>2. CASE CreateTemp(a) \/ Write(a) \/ Close(a) \/ Remove(a)
    BY <2>2, QuietStep DEF Register!register, value, bound
  <2>3. CASE Rename(a)
    BY <2>3, RenameIsStore DEF Register!Next, Register!register, value, bound
  <2>4. CASE Open(a)
    BY <2>4, OpenIsLoad DEF Register!Next
  <2>5. CASE Decrypt(a)
    BY <2>5, DecryptIsReply DEF Register!Next
  <2>6. CASE Kill(a)
    BY <2>6, KillIsForget DEF Register!Next
  <2> QED
    BY <2>1, <2>2, <2>3, <2>4, <2>5, <2>6
<1> QED
  BY <1>1, <1>2

\* The encrypted file implements the register: a store takes effect at one
\* stroke, and a load either says that it failed or is answered from the session
\* it found; a store beside it never makes it refuse a good passphrase.
THEOREM ImplementsRegister == Spec => IsRegister
<1>1. Init => Register!Init
  BY InitRegister
<1>2. IInv /\ [Next]_vars => [Register!Next]_(Register!register)
  BY SessionAssumption, RegisterStep
<1> QED
  BY <1>1, <1>2, Invariant, PTL DEF Spec, IsRegister, Register!Spec

=============================================================================
