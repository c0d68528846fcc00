-------------------------- MODULE LifecycleProofs --------------------------
(***************************************************************************)
(* Proofs about Config and Lifecycle, for any number of processes,         *)
(* environments and launches: the state keeps its type, only the owner's   *)
(* account is served, MongoDB outlives the userbot, the exit code tells    *)
(* why, and .env stays out where it has no business.                       *)
(***************************************************************************)
EXTENDS Lifecycle, SequenceTheorems, TLAPS

-----------------------------------------------------------------------------
(* Load.                                                                   *)

\* What Load returns is a configuration, and its required variables are values.
LEMMA LoadType ==
  ASSUME NEW env \in Env, NEW file \in DotEnv, Load(env, file) # Failed
  PROVE  /\ Load(env, file) \in Configs
         /\ \A k \in Required : Load(env, file)[k] \in Value
<1> DEFINE appEnv == resolveAppEnv(env, file)
           whole  == loadDotEnv(env, file, appEnv)
<1>1. /\ appEnv # Failed /\ whole # Failed /\ Accepted(whole, appEnv)
      /\ Load(env, file) = Resolved(whole, appEnv)
  BY DEF Load
<1>2. whole \in Env
  <2>1. CASE whole = env
    BY <2>1
  <2>2. CASE whole # env
    <3>1. file # NoFile /\ file # Broken /\ whole = Added(env, file)
      BY <1>1, <2>2 DEF loadDotEnv
    <3>2. file \in Env
      BY <3>1 DEF DotEnv
    <3> QED
      BY <3>1, <3>2 DEF Added, Env
  <2> QED
    BY <2>1, <2>2
<1> HIDE DEF appEnv, whole
<1>3. ASSUME NEW k \in Required PROVE whole[k] \in Value
  <2>1. k \in Key /\ k # "LOG_LEVEL"
    BY DEF Key, Required
  <2>2. whole[k] # Bad
    BY <1>1, <1>2, <2>1 DEF Env, Accepted
  <2> QED
    BY <1>1, <1>2, <2>1, <2>2 DEF Env, Accepted, NonEmpty
<1>4. ASSUME NEW k \in Key PROVE Resolved(whole, appEnv)[k] \in Value \cup {Default, Bad}
  <2>1. CASE k = "APP_ENV"
    BY <1>1, <1>2, <2>1, ConfigAssumption DEF Resolved, Accepted, firstNonEmpty, NonEmpty, Env
  <2>2. CASE k # "APP_ENV" /\ k \in Required
    BY <1>3, <2>2 DEF Resolved
  <2>3. CASE k # "APP_ENV" /\ k \notin Required
    BY <1>2, <2>3 DEF Resolved, firstNonEmpty, NonEmpty, Env
  <2> QED
    BY <2>1, <2>2, <2>3
<1>5. Load(env, file) \in Configs
  BY <1>1, <1>4 DEF Resolved, Configs
<1>6. ASSUME NEW k \in Required PROVE Load(env, file)[k] \in Value
  <2>1. k \in Key /\ k # "APP_ENV"
    BY DEF Key, Required
  <2> QED
    BY <1>1, <1>3, <2>1 DEF Resolved
<1> QED
  BY <1>5, <1>6

\* A variable the runtime has set is not taken from .env, and none is in
\* production (config.Load, resolveAppEnv, loadDotEnv).
THEOREM RuntimeWins ==
  ASSUME NEW env \in Env, NEW file \in DotEnv, Load(env, file) # Failed, NEW k \in Key,
         Load(env, file)["APP_ENV"] = Production \/ NonEmpty(env[k])
  PROVE  Load(env, file)[k] \in {firstNonEmpty(env[k], d) : d \in {Default, Production}}
<1> DEFINE appEnv == resolveAppEnv(env, file)
           whole  == loadDotEnv(env, file, appEnv)
<1>1. /\ appEnv # Failed /\ whole # Failed /\ Accepted(whole, appEnv)
      /\ Load(env, file) = Resolved(whole, appEnv)
  BY DEF Load
<1>2. "APP_ENV" \in Key /\ "APP_ENV" \notin Required
  BY DEF Key, Optional, Required
<1>3. whole = env \/ (whole = Added(env, file) /\ appEnv = Development /\ file \in Env)
  BY <1>1 DEF loadDotEnv, DotEnv
<1>4. CASE NonEmpty(env[k])
  <2>1. whole[k] = env[k]
    BY <1>3, <1>4 DEF Added, NonEmpty
  <2> QED
    BY <1>1, <1>4, <2>1 DEF Resolved, firstNonEmpty
<1>5. CASE ~NonEmpty(env[k]) /\ Load(env, file)["APP_ENV"] = Production
  <2>1. firstNonEmpty(whole["APP_ENV"], appEnv) = Production
    BY <1>1, <1>2, <1>5 DEF Resolved
  <2>2. whole = env
    <3> SUFFICES ASSUME whole # env PROVE FALSE
      OBVIOUS
    <3>1. whole = Added(env, file) /\ appEnv = Development /\ file \in Env
      BY <1>3
    <3>2. whole["APP_ENV"] = IF env["APP_ENV"] = Absent THEN file["APP_ENV"] ELSE env["APP_ENV"]
      BY <1>2, <3>1 DEF Added
    <3>3. CASE NonEmpty(env["APP_ENV"])
      <4>1. appEnv = env["APP_ENV"]
        BY <3>3 DEF resolveAppEnv
      <4> QED
        BY <2>1, <3>1, <3>2, <3>3, <4>1, ConfigAssumption DEF firstNonEmpty, NonEmpty
    <3>4. CASE ~NonEmpty(env["APP_ENV"])
      <4>1. appEnv = firstNonEmpty(file["APP_ENV"], Production)
        BY <3>1, <3>4, ConfigAssumption DEF resolveAppEnv
      <4> QED
        BY <2>1, <3>1, <3>2, <3>4, <4>1, ConfigAssumption DEF firstNonEmpty, NonEmpty
    <3> QED
      BY <3>3, <3>4
  <2>3. CASE k = "APP_ENV"
    BY <1>1, <1>5, <2>3 DEF firstNonEmpty
  <2>4. CASE k # "APP_ENV" /\ k \in Required
    BY <1>1, <1>5, <2>2, <2>4 DEF Accepted
  <2>5. CASE k # "APP_ENV" /\ k \notin Required
    BY <1>1, <2>2, <2>5 DEF Resolved
  <2> QED
    BY <2>3, <2>4, <2>5
<1> QED
  BY <1>4, <1>5

-----------------------------------------------------------------------------
(* The inductive invariant.  Who is served is decided once, when the key   *)
(* already has an account, and accounts of keys do not change; what the    *)
(* exit code says follows from where main came from.                       *)

Phased(r) ==
  /\ r.start = "none" <=> r.main \in {"down"} \cup Startup
  /\ r.mongo <=> r.main \in {"indexes", "owner", "select", "wait", "close"}
  /\ r.result = "none" <=> r.start # "returned"
  /\ r.main = "wait" => r.signalled /\ r.exit = "0"
  /\ r.main \in {"close", "exit"} => r.signalled \/ r.start = "returned"
  /\ r.main \in Leaving => r.exit \in {"0", "1"}
  /\ r.main \in Leaving /\ r.exit = "0" => r.signalled \/ r.result = "nil"
  /\ r.main \in Leaving /\ r.exit = "1" => r.result \in {"error", "foreign"}

Configured(r) ==
  /\ r.main # "down" => r.env \in Environments
  /\ r.cfg = NoConfig <=> r.main \in {"down", "load"}
  /\ r.cfg # NoConfig => r.cfg = Load(r.env, dotenv) /\ r.cfg # Failed

\* r's key, as a says of it.
Keyed(r, a) ==
  /\ r.start \in Running \ {"connect"} => r.key \in DOMAIN a
  /\ r.start \in {"register", "updates"} => a[r.key] = r.cfg["USERBOT_OWNER_ID"]

Good(r, a) == r \in Proc /\ Phased(r) /\ Configured(r) /\ Keyed(r, a)

IInv ==
  /\ proc \in [Process -> Proc]
  /\ dotenv \in DotEnvs
  /\ session \in [pass : Value, key : DOMAIN auth] \cup {NoSession}
  /\ auth \in Seq(Value \cup {Nobody})
  /\ launches \in Nat
  /\ \A p \in Process : Good(proc[p], auth)

-----------------------------------------------------------------------------
(* Processes and keys.                                                     *)

\* A configuration that is in use names an owner, a phone and a passphrase.
LEMMA ConfigInUse ==
  ASSUME dotenv \in DotEnvs, NEW r, Configured(r), r.main \notin {"down", "load"}
  PROVE  /\ r.cfg \in Configs
         /\ \A k \in Required : r.cfg[k] \in Value
<1>1. r.env \in Env /\ dotenv \in DotEnv
  BY LifecycleAssumption DEF Configured
<1>2. r.cfg # NoConfig /\ r.cfg = Load(r.env, dotenv) /\ r.cfg # Failed
  BY DEF Configured
<1> QED
  BY <1>1, <1>2, LoadType

\* Keys are only added, and one that has an account keeps it.
KeysKept(a, b) ==
  /\ DOMAIN a \subseteq DOMAIN b
  /\ \A k \in DOMAIN a : a[k] # Nobody => b[k] = a[k]

LEMMA StillKeyed ==
  ASSUME dotenv \in DotEnvs, NEW r, NEW a, NEW b, KeysKept(a, b), Good(r, a)
  PROVE  Good(r, b)
<1>1. r.start \in {"register", "updates"} => r.cfg["USERBOT_OWNER_ID"] # Nobody
  <2> SUFFICES ASSUME r.start \in {"register", "updates"}
               PROVE  r.cfg["USERBOT_OWNER_ID"] # Nobody
    OBVIOUS
  <2>1. r.main \notin {"down", "load"}
    BY DEF Good, Phased, Startup
  <2> QED
    BY <2>1, ConfigInUse, LifecycleAssumption DEF Good, Required
<1> QED
  BY <1>1 DEF Good, Keyed, KeysKept, Running

\* One process moves on.
LEMMA OneProcess ==
  ASSUME IInv, NEW p \in Process, NEW r, proc' = [proc EXCEPT ![p] = r],
         Good(r, auth'), KeysKept(auth, auth'), auth' \in Seq(Value \cup {Nobody}),
         session' = session, dotenv' = dotenv, launches' \in Nat
  PROVE  IInv'
<1>1. /\ proc' \in [Process -> Proc] /\ proc'[p] = r
      /\ \A q \in Process \ {p} : proc'[q] = proc[q]
  BY DEF IInv, Good
<1>2. ASSUME NEW q \in Process PROVE Good(proc'[q], auth')
  BY <1>1, StillKeyed DEF IInv
<1>3. session' \in [pass : Value, key : DOMAIN auth'] \cup {NoSession}
  BY DEF IInv, KeysKept
<1>4. \A q \in Process : Good(proc[q], auth)'
  BY <1>2 DEF Good, Configured, Phased, Keyed
<1> QED
  BY <1>1, <1>3, <1>4 DEF IInv

LEMMA OneProcessOnly ==
  ASSUME IInv, NEW p \in Process, NEW r, proc' = [proc EXCEPT ![p] = r],
         Good(r, auth), UNCHANGED <<dotenv, session, auth, launches>>
  PROVE  IInv'
<1>1. KeysKept(auth, auth')
  BY DEF KeysKept
<1> QED
  BY <1>1, OneProcess DEF IInv

LEMMA GoneGood ==
  ASSUME NEW code \in {"none", "0", "1", "killed"}
  PROVE  Good(Gone(code), auth)
BY DEF Gone, Good, Proc, Phased, Configured, Keyed, Main, Start, Running, Startup, Leaving

LEMMA ExitGood ==
  ASSUME IInv, NEW p \in Process, NEW code \in {"none", "0", "1", "killed"},
         Exit(p, code), UNCHANGED <<dotenv, session, auth, launches>>
  PROVE  IInv'
BY GoneGood, OneProcessOnly DEF Exit

-----------------------------------------------------------------------------
(* One lemma per action, main's first.                                     *)

LEMMA InitGood == Init => IInv
<1> SUFFICES ASSUME Init PROVE IInv
  OBVIOUS
<1>1. \A p \in Process : Good(proc[p], auth)
  BY GoneGood DEF Init
<1> QED
  BY <1>1 DEF Init, IInv, Good

LEMMA LaunchGood ==
  ASSUME IInv, NEW p \in Process, Launch(p)
  PROVE  IInv'
<1>1. PICK e \in Environments, m \in {"normal", "login", "config-only"} :
        proc' = [proc EXCEPT ![p] = [Gone("none") EXCEPT !.main = "load", !.env = e, !.mode = m]]
  BY DEF Launch
<1> DEFINE r == [Gone("none") EXCEPT !.main = "load", !.env = e, !.mode = m]
<1>2. Good(r, auth)
  BY LifecycleAssumption
  DEF Gone, Good, Proc, Phased, Configured, Keyed, Main, Start, Running, Startup, Leaving
<1>3. KeysKept(auth, auth') /\ launches' \in Nat
  BY DEF KeysKept, Launch, IInv
<1> QED
  BY <1>1, <1>2, <1>3, OneProcess DEF Launch, IInv

LEMMA LoadConfigGood ==
  ASSUME IInv, NEW p \in Process, LoadConfig(p)
  PROVE  IInv'
<1> DEFINE c == Load(proc[p].env, dotenv)
           r == [proc[p] EXCEPT !.main = "connect", !.cfg = c]
<1>1. Good(proc[p], auth) /\ proc[p].main = "load" /\ UNCHANGED <<dotenv, session, auth, launches>>
  BY DEF IInv, LoadConfig
<1>2. CASE Exit(p, "0") \/ Exit(p, "1")
  BY <1>1, <1>2, ExitGood
<1>3. CASE c # Failed /\ proc' = [proc EXCEPT ![p] = r]
  <2>1. proc[p].env \in Env /\ dotenv \in DotEnv
    BY <1>1, LifecycleAssumption DEF Good, Configured, IInv
  <2>2. c \in Configs
    BY <1>3, <2>1, LoadType
  <2>3. c # NoConfig
    BY <2>2, LifecycleAssumption DEF Configs
  <2> HIDE DEF c
  <2>4. r \in Proc /\ Phased(r) /\ Keyed(r, auth)
    BY <1>1, <2>2 DEF Good, Proc, Phased, Keyed, Main, Startup, Leaving, Running
  <2>5. Configured(r)
    BY <1>1, <1>3, <2>3 DEF Good, Configured, Proc, c
  <2> QED
    BY <1>1, <1>3, <2>4, <2>5, OneProcessOnly DEF Good
<1> QED
  BY <1>2, <1>3 DEF LoadConfig

\* What main does to its process between Load and the end.
LEMMA MainMoves ==
  ASSUME IInv, NEW p \in Process, NEW r, proc' = [proc EXCEPT ![p] = r],
         r \in Proc, Phased(r), r.main \notin {"down", "load"},
         proc[p].main \notin {"down", "load"},
         r.env = proc[p].env, r.cfg = proc[p].cfg, r.key = proc[p].key,
         r.start \in {proc[p].start, "preflight"},
         UNCHANGED <<dotenv, session, auth, launches>>
  PROVE  IInv'
<1>1. Good(proc[p], auth)
  BY DEF IInv
<1>2. Configured(r)
  BY <1>1 DEF Good, Configured
<1>3. Keyed(r, auth)
  BY <1>1 DEF Good, Keyed, Running
<1> QED
  BY <1>2, <1>3, OneProcessOnly DEF Good

LEMMA MainGood ==
  ASSUME IInv, NEW p \in Process, MainStep(p)
  PROVE  IInv'
<1>1. /\ Good(proc[p], auth) /\ proc[p] \in Proc /\ Phased(proc[p])
      /\ proc \in [Process -> Proc]
  BY DEF IInv, Good
<1> USE DEF Proc, Phased, Main, Startup, Leaving, Start, Running
<1>2. CASE LoadConfig(p)
  BY <1>2, LoadConfigGood
<1>3. CASE ConnectMongo(p)
  <2>1. CASE Exit(p, "1")
    BY <1>3, <2>1, ExitGood DEF ConnectMongo
  <2>2. CASE proc' = [proc EXCEPT ![p].main = "indexes", ![p].mongo = TRUE]
    <3> DEFINE r == [proc[p] EXCEPT !.main = "indexes", !.mongo = TRUE]
    <3>1. proc' = [proc EXCEPT ![p] = r] /\ proc[p].main = "connect"
      BY <1>1, <1>3, <2>2 DEF ConnectMongo
    <3>2. r \in Proc
      BY <1>1, <3>1
    <3>3. Phased(r)
      BY <1>1, <3>1
    <3> QED
      BY <1>1, <1>3, <2>2, <3>1, <3>2, <3>3, MainMoves DEF ConnectMongo
  <2> QED
    BY <1>3, <2>1, <2>2 DEF ConnectMongo
<1>4. CASE EnsureBaseIndexes(p)
  <2>1. CASE Exit(p, "1")
    BY <1>4, <2>1, ExitGood DEF EnsureBaseIndexes
  <2>2. CASE proc' = [proc EXCEPT ![p].main = "owner"]
    BY <1>1, <1>4, <2>2, MainMoves DEF EnsureBaseIndexes
  <2> QED
    BY <1>4, <2>1, <2>2 DEF EnsureBaseIndexes
<1>5. CASE EnsureOwner(p)
  <2>1. CASE Exit(p, "1")
    BY <1>5, <2>1, ExitGood DEF EnsureOwner
  <2>2. CASE proc' = [proc EXCEPT ![p].main = "select", ![p].start = "preflight"]
    <3> DEFINE r == [proc[p] EXCEPT !.main = "select", !.start = "preflight"]
    <3>1. proc' = [proc EXCEPT ![p] = r] /\ proc[p].main = "owner"
      BY <1>1, <1>5, <2>2 DEF EnsureOwner
    <3>2. r \in Proc
      BY <1>1, <3>1
    <3>3. Phased(r)
      BY <1>1, <3>1
    <3> QED
      BY <1>1, <1>5, <2>2, <3>1, <3>2, <3>3, MainMoves DEF EnsureOwner
  <2> QED
    BY <1>5, <2>1, <2>2 DEF EnsureOwner
<1>6. CASE OnSignal(p)
  <2> DEFINE r == [proc[p] EXCEPT !.main = "wait", !.exit = "0"]
  <2>1. proc' = [proc EXCEPT ![p] = r] /\ proc[p].main = "select" /\ proc[p].signalled
    BY <1>1, <1>6 DEF OnSignal
  <2>2. r \in Proc
    BY <1>1, <2>1
  <2>3. Phased(r)
    BY <1>1, <2>1
  <2>4. /\ r.main \notin {"down", "load"} /\ r.env = proc[p].env /\ r.cfg = proc[p].cfg
        /\ r.key = proc[p].key /\ r.start = proc[p].start /\ proc[p].main \notin {"down", "load"}
    BY <1>1, <2>1
  <2> HIDE DEF r, Proc, Phased, Main, Startup, Leaving, Start, Running
  <2> QED
    BY <1>6, <2>1, <2>2, <2>3, <2>4, MainMoves DEF OnSignal
<1>7. CASE OnDone(p)
  <2> DEFINE r == [proc[p] EXCEPT !.main = "close",
                             !.exit = IF proc[p].result = "nil" THEN "0" ELSE "1"]
  <2>1. proc' = [proc EXCEPT ![p] = r] /\ proc[p].main = "select" /\ proc[p].start = "returned"
    BY <1>1, <1>7 DEF OnDone
  <2>2. r \in Proc
    BY <1>1, <2>1
  <2>3. Phased(r)
    BY <1>1, <2>1
  <2>4. /\ r.main \notin {"down", "load"} /\ r.env = proc[p].env /\ r.cfg = proc[p].cfg
        /\ r.key = proc[p].key /\ r.start = proc[p].start /\ proc[p].main \notin {"down", "load"}
    BY <1>1, <2>1
  <2> HIDE DEF r, Proc, Phased, Main, Startup, Leaving, Start, Running
  <2> QED
    BY <1>7, <2>1, <2>2, <2>3, <2>4, MainMoves DEF OnDone
<1>8. CASE StopWaiting(p)
  BY <1>1, <1>8, MainMoves DEF StopWaiting
<1>9. CASE CloseMongo(p)
  <2> DEFINE r == [proc[p] EXCEPT !.main = "exit", !.mongo = FALSE]
  <2>1. proc' = [proc EXCEPT ![p] = r] /\ proc[p].main = "close"
    BY <1>1, <1>9 DEF CloseMongo
  <2>2. r \in Proc
    BY <1>1, <2>1
  <2>3. Phased(r)
    BY <1>1, <2>1
  <2> QED
    BY <1>1, <1>9, <2>1, <2>2, <2>3, MainMoves DEF CloseMongo
<1>10. CASE Leave(p)
  BY <1>1, <1>10, ExitGood DEF Leave
<1> QED
  BY <1>2, <1>3, <1>4, <1>5, <1>6, <1>7, <1>8, <1>9, <1>10 DEF MainStep

LEMMA SignalGood ==
  ASSUME IInv, NEW p \in Process, Signal(p)
  PROVE  IInv'
<1>1. Good(proc[p], auth)
  BY DEF IInv
<1>2. CASE proc[p].main \in Startup
  BY <1>2, ExitGood DEF Signal
<1>3. CASE proc[p].main \notin Startup
  <2> DEFINE r == [proc[p] EXCEPT !.signalled = TRUE]
  <2>1. proc' = [proc EXCEPT ![p] = r]
    BY <1>3 DEF Signal
  <2>2. Good(r, auth)
    BY <1>1, <1>3 DEF Good, Proc, Phased, Configured, Keyed, Startup
  <2> QED
    BY <2>1, <2>2, OneProcessOnly DEF Signal
<1> QED
  BY <1>2, <1>3

\* What Start does to its process; it may learn a key as it goes.
LEMMA StartMoves ==
  ASSUME IInv, NEW p \in Process, NEW r, proc' = [proc EXCEPT ![p] = r],
         r \in Proc, proc[p].start \notin {"none", "returned"}, r.start # "none",
         r.main = proc[p].main, r.env = proc[p].env, r.cfg = proc[p].cfg,
         r.mongo = proc[p].mongo, r.signalled = proc[p].signalled, r.exit = proc[p].exit,
         r.result = "none" <=> r.start # "returned",
         Keyed(r, auth'), KeysKept(auth, auth'), auth' \in Seq(Value \cup {Nobody}),
         UNCHANGED <<dotenv, session, launches>>
  PROVE  IInv'
<1>1. Good(proc[p], auth) /\ launches' \in Nat
  BY DEF IInv
<1>2. proc[p].result = "none"
  BY <1>1 DEF Good, Phased
<1>3. Phased(r)
  BY <1>1, <1>2 DEF Good, Phased, Leaving, Proc
<1>4. Configured(r)
  BY <1>1 DEF Good, Configured
<1> QED
  BY <1>1, <1>3, <1>4, OneProcess DEF Good

\* The same, when the key is known already.
LEMMA StartGoes ==
  ASSUME IInv, NEW p \in Process, NEW s \in Running, Goto(p, s),
         proc[p].start \notin {"none", "returned"},
         s # "connect" => proc[p].key \in DOMAIN auth,
         s \in {"register", "updates"} => Account(p) = Owner(p),
         UNCHANGED <<dotenv, session, auth, launches>>
  PROVE  IInv'
<1>1. Good(proc[p], auth) /\ proc[p] \in Proc
  BY DEF IInv, Good
<1> DEFINE r == [proc[p] EXCEPT !.start = s]
<1>2. proc' = [proc EXCEPT ![p] = r]
  BY DEF Goto
<1>3. r \in Proc /\ Keyed(r, auth')
  BY <1>1 DEF Proc, Start, Keyed, Account, Owner
<1>4. /\ r.start = s /\ s \notin {"none", "returned"} /\ r.result = "none"
      /\ r.main = proc[p].main /\ r.env = proc[p].env /\ r.cfg = proc[p].cfg
      /\ r.mongo = proc[p].mongo /\ r.signalled = proc[p].signalled /\ r.exit = proc[p].exit
  BY <1>1 DEF Proc, Good, Phased, Running
<1>5. KeysKept(auth, auth') /\ auth' \in Seq(Value \cup {Nobody})
  BY DEF KeysKept, IInv
<1> HIDE DEF r
<1> QED
  BY <1>2, <1>3, <1>4, <1>5, StartMoves

LEMMA StartReturns ==
  ASSUME IInv, NEW p \in Process, NEW e \in {"nil", "error", "foreign"}, Return(p, e),
         proc[p].start \notin {"none", "returned"},
         UNCHANGED <<dotenv, session, auth, launches>>
  PROVE  IInv'
<1>1. Good(proc[p], auth) /\ proc[p] \in Proc /\ proc \in [Process -> Proc]
  BY DEF IInv, Good
<1> DEFINE r == [proc[p] EXCEPT !.start = "returned", !.result = e]
<1>2. proc' = [proc EXCEPT ![p] = r]
  BY <1>1 DEF Return
<1>3. r \in Proc /\ Keyed(r, auth')
  BY <1>1 DEF Proc, Start, Keyed, Running
<1>4. /\ r.start = "returned" /\ r.result # "none"
      /\ r.main = proc[p].main /\ r.env = proc[p].env /\ r.cfg = proc[p].cfg
      /\ r.mongo = proc[p].mongo /\ r.signalled = proc[p].signalled /\ r.exit = proc[p].exit
  BY <1>1 DEF Proc
<1>5. KeysKept(auth, auth') /\ auth' \in Seq(Value \cup {Nobody})
  BY DEF KeysKept, IInv
<1> HIDE DEF r
<1> QED
  BY <1>2, <1>3, <1>4, <1>5, StartMoves

LEMMA ConnectGood ==
  ASSUME IInv, NEW p \in Process, Connect(p)
  PROVE  IInv'
<1>1. /\ Good(proc[p], auth) /\ proc[p] \in Proc /\ proc \in [Process -> Proc]
      /\ proc[p].start = "connect" /\ proc[p].result = "none"
      /\ auth \in Seq(Value \cup {Nobody}) /\ UNCHANGED <<dotenv, session, launches>>
  BY DEF IInv, Good, Phased, Connect
<1>2. ASSUME NEW k \in Nat, proc' = [proc EXCEPT ![p].start = "auth", ![p].key = k],
             KeysKept(auth, auth'), auth' \in Seq(Value \cup {Nobody}), k \in DOMAIN auth'
      PROVE  IInv'
  <2> DEFINE r == [proc[p] EXCEPT !.start = "auth", !.key = k]
  <2>1. proc' = [proc EXCEPT ![p] = r]
    BY <1>1, <1>2
  <2>2. r \in Proc /\ Keyed(r, auth')
    BY <1>1, <1>2 DEF Proc, Start, Keyed, Running
  <2>3. /\ r.start = "auth" /\ r.result = "none"
        /\ r.main = proc[p].main /\ r.env = proc[p].env /\ r.cfg = proc[p].cfg
        /\ r.mongo = proc[p].mongo /\ r.signalled = proc[p].signalled /\ r.exit = proc[p].exit
    BY <1>1 DEF Proc
  <2> HIDE DEF r
  <2> QED
    BY <1>1, <1>2, <2>1, <2>2, <2>3, StartMoves
<1>3. CASE Readable(p) /\ proc' = [proc EXCEPT ![p].start = "auth", ![p].key = session.key]
           /\ auth' = auth
  <2>1. session.key \in DOMAIN auth /\ session.key \in Nat
    BY <1>1, <1>3, LenProperties DEF IInv, Readable
  <2> QED
    BY <1>1, <1>2, <1>3, <2>1 DEF KeysKept
<1>4. CASE auth' = Append(auth, Nobody)
           /\ proc' = [proc EXCEPT ![p].start = "auth", ![p].key = Len(auth) + 1]
  <2>1. /\ auth' \in Seq(Value \cup {Nobody}) /\ Len(auth') = Len(auth) + 1
        /\ DOMAIN auth = 1..Len(auth) /\ DOMAIN auth' = 1..(Len(auth) + 1)
        /\ Len(auth) \in Nat /\ \A k \in 1..Len(auth) : auth'[k] = auth[k]
    BY <1>1, <1>4, AppendProperties, LenProperties
  <2>2. KeysKept(auth, auth')
    BY <2>1 DEF KeysKept
  <2>3. Len(auth) + 1 \in Nat /\ Len(auth) + 1 \in DOMAIN auth'
    BY <2>1
  <2> QED
    BY <1>2, <1>4, <2>1, <2>2, <2>3
<1> QED
  BY <1>3, <1>4 DEF Connect

LEMMA LoginGood ==
  ASSUME IInv, NEW p \in Process, Login(p)
  PROVE  IInv'
<1> DEFINE k == proc[p].key
           phone == proc[p].cfg["TELEGRAM_PHONE"]
           r == [proc[p] EXCEPT !.start = "self"]
<1>1. /\ Good(proc[p], auth) /\ proc[p] \in Proc
      /\ proc[p].start = "prompt" /\ proc[p].result = "none" /\ k \in DOMAIN auth
      /\ auth \in Seq(Value \cup {Nobody}) /\ auth[k] = Nobody
      /\ auth' = [auth EXCEPT ![k] = phone] /\ UNCHANGED <<dotenv, session, launches>>
  BY DEF IInv, Good, Phased, Keyed, Login, Account, Running
<1>2. phone \in Value
  <2>1. proc[p].main \notin {"down", "load"}
    BY <1>1 DEF Good, Phased, Startup
  <2> QED
    BY <1>1, <2>1, ConfigInUse DEF IInv, Good, Required
<1>3. auth' \in Seq(Value \cup {Nobody}) /\ KeysKept(auth, auth')
  <2>1. DOMAIN auth = 1..Len(auth)
    BY <1>1, LenProperties
  <2> QED
    BY <1>1, <1>2, <2>1, ExceptSeq DEF KeysKept
<1>4. proc' = [proc EXCEPT ![p] = r]
  BY DEF Login, Goto
<1>5. r \in Proc /\ Keyed(r, auth')
  BY <1>1, <1>3 DEF Proc, Start, Keyed, Running, KeysKept
<1>6. /\ r.start = "self" /\ r.result = "none"
      /\ r.main = proc[p].main /\ r.env = proc[p].env /\ r.cfg = proc[p].cfg
      /\ r.mongo = proc[p].mongo /\ r.signalled = proc[p].signalled /\ r.exit = proc[p].exit
  BY <1>1 DEF Proc
<1> HIDE DEF r
<1> QED
  BY <1>1, <1>3, <1>4, <1>5, <1>6, StartMoves

\* Start's other steps: each goes to its next call or returns.
LEMMA StartGood ==
  ASSUME IInv, NEW p \in Process, StartStep(p) \/ Login(p)
  PROVE  IInv'
<1>1. Good(proc[p], auth) /\ (proc[p].start \in Running \ {"connect"} => proc[p].key \in DOMAIN auth)
  BY DEF IInv, Good, Keyed
<1>2. CASE Preflight(p)
  <2>1. CASE Goto(p, "connect")
    BY <1>2, <2>1, StartGoes DEF Preflight, Running
  <2>2. CASE Return(p, "error")
    BY <1>2, <2>2, StartReturns DEF Preflight
  <2> QED
    BY <1>2, <2>1, <2>2 DEF Preflight
<1>3. CASE Auth(p)
  <2>1. CASE Goto(p, "self") \/ Goto(p, "prompt")
    BY <1>1, <1>3, <2>1, StartGoes DEF Auth, Running
  <2>2. CASE Return(p, "error")
    BY <1>3, <2>2, StartReturns DEF Auth
  <2> QED
    BY <1>3, <2>1, <2>2 DEF Auth
<1>4. CASE Self(p)
  <2>1. CASE Account(p) = Owner(p)
    BY <1>1, <1>4, <2>1, StartGoes DEF Self, Running
  <2>2. CASE Account(p) # Owner(p)
    BY <1>4, <2>2, StartReturns DEF Self
  <2> QED
    BY <2>1, <2>2
<1>5. CASE RegisterOwner(p)
  <2>1. Account(p) = Owner(p)
    BY <1>1, <1>5 DEF RegisterOwner, Good, Keyed, Account, Owner
  <2> QED
    BY <1>1, <1>5, <2>1, StartGoes DEF RegisterOwner, Running
<1>6. CASE RunEnds(p)
  BY <1>6, StartReturns DEF RunEnds, Running
<1> QED
  BY <1>2, <1>3, <1>4, <1>5, <1>6, ConnectGood, LoginGood DEF StartStep

LEMMA SaveSessionGood ==
  ASSUME IInv, NEW p \in Process, SaveSession(p)
  PROVE  IInv'
<1>1. Good(proc[p], auth) /\ proc[p].start \in Running \ {"connect"}
  BY DEF IInv, SaveSession
<1>2. proc[p].main \notin {"down", "load"}
  BY <1>1 DEF Good, Phased, Startup, Running
<1>3. Pass(p) \in Value /\ proc[p].key \in DOMAIN auth
  BY <1>1, <1>2, ConfigInUse DEF IInv, Good, Keyed, Pass, Required
<1> QED
  BY <1>3 DEF SaveSession, IInv, Good, Phased, Configured, Keyed

LEMMA HandlerGood ==
  ASSUME IInv, NEW p \in Process, HandlerStarts(p) \/ HandlerEnds(p)
  PROVE  IInv'
<1>1. Good(proc[p], auth)
  BY DEF IInv
<1>2. PICK b \in BOOLEAN : proc' = [proc EXCEPT ![p] = [proc[p] EXCEPT !.busy = b]]
  BY DEF HandlerStarts, HandlerEnds
<1> DEFINE r == [proc[p] EXCEPT !.busy = b]
<1>3. Good(r, auth)
  BY <1>1 DEF Good, Proc, Phased, Configured, Keyed
<1> QED
  BY <1>2, <1>3, OneProcessOnly DEF HandlerStarts, HandlerEnds

LEMMA NextGood == IInv /\ [Next]_vars => IInv'
<1> SUFFICES ASSUME IInv, [Next]_vars PROVE IInv'
  OBVIOUS
<1>1. ASSUME NEW p \in Process, Kill(p) PROVE IInv'
  BY <1>1, ExitGood DEF Kill
<1>2. CASE UNCHANGED vars
  BY <1>2 DEF vars, IInv, Good, Phased, Configured, Keyed
<1> QED
  BY <1>1, <1>2, LaunchGood, SignalGood, MainGood, StartGood, SaveSessionGood, HandlerGood
  DEF Next

LEMMA Inductive == Spec => []IInv
BY InitGood, NextGood, PTL DEF Spec

-----------------------------------------------------------------------------
(* The theorems.                                                           *)

\* Every process has what its phase needs, and every key it uses is one
\* Telegram knows.
THEOREM TypeCorrect == Spec => []TypeOK
<1>1. ASSUME IInv PROVE TypeOK
  <2>1. ASSUME NEW p \in Process, proc[p].start # "none" PROVE proc[p].cfg # NoConfig
    BY <1>1, <2>1 DEF IInv, Good, Phased, Configured, Startup
  <2> QED
    BY <1>1, <2>1 DEF IInv, TypeOK, Good, Keyed
<1> QED
  BY <1>1, Inductive, PTL

\* Whatever other processes do to the session file meanwhile, updates are only
\* handled on the account of the configured owner (userbot.go:262).
THEOREM ServesTheOwner == Spec => []OnlyOwnerServes
<1>1. IInv => OnlyOwnerServes
  BY DEF IInv, Good, Keyed, OnlyOwnerServes, Account, Owner
<1> QED
  BY <1>1, Inductive, PTL

\* The userbot loses MongoDB only after a signal and main's ten seconds.
THEOREM MongoIsThere == Spec => []MongoOutlivesUserbot
<1>1. ASSUME IInv PROVE MongoOutlivesUserbot
  <2> SUFFICES ASSUME NEW p \in Process, proc[p].start \in Running, ~proc[p].mongo
               PROVE  proc[p].main = "exit" /\ proc[p].signalled
    BY DEF MongoOutlivesUserbot
  <2>1. Phased(proc[p]) /\ proc[p] \in Proc
    BY <1>1 DEF IInv, Good
  <2>2. proc[p].main = "exit"
    BY <2>1 DEF Phased, Proc, Main, Startup, Leaving, Running
  <2> QED
    BY <2>1, <2>2 DEF Phased, Running, Proc
<1> QED
  BY <1>1, Inductive, PTL

\* In production nothing comes from .env, and nothing the runtime has set does
\* anywhere, in any process.
THEOREM NothingFromDotEnv == Spec => []DotEnvStaysOut
<1>1. ASSUME IInv PROVE DotEnvStaysOut
  <2> SUFFICES ASSUME NEW p \in Process, proc[p].cfg # NoConfig, NEW k \in Key,
                      proc[p].cfg["APP_ENV"] = Production \/ NonEmpty(proc[p].env[k])
               PROVE  proc[p].cfg[k] \in {firstNonEmpty(proc[p].env[k], d) : d \in {Default, Production}}
    BY DEF DotEnvStaysOut
  <2>1. Configured(proc[p]) /\ proc[p].main # "down" /\ dotenv \in DotEnv
    BY <1>1, LifecycleAssumption DEF IInv, Good, Configured
  <2>2. proc[p].env \in Env /\ proc[p].cfg = Load(proc[p].env, dotenv) /\ proc[p].cfg # Failed
    BY <2>1, LifecycleAssumption DEF Configured
  <2> QED
    BY <2>1, <2>2, RuntimeWins
<1> QED
  BY <1>1, Inductive, PTL

LEMMA Exits ==
  ASSUME proc \in [Process -> Proc], Next,
         NEW p \in Process, proc[p].main # "down", proc'[p].main = "down"
  PROVE  \/ Leave(p)
         \/ proc[p].main \in Startup /\ Exit(p, "1")
         \/ proc[p].mode = "config-only" /\ Exit(p, "0")
         \/ Exit(p, "killed")
<1> PICK q \in Process :
      \/ Launch(q) \/ Signal(q) \/ Kill(q) \/ MainStep(q) \/ StartStep(q)
      \/ Login(q) \/ SaveSession(q) \/ HandlerStarts(q) \/ HandlerEnds(q)
  BY DEF Next
<1>1. CASE StartStep(q) \/ Login(q)
  <2>1. \/ \E s : Goto(q, s)
        \/ \E e : Return(q, e)
        \/ \E k : proc' = [proc EXCEPT ![q].start = "auth", ![q].key = k]
    BY <1>1 DEF StartStep, Preflight, Connect, Auth, Login, Self, RegisterOwner, RunEnds
  <2>2. proc'[p].main = proc[p].main
    BY <2>1 DEF Goto, Return, Proc
  <2> QED
    BY <2>2
<1>2. CASE SaveSession(q) \/ HandlerStarts(q) \/ HandlerEnds(q)
  <2>1. proc'[p].main = proc[p].main
    BY <1>2 DEF SaveSession, HandlerStarts, HandlerEnds, Proc
  <2> QED
    BY <2>1
<1>3. CASE Launch(q)
  <2>1. p # q
    BY <1>3 DEF Launch, Up
  <2>2. proc'[p] = proc[p]
    BY <1>3, <2>1 DEF Launch
  <2> QED
    BY <2>2
<1>4. CASE Kill(q)
  <2>1. p = q
    BY <1>4 DEF Kill, Exit
  <2> QED
    BY <1>4, <2>1 DEF Kill
<1>5. CASE Signal(q)
  <2>1. CASE Exit(q, "killed")
    <3>1. p = q
      BY <2>1 DEF Exit
    <3> QED
      BY <2>1, <3>1
  <2>2. CASE proc' = [proc EXCEPT ![q].signalled = TRUE]
    <3>1. proc'[p].main = proc[p].main
      BY <2>2 DEF Proc
    <3> QED
      BY <3>1
  <2> QED
    BY <1>5, <2>1, <2>2 DEF Signal
<1>6. CASE MainStep(q)
  <2>1. CASE p # q
    <3>1. proc'[p] = proc[p]
      BY <1>6, <2>1
      DEF MainStep, LoadConfig, ConnectMongo, EnsureBaseIndexes, EnsureOwner, OnSignal,
          OnDone, StopWaiting, CloseMongo, Leave, Exit
    <3> QED
      BY <3>1
  <2>2. CASE p = q
    <3>1. CASE LoadConfig(p)
      <4>1. \/ proc[p].main \in Startup /\ Exit(p, "1")
            \/ proc[p].mode = "config-only" /\ Exit(p, "0")
            \/ proc' = [proc EXCEPT ![p].main = "connect", ![p].cfg = Load(proc[p].env, dotenv)]
        BY <3>1 DEF LoadConfig, Startup
      <4>2. ASSUME proc' = [proc EXCEPT ![p].main = "connect",
                                        ![p].cfg = Load(proc[p].env, dotenv)]
            PROVE  proc'[p].main = "connect"
        BY <4>2 DEF Proc
      <4> QED
        BY <4>1, <4>2
    <3>2. CASE ConnectMongo(p)
      <4>1. \/ proc[p].main \in Startup /\ Exit(p, "1")
            \/ proc' = [proc EXCEPT ![p].main = "indexes", ![p].mongo = TRUE]
        BY <3>2 DEF ConnectMongo, Startup
      <4>2. ASSUME proc' = [proc EXCEPT ![p].main = "indexes", ![p].mongo = TRUE]
            PROVE  proc'[p].main = "indexes"
        BY <4>2 DEF Proc
      <4> QED
        BY <4>1, <4>2
    <3>3. CASE EnsureBaseIndexes(p) \/ EnsureOwner(p)
      <4>1. \/ proc[p].main \in Startup /\ Exit(p, "1")
            \/ proc' = [proc EXCEPT ![p].main = "owner"]
            \/ proc' = [proc EXCEPT ![p].main = "select", ![p].start = "preflight"]
        BY <3>3 DEF EnsureBaseIndexes, EnsureOwner, Startup
      <4>2. ASSUME proc' = [proc EXCEPT ![p].main = "owner"] PROVE proc'[p].main = "owner"
        BY <4>2 DEF Proc
      <4>3. ASSUME proc' = [proc EXCEPT ![p].main = "select", ![p].start = "preflight"]
            PROVE  proc'[p].main = "select"
        BY <4>3 DEF Proc
      <4> QED
        BY <4>1, <4>2, <4>3
    <3>4. CASE OnSignal(p) \/ OnDone(p) \/ StopWaiting(p) \/ CloseMongo(p)
      <4>1. proc'[p].main # "down"
        BY <3>4 DEF OnSignal, OnDone, StopWaiting, CloseMongo, Proc
      <4> QED
        BY <4>1
    <3> QED
      BY <1>6, <2>2, <3>1, <3>2, <3>3, <3>4 DEF MainStep
  <2> QED
    BY <2>1, <2>2
<1> QED
  BY <1>1, <1>2, <1>3, <1>4, <1>5, <1>6

\* A process exits with 0 only if it was asked to or nothing failed, with 1 only
\* if something did, and never with MongoDB open once Start has run.
THEOREM ExitCodesTellWhy == Spec => ExitTellsWhy
<1> DEFINE A == \A p \in Process :
       /\ proc[p].main # "down" /\ proc'[p].exit = "0" /\ proc'[p].main = "down"
          => \/ proc[p].mode = "config-only"
             \/ ~proc[p].mongo /\ (proc[p].signalled \/ proc[p].result = "nil")
       /\ proc[p].main # "down" /\ proc'[p].exit = "1" /\ proc'[p].main = "down"
          => \/ proc[p].main \in Startup
             \/ ~proc[p].mongo /\ proc[p].result \in {"error", "foreign"}
<1>1. ASSUME IInv, [Next]_vars PROVE [A]_vars
  <2> SUFFICES ASSUME Next PROVE A
    BY <1>1
  <2> SUFFICES ASSUME NEW p \in Process, proc[p].main # "down", proc'[p].main = "down",
                      proc'[p].exit \in {"0", "1"}
               PROVE  /\ proc'[p].exit = "0" =>
                           \/ proc[p].mode = "config-only"
                           \/ ~proc[p].mongo /\ (proc[p].signalled \/ proc[p].result = "nil")
                      /\ proc'[p].exit = "1" =>
                           \/ proc[p].main \in Startup
                           \/ ~proc[p].mongo /\ proc[p].result \in {"error", "foreign"}
    OBVIOUS
  <2>1. proc[p] \in Proc /\ Phased(proc[p]) /\ proc \in [Process -> Proc]
    BY <1>1 DEF IInv, Good
  <2>2. ASSUME NEW q \in Process, NEW code, Exit(q, code), q # p PROVE FALSE
    BY <2>1, <2>2 DEF Exit
  <2>3. ASSUME NEW code, Exit(p, code) PROVE proc'[p].exit = code
    BY <2>1, <2>3 DEF Exit, Gone
  <2>4. \/ Leave(p)
        \/ proc[p].main \in Startup /\ Exit(p, "1")
        \/ proc[p].mode = "config-only" /\ Exit(p, "0")
        \/ Exit(p, "killed")
    BY <2>1, Exits
  <2>5. CASE Leave(p)
    <3>1. proc[p].main = "exit" /\ proc'[p].exit = proc[p].exit
      BY <2>3, <2>5 DEF Leave
    <3> QED
      BY <2>1, <3>1 DEF Phased, Leaving
  <2> QED
    BY <2>3, <2>4, <2>5
<1>2. Spec => [][A]_vars
  BY <1>1, Inductive, PTL DEF Spec
<1> QED
  BY <1>2 DEF ExitTellsWhy

=============================================================================
