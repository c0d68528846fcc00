----------------------------- MODULE Lifecycle -----------------------------
(***************************************************************************)
(* The life of the processes: main, from loading its configuration to      *)
(* closing MongoDB, and Client.Start, which runs in a goroutine of its own *)
(* and hands its error to main over tgDone.  Several processes, a -login   *)
(* beside the running container for one, share the session file.           *)
(*                                                                         *)
(* A session is the passphrase it is sealed with and gotd's authorization  *)
(* key; the session file is the register SessionStore implements.  Which   *)
(* account a key is logged in to is known to Telegram: auth[k].  A key is  *)
(* made when gotd connects without a session, it is stored when gotd sees  *)
(* fit, and a login makes it an account's key, once and for all.           *)
(*                                                                         *)
(* Time is abstracted to what it decides: a timeout may fire whenever its  *)
(* goroutine waits.  Requests to MongoDB and Telegram fail at will.        *)
(***************************************************************************)
EXTENDS Config, Naturals, Sequences

CONSTANTS
  Process,
  Environments,  \* the environments a process may be launched with
  DotEnvs,       \* the .env files it may find
  NoEnv, NoConfig, NoSession,
  Nobody,        \* the account of a key that is not logged in
  MaxLaunches    \* bound: launches, of all processes together

ASSUME LifecycleAssumption ==
  /\ Environments \subseteq Env /\ DotEnvs \subseteq DotEnv
  /\ NoEnv \notin Env /\ Failed # NoConfig
  /\ NoConfig \notin [Key -> Value \cup {Default, Bad}]
  /\ NoSession \notin [pass : Value, key : Nat]
  /\ Nobody \notin Value
  /\ MaxLaunches \in Nat

VARIABLES
  proc,      \* proc[p]: the process, a Proc
  dotenv,    \* the .env file
  session,   \* the session file
  auth,      \* auth[k]: the account the k-th key is logged in to
  launches

vars == <<proc, dotenv, session, auth, launches>>

(***************************************************************************)
(* main is where main() is, start where Start is.  userbotCtx is cancelled *)
(* exactly when main has left its select.  result is what Start returned,  *)
(* "foreign" being the error of the owner check; busy says that a handler  *)
(* runs.  exit is the code main is going to exit with, or has exited with. *)
(***************************************************************************)
Startup == {"load", "connect", "indexes", "owner"}
Leaving == {"wait", "close", "exit"}
Main    == {"down", "select"} \cup Startup \cup Leaving
Running == {"connect", "auth", "prompt", "self", "register", "updates"}
Start   == {"none", "preflight", "returned"} \cup Running
Configs == [Key -> Value \cup {Default, Bad}]

Proc == [main : Main, mode : {"normal", "login", "config-only"},
         env : Env \cup {NoEnv}, cfg : Configs \cup {NoConfig},
         signalled : BOOLEAN, mongo : BOOLEAN,
         start : Start, result : {"none", "nil", "error", "foreign"},
         key : Nat, busy : BOOLEAN, exit : {"none", "0", "1", "killed"}]

Gone(code) ==
  [main |-> "down", mode |-> "normal", env |-> NoEnv, cfg |-> NoConfig,
   signalled |-> FALSE, mongo |-> FALSE, start |-> "none", result |-> "none",
   key |-> 0, busy |-> FALSE, exit |-> code]

Up(p)        == proc[p].main # "down"
Cancelled(p) == proc[p].main \in Leaving
Owner(p)     == proc[p].cfg["USERBOT_OWNER_ID"]
Pass(p)      == proc[p].cfg["TELEGRAM_SESSION_PASSPHRASE"]
Account(p)   == auth[proc[p].key]

Exit(p, code) == proc' = [proc EXCEPT ![p] = Gone(code)]

Init ==
  /\ proc = [p \in Process |-> Gone("none")]
  /\ dotenv \in DotEnvs
  /\ session = NoSession /\ auth = <<>> /\ launches = 0

-----------------------------------------------------------------------------
(* main, up to the select.  Every error exits with code 1, and no signal   *)
(* is handled yet: one ends the process where it is.                       *)

Launch(p) ==
  /\ ~Up(p) /\ launches < MaxLaunches
  /\ launches' = launches + 1
  /\ \E e \in Environments, m \in {"normal", "login", "config-only"} :
       proc' = [proc EXCEPT ![p] = [Gone("none") EXCEPT !.main = "load", !.env = e, !.mode = m]]
  /\ UNCHANGED <<dotenv, session, auth>>

\* config.Load and logging.Setup; -config-only ends here.
LoadConfig(p) ==
  LET cfg == Load(proc[p].env, dotenv) IN
  /\ proc[p].main = "load"
  /\ CASE cfg = Failed -> Exit(p, "1")
       [] cfg # Failed /\ cfg["LOG_LEVEL"] = Bad -> Exit(p, "1")
       [] OTHER -> IF proc[p].mode = "config-only" THEN Exit(p, "0")
                   ELSE proc' = [proc EXCEPT ![p].main = "connect", ![p].cfg = cfg]
  /\ UNCHANGED <<dotenv, session, auth, launches>>

\* store.NewManager, which closes its client when the ping fails.
ConnectMongo(p) ==
  /\ proc[p].main = "connect"
  /\ \/ proc' = [proc EXCEPT ![p].main = "indexes", ![p].mongo = TRUE]
     \/ Exit(p, "1")
  /\ UNCHANGED <<dotenv, session, auth, launches>>

EnsureBaseIndexes(p) ==
  /\ proc[p].main = "indexes"
  /\ proc' = [proc EXCEPT ![p].main = "owner"] \/ Exit(p, "1")
  /\ UNCHANGED <<dotenv, session, auth, launches>>

\* EnsureOwner, then NewClient, which cannot refuse what Load has accepted,
\* the signals, and the goroutine of Start.
EnsureOwner(p) ==
  /\ proc[p].main = "owner"
  /\ \/ proc' = [proc EXCEPT ![p].main = "select", ![p].start = "preflight"]
     \/ Exit(p, "1")
  /\ UNCHANGED <<dotenv, session, auth, launches>>

-----------------------------------------------------------------------------
(* main, from the select on.                                               *)

\* Slip: MongoDB is closed before the userbot has stopped.
MutOnSignal(p) ==
  /\ proc[p].main = "select" /\ proc[p].signalled
  /\ proc' = [proc EXCEPT ![p].main = "wait", ![p].exit = "0", ![p].mongo = FALSE]
  /\ UNCHANGED <<dotenv, session, auth, launches>>

OnSignal(p) ==
  /\ proc[p].main = "select" /\ proc[p].signalled
  /\ proc' = [proc EXCEPT ![p].main = "wait", ![p].exit = "0"]
  /\ UNCHANGED <<dotenv, session, auth, launches>>

\* Slip: an error of Start is logged and the process ends as if it had been asked to.
MutOnDone(p) ==
  /\ proc[p].main = "select" /\ proc[p].start = "returned"
  /\ proc' = [proc EXCEPT ![p].main = "close", ![p].exit = "0"]
  /\ UNCHANGED <<dotenv, session, auth, launches>>

OnDone(p) ==
  /\ proc[p].main = "select" /\ proc[p].start = "returned"
  /\ proc' = [proc EXCEPT ![p].main = "close",
                          ![p].exit = IF proc[p].result = "nil" THEN "0" ELSE "1"]
  /\ UNCHANGED <<dotenv, session, auth, launches>>

\* Slip: main waits for Start, however long it takes.
MutStopWaiting(p) ==
  /\ proc[p].main = "wait" /\ proc[p].start = "returned"
  /\ proc' = [proc EXCEPT ![p].main = "close"]
  /\ UNCHANGED <<dotenv, session, auth, launches>>

\* Start has returned, with or without an error, or the ten seconds are over.
StopWaiting(p) ==
  /\ proc[p].main = "wait"
  /\ proc' = [proc EXCEPT ![p].main = "close"]
  /\ UNCHANGED <<dotenv, session, auth, launches>>

\* closeMongo: its error is logged, its timeout of five seconds bounds it.
CloseMongo(p) ==
  /\ proc[p].main = "close"
  /\ proc' = [proc EXCEPT ![p].main = "exit", ![p].mongo = FALSE]
  /\ UNCHANGED <<dotenv, session, auth, launches>>

\* main returns or exits, and whatever else runs in the process ends with it.
Leave(p) ==
  /\ proc[p].main = "exit"
  /\ Exit(p, proc[p].exit)
  /\ UNCHANGED <<dotenv, session, auth, launches>>

\* SIGINT or SIGTERM.
Signal(p) ==
  /\ Up(p) /\ ~proc[p].signalled
  /\ IF proc[p].main \in Startup THEN Exit(p, "killed")
     ELSE proc' = [proc EXCEPT ![p].signalled = TRUE]
  /\ UNCHANGED <<dotenv, session, auth, launches>>

Kill(p) == Up(p) /\ Exit(p, "killed") /\ UNCHANGED <<dotenv, session, auth, launches>>

-----------------------------------------------------------------------------
(* Client.Start.                                                           *)

Return(p, r) == proc' = [proc EXCEPT ![p].start = "returned", ![p].result = r]
Goto(p, s)   == proc' = [proc EXCEPT ![p].start = s]

Readable(p) == session # NoSession /\ session.pass = Pass(p)

\* Slip: the status is asked of a client that does not run yet.
MutPreflight(p) ==
  /\ proc[p].start = "preflight"
  /\ \/ /\ proc[p].mode = "login" \/ (Readable(p) /\ ~Cancelled(p))
        /\ Goto(p, "auth")
     \/ proc[p].mode # "login" /\ Return(p, "error")
  /\ UNCHANGED <<dotenv, session, auth, launches>>

\* The preflight: LoadSession refuses a cancelled context, too.
Preflight(p) ==
  /\ proc[p].start = "preflight"
  /\ \/ /\ proc[p].mode = "login" \/ (Readable(p) /\ ~Cancelled(p))
        /\ Goto(p, "connect")
     \/ proc[p].mode # "login" /\ Return(p, "error")
  /\ UNCHANGED <<dotenv, session, auth, launches>>

\* gotd loads the session again and connects; without one it makes a key.
Connect(p) ==
  /\ proc[p].start = "connect"
  /\ \/ /\ Readable(p)
        /\ proc' = [proc EXCEPT ![p].start = "auth", ![p].key = session.key]
        /\ UNCHANGED auth
     \/ /\ session = NoSession
        /\ auth' = Append(auth, Nobody)
        /\ proc' = [proc EXCEPT ![p].start = "auth", ![p].key = Len(auth) + 1]
  /\ UNCHANGED <<dotenv, session, launches>>

\* gotd stores the key of the connection, now or at any reconnection.
SaveSession(p) ==
  /\ proc[p].start \in Running \ {"connect"} /\ ~Cancelled(p)
  /\ session' = [pass |-> Pass(p), key |-> proc[p].key]
  /\ UNCHANGED <<proc, dotenv, auth, launches>>

\* Auth().Status, or IfNecessary, which asks for nothing if the key has an account.
Auth(p) ==
  /\ proc[p].start = "auth"
  /\ CASE Account(p) # Nobody -> Goto(p, "self")
       [] Account(p) = Nobody /\ proc[p].mode = "login" -> Goto(p, "prompt")
       [] OTHER -> Return(p, "error")
  /\ UNCHANGED <<dotenv, session, auth, launches>>

\* The user of the configured phone types the code, and the password if any.
Login(p) ==
  /\ proc[p].start = "prompt" /\ Account(p) = Nobody /\ ~Cancelled(p)
  /\ auth' = [auth EXCEPT ![proc[p].key] = proc[p].cfg["TELEGRAM_PHONE"]]
  /\ Goto(p, "self")
  /\ UNCHANGED <<dotenv, session, launches>>

\* Slip: whoever is logged in is served.
MutSelf(p) ==
  /\ proc[p].start = "self"
  /\ Goto(p, "register")
  /\ UNCHANGED <<dotenv, session, auth, launches>>

\* The owner check.
Self(p) ==
  /\ proc[p].start = "self"
  /\ IF Account(p) = Owner(p) THEN Goto(p, "register") ELSE Return(p, "foreign")
  /\ UNCHANGED <<dotenv, session, auth, launches>>

\* EnsureUser(self.ID), then updateManager.Run.
RegisterOwner(p) ==
  /\ proc[p].start = "register"
  /\ Goto(p, "updates")
  /\ UNCHANGED <<dotenv, session, auth, launches>>

HandlerStarts(p) ==
  /\ proc[p].start = "updates" /\ ~proc[p].busy /\ ~Cancelled(p)
  /\ proc' = [proc EXCEPT ![p].busy = TRUE]
  /\ UNCHANGED <<dotenv, session, auth, launches>>

HandlerEnds(p) ==
  /\ proc[p].busy
  /\ proc' = [proc EXCEPT ![p].busy = FALSE]
  /\ UNCHANGED <<dotenv, session, auth, launches>>

\* A call of Run fails; the prompt, which reads the terminal, and a handler at
\* work are waited for.  Start makes a success of context.Canceled when its own
\* context is cancelled, and of updates that end by themselves.
RunEnds(p) ==
  /\ proc[p].start \in Running /\ ~proc[p].busy
  /\ \E r \in {"nil", "error"} :
       /\ r = "nil" => Cancelled(p) \/ proc[p].start = "updates"
       /\ Return(p, r)
  /\ UNCHANGED <<dotenv, session, auth, launches>>

-----------------------------------------------------------------------------
MainStep(p) ==
  \/ LoadConfig(p) \/ ConnectMongo(p) \/ EnsureBaseIndexes(p) \/ EnsureOwner(p)
  \/ OnSignal(p) \/ OnDone(p) \/ StopWaiting(p) \/ CloseMongo(p) \/ Leave(p)

StartStep(p) ==
  Preflight(p) \/ Connect(p) \/ Auth(p) \/ Self(p) \/ RegisterOwner(p) \/ RunEnds(p)

Next ==
  \E p \in Process :
    \/ Launch(p) \/ Signal(p) \/ Kill(p)
    \/ MainStep(p) \/ StartStep(p)
    \/ Login(p) \/ SaveSession(p) \/ HandlerStarts(p) \/ HandlerEnds(p)

Spec == Init /\ [][Next]_vars

\* main's calls have timeouts, and Start's calls return.  Nothing is assumed of
\* the user at the prompt, of handlers, of signals and of launches.
FairSpec ==
  Spec /\ \A p \in Process :
            WF_vars(MainStep(p)) /\ WF_vars(StartStep(p) /\ proc[p].start \notin {"prompt", "updates"})

-----------------------------------------------------------------------------
(* Properties.                                                             *)

\* A process has the pieces its phase needs, and a key it uses is one Telegram
\* knows.
TypeOK ==
  /\ proc \in [Process -> Proc]
  /\ dotenv \in DotEnvs
  /\ session \in [pass : Value, key : DOMAIN auth] \cup {NoSession}
  /\ auth \in Seq(Value \cup {Nobody})
  /\ launches \in Nat
  /\ \A p \in Process :
       /\ proc[p].start \in Running \ {"connect"} => proc[p].key \in DOMAIN auth
       /\ proc[p].start # "none" => proc[p].cfg # NoConfig

\* Whatever sessions other processes put into the file between the preflight,
\* gotd's own load and the owner check, updates are only ever handled on the
\* configured owner's account (userbot.go:262).
OnlyOwnerServes ==
  \A p \in Process :
    proc[p].start \in {"register", "updates"} => Account(p) = Owner(p)

\* The userbot has MongoDB until it has been told to stop and has stopped, or
\* until main has waited long enough (architecture.md:45).
MongoOutlivesUserbot ==
  \A p \in Process :
    proc[p].start \in Running /\ ~proc[p].mongo => proc[p].main = "exit" /\ proc[p].signalled

\* The exit code tells a supervisor whether the userbot gave up: 0 only if the
\* process was asked to stop or ended without an error, 1 only if something
\* failed, and MongoDB is closed first once Start has run.
ExitTellsWhy ==
  [][\A p \in Process :
       /\ proc[p].main # "down" /\ proc'[p].exit = "0" /\ proc'[p].main = "down"
          => \/ proc[p].mode = "config-only"
             \/ ~proc[p].mongo /\ (proc[p].signalled \/ proc[p].result = "nil")
       /\ proc[p].main # "down" /\ proc'[p].exit = "1" /\ proc'[p].main = "down"
          => \/ proc[p].main \in Startup
             \/ ~proc[p].mongo /\ proc[p].result \in {"error", "foreign"}]_vars

\* The runtime's variables win over .env's, and in production nothing at all
\* comes from .env, whatever it holds (README.md:22).
DotEnvStaysOut ==
  \A p \in Process : proc[p].cfg # NoConfig =>
    \A k \in Key :
      proc[p].cfg["APP_ENV"] = Production \/ NonEmpty(proc[p].env[k])
      => proc[p].cfg[k] \in {firstNonEmpty(proc[p].env[k], d) : d \in {Default, Production}}

\* A process that is up comes to rest, serving or waiting at the prompt, or it
\* ends; once it is asked to stop, or once Start has given up, it ends: a handler
\* or a prompt that does not come back costs it no more than the timeout.
Settles ==
  \A p \in Process :
    Up(p) ~> \/ ~Up(p)
             \/ proc[p].start \in {"prompt", "updates"} /\ ~proc[p].signalled

-----------------------------------------------------------------------------
(* What the documents say and the code does not keep.                      *)

\* architecture.md:28: -login runs an interactive user auth flow and writes the
\* session, so that whoever has the owner's phone gets the owner's session.
OwnersLoginSucceeds ==
  \A p \in Process :
    proc[p].mode = "login" /\ proc[p].result = "foreign"
    => proc[p].cfg["TELEGRAM_PHONE"] # Owner(p)

=============================================================================
