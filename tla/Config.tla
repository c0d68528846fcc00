------------------------------- MODULE Config -------------------------------
(***************************************************************************)
(* config.Load: from the environment the runtime supplies, and a .env file *)
(* that may be read besides, to a configuration or an error.               *)
(*                                                                         *)
(* A variable is absent, set to blanks, set to something its parser        *)
(* refuses, or has a value.  A value is a model value, trimmed and in the  *)
(* lower case where the code makes it so; the ids a parser returns are the *)
(* values themselves.  Which of several errors is reported is left out, as *)
(* are the wording of FormatRedacted and its masks.                        *)
(***************************************************************************)
CONSTANTS
  Value,                    \* what a variable may be set to
  Production, Development,  \* the two values of APP_ENV
  Default,                  \* the default of an optional variable
  Absent, Blank, Bad,       \* not set; only blanks; refused by its parser
  NoFile, Broken,           \* there is no .env, or one that cannot be parsed
  Failed                    \* Load returns an error

Required ==
  {"TELEGRAM_API_ID", "TELEGRAM_API_HASH", "TELEGRAM_PHONE", "TELEGRAM_SESSION_PATH",
   "TELEGRAM_SESSION_PASSPHRASE", "USERBOT_OWNER_ID", "MONGO_URI", "MONGO_DB"}

Optional == {"APP_ENV", "LOG_LEVEL", "MIRROR_BOT_MESSAGES", "MIRROR_ORDER_PATTERN"}

Key == Required \cup Optional

\* The variables Load parses; any text will do for the others.
Parsed == {"TELEGRAM_API_ID", "USERBOT_OWNER_ID", "MONGO_URI",
           "MIRROR_BOT_MESSAGES", "MIRROR_ORDER_PATTERN"}

\* Only what is parsed, here or by logging.Setup, can be refused.
Env    == {e \in [Key -> Value \cup {Absent, Blank, Bad}] :
             \A k \in Key \ (Parsed \cup {"LOG_LEVEL"}) : e[k] # Bad}
DotEnv == Env \cup {NoFile, Broken}

ASSUME ConfigAssumption ==
  /\ Production \in Value /\ Development \in Value /\ Production # Development
  /\ {Default, Absent, Blank, Bad, Failed} \cap Value = {}
  /\ Absent # Blank /\ Absent # Bad /\ Blank # Bad /\ Default # Bad
  /\ NoFile \notin Env /\ Broken \notin Env /\ Failed \notin Env /\ NoFile # Broken
  /\ Failed \notin [Key -> Value \cup {Default, Bad}]
  /\ Failed # Bad

NonEmpty(v) == v \notin {Absent, Blank}

firstNonEmpty(v, w) == IF NonEmpty(v) THEN v ELSE w

\* Slip: the file is asked first, as in many a dotenv loader.
MutResolveAppEnv(env, file) ==
  IF file \in Env /\ NonEmpty(file["APP_ENV"]) THEN file["APP_ENV"]
  ELSE firstNonEmpty(env["APP_ENV"], Production)

\* The runtime's APP_ENV, else the one in .env, else production.
resolveAppEnv(env, file) ==
  CASE NonEmpty(env["APP_ENV"]) -> env["APP_ENV"]
    [] ~NonEmpty(env["APP_ENV"]) /\ file = Broken -> Failed
    [] ~NonEmpty(env["APP_ENV"]) /\ file = NoFile -> Production
    [] OTHER -> firstNonEmpty(file["APP_ENV"], Production)

\* godotenv.Load adds what the runtime has not set, not even to blanks.
Added(env, file) == [k \in Key |-> IF env[k] = Absent THEN file[k] ELSE env[k]]

loadDotEnv(env, file, appEnv) ==
  CASE appEnv # Development \/ file = NoFile -> env
    [] appEnv = Development /\ file = Broken -> Failed
    [] OTHER -> Added(env, file)

\* What Load makes of a variable it has accepted.
Resolved(env, appEnv) ==
  [k \in Key |-> CASE k = "APP_ENV"  -> firstNonEmpty(env[k], appEnv)
                   [] k \in Required -> env[k]
                   [] OTHER          -> firstNonEmpty(env[k], Default)]

Accepted(env, appEnv) ==
  /\ firstNonEmpty(env["APP_ENV"], appEnv) \in {Production, Development}
  /\ \A k \in Parsed : env[k] # Bad
  /\ \A k \in Required : NonEmpty(env[k])

Load(env, file) ==
  LET appEnv == resolveAppEnv(env, file)
      whole  == loadDotEnv(env, file, appEnv)
  IN IF appEnv # Failed /\ whole # Failed /\ Accepted(whole, appEnv)
     THEN Resolved(whole, appEnv) ELSE Failed

=============================================================================
