---------------------------- MODULE MCLifecycle ----------------------------
(***************************************************************************)
(* A small instance of Lifecycle: two processes, two accounts; a phone is  *)
(* named by its account.                                                   *)
(***************************************************************************)
EXTENDS Lifecycle

CONSTANTS p1, p2, alice, bob, some, other

mcProcess == {p1, p2}
mcValue   == {alice, bob, some, other, Production, Development}

\* Everything is set, by the runtime, for alice.
Complete ==
  [k \in Key |-> CASE k = "APP_ENV" -> Production
                   [] k \in {"USERBOT_OWNER_ID", "TELEGRAM_PHONE"} -> alice
                   [] k \in Optional -> Absent
                   [] OTHER -> some]

\* The phone of the wrong account; another passphrase; the owner left to .env,
\* the environment too; and a variable its parser refuses.
wrongPhone == [Complete EXCEPT !["TELEGRAM_PHONE"] = bob]
otherPass  == [Complete EXCEPT !["TELEGRAM_SESSION_PASSPHRASE"] = other]
withDotEnv == [Complete EXCEPT !["APP_ENV"] = Blank, !["USERBOT_OWNER_ID"] = Absent]
badLevel   == [Complete EXCEPT !["LOG_LEVEL"] = Bad]

bobsDotEnv == [k \in Key |-> CASE k = "APP_ENV" -> Development
                               [] k \in {"USERBOT_OWNER_ID", "TELEGRAM_PHONE"} -> bob
                               [] k = "MIRROR_BOT_MESSAGES" -> some
                               [] OTHER -> Absent]

mcEnvironments == {Complete, otherPass, withDotEnv}
mcDotEnvs      == {Broken, bobsDotEnv}
mcLogins       == {Complete, wrongPhone, badLevel}
mcNoDotEnv     == {NoFile}

=============================================================================
