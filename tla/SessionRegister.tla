--------------------------- MODULE SessionRegister ---------------------------
(***************************************************************************)
(* What the session file promises its users: one register.  A store        *)
(* replaces the session at one stroke or not at all.  A load is answered   *)
(* from the one session that was there at some moment of it, or fails and  *)
(* says that it did: it may not pass a failure for an answer.              *)
(***************************************************************************)
CONSTANTS
  Actor,       \* goroutines, of any process, that load or store the session
  Pass,        \* Pass[a]: the passphrase actor a knows
  Sealed,      \* complete sessions, each with a passphrase and its data
  NoSession    \* there is no session file

VARIABLES
  value,       \* the session at rest
  bound,       \* bound[a]: the session actor a's load will be answered from
  answer       \* answer[a]: what its last load returned

register == <<value, bound, answer>>

Init ==
  /\ value = NoSession
  /\ bound = [a \in Actor |-> NoSession]
  /\ answer = [a \in Actor |-> [kind |-> "none"]]

StoreSession == value' \in Sealed /\ UNCHANGED <<bound, answer>>

NotFound(a) ==
  /\ value = NoSession
  /\ answer' = [answer EXCEPT ![a] = [kind |-> "not_found"]]
  /\ UNCHANGED <<value, bound>>

LoadSession(a) ==
  /\ bound' = [bound EXCEPT ![a] = value]
  /\ UNCHANGED <<value, answer>>

Reply(a) ==
  /\ bound[a] \in Sealed
  /\ answer' = [answer EXCEPT ![a] =
       IF bound[a].pass = Pass[a] THEN [kind |-> "ok", data |-> bound[a].data]
                                  ELSE [kind |-> "refused"]]
  /\ bound' = [bound EXCEPT ![a] = NoSession]
  /\ UNCHANGED value

\* The load's context is cancelled, or the session cannot be read.
Fail(a) ==
  /\ answer' = [answer EXCEPT ![a] = [kind |-> "failed"]]
  /\ bound' = [bound EXCEPT ![a] = NoSession]
  /\ UNCHANGED value

\* The load is killed before it can answer.
Forget(a) ==
  /\ bound' = [bound EXCEPT ![a] = NoSession]
  /\ UNCHANGED <<value, answer>>

Next ==
  \/ StoreSession
  \/ \E a \in Actor : NotFound(a) \/ LoadSession(a) \/ Reply(a) \/ Fail(a) \/ Forget(a)

Spec == Init /\ [][Next]_register

=============================================================================
