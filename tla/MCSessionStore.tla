--------------------------- MODULE MCSessionStore ---------------------------
(***************************************************************************)
(* A small instance of SessionStore: two processes whose passphrases       *)
(* differ, and two sessions to store.                                      *)
(***************************************************************************)
EXTENDS SessionStore

CONSTANTS a1, a2, right, wrong, d1, d2

mcActor      == {a1, a2}
mcPassphrase == {right, wrong}
mcPass       == [a \in Actor |-> IF a = a2 THEN wrong ELSE right]
mcData       == {d1, d2}

=============================================================================
