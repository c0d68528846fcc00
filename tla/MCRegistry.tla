----------------------------- MODULE MCRegistry -----------------------------
(***************************************************************************)
(* A small instance of Registry: two users who may each be the owner, one  *)
(* group with one title, two handler goroutines.                           *)
(***************************************************************************)
EXTENDS Registry

CONSTANTS u1, u2, g, title, h1, h2

mcUserID == {u1, u2}
mcChatID == {g}
mcTitle  == {title}
mcThread == {h1, h2}

=============================================================================
