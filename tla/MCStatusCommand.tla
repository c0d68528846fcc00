-------------------------- MODULE MCStatusCommand --------------------------
(***************************************************************************)
(* A small instance of StatusCommand: a basic group and a channel with the *)
(* same number, and a second basic group, two users.                       *)
(***************************************************************************)
EXTENDS StatusCommand

CONSTANTS owner, guest

mcUser  == {owner, guest}
mcPeers == {[kind |-> "chat", id |-> 1], [kind |-> "chat", id |-> 2],
            [kind |-> "channel", id |-> 1]}

=============================================================================
