--------------------------- MODULE MCBroadcaster ----------------------------
(* Broadcaster with three clients. *)
EXTENDS Broadcaster

MCClients == <<"w1", "w2", "w3">>

=============================================================================
