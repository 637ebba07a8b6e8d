--------------------------- MODULE MCNexonClient ---------------------------
(* The app key and one personal key with its shorter interval. *)
EXTENDS NexonClient, TLC

CONSTANTS app, personal

MCKey == {app, personal}
MCInterval == (app :> 3) @@ (personal :> 2)

=============================================================================
