------------------------------ MODULE MCOutbox ------------------------------
(* Two relays whose batch can be filled by events that are never published. *)
EXTENDS Outbox

MCMaxEvents == <<1, 2, 1>>
MCRefused == {<<1, 1>>, <<3, 1>>}
=============================================================================
