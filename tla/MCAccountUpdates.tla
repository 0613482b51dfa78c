-------------------------- MODULE MCAccountUpdates --------------------------
(* AccountUpdates with one peer, its streams in succession.                *)
EXTENDS AccountUpdates

MCIds == {1}
MCStreams == 1 .. 1
=============================================================================
