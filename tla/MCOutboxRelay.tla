--------------------------- MODULE MCOutboxRelay ---------------------------
(* OutboxRelay for TLC: two sources, so that the failure of one tick is felt
   by the other, and a poison pill at the head of the first queue. *)
EXTENDS OutboxRelay

MC_Poison == {<<1, 1>>}
=============================================================================
