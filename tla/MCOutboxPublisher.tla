------------------------- MODULE MCOutboxPublisher --------------------------
(* Small instances of OutboxPublisher. *)
EXTENDS OutboxPublisher

CONSTANTS k1, k2
=============================================================================
