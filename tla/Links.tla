-------------------------------- MODULE Links --------------------------------
(***************************************************************************)
(* The two transports a client may have: a WebSocket, whose stream keeps   *)
(* order and loses nothing, and WebTransport datagrams, which may overtake *)
(* each other and be lost.  A link is the sequence of messages in flight.  *)
(***************************************************************************)
EXTENDS Integers, Sequences

CONSTANT Reliable    \* TRUE: WebSocket; FALSE: WebTransport datagrams

\* A link without its ith message.
Without(s, i) == SubSeq(s, 1, i - 1) \o SubSeq(s, i + 1, Len(s))

\* Which message may arrive next.
MayArrive(s) == IF Reliable THEN {1} \cap DOMAIN s ELSE DOMAIN s
=============================================================================
