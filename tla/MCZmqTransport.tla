--------------------------- MODULE MCZmqTransport ---------------------------
(* Model values and small sets for the run of ZmqTransport. *)
EXTENDS ZmqTransport

CONSTANTS p, stranger, tx, ae

OnePeer == {p}
NoPeer == {}
TwoPorts == 1..2
OnePort == {1}
TxAndAe == {tx, ae}
=============================================================================
