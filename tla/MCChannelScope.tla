--------------------------- MODULE MCChannelScope ---------------------------
(* A request with two publishing tasks and one coroutine consuming.        *)
EXTENDS ChannelScope

CONSTANTS p1, p2, c1
=============================================================================
