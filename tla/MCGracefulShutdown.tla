--------------------------- MODULE MCGracefulShutdown ---------------------------
(* Three connections, so that at the signal one can be idle, one at work and   *)
(* one still to come, and the two closers that main hands over.                *)
EXTENDS GracefulShutdown

CONSTANTS c1, c2, c3

MCConns == {c1, c2, c3}

================================================================================
