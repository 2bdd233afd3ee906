------------------------------ MODULE MCRateLimit ------------------------------
(* Two clients, a limit of two, and four requests in two windows: enough for   *)
(* one client to use up her limit and be refused, for the other one to come    *)
(* meanwhile, and for a stalled request to find its counter expired.           *)
EXTENDS RateLimit, TLC

CONSTANTS c1, c2, r1, r2, r3, r4

MCClients == {c1, c2}
MCRequests == {r1, r2, r3, r4}

MCSymmetry == Permutations(MCRequests) \union Permutations(MCClients)

===============================================================================
