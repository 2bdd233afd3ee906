---------------------------- MODULE MCInviteBreaker ----------------------------
(* Six calls: three to open the breaker, one let out before that whose result  *)
(* comes late, one to try the mail service and one that competes with it.      *)
EXTENDS InviteBreaker, TLC

CONSTANTS c1, c2, c3, c4, c5, c6

MCCalls == {c1, c2, c3, c4, c5, c6}

MCSymmetry == Permutations(MCCalls)

===============================================================================
