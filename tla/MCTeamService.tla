----------------------------- MODULE MCTeamService -----------------------------
(* Three users, two teams and three requests are enough for each hazard: two   *)
(* invitations of one person racing behind the founding of the team; a member  *)
(* who was just invited inviting a third user; the owner of one team inviting  *)
(* into another.                                                               *)
EXTENDS TeamService, TLC

CONSTANTS u1, u2, u3, r1, r2, r3, t1, t2

MCUsers == {u1, u2, u3}
MCRequests == {r1, r2, r3}
MCTeams == {t1, t2}

MCSymmetry == Permutations(MCUsers) \union Permutations(MCRequests)
              \union Permutations(MCTeams)

===============================================================================
