---------------------------- MODULE MCTaskListCache ----------------------------
(* One team (teams share nothing here but Redis), two filters and three        *)
(* requests: a slow list, the change that overtakes it, and the list that could *)
(* find what the slow one stored, or a second change or list in between.       *)
EXTENDS TaskListCache, TLC

CONSTANTS t1, f1, f2, r1, r2, r3

MCTeams == {t1}
OneFilter == {f1}
TwoFilters == {f1, f2}
ThreeRequests == {r1, r2, r3}
ClientOnly == {"client"}

===============================================================================
