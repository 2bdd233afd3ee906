-------------------------------- MODULE MCReads --------------------------------
(* Three users in one team, with a task each of two of them and a third task to *)
(* come, and a second team without any task that two of them belong to; three   *)
(* moments, with months of two and a week of one: ties and the cut of a ranking *)
(* of two, a month that ends, tasks that leave the week, and three revisions,   *)
(* of one moment or several, on pages of one or two.  Two clients change tasks  *)
(* at once, so that one has a transaction open while the other commits.  Ints   *)
(* go up to 3, so that the offsets of high pages overflow.                      *)
EXTENDS Reads, TLC

CONSTANTS t1, t2, x1, x2, x3, c1, c2

MCUsers == 1 .. 3
MCTeams == {t1, t2}
MCTasks == {x1, x2, x3}
MCClients == {c1, c2}
OneClient == {c1}

MCCreations == [user : {1, 3}, team : {t1}]
(* The first changes two fields, or one of a task that is done already.        *)
MCEdits == {[other |-> TRUE, status |-> "done"], [other |-> FALSE, status |-> "todo"]}

MCInit ==
    /\ creator = (t1 :> 1 @@ t2 :> 3)
    /\ role = (t1 :> (1 :> "owner" @@ 2 :> "member" @@ 3 :> "member")
            @@ t2 :> (1 :> NoRole @@ 2 :> "member" @@ 3 :> "owner"))
    /\ now = 0
    /\ tasks = [i \in Tasks |-> IF i = x3 THEN None
          ELSE [team |-> t1, by |-> IF i = x1 THEN 1 ELSE 2, status |-> "todo",
                created_at |-> 0, updated_at |-> 0]]
    /\ history = [i \in Tasks |-> <<>>]
    /\ tx = [c \in Clients |-> None]

MCSymmetry == Permutations(MCClients)

MCSpec == MCInit /\ [][Next]_vars

===============================================================================
