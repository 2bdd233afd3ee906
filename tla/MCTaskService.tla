---------------------------- MODULE MCTaskService ----------------------------
(* Team t1 is alice's, with bob as a member whom task x1 is assigned to; team   *)
(* t2 is carol's, with both as members, and carol may join t1.  Three requests  *)
(* out of the inputs below may each be any of them, the same one included: that *)
(* is enough for a reassignment to land between bob's check and bob's write,    *)
(* for two updates of one task to overlap, for one that became a no-op before   *)
(* it got the lock, for a task to be created and edited at once, and for two    *)
(* transactions to hold all of a pool of two while the third request needs a    *)
(* connection.                                                                  *)
EXTENDS TaskService, TLC

CONSTANTS alice, bob, carol, t1, t2, x1, x2, x3, x4, r1, r2, r3, a, b, text

MCUsers == {alice, bob, carol}
MCTeams == {t1, t2}
MCTasks == {x1, x2, x3, x4}   \* an id for each of three requests that create
MCTitles == {a, b}
MCTexts == {text}
MCRequests == {r1, r2, r3}
TwoRequests == {r1, r2}

Update(u, i, set) == [op |-> "update", actor |-> u, task |-> i, set |-> set]
Create(u, t, set) == [op |-> "create", actor |-> u, team |-> t, set |-> set]

MCInputs == {
    Update(bob, x1, "title" :> b),
    Update(bob, x1, "status" :> "done" @@ "description" :> None),
    Update(bob, x1, "assignee_to" :> bob @@ "title" :> b),
    Update(alice, x1, "assignee_to" :> carol @@ "title" :> b),
    Update(alice, x2, "assignee_to" :> None @@ "description" :> text),
    Update(alice, x2, "status" :> Junk),
    Create(carol, t1, "title" :> a @@ "assignee_to" :> bob)}

MCInit ==
    /\ creator = [t \in Teams |-> IF t = t1 THEN alice ELSE carol]
    /\ role = [t \in Teams |-> [u \in Users |->
          IF u = creator[t] THEN "owner" ELSE IF t = t1 /\ u = carol THEN NoRole ELSE "member"]]
    /\ tasks = [i \in Tasks |-> IF i = x1
          THEN [team |-> t1, author |-> alice,
                row |-> [title |-> a, description |-> None, status |-> "todo", assignee_to |-> bob]]
          ELSE None]
    /\ Init

MCSpec == MCInit /\ [][Next]_vars /\ Fairness

==============================================================================
