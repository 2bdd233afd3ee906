------------------------------ MODULE TeamRoster ------------------------------
(* What the team endpoints promise, with no requests, steps or failures: users *)
(* found teams and become their owners, and somebody who may invite at that    *)
(* very moment admits a new member.  Nobody leaves and no role ever changes.   *)
(* TeamService checks the inviter's role and inserts the row in separate       *)
(* database calls; that it implements this specification says the gap between  *)
(* them cannot be seen.                                                        *)

CONSTANTS Users, Teams, None

VARIABLES
    creator, role,
    inviter     \* inviter[t][u]: who admitted u to t

roster == <<creator, role, inviter>>

Init ==
    /\ creator = [t \in Teams |-> None]
    /\ role = [t \in Teams |-> [u \in Users |-> "stranger"]]
    /\ inviter = [t \in Teams |-> [u \in Users |-> None]]

Found(t, u) ==
    /\ creator[t] = None
    /\ creator' = [creator EXCEPT ![t] = u]
    /\ role' = [role EXCEPT ![t] =
                  [v \in Users |-> IF v = u THEN "owner" ELSE "stranger"]]
    /\ UNCHANGED inviter

Admit(t, by, u) ==
    /\ role[t][by] \in {"owner", "admin"}
    /\ role[t][u] = "stranger"
    /\ role' = [role EXCEPT ![t][u] = "member"]
    /\ inviter' = [inviter EXCEPT ![t][u] = by]
    /\ UNCHANGED creator

Next ==
    \E t \in Teams, u \in Users :
        \/ Found(t, u)
        \/ \E by \in Users : Admit(t, by, u)

Spec == Init /\ [][Next]_roster

===============================================================================
