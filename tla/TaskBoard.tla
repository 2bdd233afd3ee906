------------------------------ MODULE TaskBoard ------------------------------
(* What the task endpoints promise about what is stored, with no requests,     *)
(* locks or failures: somebody who belongs to the team creates a task or edits *)
(* it in one indivisible step, a plain member never changes the assignee, a    *)
(* task is only ever given to a member of its own team, and every edit leaves  *)
(* exactly one revision that says who changed which field from what to what.   *)
(* Membership only grows, as TeamRoster says; a board does not care why.       *)
EXTENDS Sequences

CONSTANTS Users, Teams, Tasks, Values, None

VARIABLES
    role,       \* role[t][u]
    tasks,      \* tasks[i]: None, or [team, author, row]
    history     \* history[i]: a sequence of [by, old, new]

board == <<role, tasks, history>>

Fields == {"title", "description", "status", "assignee_to"}

Belongs(t, u) == role[t][u] # "stranger"

Assignable(t, v) == v = None \/ Belongs(t, v)

Join(t, u) ==
    /\ ~Belongs(t, u)
    /\ \E r \in {"owner", "member"} : role' = [role EXCEPT ![t][u] = r]
    /\ UNCHANGED <<tasks, history>>

(* Create and Edit say how the new row relates to the old one; which row it is *)
(* the primed variable tells.                                                  *)
Create(i, by, t) ==
    LET row == tasks'[i].row
    IN  /\ tasks[i] = None /\ tasks'[i] # None
        /\ tasks' = [tasks EXCEPT ![i] = [team |-> t, author |-> by, row |-> row]]
        /\ row \in [Fields -> Values]
        /\ Belongs(t, by)
        /\ row["status"] = "todo"
        /\ Assignable(t, row["assignee_to"])
        /\ UNCHANGED <<role, history>>

Edit(i, by) ==
    LET t == tasks[i].team
        old == tasks[i].row
        new == tasks'[i].row
        changed == {f \in Fields : new[f] # old[f]}
    IN  /\ tasks[i] # None
        /\ tasks' = [tasks EXCEPT ![i].row = new]
        /\ new \in [Fields -> Values]
        /\ changed # {}
        /\ Belongs(t, by)
        /\ "assignee_to" \in changed =>
              role[t][by] \in {"owner", "admin"} /\ Assignable(t, new["assignee_to"])
        /\ history' = [history EXCEPT ![i] =
              Append(@, [by |-> by, old |-> [f \in changed |-> old[f]],
                                    new |-> [f \in changed |-> new[f]]])]
        /\ UNCHANGED role

Next ==
    \/ \E t \in Teams, u \in Users : Join(t, u)
    \/ \E i \in Tasks, by \in Users :
          \/ \E t \in Teams : Create(i, by, t)
          \/ Edit(i, by)

Init ==
    /\ role \in [Teams -> [Users -> {"owner", "admin", "member", "stranger"}]]
    /\ tasks \in [Tasks -> {None} \union [team : Teams, author : Users, row : [Fields -> Values]]]
    /\ \A i \in Tasks : tasks[i] # None =>
          /\ Belongs(tasks[i].team, tasks[i].author)
          /\ Assignable(tasks[i].team, tasks[i].row["assignee_to"])
    /\ history = [i \in Tasks |-> <<>>]

Spec == Init /\ [][Next]_board

==============================================================================
