------------------------------ MODULE Membership ------------------------------
(* The tables teams and team_members and the statements that write them        *)
(* (internal/repository/team_repository.go), with the role predicates of       *)
(* internal/model/role.go.  Team ids are handed out by AUTO_INCREMENT: Teams   *)
(* is the set of ids a behaviour may use, and creator[t] = None says that row  *)
(* t of teams does not exist yet.  No statement of the program updates or      *)
(* deletes a row of either table.                                              *)

CONSTANTS
    Users,      \* the ids users may get
    Teams,      \* the ids teams may get
    None        \* no user: SQL NULL, or no row

ASSUME NoneIsNoUser == None \notin Users

VARIABLES
    creator,    \* creator[t]: teams.created_by
    role        \* role[t][u]: team_members.role of the row with key (t, u)

membership == <<creator, role>>

Roles == {"owner", "admin", "member"}

NoRole == "stranger"     \* no team_members row

MembershipTypeOK ==
    /\ creator \in [Teams -> Users \union {None}]
    /\ role \in [Teams -> [Users -> Roles \union {NoRole}]]

NoTeams ==
    /\ creator = [t \in Teams |-> None]
    /\ role = [t \in Teams |-> [u \in Users |-> NoRole]]

-------------------------------------------------------------------------------
(* Reads *)

GetRole(t, u) == role[t][u]

IsMember(t, u) == GetRole(t, u) # NoRole

CanInviteLoose(r) == r # NoRole

CanInvite(r) == r \in {"owner", "admin"}

CanManageAnyTask(r) == r \in {"owner", "admin"}

-------------------------------------------------------------------------------
(* Writes.  An operator that ends in "Loose" is the mistake its namesake rules *)
(* out; no specification uses it.                                              *)

(* CreateWithOwner commits both rows in one transaction. *)
CreateWithOwnerLoose(t, u) ==
    /\ creator[t] = None
    /\ creator' = [creator EXCEPT ![t] = u]
    /\ UNCHANGED role

CreateWithOwner(t, u) ==
    /\ creator[t] = None
    /\ creator' = [creator EXCEPT ![t] = u]
    /\ role' = [role EXCEPT ![t][u] = "owner"]

(* The unique key (team_id, user_id) of team_members refuses a second row. *)
DuplicateKeyLoose(t, u) == FALSE

DuplicateKey(t, u) == IsMember(t, u)

AddMember(t, u, r) ==
    /\ creator[t] # None
    /\ ~DuplicateKey(t, u)
    /\ role' = [role EXCEPT ![t][u] = r]
    /\ UNCHANGED creator

-------------------------------------------------------------------------------
(* What the two tables promise together: a team that exists has exactly one    *)
(* owner, who is its creator, and a team that does not exist has no members.   *)
(* CreateWithOwner's comment says it inserts both rows in one transaction "so  *)
(* a team never exists without an owner" (team_repository.go:25-26).           *)
OneOwner ==
    \A t \in Teams :
        /\ creator[t] = None => \A u \in Users : ~IsMember(t, u)
        /\ creator[t] # None =>
              \A u \in Users : GetRole(t, u) = "owner" <=> u = creator[t]

===============================================================================
