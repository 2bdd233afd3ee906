------------------------------ MODULE TeamService ------------------------------
(* The requests POST /teams and POST /teams/{id}/invite, one database or       *)
(* notifier call per step, any number of them in flight at once                *)
(* (internal/service/team_service.go over internal/repository).  A request     *)
(* that failed and is sent again by its client is a new element of Requests.   *)
EXTENDS Membership, Naturals

CONSTANTS
    Requests,   \* the requests of a behaviour, each handled once
    NoJob       \* what a request that has not arrived asks for

ASSUME RequestsAreNoJobs == NoJob \notin [op : {"create"}, actor : Users]
                  \union [op : {"invite"}, actor : Users, team : Teams, invitee : Users]

VARIABLES
    registered, \* the rows of the users table
    pc,         \* pc[r]: the call request r makes next
    job,        \* job[r]: what it asks for
    answer,     \* answer[r]: the HTTP status, 0 before there is one
    inviter,    \* history variable, inviter[t][u]: whose request inserted u's row
    mails       \* mails[t][u]: invitations to team t the mail service has taken for u

control == <<pc, job, answer>>
vars == <<membership, registered, pc, job, answer, inviter, mails>>

CreateJobs == [op : {"create"}, actor : Users]
InviteJobs == [op : {"invite"}, actor : Users, team : Teams, invitee : Users]
Jobs == CreateJobs \union InviteJobs

(* A request that the process dropped: a crash, or a client that went away.    *)
Dropped == 1

PcValues == {"idle", "authorize", "lookup", "insert", "notify", "commit", "done"}

TypeOK ==
    /\ MembershipTypeOK
    /\ registered \subseteq Users
    /\ pc \in [Requests -> PcValues]
    /\ job \in [Requests -> Jobs \union {NoJob}]
    /\ answer \in [Requests -> {0, Dropped, 201, 403, 404, 409, 500}]
    /\ inviter \in [Teams -> [Users -> Users \union {None}]]
    /\ mails \in [Teams -> [Users -> Nat]]
    /\ \A r \in Requests :
          /\ pc[r] = "idle" <=> job[r] = NoJob
          /\ pc[r] = "done" <=> answer[r] # 0
          /\ pc[r] \in {"authorize", "lookup", "insert", "notify"} =>
                job[r] \in InviteJobs
          /\ pc[r] = "commit" => job[r] \in CreateJobs

Init ==
    /\ NoTeams
    /\ registered = {}
    /\ pc = [r \in Requests |-> "idle"]
    /\ job = [r \in Requests |-> NoJob]
    /\ answer = [r \in Requests |-> 0]
    /\ inviter = [t \in Teams |-> [u \in Users |-> None]]
    /\ mails = [t \in Teams |-> [u \in Users |-> 0]]

-------------------------------------------------------------------------------

Goto(r, where) ==
    /\ pc' = [pc EXCEPT ![r] = where]
    /\ UNCHANGED <<job, answer>>

Answer(r, status) ==
    /\ pc' = [pc EXCEPT ![r] = "done"]
    /\ answer' = [answer EXCEPT ![r] = status]
    /\ UNCHANGED job

(* A user signs up, at any time: an invitation can come before or after. *)
Register(u) ==
    /\ u \notin registered
    /\ registered' = registered \union {u}
    /\ UNCHANGED <<membership, control, inviter, mails>>

(* Auth lets through who has a valid token, which Login gave her, so that she  *)
(* has registered.                                                             *)
Authenticated(u) == u \in registered

Start(r, j) ==
    /\ pc[r] = "idle"
    /\ Authenticated(j.actor)
    /\ job' = [job EXCEPT ![r] = j]
    /\ pc' = [pc EXCEPT ![r] = IF j.op = "create" THEN "commit" ELSE "authorize"]
    /\ UNCHANGED <<membership, registered, answer, inviter, mails>>

(* CreateWithOwner.  The COMMIT may succeed and its confirmation be lost: the  *)
(* client is told 500 and the team exists.                                     *)
CommitTeam(r, t) ==
    /\ pc[r] = "commit"
    /\ CreateWithOwner(t, job[r].actor)
    /\ \E status \in {201, 500} : Answer(r, status)
    /\ UNCHANGED <<registered, inviter, mails>>

(* Invite, 36-42: no row is 403, and so is a role that may not invite. *)
CheckRole(r) ==
    /\ pc[r] = "authorize"
    /\ IF CanInvite(GetRole(job[r].team, job[r].actor))
         THEN Goto(r, "lookup")
         ELSE Answer(r, 403)
    /\ UNCHANGED <<membership, registered, inviter, mails>>

(* Invite, 44-51: an address nobody registered is 404. *)
FindInviteeLoose(r) ==
    /\ pc[r] = "lookup"
    /\ pc' = [pc EXCEPT ![r] = "insert"]
    /\ answer' = [answer EXCEPT ![r] = IF job[r].invitee \in registered THEN @ ELSE 404]
    /\ UNCHANGED <<membership, registered, job, inviter, mails>>

FindInvitee(r) ==
    /\ pc[r] = "lookup"
    /\ IF job[r].invitee \in registered THEN Goto(r, "insert") ELSE Answer(r, 404)
    /\ UNCHANGED <<membership, registered, inviter, mails>>

(* Invite, 53-55: the row is inserted, or refused by the unique key. *)
AddInvitee(r) ==
    /\ AddMember(job[r].team, job[r].invitee, "member")
    /\ inviter' = [inviter EXCEPT ![job[r].team][job[r].invitee] = job[r].actor]

InsertMember(r) ==
    /\ pc[r] = "insert"
    /\ \/ /\ AddInvitee(r)
          /\ Goto(r, "notify")
       \/ /\ DuplicateKey(job[r].team, job[r].invitee)
          /\ Answer(r, 409)
          /\ UNCHANGED <<membership, inviter>>
    /\ UNCHANGED <<registered, mails>>

(* The same INSERT when the connection breaks after MySQL has applied it: the  *)
(* member is in, the client is told 500, and nothing is ever mailed.           *)
InsertUnconfirmed(r) ==
    /\ pc[r] = "insert"
    /\ AddInvitee(r)
    /\ Answer(r, 500)
    /\ UNCHANGED <<registered, mails>>

(* Invite, 57-62: best effort, the answer is 201 whether or not a mail went    *)
(* out, unless the process dies before it is written.                          *)
NotifyInvitee(r) ==
    /\ pc[r] = "notify"
    /\ \E sent \in {0, 1} : mails' = [mails EXCEPT ![job[r].team][job[r].invitee] = @ + sent]
    /\ \E status \in {201, Dropped} : Answer(r, status)
    /\ UNCHANGED <<membership, registered, inviter>>

(* A database call returns an error and changes nothing; a transaction that    *)
(* was open is rolled back.                                                    *)
Fail(r) ==
    /\ pc[r] \in {"authorize", "lookup", "insert", "commit"}
    /\ Answer(r, 500)
    /\ UNCHANGED <<membership, registered, inviter, mails>>

(* The process dies, or panics, between two calls of the request. *)
Drop(r) ==
    /\ pc[r] \notin {"idle", "done"}
    /\ Answer(r, Dropped)
    /\ UNCHANGED <<membership, registered, inviter, mails>>

Step(r) ==
    \/ \E j \in Jobs : Start(r, j)
    \/ \E t \in Teams : CommitTeam(r, t)
    \/ CheckRole(r)
    \/ FindInvitee(r)
    \/ InsertMember(r)
    \/ InsertUnconfirmed(r)
    \/ NotifyInvitee(r)
    \/ Fail(r)
    \/ Drop(r)

Next ==
    \/ \E u \in Users : Register(u)
    \/ \E r \in Requests : Step(r)

Spec == Init /\ [][Next]_vars

-------------------------------------------------------------------------------

Invites(r, t, u) == job[r] \in InviteJobs /\ job[r].team = t /\ job[r].invitee = u

(* However invitations of the same person race, fail and are retried, she is   *)
(* mailed at most once per team and only when her row is there, and at most    *)
(* one request about her is past its INSERT or answered 201 (team_service.go   *)
(* 53-62 and the unique key behind it).                                        *)
InvitedOnce ==
    \A t \in Teams, u \in Users :
        LET winners == {r \in Requests : Invites(r, t, u) /\ (pc[r] = "notify" \/ answer[r] = 201)}
        IN  /\ \A r, s \in winners : r = s
            /\ mails[t][u] <= 1
            /\ winners # {} \/ mails[t][u] = 1 => GetRole(t, u) = "member"

(* What an answer says about the tables holds when it is given and ever after: *)
(* 201 and 409 mean the invitee is in, 201 to a founder that she owns a team,  *)
(* and who was let past the role check can still invite.                       *)
AnswersHold ==
    \A r \in Requests :
        /\ job[r] \in InviteJobs /\ answer[r] \in {201, 409} =>
              IsMember(job[r].team, job[r].invitee)
        /\ job[r] \in CreateJobs /\ answer[r] = 201 =>
              \E t \in Teams : GetRole(t, job[r].actor) = "owner"
        /\ pc[r] \in {"lookup", "insert", "notify"} =>
              CanInvite(GetRole(job[r].team, job[r].actor))

Roster == INSTANCE TeamRoster WITH creator <- creator, role <- role, inviter <- inviter

(* The requests implement the roster, in which checking the inviter and        *)
(* admitting the member are one indivisible step (Invite and GetRole /         *)
(* AddMember, team_service.go:35-63).                                          *)
ImplementsRoster == Roster!Spec

===============================================================================
