--------------------------- MODULE TeamServiceProofs ---------------------------
(* For any number of users, teams and requests: a team has one owner, an       *)
(* invitation is accepted and mailed at most once, and the requests implement  *)
(* the roster, where the check of the inviter and the insertion are one step.  *)
EXTENDS TeamService, TLAPS

LEMMA InitTyped == Init => TypeOK
<1> SUFFICES ASSUME Init PROVE TypeOK
  OBVIOUS
<1>1. MembershipTypeOK
  BY DEF Init, NoTeams, MembershipTypeOK
<1>2. inviter \in [Teams -> [Users -> Users \union {None}]] /\ mails \in [Teams -> [Users -> Nat]]
  BY DEF Init
<1> QED
  BY <1>1, <1>2 DEF Init, TypeOK, PcValues

LEMMA StepTyped == TypeOK /\ [Next]_vars => TypeOK'
<1> SUFFICES ASSUME TypeOK, [Next]_vars PROVE TypeOK'
  OBVIOUS
<1> USE DEF TypeOK, MembershipTypeOK, PcValues, Dropped, membership, control
<1>1. ASSUME NEW u \in Users, Register(u) PROVE TypeOK'
  BY <1>1 DEF Register
<1>2. ASSUME NEW r \in Requests, NEW j \in Jobs, Start(r, j) PROVE TypeOK'
  BY <1>2, RequestsAreNoJobs DEF Start, Jobs, CreateJobs, InviteJobs
<1>3. ASSUME NEW r \in Requests, NEW t \in Teams, CommitTeam(r, t) PROVE TypeOK'
  BY <1>3 DEF CommitTeam, CreateWithOwner, Answer, CreateJobs, Roles
<1>4. ASSUME NEW r \in Requests, CheckRole(r) PROVE TypeOK'
  BY <1>4 DEF CheckRole, Goto, Answer
<1>5. ASSUME NEW r \in Requests, FindInvitee(r) PROVE TypeOK'
  BY <1>5 DEF FindInvitee, Goto, Answer
<1>6. ASSUME NEW r \in Requests, InsertMember(r) PROVE TypeOK'
  <2>1. job[r] \in InviteJobs /\ job[r].team \in Teams /\ job[r].invitee \in Users
        /\ job[r].actor \in Users
    BY <1>6 DEF InsertMember, InviteJobs
  <2>2. CASE AddInvitee(r) /\ Goto(r, "notify")
    <3>1. MembershipTypeOK' /\ (inviter \in [Teams -> [Users -> Users \union {None}]])'
      BY <2>1, <2>2 DEF AddInvitee, AddMember, Roles
    <3> QED
      BY <1>6, <2>1, <2>2, <3>1 DEF InsertMember, Goto
  <2>3. CASE Answer(r, 409) /\ UNCHANGED <<membership, inviter>>
    BY <1>6, <2>3 DEF InsertMember, Answer
  <2> QED
    BY <1>6, <2>2, <2>3 DEF InsertMember
<1>7. ASSUME NEW r \in Requests, InsertUnconfirmed(r) PROVE TypeOK'
  BY <1>7 DEF InsertUnconfirmed, AddInvitee, AddMember, Answer, InviteJobs, Roles
<1>8. ASSUME NEW r \in Requests, NotifyInvitee(r) PROVE TypeOK'
  BY <1>8 DEF NotifyInvitee, Answer, InviteJobs
<1>9. ASSUME NEW r \in Requests, Fail(r) PROVE TypeOK'
  BY <1>9 DEF Fail, Answer
<1>10. ASSUME NEW r \in Requests, Drop(r) PROVE TypeOK'
  BY <1>10 DEF Drop, Answer
<1>11. CASE UNCHANGED vars
  BY <1>11 DEF vars
<1> QED
  BY <1>1, <1>2, <1>3, <1>4, <1>5, <1>6, <1>7, <1>8, <1>9, <1>10, <1>11 DEF Next, Step

(* Every variable keeps its type, a request has an answer exactly when it is   *)
(* done, and it only makes the calls of its own operation.                     *)
THEOREM Typing == Spec => []TypeOK
BY InitTyped, StepTyped, PTL DEF Spec

--------------------------------------------------------------------------------
(* The inductive invariant.  Beyond the properties it says that a mail which   *)
(* went out belongs to a row and leaves no request that would send another.    *)

Won(r) == job[r] \in InviteJobs /\ (pc[r] = "notify" \/ answer[r] = 201)

SamePerson(r, s) == job[r].team = job[s].team /\ job[r].invitee = job[s].invitee

WinnersAreMembers ==
    \A r \in Requests : Won(r) => role[job[r].team][job[r].invitee] = "member"

OneWinner == \A r, s \in Requests : Won(r) /\ Won(s) /\ SamePerson(r, s) => r = s

MailsAreForMembers ==
    \A t \in Teams, u \in Users :
        mails[t][u] # 0 =>
            /\ mails[t][u] = 1
            /\ role[t][u] = "member"
            /\ \A r \in Requests : Invites(r, t, u) => pc[r] # "notify"

Inv ==
    /\ OneOwner
    /\ WinnersAreMembers
    /\ OneWinner
    /\ MailsAreForMembers
    /\ AnswersHold

LEMMA InitInv == Init => Inv
BY DEF Init, NoTeams, Inv, OneOwner, WinnersAreMembers, OneWinner, MailsAreForMembers, AnswersHold,
       Won, SamePerson, IsMember, GetRole, CreateJobs, InviteJobs, Invites

(* The steps that leave both tables and the mails alone. *)
LEMMA QuietStep ==
  ASSUME TypeOK, Inv, UNCHANGED <<membership, mails>>, NEW r \in Requests, UNCHANGED job,
         pc[r] # "notify", \A s \in Requests \ {r} : pc'[s] = pc[s] /\ answer'[s] = answer[s],
         pc'[r] # "notify",
         \/ /\ pc'[r] \in {"lookup", "insert"} /\ answer'[r] = answer[r]
            /\ CanInvite(GetRole(job[r].team, job[r].actor))
         \/ /\ pc'[r] = "done" /\ answer'[r] # 201
            /\ answer'[r] = 409 => IsMember(job[r].team, job[r].invitee)
  PROVE  Inv'
BY DEF TypeOK, Inv, membership, OneOwner, WinnersAreMembers, OneWinner, MailsAreForMembers,
       AnswersHold, Won, SamePerson, IsMember, GetRole, CanInvite, Invites

(* What an answer says survives every step that keeps the rows there are.      *)
RolesAreKept ==
    \A t \in Teams, u \in Users : role[t][u] # NoRole => role'[t][u] = role[t][u]

AnswerHolds(r) ==
    /\ job[r] \in InviteJobs /\ answer[r] \in {201, 409} =>
          role[job[r].team][job[r].invitee] # NoRole
    /\ job[r] \in CreateJobs /\ answer[r] = 201 =>
          \E t \in Teams : role[t][job[r].actor] = "owner"
    /\ pc[r] \in {"lookup", "insert", "notify"} =>
          role[job[r].team][job[r].actor] \in {"owner", "admin"}

LEMMA AnswersHoldOneByOne == AnswersHold <=> \A r \in Requests : AnswerHolds(r)
BY DEF AnswersHold, AnswerHolds, IsMember, GetRole, CanInvite

LEMMA AnswerStillHolds ==
  ASSUME TypeOK, RolesAreKept, NEW r \in Requests, AnswerHolds(r),
         job'[r] = job[r], pc'[r] = pc[r], answer'[r] = answer[r]
  PROVE  AnswerHolds(r)'
<1>1. job[r] \in InviteJobs => job[r].team \in Teams /\ job[r].invitee \in Users /\ job[r].actor \in Users
  BY DEF InviteJobs
<1>2. job[r] \in CreateJobs => job[r].actor \in Users
  BY DEF CreateJobs
<1>3. (job[r] \in InviteJobs /\ answer[r] \in {201, 409} =>
          role[job[r].team][job[r].invitee] # NoRole)'
  BY <1>1 DEF AnswerHolds, RolesAreKept
<1>4. (job[r] \in CreateJobs /\ answer[r] = 201 => \E t \in Teams : role[t][job[r].actor] = "owner")'
  <2> SUFFICES ASSUME job[r] \in CreateJobs, answer[r] = 201
               PROVE  \E t \in Teams : role'[t][job[r].actor] = "owner"
    OBVIOUS
  <2>1. PICK t \in Teams : role[t][job[r].actor] = "owner"
    BY DEF AnswerHolds
  <2> QED
    BY <1>2, <2>1 DEF RolesAreKept, NoRole
<1>5. (pc[r] \in {"lookup", "insert", "notify"} =>
          role[job[r].team][job[r].actor] \in {"owner", "admin"})'
  <2> SUFFICES ASSUME pc[r] \in {"lookup", "insert", "notify"}
               PROVE  role'[job[r].team][job[r].actor] \in {"owner", "admin"}
    OBVIOUS
  <2>1. job[r] \in InviteJobs
    BY DEF TypeOK
  <2>2. role[job[r].team][job[r].actor] \in {"owner", "admin"}
    BY DEF AnswerHolds
  <2> QED
    BY <1>1, <2>1, <2>2 DEF RolesAreKept, NoRole
<1> QED
  BY <1>3, <1>4, <1>5 DEF AnswerHolds

(* A new member, whose row was not there, is won by the request that adds it.   *)
LEMMA AddingStep ==
  ASSUME TypeOK, Inv, NEW r \in Requests, pc[r] = "insert", AddInvitee(r),
         UNCHANGED <<job, mails>>,
         \A s \in Requests \ {r} : pc'[s] = pc[s] /\ answer'[s] = answer[s],
         \/ pc'[r] = "notify" /\ answer'[r] = answer[r]
         \/ pc'[r] = "done" /\ answer'[r] = 500
  PROVE  Inv'
<1> DEFINE t == job[r].team
           u == job[r].invitee
<1>1. t \in Teams /\ u \in Users /\ job[r] \in InviteJobs
  BY DEF TypeOK, InviteJobs
<1>2. creator' = creator /\ creator[t] # None /\ role[t][u] = NoRole
  BY DEF AddInvitee, AddMember, DuplicateKey, IsMember, GetRole
<1>3. \A t1 \in Teams, u1 \in Users :
        role'[t1][u1] = IF t1 = t /\ u1 = u THEN "member" ELSE role[t1][u1]
  BY <1>1 DEF AddInvitee, AddMember, TypeOK, MembershipTypeOK
<1>4. \A s \in Requests : Won(s)' => s = r \/ Won(s)
  BY DEF Won
<1>5. \A s \in Requests : Won(s) => ~SamePerson(r, s)
  BY <1>2 DEF Inv, WinnersAreMembers, SamePerson, NoRole
<1>6. mails[t][u] = 0
  BY <1>1, <1>2 DEF Inv, MailsAreForMembers, NoRole
<1>7. OneOwner'
  <2> SUFFICES ASSUME NEW t1 \in Teams
               PROVE  /\ creator[t1] = None => \A u1 \in Users : role'[t1][u1] = NoRole
                      /\ creator[t1] # None =>
                            \A u1 \in Users : role'[t1][u1] = "owner" <=> u1 = creator[t1]
    BY <1>2 DEF OneOwner, IsMember, GetRole
  <2>1. CASE t1 = t
    <3>1. \A u1 \in Users : role[t][u1] = "owner" <=> u1 = creator[t]
      BY <1>1, <1>2 DEF Inv, OneOwner, GetRole
    <3>2. u # creator[t]
      BY <1>1, <1>2, <3>1 DEF NoRole
    <3> QED
      BY <1>1, <1>2, <1>3, <2>1, <3>1, <3>2
  <2>2. CASE t1 # t
    BY <1>3, <2>2 DEF Inv, OneOwner, GetRole, IsMember
  <2> QED
    BY <2>1, <2>2
<1>8. WinnersAreMembers'
  BY <1>1, <1>3, <1>4 DEF Inv, WinnersAreMembers, Won, InviteJobs
<1>9. OneWinner'
  BY <1>4, <1>5 DEF Inv, OneWinner, SamePerson
<1>10. MailsAreForMembers'
  BY <1>1, <1>3, <1>6 DEF Inv, MailsAreForMembers, Invites
<1>11. AnswersHold'
  <2>1. RolesAreKept
    BY <1>2, <1>3 DEF RolesAreKept
  <2>2. \A s \in Requests : AnswerHolds(s)
    BY AnswersHoldOneByOne DEF Inv
  <2>3. AnswerHolds(r)'
    <3>1. role[t][job[r].actor] \in {"owner", "admin"} /\ job[r].actor \in Users
      BY <1>1, <2>2 DEF AnswerHolds, InviteJobs
    <3>2. job[r].actor # u
      BY <1>2, <3>1 DEF NoRole
    <3>3. role'[t][job[r].actor] = role[t][job[r].actor] /\ role'[t][u] = "member"
      BY <1>1, <1>3, <3>1, <3>2
    <3>4. answer'[r] \notin {201, 409} /\ job'[r] = job[r]
      BY DEF TypeOK
    <3> QED
      BY <3>1, <3>3, <3>4 DEF AnswerHolds
  <2>4. ASSUME NEW s \in Requests \ {r} PROVE AnswerHolds(s)'
    BY <2>1, <2>2, <2>4, AnswerStillHolds
  <2>5. \A s \in Requests : AnswerHolds(s)'
    BY <2>3, <2>4
  <2> QED
    BY <2>5 DEF AnswersHold, AnswerHolds, IsMember, GetRole, CanInvite
<1> QED
  BY <1>7, <1>8, <1>9, <1>10, <1>11 DEF Inv

LEMMA StepInv == TypeOK /\ Inv /\ [Next]_vars => Inv'
<1> SUFFICES ASSUME TypeOK, Inv, [Next]_vars PROVE Inv'
  OBVIOUS
<1>1. ASSUME NEW u \in Users, Register(u) PROVE Inv'
  BY <1>1 DEF Register, membership, control, Inv, OneOwner, WinnersAreMembers, OneWinner,
              MailsAreForMembers, AnswersHold, Won, SamePerson, IsMember, GetRole, Invites
<1>2. ASSUME NEW r \in Requests, NEW j \in Jobs, Start(r, j) PROVE Inv'
  <2>1. \A s \in Requests \ {r} : job'[s] = job[s] /\ pc'[s] = pc[s] /\ answer'[s] = answer[s]
    BY <1>2 DEF Start, TypeOK
  <2>2. pc'[r] \in {"authorize", "commit"} /\ answer'[r] = 0
    BY <1>2 DEF Start, TypeOK
  <2>3. UNCHANGED <<membership, mails>>
    BY <1>2 DEF Start
  <2> QED
    BY <2>1, <2>2, <2>3, SMTT(30)
    DEF TypeOK, membership, Inv, OneOwner, WinnersAreMembers, OneWinner,
        MailsAreForMembers, AnswersHold, Won, SamePerson, IsMember, GetRole, CanInvite, Invites
<1>3. ASSUME NEW r \in Requests, NEW t \in Teams, CommitTeam(r, t) PROVE Inv'
  <2>1. job[r] \in CreateJobs /\ job[r].actor \in Users /\ creator[t] = None
    BY <1>3 DEF CommitTeam, CreateWithOwner, TypeOK, CreateJobs
  <2>2. \A u \in Users : role[t][u] = NoRole
    BY <2>1 DEF Inv, OneOwner, IsMember, GetRole
  <2>3. /\ creator' = [creator EXCEPT ![t] = job[r].actor]
        /\ \A t1 \in Teams, u1 \in Users :
              role'[t1][u1] = IF t1 = t /\ u1 = job[r].actor THEN "owner" ELSE role[t1][u1]
    BY <1>3, <2>1 DEF CommitTeam, CreateWithOwner, TypeOK, MembershipTypeOK
  <2>4. RolesAreKept
    BY <2>2, <2>3 DEF RolesAreKept
  <2>5. \A s \in Requests : Won(s)' => Won(s)
    BY <1>3, <2>1 DEF CommitTeam, Answer, Won, TypeOK, CreateJobs, InviteJobs
  <2>6. UNCHANGED <<job, mails>>
    BY <1>3 DEF CommitTeam, Answer
  <2>7. \A s \in Requests \ {r} : pc'[s] = pc[s] /\ answer'[s] = answer[s]
    BY <1>3 DEF CommitTeam, Answer, TypeOK
  <2>8. OneOwner'
    <3> SUFFICES ASSUME NEW t1 \in Teams
                 PROVE  /\ creator'[t1] = None => \A u1 \in Users : role'[t1][u1] = NoRole
                        /\ creator'[t1] # None =>
                              \A u1 \in Users : role'[t1][u1] = "owner" <=> u1 = creator'[t1]
      BY DEF OneOwner, IsMember, GetRole
    <3>1. CASE t1 = t
      <4>1. creator'[t] = job[r].actor /\ job[r].actor # None
        BY <2>1, <2>3, NoneIsNoUser DEF TypeOK, MembershipTypeOK
      <4>2. \A u1 \in Users : role'[t][u1] = IF u1 = job[r].actor THEN "owner" ELSE NoRole
        BY <2>2, <2>3
      <4> QED
        BY <3>1, <4>1, <4>2 DEF NoRole
    <3>2. CASE t1 # t
      <4>1. creator'[t1] = creator[t1] /\ \A u1 \in Users : role'[t1][u1] = role[t1][u1]
        BY <2>3, <3>2 DEF TypeOK, MembershipTypeOK
      <4> QED
        BY <4>1 DEF Inv, OneOwner, GetRole, IsMember
    <3> QED
      BY <3>1, <3>2
  <2>9. WinnersAreMembers'
    <3> SUFFICES ASSUME NEW s \in Requests, Won(s)'
                 PROVE  role'[job[s].team][job[s].invitee] = "member"
      BY <2>6 DEF WinnersAreMembers
    <3>1. Won(s) /\ job[s].team \in Teams /\ job[s].invitee \in Users
      BY <2>5 DEF Won, InviteJobs
    <3> QED
      BY <2>4, <3>1 DEF Inv, WinnersAreMembers, RolesAreKept, NoRole
  <2>10. OneWinner'
    BY <2>5, <2>6 DEF Inv, OneWinner, SamePerson
  <2>11. MailsAreForMembers'
    <3>1. \A s \in Requests : pc'[s] = "notify" => pc[s] = "notify"
      BY <1>3, <2>7 DEF CommitTeam, Answer, TypeOK
    <3>2. \A s \in Requests, t1 \in Teams, u1 \in Users : Invites(s, t1, u1)' = Invites(s, t1, u1)
      BY <2>6 DEF Invites
    <3> SUFFICES ASSUME NEW t1 \in Teams, NEW u1 \in Users, mails[t1][u1] # 0
                 PROVE  /\ mails[t1][u1] = 1
                        /\ role'[t1][u1] = "member"
                        /\ \A s \in Requests : Invites(s, t1, u1)' => pc'[s] # "notify"
      BY <2>6 DEF MailsAreForMembers
    <3>3. /\ mails[t1][u1] = 1
          /\ role[t1][u1] = "member"
          /\ \A s \in Requests : Invites(s, t1, u1) => pc[s] # "notify"
      BY DEF Inv, MailsAreForMembers
    <3>4. role'[t1][u1] = "member"
      BY <2>4, <3>3 DEF RolesAreKept, NoRole
    <3> QED
      BY <3>1, <3>2, <3>3, <3>4
  <2>12. AnswersHold'
    <3>1. \A s \in Requests : AnswerHolds(s)
      BY AnswersHoldOneByOne DEF Inv
    <3>2. AnswerHolds(r)'
      <4>1. pc'[r] = "done" /\ job'[r] \in CreateJobs /\ job'[r] \notin InviteJobs /\ role'[t][job'[r].actor] = "owner"
        BY <1>3, <2>1, <2>3, <2>6 DEF CommitTeam, Answer, TypeOK, CreateJobs, InviteJobs
      <4> QED
        BY <4>1 DEF AnswerHolds
    <3>3. ASSUME NEW s \in Requests \ {r} PROVE AnswerHolds(s)'
      BY <2>4, <2>6, <2>7, <3>1, <3>3, AnswerStillHolds
    <3>4. \A s \in Requests : AnswerHolds(s)'
      BY <3>2, <3>3
    <3> QED
      BY <3>4 DEF AnswersHold, AnswerHolds, IsMember, GetRole, CanInvite
  <2> QED
    BY <2>8, <2>9, <2>10, <2>11, <2>12 DEF Inv
<1>4. ASSUME NEW r \in Requests, CheckRole(r) PROVE Inv'
  BY <1>4, QuietStep DEF CheckRole, Goto, Answer, TypeOK
<1>5. ASSUME NEW r \in Requests, FindInvitee(r) PROVE Inv'
  <2>1. CanInvite(GetRole(job[r].team, job[r].actor))
    BY <1>5 DEF FindInvitee, Inv, AnswersHold
  <2> QED
    BY <1>5, <2>1, QuietStep DEF FindInvitee, Goto, Answer, TypeOK
<1>6. ASSUME NEW r \in Requests, InsertMember(r) PROVE Inv'
  <2>1. CASE AddInvitee(r) /\ Goto(r, "notify")
    BY <1>6, <2>1, AddingStep DEF InsertMember, Goto, TypeOK
  <2>2. CASE /\ DuplicateKey(job[r].team, job[r].invitee)
             /\ Answer(r, 409)
             /\ UNCHANGED <<membership, inviter>>
    BY <1>6, <2>2, QuietStep DEF InsertMember, DuplicateKey, Answer, TypeOK
  <2> QED
    BY <1>6, <2>1, <2>2 DEF InsertMember
<1>7. ASSUME NEW r \in Requests, InsertUnconfirmed(r) PROVE Inv'
  BY <1>7, AddingStep DEF InsertUnconfirmed, Answer, TypeOK
<1>8. ASSUME NEW r \in Requests, NotifyInvitee(r) PROVE Inv'
  <2> DEFINE t == job[r].team
             u == job[r].invitee
  <2>1. t \in Teams /\ u \in Users /\ job[r] \in InviteJobs /\ pc[r] = "notify" /\ answer[r] = 0
    BY <1>8 DEF NotifyInvitee, TypeOK, InviteJobs
  <2>2. Won(r) /\ role[t][u] = "member" /\ mails[t][u] = 0
    BY <2>1 DEF Won, Inv, WinnersAreMembers, MailsAreForMembers, Invites
  <2>3. /\ UNCHANGED <<membership, job>>
        /\ pc'[r] = "done" /\ answer'[r] \in {201, Dropped}
        /\ \A s \in Requests \ {r} : pc'[s] = pc[s] /\ answer'[s] = answer[s]
    BY <1>8 DEF NotifyInvitee, Answer, TypeOK
  <2>4. /\ mails'[t][u] \in {0, 1}
        /\ \A t1 \in Teams, u1 \in Users : ~(t1 = t /\ u1 = u) => mails'[t1][u1] = mails[t1][u1]
    BY <1>8, <2>1, <2>2 DEF NotifyInvitee, TypeOK
  <2>5. \A s \in Requests : Won(s)' => Won(s)
    BY <2>2, <2>3 DEF Won
  <2>6. WinnersAreMembers' /\ OneWinner' /\ OneOwner'
    BY <2>3, <2>5 DEF membership, Inv, WinnersAreMembers, OneWinner, SamePerson, OneOwner, IsMember, GetRole
  <2>7. MailsAreForMembers'
    <3>1. \A s \in Requests : Invites(s, t, u) => pc'[s] # "notify"
      BY <2>2, <2>3 DEF Inv, OneWinner, Won, SamePerson, Invites
    <3> QED
      BY <2>1, <2>2, <2>3, <2>4, <3>1 DEF membership, Inv, MailsAreForMembers, Invites
  <2>8. AnswersHold'
    <3>1. \A s \in Requests : AnswerHolds(s)
      BY AnswersHoldOneByOne DEF Inv
    <3>2. AnswerHolds(r)'
      BY <2>1, <2>2, <2>3 DEF membership, AnswerHolds, NoRole, InviteJobs, CreateJobs
    <3>3. ASSUME NEW s \in Requests \ {r} PROVE AnswerHolds(s)'
      BY <2>3, <3>1, <3>3, AnswerStillHolds DEF membership, RolesAreKept
    <3>4. \A s \in Requests : AnswerHolds(s)'
      BY <3>2, <3>3
    <3> QED
      BY <3>4 DEF AnswersHold, AnswerHolds, IsMember, GetRole, CanInvite
  <2> QED
    BY <2>6, <2>7, <2>8 DEF Inv
<1>9. ASSUME NEW r \in Requests, Fail(r) PROVE Inv'
  BY <1>9, QuietStep DEF Fail, Answer, TypeOK
<1>10. ASSUME NEW r \in Requests, Drop(r) PROVE Inv'
  <2>1. /\ UNCHANGED <<membership, mails, job>>
        /\ pc'[r] = "done" /\ answer'[r] = 1
        /\ \A s \in Requests \ {r} : pc'[s] = pc[s] /\ answer'[s] = answer[s]
    BY <1>10 DEF Drop, Answer, TypeOK, Dropped
  <2> QED
    BY <2>1 DEF TypeOK, Inv, membership, OneOwner, WinnersAreMembers, OneWinner,
       MailsAreForMembers, AnswersHold, Won, SamePerson, IsMember, GetRole, CanInvite, Invites
<1>11. CASE UNCHANGED vars
  BY <1>11 DEF vars, membership, Inv, OneOwner, WinnersAreMembers, OneWinner,
               MailsAreForMembers, AnswersHold, Won, SamePerson, IsMember, GetRole, Invites
<1> QED
  BY <1>1, <1>2, <1>3, <1>4, <1>5, <1>6, <1>7, <1>8, <1>9, <1>10, <1>11 DEF Next, Step

LEMMA Invariance == Spec => [](TypeOK /\ Inv)
<1>1. Init => TypeOK /\ Inv
  BY InitTyped, InitInv
<1>2. TypeOK /\ Inv /\ [Next]_vars => TypeOK' /\ Inv'
  BY StepTyped, StepInv
<1> QED
  BY <1>1, <1>2, PTL DEF Spec

(* A team that exists has exactly one owner, its creator.                      *)
THEOREM OwnedOnce == Spec => []OneOwner
<1>1. Inv => OneOwner
  BY DEF Inv
<1> QED
  BY <1>1, Invariance, PTL

(* However invitations of one person race, fail and are retried, one request   *)
(* at most is answered 201 and one mail at most goes out, to a member.         *)
THEOREM InvitationsAreUnique == Spec => []InvitedOnce
<1>1. TypeOK /\ Inv => InvitedOnce
  BY DEF TypeOK, Inv, InvitedOnce, OneWinner, WinnersAreMembers, MailsAreForMembers, Won,
         SamePerson, Invites, GetRole
<1> QED
  BY <1>1, Invariance, PTL

(* What an answer says about the tables stays true.                            *)
THEOREM AnswersStayTrue == Spec => []AnswersHold
<1>1. Inv => AnswersHold
  BY DEF Inv
<1> QED
  BY <1>1, Invariance, PTL

--------------------------------------------------------------------------------
(* The refinement: CommitTeam is Found, the two ways to insert are Admit, and  *)
(* all else stutters.                                                          *)

LEMMA InitRefines == Init => Roster!Init
BY DEF Init, NoTeams, NoRole, Roster!Init

LEMMA StepRefines == TypeOK /\ Inv /\ [Next]_vars => [Roster!Next]_(Roster!roster)
<1> SUFFICES ASSUME TypeOK, Inv, [Next]_vars PROVE [Roster!Next]_(Roster!roster)
  OBVIOUS
<1> USE DEF Roster!roster
<1>1. ASSUME NEW r \in Requests, NEW t \in Teams, CommitTeam(r, t) PROVE Roster!Next
  <2> DEFINE u == job[r].actor
  <2>1. u \in Users /\ creator[t] = None
    BY <1>1 DEF CommitTeam, CreateWithOwner, TypeOK, CreateJobs
  <2>2. \A v \in Users : role[t][v] = NoRole
    BY <2>1 DEF Inv, OneOwner, IsMember, GetRole
  <2>3. [role[t] EXCEPT ![u] = "owner"] = [v \in Users |-> IF v = u THEN "owner" ELSE "stranger"]
    BY <2>1, <2>2 DEF TypeOK, MembershipTypeOK, NoRole
  <2>4. role' = [role EXCEPT ![t] = [v \in Users |-> IF v = u THEN "owner" ELSE "stranger"]]
    BY <1>1, <2>1, <2>3, ZenonT(40) DEF CommitTeam, CreateWithOwner, TypeOK, MembershipTypeOK
  <2>5. Roster!Found(t, u)
    BY <1>1, <2>1, <2>4 DEF CommitTeam, CreateWithOwner, Roster!Found
  <2> QED
    BY <2>1, <2>5 DEF Roster!Next
<1>2. ASSUME NEW r \in Requests, pc[r] = "insert", AddInvitee(r) PROVE Roster!Next
  <2>1. job[r].team \in Teams /\ job[r].invitee \in Users /\ job[r].actor \in Users
    BY <1>2 DEF TypeOK, InviteJobs
  <2>2. CanInvite(role[job[r].team][job[r].actor])
    BY <1>2 DEF Inv, AnswersHold, GetRole
  <2>3. Roster!Admit(job[r].team, job[r].actor, job[r].invitee)
    BY <1>2, <2>2 DEF AddInvitee, AddMember, DuplicateKey, IsMember, GetRole, NoRole, CanInvite,
                      Roster!Admit
  <2> QED
    BY <2>1, <2>3 DEF Roster!Next
<1>3. ASSUME UNCHANGED <<membership, inviter>> PROVE UNCHANGED Roster!roster
  BY <1>3 DEF membership
<1>4. ASSUME NEW r \in Requests, Step(r) PROVE [Roster!Next]_(Roster!roster)
  <2>1. CASE \E t \in Teams : CommitTeam(r, t)
    BY <1>1, <2>1
  <2>2. CASE InsertMember(r) \/ InsertUnconfirmed(r)
    BY <1>2, <1>3, <2>2 DEF InsertMember, InsertUnconfirmed
  <2>3. CASE \/ \E j \in Jobs : Start(r, j)
             \/ CheckRole(r) \/ FindInvitee(r) \/ NotifyInvitee(r) \/ Fail(r) \/ Drop(r)
    BY <1>3, <2>3 DEF Start, CheckRole, FindInvitee, NotifyInvitee, Fail, Drop
  <2> QED
    BY <1>4, <2>1, <2>2, <2>3 DEF Step
<1>5. CASE UNCHANGED vars
  BY <1>3, <1>5 DEF vars
<1>6. ASSUME NEW u \in Users, Register(u) PROVE [Roster!Next]_(Roster!roster)
  BY <1>3, <1>6 DEF Register
<1> QED
  BY <1>4, <1>5, <1>6 DEF Next

(* Every behaviour of the requests is a behaviour of the roster: although the  *)
(* inviter's role is checked in one call and the member inserted in another,   *)
(* each member was admitted by somebody who could invite at that moment.       *)
THEOREM RosterImplemented == Spec => ImplementsRoster
BY InitRefines, StepRefines, Invariance, PTL DEF Spec, ImplementsRoster, Roster!Spec

================================================================================
