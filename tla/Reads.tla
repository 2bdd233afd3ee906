--------------------------------- MODULE Reads ---------------------------------
(* What the reading endpoints make of the tables: the reports of                *)
(* AnalyticsRepository, the teams of a user and the pages of a task's history.  *)
(* The tables change as TeamService and TaskService change them, reduced to the *)
(* columns that are read here: each statement takes its time from the clock,    *)
(* and what a transaction has written is read by others after its COMMIT only,  *)
(* in whatever second that is.  Each read is one SELECT, and stands for what it *)
(* may answer in a state.  Time is told in the grain of the TIMESTAMP columns.  *)
EXTENDS Membership, Integers, FiniteSets, SequencesExt

CONSTANTS
    Clients,        \* those who change tasks, with one transaction at a time
    Tasks,          \* task ids; user ids are numbers
    Week,           \* INTERVAL 7 DAY
    MonthLength,
    MaxRank,        \* how many creators a team's ranking has, 3
    DefaultSize,    \* defaultHistoryPageSize
    MaxSize,        \* maxHistoryPageSize
    MaxInt,         \* the largest int
    Creations,      \* the tasks clients create: who, and in which team
    Edits,          \* the updates clients ask for
    MaxRows,        \* bound: no update begins that would make more revisions
    LastSecond      \* bound

ASSUME UserIdsAreNumbers == Users \subseteq Nat
ASSUME IdsAreFinite == IsFiniteSet(Users) /\ IsFiniteSet(Tasks)
ASSUME NoneIsNoTask == None \notin Tasks
ASSUME BoundsAreNatural == {Week, MonthLength, MaxRank, DefaultSize, MaxSize, MaxInt} \subseteq Nat \ {0}
                           /\ {MaxRows, LastSecond} \subseteq Nat

ASSUME CreationsAreTyped == Creations \subseteq [user : Users, team : Teams]

VARIABLES
    now,
    tasks,      \* tasks[i]: None, or the columns of row i that are read
    history,    \* history[i]: the task_history rows of task i in the order of their ids
    tx          \* tx[c]: None, or the open transaction of client c

vars == <<membership, now, tasks, history, tx>>

Seconds == 0 .. LastSecond

Statuses == {"todo", "in_progress", "done"}

ASSUME EditsAreTyped == Edits \subseteq [other : BOOLEAN, status : Statuses]

Task == [team : Teams, by : Users, status : Statuses, created_at : Seconds, updated_at : Seconds]

(* A revision of the status has its new value, that of another field "other".  *)
Revision == [new : Statuses \union {"other"}, changed_at : Seconds]

(* What a transaction has written to its task and to the history of it, and the *)
(* revisions it is still to insert.                                            *)
Transaction == [task : Tasks, row : Task, rows : Seq(Revision),
                left : Seq(Statuses \union {"other"})]

Exists(i) == tasks[i] # None

(* Row i is locked by the transaction that wrote it.                           *)
Locked(i) == \E c \in Clients : tx[c] # None /\ tx[c].task = i

Revisions == FoldFunction(LAMBDA rows, n : Len(rows) + n, 0, history)

TypeOK ==
    /\ MembershipTypeOK
    /\ now \in Seconds
    /\ tasks \in [Tasks -> Task \union {None}]
    /\ history \in [Tasks -> Seq(Revision)]
    /\ tx \in [Clients -> Transaction \union {None}]

Init ==
    /\ NoTeams
    /\ now = 0
    /\ tasks = [i \in Tasks |-> None]
    /\ history = [i \in Tasks |-> <<>>]
    /\ tx = [c \in Clients |-> None]

-------------------------------------------------------------------------------
(* What changes the tables *)

Open(c, i, row, left) ==
    /\ tx[c] = None
    /\ tx' = [tx EXCEPT ![c] = [task |-> i, row |-> row, rows |-> << >>, left |-> left]]
    /\ UNCHANGED <<membership, now, tasks, history>>

NewTaskLoose(cr) ==
    [team |-> cr.team, by |-> cr.user, status |-> None, created_at |-> now, updated_at |-> now]

NewTask(cr) ==
    [team |-> cr.team, by |-> cr.user, status |-> "todo", created_at |-> now, updated_at |-> now]

(* Create: the INSERT of a row with an id of its own.                          *)
InsertTask(c, i, cr) ==
    /\ ~Exists(i) /\ ~Locked(i)
    /\ IsMember(cr.team, cr.user)
    /\ Open(c, i, NewTask(cr), << >>)

Changes(i, e) == (IF e.status # tasks[i].status THEN << e.status >> ELSE << >>) \o
                 (IF e.other THEN << "other" >> ELSE << >>)

(* UpdateWithHistory up to its UPDATE, which sets updated_at.  It waits for the *)
(* row lock, and takes the diff from the row it then finds; an empty diff      *)
(* changes nothing.                                                            *)
UpdateRowLoose(c, i, e) ==
    /\ Exists(i)
    /\ Changes(i, e) # << >>
    /\ Revisions + Len(Changes(i, e)) <= MaxRows
    /\ Open(c, i, [tasks[i] EXCEPT !.status = e.status, !.updated_at = now], Changes(i, e))

UpdateRow(c, i, e) ==
    /\ Exists(i) /\ ~Locked(i)
    /\ Changes(i, e) # << >>
    /\ Revisions + Len(Changes(i, e)) <= MaxRows
    /\ Open(c, i, [tasks[i] EXCEPT !.status = e.status, !.updated_at = now], Changes(i, e))

(* One INSERT per field that changed, each with the NOW() of its own.          *)
InsertRevision(c) ==
    /\ tx[c] # None /\ tx[c].left # << >>
    /\ tx' = [tx EXCEPT ![c].rows = Append(@, [new |-> Head(tx[c].left), changed_at |-> now]),
                        ![c].left = Tail(@)]
    /\ UNCHANGED <<membership, now, tasks, history>>

(* The COMMIT, by which the others see all of it; the one that ends a single    *)
(* statement included.                                                         *)
Commit(c) ==
    /\ tx[c] # None /\ tx[c].left = << >>
    /\ tasks' = [tasks EXCEPT ![tx[c].task] = tx[c].row]
    /\ history' = [history EXCEPT ![tx[c].task] = @ \o tx[c].rows]
    /\ tx' = [tx EXCEPT ![c] = None]
    /\ UNCHANGED <<membership, now>>

(* A call of the transaction fails, or its client is gone.                     *)
Rollback(c) ==
    /\ tx[c] # None
    /\ tx' = [tx EXCEPT ![c] = None]
    /\ UNCHANGED <<membership, now, tasks, history>>

MembershipGrows(t, u) ==
    /\ CreateWithOwner(t, u) \/ AddMember(t, u, "member")
    /\ UNCHANGED <<now, tasks, history, tx>>

Tick ==
    /\ now < LastSecond
    /\ now' = now + 1
    /\ UNCHANGED <<membership, tasks, history, tx>>

Next ==
    \/ \E t \in Teams, u \in Users : MembershipGrows(t, u)
    \/ \E c \in Clients, i \in Tasks : \/ \E cr \in Creations : InsertTask(c, i, cr)
                                      \/ \E e \in Edits : UpdateRow(c, i, e)
    \/ \E c \in Clients : InsertRevision(c) \/ Commit(c) \/ Rollback(c)
    \/ Tick

Spec == Init /\ [][Next]_vars

-------------------------------------------------------------------------------
(* Answers.  A read may answer any element of a set: the database may fail, and *)
(* SQL leaves the order of ties open.                                          *)

Refusal(status) == {[status |-> status]}

Failure == Refusal(500)

ListForUser(u) ==
    {[team |-> t, role |-> GetRole(t, u)] : t \in {t \in Teams : IsMember(t, u)}}

(* FROM teams JOIN team_members LEFT JOIN tasks, for the caller's teams: a row  *)
(* for every member and task, and one with no task for a team without any.     *)
TeamRows(caller) ==
    UNION {LET ids == {i \in Tasks : Exists(i) /\ tasks[i].team = t}
               members == {u \in Users : IsMember(t, u)}
           IN  {t} \X members \X (IF ids = {} THEN {None} ELSE ids) :
           t \in {t \in Teams : IsMember(t, caller)}}

DoneLately(i) ==
    i # None /\ tasks[i].status = "done" /\ tasks[i].updated_at >= now - Week

(* With COUNT in place of COUNT(DISTINCT), which counts the rows of the join.  *)
TeamsSummaryLoose(caller) ==
    LET rows == TeamRows(caller)
        of(t) == {row \in rows : row[1] = t}
    IN  {[team         |-> t,
          member_count |-> Cardinality({row[2] : row \in of(t)}),
          done_tasks   |-> Cardinality({row \in of(t) : DoneLately(row[3])})]
         : t \in {row[1] : row \in rows}}

TeamsSummary(caller) ==
    LET rows == TeamRows(caller)
        of(t) == {row \in rows : row[1] = t}
    IN  {[team         |-> t,
          member_count |-> Cardinality({row[2] : row \in of(t)}),
          done_tasks   |-> Cardinality({i \in {row[3] : row \in of(t)} : DoneLately(i)})]
         : t \in {row[1] : row \in rows}}

GetTeamsSummary(caller) ==
    Failure \union {[status |-> 200, data |-> TeamsSummary(caller)]}

MonthRangeFor(time) ==
    LET start == time - (time % MonthLength)
    IN  [start |-> start, end |-> start + MonthLength]

(* The query parameters that are not a number. *)
Absent == -1
Malformed == -2

(* A month is named by its number. *)
parseMonthParam(month) ==
    MonthRangeFor(IF month = Absent THEN now ELSE month * MonthLength)

(* The counts of one team's creators, and ROW_NUMBER over them: by tasks, then *)
(* by user id.                                                                 *)
CountsOf(t, range) ==
    LET of(u) == {i \in Tasks : Exists(i) /\ tasks[i].team = t /\ tasks[i].by = u
                                /\ tasks[i].created_at \in range.start .. range.end - 1}
    IN  [u \in {u \in Users : of(u) # {}} |-> Cardinality(of(u))]

RankLoose(counts, u) == 1 + Cardinality({v \in DOMAIN counts : counts[v] > counts[u]})

Rank(counts, u) ==
    1 + Cardinality({v \in DOMAIN counts :
            counts[v] > counts[u] \/ (counts[v] = counts[u] /\ v < u)})

TopCreators(caller, range) ==
    UNION {LET counts == CountsOf(t, range)
           IN  {row \in {[team |-> t, user |-> u, tasks_created |-> counts[u],
                          rank |-> Rank(counts, u)] : u \in DOMAIN counts} :
                   row.rank <= MaxRank} :
           t \in {t \in Teams : IsMember(t, caller)}}

GetTopCreators(caller, month) ==
    IF month = Malformed THEN Refusal(400)
    ELSE Failure \union {[status |-> 200, data |-> TopCreators(caller, parseMonthParam(month))]}

-------------------------------------------------------------------------------
(* Pages *)

Minimum(m, n) == IF m < n THEN m ELSE n

(* An int after an overflow. *)
Wrap(n) == ((n + MaxInt + 1) % (2 * (MaxInt + 1))) - (MaxInt + 1)

Positive(param) == param = Absent \/ param > 0

ParsePageRequest(page, size) ==
    [page |-> IF page = Absent THEN 1 ELSE page,
     size |-> IF size = Absent THEN DefaultSize ELSE Minimum(size, MaxSize)]

OffsetLoose(p) == Wrap(p.page * p.size)

Offset(p) == Wrap((p.page - 1) * p.size)

(* ORDER BY changed_at, which leaves rows of one time in any order.            *)
PrecedesLoose(a, b) == a.changed_at >= b.changed_at

Precedes(a, b) == a.changed_at <= b.changed_at

Orders(i) ==
    {order \in SetToSeqs(DOMAIN history[i]) :
        \A m, n \in DOMAIN order : m < n => Precedes(history[i][order[m]], history[i][order[n]])}

(* The ids on a page. *)
ListHistory(i, limit, offset) ==
    {SubSeq(order, offset + 1, Minimum(offset + limit, Len(order))) : order \in Orders(i)}

(* MySQL refuses a negative OFFSET.  The total of the answer, from a COUNT      *)
(* before the SELECT, is left out.                                             *)
GetHistory(actor, i, p) ==
    IF ~Exists(i) THEN Refusal(404)
    ELSE IF ~IsMember(tasks[i].team, actor) THEN Refusal(403)
    ELSE IF Offset(p) < 0 THEN {}
    ELSE {[status |-> 200, data |-> data, page |-> p] :
             data \in ListHistory(i, p.size, Offset(p))}

(* GET /tasks/{id}/history; a page and a size that are no positive numbers     *)
(* are refused.                                                                *)
History(actor, i, page, size) ==
    IF ~Positive(page) \/ ~Positive(size) THEN Refusal(400)
    ELSE Failure \union GetHistory(actor, i, ParsePageRequest(page, size))

-------------------------------------------------------------------------------
(* Properties *)

(* A task of team t that was moved to done at some time and is done now        *)
Finished(t) ==
    {i \in Tasks : /\ Exists(i) /\ tasks[i].team = t /\ tasks[i].status = "done"
                   /\ \E n \in DOMAIN history[i] : history[i][n].new = "done"}

ChangedLately(i) == \E n \in DOMAIN history[i] : history[i][n].changed_at >= now - Week

(* The teams of a summary are those ListForUser has, with or without tasks.    *)
(* Members and tasks are counted once, however often their rows are repeated    *)
(* by the join.  A task is counted only if the audit trail shows that it was    *)
(* moved to done and changed within the week, and it is counted if it is done  *)
(* and no older than a week (TeamsSummary, 33-55, over 150-162 and 170 of      *)
(* UpdateWithHistory, whose statements may fall on both sides of the edge).    *)
SummaryIsRight ==
    \A u \in Users : \A answer \in GetTeamsSummary(u) : answer.status = 200 =>
        /\ {row.team : row \in answer.data} = {row.team : row \in ListForUser(u)}
        /\ \A row \in answer.data :
              /\ row.member_count = Cardinality({v \in Users : IsMember(row.team, v)})
              /\ row.done_tasks <= Cardinality({i \in Finished(row.team) : ChangedLately(i)})
              /\ row.done_tasks >= Cardinality({i \in Finished(row.team) :
                                                   tasks[i].created_at >= now - Week})

(* The comment of TeamsSummary, 25-26: "how many tasks it moved to 'done' in    *)
(* the last 7 days"; so it counts no more than have a revision that says so.   *)
OnlyLatelyDoneCounted ==
    \A u \in Users : \A answer \in GetTeamsSummary(u) : answer.status = 200 =>
        \A row \in answer.data :
            row.done_tasks <= Cardinality({i \in Tasks :
                /\ Exists(i) /\ tasks[i].team = row.team
                /\ \E n \in DOMAIN history[i] :
                      history[i][n].new = "done" /\ history[i][n].changed_at >= now - Week})

(* The months there are before the clock stops                                 *)
Months == {second \div MonthLength : second \in Seconds}

(* What v has created in team t in a month, today's if none is asked for.      *)
Made(t, v, month) ==
    {i \in Tasks : /\ Exists(i) /\ tasks[i].team = t /\ tasks[i].by = v
                   /\ tasks[i].created_at \div MonthLength =
                         IF month = Absent THEN now \div MonthLength ELSE month}

Creators(t, month) == {v \in Users : Made(t, v, month) # {}}

(* A team's ranking numbers its rows from 1 without a gap or a tie, is cut only *)
(* at MaxRank, leaves nobody out who made more than somebody in it, and counts *)
(* every task in the one month it was made in, today's in the default month    *)
(* (TopCreators, 62-100; MonthRangeFor; parseMonthParam).                      *)
TopCreatorsAreRight ==
    \A u \in Users, month \in {Absent} \union Months :
        \A answer \in GetTopCreators(u, month), t \in Teams :
            answer.status = 200 /\ IsMember(t, u) =>
            LET rows == {row \in answer.data : row.team = t}
                creators == Creators(t, month)
                length == Minimum(MaxRank, Cardinality(creators))
            IN  /\ {row.rank : row \in rows} = 1 .. length
                /\ Cardinality(rows) = length
                /\ \A row \in rows :
                      /\ row.tasks_created = Cardinality(Made(t, row.user, month))
                      /\ \A v \in creators \ {r.user : r \in rows} :
                            Cardinality(Made(t, v, month)) <= row.tasks_created

(* Whatever order the database gives to revisions of one time, the pages of a  *)
(* history are consecutive pieces of it as far as times can tell, none left    *)
(* out and none twice, as long as the offset is an int; hence exactly that if  *)
(* no two revisions have the same time (History, 171-201; Offset).  The reader *)
(* is the task's creator, and could be any member.                             *)
PagesCover ==
    \A i \in {i \in Tasks : Exists(i)}, page \in 1 .. MaxInt, size \in 1 .. MaxSize + 1 :
        \A answer \in History(tasks[i].by, i, page, size) :
            answer.status = 200 /\ (page - 1) * answer.page.size <= MaxInt =>
                LET skipped == (page - 1) * answer.page.size
                    times == [n \in DOMAIN history[i] |-> history[i][n].changed_at]
                    shown == [n \in DOMAIN answer.data |-> times[answer.data[n]]]
                IN  shown = SubSeq(times, skipped + 1,
                                   Minimum(skipped + answer.page.size, Len(times)))

(* A full page of a history that is followed by a revision of a later second   *)
(* never changes again, whatever transactions are open: they took the row lock  *)
(* after all that is there was committed, so that what they insert is no earlier *)
(* than the last of it (ListHistory, 176-194, over UpdateWithHistory, 122-170). *)
(* A page that ends with the last second of the history may change, also when   *)
(* that second is over: a row that was stamped in it may be committed later.   *)
(* Only what is committed to a history can change its pages.                   *)
FullPagesAreFinal ==
    [][\A i \in {i \in Tasks : history'[i] # history[i]},
          page \in 1 .. MaxRows, size \in 1 .. MaxSize :
          LET shown == ListHistory(i, size, (page - 1) * size)
              IsPassed(ids) == /\ Len(ids) = size
                               /\ \E n \in DOMAIN history[i] :
                                     history[i][n].changed_at > history[i][ids[size]].changed_at
          IN  (\A ids \in shown : IsPassed(ids))
                => ListHistory(i, size, (page - 1) * size)' = shown]_vars

===============================================================================
