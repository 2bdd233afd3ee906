------------------------------ MODULE TaskService ------------------------------
(* The requests POST /tasks and PUT /tasks/{id}, one database call per step    *)
(* (internal/service/task_service.go and task_history.go over                  *)
(* internal/repository/task_repository.go), any number in flight at once.      *)
(* MySQL is what the code relies on: a plain SELECT reads the last committed   *)
(* row and takes no lock, SELECT ... FOR UPDATE waits for the row lock, and    *)
(* what a transaction writes shows at its COMMIT or never.                     *)
EXTENDS Membership, Naturals, FiniteSets, Sequences

CONSTANTS
    Requests,   \* the requests of a behaviour, each handled once
    Tasks,      \* the ids AUTO_INCREMENT may give to tasks
    Titles,     \* titles that are not blank and fit their column
    Texts,      \* descriptions; Create stores NULL for the empty one
    Junk,       \* a title or status that validation refuses
    NoJob,      \* what a request that has not arrived asks for
    Inputs,     \* what clients ask for
    MaxOpenConns    \* connections of the pool, 0 for any number

VARIABLES
    tasks,      \* tasks[i]: None, or the row of the tasks table
    history,    \* history[i]: the revisions of task i, one per transaction
    lock,       \* lock[i]: the request whose transaction holds row i, or None
    pc,         \* pc[r]: the call request r makes next
    job,        \* job[r]: what it asks for
    target,     \* target[r]: the task it works on
    seen,       \* seen[r]: the columns it read last
    answer,     \* answer[r]: HTTP status and task returned
    (* History variables; no step reads them. *)
    versions,   \* versions[i]: every committed row of task i, in order
    basis,      \* basis[r]: which of them r read before it was authorised
    writers     \* writers[i]: the request behind each revision

stored == <<tasks, history, versions, writers>>
control == <<pc, job, target, seen, answer, basis>>
vars == <<membership, stored, lock, control>>

-------------------------------------------------------------------------------
(* Rows and partial updates *)

Fields == {"title", "description", "status", "assignee_to"}

Statuses == {"todo", "in_progress", "done"}

Column == [title |-> Titles, description |-> Texts \union {None},
           status |-> Statuses, assignee_to |-> Users \union {None}]

Values == Titles \union Texts \union Statuses \union Users \union {None}

Rows == {row \in [Fields -> Values] : \A f \in Fields : row[f] \in Column[f]}

TaskRecords == [team : Teams, author : Users, row : Rows]

(* A JSON body: a field is absent, null (None) or has a value.  Only titles    *)
(* and statuses can be wrong: the other two are typed by the decoder.          *)
Bodies ==
    {set \in UNION {[D -> Values \union {Junk}] : D \in SUBSET Fields} :
        /\ "description" \in DOMAIN set => set["description"] \in Column["description"]
        /\ "assignee_to" \in DOMAIN set => set["assignee_to"] \in Column["assignee_to"]
        /\ "title" \in DOMAIN set => set["title"] \in Titles \union {None, Junk}
        /\ "status" \in DOMAIN set => set["status"] \in Statuses \union {None, Junk}}

CreateJobs == [op : {"create"}, actor : Users, team : Teams, set : Bodies]
UpdateJobs == [op : {"update"}, actor : Users, task : Tasks, set : Bodies]

ASSUME InputsAreJobs == Inputs \subseteq CreateJobs \union UpdateJobs
ASSUME RequestsAreNoJobs == NoJob \notin CreateJobs \union UpdateJobs
ASSUME NoneIsNoRequest == None \notin Requests
ASSUME NoneIsNoRow == None \notin TaskRecords
ASSUME NullIsNoTitle == None \notin Titles \union Statuses
ASSUME MaxOpenConnsIsNatural == MaxOpenConns \in Nat

(* CreateTaskRequest.Validate and UpdateTaskRequest.Validate *)
Valid(j) ==
    /\ DOMAIN j.set # {}
    /\ j.op = "create" => "title" \in DOMAIN j.set
    /\ "title" \in DOMAIN j.set => j.set["title"] \in Titles
    /\ j.op = "update" /\ "status" \in DOMAIN j.set => j.set["status"] \in Statuses

(* The fields of row that the update really changes. *)
DiffTask(row, set) ==
    {f \in DOMAIN set : (f \in {"title", "status"} => set[f] # None) /\ set[f] # row[f]}

Overwrite(row, set, changed) == [f \in Fields |-> IF f \in changed THEN set[f] ELSE row[f]]

(* A new task has the body's title, description and assignee, and is todo. *)
NewRowLoose(set) ==
    [f \in Fields |-> IF f \in DOMAIN set THEN set[f] ELSE None]

NewRow(set) ==
    [f \in Fields |-> IF f = "status" THEN "todo"
                      ELSE IF f \in DOMAIN set THEN set[f] ELSE None]

NamesAssignee(set) == "assignee_to" \in DOMAIN set /\ set["assignee_to"] # None

-------------------------------------------------------------------------------
(* Types and initial states *)

(* A transaction keeps its connection, also while it waits for a row lock.     *)
InTransaction == {r \in Requests : pc[r] \in {"lock", "write"}}

PcValues == {"idle", "read", "authorize", "assignee", "begin", "lock", "write", "insert", "reread", "done"}

TypeOK ==
    /\ MembershipTypeOK
    /\ tasks \in [Tasks -> TaskRecords \union {None}]
    /\ \A i \in Tasks :
          /\ tasks[i] = None => history[i] = <<>> /\ lock[i] = None
          /\ lock[i] # None => pc[lock[i]] = "write" /\ target[lock[i]] = i
    /\ MaxOpenConns # 0 => Cardinality(InTransaction) <= MaxOpenConns
    /\ lock \in [Tasks -> Requests \union {None}]
    /\ pc \in [Requests -> PcValues]
    /\ job \in [Requests -> CreateJobs \union UpdateJobs \union {NoJob}]
    /\ target \in [Requests -> Tasks \union {None}]
    /\ seen \in [Requests -> Rows \union {None}]
    /\ answer \in [Requests -> [code : {0, 200, 201, 400, 403, 404, 500},
                                task : Rows \union {None}]]

(* Teams with members, and tasks nobody has edited yet.                        *)
Init ==
    /\ MembershipTypeOK
    /\ OneOwner
    /\ tasks \in [Tasks -> TaskRecords \union {None}]
    /\ \A i \in Tasks : tasks[i] # None =>
          /\ IsMember(tasks[i].team, tasks[i].author)
          /\ tasks[i].row["assignee_to"] # None =>
                IsMember(tasks[i].team, tasks[i].row["assignee_to"])
    /\ history = [i \in Tasks |-> <<>>]
    /\ versions = [i \in Tasks |-> IF tasks[i] = None THEN <<>> ELSE <<tasks[i].row>>]
    /\ writers = [i \in Tasks |-> <<>>]
    /\ lock = [i \in Tasks |-> None]
    /\ pc = [r \in Requests |-> "idle"]
    /\ job = [r \in Requests |-> NoJob]
    /\ target = [r \in Requests |-> None]
    /\ seen = [r \in Requests |-> None]
    /\ answer = [r \in Requests |-> [code |-> 0, task |-> None]]
    /\ basis = [r \in Requests |-> 0]

-------------------------------------------------------------------------------
(* Control flow shared by the steps *)

Goto(r, where) ==
    /\ pc' = [pc EXCEPT ![r] = where]
    /\ UNCHANGED answer

Answer(r, code, task) ==
    /\ pc' = [pc EXCEPT ![r] = "done"]
    /\ answer' = [answer EXCEPT ![r] = [code |-> code, task |-> task]]

Refuse(r, code) == Answer(r, code, None)

(* `defer tx.Rollback()`: however the transaction ends, its lock goes.         *)
ReleaseLoose(r) == UNCHANGED lock

Release(r) == lock' = [i \in Tasks |-> IF lock[i] = r THEN None ELSE lock[i]]

Team(r) == IF job[r].op = "create" THEN job[r].team ELSE tasks[target[r]].team

(* A call outside of a transaction, and BEGIN, waits for a connection of the   *)
(* pool to be free.                                                            *)
HasConn == MaxOpenConns = 0 \/ Cardinality(InTransaction) < MaxOpenConns

(* After the checks of Update, 109-117: an update that changes nothing of what *)
(* was read before is answered with that, the others go on to lock the row.    *)
Proceed(r) ==
    IF job[r].op = "create" THEN Goto(r, "insert")
    ELSE IF DiffTask(seen[r], job[r].set) = {} THEN Answer(r, 200, seen[r])
    ELSE Goto(r, "begin")

-------------------------------------------------------------------------------
(* Steps of both requests *)

(* The handler decodes and validates the body. *)
Start(r, j) ==
    /\ pc[r] = "idle"
    /\ job' = [job EXCEPT ![r] = j]
    /\ target' = [target EXCEPT ![r] = IF j.op = "update" THEN j.task ELSE None]
    /\ IF Valid(j) THEN Goto(r, IF j.op = "update" THEN "read" ELSE "authorize")
                   ELSE Refuse(r, 400)
    /\ UNCHANGED <<membership, stored, lock, seen, basis>>

(* Update, 83: GetByID, with no lock *)
ReadTask(r) ==
    /\ pc[r] = "read" /\ HasConn
    /\ IF tasks[target[r]] = None
         THEN Refuse(r, 404) /\ UNCHANGED <<seen, basis>>
         ELSE /\ Goto(r, "authorize")
              /\ seen' = [seen EXCEPT ![r] = tasks[target[r]].row]
              /\ basis' = [basis EXCEPT ![r] = Len(versions[target[r]])]
    /\ UNCHANGED <<membership, stored, lock, job, target>>

(* The role matrix of Update, 88-99, over the row read without a lock.         *)
MayUpdateLoose(r) ==
    /\ IsMember(Team(r), job[r].actor)
    /\ \/ CanManageAnyTask(GetRole(Team(r), job[r].actor))
       \/ seen[r]["assignee_to"] = job[r].actor

MayUpdate(r) ==
    /\ IsMember(Team(r), job[r].actor)
    /\ \/ CanManageAnyTask(GetRole(Team(r), job[r].actor))
       \/ /\ seen[r]["assignee_to"] = job[r].actor
          /\ "assignee_to" \notin DOMAIN job[r].set

MayCreate(r) == IsMember(Team(r), job[r].actor)

Authorize(r) ==
    /\ pc[r] = "authorize" /\ HasConn
    /\ IF ~(IF job[r].op = "create" THEN MayCreate(r) ELSE MayUpdate(r)) THEN Refuse(r, 403)
       ELSE IF NamesAssignee(job[r].set) THEN Goto(r, "assignee")
       ELSE Proceed(r)
    /\ UNCHANGED <<membership, stored, lock, job, target, seen, basis>>

(* Create, 46-53, and Update, 100-107: GetRole of the new assignee *)
AcceptsAssigneeLoose(r) == \E t \in Teams : IsMember(t, job[r].set["assignee_to"])

AcceptsAssignee(r) == IsMember(Team(r), job[r].set["assignee_to"])

CheckAssignee(r) ==
    /\ pc[r] = "assignee" /\ HasConn
    /\ IF AcceptsAssignee(r) THEN Proceed(r) ELSE Refuse(r, 400)
    /\ UNCHANGED <<membership, stored, lock, job, target, seen, basis>>

-------------------------------------------------------------------------------
(* The transaction of UpdateWithHistory *)

Begin(r) ==
    /\ pc[r] = "begin" /\ HasConn
    /\ Goto(r, "lock")
    /\ UNCHANGED <<membership, stored, lock, job, target, seen, basis>>

RowIsFreeLoose(i) == TRUE

RowIsFree(i) == lock[i] = None

(* The row the diff is taken from: the locked one. *)
DiffBaseLoose(r) == seen[r]

DiffBase(r) == tasks[target[r]].row

(* 122-137: SELECT ... FOR UPDATE and the diff; with nothing to change the      *)
(* transaction ends at once and the locked row is the answer.                  *)
LockRow(r) ==
    /\ pc[r] = "lock"
    /\ RowIsFree(target[r])
    /\ seen' = [seen EXCEPT ![r] = DiffBase(r)]
    /\ IF DiffTask(DiffBase(r), job[r].set) = {}
         THEN Answer(r, 200, DiffBase(r)) /\ UNCHANGED lock
         ELSE Goto(r, "write") /\ lock' = [lock EXCEPT ![target[r]] = r]
    /\ UNCHANGED <<membership, stored, job, target, basis>>

(* 139-173: UPDATE of the changed columns, one task_history row for each,      *)
(* SELECT of the result, COMMIT.  The confirmation of the COMMIT may be lost:  *)
(* the client is told 500 and the update stands.                               *)
AnsweredRowLoose(locked, updated) == locked

AnsweredRow(locked, updated) == updated

CommitUpdate(r) ==
    LET i == target[r]
        set == job[r].set
        changed == DiffTask(seen[r], set)
        row == Overwrite(tasks[i].row, set, changed)
    IN  /\ pc[r] = "write"
        /\ tasks' = [tasks EXCEPT ![i].row = row]
        /\ history' = [history EXCEPT ![i] =
              Append(@, [by |-> job[r].actor, old |-> [f \in changed |-> seen[r][f]],
                                              new |-> [f \in changed |-> set[f]]])]
        /\ versions' = [versions EXCEPT ![i] = Append(@, row)]
        /\ writers' = [writers EXCEPT ![i] = Append(@, r)]
        /\ Release(r)
        /\ Answer(r, 200, AnsweredRow(seen[r], row)) \/ Refuse(r, 500)
        /\ UNCHANGED <<membership, job, target, seen, basis>>

-------------------------------------------------------------------------------
(* TaskRepository.Create: INSERT, then GetByID of the new id in a call of its own *)

InsertTask(r, i) ==
    /\ pc[r] = "insert" /\ HasConn
    /\ tasks[i] = None
    /\ tasks' = [tasks EXCEPT ![i] = [team |-> Team(r), author |-> job[r].actor,
                                      row |-> NewRow(job[r].set)]]
    /\ versions' = [versions EXCEPT ![i] = <<NewRow(job[r].set)>>]
    /\ target' = [target EXCEPT ![r] = i]
    /\ basis' = [basis EXCEPT ![r] = 1]
    /\ Goto(r, "reread") \/ Refuse(r, 500)      \* applied, confirmation lost
    /\ UNCHANGED <<membership, history, writers, lock, job, seen>>

Reread(r) ==
    /\ pc[r] = "reread" /\ HasConn
    /\ Answer(r, 201, tasks[target[r]].row)
    /\ UNCHANGED <<membership, stored, lock, job, target, seen, basis>>

-------------------------------------------------------------------------------

(* A database call fails (a lost connection, a lock wait timeout, a cancelled  *)
(* request) or the process dies: an open transaction is rolled back, its lock  *)
(* goes, and the client is told 500 or nothing.                                *)
Fail(r) ==
    /\ pc[r] \notin {"idle", "done"}
    /\ Refuse(r, 500)
    /\ Release(r)
    /\ UNCHANGED <<membership, stored, job, target, seen, basis>>

(* Teams are founded and members invited meanwhile (TeamService). *)
MembershipGrows(t, u) ==
    /\ CreateWithOwner(t, u) \/ AddMember(t, u, "member")
    /\ UNCHANGED <<stored, lock, control>>

(* GET /reports/orphaned-assignees, a single SELECT: the tasks of the caller's *)
(* teams that are assigned to somebody outside of their team.                  *)
OrphanedAssigneeTasks(caller) ==
    {i \in Tasks :
        /\ tasks[i] # None
        /\ IsMember(tasks[i].team, caller)
        /\ tasks[i].row["assignee_to"] # None
        /\ ~IsMember(tasks[i].team, tasks[i].row["assignee_to"])}

Work(r) ==
    \/ ReadTask(r)
    \/ Authorize(r)
    \/ CheckAssignee(r)
    \/ Begin(r)
    \/ LockRow(r)
    \/ CommitUpdate(r)
    \/ \E i \in Tasks : InsertTask(r, i)
    \/ Reread(r)

Next ==
    \/ \E r \in Requests : Work(r) \/ Fail(r) \/ \E j \in Inputs : Start(r, j)
    \/ \E t \in Teams, u \in Users : MembershipGrows(t, u)

(* Goroutines are scheduled, the pool serves those who wait in turn, and MySQL *)
(* answers a call it can answer; nothing makes a request arrive, a member join *)
(* or a call fail.  In particular the lock wait timeout is not counted on to   *)
(* end a wait.                                                                 *)
Fairness == \A r \in Requests : WF_vars(Work(r))

Spec == Init /\ [][Next]_vars

FairSpec == Spec /\ Fairness

-------------------------------------------------------------------------------
(* Properties *)

Revisions(i) == 1 .. Len(history[i])

ManagesTask(i, u) == GetRole(tasks[i].team, u) \in {"owner", "admin"}

(* A task is only ever assigned to a member of its own team, whoever creates,  *)
(* reassigns and joins at once: nobody's report ever shows an orphaned task,   *)
(* and there is no task that nobody's report covers ("in normal operation this *)
(* can never happen", analytics_repository.go:102-107).                        *)
NoOrphanedAssignee ==
    /\ \A caller \in Users : OrphanedAssigneeTasks(caller) = {}
    /\ \A i \in Tasks : tasks[i] # None => \E caller \in Users : IsMember(tasks[i].team, caller)

(* The audit trail is the whole truth about a task: revision n records exactly *)
(* the fields in which the committed rows n and n + 1 differ, with the values  *)
(* that were really overwritten, and after the last one comes the row that is  *)
(* stored now (UpdateWithHistory, task_repository.go:103-114).                 *)
AuditTrail ==
    \A i \in Tasks : tasks[i] # None =>
        /\ Len(versions[i]) = Len(history[i]) + 1
        /\ tasks[i].row = versions[i][Len(versions[i])]
        /\ \A n \in Revisions(i) :
              LET h == history[i][n]
                  before == versions[i][n]
                  after == versions[i][n + 1]
                  changed == {f \in Fields : before[f] # after[f]}
              IN  /\ changed # {}
                  /\ h.old = [f \in changed |-> before[f]]
                  /\ h.new = [f \in changed |-> after[f]]

(* Every revision was written by the request it names, sets nothing but what   *)
(* that request asked for, and was within its author's rights in the state she *)
(* was authorised in: a plain member never reassigns, and she was the assignee *)
(* in the row her request read (the role matrix, task_service.go:78-99).       *)
WritesAuthorised ==
    \A i \in Tasks : \A n \in Revisions(i) :
        LET h == history[i][n]
            r == writers[i][n]
        IN  /\ h.by = job[r].actor
            /\ GetRole(tasks[i].team, h.by) # "stranger"
            /\ \A f \in DOMAIN h.new : f \in DOMAIN job[r].set /\ h.new[f] = job[r].set[f]
            /\ ~ManagesTask(i, h.by) =>
                  /\ "assignee_to" \notin DOMAIN h.new
                  /\ basis[r] \in 1 .. n
                  /\ versions[i][basis[r]]["assignee_to"] = h.by

(* A task that is returned was stored as returned at some moment of the        *)
(* request, and an update that is answered 200 has all it asked for, also when *)
(* the answer comes from the read before the lock (task_service.go:109-111).   *)
AnswersAreCommitted ==
    \A r \in Requests : answer[r].code \in {200, 201} =>
        /\ \E n \in basis[r] .. Len(versions[target[r]]) :
              answer[r].task = versions[target[r]][n]
        /\ answer[r].code = 200 =>
              \A f \in DOMAIN job[r].set : answer[r].task[f] = job[r].set[f]

Board == INSTANCE TaskBoard WITH role <- role, tasks <- tasks, history <- history

(* What is stored changes as if each request did its work in one indivisible,  *)
(* authorised step, although Update reads, authorises, locks and writes in     *)
(* separate calls (task_service.go:82-120).                                    *)
ImplementsBoard == Board!Spec

(* Every request that arrives is answered: no row lock is kept by a request    *)
(* that is gone (`defer tx.Rollback()`, task_repository.go:120), and requests  *)
(* that hold all connections of the pool and wait for a row never wait for one *)
(* that needs another connection to go on (db.go:27).                          *)
(* It takes a Tasks with an id for every request that creates a task.          *)
EveryRequestAnswered ==
    \A r \in Requests : pc[r] # "idle" ~> pc[r] = "done"

(* The comment of Update, task_service.go:79-81: "a member may change          *)
(* title/description/status only on a task assigned to themselves".            *)
OwnTasksOnly ==
    \A i \in Tasks : \A n \in Revisions(i) :
        LET h == history[i][n]
        IN  ~ManagesTask(i, h.by) => versions[i][n]["assignee_to"] = h.by

===============================================================================
