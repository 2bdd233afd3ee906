--------------------------- MODULE TaskServiceProofs ---------------------------
(* For any number of users, teams, tasks and requests, and a pool of any size: *)
(* no task is assigned outside of its team, the audit trail is the whole truth *)
(* about a task, every write was authorised, every answer was committed, and   *)
(* the requests implement the board, where a task is edited in a single step.  *)
EXTENDS TaskService, FiniteSetTheorems, TLAPS

--------------------------------------------------------------------------------
(* Rows and bodies *)

Changes == UNION {[D -> Values \union {Junk}] : D \in SUBSET Fields}

Revision == [by : Users, old : Changes, new : Changes]

LEMMA BodyTyped ==
  ASSUME NEW set \in Bodies
  PROVE  /\ DOMAIN set \subseteq Fields
         /\ set \in [DOMAIN set -> Values \union {Junk}]
         /\ "description" \in DOMAIN set => set["description"] \in Texts \union {None}
         /\ "assignee_to" \in DOMAIN set => set["assignee_to"] \in Users \union {None}
<1>1. PICK D \in SUBSET Fields : set \in [D -> Values \union {Junk}]
  BY DEF Bodies
<1>2. "description" \in DOMAIN set => set["description"] \in Texts \union {None}
  BY DEF Bodies, Column
<1>3. "assignee_to" \in DOMAIN set => set["assignee_to"] \in Users \union {None}
  BY DEF Bodies, Column
<1> QED
  BY <1>1, <1>2, <1>3

LEMMA DiffIsInBody ==
  ASSUME NEW set \in Bodies, NEW row
  PROVE  DiffTask(row, set) \subseteq DOMAIN set /\ DiffTask(row, set) \subseteq Fields
BY BodyTyped DEF DiffTask

LEMMA RowTyped ==
  ASSUME NEW row
  PROVE  row \in Rows <=>
            /\ row \in [Fields -> Values]
            /\ row["title"] \in Titles
            /\ row["description"] \in Texts \union {None}
            /\ row["status"] \in Statuses
            /\ row["assignee_to"] \in Users \union {None}
BY DEF Rows, Column, Fields

(* Validate lets pass only values that fit the columns they are written to.    *)
LEMMA AskedFits ==
  ASSUME NEW j \in UpdateJobs, Valid(j), NEW f \in DOMAIN j.set
  PROVE  j.set[f] \in Column[f] /\ j.set[f] \in Values
<1>1. j.set \in Bodies /\ j.op = "update"
  BY DEF UpdateJobs
<1>2. f \in Fields
  BY <1>1, BodyTyped
<1>3. j.set[f] \in Column[f]
  BY <1>1, <1>2, BodyTyped DEF Valid, Column, Fields
<1> QED
  BY <1>2, <1>3 DEF Column, Values, Fields

LEMMA NothingToDo ==
  ASSUME NEW j \in UpdateJobs, Valid(j), NEW row, DiffTask(row, j.set) = {}, NEW f \in DOMAIN j.set
  PROVE  row[f] = j.set[f]
<1>1. f = "title" => j.set[f] \in Titles
  BY DEF Valid
<1>2. f = "status" => j.set[f] \in Statuses
  BY DEF Valid, UpdateJobs
<1> QED
  BY <1>1, <1>2, NullIsNoTitle DEF DiffTask

(* What UPDATE writes: a row that differs from the old one in exactly the      *)
(* fields of the diff, and has everything the request asked for.               *)
LEMMA UpdatedRow ==
  ASSUME NEW j \in UpdateJobs, Valid(j), NEW row \in Rows, NEW changed, NEW new,
         changed = DiffTask(row, j.set), new = Overwrite(row, j.set, changed)
  PROVE  /\ new \in Rows
         /\ changed \subseteq Fields
         /\ \A f \in Fields : f \in changed <=> row[f] # new[f]
         /\ \A f \in changed : f \in DOMAIN j.set /\ new[f] = j.set[f]
         /\ \A f \in DOMAIN j.set : new[f] = j.set[f]
<1>1. j.set \in Bodies
  BY DEF UpdateJobs
<1>2. changed \subseteq DOMAIN j.set /\ changed \subseteq Fields
  BY <1>1, DiffIsInBody
<1>3. \A f \in Fields : new[f] = IF f \in changed THEN j.set[f] ELSE row[f]
  BY DEF Overwrite
<1>4. \A f \in changed : j.set[f] \in Column[f] /\ j.set[f] \in Values /\ j.set[f] # row[f]
  BY <1>2, AskedFits DEF DiffTask
<1>5. row \in [Fields -> Values] /\ \A f \in Fields : row[f] \in Column[f]
  BY DEF Rows
<1>6. new \in Rows
  BY <1>2, <1>4, <1>5 DEF Overwrite, Rows
<1>7. \A f \in Fields : f \in changed <=> row[f] # new[f]
  BY <1>2, <1>3, <1>4
<1>8. ASSUME NEW f \in DOMAIN j.set PROVE new[f] = j.set[f]
  <2>1. f \in Fields
    BY <1>1, BodyTyped
  <2>2. CASE f \in changed
    BY <1>3, <2>1, <2>2
  <2>3. CASE f \notin changed
    <3>1. f = "title" => j.set[f] \in Titles
      BY DEF Valid
    <3>2. f = "status" => j.set[f] \in Statuses
      BY DEF Valid, UpdateJobs
    <3>3. row[f] = j.set[f]
      BY <2>3, <3>1, <3>2, NullIsNoTitle DEF DiffTask
    <3> QED
      BY <1>3, <2>1, <2>3, <3>3
  <2> QED
    BY <2>2, <2>3
<1> QED
  BY <1>2, <1>3, <1>6, <1>7, <1>8

(* The values in a row of task_history. *)
LEMMA RevisionTyped ==
  ASSUME NEW j \in UpdateJobs, Valid(j), NEW row \in Rows
  PROVE  /\ [f \in DiffTask(row, j.set) |-> row[f]] \in Changes
         /\ [f \in DiffTask(row, j.set) |-> j.set[f]] \in Changes
<1> DEFINE changed == DiffTask(row, j.set)
<1>1. changed \subseteq DOMAIN j.set /\ changed \subseteq Fields
  BY DiffIsInBody DEF UpdateJobs
<1>2. \A f \in changed : row[f] \in Values /\ j.set[f] \in Values
  BY <1>1, AskedFits DEF Rows
<1> HIDE DEF changed
<1>3. [f \in changed |-> row[f]] \in [changed -> Values \union {Junk}]
  BY <1>2
<1>4. [f \in changed |-> j.set[f]] \in [changed -> Values \union {Junk}]
  BY <1>2
<1> QED
  BY <1>1, <1>3, <1>4 DEF Changes, changed

LEMMA CreatedRow ==
  ASSUME NEW j \in CreateJobs, Valid(j)
  PROVE  /\ NewRow(j.set) \in Rows
         /\ NewRow(j.set)["status"] = "todo"
         /\ NewRow(j.set)["assignee_to"] =
               IF NamesAssignee(j.set) THEN j.set["assignee_to"] ELSE None
<1>1. j.set \in Bodies
  BY DEF CreateJobs
<1>2. DOMAIN j.set \subseteq Fields /\ "title" \in DOMAIN j.set /\ j.set["title"] \in Titles
  BY <1>1, BodyTyped DEF Valid, CreateJobs
<1>3. \A f \in Fields : NewRow(j.set)[f] = IF f = "status" THEN "todo"
                                         ELSE IF f \in DOMAIN j.set THEN j.set[f] ELSE None
  BY DEF NewRow
<1>4. "title" \in Fields /\ "description" \in Fields /\ "status" \in Fields /\ "assignee_to" \in Fields
  BY DEF Fields
<1>5. NewRow(j.set)["title"] \in Titles /\ NewRow(j.set)["status"] = "todo"
  BY <1>2, <1>3, <1>4
<1>6. NewRow(j.set)["description"] \in Texts \union {None}
  BY <1>1, <1>3, <1>4, BodyTyped
<1>7. NewRow(j.set)["assignee_to"] \in Users \union {None}
  BY <1>1, <1>3, <1>4, BodyTyped
<1>8. NewRow(j.set) \in [Fields -> Values]
  <2>1. ASSUME NEW f \in Fields PROVE NewRow(j.set)[f] \in Values
    BY <1>5, <1>6, <1>7 DEF Fields, Values, Statuses
  <2> QED
    BY <2>1 DEF NewRow
<1> QED
  BY <1>3, <1>4, <1>5, <1>6, <1>7, <1>8, RowTyped DEF NamesAssignee, Statuses

--------------------------------------------------------------------------------
(* The inductive invariant.  Every request is described on its own, by what it *)
(* has learnt so far; what it learnt stays true because the tables only grow.  *)

TablesTyped ==
    /\ MembershipTypeOK
    /\ tasks \in [Tasks -> TaskRecords \union {None}]
    /\ history \in [Tasks -> Seq(Revision)]
    /\ versions \in [Tasks -> Seq(Rows)]
    /\ writers \in [Tasks -> Seq(Requests)]

Answers == [code : {0, 200, 201, 400, 403, 404, 500}, task : Rows \union {None}]

RequestsTyped ==
    /\ lock \in [Tasks -> Requests \union {None}]
    /\ pc \in [Requests -> PcValues]
    /\ job \in [Requests -> CreateJobs \union UpdateJobs \union {NoJob}]
    /\ target \in [Requests -> Tasks \union {None}]
    /\ seen \in [Requests -> Rows \union {None}]
    /\ answer \in [Requests -> Answers]
    /\ basis \in [Requests -> Nat]

StateTyped == TablesTyped /\ RequestsTyped

Updates(r) == job[r] \in UpdateJobs

Creates(r) == job[r] \in CreateJobs

(* A request asks for what it was started with, and makes the calls of it.     *)
Follows(r) ==
    /\ pc[r] # "idle" => Updates(r) \/ Creates(r)
    /\ pc[r] \notin {"idle", "done"} => Valid(job[r])
    /\ pc[r] \in {"read", "begin", "lock", "write"} => Updates(r)
    /\ pc[r] \in {"insert", "reread"} => Creates(r)
    /\ Updates(r) => target[r] = job[r].task
    /\ pc[r] # "done" => answer[r].code = 0

(* An update that is past its read has found the task, and holds a version of  *)
(* it that was committed when it looked.  A creation reads its own task back.  *)
HasRead(r) ==
    /\ Updates(r) /\ pc[r] \in {"authorize", "assignee", "begin", "lock", "write"} =>
          /\ tasks[target[r]] # None
          /\ basis[r] \in 1 .. Len(versions[target[r]])
          /\ pc[r] # "write" => seen[r] = versions[target[r]][basis[r]]
    /\ pc[r] = "reread" =>
          target[r] \in Tasks /\ tasks[target[r]] # None /\ basis[r] = 1

(* The transaction that is about to write holds the row it took the diff from. *)
HoldsRow(r) ==
    pc[r] = "write" =>
        /\ lock[target[r]] = r
        /\ seen[r] = tasks[target[r]].row
        /\ DiffTask(seen[r], job[r].set) # {}

(* Rights that were checked are still there when they are used.                *)
Cleared(r) ==
    /\ pc[r] \in {"assignee", "begin", "lock", "write", "insert"} =>
          /\ IsMember(Team(r), job[r].actor)
          /\ Updates(r) =>
                \/ CanManageAnyTask(GetRole(Team(r), job[r].actor))
                \/ /\ "assignee_to" \notin DOMAIN job[r].set
                   /\ versions[target[r]][basis[r]]["assignee_to"] = job[r].actor
    /\ pc[r] \in {"begin", "lock", "write", "insert"} /\ NamesAssignee(job[r].set) =>
          AcceptsAssignee(r)

Answered(r) ==
    answer[r].code \in {200, 201} =>
        /\ target[r] \in Tasks
        /\ basis[r] >= 1
        /\ \E n \in basis[r] .. Len(versions[target[r]]) :
              answer[r].task = versions[target[r]][n]
        /\ answer[r].code = 200 =>
              \A f \in DOMAIN job[r].set : answer[r].task[f] = job[r].set[f]

RequestHolds(r) == Follows(r) /\ HasRead(r) /\ HoldsRow(r) /\ Cleared(r) /\ Answered(r)

(* Who and whom a task names, and how its rows and revisions are numbered.     *)
Kept(i) ==
    /\ tasks[i] = None => versions[i] = <<>> /\ history[i] = <<>> /\ writers[i] = <<>>
    /\ tasks[i] # None =>
          /\ Len(versions[i]) = Len(history[i]) + 1
          /\ Len(writers[i]) = Len(history[i])
          /\ tasks[i].row = versions[i][Len(versions[i])]
          /\ IsMember(tasks[i].team, tasks[i].author)
          /\ tasks[i].row["assignee_to"] # None =>
                IsMember(tasks[i].team, tasks[i].row["assignee_to"])
    /\ \A n \in Revisions(i) : pc[writers[i][n]] = "done"

Inv ==
    /\ StateTyped
    /\ OneOwner
    /\ \A r \in Requests : RequestHolds(r)
    /\ \A i \in Tasks : Kept(i)
    /\ AuditTrail
    /\ WritesAuthorised

LEMMA JobsAndTasks ==
  ASSUME StateTyped
  PROVE  /\ \A r \in Requests : Updates(r) => job[r].actor \in Users /\ job[r].task \in Tasks
                                              /\ job[r].set \in Bodies /\ job[r].op = "update"
         /\ \A r \in Requests : Creates(r) => job[r].actor \in Users /\ job[r].team \in Teams
                                              /\ job[r].set \in Bodies /\ job[r].op = "create"
         /\ \A r \in Requests : ~(Updates(r) /\ Creates(r))
         /\ \A i \in Tasks : tasks[i] # None => 
              tasks[i].team \in Teams /\ tasks[i].author \in Users /\ tasks[i].row \in Rows
              /\ tasks[i] = [team |-> tasks[i].team, author |-> tasks[i].author, row |-> tasks[i].row]
BY DEF StateTyped, TablesTyped, RequestsTyped, Updates, Creates, UpdateJobs, CreateJobs, TaskRecords

LEMMA InitInv == Init => Inv
<1> SUFFICES ASSUME Init PROVE Inv
  OBVIOUS
<1>1. StateTyped
  <2>1. versions \in [Tasks -> Seq(Rows)]
    <3>1. \A i \in Tasks : tasks[i] # None => <<tasks[i].row>> \in Seq(Rows)
      BY DEF Init, TaskRecords
    <3> QED
      BY <3>1 DEF Init
  <2> QED
    BY <2>1 DEF Init, StateTyped, TablesTyped, RequestsTyped, Answers, PcValues
<1>2. ASSUME NEW r \in Requests
      PROVE  RequestHolds(r)
  BY RequestsAreNoJobs DEF Init, RequestHolds, Follows, HasRead, HoldsRow, Cleared, Answered, Updates
<1>3. ASSUME NEW i \in Tasks PROVE Kept(i)
  BY DEF Init, Kept, Revisions, IsMember
<1>4. AuditTrail /\ WritesAuthorised
  BY DEF Init, AuditTrail, WritesAuthorised, Revisions
<1> QED
  BY <1>1, <1>2, <1>3, <1>4 DEF Inv, Init

--------------------------------------------------------------------------------
(* Types *)

LEMMA ControlTyped ==
  ASSUME StateTyped, NEW r \in Requests,
         \/ \E where \in PcValues : Goto(r, where)
         \/ \E code \in {0, 200, 201, 400, 403, 404, 500} :
               Refuse(r, code) \/ \E row \in Rows : Answer(r, code, row)
  PROVE  pc' \in [Requests -> PcValues] /\ answer' \in [Requests -> Answers]
<1> USE DEF StateTyped, RequestsTyped
<1>1. CASE \E where \in PcValues : Goto(r, where)
  BY <1>1 DEF Goto
<1>2. ASSUME NEW code \in {0, 200, 201, 400, 403, 404, 500}, NEW task \in Rows \union {None},
             Answer(r, code, task)
      PROVE  pc' \in [Requests -> PcValues] /\ answer' \in [Requests -> Answers]
  <2>1. [code |-> code, task |-> task] \in Answers
    BY DEF Answers
  <2> QED
    BY <1>2, <2>1 DEF Answer, PcValues
<1> QED
  BY <1>1, <1>2 DEF Refuse

LEMMA QuietTablesTyped ==
  ASSUME TablesTyped, UNCHANGED <<membership, stored>>
  PROVE  TablesTyped'
BY DEF TablesTyped, MembershipTypeOK, membership, stored

LEMMA ReleaseTyped ==
  ASSUME StateTyped, NEW r \in Requests, Release(r) \/ UNCHANGED lock
  PROVE  lock' \in [Tasks -> Requests \union {None}]
BY DEF StateTyped, RequestsTyped, Release

LEMMA ProceedGoes ==
  ASSUME Inv, NEW r \in Requests, pc[r] \in {"authorize", "assignee"}, Proceed(r)
  PROVE  \/ \E where \in PcValues : Goto(r, where)
         \/ Updates(r) /\ seen[r] \in Rows /\ Answer(r, 200, seen[r])
<1>1. CASE Creates(r)
  BY <1>1 DEF Proceed, PcValues, Creates, CreateJobs
<1>2. CASE Updates(r)
  <2>1. target[r] \in Tasks /\ versions[target[r]] \in Seq(Rows)
    BY <1>2, JobsAndTasks DEF Inv, StateTyped, TablesTyped, RequestHolds, Follows
  <2>2. seen[r] \in Rows
    BY <1>2, <2>1 DEF Inv, RequestHolds, HasRead
  <2> QED
    BY <1>2, <2>2, JobsAndTasks DEF Inv, Proceed, PcValues
<1> QED
  BY <1>1, <1>2 DEF Inv, RequestHolds, Follows

LEMMA StepTyped == Inv /\ [Next]_vars => StateTyped'
<1> SUFFICES ASSUME Inv, [Next]_vars PROVE StateTyped'
  OBVIOUS
<1>1. StateTyped /\ \A r \in Requests : Follows(r) /\ HasRead(r) /\ HoldsRow(r)
  BY DEF Inv, RequestHolds
<1>2. ASSUME NEW r \in Requests, NEW j \in Inputs, Start(r, j) PROVE StateTyped'
  <2>1. j.op = "update" => j.task \in Tasks
    BY InputsAreJobs DEF UpdateJobs, CreateJobs
  <2>2. /\ job' \in [Requests -> CreateJobs \union UpdateJobs \union {NoJob}]
        /\ target' \in [Requests -> Tasks \union {None}]
    BY <1>1, <1>2, <2>1, InputsAreJobs DEF Start, StateTyped, RequestsTyped
  <2>3. pc' \in [Requests -> PcValues] /\ answer' \in [Requests -> Answers]
    <3>1. (\E where \in PcValues : Goto(r, where)) \/ Refuse(r, 400)
      BY <1>2 DEF Start, PcValues
    <3> QED
      BY <1>1, <3>1, ControlTyped
  <2> QED
    BY <1>1, <1>2, <2>2, <2>3, QuietTablesTyped DEF Start, StateTyped, RequestsTyped
<1>3. ASSUME NEW r \in Requests, ReadTask(r) PROVE StateTyped'
  <2>1. target[r] \in Tasks
    BY <1>1, <1>3, JobsAndTasks DEF ReadTask, Follows
  <2>2. Len(versions[target[r]]) \in Nat
    BY <1>1, <2>1 DEF StateTyped, TablesTyped
  <2>3. tasks[target[r]] # None => tasks[target[r]].row \in Rows
    BY <1>1, <2>1, JobsAndTasks
  <2>4. pc' \in [Requests -> PcValues] /\ answer' \in [Requests -> Answers]
    <3>1. (\E where \in PcValues : Goto(r, where)) \/ Refuse(r, 404)
      BY <1>3 DEF ReadTask, PcValues
    <3> QED
      BY <1>1, <3>1, ControlTyped
  <2>5. seen' \in [Requests -> Rows \union {None}] /\ basis' \in [Requests -> Nat]
    BY <1>1, <1>3, <2>2, <2>3 DEF ReadTask, StateTyped, RequestsTyped
  <2> QED
    BY <1>1, <1>3, <2>4, <2>5, QuietTablesTyped DEF ReadTask, StateTyped, RequestsTyped
<1>4. ASSUME NEW r \in Requests, Authorize(r) \/ CheckAssignee(r) PROVE StateTyped'
  <2>1. \/ \E where \in PcValues : Goto(r, where)
        \/ \E code \in {200, 400, 403} : Refuse(r, code) \/ \E row \in Rows : Answer(r, code, row)
    <3>1. pc[r] \in {"authorize", "assignee"}
      BY <1>4 DEF Authorize, CheckAssignee
    <3>2. Refuse(r, 403) \/ Refuse(r, 400) \/ Goto(r, "assignee") \/ Proceed(r)
      BY <1>4 DEF Authorize, CheckAssignee
    <3> QED
      BY <3>1, <3>2, ProceedGoes DEF PcValues
  <2>2. pc' \in [Requests -> PcValues] /\ answer' \in [Requests -> Answers]
    BY <1>1, <2>1, ControlTyped
  <2>3. UNCHANGED <<membership, stored, lock, job, target, seen, basis>>
    BY <1>4 DEF Authorize, CheckAssignee
  <2> QED
    BY <1>1, <2>2, <2>3, QuietTablesTyped DEF StateTyped, RequestsTyped
<1>5. ASSUME NEW r \in Requests, Begin(r) PROVE StateTyped'
  <2>1. pc' \in [Requests -> PcValues] /\ answer' \in [Requests -> Answers]
    BY <1>1, <1>5, ControlTyped DEF Begin, PcValues
  <2> QED
    BY <1>1, <1>5, <2>1, QuietTablesTyped DEF Begin, StateTyped, RequestsTyped
<1>6. ASSUME NEW r \in Requests, LockRow(r) PROVE StateTyped'
  <2>1. target[r] \in Tasks /\ tasks[target[r]] # None
    BY <1>1, <1>6, JobsAndTasks DEF LockRow, Follows, HasRead
  <2>2. DiffBase(r) \in Rows
    BY <1>1, <2>1, JobsAndTasks DEF DiffBase
  <2>3. pc' \in [Requests -> PcValues] /\ answer' \in [Requests -> Answers]
    <3>1. Goto(r, "write") \/ Answer(r, 200, DiffBase(r))
      BY <1>6 DEF LockRow
    <3> QED
      BY <1>1, <2>2, <3>1, ControlTyped DEF PcValues
  <2>4. /\ seen' \in [Requests -> Rows \union {None}]
        /\ lock' \in [Tasks -> Requests \union {None}]
    BY <1>1, <1>6, <2>2 DEF LockRow, StateTyped, RequestsTyped
  <2> QED
    BY <1>1, <1>6, <2>3, <2>4, QuietTablesTyped DEF LockRow, StateTyped, RequestsTyped
<1>7. ASSUME NEW r \in Requests, CommitUpdate(r) PROVE StateTyped'
  <2> DEFINE i == target[r]
             set == job[r].set
             changed == DiffTask(seen[r], set)
             row == Overwrite(tasks[i].row, set, changed)
             revision == [by |-> job[r].actor, old |-> [f \in changed |-> seen[r][f]],
                                               new |-> [f \in changed |-> set[f]]]
  <2>1. pc[r] = "write" /\ Updates(r) /\ Valid(job[r])
    BY <1>1, <1>7 DEF CommitUpdate, Follows
  <2>2. i \in Tasks /\ tasks[i] # None /\ seen[r] = tasks[i].row /\ tasks[i].row \in Rows
    BY <1>1, <2>1, JobsAndTasks DEF Follows, HasRead, HoldsRow
  <2>3. row \in Rows /\ revision \in Revision
    BY <1>1, <2>1, <2>2, UpdatedRow, RevisionTyped, JobsAndTasks DEF Updates, Revision
  <2> HIDE DEF i, set, changed, row, revision
  <2>4. /\ tasks' = [tasks EXCEPT ![i].row = row]
        /\ history' = [history EXCEPT ![i] = Append(@, revision)]
        /\ versions' = [versions EXCEPT ![i] = Append(@, row)]
        /\ writers' = [writers EXCEPT ![i] = Append(@, r)]
        /\ Release(r)
        /\ Answer(r, 200, row) \/ Refuse(r, 500)
        /\ UNCHANGED <<membership, job, target, seen, basis>>
    BY <1>7 DEF CommitUpdate, AnsweredRow, i, set, changed, row, revision
  <2>5. tasks' \in [Tasks -> TaskRecords \union {None}]
    <3>1. tasks[i] \in TaskRecords
      BY <1>1, <2>2 DEF StateTyped, TablesTyped
    <3>2. [tasks[i] EXCEPT !.row = row] \in TaskRecords
      BY <2>3, <3>1 DEF TaskRecords
    <3> QED
      BY <1>1, <2>2, <2>4, <3>2 DEF StateTyped, TablesTyped
  <2>6. /\ history' \in [Tasks -> Seq(Revision)]
        /\ versions' \in [Tasks -> Seq(Rows)]
        /\ writers' \in [Tasks -> Seq(Requests)]
    BY <1>1, <2>2, <2>3, <2>4 DEF StateTyped, TablesTyped
  <2>7. TablesTyped'
    BY <1>1, <2>4, <2>5, <2>6 DEF StateTyped, TablesTyped, MembershipTypeOK, membership
  <2>8. pc' \in [Requests -> PcValues] /\ answer' \in [Requests -> Answers]
    BY <1>1, <2>3, <2>4, ControlTyped
  <2> QED
    BY <1>1, <2>4, <2>7, <2>8, ReleaseTyped DEF StateTyped, RequestsTyped
<1>8. ASSUME NEW r \in Requests, NEW i \in Tasks, InsertTask(r, i) PROVE StateTyped'
  <2>1. Creates(r) /\ Valid(job[r])
    BY <1>1, <1>8 DEF InsertTask, Follows
  <2>2. NewRow(job[r].set) \in Rows /\ Team(r) \in Teams /\ job[r].actor \in Users
    BY <1>1, <2>1, CreatedRow, JobsAndTasks DEF Creates, Team
  <2>3. tasks' \in [Tasks -> TaskRecords \union {None}] /\ versions' \in [Tasks -> Seq(Rows)]
    BY <1>1, <1>8, <2>2 DEF InsertTask, StateTyped, TablesTyped, TaskRecords
  <2>4. TablesTyped'
    BY <1>1, <1>8, <2>3 DEF InsertTask, StateTyped, TablesTyped, MembershipTypeOK, membership
  <2>5. pc' \in [Requests -> PcValues] /\ answer' \in [Requests -> Answers]
    <3>1. Goto(r, "reread") \/ Refuse(r, 500)
      BY <1>8 DEF InsertTask
    <3> QED
      BY <1>1, <3>1, ControlTyped DEF PcValues
  <2>6. target' \in [Requests -> Tasks \union {None}] /\ basis' \in [Requests -> Nat]
    BY <1>1, <1>8 DEF InsertTask, StateTyped, RequestsTyped
  <2> QED
    BY <1>1, <1>8, <2>4, <2>5, <2>6 DEF InsertTask, StateTyped, RequestsTyped
<1>9. ASSUME NEW r \in Requests, Reread(r) PROVE StateTyped'
  <2>1. tasks[target[r]].row \in Rows
    BY <1>1, <1>9, JobsAndTasks DEF Reread, HasRead
  <2>2. pc' \in [Requests -> PcValues] /\ answer' \in [Requests -> Answers]
    BY <1>1, <1>9, <2>1, ControlTyped DEF Reread
  <2> QED
    BY <1>1, <1>9, <2>2, QuietTablesTyped DEF Reread, StateTyped, RequestsTyped
<1>10. ASSUME NEW r \in Requests, Fail(r) PROVE StateTyped'
  <2>1. pc' \in [Requests -> PcValues] /\ answer' \in [Requests -> Answers]
    BY <1>1, <1>10, ControlTyped DEF Fail
  <2> QED
    BY <1>1, <1>10, <2>1, QuietTablesTyped, ReleaseTyped DEF Fail, StateTyped, RequestsTyped
<1>11. ASSUME NEW t \in Teams, NEW u \in Users, MembershipGrows(t, u) PROVE StateTyped'
  <2>1. MembershipTypeOK'
    <3>1. CASE CreateWithOwner(t, u)
      BY <1>1, <3>1 DEF CreateWithOwner, StateTyped, TablesTyped, MembershipTypeOK, Roles
    <3>2. CASE AddMember(t, u, "member")
      BY <1>1, <3>2 DEF AddMember, StateTyped, TablesTyped, MembershipTypeOK, Roles
    <3> QED
      BY <1>11, <3>1, <3>2 DEF MembershipGrows
  <2> QED
    BY <1>1, <1>11, <2>1 DEF MembershipGrows, StateTyped, TablesTyped, RequestsTyped, stored, control
<1>12. CASE UNCHANGED vars
  BY <1>1, <1>12, QuietTablesTyped DEF vars, control, StateTyped, RequestsTyped
<1> QED
  BY <1>2, <1>3, <1>4, <1>5, <1>6, <1>7, <1>8, <1>9, <1>10, <1>11, <1>12 DEF Next, Work

--------------------------------------------------------------------------------
(* Nothing that a request or a revision relies on is ever taken back.          *)

TablesGrow ==
    /\ \A t \in Teams, u \in Users : role[t][u] # NoRole => role'[t][u] = role[t][u]
    /\ \A i \in Tasks :
          /\ tasks[i] # None => /\ tasks'[i] # None
                                /\ tasks'[i].team = tasks[i].team
                                /\ tasks'[i].author = tasks[i].author
          /\ Len(versions[i]) <= Len(versions'[i])
          /\ \A n \in 1 .. Len(versions[i]) : versions'[i][n] = versions[i][n]

SameRequest(r) ==
    /\ pc'[r] = pc[r] /\ job'[r] = job[r] /\ target'[r] = target[r]
    /\ seen'[r] = seen[r] /\ answer'[r] = answer[r] /\ basis'[r] = basis[r]

SameRow(i) == lock'[i] = lock[i] /\ tasks'[i] = tasks[i]

LEMMA UnchangedGrows ==
  ASSUME StateTyped, UNCHANGED <<membership, stored>>
  PROVE  TablesGrow
BY DEF StateTyped, TablesTyped, TablesGrow, membership, stored

(* A request keeps all it has while others work, but must hold its row lock    *)
(* for the row it is about to write.                                           *)
LEMMA IdleRequest ==
  ASSUME StateTyped, StateTyped', TablesGrow, NEW r \in Requests, RequestHolds(r),
         SameRequest(r), pc[r] = "write" => SameRow(target[r])
  PROVE  RequestHolds(r)'
<1> DEFINE i == target[r]
<1>1. Follows(r)'
  BY DEF RequestHolds, SameRequest, Follows, Updates, Creates
<1>2. Updates(r) => i \in Tasks
  BY JobsAndTasks DEF RequestHolds, Follows
<1>3. i \in Tasks => Len(versions[i]) \in Nat /\ Len(versions'[i]) \in Nat
  BY DEF StateTyped, TablesTyped
<1>4. basis[r] \in Nat
  BY DEF StateTyped, RequestsTyped
<1>5. HasRead(r)'
  BY <1>2, <1>3, <1>4 DEF RequestHolds, SameRequest, HasRead, Updates, TablesGrow
<1>6. HoldsRow(r)'
  BY DEF RequestHolds, SameRequest, SameRow, HoldsRow
<1>7. Answered(r)'
  <2> SUFFICES ASSUME answer[r].code \in {200, 201} PROVE Answered(r)'
    BY DEF SameRequest, Answered
  <2>1. i \in Tasks /\ basis[r] >= 1
    BY DEF RequestHolds, Answered
  <2>2. PICK n \in basis[r] .. Len(versions[i]) : answer[r].task = versions[i][n]
    BY DEF RequestHolds, Answered
  <2>3. n \in basis[r] .. Len(versions'[i]) /\ versions'[i][n] = versions[i][n]
    BY <1>3, <1>4, <2>1, <2>2 DEF TablesGrow
  <2> QED
    BY <2>1, <2>2, <2>3 DEF RequestHolds, Answered, SameRequest
<1>8. Cleared(r)'
  <2> SUFFICES ASSUME pc[r] \in {"assignee", "begin", "lock", "write", "insert"} PROVE Cleared(r)'
    BY DEF SameRequest, Cleared
  <2>1. (Updates(r) \/ Creates(r)) /\ ~(Updates(r) /\ Creates(r))
    BY JobsAndTasks DEF RequestHolds, Follows
  <2>2. job[r].actor \in Users /\ Team(r) \in Teams /\ Team(r)' = Team(r)
    <3>1. CASE Creates(r)
      BY <3>1, JobsAndTasks DEF SameRequest, Team
    <3>2. CASE Updates(r)
      <4>1. tasks[i] # None /\ i \in Tasks
        BY <1>2, <2>1, <3>2 DEF RequestHolds, Follows, HasRead
      <4> QED
        BY <3>2, <4>1, JobsAndTasks DEF SameRequest, Team, TablesGrow
    <3> QED
      BY <2>1, <3>1, <3>2
  <2>3. \A u \in Users : role[Team(r)][u] # NoRole => role'[Team(r)][u] = role[Team(r)][u]
    BY <2>2 DEF TablesGrow
  <2>4. IsMember(Team(r), job[r].actor)
    BY DEF RequestHolds, Cleared
  <2>5. IsMember(Team(r), job[r].actor)' /\ GetRole(Team(r), job[r].actor)' = GetRole(Team(r), job[r].actor)
    BY <2>2, <2>3, <2>4 DEF IsMember, GetRole, SameRequest
  <2>6. ASSUME Updates(r)
        PROVE  (\/ CanManageAnyTask(GetRole(Team(r), job[r].actor))
                \/ /\ "assignee_to" \notin DOMAIN job[r].set
                   /\ versions[target[r]][basis[r]]["assignee_to"] = job[r].actor)'
    <3>1. basis[r] \in 1 .. Len(versions[i])
      BY <2>1, <2>6 DEF RequestHolds, Follows, HasRead
    <3>2. versions'[i][basis[r]] = versions[i][basis[r]]
      BY <1>2, <2>6, <3>1 DEF TablesGrow
    <3> QED
      BY <2>5, <2>6, <3>2 DEF RequestHolds, Cleared, SameRequest, CanManageAnyTask
  <2>7. ASSUME pc[r] \in {"begin", "lock", "write", "insert"}, NamesAssignee(job[r].set)
        PROVE  AcceptsAssignee(r)'
    <3>1. job[r].set["assignee_to"] \in Users
      BY <2>1, <2>7, JobsAndTasks, BodyTyped DEF NamesAssignee
    <3> QED
      BY <2>2, <2>3, <2>7, <3>1 DEF RequestHolds, Cleared, AcceptsAssignee, IsMember, GetRole, SameRequest
  <2> QED
    BY <2>5, <2>6, <2>7 DEF Cleared, SameRequest, Updates, NamesAssignee
<1> QED
  BY <1>1, <1>5, <1>6, <1>7, <1>8 DEF RequestHolds

(* The audit trail of one task. *)
Records(h, before, after) ==
    LET changed == {f \in Fields : before[f] # after[f]}
    IN  /\ changed # {}
        /\ h.old = [f \in changed |-> before[f]]
        /\ h.new = [f \in changed |-> after[f]]

Audited(i) ==
    /\ Len(versions[i]) = Len(history[i]) + 1
    /\ tasks[i].row = versions[i][Len(versions[i])]
    /\ \A n \in Revisions(i) : Records(history[i][n], versions[i][n], versions[i][n + 1])

LEMMA TaskByTask ==
  /\ AuditTrail <=> \A i \in Tasks : tasks[i] # None => Audited(i)
  /\ (AuditTrail <=> \A i \in Tasks : tasks[i] # None => Audited(i))'
BY DEF AuditTrail, Audited, Records

SameTask(i) ==
    /\ tasks'[i] = tasks[i] /\ history'[i] = history[i]
    /\ versions'[i] = versions[i] /\ writers'[i] = writers[i]

LEMMA UntouchedTask ==
  ASSUME Inv, NEW i \in Tasks, SameTask(i)
  PROVE  (tasks[i] # None => Audited(i))'
<1>1. tasks[i] # None => Audited(i)
  BY TaskByTask DEF Inv
<1> QED
  BY <1>1 DEF SameTask, Audited, Revisions

(* A revision stays authorised: its author keeps her role, and the request     *)
(* that wrote it has nothing more to do.                                       *)
RevisionAuthorised(i, n) ==
    LET h == history[i][n]
        r == writers[i][n]
    IN  /\ h.by = job[r].actor
        /\ GetRole(tasks[i].team, h.by) # "stranger"
        /\ \A f \in DOMAIN h.new : f \in DOMAIN job[r].set /\ h.new[f] = job[r].set[f]
        /\ ~ManagesTask(i, h.by) =>
              /\ "assignee_to" \notin DOMAIN h.new
              /\ basis[r] \in 1 .. n
              /\ versions[i][basis[r]]["assignee_to"] = h.by

LEMMA RevisionByRevision ==
  /\ WritesAuthorised <=> \A i \in Tasks : \A n \in Revisions(i) : RevisionAuthorised(i, n)
  /\ (WritesAuthorised <=> \A i \in Tasks : \A n \in Revisions(i) : RevisionAuthorised(i, n))'
BY DEF WritesAuthorised, RevisionAuthorised

LEMMA RevisionsAreOld ==
  ASSUME Inv, NEW i \in Tasks, NEW n \in Revisions(i)
  PROVE  /\ tasks[i] # None
         /\ n \in Nat /\ Len(versions[i]) = Len(history[i]) + 1
         /\ n \in 1 .. Len(versions[i]) /\ n + 1 \in 1 .. Len(versions[i])
         /\ history[i][n] \in Revision
         /\ writers[i][n] \in Requests
         /\ pc[writers[i][n]] = "done"
         /\ RevisionAuthorised(i, n)
<1>1. history[i] \in Seq(Revision) /\ writers[i] \in Seq(Requests)
  BY DEF Inv, StateTyped, TablesTyped
<1>2. n \in 1 .. Len(history[i])
  BY DEF Revisions
<1>3. tasks[i] # None
  BY <1>1, <1>2 DEF Inv, Kept
<1>4. Len(versions[i]) = Len(history[i]) + 1 /\ Len(writers[i]) = Len(history[i])
  BY <1>3 DEF Inv, Kept
<1>5. pc[writers[i][n]] = "done"
  BY DEF Inv, Kept
<1> QED
  BY <1>1, <1>2, <1>3, <1>4, <1>5, RevisionByRevision DEF Inv

LEMMA RevisionStays ==
  ASSUME Inv, TablesGrow, NEW i \in Tasks, NEW n \in Revisions(i),
         history'[i][n] = history[i][n], writers'[i][n] = writers[i][n],
         \A s \in Requests : pc[s] = "done" => job'[s] = job[s] /\ basis'[s] = basis[s]
  PROVE  RevisionAuthorised(i, n)'
<1> DEFINE h == history[i][n]
           r == writers[i][n]
<1>1. /\ tasks[i] # None /\ n \in 1 .. Len(versions[i]) /\ h \in Revision
      /\ r \in Requests /\ pc[r] = "done" /\ RevisionAuthorised(i, n)
  BY RevisionsAreOld
<1>2. tasks[i].team \in Teams /\ h.by \in Users
  BY <1>1, JobsAndTasks DEF Inv, Revision
<1>3. tasks'[i].team = tasks[i].team /\ role'[tasks[i].team][h.by] = role[tasks[i].team][h.by]
  BY <1>1, <1>2 DEF TablesGrow, RevisionAuthorised, GetRole, NoRole
<1>4. basis[r] \in 1 .. n => versions'[i][basis[r]] = versions[i][basis[r]]
  BY <1>1, SMTT(30) DEF TablesGrow
<1>5. job'[r] = job[r] /\ basis'[r] = basis[r]
  BY <1>1
<1>6. /\ h.by = job[r].actor
      /\ role[tasks[i].team][h.by] # "stranger"
      /\ \A f \in DOMAIN h.new : f \in DOMAIN job[r].set /\ h.new[f] = job[r].set[f]
      /\ role[tasks[i].team][h.by] \notin {"owner", "admin"} =>
            /\ "assignee_to" \notin DOMAIN h.new
            /\ basis[r] \in 1 .. n
            /\ versions'[i][basis[r]]["assignee_to"] = h.by
  BY <1>1, <1>4 DEF RevisionAuthorised, ManagesTask, GetRole
<1> HIDE DEF h, r
<1>7. history'[i][n] = h /\ writers'[i][n] = r
  BY DEF h, r
<1> QED
  BY <1>3, <1>5, <1>6, <1>7 DEF RevisionAuthorised, ManagesTask, GetRole

(* The steps that leave the tables alone. *)
LEMMA QuietStep ==
  ASSUME Inv, StateTyped', UNCHANGED <<membership, stored>>, NEW r \in Requests, pc[r] # "done",
         \A s \in Requests \ {r} : SameRequest(s),
         \A i \in Tasks : lock[i] \notin {r, None} => lock'[i] = lock[i],
         RequestHolds(r)'
  PROVE  Inv'
<1>1. TablesGrow
  BY UnchangedGrows DEF Inv
<1>2. ASSUME NEW s \in Requests PROVE RequestHolds(s)'
  <2> SUFFICES ASSUME s # r PROVE RequestHolds(s)'
    OBVIOUS
  <2>1. pc[s] = "write" => target[s] \in Tasks /\ lock[target[s]] = s
    BY JobsAndTasks DEF Inv, RequestHolds, Follows, HoldsRow
  <2>2. pc[s] = "write" => SameRow(target[s])
    BY <2>1, NoneIsNoRequest DEF SameRow, stored
  <2> QED
    BY <1>1, <2>2, IdleRequest DEF Inv
<1>3. ASSUME NEW i \in Tasks PROVE Kept(i)'
  <2>1. \A n \in Revisions(i) : pc'[writers[i][n]] = "done"
    BY RevisionsAreOld DEF SameRequest
  <2> QED
    BY <2>1 DEF Inv, Kept, Revisions, IsMember, GetRole, membership, stored
<1>4. AuditTrail'
  <2>1. ASSUME NEW i \in Tasks PROVE (tasks[i] # None => Audited(i))'
    BY UntouchedTask DEF SameTask, stored
  <2> QED
    BY <2>1, TaskByTask
<1>5. WritesAuthorised'
  <2> SUFFICES ASSUME NEW i \in Tasks, NEW n \in Revisions(i) PROVE RevisionAuthorised(i, n)'
    BY RevisionByRevision DEF Revisions, stored
  <2> QED
    BY <1>1, RevisionStays DEF stored, SameRequest
<1>6. OneOwner'
  BY DEF Inv, OneOwner, IsMember, GetRole, membership
<1> QED
  BY <1>2, <1>3, <1>4, <1>5, <1>6 DEF Inv

--------------------------------------------------------------------------------
(* The calls before a transaction, and those that end a request *)

LEMMA GotoSets ==
  ASSUME StateTyped, NEW r \in Requests, NEW where, Goto(r, where)
  PROVE  /\ pc'[r] = where /\ answer'[r] = answer[r]
         /\ \A s \in Requests \ {r} : pc'[s] = pc[s] /\ answer'[s] = answer[s]
BY DEF StateTyped, RequestsTyped, Goto

LEMMA AnswerSets ==
  ASSUME StateTyped, NEW r \in Requests, NEW code, NEW task, Answer(r, code, task)
  PROVE  /\ pc'[r] = "done" /\ answer'[r].code = code /\ answer'[r].task = task
         /\ \A s \in Requests \ {r} : pc'[s] = pc[s] /\ answer'[s] = answer[s]
BY DEF StateTyped, RequestsTyped, Answer

(* A request that is refused promises nothing about any task. *)
LEMMA RefusedHolds ==
  ASSUME StateTyped, NEW r \in Requests, NEW code \in {400, 403, 404, 500}, Refuse(r, code),
         (Updates(r) \/ Creates(r))', (Updates(r) => target[r] = job[r].task)'
  PROVE  RequestHolds(r)'
<1>1. pc'[r] = "done" /\ answer'[r].code = code
  BY AnswerSets DEF Refuse
<1> QED
  BY <1>1 DEF RequestHolds, Follows, HasRead, HoldsRow, Cleared, Answered

(* One that goes on has not answered yet, and still asks for the same.         *)
LEMMA GoesOn ==
  ASSUME Inv, NEW r \in Requests, pc[r] \notin {"idle", "done"}, UNCHANGED <<job, target>>,
         NEW where \in {"authorize", "assignee", "begin", "lock", "write", "insert", "reread"},
         Goto(r, where),
         where \in {"begin", "lock", "write"} => Updates(r),
         where \in {"insert", "reread"} => Creates(r)
  PROVE  Follows(r)' /\ Answered(r)' /\ pc'[r] = where
<1>1. pc'[r] = where /\ answer'[r] = answer[r]
  BY GotoSets DEF Inv
<1>2. Follows(r) /\ answer[r].code = 0
  BY DEF Inv, RequestHolds, Follows
<1> QED
  BY <1>1, <1>2 DEF Follows, Answered, Updates, Creates

LEMMA StartInv ==
  ASSUME Inv, StateTyped', NEW r \in Requests, NEW j \in Inputs, Start(r, j)
  PROVE  Inv'
<1>1. job'[r] = j /\ target'[r] = (IF j.op = "update" THEN j.task ELSE None)
  BY DEF Start, Inv, StateTyped, RequestsTyped
<1>2. j.op = "update" <=> j \in UpdateJobs
  BY InputsAreJobs DEF CreateJobs, UpdateJobs
<1>3. (Updates(r) \/ Creates(r))' /\ (Updates(r) => target[r] = job[r].task)'
  BY <1>1, <1>2, InputsAreJobs DEF Updates, Creates
<1>4. answer[r].code = 0
  BY DEF Start, Inv, RequestHolds, Follows
<1>5. RequestHolds(r)'
  <2>1. CASE Valid(j)
    <3>1. pc'[r] = (IF j.op = "update" THEN "read" ELSE "authorize") /\ answer'[r] = answer[r]
      BY <2>1, GotoSets DEF Start, Inv
    <3> QED
      BY <1>1, <1>2, <1>3, <1>4, <2>1, <3>1, JobsAndTasks
      DEF RequestHolds, Follows, HasRead, HoldsRow, Cleared, Answered, Updates, Creates
  <2>2. CASE ~Valid(j)
    BY <1>3, <2>2, RefusedHolds DEF Start, Inv
  <2> QED
    BY <2>1, <2>2
<1>6. \A s \in Requests \ {r} : SameRequest(s)
  <2>1. \A s \in Requests \ {r} : pc'[s] = pc[s] /\ answer'[s] = answer[s]
    BY GotoSets, AnswerSets DEF Start, Refuse, Inv
  <2> QED
    BY <2>1 DEF SameRequest, Start, Inv, StateTyped, RequestsTyped
<1> QED
  BY <1>5, <1>6, QuietStep DEF Start

LEMMA ReadTaskInv ==
  ASSUME Inv, StateTyped', NEW r \in Requests, ReadTask(r)
  PROVE  Inv'
<1> DEFINE i == target[r]
<1>1. i \in Tasks /\ Updates(r) /\ Valid(job[r]) /\ target[r] = job[r].task
  BY JobsAndTasks DEF ReadTask, Inv, RequestHolds, Follows
<1>2. RequestHolds(r)'
  <2>1. CASE tasks[i] = None
    BY <1>1, <2>1, RefusedHolds DEF ReadTask, Inv, Updates
  <2>2. CASE tasks[i] # None
    <3>1. pc'[r] = "authorize" /\ Follows(r)' /\ Answered(r)'
      BY <1>1, <2>2, GoesOn DEF ReadTask
    <3>2. seen'[r] = tasks[i].row /\ basis'[r] = Len(versions[i])
      BY <2>2 DEF ReadTask, Inv, StateTyped, RequestsTyped
    <3>3. history[i] \in Seq(Revision) /\ Len(versions[i]) = Len(history[i]) + 1
          /\ tasks[i].row = versions[i][Len(versions[i])]
      BY <1>1, <2>2 DEF Inv, Kept, StateTyped, TablesTyped
    <3>4. HasRead(r)'
      BY <2>2, <3>1, <3>2, <3>3 DEF HasRead, ReadTask, stored
    <3> QED
      BY <3>1, <3>4 DEF RequestHolds, HoldsRow, Cleared
  <2> QED
    BY <2>1, <2>2
<1>3. \A s \in Requests \ {r} : SameRequest(s)
  <2>1. \A s \in Requests \ {r} : pc'[s] = pc[s] /\ answer'[s] = answer[s]
    BY GotoSets, AnswerSets DEF ReadTask, Refuse, Inv
  <2> QED
    BY <2>1 DEF SameRequest, ReadTask, Inv, StateTyped, RequestsTyped
<1> QED
  BY <1>2, <1>3, QuietStep DEF ReadTask

(* What the authorisation of a request has found. *)
Authorised(r) ==
    /\ IsMember(Team(r), job[r].actor)
    /\ Updates(r) =>
          \/ CanManageAnyTask(GetRole(Team(r), job[r].actor))
          \/ /\ "assignee_to" \notin DOMAIN job[r].set
             /\ versions[target[r]][basis[r]]["assignee_to"] = job[r].actor

LEMMA SameChecks ==
  ASSUME NEW r \in Requests,
         UNCHANGED <<membership, stored, job, target, basis>>
  PROVE  /\ Authorised(r)' <=> Authorised(r)
         /\ (NamesAssignee(job[r].set) => AcceptsAssignee(r))'
               <=> (NamesAssignee(job[r].set) => AcceptsAssignee(r))
         /\ Updates(r)' <=> Updates(r)
         /\ Creates(r)' <=> Creates(r)
BY DEF Authorised, AcceptsAssignee, NamesAssignee, IsMember, GetRole, Team, Updates, Creates,
       membership, stored

LEMMA ProceedHolds ==
  ASSUME Inv, NEW r \in Requests, pc[r] \in {"authorize", "assignee"}, Proceed(r),
         UNCHANGED <<membership, stored, lock, job, target, seen, basis>>,
         Authorised(r), NamesAssignee(job[r].set) => AcceptsAssignee(r)
  PROVE  RequestHolds(r)'
<1>1. Follows(r) /\ HasRead(r)
  BY DEF Inv, RequestHolds
<1>2. Authorised(r)' /\ (NamesAssignee(job[r].set) => AcceptsAssignee(r))'
  BY SameChecks
<1>3. CASE Creates(r)
  <2>1. Goto(r, "insert")
    BY <1>3, JobsAndTasks DEF Inv, Proceed
  <2>2. Follows(r)' /\ Answered(r)' /\ pc'[r] = "insert"
    BY <1>3, <2>1, GoesOn
  <2> QED
    BY <1>2, <1>3, <2>2, JobsAndTasks DEF Inv, RequestHolds, HasRead, HoldsRow, Cleared, Authorised, Updates, Creates
<1>4. CASE Updates(r)
  <2> DEFINE i == target[r]
  <2>1. i \in Tasks /\ tasks[i] # None /\ basis[r] \in 1 .. Len(versions[i])
        /\ seen[r] = versions[i][basis[r]] /\ job[r].op = "update" /\ Valid(job[r])
    BY <1>1, <1>4, JobsAndTasks DEF Inv, HasRead, Follows
  <2>2. CASE DiffTask(seen[r], job[r].set) = {}
    <3>1. Answer(r, 200, seen[r])
      BY <2>1, <2>2 DEF Proceed
    <3>2. pc'[r] = "done" /\ answer'[r].code = 200 /\ answer'[r].task = seen[r]
      BY <3>1, AnswerSets DEF Inv
    <3>3. \A f \in DOMAIN job[r].set : seen[r][f] = job[r].set[f]
      BY <1>4, <2>1, <2>2, NothingToDo DEF Updates
    <3>4. Len(versions[i]) \in Nat /\ basis[r] \in Nat
      BY <2>1 DEF Inv, StateTyped, TablesTyped, RequestsTyped
    <3>5. Answered(r)'
      BY <2>1, <3>2, <3>3, <3>4 DEF Answered, stored
    <3> QED
      BY <1>1, <1>4, <3>2, <3>5 DEF RequestHolds, Follows, HasRead, HoldsRow, Cleared, Updates
  <2>3. CASE DiffTask(seen[r], job[r].set) # {}
    <3>1. Goto(r, "begin")
      BY <2>1, <2>3 DEF Proceed
    <3>2. Follows(r)' /\ Answered(r)' /\ pc'[r] = "begin"
      BY <1>4, <3>1, GoesOn
    <3>3. HasRead(r)'
      BY <2>1, <3>2 DEF HasRead, stored
    <3> QED
      BY <1>2, <3>2, <3>3 DEF RequestHolds, HoldsRow, Cleared, Authorised
  <2> QED
    BY <2>2, <2>3
<1> QED
  BY <1>1, <1>3, <1>4 DEF Follows

(* A refusal leaves what a request asks for alone. *)
LEMMA RefusalHolds ==
  ASSUME Inv, NEW r \in Requests, pc[r] # "idle", UNCHANGED <<job, target>>,
         NEW code \in {400, 403, 404, 500}, Refuse(r, code)
  PROVE  RequestHolds(r)'
BY RefusedHolds DEF Inv, RequestHolds, Follows, Updates, Creates

LEMMA AuthorizeInv ==
  ASSUME Inv, StateTyped', NEW r \in Requests, Authorize(r)
  PROVE  Inv'
<1> DEFINE allowed == IF job[r].op = "create" THEN MayCreate(r) ELSE MayUpdate(r)
<1>1. Follows(r) /\ HasRead(r) /\ pc[r] = "authorize"
  BY DEF Inv, RequestHolds, Authorize
<1>2. RequestHolds(r)'
  <2>1. CASE ~allowed
    BY <1>1, <2>1, RefusalHolds DEF Authorize
  <2>2. CASE allowed
    <3>1. Authorised(r)
      <4>1. CASE Creates(r)
        BY <2>2, <4>1, JobsAndTasks DEF Inv, Authorised, MayCreate
      <4>2. CASE Updates(r)
        BY <1>1, <2>2, <4>2, JobsAndTasks DEF Inv, Authorised, MayUpdate, HasRead
      <4> QED
        BY <1>1, <4>1, <4>2 DEF Follows
    <3>2. CASE NamesAssignee(job[r].set)
      <4>1. Follows(r)' /\ Answered(r)' /\ pc'[r] = "assignee"
        BY <1>1, <2>2, <3>2, GoesOn DEF Authorize
      <4>2. Authorised(r)'
        BY <3>1, SameChecks DEF Authorize
      <4>3. HasRead(r)'
        BY <1>1, <4>1 DEF HasRead, Authorize, stored, Updates
      <4> QED
        BY <4>1, <4>2, <4>3 DEF RequestHolds, HoldsRow, Cleared, Authorised
    <3>3. CASE ~NamesAssignee(job[r].set)
      BY <1>1, <2>2, <3>1, <3>3, ProceedHolds DEF Authorize
    <3> QED
      BY <3>2, <3>3
  <2> QED
    BY <2>1, <2>2
<1>3. \A s \in Requests \ {r} : SameRequest(s)
  <2>1. \A s \in Requests \ {r} : pc'[s] = pc[s] /\ answer'[s] = answer[s]
    BY GotoSets, AnswerSets DEF Authorize, Proceed, Refuse, Inv
  <2> QED
    BY <2>1 DEF SameRequest, Authorize
<1> QED
  BY <1>1, <1>2, <1>3, QuietStep DEF Authorize

LEMMA CheckAssigneeInv ==
  ASSUME Inv, StateTyped', NEW r \in Requests, CheckAssignee(r)
  PROVE  Inv'
<1>1. pc[r] = "assignee" /\ Authorised(r)
  BY DEF Inv, RequestHolds, Cleared, CheckAssignee, Authorised
<1>2. RequestHolds(r)'
  BY <1>1, RefusalHolds, ProceedHolds DEF CheckAssignee
<1>3. \A s \in Requests \ {r} : SameRequest(s)
  <2>1. \A s \in Requests \ {r} : pc'[s] = pc[s] /\ answer'[s] = answer[s]
    BY GotoSets, AnswerSets DEF CheckAssignee, Proceed, Refuse, Inv
  <2> QED
    BY <2>1 DEF SameRequest, CheckAssignee
<1> QED
  BY <1>1, <1>2, <1>3, QuietStep DEF CheckAssignee

LEMMA BeginInv ==
  ASSUME Inv, StateTyped', NEW r \in Requests, Begin(r)
  PROVE  Inv'
<1>1. Follows(r) /\ HasRead(r) /\ Cleared(r) /\ pc[r] = "begin" /\ Updates(r)
  BY DEF Inv, RequestHolds, Begin, Follows
<1>2. Follows(r)' /\ Answered(r)' /\ pc'[r] = "lock"
  BY <1>1, GoesOn DEF Begin
<1>3. HasRead(r)'
  BY <1>1, <1>2 DEF Begin, HasRead, stored
<1>4. Cleared(r)'
  <2>1. Authorised(r) /\ (NamesAssignee(job[r].set) => AcceptsAssignee(r))
    BY <1>1 DEF Cleared, Authorised
  <2>2. Authorised(r)' /\ (NamesAssignee(job[r].set) => AcceptsAssignee(r))'
    BY <2>1, SameChecks DEF Begin
  <2> QED
    BY <1>2, <2>2 DEF Cleared, Authorised
<1>5. RequestHolds(r)'
  BY <1>2, <1>3, <1>4 DEF RequestHolds, HoldsRow
<1>6. \A s \in Requests \ {r} : SameRequest(s)
  BY GotoSets DEF SameRequest, Begin, Inv
<1> QED
  BY <1>1, <1>5, <1>6, QuietStep DEF Begin

LEMMA LockRowInv ==
  ASSUME Inv, StateTyped', NEW r \in Requests, LockRow(r)
  PROVE  Inv'
<1> DEFINE i == target[r]
           row == tasks[i].row
<1>1. Follows(r) /\ HasRead(r) /\ Cleared(r) /\ pc[r] = "lock" /\ Updates(r) /\ Valid(job[r])
  BY DEF Inv, RequestHolds, LockRow, Follows
<1>2. i \in Tasks /\ tasks[i] # None /\ basis[r] \in 1 .. Len(versions[i])
  BY <1>1, JobsAndTasks DEF Inv, Follows, HasRead
<1>3. seen'[r] = row
  BY DEF LockRow, DiffBase, Inv, StateTyped, RequestsTyped
<1>4. Authorised(r)' /\ (NamesAssignee(job[r].set) => AcceptsAssignee(r))'
  <2>1. Authorised(r) /\ (NamesAssignee(job[r].set) => AcceptsAssignee(r))
    BY <1>1 DEF Cleared, Authorised
  <2> QED
    BY <2>1, SameChecks DEF LockRow
<1>5. RequestHolds(r)'
  <2>1. CASE DiffTask(row, job[r].set) = {}
    <3>1. pc'[r] = "done" /\ answer'[r].code = 200 /\ answer'[r].task = row
      BY <2>1, AnswerSets DEF LockRow, DiffBase, Inv
    <3>2. \A f \in DOMAIN job[r].set : row[f] = job[r].set[f]
      BY <1>1, <2>1, NothingToDo DEF Updates
    <3>3. Len(versions[i]) \in basis[r] .. Len(versions[i]) /\ row = versions[i][Len(versions[i])]
          /\ basis[r] >= 1
      BY <1>2 DEF Inv, Kept, StateTyped, TablesTyped
    <3>4. Answered(r)'
      BY <1>2, <3>1, <3>2, <3>3 DEF Answered, LockRow, stored
    <3> QED
      BY <1>1, <3>1, <3>4 DEF RequestHolds, Follows, HasRead, HoldsRow, Cleared, Updates, LockRow
  <2>2. CASE DiffTask(row, job[r].set) # {}
    <3>1. Follows(r)' /\ Answered(r)' /\ pc'[r] = "write"
      BY <1>1, <2>2, GoesOn DEF LockRow, DiffBase
    <3>2. lock'[i] = r
      BY <1>2, <2>2 DEF LockRow, DiffBase, Inv, StateTyped, RequestsTyped
    <3>3. HasRead(r)'
      BY <1>2, <3>1 DEF HasRead, LockRow, stored
    <3>4. HoldsRow(r)'
      BY <1>3, <2>2, <3>2 DEF HoldsRow, LockRow, stored
    <3>5. Cleared(r)'
      BY <1>4, <3>1 DEF Cleared, Authorised
    <3> QED
      BY <3>1, <3>3, <3>4, <3>5 DEF RequestHolds
  <2> QED
    BY <2>1, <2>2
<1>6. \A s \in Requests \ {r} : SameRequest(s)
  <2>1. \A s \in Requests \ {r} : pc'[s] = pc[s] /\ answer'[s] = answer[s]
    BY GotoSets, AnswerSets DEF LockRow, Inv
  <2> QED
    BY <2>1 DEF SameRequest, LockRow, Inv, StateTyped, RequestsTyped
<1>7. \A k \in Tasks : lock[k] \notin {r, None} => lock'[k] = lock[k]
  BY DEF LockRow, RowIsFree, Inv, StateTyped, RequestsTyped
<1> QED
  BY <1>1, <1>5, <1>6, <1>7, QuietStep DEF LockRow

LEMMA RereadInv ==
  ASSUME Inv, StateTyped', NEW r \in Requests, Reread(r)
  PROVE  Inv'
<1> DEFINE i == target[r]
<1>1. i \in Tasks /\ tasks[i] # None /\ basis[r] = 1 /\ Follows(r) /\ pc[r] = "reread"
  BY DEF Reread, Inv, RequestHolds, HasRead
<1>2. pc'[r] = "done" /\ answer'[r].code = 201 /\ answer'[r].task = tasks[i].row
  BY AnswerSets DEF Reread, Inv
<1>3. Len(versions[i]) \in 1 .. Len(versions[i]) /\ tasks[i].row = versions[i][Len(versions[i])]
  <2>1. history[i] \in Seq(Revision)
    BY <1>1 DEF Inv, StateTyped, TablesTyped
  <2> QED
    BY <1>1, <2>1 DEF Inv, Kept
<1>4. Answered(r)'
  BY <1>1, <1>2, <1>3 DEF Answered, Reread, stored
<1>5. RequestHolds(r)'
  BY <1>1, <1>2, <1>4 DEF RequestHolds, Follows, HasRead, HoldsRow, Cleared, Updates, Creates, Reread
<1>6. \A s \in Requests \ {r} : SameRequest(s)
  BY AnswerSets DEF SameRequest, Reread, Inv
<1> QED
  BY <1>1, <1>5, <1>6, QuietStep DEF Reread

LEMMA FailInv ==
  ASSUME Inv, StateTyped', NEW r \in Requests, Fail(r)
  PROVE  Inv'
<1>1. RequestHolds(r)'
  BY RefusalHolds DEF Fail
<1>2. \A s \in Requests \ {r} : SameRequest(s)
  BY AnswerSets DEF SameRequest, Fail, Refuse, Inv
<1>3. \A k \in Tasks : lock[k] \notin {r, None} => lock'[k] = lock[k]
  BY DEF Fail, Release
<1> QED
  BY <1>1, <1>2, <1>3, QuietStep DEF Fail

--------------------------------------------------------------------------------
(* The steps that write a table *)

LEMMA MembershipGrowsInv ==
  ASSUME Inv, StateTyped', NEW t \in Teams, NEW u \in Users, MembershipGrows(t, u)
  PROVE  Inv'
<1>1. /\ UNCHANGED <<tasks, history, versions, writers, lock>>
      /\ \A r \in Requests : SameRequest(r)
  BY DEF MembershipGrows, stored, control, SameRequest
<1>2. role[t][u] = NoRole
  BY DEF MembershipGrows, CreateWithOwner, AddMember, DuplicateKey, IsMember, GetRole, Inv, OneOwner
<1>3. \A t1 \in Teams, u1 \in Users : t1 # t \/ u1 # u => role'[t1][u1] = role[t1][u1]
  <2>1. CASE CreateWithOwner(t, u)
    BY <2>1 DEF CreateWithOwner, Inv, StateTyped, TablesTyped, MembershipTypeOK
  <2>2. CASE AddMember(t, u, "member")
    BY <2>2 DEF AddMember, Inv, StateTyped, TablesTyped, MembershipTypeOK
  <2> QED
    BY <2>1, <2>2 DEF MembershipGrows
<1>4. \A t1 \in Teams, u1 \in Users : role[t1][u1] # NoRole => role'[t1][u1] = role[t1][u1]
  BY <1>2, <1>3
<1>5. TablesGrow
  BY <1>1, <1>4 DEF TablesGrow, Inv, StateTyped, TablesTyped
<1>6. ASSUME NEW r \in Requests PROVE RequestHolds(r)'
  BY <1>1, <1>5, IdleRequest DEF Inv, SameRow
<1>7. ASSUME NEW i \in Tasks PROVE Kept(i)'
  <2>1. tasks[i] # None =>
          /\ tasks[i].team \in Teams /\ tasks[i].author \in Users
          /\ tasks[i].row["assignee_to"] \in Users \union {None}
    BY JobsAndTasks, RowTyped DEF Inv
  <2>2. \A n \in Revisions(i) : pc'[writers[i][n]] = "done"
    BY <1>1, RevisionsAreOld DEF SameRequest
  <2> QED
    BY <1>1, <1>4, <2>1, <2>2 DEF Inv, Kept, Revisions, IsMember, GetRole
<1>8. AuditTrail'
  <2>1. ASSUME NEW i \in Tasks PROVE (tasks[i] # None => Audited(i))'
    BY <1>1, UntouchedTask DEF SameTask
  <2> QED
    BY <2>1, TaskByTask
<1>9. WritesAuthorised'
  <2> SUFFICES ASSUME NEW i \in Tasks, NEW n \in Revisions(i) PROVE RevisionAuthorised(i, n)'
    BY <1>1, RevisionByRevision DEF Revisions
  <2> QED
    BY <1>1, <1>5, RevisionStays DEF SameRequest
<1>10. OneOwner'
  <2> SUFFICES ASSUME NEW t1 \in Teams
               PROVE  /\ creator'[t1] = None => \A u1 \in Users : role'[t1][u1] = NoRole
                      /\ creator'[t1] # None =>
                            \A u1 \in Users : role'[t1][u1] = "owner" <=> u1 = creator'[t1]
    BY DEF OneOwner, IsMember, GetRole
  <2>0. /\ creator[t1] = None => \A u1 \in Users : role[t1][u1] = NoRole
        /\ creator[t1] # None => \A u1 \in Users : role[t1][u1] = "owner" <=> u1 = creator[t1]
    BY DEF Inv, OneOwner, IsMember, GetRole
  <2>1. CASE t1 # t
    <3>1. creator'[t1] = creator[t1]
      BY <2>1 DEF MembershipGrows, CreateWithOwner, AddMember, Inv, StateTyped, TablesTyped, MembershipTypeOK
    <3> QED
      BY <1>3, <2>0, <2>1, <3>1
  <2>2. CASE t1 = t /\ CreateWithOwner(t, u)
    <3>1. creator[t] = None /\ creator'[t] = u /\ role'[t][u] = "owner"
      BY <2>2 DEF CreateWithOwner, Inv, StateTyped, TablesTyped, MembershipTypeOK
    <3>2. u # None
      BY NoneIsNoUser
    <3> QED
      BY <1>3, <2>0, <2>2, <3>1, <3>2 DEF NoRole
  <2>3. CASE t1 = t /\ AddMember(t, u, "member")
    <3>1. creator[t] # None /\ creator'[t] = creator[t] /\ role'[t][u] = "member"
      BY <2>3 DEF AddMember, Inv, StateTyped, TablesTyped, MembershipTypeOK
    <3>2. u # creator[t]
      BY <1>2, <2>0, <2>3, <3>1 DEF NoRole
    <3> QED
      BY <1>3, <2>0, <2>3, <3>1, <3>2
  <2> QED
    BY <2>1, <2>2, <2>3 DEF MembershipGrows
<1> QED
  BY <1>6, <1>7, <1>8, <1>9, <1>10 DEF Inv

LEMMA InsertTaskInv ==
  ASSUME Inv, StateTyped', NEW r \in Requests, NEW i \in Tasks, InsertTask(r, i)
  PROVE  Inv'
<1> DEFINE row == NewRow(job[r].set)
<1>1. Follows(r) /\ Cleared(r) /\ pc[r] = "insert" /\ Creates(r) /\ Valid(job[r])
  BY DEF Inv, RequestHolds, InsertTask, Follows
<1>2. /\ row \in Rows /\ row["assignee_to"] = (IF NamesAssignee(job[r].set) THEN job[r].set["assignee_to"] ELSE None)
      /\ Team(r) = job[r].team
  BY <1>1, CreatedRow, JobsAndTasks DEF Creates, Team, Inv
<1>3. /\ tasks[i] = None /\ versions[i] = <<>> /\ history[i] = <<>> /\ writers[i] = <<>>
      /\ UNCHANGED <<membership, history, writers, lock, job, seen>>
  BY DEF InsertTask, Inv, Kept
<1>4. /\ tasks'[i] = [team |-> Team(r), author |-> job[r].actor, row |-> row]
      /\ versions'[i] = <<row>>
      /\ \A k \in Tasks \ {i} : tasks'[k] = tasks[k] /\ versions'[k] = versions[k]
      /\ target'[r] = i /\ basis'[r] = 1
      /\ \A s \in Requests \ {r} : target'[s] = target[s] /\ basis'[s] = basis[s]
  BY DEF InsertTask, Inv, StateTyped, TablesTyped, RequestsTyped
<1>5. tasks'[i] # None
  <2>1. tasks'[i] \in TaskRecords
    BY <1>1, <1>2, <1>4, JobsAndTasks DEF TaskRecords, Inv
  <2> QED
    BY <2>1, NoneIsNoRow
<1>6. TablesGrow
  <2>1. \A t \in Teams, u \in Users : role'[t][u] = role[t][u]
    BY <1>3 DEF membership
  <2>2. ASSUME NEW k \in Tasks
        PROVE  /\ Len(versions[k]) <= Len(versions'[k])
               /\ \A n \in 1 .. Len(versions[k]) : versions'[k][n] = versions[k][n]
    <3>1. versions[k] \in Seq(Rows) /\ versions'[k] \in Seq(Rows) /\ Len(<<>>) = 0
      BY DEF Inv, StateTyped, TablesTyped
    <3> QED
      BY <1>3, <1>4, <3>1
  <2> QED
    BY <1>3, <1>4, <2>1, <2>2 DEF TablesGrow
<1>7. \A s \in Requests \ {r} : SameRequest(s)
  <2>1. \A s \in Requests \ {r} : pc'[s] = pc[s] /\ answer'[s] = answer[s]
    BY GotoSets, AnswerSets DEF InsertTask, Refuse, Inv
  <2> QED
    BY <1>3, <1>4, <2>1 DEF SameRequest
<1>7a. /\ Len(versions'[i]) = 1 /\ versions'[i][1] = row
       /\ Len(history'[i]) = 0 /\ Len(writers'[i]) = 0
       /\ tasks'[i].team = Team(r) /\ tasks'[i].author = job[r].actor /\ tasks'[i].row = row
  BY <1>3, <1>4
<1>8. ASSUME NEW s \in Requests \ {r} PROVE RequestHolds(s)'
  <2>1. pc[s] = "write" => target[s] \in Tasks \ {i}
    BY <1>3, JobsAndTasks DEF Inv, RequestHolds, Follows, HasRead
  <2>2. pc[s] = "write" => SameRow(target[s])
    BY <1>3, <1>4, <2>1 DEF SameRow
  <2> QED
    BY <1>6, <1>7, <2>2, IdleRequest DEF Inv
<1>9. RequestHolds(r)'
  <2>1. Creates(r)' /\ ~Updates(r)'
    BY <1>1, <1>3, JobsAndTasks DEF Creates, Updates, Inv
  <2>2. CASE Goto(r, "reread")
    <3>1. pc'[r] = "reread" /\ answer'[r].code = 0
      BY <1>1, <2>2, GotoSets DEF Inv, Follows
    <3> QED
      BY <1>1, <1>3, <1>4, <1>5, <2>1, <3>1
      DEF RequestHolds, Follows, HasRead, HoldsRow, Cleared, Answered
  <2>3. CASE Refuse(r, 500)
    BY <2>1, <2>3, RefusedHolds DEF Inv
  <2> QED
    BY <2>2, <2>3 DEF InsertTask
<1>10. ASSUME NEW k \in Tasks PROVE Kept(k)'
  <2>1. CASE k = i
    <3>1. IsMember(Team(r), job[r].actor) /\
          (row["assignee_to"] # None => IsMember(Team(r), row["assignee_to"]))
      BY <1>1, <1>2 DEF Cleared, AcceptsAssignee
    <3>2. role' = role /\ 1 .. Len(history'[k]) = {}
      BY <1>3, <1>7a, <2>1 DEF membership
    <3>3. role'[tasks'[k].team][tasks'[k].author] # NoRole /\
          (tasks'[k].row["assignee_to"] # None => role'[tasks'[k].team][tasks'[k].row["assignee_to"]] # NoRole)
      BY <1>7a, <2>1, <3>1, <3>2 DEF IsMember, GetRole
    <3>4. tasks'[k] # None /\ Len(versions'[k]) = 1 /\ versions'[k][1] = tasks'[k].row
          /\ Len(history'[k]) = 0 /\ Len(writers'[k]) = 0
      BY <1>5, <1>7a, <2>1
    <3> QED
      BY <3>2, <3>3, <3>4 DEF Kept, Revisions, IsMember, GetRole
  <2>2. CASE k # i
    <3>1. \A n \in Revisions(k) : pc'[writers[k][n]] = "done"
      BY <1>1, <1>7, RevisionsAreOld DEF SameRequest
    <3> QED
      BY <1>3, <1>4, <2>2, <3>1 DEF Inv, Kept, Revisions, IsMember, GetRole, membership
  <2> QED
    BY <2>1, <2>2
<1>11. AuditTrail'
  <2>1. ASSUME NEW k \in Tasks PROVE (tasks[k] # None => Audited(k))'
    <3>1. CASE k = i
      BY <1>7a, <3>1 DEF Audited, Revisions
    <3>2. CASE k # i
      BY <1>3, <1>4, <3>2, UntouchedTask DEF SameTask
    <3> QED
      BY <3>1, <3>2
  <2> QED
    BY <2>1, TaskByTask
<1>12. WritesAuthorised'
  <2> SUFFICES ASSUME NEW k \in Tasks, NEW n \in Revisions(k) PROVE RevisionAuthorised(k, n)'
    BY <1>3, RevisionByRevision DEF Revisions
  <2> QED
    BY <1>1, <1>3, <1>6, <1>7, RevisionStays DEF SameRequest
<1>13. OneOwner'
  BY <1>3 DEF Inv, OneOwner, IsMember, GetRole, membership
<1> QED
  BY <1>8, <1>9, <1>10, <1>11, <1>12, <1>13 DEF Inv

LEMMA CommitUpdateInv ==
  ASSUME Inv, StateTyped', NEW r \in Requests, CommitUpdate(r)
  PROVE  Inv'
<1> DEFINE i == target[r]
           set == job[r].set
           old == tasks[i].row
           changed == DiffTask(old, set)
           new == Overwrite(old, set, changed)
           revision == [by |-> job[r].actor, old |-> [f \in changed |-> old[f]],
                                             new |-> [f \in changed |-> set[f]]]
           m == Len(history[i])
<1>1. Follows(r) /\ HasRead(r) /\ HoldsRow(r) /\ Cleared(r)
      /\ pc[r] = "write" /\ Updates(r) /\ Valid(job[r]) /\ target[r] = job[r].task
  BY DEF Inv, RequestHolds, CommitUpdate, Follows
<1>2. i \in Tasks /\ tasks[i] # None /\ seen[r] = old /\ lock[i] = r /\ changed # {} /\ old \in Rows
      /\ basis[r] \in 1 .. Len(versions[i])
  BY <1>1, JobsAndTasks DEF HasRead, HoldsRow, Inv
<1>3. /\ new \in Rows
      /\ changed = {f \in Fields : old[f] # new[f]}
      /\ \A f \in changed : f \in DOMAIN set /\ new[f] = set[f]
      /\ \A f \in DOMAIN set : new[f] = set[f]
  <2>1. job[r] \in UpdateJobs /\ Valid(job[r]) /\ old \in Rows
    BY <1>1, <1>2 DEF Updates
  <2> HIDE DEF old, changed, new
  <2>2. changed = DiffTask(old, job[r].set) /\ new = Overwrite(old, job[r].set, changed)
    BY DEF changed, new
  <2>3. /\ new \in Rows /\ changed \subseteq Fields
        /\ \A f \in Fields : f \in changed <=> old[f] # new[f]
        /\ \A f \in changed : f \in DOMAIN set /\ new[f] = set[f]
        /\ \A f \in DOMAIN set : new[f] = set[f]
    BY <2>1, <2>2, UpdatedRow
  <2>4. changed = {f \in Fields : old[f] # new[f]}
    BY <2>3
  <2> QED
    BY <2>3, <2>4
<1>4. tasks[i].team \in Teams /\ Team(r) = tasks[i].team /\ job[r].actor \in Users
  BY <1>1, <1>2, JobsAndTasks DEF Team, Inv
<1>5. revision.by = job[r].actor /\ revision.old = [f \in changed |-> old[f]]
      /\ revision.new = [f \in changed |-> new[f]] /\ DOMAIN revision.new = changed
  BY <1>3
<1>6. /\ tasks' = [tasks EXCEPT ![i].row = new]
      /\ history' = [history EXCEPT ![i] = Append(@, revision)]
      /\ versions' = [versions EXCEPT ![i] = Append(@, new)]
      /\ writers' = [writers EXCEPT ![i] = Append(@, r)]
      /\ Release(r)
      /\ Answer(r, 200, new) \/ Refuse(r, 500)
      /\ UNCHANGED <<membership, job, target, seen, basis>>
  BY <1>2 DEF CommitUpdate, AnsweredRow
<1> HIDE DEF i, set, old, changed, new, revision, m
<1>7. /\ \A k \in Tasks \ {i} : tasks'[k] = tasks[k] /\ history'[k] = history[k]
                                /\ versions'[k] = versions[k] /\ writers'[k] = writers[k]
      /\ tasks'[i] # None
      /\ tasks'[i].row = new /\ tasks'[i].team = tasks[i].team /\ tasks'[i].author = tasks[i].author
  <2>1. tasks[i] \in TaskRecords
    BY <1>2 DEF Inv, StateTyped, TablesTyped
  <2>2. tasks'[i] = [tasks[i] EXCEPT !.row = new]
    BY <1>2, <1>6 DEF Inv, StateTyped, TablesTyped
  <2>3. tasks'[i] \in TaskRecords
    BY <1>3, <2>1, <2>2 DEF TaskRecords
  <2>4. tasks'[i].row = new /\ tasks'[i].team = tasks[i].team /\ tasks'[i].author = tasks[i].author
    BY <2>1, <2>2 DEF TaskRecords
  <2> QED
    BY <1>6, <2>3, <2>4, NoneIsNoRow DEF Inv, StateTyped, TablesTyped
<1>8. /\ m \in Nat /\ Len(versions[i]) = m + 1 /\ Len(writers[i]) = m
      /\ old = versions[i][m + 1]
  BY <1>2 DEF Inv, Kept, StateTyped, TablesTyped, m, old
<1>9. /\ Len(history'[i]) = m + 1 /\ Len(versions'[i]) = m + 2 /\ Len(writers'[i]) = m + 1
      /\ history'[i][m + 1] = revision /\ versions'[i][m + 2] = new /\ writers'[i][m + 1] = r
      /\ \A n \in 1 .. m : history'[i][n] = history[i][n] /\ writers'[i][n] = writers[i][n]
      /\ \A n \in 1 .. m + 1 : versions'[i][n] = versions[i][n]
  <2>1. history[i] \in Seq(Revision) /\ versions[i] \in Seq(Rows) /\ writers[i] \in Seq(Requests)
    BY <1>2 DEF Inv, StateTyped, TablesTyped
  <2>2. history'[i] = Append(history[i], revision) /\ versions'[i] = Append(versions[i], new)
        /\ writers'[i] = Append(writers[i], r)
    BY <1>2, <1>6 DEF Inv, StateTyped, TablesTyped
  <2>3. Len(history[i]) = m
    BY DEF m
  <2>4. Len(history'[i]) = m + 1 /\ history'[i][m + 1] = revision
        /\ \A n \in 1 .. m : history'[i][n] = history[i][n]
    BY <1>8, <2>1, <2>2, <2>3
  <2>5. Len(versions'[i]) = m + 2 /\ versions'[i][m + 2] = new
        /\ \A n \in 1 .. m + 1 : versions'[i][n] = versions[i][n]
    BY <1>8, <2>1, <2>2
  <2>6. Len(writers'[i]) = m + 1 /\ writers'[i][m + 1] = r
        /\ \A n \in 1 .. m : writers'[i][n] = writers[i][n]
    BY <1>8, <2>1, <2>2
  <2> QED
    BY <2>4, <2>5, <2>6
<1>10. TablesGrow
  <2>1. \A t \in Teams, u \in Users : role'[t][u] = role[t][u]
    BY <1>6 DEF membership
  <2>2. ASSUME NEW k \in Tasks
        PROVE  /\ tasks[k] # None => /\ tasks'[k] # None
                                     /\ tasks'[k].team = tasks[k].team
                                     /\ tasks'[k].author = tasks[k].author
               /\ Len(versions[k]) <= Len(versions'[k])
               /\ \A n \in 1 .. Len(versions[k]) : versions'[k][n] = versions[k][n]
    <3>1. CASE k = i
      BY <1>7, <1>8, <1>9, <3>1
    <3>2. CASE k # i
      BY <1>7, <3>2 DEF Inv, StateTyped, TablesTyped
    <3> QED
      BY <3>1, <3>2
  <2> QED
    BY <2>1, <2>2 DEF TablesGrow
<1>11. pc'[r] = "done" /\ \A s \in Requests \ {r} : SameRequest(s)
  <2>1. pc'[r] = "done" /\ \A s \in Requests \ {r} : pc'[s] = pc[s] /\ answer'[s] = answer[s]
    BY <1>6, AnswerSets DEF Refuse, Inv
  <2> QED
    BY <1>6, <2>1 DEF SameRequest
<1>12. ASSUME NEW s \in Requests \ {r} PROVE RequestHolds(s)'
  <2>1. pc[s] = "write" => target[s] \in Tasks \ {i} /\ lock[target[s]] = s
    BY <1>2, JobsAndTasks DEF Inv, RequestHolds, Follows, HoldsRow
  <2>2. pc[s] = "write" => SameRow(target[s])
    BY <1>6, <1>7, <2>1 DEF SameRow, Release
  <2> QED
    BY <1>10, <1>11, <2>2, IdleRequest DEF Inv
<1>13. RequestHolds(r)'
  <2>1. CASE Answer(r, 200, new)
    <3>1. pc'[r] = "done" /\ answer'[r].code = 200 /\ answer'[r].task = new
      BY <2>1, AnswerSets DEF Inv
    <3>2. /\ m + 2 \in basis[r] .. Len(versions'[i]) /\ basis[r] >= 1
          /\ answer'[r].task = versions'[i][m + 2]
      BY <1>2, <1>8, <1>9, <3>1
    <3>3. Answered(r)'
      BY <1>2, <1>3, <1>6, <3>1, <3>2 DEF Answered, i, set
    <3> QED
      BY <1>1, <1>6, <3>1, <3>3 DEF RequestHolds, Follows, HasRead, HoldsRow, Cleared, Updates
  <2>2. CASE Refuse(r, 500)
    BY <1>1, <1>6, <2>2, RefusalHolds
  <2> QED
    BY <1>6, <2>1, <2>2
<1>14. ASSUME NEW k \in Tasks PROVE Kept(k)'
  <2>1. CASE k # i
    <3>1. \A n \in Revisions(k) : pc'[writers[k][n]] = "done"
      BY <1>1, <1>11, RevisionsAreOld DEF SameRequest
    <3> QED
      BY <1>6, <1>7, <2>1, <3>1 DEF Inv, Kept, Revisions, IsMember, GetRole, membership
  <2>2. CASE k = i
    <3>1. ASSUME NEW n \in 1 .. m + 1 PROVE pc'[writers'[i][n]] = "done"
      <4>1. CASE n = m + 1
        BY <1>9, <1>11, <4>1
      <4>2. CASE n \in 1 .. m
        <5>1. n \in Revisions(i)
          BY <4>2 DEF Revisions, m
        <5>2. writers[i][n] \in Requests /\ pc[writers[i][n]] = "done"
          BY <1>2, <5>1, RevisionsAreOld
        <5> QED
          BY <1>1, <1>9, <1>11, <4>2, <5>2 DEF SameRequest
      <4> QED
        BY <1>8, <4>1, <4>2
    <3>2. IsMember(tasks[i].team, tasks[i].author)
      BY <1>2 DEF Inv, Kept
    <3>3. new["assignee_to"] # None => IsMember(tasks[i].team, new["assignee_to"])
      <4>1. CASE new["assignee_to"] = old["assignee_to"]
        BY <1>2, <4>1 DEF Inv, Kept, old
      <4>2. CASE new["assignee_to"] # old["assignee_to"]
        <5>1. "assignee_to" \in changed
          BY <1>3, <4>2 DEF Fields
        <5>2. "assignee_to" \in DOMAIN set /\ new["assignee_to"] = set["assignee_to"]
          BY <1>3, <5>1
        <5>3. set["assignee_to"] # None => AcceptsAssignee(r)
          BY <1>1, <5>2 DEF Cleared, NamesAssignee, set
        <5> QED
          BY <1>4, <5>2, <5>3 DEF AcceptsAssignee, set
      <4> QED
        BY <4>1, <4>2
    <3>4. role' = role
      BY <1>6 DEF membership
    <3>5. Len(history'[k]) = m + 1 /\ Len(versions'[k]) = m + 2 /\ Len(writers'[k]) = m + 1
          /\ versions'[k][m + 2] = tasks'[k].row /\ tasks'[k] # None
      BY <1>7, <1>9, <2>2
    <3>6. \A n \in Revisions(k)' : pc'[writers'[k][n]] = "done"
      BY <2>2, <3>1, <3>5 DEF Revisions
    <3>7. role'[tasks'[k].team][tasks'[k].author] # NoRole /\
          (tasks'[k].row["assignee_to"] # None => role'[tasks'[k].team][tasks'[k].row["assignee_to"]] # NoRole)
      BY <1>7, <2>2, <3>2, <3>3, <3>4 DEF IsMember, GetRole
    <3> QED
      BY <1>8, <3>5, <3>6, <3>7 DEF Kept, IsMember, GetRole
  <2> QED
    BY <2>1, <2>2
<1>15. AuditTrail'
  <2>1. ASSUME NEW k \in Tasks PROVE (tasks[k] # None => Audited(k))'
    <3>1. CASE k # i
      BY <1>7, <3>1, UntouchedTask DEF SameTask
    <3>2. CASE k = i
      <4>1. Records(revision, old, new)
        BY <1>2, <1>3, <1>5 DEF Records
      <4>2. ASSUME NEW n \in 1 .. m
            PROVE  Records(history'[i][n], versions'[i][n], versions'[i][n + 1])
        <5>1. Audited(i) /\ n \in Revisions(i)
          BY <1>2, TaskByTask DEF Inv, Revisions, m
        <5>2. versions'[i][n] = versions[i][n] /\ versions'[i][n + 1] = versions[i][n + 1]
              /\ history'[i][n] = history[i][n]
          <6>1. n \in 1 .. m /\ n \in 1 .. m + 1 /\ n + 1 \in 1 .. m + 1
            BY <1>8
          <6> QED
            BY <1>9, <6>1
        <5> QED
          BY <5>1, <5>2 DEF Audited
      <4>3. ASSUME NEW n \in 1 .. m + 1
            PROVE  Records(history'[i][n], versions'[i][n], versions'[i][n + 1])
        <5>1. CASE n = m + 1
          <6>1. versions'[i][n] = old /\ versions'[i][n + 1] = new /\ history'[i][n] = revision
            BY <1>8, <1>9, <5>1
          <6> QED
            BY <4>1, <6>1
        <5>2. CASE n \in 1 .. m
          BY <4>2, <5>2
        <5> QED
          BY <1>8, <5>1, <5>2
      <4> QED
        BY <1>7, <1>8, <1>9, <3>2, <4>3 DEF Audited, Revisions
    <3> QED
      BY <3>1, <3>2
  <2> QED
    BY <2>1, TaskByTask
<1>16. WritesAuthorised'
  <2>1. ASSUME NEW k \in Tasks, NEW n \in Revisions(k)' PROVE RevisionAuthorised(k, n)'
    <3>1. CASE k = i /\ n = m + 1
      <4>1. history'[k][n] = revision /\ writers'[k][n] = r /\ tasks'[k].team = tasks[i].team
        BY <1>7, <1>9, <3>1
      <4>2. Authorised(r)
        BY <1>1 DEF Cleared, Authorised
      <4>3. role[tasks[i].team][job[r].actor] # "stranger"
        BY <1>4, <4>2 DEF Authorised, IsMember, GetRole, NoRole
      <4>4. role[tasks[i].team][job[r].actor] \notin {"owner", "admin"} =>
              /\ "assignee_to" \notin DOMAIN set
              /\ versions[i][basis[r]]["assignee_to"] = job[r].actor
        BY <1>1, <1>4, <4>2 DEF Authorised, CanManageAnyTask, GetRole, set, i
      <4>5. basis[r] \in 1 .. n /\ versions'[i][basis[r]] = versions[i][basis[r]]
        BY <1>2, <1>8, <1>9, <3>1
      <4>6. \A f \in DOMAIN revision.new : f \in DOMAIN set /\ revision.new[f] = set[f]
        BY <1>3, <1>5
      <4>7. UNCHANGED <<job, basis, role>>
        BY <1>6 DEF membership
      <4> QED
        BY <1>5, <3>1, <4>1, <4>3, <4>4, <4>5, <4>6, <4>7
        DEF RevisionAuthorised, ManagesTask, GetRole, set
    <3>2. CASE ~(k = i /\ n = m + 1)
      <4>1. n \in Revisions(k) /\ history'[k][n] = history[k][n] /\ writers'[k][n] = writers[k][n]
        BY <1>7, <1>8, <1>9, <3>2 DEF Revisions, m
      <4> QED
        BY <1>6, <1>10, <4>1, RevisionStays
    <3> QED
      BY <3>1, <3>2
  <2> QED
    BY <2>1, RevisionByRevision
<1>17. OneOwner'
  BY <1>6 DEF Inv, OneOwner, IsMember, GetRole, membership
<1> QED
  BY <1>11, <1>12, <1>13, <1>14, <1>15, <1>16, <1>17 DEF Inv

LEMMA StepInv == Inv /\ [Next]_vars => Inv'
<1> SUFFICES ASSUME Inv, [Next]_vars PROVE Inv'
  OBVIOUS
<1>1. StateTyped'
  BY StepTyped
<1>2. ASSUME NEW r \in Requests, Work(r) PROVE Inv'
  BY <1>1, <1>2, ReadTaskInv, AuthorizeInv, CheckAssigneeInv, BeginInv, LockRowInv, CommitUpdateInv,
     InsertTaskInv, RereadInv DEF Work
<1>3. CASE UNCHANGED vars
  <2>1. UNCHANGED <<membership, stored>> /\ lock' = lock /\ \A r \in Requests : SameRequest(r)
    BY <1>3 DEF vars, control, SameRequest
  <2>2. ASSUME NEW r \in Requests PROVE RequestHolds(r)'
    BY <1>1, <2>1, UnchangedGrows, IdleRequest DEF Inv, SameRow, stored
  <2>3. ASSUME NEW i \in Tasks PROVE Kept(i)'
    BY <1>3 DEF Inv, Kept, Revisions, IsMember, GetRole, vars, stored, control, membership
  <2>4. AuditTrail'
    <3>1. ASSUME NEW i \in Tasks PROVE (tasks[i] # None => Audited(i))'
      BY <2>1, UntouchedTask DEF SameTask, stored
    <3> QED
      BY <3>1, TaskByTask
  <2>5. WritesAuthorised'
    <3> SUFFICES ASSUME NEW i \in Tasks, NEW n \in Revisions(i) PROVE RevisionAuthorised(i, n)'
      BY <2>1, RevisionByRevision DEF Revisions, stored
    <3> QED
      BY <2>1, UnchangedGrows, RevisionStays DEF Inv, SameRequest, stored
  <2>6. OneOwner'
    BY <2>1 DEF Inv, OneOwner, IsMember, GetRole, membership
  <2> QED
    BY <1>1, <2>2, <2>3, <2>4, <2>5, <2>6 DEF Inv
<1> QED
  BY <1>1, <1>2, <1>3, StartInv, FailInv, MembershipGrowsInv DEF Next

--------------------------------------------------------------------------------
(* Row locks, and the connections that transactions keep *)

LocksAreHeld ==
    \A i \in Tasks : lock[i] # None => pc[lock[i]] = "write" /\ target[lock[i]] = i

PoolIsKept ==
    /\ IsFiniteSet(InTransaction)
    /\ MaxOpenConns # 0 => Cardinality(InTransaction) <= MaxOpenConns

LEMMA LocksStep == Inv /\ LocksAreHeld /\ [Next]_vars => LocksAreHeld'
<1> SUFFICES ASSUME Inv, LocksAreHeld, [Next]_vars, NEW i \in Tasks, lock'[i] # None
             PROVE  pc'[lock'[i]] = "write" /\ target'[lock'[i]] = i
  BY DEF LocksAreHeld
<1> USE DEF Inv, StateTyped, RequestsTyped
<1>1. lock[i] # None => lock[i] \in Requests /\ pc[lock[i]] = "write" /\ target[lock[i]] = i
  BY DEF LocksAreHeld
<1>2. ASSUME NEW r \in Requests, pc[r] # "write", lock' = lock,
             \A s \in Requests \ {r} : pc'[s] = pc[s] /\ target'[s] = target[s]
      PROVE  pc'[lock'[i]] = "write" /\ target'[lock'[i]] = i
  BY <1>1, <1>2
<1>3. ASSUME NEW r \in Requests, Release(r),
             \A s \in Requests \ {r} : pc'[s] = pc[s] /\ target'[s] = target[s]
      PROVE  pc'[lock'[i]] = "write" /\ target'[lock'[i]] = i
  BY <1>1, <1>3 DEF Release
<1>4. ASSUME NEW r \in Requests, NEW j \in Inputs, Start(r, j)
      PROVE  pc'[lock'[i]] = "write" /\ target'[lock'[i]] = i
  BY <1>2, <1>4, GotoSets, AnswerSets DEF Start, Refuse
<1>5. ASSUME NEW r \in Requests, ReadTask(r) \/ Authorize(r) \/ CheckAssignee(r) \/ Begin(r) \/ Reread(r)
      PROVE  pc'[lock'[i]] = "write" /\ target'[lock'[i]] = i
  <2>1. pc[r] # "write" /\ lock' = lock /\ target' = target
    BY <1>5 DEF ReadTask, Authorize, CheckAssignee, Begin, Reread
  <2>2. \A s \in Requests \ {r} : pc'[s] = pc[s]
    BY <1>5, GotoSets, AnswerSets DEF ReadTask, Authorize, CheckAssignee, Begin, Reread, Proceed, Refuse
  <2> QED
    BY <1>2, <2>1, <2>2
<1>6. ASSUME NEW r \in Requests, LockRow(r)
      PROVE  pc'[lock'[i]] = "write" /\ target'[lock'[i]] = i
  <2>1. CASE Answer(r, 200, DiffBase(r)) /\ UNCHANGED lock
    BY <1>2, <1>6, <2>1, AnswerSets DEF LockRow
  <2>2. CASE Goto(r, "write") /\ lock' = [lock EXCEPT ![target[r]] = r]
    <3>1. pc'[r] = "write" /\ target' = target /\ \A s \in Requests \ {r} : pc'[s] = pc[s]
      BY <1>6, <2>2, GotoSets DEF LockRow
    <3> QED
      BY <1>1, <2>2, <3>1
  <2> QED
    BY <1>6, <2>1, <2>2 DEF LockRow
<1>7. ASSUME NEW r \in Requests, CommitUpdate(r)
      PROVE  pc'[lock'[i]] = "write" /\ target'[lock'[i]] = i
  <2>1. Release(r) /\ target' = target /\ \E code, task : Answer(r, code, task)
    BY <1>7 DEF CommitUpdate, Refuse
  <2> QED
    BY <1>3, <2>1, AnswerSets
<1>8. ASSUME NEW r \in Requests, NEW k \in Tasks, InsertTask(r, k)
      PROVE  pc'[lock'[i]] = "write" /\ target'[lock'[i]] = i
  <2>1. lock' = lock /\ pc[r] = "insert" /\ \A s \in Requests \ {r} : target'[s] = target[s]
    BY <1>8 DEF InsertTask
  <2>2. \A s \in Requests \ {r} : pc'[s] = pc[s]
    BY <1>8, GotoSets, AnswerSets DEF InsertTask, Refuse
  <2> QED
    BY <1>2, <2>1, <2>2
<1>9. ASSUME NEW r \in Requests, Fail(r)
      PROVE  pc'[lock'[i]] = "write" /\ target'[lock'[i]] = i
  BY <1>3, <1>9, AnswerSets DEF Fail, Refuse
<1>10. CASE (\E t \in Teams, u \in Users : MembershipGrows(t, u)) \/ UNCHANGED vars
  BY <1>1, <1>10 DEF MembershipGrows, control, vars
<1> QED
  BY <1>4, <1>5, <1>6, <1>7, <1>8, <1>9, <1>10 DEF Next, Work

LEMMA PoolStep == Inv /\ PoolIsKept /\ [Next]_vars => PoolIsKept'
<1> SUFFICES ASSUME Inv, PoolIsKept, [Next]_vars PROVE PoolIsKept'
  OBVIOUS
<1> USE DEF Inv
<1>1. ASSUME InTransaction' \subseteq InTransaction PROVE PoolIsKept'
  <2>1. IsFiniteSet(InTransaction') /\ Cardinality(InTransaction') <= Cardinality(InTransaction)
    BY <1>1, FS_Subset DEF PoolIsKept
  <2>2. Cardinality(InTransaction) \in Nat /\ Cardinality(InTransaction') \in Nat
    BY <2>1, FS_CardinalityType DEF PoolIsKept
  <2> QED
    BY <2>1, <2>2, MaxOpenConnsIsNatural DEF PoolIsKept
<1>2. ASSUME NEW r \in Requests, pc'[r] \in {"lock", "write"} => pc[r] \in {"lock", "write"},
             \A s \in Requests \ {r} : pc'[s] = pc[s]
      PROVE  PoolIsKept'
  BY <1>1, <1>2 DEF InTransaction
<1>3. ASSUME NEW r \in Requests, NEW j \in Inputs, Start(r, j) PROVE PoolIsKept'
  BY <1>2, <1>3, GotoSets, AnswerSets DEF Start, Refuse
<1>4. ASSUME NEW r \in Requests, ReadTask(r) \/ Authorize(r) \/ CheckAssignee(r) \/ Reread(r)
      PROVE  PoolIsKept'
  BY <1>2, <1>4, GotoSets, AnswerSets DEF ReadTask, Authorize, CheckAssignee, Reread, Proceed, Refuse
<1>5. ASSUME NEW r \in Requests, Begin(r) PROVE PoolIsKept'
  <2>1. InTransaction' = InTransaction \union {r}
    BY <1>5, GotoSets DEF Begin, InTransaction
  <2>2. Cardinality(InTransaction) \in Nat
    BY FS_CardinalityType DEF PoolIsKept
  <2>2a. IsFiniteSet(InTransaction') /\ Cardinality(InTransaction') <= Cardinality(InTransaction) + 1
    BY <2>1, <2>2, FS_AddElement DEF PoolIsKept
  <2>3. Cardinality(InTransaction') \in Nat
    BY <2>2a, FS_CardinalityType
  <2> QED
    BY <1>5, <2>2, <2>2a, <2>3, MaxOpenConnsIsNatural DEF Begin, HasConn, PoolIsKept
<1>6. ASSUME NEW r \in Requests, LockRow(r) PROVE PoolIsKept'
  BY <1>2, <1>6, GotoSets, AnswerSets DEF LockRow
<1>7. ASSUME NEW r \in Requests, CommitUpdate(r) \/ Fail(r) PROVE PoolIsKept'
  <2>1. \E code, task : Answer(r, code, task)
    BY <1>7 DEF CommitUpdate, Fail, Refuse
  <2> QED
    BY <1>2, <2>1, AnswerSets
<1>8. ASSUME NEW r \in Requests, NEW i \in Tasks, InsertTask(r, i) PROVE PoolIsKept'
  BY <1>2, <1>8, GotoSets, AnswerSets DEF InsertTask, Refuse
<1>9. CASE (\E t \in Teams, u \in Users : MembershipGrows(t, u)) \/ UNCHANGED vars
  BY <1>1, <1>9 DEF MembershipGrows, control, vars, InTransaction
<1> QED
  BY <1>3, <1>4, <1>5, <1>6, <1>7, <1>8, <1>9 DEF Next, Work

LEMMA InvariantHolds == Spec => [](Inv /\ LocksAreHeld /\ PoolIsKept)
<1>1. Init => LocksAreHeld /\ PoolIsKept
  <2> SUFFICES ASSUME Init PROVE LocksAreHeld /\ PoolIsKept
    OBVIOUS
  <2>1. InTransaction = {}
    BY DEF Init, InTransaction
  <2> QED
    BY <2>1, FS_EmptySet, MaxOpenConnsIsNatural DEF Init, LocksAreHeld, PoolIsKept
<1> QED
  BY <1>1, InitInv, StepInv, LocksStep, PoolStep, PTL DEF Spec

--------------------------------------------------------------------------------
(* What the requests promise *)

(* Every variable keeps its type, a row lock belongs to a transaction that is  *)
(* about to write that row, and transactions never take more connections than  *)
(* the pool has, of whatever size.                                             *)
THEOREM Typing == Spec => []TypeOK
<1>1. Inv /\ LocksAreHeld /\ PoolIsKept => TypeOK
  <2> SUFFICES ASSUME Inv, LocksAreHeld, PoolIsKept PROVE TypeOK
    OBVIOUS
  <2>1. \A i \in Tasks : tasks[i] = None => history[i] = <<>> /\ lock[i] = None
    <3> SUFFICES ASSUME NEW i \in Tasks, tasks[i] = None, lock[i] # None PROVE FALSE
      BY DEF Inv, Kept
    <3>1. lock[i] \in Requests /\ pc[lock[i]] = "write" /\ target[lock[i]] = i
      BY DEF LocksAreHeld, Inv, StateTyped, RequestsTyped
    <3> QED
      BY <3>1 DEF Inv, RequestHolds, Follows, HasRead
  <2> QED
    BY <2>1 DEF Inv, LocksAreHeld, PoolIsKept, StateTyped, TablesTyped, RequestsTyped, Answers, TypeOK
<1> QED
  BY <1>1, InvariantHolds, PTL

(* However creations, reassignments and joins interleave, a task is assigned   *)
(* to a member of its own team or to nobody, and no task is out of everybody's *)
(* reach.                                                                      *)
THEOREM AssigneesBelong == Spec => []NoOrphanedAssignee
<1>1. Inv => NoOrphanedAssignee
  <2> SUFFICES ASSUME Inv PROVE NoOrphanedAssignee
    OBVIOUS
  <2>1. \A caller \in Users : OrphanedAssigneeTasks(caller) = {}
    BY DEF Inv, Kept, OrphanedAssigneeTasks
  <2>2. \A i \in Tasks : tasks[i] # None => \E caller \in Users : IsMember(tasks[i].team, caller)
    BY JobsAndTasks DEF Inv, Kept
  <2> QED
    BY <2>1, <2>2 DEF NoOrphanedAssignee
<1> QED
  BY <1>1, InvariantHolds, PTL

(* The revisions of a task are the differences between its committed rows, all *)
(* of them and in their order, for any number of updates that overlap.         *)
THEOREM AuditTrailIsTrue == Spec => []AuditTrail
BY InvariantHolds, PTL DEF Inv

(* No interleaving of reads, role changes and writes lets a request write what *)
(* it did not ask for, or what its author's role forbids.                      *)
THEOREM WritesAreAuthorised == Spec => []WritesAuthorised
BY InvariantHolds, PTL DEF Inv

(* A task that is returned was stored like that at some moment of the request, *)
(* and has all that an update asked for, on each of the three ways to 200.     *)
THEOREM AnswersWereCommitted == Spec => []AnswersAreCommitted
<1>1. Inv => AnswersAreCommitted
  BY DEF Inv, RequestHolds, Answered, AnswersAreCommitted
<1> QED
  BY <1>1, InvariantHolds, PTL

--------------------------------------------------------------------------------
(* The refinement: what is stored changes as on the board.                     *)

LEMMA FieldsAgree == Board!Fields = Fields
BY DEF Board!Fields, Fields

LEMMA InitBoard == Init => Board!Init
<1> SUFFICES ASSUME Init PROVE Board!Init
  OBVIOUS
<1>1. role \in [Teams -> [Users -> {"owner", "admin", "member", "stranger"}]]
  BY DEF Init, MembershipTypeOK, Roles, NoRole
<1>2. TaskRecords \subseteq [team : Teams, author : Users, row : [Fields -> Values]]
  BY DEF TaskRecords, Rows
<1>3. tasks \in [Tasks -> {None} \union [team : Teams, author : Users, row : [Fields -> Values]]]
  BY <1>2 DEF Init
<1> QED
  BY <1>1, <1>3, FieldsAgree
  DEF Init, Board!Init, Board!Belongs, Board!Assignable, IsMember, GetRole, NoRole

(* COMMIT is the edit: the rights checked long before still hold, and the diff *)
(* was taken from the row that is overwritten.                                 *)
LEMMA CommitIsEdit ==
  ASSUME Inv, NEW r \in Requests, CommitUpdate(r)
  PROVE  job[r].actor \in Users /\ target[r] \in Tasks /\ Board!Edit(target[r], job[r].actor)
<1> DEFINE i == target[r]
           set == job[r].set
           by == job[r].actor
           old == tasks[i].row
           diff == DiffTask(old, set)
           new == Overwrite(old, set, diff)
           changed == {f \in Fields : new[f] # old[f]}
<1>1. Follows(r) /\ HasRead(r) /\ HoldsRow(r) /\ Cleared(r)
      /\ pc[r] = "write" /\ Updates(r) /\ Valid(job[r])
  BY DEF Inv, RequestHolds, CommitUpdate, Follows
<1>2. i \in Tasks /\ tasks[i] # None /\ seen[r] = old /\ diff # {} /\ old \in Rows
      /\ basis[r] \in 1 .. Len(versions[i])
  BY <1>1, JobsAndTasks DEF HasRead, HoldsRow, Inv, Follows
<1>3. /\ new \in Rows /\ diff \subseteq Fields
      /\ \A f \in Fields : f \in diff <=> old[f] # new[f]
      /\ \A f \in diff : f \in DOMAIN set /\ new[f] = set[f]
  <2>1. job[r] \in UpdateJobs /\ Valid(job[r]) /\ old \in Rows
    BY <1>1, <1>2 DEF Updates
  <2>2. diff = DiffTask(old, job[r].set) /\ new = Overwrite(old, job[r].set, diff)
    OBVIOUS
  <2> HIDE DEF old, diff, new
  <2> QED
    BY <2>1, <2>2, UpdatedRow
<1>4. by \in Users /\ Team(r) = tasks[i].team
  BY <1>1, JobsAndTasks DEF Team, Inv
<1>5. /\ tasks' = [tasks EXCEPT ![i].row = new]
      /\ history' = [history EXCEPT ![i] =
            Append(@, [by |-> by, old |-> [f \in diff |-> old[f]], new |-> [f \in diff |-> set[f]]])]
      /\ role' = role
  BY <1>2 DEF CommitUpdate, membership
<1> HIDE DEF i, set, by, old, diff, new
<1>6. diff = changed
  BY <1>3
<1>7. tasks'[i].row = new
  <2>1. tasks[i] \in TaskRecords
    BY <1>2 DEF Inv, StateTyped, TablesTyped
  <2>2. tasks'[i] = [tasks[i] EXCEPT !.row = new]
    BY <1>2, <1>5 DEF Inv, StateTyped, TablesTyped
  <2> QED
    BY <2>1, <2>2 DEF TaskRecords
<1>8. [f \in diff |-> set[f]] = [f \in changed |-> new[f]] /\ [f \in diff |-> old[f]] = [f \in changed |-> old[f]]
  BY <1>3, <1>6
<1>9. new \in [Fields -> Values] /\ changed # {}
  BY <1>2, <1>3, <1>6 DEF Rows
<1>10. Authorised(r) /\ (NamesAssignee(job[r].set) => AcceptsAssignee(r))
  BY <1>1 DEF Cleared, Authorised
<1>11. role[tasks[i].team][by] # "stranger"
  BY <1>4, <1>10 DEF Authorised, IsMember, GetRole, NoRole, by
<1>12. ASSUME "assignee_to" \in changed
       PROVE  /\ role[tasks[i].team][by] \in {"owner", "admin"}
              /\ new["assignee_to"] = None \/ role[tasks[i].team][new["assignee_to"]] # "stranger"
  <2>1. "assignee_to" \in DOMAIN set /\ new["assignee_to"] = set["assignee_to"]
    BY <1>3, <1>6, <1>12
  <2>2. role[tasks[i].team][by] \in {"owner", "admin"}
    BY <1>1, <1>4, <1>10, <2>1 DEF Authorised, CanManageAnyTask, GetRole, by, set
  <2>3. set["assignee_to"] # None => role[tasks[i].team][set["assignee_to"]] # "stranger"
    BY <1>4, <1>10, <2>1 DEF NamesAssignee, AcceptsAssignee, IsMember, GetRole, NoRole, set
  <2> QED
    BY <2>1, <2>2, <2>3
<1>13. history' = [history EXCEPT ![i] =
          Append(@, [by |-> by, old |-> [f \in changed |-> old[f]], new |-> [f \in changed |-> new[f]]])]
  BY <1>5, <1>8
<1>14. Board!Edit(i, by)
  <2> DEFINE edited == {f \in Board!Fields : tasks'[i].row[f] # tasks[i].row[f]}
  <2>1. tasks[i].row = old
    BY DEF old
  <2>2. edited = changed
    BY <1>7, <2>1, FieldsAgree
  <2>3. history' = [history EXCEPT ![i] =
            Append(@, [by |-> by, old |-> [f \in edited |-> tasks[i].row[f]],
                                  new |-> [f \in edited |-> tasks'[i].row[f]]])]
    BY <1>7, <1>13, <2>1, <2>2
  <2>4. tasks[i] # None /\ tasks' = [tasks EXCEPT ![i].row = tasks'[i].row] /\ role' = role
    BY <1>2, <1>5, <1>7
  <2>5. tasks'[i].row \in [Board!Fields -> Values] /\ edited # {}
    BY <1>7, <1>9, <2>2, FieldsAgree
  <2>6. /\ Board!Belongs(tasks[i].team, by)
        /\ "assignee_to" \in edited =>
              /\ role[tasks[i].team][by] \in {"owner", "admin"}
              /\ Board!Assignable(tasks[i].team, tasks'[i].row["assignee_to"])
    BY <1>7, <1>11, <1>12, <2>2 DEF Board!Belongs, Board!Assignable
  <2> QED
    BY <2>3, <2>4, <2>5, <2>6 DEF Board!Edit
<1> QED
  BY <1>2, <1>4, <1>14 DEF i, by

(* INSERT is the creation. *)
LEMMA InsertIsCreate ==
  ASSUME Inv, NEW r \in Requests, NEW i \in Tasks, InsertTask(r, i)
  PROVE  Team(r) \in Teams /\ job[r].actor \in Users /\ Board!Create(i, job[r].actor, Team(r))
<1> DEFINE row == NewRow(job[r].set)
<1>1. Follows(r) /\ Cleared(r) /\ pc[r] = "insert" /\ Creates(r) /\ Valid(job[r])
  BY DEF Inv, RequestHolds, InsertTask, Follows
<1>2. /\ row \in Rows /\ row["status"] = "todo"
      /\ row["assignee_to"] = (IF NamesAssignee(job[r].set) THEN job[r].set["assignee_to"] ELSE None)
  BY <1>1, CreatedRow DEF Creates
<1>3. Team(r) \in Teams /\ job[r].actor \in Users
  BY <1>1, JobsAndTasks DEF Team, Inv
<1>4. /\ tasks[i] = None
      /\ tasks' = [tasks EXCEPT ![i] = [team |-> Team(r), author |-> job[r].actor, row |-> row]]
      /\ role' = role /\ history' = history
  BY DEF InsertTask, membership
<1>5. tasks'[i] = [team |-> Team(r), author |-> job[r].actor, row |-> row] /\ tasks'[i].row = row
  BY <1>4 DEF Inv, StateTyped, TablesTyped
<1>6. tasks'[i] # None
  <2>1. tasks'[i] \in TaskRecords
    BY <1>2, <1>3, <1>5 DEF TaskRecords
  <2> QED
    BY <2>1, NoneIsNoRow
<1>7. Authorised(r) /\ (NamesAssignee(job[r].set) => AcceptsAssignee(r))
  BY <1>1 DEF Cleared, Authorised
<1>8. /\ role[Team(r)][job[r].actor] # "stranger"
      /\ row["assignee_to"] = None \/ role[Team(r)][row["assignee_to"]] # "stranger"
  BY <1>2, <1>7 DEF Authorised, NamesAssignee, AcceptsAssignee, IsMember, GetRole, NoRole
<1>9. row \in [Fields -> Values]
  BY <1>2 DEF Rows
<1> HIDE DEF row
<1> QED
  BY <1>2, <1>3, <1>4, <1>5, <1>6, <1>8, <1>9, FieldsAgree
  DEF Board!Create, Board!Belongs, Board!Assignable

LEMMA GrowthIsJoin ==
  ASSUME Inv, NEW t \in Teams, NEW u \in Users, MembershipGrows(t, u)
  PROVE  Board!Join(t, u)
<1>1. role[t][u] = NoRole
  BY DEF MembershipGrows, CreateWithOwner, AddMember, DuplicateKey, IsMember, GetRole, Inv, OneOwner
<1>2. \E r \in {"owner", "member"} : role' = [role EXCEPT ![t][u] = r]
  BY DEF MembershipGrows, CreateWithOwner, AddMember
<1> QED
  BY <1>1, <1>2 DEF MembershipGrows, stored, Board!Join, Board!Belongs, NoRole

LEMMA StepBoard == Inv /\ [Next]_vars => [Board!Next]_(Board!board)
<1> SUFFICES ASSUME Inv, [Next]_vars PROVE Board!Next \/ UNCHANGED <<role, tasks, history>>
  BY DEF Board!board
<1>1. ASSUME NEW r \in Requests, Work(r) \/ Fail(r) \/ \E j \in Inputs : Start(r, j)
      PROVE  Board!Next \/ UNCHANGED <<role, tasks, history>>
  <2>1. CASE CommitUpdate(r)
    BY <2>1, CommitIsEdit DEF Board!Next
  <2>2. ASSUME NEW i \in Tasks, InsertTask(r, i) PROVE Board!Next
    BY <2>2, InsertIsCreate DEF Board!Next
  <2>3. CASE ReadTask(r) \/ Authorize(r) \/ CheckAssignee(r) \/ Begin(r) \/ LockRow(r)
             \/ Reread(r) \/ Fail(r) \/ \E j \in Inputs : Start(r, j)
    BY <2>3 DEF ReadTask, Authorize, CheckAssignee, Begin, LockRow, Reread, Fail, Start, membership, stored
  <2> QED
    BY <1>1, <2>1, <2>2, <2>3 DEF Work
<1>2. ASSUME NEW t \in Teams, NEW u \in Users, MembershipGrows(t, u) PROVE Board!Next
  BY <1>2, GrowthIsJoin DEF Board!Next
<1>3. CASE UNCHANGED vars
  BY <1>3 DEF vars, membership, stored
<1> QED
  BY <1>1, <1>2, <1>3 DEF Next

(* The separate calls of Update and Create, in any interleaving and with any   *)
(* failure, implement the board: each task is created and edited in a single   *)
(* authorised step that leaves a true revision.                                *)
THEOREM RequestsImplementTheBoard == Spec => ImplementsBoard
BY InitBoard, StepBoard, InvariantHolds, PTL DEF Spec, ImplementsBoard, Board!Spec

================================================================================
